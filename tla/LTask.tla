------------------------------- MODULE LTask --------------------------------
(***************************************************************************)
(* _LTaskClass (cores/arduino/LTask.cpp) and the main thread's side of it, *)
(* __handle_sysevt (cores/arduino/main.cpp).                               *)
(*                                                                         *)
(* A sketch thread runs remoteCall: it locks the object's mutex, fills the *)
(* object's only m_msg, sends the main thread the ADDRESS of m_msg and     *)
(* waits for the object's signal.  The main thread takes the messages in   *)
(* order and runs remote_func(userdata).  A function that returns true is  *)
(* finished and __handle_sysevt posts the signal; one that returns false   *)
(* has left a request with a driver, whose event callback, later and also  *)
(* on the main thread, stores the result and calls post_signal().          *)
(* userdata points into the stack frame of the calling thread, so it is    *)
(* modelled by that thread.                                                *)
(*                                                                         *)
(* The functions modelled here keep the discipline the protocol relies on: *)
(* true with nothing left behind, or false with exactly one callback.  The *)
(* library modules say which functions of the repository keep it.          *)
(***************************************************************************)
EXTENDS Naturals, Sequences

CONSTANTS Threads,    \* threads that may call remoteCall
          Tasks,      \* the _LTaskClass objects
          Users,      \* Users[k]: the threads that call object k
          Signals,    \* the signals vm_signal_create can return
          NoThread, NoTask, NoSignal

ASSUME NullsAssumption == /\ NoThread \notin Threads
                          /\ NoTask \notin Tasks
                          /\ NoSignal \notin Signals

ASSUME UsersAssumption == Users \in [Tasks -> SUBSET Threads]

\* No two threads share the object.  main.cpp starts one sketch thread, so
\* every object of an unmodified sketch is private.
Private(k) == \A t, u \in Users[k] : t = u

VARIABLES
    m_mutex,    \* owner of the object's mutex
    m_signal,   \* the object's signal; NoSignal also stands for m_handle == 0
    m_msg,      \* the object's message: the frame and the signal it names
    posted,     \* signals that are set
    queue,      \* main thread's message queue: objects whose &m_msg was sent
    posting,    \* object whose function returned true, signal not yet posted
    deferred,   \* requests whose event callback is still to come
    pc,         \* where each thread is in remoteCall
    at,         \* the object it is calling
    served      \* history: the result of the thread's call has been stored

vars == <<m_mutex, m_signal, m_msg, posted, queue, posting, deferred, pc, at,
          served>>

object == <<m_mutex, m_signal, m_msg>>
main == <<queue, posting, deferred>>
thread == <<pc, at, served>>

Message == [userdata : Threads, signal : Signals]
Request == [task : Tasks, userdata : Threads]
NoMessage == [userdata |-> NoThread, signal |-> NoSignal]

TypeOK ==
    /\ m_mutex \in [Tasks -> Threads \cup {NoThread}]
    /\ m_signal \in [Tasks -> Signals \cup {NoSignal}]
    /\ m_msg \in [Tasks -> Message \cup {NoMessage}]
    /\ posted \in SUBSET Signals
    /\ queue \in Seq(Tasks)
    /\ posting \in Tasks \cup {NoTask}
    /\ deferred \in SUBSET Request
    /\ pc \in [Threads -> {"idle", "begin", "lock", "fill", "send", "wait",
                           "unlock"}]
    /\ at \in [Threads -> Tasks \cup {NoTask}]
    /\ served \in [Threads -> BOOLEAN]

\* Signals that exist; vm_signal_create returns another one.
Live == {m_signal[k] : k \in Tasks} \ {NoSignal}

\* Constructed objects.  An object that several threads share was begun while
\* there was one thread: begin() itself is not protected against a second one.
Init ==
    /\ m_mutex = [k \in Tasks |-> NoThread]
    /\ m_signal \in [Tasks -> Signals \cup {NoSignal}]
    /\ \A k \in Tasks : ~Private(k) => m_signal[k] # NoSignal
    /\ \A j, k \in Tasks : m_signal[j] = m_signal[k] => j = k \/ m_signal[k] = NoSignal
    /\ m_msg = [k \in Tasks |-> NoMessage]
    /\ posted = {}
    /\ queue = << >>
    /\ posting = NoTask
    /\ deferred = {}
    /\ pc = [t \in Threads |-> "idle"]
    /\ at = [t \in Threads |-> NoTask]
    /\ served = [t \in Threads |-> FALSE]

----------------------------------------------------------------------------
(* The calling thread *)

Goto(t, label) == pc' = [pc EXCEPT ![t] = label]

\* remoteCall is entered; it begins the object first if that was not done.
Call(t, k) ==
    /\ pc[t] = "idle"
    /\ t \in Users[k]
    /\ at' = [at EXCEPT ![t] = k]
    /\ served' = [served EXCEPT ![t] = FALSE]
    /\ Goto(t, IF m_signal[k] = NoSignal THEN "begin" ELSE "lock")
    /\ UNCHANGED <<object, posted, main>>

\* begin(): a fresh mutex and a fresh, clear signal.
Create(k, s) ==
    /\ s \in Signals \ Live
    /\ m_signal' = [m_signal EXCEPT ![k] = s]
    /\ m_mutex' = [m_mutex EXCEPT ![k] = NoThread]

Begin(t) ==
    /\ pc[t] = "begin"
    /\ \E s \in Signals : Create(at[t], s) /\ posted' = posted \ {s}
    /\ Goto(t, "lock")
    /\ UNCHANGED <<m_msg, main, at, served>>

\* Mutated form: remoteCall without mutexLock().
LockNothing(t) ==
    /\ pc[t] = "lock"
    /\ m_mutex' = [m_mutex EXCEPT ![at[t]] = t]
    /\ Goto(t, "fill")
    /\ UNCHANGED <<m_signal, m_msg, posted, main, at, served>>

Lock(t) ==
    /\ pc[t] = "lock"
    /\ m_mutex[at[t]] = NoThread
    /\ m_mutex' = [m_mutex EXCEPT ![at[t]] = t]
    /\ Goto(t, "fill")
    /\ UNCHANGED <<m_signal, m_msg, posted, main, at, served>>

Fill(t) ==
    /\ pc[t] = "fill"
    /\ m_msg' = [m_msg EXCEPT ![at[t]] = [userdata |-> t, signal |-> m_signal[at[t]]]]
    /\ Goto(t, "send")
    /\ UNCHANGED <<m_mutex, m_signal, posted, main, at, served>>

Send(t) ==
    /\ pc[t] = "send"
    /\ queue' = Append(queue, at[t])
    /\ Goto(t, "wait")
    /\ UNCHANGED <<object, posted, posting, deferred, at, served>>

\* Mutated form: the wait gives up before the signal is posted.
WaitTimesOut(t) ==
    /\ pc[t] = "wait"
    /\ posted' = posted \ {m_signal[at[t]]}
    /\ Goto(t, "unlock")
    /\ UNCHANGED <<object, main, at, served>>

\* vm_signal_wait returns once the signal is set, and consumes it: nothing
\* else clears it between two calls.
Wait(t) ==
    /\ pc[t] = "wait"
    /\ m_signal[at[t]] \in posted
    /\ posted' = posted \ {m_signal[at[t]]}
    /\ Goto(t, "unlock")
    /\ UNCHANGED <<object, main, at, served>>

Unlock(t) ==
    /\ pc[t] = "unlock"
    /\ m_mutex' = [m_mutex EXCEPT ![at[t]] = NoThread]
    /\ at' = [at EXCEPT ![t] = NoTask]
    /\ Goto(t, "idle")
    /\ UNCHANGED <<m_signal, m_msg, posted, main, served>>

\* stop(), which only the end() functions of the Bluetooth libraries call, on
\* the one thread that uses the object.
Stop(t, k) ==
    /\ pc[t] = "idle"
    /\ Users[k] = {t}
    /\ posted' = posted \ {m_signal[k]}
    /\ m_signal' = [m_signal EXCEPT ![k] = NoSignal]
    /\ UNCHANGED <<m_mutex, m_msg, main, thread>>

----------------------------------------------------------------------------
(* The main thread *)

Idle == posting = NoTask

\* Mutated form: the function returns true although its request will still be
\* answered by a callback.
DispatchTrueTooEarly ==
    /\ Idle /\ queue # << >>
    /\ queue' = Tail(queue)
    /\ posting' = Head(queue)
    /\ served' = [served EXCEPT ![m_msg[Head(queue)].userdata] = TRUE]
    /\ deferred' = deferred \cup
         {[task |-> Head(queue), userdata |-> m_msg[Head(queue)].userdata]}
    /\ UNCHANGED <<object, posted, pc, at>>

\* __handle_sysevt runs a function that finishes and returns true.  The message
\* is read through its address now, not when it was sent.
DispatchTrue ==
    /\ Idle /\ queue # << >>
    /\ queue' = Tail(queue)
    /\ posting' = Head(queue)
    /\ served' = [served EXCEPT ![m_msg[Head(queue)].userdata] = TRUE]
    /\ UNCHANGED <<object, posted, deferred, pc, at>>

\* The function returned true: __handle_sysevt posts the message's signal.
PostResult ==
    /\ ~Idle
    /\ posted' = posted \cup {m_msg[posting].signal}
    /\ posting' = NoTask
    /\ UNCHANGED <<object, queue, deferred, thread>>

\* It runs a function that starts a request, keeps userdata and returns false.
DispatchFalse ==
    /\ Idle /\ queue # << >>
    /\ queue' = Tail(queue)
    /\ deferred' = deferred \cup
         {[task |-> Head(queue), userdata |-> m_msg[Head(queue)].userdata]}
    /\ UNCHANGED <<object, posted, posting, thread>>

\* post_signal(): the object's current signal, and begin() if it has none.
PostSignal(k) ==
    IF m_signal[k] # NoSignal
    THEN posted' = posted \cup {m_signal[k]} /\ UNCHANGED <<m_mutex, m_signal>>
    ELSE \E s \in Signals : Create(k, s) /\ posted' = posted \cup {s}

\* Mutated form: a callback with an error branch that does not post.
CallbackForgets(d) ==
    /\ Idle
    /\ deferred' = deferred \ {d}
    /\ served' = [served EXCEPT ![d.userdata] = TRUE]
    /\ UNCHANGED <<object, posted, queue, posting, pc, at>>

\* The driver's event: the callback stores the result through the saved
\* pointer, forgets it and posts.
Callback(d) ==
    /\ Idle
    /\ deferred' = deferred \ {d}
    /\ served' = [served EXCEPT ![d.userdata] = TRUE]
    /\ PostSignal(d.task)
    /\ UNCHANGED <<m_msg, queue, posting, pc, at>>

----------------------------------------------------------------------------
(* The specification *)

Step(t) == Begin(t) \/ Lock(t) \/ Fill(t) \/ Send(t) \/ Wait(t) \/ Unlock(t)

Main == DispatchTrue \/ DispatchFalse \/ PostResult

Next ==
    \/ \E t \in Threads, k \in Tasks : Call(t, k) \/ Stop(t, k)
    \/ \E t \in Threads : Step(t)
    \/ Main
    \/ \E d \in deferred : Callback(d)

\* The scheduler runs a thread that can run and the main loop takes the next
\* message; a driver answers every request it accepted, and its event waits in
\* the main thread's queue with the messages, so that it is served however busy
\* the other objects keep that thread (hence SF).  Nothing is assumed about who
\* gets a contended mutex, nor that a sketch ever makes a call.
Fairness ==
    /\ \A t \in Threads : WF_vars(Step(t))
    /\ WF_vars(Main)
    /\ \A d \in Request : SF_vars(d \in deferred /\ Callback(d))

Spec == Init /\ [][Next]_vars

FairSpec == Spec /\ Fairness

----------------------------------------------------------------------------
(* Properties *)

Queued(k) == \E i \in DOMAIN queue : queue[i] = k
Posting(k) == posting = k
Deferred(k) == \E d \in deferred : d.task = k
Signalled(k) == m_signal[k] \in posted
Waiting(k) == \E t \in Threads : at[t] = k /\ pc[t] = "wait"

\* While a thread waits for an object there is exactly one thing under way that
\* will wake it, and when none waits there is nothing: no signal is left set
\* for the next call to trip over (LTask.cpp:100 never clears it), and no
\* message, function or callback of an earlier call is still on its way.
OneAnswer ==
    \A k \in Tasks :
        /\ Waiting(k) <=> Queued(k) \/ Posting(k) \/ Deferred(k) \/ Signalled(k)
        /\ Queued(k) => ~Posting(k) /\ ~Deferred(k) /\ ~Signalled(k)
        /\ Posting(k) => ~Deferred(k) /\ ~Signalled(k)
        /\ Deferred(k) => ~Signalled(k)

\* remoteCall gives userdata the address of a local variable of its caller.
\* Every such address the main thread can still follow, through a queued m_msg
\* or a callback's saved pointer, belongs to a thread still inside that call.
NoDanglingUserdata ==
    /\ \A k \in Tasks : Queued(k) =>
         /\ m_msg[k].userdata \in Threads
         /\ at[m_msg[k].userdata] = k /\ pc[m_msg[k].userdata] = "wait"
    /\ \A d \in deferred : at[d.userdata] = d.task /\ pc[d.userdata] = "wait"

\* No call returns before its own function has stored the result.
ReturnsServed == \A t \in Threads : pc[t] = "unlock" => served[t]

\* A call of an object no other thread uses returns; of a shared one, once the
\* caller has the mutex.
CallsReturn ==
    \A t \in Threads :
        /\ (pc[t] = "fill") ~> (pc[t] = "idle")
        /\ \A k \in Tasks : Private(k) => ((at[t] = k) ~> (pc[t] = "idle"))

----------------------------------------------------------------------------
(* LTask implements the contract *)

\* Object k serves the thread that owns its mutex.
callBar ==
    [k \in Tasks |->
        IF m_mutex[k] = NoThread
        THEN [phase |-> "free"]
        ELSE [phase |-> IF served[m_mutex[k]] THEN "done" ELSE "called",
              caller |-> m_mutex[k]]]

Contract == INSTANCE RemoteCall WITH call <- callBar

\* Every behaviour of the objects and the main thread is one the contract allows:
\* calls of one object never overlap, each is completed once, before it returns,
\* and every call taken is completed and returns.
ImplementsContract == Contract!Spec
=============================================================================
