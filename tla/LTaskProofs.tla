----------------------------- MODULE LTaskProofs -----------------------------
(***************************************************************************)
(* The safety of the remote call, for any number of threads, objects and   *)
(* signals: the inductive invariant IInv, the properties it gives, and the *)
(* step simulation of RemoteCall.                                          *)
(***************************************************************************)
EXTENDS LTask, TLAPS

Inside == {"fill", "send", "wait", "unlock"}

\* The mutex of an object is owned by the thread inside its call.
MutexInv ==
    /\ \A t \in Threads : pc[t] = "idle" <=> at[t] = NoTask
    /\ \A t \in Threads : at[t] \in Tasks => t \in Users[at[t]]
    /\ \A k \in Tasks, t \in Threads :
         m_mutex[k] = t <=> at[t] = k /\ pc[t] \in Inside

\* An object being called has a signal, its own; no set signal is without owner.
SignalInv ==
    /\ \A j, k \in Tasks :
         m_signal[j] = m_signal[k] /\ m_signal[j] # NoSignal => j = k
    /\ \A t \in Threads : pc[t] \notin {"idle", "begin"} => m_signal[at[t]] # NoSignal
    /\ \A k \in Tasks : ~Private(k) => m_signal[k] # NoSignal
    /\ \A t \in Threads : pc[t] = "begin" => m_signal[at[t]] = NoSignal
    /\ \A s \in posted : \E k \in Tasks : m_signal[k] = s

\* The message of an object whose caller has sent it is that caller's.
MessageInv ==
    \A t \in Threads : pc[t] \in {"send", "wait"} =>
        m_msg[at[t]] = [userdata |-> t, signal |-> m_signal[at[t]]]

\* A message is queued once, a request is outstanding once.
OnceInv ==
    /\ \A i, j \in DOMAIN queue : queue[i] = queue[j] => i = j
    /\ \A d, e \in deferred : d.task = e.task => d = e
    /\ \A d \in deferred : at[d.userdata] = d.task /\ pc[d.userdata] = "wait"

\* The result has been stored exactly when the answer is being posted.
ServedInv ==
    \A t \in Threads :
        /\ pc[t] \in {"begin", "lock", "fill", "send"} => ~served[t]
        /\ pc[t] = "wait" => (served[t] <=> Posting(at[t]) \/ Signalled(at[t]))
        /\ pc[t] = "unlock" => served[t]

IInv == /\ TypeOK /\ MutexInv /\ SignalInv /\ MessageInv /\ OnceInv
        /\ OneAnswer /\ ServedInv

----------------------------------------------------------------------------
(* The queue *)

\* Taking the head of a queue that holds nothing twice takes that element out
\* of it, and leaves every other one in.
LEMMA TailLemma ==
    ASSUME NEW q \in Seq(Tasks), q # << >>,
           \A i, j \in DOMAIN q : q[i] = q[j] => i = j
    PROVE  /\ Head(q) \in Tasks /\ Tail(q) \in Seq(Tasks)
           /\ \E i \in DOMAIN q : q[i] = Head(q)
           /\ \A i, j \in DOMAIN Tail(q) : Tail(q)[i] = Tail(q)[j] => i = j
           /\ \A k : (\E i \in DOMAIN Tail(q) : Tail(q)[i] = k)
                        <=> k # Head(q) /\ \E i \in DOMAIN q : q[i] = k
<1> DEFINE n == Len(q)
<1>1. /\ n \in Nat \ {0} /\ DOMAIN q = 1..n /\ Head(q) = q[1] /\ Head(q) \in Tasks
      /\ Tail(q) \in Seq(Tasks) /\ Len(Tail(q)) = n - 1
      /\ DOMAIN Tail(q) = 1..(n - 1)
      /\ \A i \in 1..(n - 1) : Tail(q)[i] = q[i + 1]
  OBVIOUS
<1>2. ASSUME NEW i \in DOMAIN Tail(q), NEW j \in DOMAIN Tail(q), Tail(q)[i] = Tail(q)[j]
      PROVE  i = j
  <2>1. i + 1 \in DOMAIN q /\ j + 1 \in DOMAIN q /\ q[i + 1] = q[j + 1]
    BY <1>1, <1>2
  <2> QED  BY <2>1, <1>1
<1>3. ASSUME NEW k
      PROVE  (\E i \in DOMAIN Tail(q) : Tail(q)[i] = k)
                <=> k # Head(q) /\ \E i \in DOMAIN q : q[i] = k
  <2>1. ASSUME NEW i \in DOMAIN Tail(q), Tail(q)[i] = k
        PROVE  k # Head(q) /\ \E j \in DOMAIN q : q[j] = k
    <3>1. i + 1 \in DOMAIN q /\ q[i + 1] = k /\ 1 \in DOMAIN q /\ i + 1 # 1
      BY <1>1, <2>1
    <3> QED  BY <3>1, <1>1
  <2>2. ASSUME NEW i \in DOMAIN q, q[i] = k, k # Head(q)
        PROVE  \E j \in DOMAIN Tail(q) : Tail(q)[j] = k
    <3>1. i - 1 \in DOMAIN Tail(q) /\ Tail(q)[i - 1] = k
      BY <1>1, <2>2
    <3> QED  BY <3>1
  <2> QED  BY <2>1, <2>2
<1>4. 1 \in DOMAIN q /\ q[1] = Head(q)
  BY <1>1
<1> QED  BY <1>1, <1>2, <1>3, <1>4

\* Appending an element a queue does not hold adds that element and no other,
\* and the queue still holds nothing twice.
LEMMA AppendLemma ==
    ASSUME NEW q \in Seq(Tasks), NEW e \in Tasks,
           \A i, j \in DOMAIN q : q[i] = q[j] => i = j,
           ~ \E i \in DOMAIN q : q[i] = e
    PROVE  /\ Append(q, e) \in Seq(Tasks)
           /\ \A i, j \in DOMAIN Append(q, e) : Append(q, e)[i] = Append(q, e)[j] => i = j
           /\ \A k : (\E i \in DOMAIN Append(q, e) : Append(q, e)[i] = k)
                        <=> k = e \/ \E i \in DOMAIN q : q[i] = k
<1> DEFINE n == Len(q)
           r == Append(q, e)
<1>1. /\ n \in Nat /\ DOMAIN q = 1..n
      /\ r \in Seq(Tasks) /\ DOMAIN r = 1..(n + 1)
      /\ r[n + 1] = e /\ \A i \in 1..n : r[i] = q[i]
  OBVIOUS
<1>2. \A i \in DOMAIN r : i \in DOMAIN q \/ i = n + 1
  BY <1>1
<1>3. DOMAIN q \subseteq DOMAIN r /\ n + 1 \in DOMAIN r
  BY <1>1
<1> HIDE DEF n, r
<1>4. \A i, j \in DOMAIN r : r[i] = r[j] => i = j
  BY <1>1, <1>2
<1>5. ASSUME NEW k
      PROVE  (\E i \in DOMAIN r : r[i] = k) <=> k = e \/ \E i \in DOMAIN q : q[i] = k
  BY <1>1, <1>2, <1>3
<1> QED  BY <1>1, <1>4, <1>5 DEF r

----------------------------------------------------------------------------
(* The invariant is inductive *)

LEMMA InitIInv == Init => IInv
<1> SUFFICES ASSUME Init PROVE IInv
  OBVIOUS
<1> USE NullsAssumption, UsersAssumption
<1>1. TypeOK
  BY DEF Init, TypeOK, Message, NoMessage, Request
<1>2. MutexInv
  BY DEF Init, MutexInv, Inside
<1>3. SignalInv
  BY DEF Init, SignalInv
<1>4. MessageInv /\ OnceInv /\ ServedInv
  BY DEF Init, MessageInv, OnceInv, ServedInv
<1>5. OneAnswer
  BY DEF Init, OneAnswer, Waiting, Queued, Posting, Deferred, Signalled
<1> QED  BY <1>1, <1>2, <1>3, <1>4, <1>5 DEF IInv

\* Whoever is waiting for an object is the one its message names, and the only
\* thread inside the object.
LEMMA WaiterLemma ==
    ASSUME IInv, NEW k \in Tasks, Waiting(k)
    PROVE  LET u == m_msg[k].userdata IN
           /\ u \in Threads /\ at[u] = k /\ pc[u] = "wait"
           /\ m_msg[k].signal = m_signal[k] /\ m_signal[k] \in Signals
           /\ \A t \in Threads : at[t] = k /\ pc[t] \in Inside => t = u
<1>1. PICK t \in Threads : at[t] = k /\ pc[t] = "wait"
  BY DEF Waiting
<1>2. m_msg[k] = [userdata |-> t, signal |-> m_signal[k]] /\ m_signal[k] # NoSignal
  BY <1>1 DEF IInv, MessageInv, SignalInv
<1>3. m_mutex[k] = t /\ \A u \in Threads : at[u] = k /\ pc[u] \in Inside => m_mutex[k] = u
  BY <1>1 DEF IInv, MutexInv, Inside
<1> QED  BY <1>1, <1>2, <1>3 DEF IInv, TypeOK

LEMMA CallStep ==
    ASSUME IInv, NEW t \in Threads, NEW k \in Tasks, Call(t, k)
    PROVE  IInv'
<1> USE NullsAssumption, UsersAssumption
<1> USE DEF IInv, Call, Goto, object, main
<1>1. TypeOK'
  BY DEF TypeOK, Message, NoMessage, Request
<1>2. MutexInv'
  BY DEF TypeOK, MutexInv, Inside
<1>3. SignalInv'
  BY DEF TypeOK, MutexInv, SignalInv, Private
<1>4. MessageInv'
  BY DEF TypeOK, MutexInv, SignalInv, MessageInv, Inside
<1>5. OnceInv'
  BY DEF TypeOK, MutexInv, MessageInv, OnceInv, OneAnswer, Waiting, Deferred, Queued
<1>6. OneAnswer'
  BY DEF TypeOK, MutexInv, SignalInv, MessageInv, OnceInv, OneAnswer, Inside, Waiting, Queued, Posting, Deferred, Signalled
<1>7. ServedInv'
  BY DEF TypeOK, MutexInv, SignalInv, MessageInv, OnceInv, ServedInv, OneAnswer, Waiting, Queued, Posting, Deferred, Signalled
<1> QED  BY <1>1, <1>2, <1>3, <1>4, <1>5, <1>6, <1>7

LEMMA StopStep ==
    ASSUME IInv, NEW t \in Threads, NEW k \in Tasks, Stop(t, k)
    PROVE  IInv'
<1> USE NullsAssumption, UsersAssumption
<1> USE DEF IInv, Stop, main, thread
<1>1. TypeOK'
  BY DEF TypeOK, Message, NoMessage, Request
<1>2. MutexInv'
  BY DEF TypeOK, MutexInv, Inside
<1>3. SignalInv'
  BY DEF TypeOK, MutexInv, SignalInv, Private
<1>4. MessageInv'
  BY DEF TypeOK, MutexInv, SignalInv, MessageInv, Inside
<1>5. OnceInv'
  BY DEF TypeOK, MutexInv, MessageInv, OnceInv, OneAnswer, Waiting, Deferred, Queued
<1>6. OneAnswer'
  BY DEF TypeOK, MutexInv, SignalInv, MessageInv, OnceInv, OneAnswer, Inside, Waiting, Queued, Posting, Deferred, Signalled
<1>7. ServedInv'
  BY DEF TypeOK, MutexInv, SignalInv, MessageInv, OnceInv, ServedInv, OneAnswer, Waiting, Queued, Posting, Deferred, Signalled
<1> QED  BY <1>1, <1>2, <1>3, <1>4, <1>5, <1>6, <1>7

LEMMA BeginStep ==
    ASSUME IInv, NEW t \in Threads, Begin(t)
    PROVE  IInv'
<1> USE NullsAssumption, UsersAssumption
<1> USE DEF IInv, Begin, Goto, Create, Live, main
<1> DEFINE k == at[t]
<1>a. PICK s \in Signals \ Live : /\ m_signal' = [m_signal EXCEPT ![k] = s]
                                  /\ m_mutex' = [m_mutex EXCEPT ![k] = NoThread]
                                  /\ posted' = posted \ {s}
  OBVIOUS
<1>b. /\ k \in Tasks /\ m_signal[k] = NoSignal
      /\ \A u \in Threads : at[u] = k => u = t
  <2>1. k \in Tasks /\ m_signal[k] = NoSignal
    BY DEF TypeOK, MutexInv, SignalInv
  <2>2. \A u, v \in Users[k] : u = v
    BY <2>1 DEF SignalInv, Private
  <2>3. \A u \in Threads : at[u] = k => u \in Users[k]
    BY <2>1 DEF MutexInv
  <2> QED  BY <2>1, <2>2, <2>3
<1>c. \A j \in Tasks : m_signal[j] # s
  BY <1>a DEF Live
<1>d. m_mutex[k] = NoThread /\ m_mutex' = m_mutex /\ posted' = posted
  BY <1>a, <1>b, <1>c DEF TypeOK, MutexInv, SignalInv, Inside
<1>1. TypeOK'
  BY <1>a, <1>d DEF TypeOK
<1>2. MutexInv'
  BY <1>b, <1>d DEF TypeOK, MutexInv, Inside
<1>3. SignalInv'
  BY <1>a, <1>b, <1>c, <1>d DEF TypeOK, SignalInv
<1>4. MessageInv'
  BY <1>a, <1>b DEF TypeOK, MessageInv
<1>5. OnceInv'
  BY DEF TypeOK, OnceInv
<1>6. OneAnswer'
  <2>1. /\ \A j \in Tasks : Waiting(j)' <=> Waiting(j)
        /\ \A j \in Tasks : Queued(j)' <=> Queued(j)
        /\ \A j \in Tasks : Posting(j)' <=> Posting(j)
        /\ \A j \in Tasks : Deferred(j)' <=> Deferred(j)
    BY DEF TypeOK, Waiting, Queued, Posting, Deferred
  <2>2. \A j \in Tasks : Signalled(j)' <=> Signalled(j)
    BY <1>a, <1>b, <1>c, <1>d DEF TypeOK, SignalInv, Signalled
  <2> QED  BY <2>1, <2>2 DEF OneAnswer
<1>7. ServedInv'
  BY <1>a, <1>b, <1>d DEF TypeOK, ServedInv, Posting, Signalled
<1> QED  BY <1>1, <1>2, <1>3, <1>4, <1>5, <1>6, <1>7

LEMMA LockStep ==
    ASSUME IInv, NEW t \in Threads, Lock(t)
    PROVE  IInv'
<1> USE NullsAssumption, UsersAssumption
<1> USE DEF IInv, Lock, Goto, main
<1>1. TypeOK'
  BY DEF TypeOK, Message, NoMessage, Request
<1>2. MutexInv'
  BY DEF TypeOK, MutexInv, Inside
<1>3. SignalInv'
  BY DEF TypeOK, MutexInv, SignalInv, Private
<1>4. MessageInv'
  BY DEF TypeOK, MutexInv, SignalInv, MessageInv, Inside
<1>5. OnceInv'
  BY DEF TypeOK, MutexInv, MessageInv, OnceInv, OneAnswer, Waiting, Deferred, Queued
<1>6. OneAnswer'
  <2>1. \A k \in Tasks : Waiting(k)' <=> Waiting(k)
    BY DEF TypeOK, Waiting
  <2> QED  BY <2>1 DEF OneAnswer, Queued, Posting, Deferred, Signalled
<1>7. ServedInv'
  BY DEF TypeOK, MutexInv, SignalInv, MessageInv, OnceInv, ServedInv, OneAnswer, Waiting, Queued, Posting, Deferred, Signalled
<1> QED  BY <1>1, <1>2, <1>3, <1>4, <1>5, <1>6, <1>7

LEMMA FillStep ==
    ASSUME IInv, NEW t \in Threads, Fill(t)
    PROVE  IInv'
<1> USE NullsAssumption, UsersAssumption
<1> USE DEF IInv, Fill, Goto, main
<1>1. TypeOK'
  <2>1. at[t] \in Tasks /\ m_signal[at[t]] \in Signals
    BY DEF TypeOK, MutexInv, SignalInv
  <2> QED  BY <2>1 DEF TypeOK, Message
<1>2. MutexInv'
  BY DEF TypeOK, MutexInv, Inside
<1>3. SignalInv'
  BY DEF TypeOK, MutexInv, SignalInv, Private
<1>4. MessageInv'
  BY DEF TypeOK, MutexInv, SignalInv, MessageInv, Inside
<1>5. OnceInv'
  BY DEF TypeOK, MutexInv, MessageInv, OnceInv, OneAnswer, Waiting, Deferred, Queued
<1>6. OneAnswer'
  <2>1. \A k \in Tasks : Waiting(k)' <=> Waiting(k)
    BY DEF TypeOK, Waiting
  <2> QED  BY <2>1 DEF OneAnswer, Queued, Posting, Deferred, Signalled
<1>7. ServedInv'
  BY DEF TypeOK, MutexInv, SignalInv, MessageInv, OnceInv, ServedInv, OneAnswer, Waiting, Queued, Posting, Deferred, Signalled
<1> QED  BY <1>1, <1>2, <1>3, <1>4, <1>5, <1>6, <1>7

LEMMA SendStep ==
    ASSUME IInv, NEW t \in Threads, Send(t)
    PROVE  IInv'
<1> USE NullsAssumption, UsersAssumption
<1> USE DEF IInv, Send, Goto, object
<1> DEFINE k == at[t]
<1>a. /\ k \in Tasks /\ ~Waiting(k)
      /\ \A u \in Threads : at[u] = k /\ pc[u] \in Inside => u = t
  BY DEF TypeOK, MutexInv, Inside, Waiting
<1>b. ~Queued(k) /\ ~Posting(k) /\ ~Deferred(k) /\ ~Signalled(k)
  BY <1>a DEF OneAnswer
<1>c. /\ queue' \in Seq(Tasks)
      /\ \A i, j \in DOMAIN queue' : queue'[i] = queue'[j] => i = j
      /\ \A j \in Tasks : Queued(j)' <=> j = k \/ Queued(j)
  <2>1. /\ queue \in Seq(Tasks) /\ queue' = Append(queue, k)
        /\ \A i, j \in DOMAIN queue : queue[i] = queue[j] => i = j
        /\ ~ \E i \in DOMAIN queue : queue[i] = k
    BY <1>b DEF TypeOK, OnceInv, Queued
  <2> DEFINE q == Append(queue, k)
  <2>2. /\ q \in Seq(Tasks)
        /\ \A i, j \in DOMAIN q : q[i] = q[j] => i = j
        /\ \A j : (\E i \in DOMAIN q : q[i] = j)
                     <=> j = k \/ \E i \in DOMAIN queue : queue[i] = j
    BY <1>a, <2>1, AppendLemma, Zenon
  <2> HIDE DEF k, q
  <2> QED  BY <2>1, <2>2, Zenon DEF Queued, q
<1>1. TypeOK'
  BY <1>c DEF TypeOK
<1>2. MutexInv'
  BY DEF TypeOK, MutexInv, Inside
<1>3. SignalInv'
  BY DEF TypeOK, MutexInv, SignalInv, Private
<1>4. MessageInv'
  BY DEF TypeOK, MutexInv, SignalInv, MessageInv, Inside
<1>5. OnceInv'
  BY <1>c DEF TypeOK, OnceInv
<1>6. OneAnswer'
  <2>1. \A j \in Tasks : Waiting(j)' <=> j = k \/ Waiting(j)
    BY <1>a DEF TypeOK, Waiting
  <2> QED  BY <1>b, <1>c, <2>1 DEF OneAnswer, Posting, Deferred, Signalled
<1>7. ServedInv'
  BY <1>a, <1>b DEF TypeOK, ServedInv, Posting, Signalled
<1> QED  BY <1>1, <1>2, <1>3, <1>4, <1>5, <1>6, <1>7

LEMMA WaitStep ==
    ASSUME IInv, NEW t \in Threads, Wait(t)
    PROVE  IInv'
<1> USE NullsAssumption, UsersAssumption
<1> USE DEF IInv, Wait, Goto, object, main
<1> DEFINE k == at[t]
<1>a. /\ k \in Tasks /\ Signalled(k)
      /\ \A u \in Threads : at[u] = k /\ pc[u] \in Inside => u = t
  BY DEF TypeOK, MutexInv, Inside, Signalled
<1>b. ~Queued(k) /\ ~Posting(k) /\ ~Deferred(k)
  BY <1>a DEF OneAnswer
<1>c. \A j \in Tasks : Signalled(j)' <=> j # k /\ Signalled(j)
  BY <1>a DEF TypeOK, SignalInv, Signalled
<1>1. TypeOK'
  BY DEF TypeOK, Message, NoMessage, Request
<1>2. MutexInv'
  BY DEF TypeOK, MutexInv, Inside
<1>3. SignalInv'
  BY DEF TypeOK, MutexInv, SignalInv, Private
<1>4. MessageInv'
  BY DEF TypeOK, MutexInv, SignalInv, MessageInv, Inside
<1>5. OnceInv'
  BY <1>b DEF TypeOK, OnceInv, Deferred
<1>6. OneAnswer'
  <2>1. \A j \in Tasks : Waiting(j)' <=> j # k /\ Waiting(j)
    BY <1>a DEF TypeOK, Waiting, Inside
  <2> QED  BY <1>b, <1>c, <2>1 DEF OneAnswer, Queued, Posting, Deferred
<1>7. ServedInv'
  BY <1>a, <1>c DEF TypeOK, MutexInv, Inside, ServedInv, Posting
<1> QED  BY <1>1, <1>2, <1>3, <1>4, <1>5, <1>6, <1>7

LEMMA UnlockStep ==
    ASSUME IInv, NEW t \in Threads, Unlock(t)
    PROVE  IInv'
<1> USE NullsAssumption, UsersAssumption
<1> USE DEF IInv, Unlock, Goto, main
<1>1. TypeOK'
  BY DEF TypeOK, Message, NoMessage, Request
<1>2. MutexInv'
  BY DEF TypeOK, MutexInv, Inside
<1>3. SignalInv'
  BY DEF TypeOK, MutexInv, SignalInv, Private
<1>4. MessageInv'
  BY DEF TypeOK, MutexInv, SignalInv, MessageInv, Inside
<1>5. OnceInv'
  BY DEF TypeOK, MutexInv, MessageInv, OnceInv, OneAnswer, Waiting, Deferred, Queued
<1>6. OneAnswer'
  BY DEF TypeOK, MutexInv, SignalInv, MessageInv, OnceInv, OneAnswer, Inside, Waiting, Queued, Posting, Deferred, Signalled
<1>7. ServedInv'
  BY DEF TypeOK, MutexInv, SignalInv, MessageInv, OnceInv, ServedInv, OneAnswer, Waiting, Queued, Posting, Deferred, Signalled
<1> QED  BY <1>1, <1>2, <1>3, <1>4, <1>5, <1>6, <1>7

LEMMA DispatchTrueStep ==
    ASSUME IInv, DispatchTrue
    PROVE  IInv'
<1> USE NullsAssumption, UsersAssumption
<1> USE DEF IInv, DispatchTrue, Idle, object
<1> DEFINE k == Head(queue)
           u == m_msg[k].userdata
<1>a. /\ k \in Tasks /\ Queued(k)
      /\ queue' \in Seq(Tasks)
      /\ \A i, j \in DOMAIN queue' : queue'[i] = queue'[j] => i = j
      /\ \A j \in Tasks : Queued(j)' <=> j # k /\ Queued(j)
  <2>1. queue \in Seq(Tasks) /\ queue # << >> /\ queue' = Tail(queue)
    BY DEF TypeOK
  <2>2. \A i, j \in DOMAIN queue : queue[i] = queue[j] => i = j
    BY DEF OnceInv
  <2> DEFINE q == Tail(queue)
  <2>3. /\ k \in Tasks /\ \E i \in DOMAIN queue : queue[i] = k
        /\ q \in Seq(Tasks)
        /\ \A i, j \in DOMAIN q : q[i] = q[j] => i = j
        /\ \A j : (\E i \in DOMAIN q : q[i] = j)
                     <=> j # k /\ \E i \in DOMAIN queue : queue[i] = j
    BY <2>1, <2>2, TailLemma, Zenon
  <2> HIDE DEF k, q
  <2> QED  BY <2>1, <2>3, Zenon DEF Queued, q
<1>b. Waiting(k) /\ ~Posting(k) /\ ~Deferred(k) /\ ~Signalled(k)
  BY <1>a DEF OneAnswer
<1>c. /\ u \in Threads /\ at[u] = k /\ pc[u] = "wait"
      /\ \A t \in Threads : at[t] = k /\ pc[t] \in Inside => t = u
  BY <1>a, <1>b, WaiterLemma
<1>1. TypeOK'
  BY <1>a DEF TypeOK
<1>2. MutexInv'
  BY DEF TypeOK, MutexInv, Inside
<1>3. SignalInv'
  BY DEF TypeOK, MutexInv, SignalInv, Private
<1>4. MessageInv'
  BY DEF TypeOK, MutexInv, SignalInv, MessageInv, Inside
<1>5. OnceInv'
  BY <1>a DEF TypeOK, OnceInv
<1>6. OneAnswer'
  <2>1. \A j \in Tasks : Posting(j)' <=> j = k
    BY DEF Posting
  <2>2. \A j \in Tasks : ~Posting(j)
    BY DEF Posting
  <2> QED  BY <1>a, <1>b, <2>1, <2>2 DEF OneAnswer, Waiting, Deferred, Signalled
<1>7. ServedInv'
  <2>1. ASSUME NEW t \in Threads, t # u, pc[t] = "wait"
        PROVE  at[t] \in Tasks /\ at[t] # k
    BY <1>c, <2>1 DEF TypeOK, MutexInv, Inside
  <2> QED  BY <1>c, <2>1 DEF TypeOK, ServedInv, Posting, Signalled
<1> QED  BY <1>1, <1>2, <1>3, <1>4, <1>5, <1>6, <1>7

LEMMA PostResultStep ==
    ASSUME IInv, PostResult
    PROVE  IInv'
<1> USE NullsAssumption, UsersAssumption
<1> USE DEF IInv, PostResult, Idle, object, thread
<1> DEFINE k == posting
           u == m_msg[k].userdata
<1>a. /\ k \in Tasks /\ Waiting(k)
      /\ ~Queued(k) /\ ~Deferred(k) /\ ~Signalled(k)
  BY DEF TypeOK, OneAnswer, Posting
<1>b. /\ u \in Threads /\ at[u] = k /\ pc[u] = "wait"
      /\ m_signal[k] \in Signals
      /\ \A t \in Threads : at[t] = k /\ pc[t] \in Inside => t = u
      /\ posted' = posted \cup {m_signal[k]}
  BY <1>a, WaiterLemma
<1>c. \A j \in Tasks : Signalled(j)' <=> j = k \/ Signalled(j)
  BY <1>a, <1>b DEF TypeOK, SignalInv, Signalled
<1>1. TypeOK'
  BY <1>b DEF TypeOK
<1>2. MutexInv'
  BY DEF TypeOK, MutexInv, Inside
<1>3. SignalInv'
  BY <1>a, <1>b DEF TypeOK, SignalInv
<1>4. MessageInv'
  BY DEF TypeOK, MutexInv, SignalInv, MessageInv, Inside
<1>5. OnceInv'
  BY DEF TypeOK, MutexInv, MessageInv, OnceInv, OneAnswer, Waiting, Deferred, Queued
<1>6. OneAnswer'
  <2>1. \A j \in Tasks : Posting(j) <=> j = k
    BY DEF Posting
  <2>2. \A j \in Tasks : ~Posting(j)'
    BY DEF Posting
  <2> QED  BY <1>a, <1>c, <2>1, <2>2 DEF OneAnswer, Waiting, Queued, Deferred
<1>7. ServedInv'
  <2>1. ASSUME NEW t \in Threads, pc[t] = "wait"
        PROVE  served[t] <=> Posting(at[t])' \/ Signalled(at[t])'
    <3>1. at[t] \in Tasks
      BY <2>1 DEF TypeOK, MutexInv
    <3> QED  BY <1>c, <2>1, <3>1 DEF ServedInv, Posting
  <2> QED  BY <2>1 DEF ServedInv
<1> QED  BY <1>1, <1>2, <1>3, <1>4, <1>5, <1>6, <1>7

LEMMA DispatchFalseStep ==
    ASSUME IInv, DispatchFalse
    PROVE  IInv'
<1> USE NullsAssumption, UsersAssumption
<1> USE DEF IInv, DispatchFalse, Idle, object, thread
<1> DEFINE k == Head(queue)
           u == m_msg[k].userdata
<1>a. /\ k \in Tasks /\ Queued(k)
      /\ queue' \in Seq(Tasks)
      /\ \A i, j \in DOMAIN queue' : queue'[i] = queue'[j] => i = j
      /\ \A j \in Tasks : Queued(j)' <=> j # k /\ Queued(j)
  <2>1. queue \in Seq(Tasks) /\ queue # << >> /\ queue' = Tail(queue)
    BY DEF TypeOK
  <2>2. \A i, j \in DOMAIN queue : queue[i] = queue[j] => i = j
    BY DEF OnceInv
  <2> DEFINE q == Tail(queue)
  <2>3. /\ k \in Tasks /\ \E i \in DOMAIN queue : queue[i] = k
        /\ q \in Seq(Tasks)
        /\ \A i, j \in DOMAIN q : q[i] = q[j] => i = j
        /\ \A j : (\E i \in DOMAIN q : q[i] = j)
                     <=> j # k /\ \E i \in DOMAIN queue : queue[i] = j
    BY <2>1, <2>2, TailLemma, Zenon
  <2> HIDE DEF k, q
  <2> QED  BY <2>1, <2>3, Zenon DEF Queued, q
<1>b. Waiting(k) /\ ~Posting(k) /\ ~Deferred(k) /\ ~Signalled(k)
  BY <1>a DEF OneAnswer
<1>c. /\ u \in Threads /\ at[u] = k /\ pc[u] = "wait"
      /\ \A t \in Threads : at[t] = k /\ pc[t] \in Inside => t = u
  BY <1>a, <1>b, WaiterLemma
<1>1. TypeOK'
  BY <1>a, <1>c DEF TypeOK, Request
<1>2. MutexInv'
  BY DEF TypeOK, MutexInv, Inside
<1>3. SignalInv'
  BY DEF TypeOK, MutexInv, SignalInv, Private
<1>4. MessageInv'
  BY DEF TypeOK, MutexInv, SignalInv, MessageInv, Inside
<1>5. OnceInv'
  BY <1>a, <1>b, <1>c DEF TypeOK, OnceInv, Deferred
<1>6. OneAnswer'
  <2>1. \A j \in Tasks : Deferred(j)' <=> j = k \/ Deferred(j)
    <3> DEFINE e == [task |-> k, userdata |-> u]
    <3>1. deferred' = deferred \cup {e} /\ e.task = k
      OBVIOUS
    <3> HIDE DEF e
    <3> QED  BY <3>1, Zenon DEF Deferred
  <2> QED  BY <1>a, <1>b, <2>1 DEF OneAnswer, Waiting, Posting, Signalled
<1>7. ServedInv'
  BY DEF TypeOK, MutexInv, SignalInv, MessageInv, OnceInv, ServedInv, OneAnswer, Waiting, Queued, Posting, Deferred, Signalled
<1> QED  BY <1>1, <1>2, <1>3, <1>4, <1>5, <1>6, <1>7

LEMMA CallbackStep ==
    ASSUME IInv, NEW d \in deferred, Callback(d)
    PROVE  IInv'
<1> USE NullsAssumption, UsersAssumption
<1> USE DEF IInv, Callback, Idle, PostSignal, Create, Live
<1> DEFINE k == d.task
           u == d.userdata
<1>a. /\ k \in Tasks /\ u \in Threads /\ at[u] = k /\ pc[u] = "wait"
      /\ \A e \in deferred : e.task = k => e = d
  BY DEF TypeOK, Request, OnceInv
<1>b. Waiting(k) /\ ~Queued(k) /\ ~Posting(k) /\ ~Signalled(k)
  <2>1. Deferred(k)
    BY DEF Deferred
  <2> QED  BY <1>a, <2>1 DEF OneAnswer
<1>c. /\ m_signal[k] \in Signals
      /\ \A t \in Threads : at[t] = k /\ pc[t] \in Inside => t = u
  BY <1>a, <1>b, WaiterLemma DEF Inside
<1>d. posted' = posted \cup {m_signal[k]} /\ m_mutex' = m_mutex /\ m_signal' = m_signal
  BY <1>c
<1>e. \A j \in Tasks : Signalled(j)' <=> j = k \/ Signalled(j)
  BY <1>a, <1>c, <1>d DEF TypeOK, SignalInv, Signalled
<1>1. TypeOK'
  BY <1>a, <1>c, <1>d DEF TypeOK
<1>2. MutexInv'
  BY <1>d DEF MutexInv
<1>3. SignalInv'
  BY <1>a, <1>d DEF SignalInv
<1>4. MessageInv'
  BY <1>d DEF MessageInv
<1>5. OnceInv'
  BY DEF OnceInv
<1>6. OneAnswer'
  <2>1. \A j \in Tasks : Deferred(j)' <=> j # k /\ Deferred(j)
    BY <1>a DEF Deferred
  <2> QED  BY <1>b, <1>e, <2>1 DEF OneAnswer, Waiting, Queued, Posting
<1>7. ServedInv'
  <2>1. ASSUME NEW t \in Threads, t # u, pc[t] = "wait"
        PROVE  at[t] \in Tasks /\ at[t] # k
    BY <1>c, <2>1 DEF TypeOK, MutexInv, Inside
  <2> QED  BY <1>a, <1>e, <2>1 DEF TypeOK, ServedInv, Posting
<1> QED  BY <1>1, <1>2, <1>3, <1>4, <1>5, <1>6, <1>7

LEMMA StutterStep ==
    ASSUME IInv, UNCHANGED vars
    PROVE  IInv'
<1> USE DEF IInv, vars
<1>1. TypeOK' /\ MutexInv' /\ SignalInv'
  BY DEF TypeOK, MutexInv, SignalInv
<1>2. MessageInv' /\ OnceInv' /\ ServedInv'
  BY DEF MessageInv, OnceInv, ServedInv, Posting, Signalled
<1>3. OneAnswer'
  BY DEF OneAnswer, Waiting, Queued, Posting, Deferred, Signalled
<1> QED  BY <1>1, <1>2, <1>3

LEMMA NextIInv == IInv /\ [Next]_vars => IInv'
<1> SUFFICES ASSUME IInv, [Next]_vars PROVE IInv'
  OBVIOUS
<1>1. CASE \E t \in Threads, k \in Tasks : Call(t, k) \/ Stop(t, k)
  BY <1>1, CallStep, StopStep
<1>2. CASE \E t \in Threads : Step(t)
  BY <1>2, BeginStep, LockStep, FillStep, SendStep, WaitStep, UnlockStep DEF Step
<1>3. CASE Main
  BY <1>3, DispatchTrueStep, DispatchFalseStep, PostResultStep DEF Main
<1>4. CASE \E d \in deferred : Callback(d)
  BY <1>4, CallbackStep
<1>5. CASE UNCHANGED vars
  BY <1>5, StutterStep
<1> QED  BY <1>1, <1>2, <1>3, <1>4, <1>5 DEF Next

----------------------------------------------------------------------------
(* The properties *)

THEOREM Invariance == Spec => []IInv
<1>1. Init => IInv
  BY InitIInv
<1>2. IInv /\ [Next]_vars => IInv'
  BY NextIInv
<1> QED  BY <1>1, <1>2, PTL DEF Spec

\* Every variable of remoteCall and of the main loop keeps its type.
THEOREM TypeCorrect == Spec => []TypeOK
<1>1. IInv => TypeOK
  BY DEF IInv
<1> QED  BY <1>1, Invariance, PTL

\* A waiting thread has one answer under way, an object nobody waits for none:
\* the signal remoteCall never clears (LTask.cpp:100) is never left over.
THEOREM AnsweredOnce == Spec => []OneAnswer
<1>1. IInv => OneAnswer
  BY DEF IInv
<1> QED  BY <1>1, Invariance, PTL

\* The main thread never follows a pointer into the stack frame of a call that
\* has returned (LTask.cpp:97, the saved pointers of the event callbacks).
THEOREM UserdataAlive == Spec => []NoDanglingUserdata
<1>1. IInv => NoDanglingUserdata
  <2> SUFFICES ASSUME IInv PROVE NoDanglingUserdata
    OBVIOUS
  <2>1. ASSUME NEW k \in Tasks, Queued(k)
        PROVE  LET u == m_msg[k].userdata IN
               u \in Threads /\ at[u] = k /\ pc[u] = "wait"
    <3>1. Waiting(k)
      BY <2>1 DEF IInv, OneAnswer
    <3> QED  BY <3>1, WaiterLemma
  <2> QED  BY <2>1 DEF IInv, OnceInv, NoDanglingUserdata
<1> QED  BY <1>1, Invariance, PTL

\* No call returns before its own result has been stored (LTask.cpp:100-101).
THEOREM ReturnsAfterResult == Spec => []ReturnsServed
<1>1. IInv => ReturnsServed
  BY DEF IInv, ServedInv, ReturnsServed
<1> QED  BY <1>1, Invariance, PTL

----------------------------------------------------------------------------
(* LTask simulates RemoteCall *)

LEMMA InitContract == Init => Contract!Init
  BY DEF Init, Contract!Init, Contract!Free, callBar

\* A step that leaves the mutexes alone, and the results of the threads that own
\* one, is not seen by the contract.
LEMMA Unseen ==
    ASSUME IInv, m_mutex' = m_mutex,
           \A k \in Tasks : m_mutex[k] # NoThread =>
               served'[m_mutex[k]] = served[m_mutex[k]]
    PROVE  UNCHANGED callBar
  BY DEF callBar

\* Storing the result of the thread u that waits for object k completes the call.
LEMMA Completes ==
    ASSUME IInv, NEW k \in Tasks, NEW u \in Threads,
           at[u] = k, pc[u] = "wait", ~Posting(k), ~Signalled(k),
           m_mutex' = m_mutex, served' = [served EXCEPT ![u] = TRUE]
    PROVE  Contract!Complete(k)
<1>1. m_mutex[k] = u /\ u # NoThread /\ \A j \in Tasks : m_mutex[j] = u => j = k
  BY NullsAssumption DEF IInv, MutexInv, Inside
<1>2. ~served[u] /\ served \in [Threads -> BOOLEAN] /\ m_mutex \in [Tasks -> Threads \cup {NoThread}]
  BY DEF IInv, ServedInv, TypeOK
<1>3. callBar[k] = [phase |-> "called", caller |-> u]
  BY <1>1, <1>2 DEF callBar
<1>4. callBar' = [callBar EXCEPT ![k] = [phase |-> "done", caller |-> u]]
  BY <1>1, <1>2 DEF callBar
<1> QED  BY <1>3, <1>4 DEF Contract!Complete, Contract!Free

LEMMA NextContract == IInv /\ [Next]_vars => [Contract!Next]_callBar
<1> SUFFICES ASSUME IInv, [Next]_vars PROVE Contract!Next \/ UNCHANGED callBar
  OBVIOUS
<1> USE NullsAssumption
<1>1. ASSUME NEW t \in Threads, NEW k \in Tasks, Call(t, k)
      PROVE  UNCHANGED callBar
  <2>1. m_mutex' = m_mutex /\ \A j \in Tasks : m_mutex[j] # t
    BY <1>1 DEF Call, object, IInv, MutexInv, Inside
  <2> QED  BY <1>1, <2>1, Unseen DEF Call, IInv, TypeOK
<1>2. ASSUME NEW t \in Threads, NEW k \in Tasks, Stop(t, k)
      PROVE  UNCHANGED callBar
  BY <1>2, Unseen DEF Stop, thread
<1>3. ASSUME NEW t \in Threads, Begin(t)
      PROVE  UNCHANGED callBar
  <2>1. PICK s \in Signals : m_mutex' = [m_mutex EXCEPT ![at[t]] = NoThread]
    BY <1>3 DEF Begin, Create
  <2>2. /\ at[t] \in Tasks /\ m_signal[at[t]] = NoSignal
        /\ at[t] \in Tasks => m_mutex[at[t]] # t
    BY <1>3 DEF Begin, IInv, TypeOK, MutexInv, SignalInv, Inside
  <2>3. \A u \in Threads : at[u] = at[t] => pc[u] \notin Inside
    BY <2>2 DEF IInv, SignalInv, Inside
  <2>4. m_mutex[at[t]] = NoThread
    BY <2>2, <2>3 DEF IInv, TypeOK, MutexInv
  <2> QED  BY <1>3, <2>1, <2>4, Unseen DEF Begin, IInv, TypeOK
<1>4. ASSUME NEW t \in Threads, Lock(t)
      PROVE  Contract!Accept(at[t], t)
  <2> DEFINE k == at[t]
  <2>1. /\ k \in Tasks /\ m_mutex[k] = NoThread /\ ~served[t]
        /\ \A j \in Tasks : m_mutex[j] # t
    BY <1>4 DEF Lock, IInv, TypeOK, MutexInv, ServedInv, Inside
  <2>2. callBar' = [callBar EXCEPT ![k] = [phase |-> "called", caller |-> t]]
    BY <1>4, <2>1 DEF Lock, callBar, IInv, TypeOK
  <2>3. callBar[k] = Contract!Free
    BY <2>1 DEF callBar, Contract!Free
  <2>4. \A j \in Tasks : callBar[j] # Contract!Free => callBar[j].caller # t
    BY <2>1 DEF callBar, Contract!Free
  <2> QED  BY <2>2, <2>3, <2>4 DEF Contract!Accept, Contract!Outside
<1>5. ASSUME NEW t \in Threads, Fill(t) \/ Send(t) \/ Wait(t)
      PROVE  UNCHANGED callBar
  BY <1>5, Unseen DEF Fill, Send, Wait, object
<1>6. ASSUME NEW t \in Threads, Unlock(t)
      PROVE  Contract!Return(at[t])
  <2> DEFINE k == at[t]
  <2>1. k \in Tasks /\ m_mutex[k] = t /\ served[t]
    BY <1>6 DEF Unlock, IInv, TypeOK, MutexInv, ServedInv, Inside
  <2>2. callBar' = [callBar EXCEPT ![k] = Contract!Free]
    BY <1>6, <2>1 DEF Unlock, callBar, Contract!Free, IInv, TypeOK
  <2>3. callBar[k] = [phase |-> "done", caller |-> t]
    BY <2>1 DEF callBar
  <2> QED  BY <2>2, <2>3 DEF Contract!Return, Contract!Free
<1>7. ASSUME DispatchTrue
      PROVE  \E k \in Tasks : Contract!Complete(k)
  <2> DEFINE k == Head(queue)
             u == m_msg[k].userdata
  <2>1. queue \in Seq(Tasks) /\ queue # << >>
    BY <1>7 DEF DispatchTrue, IInv, TypeOK
  <2>2. k \in Tasks /\ Queued(k)
    BY <2>1, 1 \in DOMAIN queue, queue[1] = k DEF Queued
  <2>3. Waiting(k) /\ ~Posting(k) /\ ~Signalled(k)
    BY <2>2 DEF IInv, OneAnswer
  <2>4. u \in Threads /\ at[u] = k /\ pc[u] = "wait"
    BY <2>2, <2>3, WaiterLemma
  <2> QED  BY <1>7, <2>2, <2>3, <2>4, Completes DEF DispatchTrue, object
<1>8. ASSUME DispatchFalse \/ PostResult
      PROVE  UNCHANGED callBar
  BY <1>8, Unseen DEF DispatchFalse, PostResult, object, thread
<1>9. ASSUME NEW d \in deferred, Callback(d)
      PROVE  \E k \in Tasks : Contract!Complete(k)
  <2>1. /\ d.task \in Tasks /\ d.userdata \in Threads /\ Deferred(d.task)
        /\ at[d.userdata] = d.task /\ pc[d.userdata] = "wait"
    BY DEF IInv, TypeOK, Request, OnceInv, Deferred
  <2>2. Waiting(d.task) /\ ~Posting(d.task) /\ ~Signalled(d.task)
    BY <2>1 DEF IInv, OneAnswer
  <2>3. m_signal[d.task] # NoSignal
    BY <2>1, <2>2, WaiterLemma
  <2>4. m_mutex' = m_mutex
    BY <1>9, <2>3 DEF Callback, PostSignal
  <2> QED  BY <1>9, <2>1, <2>2, <2>4, Completes DEF Callback
<1>10. ASSUME UNCHANGED vars
       PROVE  UNCHANGED callBar
  BY <1>10, Unseen DEF vars
<1> QED
  <2>1. CASE \E t \in Threads, k \in Tasks : Call(t, k) \/ Stop(t, k)
    BY <2>1, <1>1, <1>2
  <2>2. CASE \E t \in Threads : Step(t)
    <3>1. PICK t \in Threads : Step(t)
      BY <2>2
    <3>2. Lock(t) \/ Unlock(t) => at[t] \in Tasks
      BY DEF Lock, Unlock, IInv, TypeOK, MutexInv
    <3> QED  BY <3>1, <3>2, <1>3, <1>4, <1>5, <1>6 DEF Step, Contract!Next
  <2>3. CASE Main
    BY <2>3, <1>7, <1>8 DEF Main, Contract!Next
  <2>4. CASE \E d \in deferred : Callback(d)
    BY <2>4, <1>9 DEF Contract!Next
  <2> QED  BY <2>1, <2>2, <2>3, <2>4, <1>10 DEF Next

\* The safety half of ImplementsContract: calls of one object do not overlap, and
\* each is completed exactly once before it returns.
THEOREM Refinement == Spec => Contract!Safety
<1>1. IInv /\ [Next]_vars => [Contract!Next]_callBar
  BY NextContract
<1>2. Init => Contract!Init
  BY InitContract
<1> QED  BY <1>1, <1>2, Invariance, PTL DEF Spec, Contract!Safety
=============================================================================
