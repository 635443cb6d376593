----------------------------- MODULE RemoteCall -----------------------------
(***************************************************************************)
(* What _LTaskClass::remoteCall promises its callers.                      *)
(*                                                                         *)
(* Every library object derives from _LTaskClass and hands work to the     *)
(* main (MRE) thread with remoteCall(func, userdata).  Seen from outside,  *)
(* one object serves one call at a time: it takes the call of a thread,    *)
(* the main thread completes it once, and only then does the call return.  *)
(***************************************************************************)
CONSTANTS Tasks,    \* the _LTaskClass objects
          Threads   \* the threads that call them

VARIABLE call       \* call[k]: the call object k is serving

Free == [phase |-> "free"]

Init == call = [k \in Tasks |-> Free]

\* Thread t is not inside a call of any object.
Outside(t) == \A k \in Tasks : call[k] # Free => call[k].caller # t

\* Object k starts to serve thread t.
Accept(k, t) ==
    /\ call[k] = Free
    /\ Outside(t)
    /\ call' = [call EXCEPT ![k] = [phase |-> "called", caller |-> t]]

\* The main thread has done all the work of the call.
Complete(k) ==
    /\ call[k] # Free
    /\ call[k].phase = "called"
    /\ call' = [call EXCEPT ![k] = [phase |-> "done", caller |-> call[k].caller]]

\* The call returns to its caller.
Return(k) ==
    /\ call[k] # Free
    /\ call[k].phase = "done"
    /\ call' = [call EXCEPT ![k] = Free]

Next == \E k \in Tasks :
            \/ \E t \in Threads : Accept(k, t)
            \/ Complete(k)
            \/ Return(k)

\* The safety part alone, which the proofs speak about.
Safety == Init /\ [][Next]_call

\* A call that was taken is completed, and a completed call returns.
Spec == /\ Safety
        /\ \A k \in Tasks : WF_call(Complete(k)) /\ WF_call(Return(k))
=============================================================================
