----------------------------- MODULE SketchCall -----------------------------
(***************************************************************************)
(* The remote calls of one library, for the modules of the libraries: the  *)
(* sketch thread, the library's _LTaskClass object and the main thread.    *)
(* LTask has every step of remoteCall, several threads and functions that   *)
(* keep the protocol; here there is the one sketch thread that main.cpp     *)
(* starts, remoteCall up to its wait is one step, and the functions, which  *)
(* the library modules add, do whatever the code does: the signal may be    *)
(* posted twice, too early or never.  What LTask's OneAnswer promises is    *)
(* therefore a property of each library.                                    *)
(*                                                                          *)
(* A call's userdata points into the caller's frame.  A pointer is "null",  *)
(* "caller" (into the frame of the call in progress) or "gone" (into the    *)
(* frame of a call that has returned).                                      *)
(***************************************************************************)
EXTENDS Naturals

CONSTANTS None   \* no call

VARIABLES
    call,      \* the function the sketch is waiting for
    m_msg,     \* the object's message: the function and its userdata
    sent,      \* times &m_msg is in the main thread's queue
    signal,    \* the object's signal is set
    posting    \* __handle_sysevt is about to post for a function that returned true

rpc == <<call, m_msg, sent, signal, posting>>

Pointers == {"null", "caller", "gone"}

\* The sketch may run ahead of the main thread by MaxSent messages, a bound that
\* only a library whose signal is posted too early can reach.
MaxSent == 2

RpcType(Functions) ==
    /\ call \in Functions \cup {None}
    /\ m_msg \in [func : Functions \cup {None}, userdata : Pointers]
    /\ sent \in 0 .. MaxSent
    /\ signal \in BOOLEAN
    /\ posting \in BOOLEAN

RpcInit ==
    /\ call = None
    /\ m_msg = [func |-> None, userdata |-> "null"]
    /\ sent = 0
    /\ signal = FALSE
    /\ posting = FALSE

----------------------------------------------------------------------------
(* The sketch thread *)

Fill(f) ==
    /\ call = None
    /\ sent < MaxSent
    /\ call' = f
    /\ m_msg' = [func |-> f, userdata |-> "caller"]
    /\ sent' = sent + 1
    /\ UNCHANGED posting

\* remoteCall on an object that has been begun.  The signal is not cleared.
Call(f) == Fill(f) /\ UNCHANGED signal

\* remoteCall just after _LTaskClass::begin() has made another, clear, signal.
CallFresh(f) == Fill(f) /\ signal' = FALSE

\* vm_signal_wait is satisfied; the caller's frame goes out of scope.
Return ==
    /\ call # None
    /\ signal
    /\ signal' = FALSE
    /\ call' = None
    /\ m_msg' = [m_msg EXCEPT !.userdata = "gone"]
    /\ UNCHANGED <<sent, posting>>

\* What a saved pointer is when the call returns.
After(pointer) == IF pointer = "caller" THEN "gone" ELSE pointer

----------------------------------------------------------------------------
(* The main thread.  It does one thing at a time: while posting it is inside  *)
(* __handle_sysevt.                                                           *)

\* __handle_sysevt runs f.  The message is read through its address, now.
Run(f) ==
    /\ ~posting
    /\ sent > 0
    /\ m_msg.func = f
    /\ sent' = sent - 1
    /\ UNCHANGED <<call, m_msg>>

\* f returns r; posted says whether it called post_signal() itself.
Returns(r, posted) == posting' = r /\ signal' = (signal \/ posted)

PostResult ==
    /\ posting
    /\ posting' = FALSE
    /\ signal' = TRUE
    /\ UNCHANGED <<call, m_msg, sent>>

\* A driver's event callback runs; posted says whether it calls post_signal().
Event(posted) ==
    /\ ~posting
    /\ signal' = (signal \/ posted)
    /\ UNCHANGED <<call, m_msg, sent, posting>>

----------------------------------------------------------------------------

\* Nothing of an earlier call is left when the sketch is outside remoteCall.
Quiet == call = None => sent = 0 /\ ~signal /\ ~posting
=============================================================================
