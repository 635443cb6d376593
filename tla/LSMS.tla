-------------------------------- MODULE LSMS --------------------------------
(***************************************************************************)
(* LSMS: short messages (libraries/LGSM/LSMS.cpp; the methods of LSMSClass  *)
(* on the sketch thread, the functions and callbacks on the main thread).   *)
(* A message that arrives is read by the main thread, unasked, into globals *)
(* that available() copies without a lock.                                  *)
(*                                                                          *)
(* A number and its text are the id of the message they came with.          *)
(***************************************************************************)
EXTENDS LSMSState

CONSTANTS Faults,   \* what may fail: "refuse" (to send or delete), "send", "read"
          Bursts    \* whether a message may arrive before the last one was taken

VARIABLES
    outcome,      \* what became of the last endSMS(): its data.result and the sending
    send_data,    \* g_linkit_sms_send_data
    doomed,       \* the userdata of the last flush(): the id to delete
    refused,      \* history: the service did not take what the last call asked for
    sends, deletes   \* requests the service has accepted and not answered

out == <<outcome, send_data, refused>>
current == <<_msgId, _msgContent, taking, doomed>>
service == <<box, sends, reads, deletes>>
vars == <<rpc, globals, current, out, service>>

Functions == {"ready", "endSMS", "flush"}

\* Requests under way at once, a bound of the model.
MaxRequests == 2

TypeOK ==
    /\ RpcType(Functions)
    /\ {msgRead, buf, _msgId, _msgContent, doomed} \subseteq Ids \cup {NoId}
    /\ msgNewFlag \in BOOLEAN
    /\ taking \in {"none", "id", "buf", "flag"}
    /\ outcome \in [result : {"unset", "true", "false"},
                    sending : {"none", "underway", "sent", "failed"}]
    /\ send_data \in Pointers
    /\ box \in [Ids -> {"none", "unseen", "seen", "unreadable"}]
    /\ refused \in BOOLEAN
    /\ sends \in 0 .. MaxRequests
    /\ reads \in Seq(Ids) /\ deletes \in Seq(Ids)

Init ==
    /\ RpcInit
    /\ msgRead = NoId /\ buf = NoId /\ msgNewFlag = FALSE
    /\ _msgId = NoId /\ _msgContent = NoId /\ taking = "none" /\ doomed = NoId
    /\ outcome = [result |-> "unset", sending |-> "none"] /\ send_data = "null"
    /\ refused = FALSE
    /\ box = [id \in Ids |-> "none"]
    /\ sends = 0 /\ reads = << >> /\ deletes = << >>

May(fault) == fault \in Faults

Requests == sent + sends + Len(reads) + Len(deletes)

----------------------------------------------------------------------------
(* The sketch thread.  The three calls go through the one object LTask. *)

Ready ==
    /\ Outside
    /\ Call("ready")
    /\ outcome' = [outcome EXCEPT !.result = "unset"]
    /\ refused' = FALSE
    /\ UNCHANGED <<globals, current, send_data, service>>

EndSMS ==
    /\ Outside
    /\ Requests < MaxRequests
    /\ Call("endSMS")
    /\ outcome' = [result |-> "unset", sending |-> "none"]
    /\ refused' = FALSE
    /\ UNCHANGED <<globals, current, send_data, service>>

\* flush() does nothing without a current message.
Flush ==
    /\ Outside
    /\ _msgId # NoId
    /\ Requests < MaxRequests
    /\ Call("flush")
    /\ doomed' = _msgId
    /\ refused' = FALSE
    /\ UNCHANGED <<globals, _msgId, _msgContent, taking, outcome, send_data, service>>

\* The call returns; flush() forgets the message.
Returned ==
    /\ Return
    /\ _msgId' = IF call = "flush" THEN NoId ELSE _msgId
    /\ send_data' = After(send_data)
    /\ UNCHANGED <<globals, _msgContent, taking, doomed, outcome, refused, service>>

\* available() when msgNewFlag is set; otherwise it changes nothing.
TakeStart ==
    /\ Outside
    /\ msgNewFlag
    /\ taking' = "id"
    /\ UNCHANGED <<rpc, globals, _msgId, _msgContent, doomed, out, service>>

TakeId ==
    /\ taking = "id" /\ taking' = "buf"
    /\ _msgId' = msgRead
    /\ UNCHANGED <<rpc, globals, _msgContent, doomed, out, service>>

TakeBuf ==
    /\ taking = "buf" /\ taking' = "flag"
    /\ _msgContent' = buf
    /\ box' = [box EXCEPT ![buf] = IF @ = "unseen" THEN "seen" ELSE @]
    /\ UNCHANGED <<rpc, globals, _msgId, doomed, out, sends, reads, deletes>>

TakeFlag ==
    /\ taking = "flag" /\ taking' = "none"
    /\ msgNewFlag' = FALSE
    /\ UNCHANGED <<rpc, msgRead, buf, _msgId, _msgContent, doomed, out, service>>

----------------------------------------------------------------------------
(* The main thread: the functions *)

\* The result is stored in the caller's frame, which may be gone.
Told(r) == IF m_msg.userdata = "caller" THEN r ELSE outcome.result

RunReady ==
    /\ Run("ready")
    /\ \E r \in {"true", "false"} : outcome' = [outcome EXCEPT !.result = Told(r)]
    /\ Returns(TRUE, FALSE)
    /\ UNCHANGED <<globals, current, send_data, refused, service>>

\* vm_gsm_sms_send() takes the message: the result is true, and is posted.
Send ==
    /\ Run("endSMS")
    /\ send_data' = m_msg.userdata
    /\ sends' = sends + 1
    /\ outcome' = [result |-> Told("true"), sending |-> "underway"]
    /\ Returns(TRUE, FALSE)
    /\ UNCHANGED <<globals, current, refused, box, reads, deletes>>

\* It does not; the function returns false and nobody posts.
SendRefused ==
    /\ Run("endSMS")
    /\ May("refuse")
    /\ send_data' = m_msg.userdata
    /\ outcome' = [result |-> Told("false"), sending |-> "failed"]
    /\ refused' = TRUE
    /\ Returns(FALSE, FALSE)
    /\ UNCHANGED <<globals, current, service>>

\* Mutated form of Delete: the function returns as if the deletion were refused.
DeleteNothing ==
    /\ Run("flush")
    /\ Returns(FALSE, FALSE)
    /\ UNCHANGED <<globals, current, out, service>>

\* vm_gsm_sms_delete_message(); its return value is not looked at.
Delete ==
    /\ Run("flush")
    /\ \/ deletes' = Append(deletes, doomed) /\ UNCHANGED refused
       \/ May("refuse") /\ refused' = TRUE /\ UNCHANGED deletes
    /\ Returns(FALSE, FALSE)
    /\ UNCHANGED <<globals, current, outcome, send_data, box, sends, reads>>

----------------------------------------------------------------------------
(* The main thread: the callbacks *)

\* linkit_sms_send_callback stores through g_linkit_sms_send_data, and posts.
SendCallback ==
    /\ sends > 0 /\ sends' = sends - 1
    /\ \E ok \in IF May("send") THEN BOOLEAN ELSE {TRUE} :
          outcome' = [result |-> IF send_data # "caller" THEN outcome.result
                                 ELSE IF ok THEN "true" ELSE "false",
                      sending |-> IF sends = 1 /\ outcome.sending = "underway"
                                  THEN IF ok THEN "sent" ELSE "failed"
                                  ELSE outcome.sending]
    /\ Event(TRUE)
    /\ UNCHANGED <<globals, current, send_data, refused, box, reads, deletes>>

\* Mutated form of Arrive: the message is announced before it has been read.
ArriveAnnounced(id) ==
    /\ box[id] = "none"
    /\ Requests < MaxRequests
    /\ Bursts \/ (reads = << >> /\ ~msgNewFlag)
    /\ msgRead' = id
    /\ msgNewFlag' = TRUE
    /\ reads' = Append(reads, id)
    /\ box' = [box EXCEPT ![id] = "unseen"]
    /\ Event(FALSE)
    /\ UNCHANGED <<buf, current, out, sends, deletes>>

\* gsm_sms_new_message_interrupt_proc and gsm_sms_read_available.
Arrive(id) ==
    /\ box[id] = "none"
    /\ Requests < MaxRequests
    /\ Bursts \/ (reads = << >> /\ ~msgNewFlag)
    /\ msgRead' = id
    /\ \/ reads' = Append(reads, id) /\ box' = [box EXCEPT ![id] = "unseen"]
       \/ May("read") /\ box' = [box EXCEPT ![id] = "unreadable"] /\ UNCHANGED reads
    /\ Event(FALSE)
    /\ UNCHANGED <<buf, msgNewFlag, current, out, sends, deletes>>

\* Mutated form of ReadCallback: a message is announced only when the sketch has none.
ReadCallbackIdle ==
    /\ reads # << >>
    /\ reads' = Tail(reads)
    /\ buf' = Head(reads)
    /\ msgNewFlag' = (_msgId = NoId)
    /\ Event(TRUE)
    /\ UNCHANGED <<msgRead, current, out, box, sends, deletes>>

\* linkit_sms_read_callback posts though no call waits for it.
ReadCallback ==
    /\ reads # << >>
    /\ reads' = Tail(reads)
    /\ \/ buf' = Head(reads) /\ msgNewFlag' = TRUE /\ UNCHANGED box
       \/ /\ May("read")
          /\ box' = [box EXCEPT ![Head(reads)] = IF @ = "unseen" THEN "unreadable" ELSE @]
          /\ UNCHANGED <<buf, msgNewFlag>>
    /\ Event(TRUE)
    /\ UNCHANGED <<msgRead, current, out, sends, deletes>>

DeleteCallback ==
    /\ deletes # << >>
    /\ deletes' = Tail(deletes)
    /\ box' = [box EXCEPT ![Head(deletes)] = "none"]
    /\ Event(TRUE)
    /\ UNCHANGED <<globals, current, out, sends, reads>>

----------------------------------------------------------------------------

Available == TakeStart \/ TakeId \/ TakeBuf \/ TakeFlag

Sketch == Ready \/ EndSMS \/ Flush \/ Returned \/ Available

HandleSysevt ==
    \/ RunReady \/ Send \/ SendRefused \/ Delete
    \/ PostResult /\ UNCHANGED <<globals, current, out, service>>

Callbacks == SendCallback \/ ReadCallback \/ DeleteCallback

Next == Sketch \/ HandleSysevt \/ Callbacks \/ \E id \in Ids : Arrive(id)

Spec == Init /\ [][Next]_vars
\* The sketch thread goes on once it is woken, the main thread serves messages and
\* events; a service that has accepted a request answers it.
FairSpec ==
    /\ Spec
    /\ WF_vars(Returned)
    /\ WF_vars(HandleSysevt)
    /\ WF_vars(Callbacks)

----------------------------------------------------------------------------
(* Properties *)

\* LGSM.h:104 of flush(): "It only works when there is unread SMS checked by
\* available()", so what it deletes has been handed to the sketch.
DeletesSeen ==
    [][\A id \in Ids : box[id] = "unseen" => box'[id] # "none"]_vars

\* LGSM.h:63 of endSMS(): "1: Sending succeeds. 0: Send fails.", so a call that
\* returned 1 has not failed to send.
SendTells == call = None /\ outcome.result = "true" => outcome.sending # "failed"

\* A call to the main thread returns, unless the service did not take its request.
CallsReturn == (call # None) ~> (call = None \/ refused)
=============================================================================
