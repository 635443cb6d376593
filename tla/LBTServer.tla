------------------------------ MODULE LBTServer ------------------------------
(***************************************************************************)
(* LBTServer: the Bluetooth serial-port server of a sketch                 *)
(* (libraries/LBT/LBTServer.cpp) and its half on the main thread           *)
(* (libraries/LBT/utility/BTServer.cpp).  begin() follows the chip's power *)
(* events and then makes the phone visible; accept() is ended by a client  *)
(* that is let in and connects, or by its timer.                           *)
(*                                                                         *)
(* What is read and written over a link, and the names of devices, are     *)
(* left out; of an address it matters whether it is the one accept() named. *)
(***************************************************************************)
EXTENDS SketchCall, BTAdapter

CONSTANT GoesOn   \* whether the sketch goes on after a call that was answered twice

VARIABLES
    server_status,
    btcm_hdl, btspp_hdl, btspp_buf, conn_id,   \* open, allocated, connected
    waiting_result_p,
    waiting_for_accept, accept_tid,   \* accept_tid: a timer is running
    mac_only,     \* clients of another address are rejected
    visible,      \* the chip's visibility: on, off, being set
    accepted,     \* the stack was told to accept a client, and owes a CONNECT
    failed,       \* history: what the accept() under way could not do
    m_post_write, m_signal_write, writing,
    frame,        \* in the caller's frame: the result, and whether accept() names an address
    wild,         \* history: something was written through NULL or into a dead frame
    spoiled       \* history: a call has been answered twice, or by what it did not wait for

handles == <<btcm_hdl, btspp_hdl, btspp_buf>>
power_on == <<server_status, handles>>
accepting == <<waiting_for_accept, accept_tid, mac_only, accepted, failed>>
write == <<m_post_write, m_signal_write, writing>>
history == <<wild, spoiled>>
vars == <<rpc, adapter, power_on, conn_id, waiting_result_p, accepting, visible, write, frame,
          history>>

Functions == {"begin", "end", "accept", "connected", "write"}
Results == {"unset", "true", "false"}

ASSUME NoneAssumption == None \notin Functions

TypeOK ==
    /\ RpcType(Functions)
    /\ AdapterType
    /\ server_status \in {"IDLE", "BEGINING", "POWERING_ON", "READY", "ENDING", "POWERING_OFF"}
    /\ {btcm_hdl, btspp_hdl, btspp_buf, conn_id} \subseteq BOOLEAN
    /\ waiting_result_p \in Pointers
    /\ {waiting_for_accept, accept_tid, mac_only, accepted} \subseteq BOOLEAN
    /\ failed \subseteq {"timer", "spp_accept"}
    /\ visible \in {"on", "off", "setting"}
    /\ {m_post_write, m_signal_write, wild, spoiled} \subseteq BOOLEAN
    /\ writing \in {"no", "wait", "call"}
    /\ frame \in [result : Results, named : BOOLEAN]

Init ==
    /\ RpcInit /\ AdapterInit
    /\ server_status = "IDLE"
    /\ btcm_hdl = FALSE /\ btspp_hdl = FALSE /\ btspp_buf = FALSE /\ conn_id = FALSE
    /\ waiting_result_p = "null"
    /\ waiting_for_accept = FALSE /\ accept_tid = FALSE /\ mac_only = FALSE /\ accepted = FALSE
    /\ failed = {}
    /\ visible \in {"on", "off"}
    /\ m_post_write = FALSE /\ m_signal_write = FALSE /\ writing = "no"
    /\ frame = [result |-> "unset", named |-> FALSE]
    /\ wild = FALSE /\ spoiled = FALSE

Bool(b) == IF b THEN "true" ELSE "false"

\* *p = b, and what becomes of wild.
Store(p, b) ==
    /\ frame' = IF p = "caller" THEN [frame EXCEPT !.result = Bool(b)] ELSE frame
    /\ wild' = (wild \/ p # "caller")

----------------------------------------------------------------------------
(* The sketch thread: LBTServer.cpp *)

\* begin() makes new signals; its result is in an uninitialised structure.
Begin ==
    /\ writing = "no" /\ CallFresh("begin")
    /\ m_signal_write' = FALSE
    /\ frame' = [result |-> "unset", named |-> FALSE]
    /\ UNCHANGED <<adapter, power_on, conn_id, waiting_result_p, accepting, visible,
                   m_post_write, writing, history>>

\* end() destroys the signals; remoteCall begins again.
End ==
    /\ writing = "no" /\ CallFresh("end")
    /\ btcm_hdl
    /\ m_signal_write' = FALSE
    /\ UNCHANGED <<adapter, power_on, conn_id, waiting_result_p, accepting, visible,
                   m_post_write, writing, frame, history>>

\* Both forms of accept(), of a server that has begun.
Accept(named) ==
    /\ writing = "no" /\ Call("accept")
    /\ btcm_hdl
    /\ frame' = [result |-> "unset", named |-> named]
    /\ UNCHANGED <<adapter, power_on, conn_id, waiting_result_p, accepting, visible, write,
                   history>>

Connected ==
    /\ writing = "no" /\ Call("connected")
    /\ frame' = [result |-> "true", named |-> FALSE]
    /\ UNCHANGED <<adapter, power_on, conn_id, waiting_result_p, accepting, visible, write,
                   history>>

\* write() waits for the first READY_TO_WRITE.
Write ==
    /\ call = None /\ writing = "no"
    /\ writing' = "wait"
    /\ UNCHANGED <<rpc, adapter, power_on, conn_id, waiting_result_p, accepting, visible,
                   m_post_write, m_signal_write, frame, history>>

WriteCall ==
    /\ writing = "wait" /\ (m_post_write \/ m_signal_write)
    /\ Call("write")
    /\ m_signal_write' = FALSE /\ m_post_write' = FALSE
    /\ writing' = "call"
    /\ UNCHANGED <<adapter, power_on, conn_id, waiting_result_p, accepting, visible, frame,
                   history>>

Returned ==
    /\ Return
    /\ waiting_result_p' = After(waiting_result_p)
    /\ m_post_write' = (m_post_write \/ writing = "call")
    /\ writing' = "no"
    /\ UNCHANGED <<adapter, power_on, conn_id, accepting, visible, m_signal_write, frame, history>>

----------------------------------------------------------------------------
(* bt_server_init_spp and bt_server_end_spp *)

Opened == btspp_hdl' = TRUE /\ btspp_buf' = TRUE

\* The port is open and the chip is visible: the answer is given here.  What the
\* call of bt_server_init_spp() that found it so returns is 0.
InitVisible(p) ==
    /\ power = "ON" /\ visible = "on"
    /\ Opened
    /\ Store(p, TRUE)
    /\ waiting_result_p' = "null"
    /\ UNCHANGED visible

\* The port is open, and the chip is asked to be visible.
InitSets(p) ==
    /\ power = "ON" /\ visible = "off"
    /\ Opened
    /\ visible' = "setting"
    /\ waiting_result_p' = p
    /\ UNCHANGED <<frame, wild>>

\* Whatever it had opened is closed by bt_server_end_spp(), which follows.
InitFails == power # "ON" \/ May("init_spp")

CloseSpp == btspp_hdl' = FALSE /\ btspp_buf' = FALSE /\ conn_id' = FALSE /\ accepted' = FALSE

ExitCm == btcm_hdl' = FALSE /\ server_status' = "IDLE"

\* bt_server_end_spp() returning done: FALSE when a power event will finish the work.
EndSpp(done) ==
    /\ CloseSpp
    /\ \/ ~done /\ SwitchOff /\ server_status' = "POWERING_OFF" /\ btcm_hdl' = TRUE
       \/ ~done /\ power = "SWITCHING_ON" /\ server_status' = "ENDING" /\ UNCHANGED <<power, btcm_hdl>>
       \/ /\ ~done /\ power = "SWITCHING_OFF" /\ server_status' = "POWERING_OFF"
          /\ UNCHANGED <<power, btcm_hdl>>
       \/ done /\ power = "ON" /\ SwitchOffFails /\ ExitCm
       \/ done /\ power = "OFF" /\ ExitCm /\ UNCHANGED power
    /\ UNCHANGED <<waiting_for_accept, accept_tid, mac_only, failed>>

----------------------------------------------------------------------------
(* btServerBegin *)

\* Begun already, or vm_bt_cm_init fails.
BeginRefused ==
    /\ Run("begin") /\ (btcm_hdl \/ May("cm_init"))
    /\ Store(m_msg.userdata, FALSE)
    /\ Returns(TRUE, FALSE)
    /\ UNCHANGED <<adapter, power_on, conn_id, waiting_result_p, accepting, visible, spoiled>>

\* The chip is not on: an event will tell.
BeginWaits ==
    /\ Run("begin") /\ ~btcm_hdl
    /\ \/ SwitchOn /\ server_status' = "POWERING_ON"
       \/ power = "SWITCHING_OFF" /\ server_status' = "BEGINING" /\ UNCHANGED power
       \/ power = "SWITCHING_ON" /\ server_status' = "POWERING_ON" /\ UNCHANGED power
    /\ btcm_hdl' = TRUE
    /\ waiting_result_p' = m_msg.userdata
    /\ Returns(FALSE, FALSE)
    /\ UNCHANGED <<cmq, btspp_hdl, btspp_buf, conn_id, accepting, visible, frame, history>>

\* Mutated form of BeginOn: it returns true while the chip is becoming visible.
BeginOnReturns ==
    /\ Run("begin") /\ ~btcm_hdl
    /\ btcm_hdl' = TRUE
    /\ InitSets(m_msg.userdata)
    /\ server_status' = "READY"
    /\ Returns(TRUE, FALSE)
    /\ UNCHANGED <<adapter, conn_id, accepting, spoiled>>

\* The chip is on.  server_status is set only if it is visible as well, and then
\* the post of bt_server_init_spp() is followed by that of __handle_sysevt.
BeginOn ==
    /\ Run("begin") /\ ~btcm_hdl
    /\ btcm_hdl' = TRUE
    /\ \/ /\ InitVisible(m_msg.userdata)
          /\ server_status' = "READY"
          /\ Returns(TRUE, TRUE)
          /\ spoiled' = TRUE
       \/ /\ InitSets(m_msg.userdata)
          /\ Returns(FALSE, FALSE)
          /\ UNCHANGED <<server_status, spoiled>>
    /\ UNCHANGED <<adapter, conn_id, accepting>>

\* switch_on or bt_server_init_spp() failed.
BeginFails ==
    /\ Run("begin") /\ ~btcm_hdl
    /\ \/ /\ power = "OFF" /\ May("switch_on")
          /\ CloseSpp /\ ExitCm /\ UNCHANGED power /\ Returns(TRUE, FALSE)
       \/ /\ power = "ON" /\ InitFails /\ SwitchOff
          /\ CloseSpp /\ server_status' = "POWERING_OFF" /\ btcm_hdl' = TRUE
          /\ Returns(FALSE, FALSE)
       \/ /\ power = "ON" /\ InitFails /\ SwitchOffFails
          /\ CloseSpp /\ ExitCm /\ Returns(TRUE, FALSE)
    /\ Store(m_msg.userdata, FALSE)
    /\ waiting_result_p' = m_msg.userdata
    /\ UNCHANGED <<cmq, waiting_for_accept, accept_tid, mac_only, failed, visible, spoiled>>

----------------------------------------------------------------------------
(* The other functions *)

RunEnd ==
    /\ Run("end")
    /\ \E done \in BOOLEAN : EndSpp(done) /\ Returns(done, FALSE)
    /\ UNCHANGED <<cmq, waiting_result_p, visible, frame, history>>

AcceptRefused ==
    /\ Run("accept") /\ conn_id
    /\ Store(m_msg.userdata, FALSE)
    /\ Returns(TRUE, FALSE)
    /\ UNCHANGED <<adapter, power_on, conn_id, waiting_result_p, accepting, visible, spoiled>>

\* Nothing resets mac_only.  A timer that cannot be made leaves no limit.
AcceptWaits ==
    /\ Run("accept") /\ ~conn_id
    /\ mac_only' = (mac_only \/ frame.named)
    /\ waiting_for_accept' = TRUE
    /\ waiting_result_p' = m_msg.userdata
    /\ \/ accept_tid' = TRUE /\ failed' = {}
       \/ May("timer") /\ accept_tid' = FALSE /\ failed' = {"timer"}
    /\ Returns(FALSE, FALSE)
    /\ UNCHANGED <<adapter, power_on, conn_id, accepted, visible, frame, history>>

RunConnected ==
    /\ Run("connected")
    /\ Store(m_msg.userdata, conn_id)
    /\ Returns(TRUE, FALSE)
    /\ UNCHANGED <<adapter, power_on, conn_id, waiting_result_p, accepting, visible, spoiled>>

RunWrite ==
    /\ Run("write")
    /\ Returns(TRUE, FALSE)
    /\ UNCHANGED <<adapter, power_on, conn_id, waiting_result_p, accepting, visible, frame, history>>

----------------------------------------------------------------------------
(* Events: bt_server_btcm_cb *)

\* ACTIVATE while begin() waits for it.  server_status stays POWERING_ON.
ActivateReady ==
    /\ server_status = "POWERING_ON"
    /\ \/ InitVisible(waiting_result_p) /\ Event(TRUE)
       \/ InitSets(waiting_result_p) /\ Event(FALSE)
    /\ UNCHANGED <<power, btcm_hdl, server_status, conn_id, accepting>>

ActivateFails ==
    /\ server_status = "POWERING_ON" /\ InitFails
    /\ Store(waiting_result_p, FALSE)
    /\ waiting_result_p' = "null"
    /\ \E done \in BOOLEAN : EndSpp(done) /\ Event(done)
    /\ UNCHANGED visible

ActivateEnding ==
    /\ server_status = "ENDING"
    /\ \/ SwitchOff /\ server_status' = "POWERING_OFF" /\ Event(FALSE) /\ UNCHANGED btcm_hdl
       \/ SwitchOffFails /\ ExitCm /\ Event(TRUE)
    /\ UNCHANGED <<btspp_hdl, btspp_buf, conn_id, accepting, waiting_result_p, visible, frame, wild>>

ActivateIgnored ==
    /\ server_status \notin {"POWERING_ON", "ENDING"}
    /\ Event(FALSE)
    /\ UNCHANGED <<power, power_on, conn_id, accepting, waiting_result_p, visible, frame, wild>>

Activate ==
    /\ btcm_hdl /\ Delivered("ACTIVATE")
    /\ ActivateReady \/ ActivateFails \/ ActivateEnding \/ ActivateIgnored
    /\ UNCHANGED <<write, spoiled>>

\* begin() found the chip switching off.
DeactivateBegins ==
    /\ server_status = "BEGINING"
    /\ \/ /\ SwitchOn /\ server_status' = "POWERING_ON" /\ Event(FALSE)
          /\ UNCHANGED <<handles, conn_id, accepting, waiting_result_p, frame, wild>>
       \/ /\ power # "OFF" \/ May("switch_on")
          /\ Store(waiting_result_p, FALSE)
          /\ waiting_result_p' = "null"
          /\ \E done \in BOOLEAN : EndSpp(done) /\ Event(done)

\* Mutated form of DeactivateEnds: the connection manager's handle is not closed.
DeactivateKeepsCm ==
    /\ server_status = "POWERING_OFF"
    /\ server_status' = "IDLE" /\ Event(TRUE)
    /\ UNCHANGED <<power, handles, conn_id, accepting, waiting_result_p, frame, wild>>

DeactivateEnds ==
    /\ server_status = "POWERING_OFF"
    /\ ExitCm /\ Event(TRUE)
    /\ UNCHANGED <<power, btspp_hdl, btspp_buf, conn_id, accepting, waiting_result_p, frame, wild>>

DeactivateIgnored ==
    /\ server_status \notin {"BEGINING", "POWERING_OFF"}
    /\ Event(FALSE)
    /\ UNCHANGED <<power, power_on, conn_id, accepting, waiting_result_p, frame, wild>>

Deactivate ==
    /\ btcm_hdl /\ Delivered("DEACTIVATE")
    /\ DeactivateBegins \/ DeactivateEnds \/ DeactivateIgnored
    /\ UNCHANGED <<visible, write, spoiled>>

SetVisibility ==
    /\ btcm_hdl /\ Delivered("SET_VISIBILITY")
    /\ Store(waiting_result_p, TRUE)
    /\ waiting_result_p' = "null"
    /\ Event(TRUE)
    /\ UNCHANGED <<power, power_on, conn_id, accepting, visible, write, spoiled>>

\* No callback is registered.
Missed ==
    /\ ~btcm_hdl
    /\ \E evt \in {"ACTIVATE", "DEACTIVATE", "SET_VISIBILITY"} : Delivered(evt)
    /\ Event(FALSE)
    /\ UNCHANGED <<power, power_on, conn_id, accepting, waiting_result_p, visible, write, frame,
                   history>>

----------------------------------------------------------------------------
(* Events: bt_server_spp_cb and bt_server_accept_timeout_cb *)

\* Mutated form of Authorize: the client is let in and the timer keeps running.
AuthorizeKeepsTimer(known) ==
    /\ btspp_hdl /\ waiting_for_accept /\ (mac_only => known)
    /\ accepted' = TRUE
    /\ Event(FALSE)
    /\ UNCHANGED <<adapter, power_on, conn_id, waiting_for_accept, accept_tid, mac_only, failed,
                   waiting_result_p, visible, write, frame, history>>

\* A client asks to be let in; known says that its address is the named one.  Every other
\* one is rejected.  What vm_bt_spp_accept returns is not looked at: if it fails, no CONNECT
\* will come, and the timer is deleted all the same.
Authorize(known) ==
    /\ btspp_hdl /\ waiting_for_accept /\ (mac_only => known)
    /\ \/ accepted' = TRUE /\ UNCHANGED failed
       \/ May("spp_accept") /\ failed' = failed \cup {"spp_accept"} /\ UNCHANGED accepted
    /\ waiting_for_accept' = FALSE /\ accept_tid' = FALSE
    /\ Event(FALSE)
    /\ UNCHANGED <<adapter, power_on, conn_id, mac_only, waiting_result_p, visible, write, frame,
                   history>>

\* Mutated form of Connect: the result is stored and nobody is told.
ConnectSilent(ok) ==
    /\ btspp_hdl /\ (accepted \/ (ok /\ ~conn_id))
    /\ accepted' = FALSE
    /\ conn_id' = (conn_id \/ ok)
    /\ UNCHANGED <<mac_only, failed, frame, history, waiting_for_accept, accept_tid, waiting_result_p>>
    /\ Event(FALSE)
    /\ UNCHANGED <<adapter, power_on, visible, write>>

\* CONNECT: of the client that was let in, or of a link the stack restores, which
\* ends whatever call is waiting.  If that is an accept() still waiting for a client,
\* the timer's callback, called at the end, answers it a second time, through the
\* pointer that has just been reset.
Connect(ok) ==
    /\ btspp_hdl /\ (accepted \/ (ok /\ ~conn_id))
    /\ accepted' = FALSE
    /\ conn_id' = (conn_id \/ ok)
    /\ UNCHANGED <<mac_only, failed>>
    /\ IF waiting_result_p = "null"
       THEN Event(FALSE) /\ UNCHANGED <<frame, history, waiting_for_accept, accept_tid>>
       ELSE /\ frame' = IF waiting_result_p = "caller" THEN [frame EXCEPT !.result = Bool(ok)] ELSE frame
            /\ wild' = (wild \/ waiting_result_p # "caller" \/ waiting_for_accept)
            /\ spoiled' = (spoiled \/ ~accepted)
            /\ waiting_for_accept' = FALSE
            /\ accept_tid' = (accept_tid /\ ~waiting_for_accept)
            /\ Event(TRUE)
    /\ waiting_result_p' = "null"
    /\ UNCHANGED <<adapter, power_on, visible, write>>

Disconnect ==
    /\ conn_id
    /\ conn_id' = FALSE
    /\ Event(FALSE)
    /\ UNCHANGED <<adapter, power_on, accepting, waiting_result_p, visible, write, frame, history>>

ReadyToWrite ==
    /\ conn_id
    /\ m_signal_write' = TRUE /\ m_post_write' = TRUE
    /\ Event(FALSE)
    /\ UNCHANGED <<adapter, power_on, conn_id, accepting, waiting_result_p, visible, writing, frame,
                   history>>

\* accept()'s timer; it fires again if it does nothing.
Timeout ==
    /\ accept_tid /\ waiting_for_accept
    /\ waiting_for_accept' = FALSE /\ accept_tid' = FALSE
    /\ Store(waiting_result_p, FALSE)
    /\ waiting_result_p' = "null"
    /\ Event(TRUE)
    /\ UNCHANGED <<adapter, power_on, conn_id, mac_only, accepted, failed, visible, write, spoiled>>

----------------------------------------------------------------------------
(* The specification *)

Sketch ==
    /\ GoesOn \/ ~spoiled
    /\ \/ Begin \/ End \/ Connected \/ Write
       \/ \E named \in BOOLEAN : Accept(named)

InCall == WriteCall \/ Returned

RunFunction == \/ BeginRefused \/ BeginWaits \/ BeginOn \/ BeginFails \/ RunEnd
               \/ AcceptRefused \/ AcceptWaits \/ RunConnected \/ RunWrite

HandleSysevt == RunFunction /\ UNCHANGED write

Posts == /\ PostResult
         /\ UNCHANGED <<adapter, power_on, conn_id, waiting_result_p, accepting, visible, write,
                        frame, history>>

CmEvent == Activate \/ Deactivate \/ SetVisibility \/ Missed

SppEvent == \/ \E known \in BOOLEAN : Authorize(known)
            \/ \E ok \in BOOLEAN : Connect(ok)
            \/ Disconnect \/ ReadyToWrite

\* The chip finishes switching, or becoming visible.  Whether it stays visible when
\* it is switched off and on again is not known.
Chip ==
    /\ \/ Switched /\ (UNCHANGED visible \/ (power' = "OFF" /\ visible' = "off"))
       \/ visible = "setting" /\ visible' = "on" /\ cmq' = Append(cmq, "SET_VISIBILITY") /\ UNCHANGED power
    /\ UNCHANGED <<rpc, power_on, conn_id, waiting_result_p, accepting, write, frame, history>>

Next == Sketch \/ InCall \/ HandleSysevt \/ Posts \/ CmEvent \/ SppEvent \/ Timeout \/ Chip

Spec == Init /\ [][Next]_vars

\* Both threads go on, the chip finishes what it began, the stack tells how a link
\* it accepted came out and a timer fires.  Nothing is assumed of clients or the sketch.
FairSpec ==
    /\ Spec
    /\ WF_vars(InCall)
    /\ WF_vars(HandleSysevt \/ Posts)
    /\ WF_vars(CmEvent)
    /\ WF_vars(Chip)
    /\ WF_vars(Timeout)
    /\ WF_vars(accepted /\ \E ok \in BOOLEAN : Connect(ok))

----------------------------------------------------------------------------
(* Properties *)

\* Until some call is answered twice, no result is written through NULL or into
\* the frame of a call that is over, whatever fails on the way: not by the CONNECT of
\* a client that AUTHORIZE let in, either, for the timer no longer ends accept() then.
NoWildWrite == wild => spoiled

\* Until then, a call that is about to return has had its result stored.
Answered == call \in {"begin", "accept"} /\ signal => spoiled \/ frame.result # "unset"

\* Between calls the server is begun, with its port and buffer, or closed with
\* nothing left open.
AllOrNothing ==
    call = None /\ ~spoiled =>
        /\ btspp_hdl = btcm_hdl /\ btspp_buf = btcm_hdl
        /\ ~btcm_hdl => server_status = "IDLE" /\ ~conn_id

\* accept() without a limit: its timer could not be made, or is deleted for a client that
\* the stack did not let in.
Unlimited ==
    /\ call = "accept"
    /\ ("timer" \in failed /\ waiting_for_accept) \/ "spp_accept" \in failed

\* Every call returns, whatever fails, accept() by connection or timeout; but an accept()
\* may wait for ever once no timer runs and no client is let in, because btServerAccept did
\* not get a timer or bt_server_spp_cb does not look at what vm_bt_spp_accept returns.
CallsReturn == (call # None) ~> (call = None \/ spoiled \/ []Unlimited)

\* What LBTServer.h:167 says of accept(): it "returns as long as the connection is
\* made or timeout", and so not before either has stored the result.
AcceptTold == call = "accept" /\ signal => frame.result # "unset"

\* What LBTServer.h:166 says of accept() without an address: it is to "accept SPP
\* client's connection request", and so the address of an earlier call is no bar.
AcceptsAnyone == waiting_for_accept /\ mac_only => frame.named
=============================================================================
