----------------------------- MODULE LBTClient ------------------------------
(***************************************************************************)
(* LBTClient: the Bluetooth serial-port client of a sketch                 *)
(* (libraries/LBT/LBTClient.cpp) and its half on the main thread           *)
(* (libraries/LBT/utility/BTClient.cpp).  begin() and end() are state      *)
(* machines driven by the chip's power events; connect() and scan() wait   *)
(* for one event each; write() waits for the stack before it calls.        *)
(*                                                                         *)
(* Handles are open or not.  waiting_result_p and scan_number_p point into *)
(* the frame of a caller (SketchCall).                                     *)
(***************************************************************************)
EXTENDS SketchCall, BTAdapter, Integers

CONSTANTS Timers,      \* timers vm_timer_create_precise can return
          EndUnbegun   \* whether the sketch may call end() without a begin() that succeeded

ASSUME TimersAssumption == Timers \subseteq Nat \ {0}

VARIABLES
    client_status,
    btcm_hdl, btspp_hdl, btspp_buf, conn_id,   \* open, allocated, connected
    waiting_result_p, scan_number_p,
    search_tid,
    m_post_write, m_signal_write,
    writing,      \* where the sketch is in write()
    connecting,   \* the stack owes a CONNECT event
    inquiry,      \* the search of the stack
    timers,       \* per timer: not created, of the latest scan, of an earlier one
    result,       \* the boolean result in the caller's frame
    wild,         \* history: something was written through NULL or into a dead frame
    switches      \* history: how often another library has switched the chip

spp == <<btspp_hdl, btspp_buf, conn_id>>
power_on == <<client_status, btcm_hdl, spp, waiting_result_p>>
scanning == <<scan_number_p, search_tid, inquiry, timers>>
write == <<m_post_write, m_signal_write, writing>>
vars == <<rpc, adapter, power_on, scanning, write, connecting, result, wild, switches>>

Functions == {"begin", "end", "connect", "connected", "scan", "write"}

ASSUME NoneAssumption == None \notin Functions

NoTimer == {-1, 0}   \* a failed vm_timer_create_precise, and none

\* Another library switches the chip twice at most: off and on, or on and off.
MaxSwitches == 2

TypeOK ==
    /\ RpcType(Functions)
    /\ AdapterType
    /\ client_status \in {"IDLE", "BEGINING", "POWERING_ON", "READY", "ENDING", "POWERING_OFF"}
    /\ {btcm_hdl, btspp_hdl, btspp_buf, conn_id} \subseteq BOOLEAN
    /\ {waiting_result_p, scan_number_p} \subseteq Pointers
    /\ search_tid \in Timers \cup NoTimer
    /\ {m_post_write, m_signal_write, connecting, result, wild} \subseteq BOOLEAN
    /\ writing \in {"no", "wait", "reset", "clear", "call"}
    /\ inquiry \in {"none", "running", "aborted"}
    /\ switches \in 0 .. MaxSwitches
    /\ timers \in [Timers -> {"free", "latest", "earlier"}]

Init ==
    /\ RpcInit /\ AdapterInit
    /\ client_status = "IDLE"
    /\ btcm_hdl = FALSE /\ btspp_hdl = FALSE /\ btspp_buf = FALSE /\ conn_id = FALSE
    /\ waiting_result_p = "null" /\ scan_number_p = "null"
    /\ search_tid = 0
    /\ m_post_write = FALSE /\ m_signal_write = FALSE /\ writing = "no"
    /\ connecting = FALSE /\ inquiry = "none"
    /\ timers = [t \in Timers |-> "free"]
    /\ result = FALSE /\ wild = FALSE /\ switches = 0

\* *p = value for a boolean result, and what becomes of wild.
Store(p, value) ==
    /\ result' = IF p = "caller" THEN value ELSE result
    /\ wild' = (wild \/ p # "caller")

----------------------------------------------------------------------------
(* The sketch thread: LBTClient.cpp *)

\* begin() and end() call _LTaskClass::begin(), end() by way of stop().
Begin ==
    /\ writing = "no" /\ CallFresh("begin")
    /\ m_signal_write' = FALSE
    /\ result' = FALSE
    /\ UNCHANGED <<adapter, power_on, scanning, m_post_write, writing, connecting, wild>>

End ==
    /\ writing = "no" /\ CallFresh("end")
    /\ EndUnbegun \/ btcm_hdl
    /\ m_signal_write' = FALSE
    /\ UNCHANGED <<adapter, power_on, scanning, m_post_write, writing, connecting, result, wild>>

\* connect(), connected() and scan(); the result of connected() starts out TRUE.
Ask(f) ==
    /\ writing = "no" /\ Call(f)
    /\ result' = (f = "connected")
    /\ UNCHANGED <<adapter, power_on, scanning, write, connecting, wild>>

\* write() waits for the stack's first READY_TO_WRITE; m_post_write stays set
\* after the first write.
WriteEnter ==
    /\ call = None /\ writing = "no"
    /\ writing' = IF m_post_write THEN "reset" ELSE "wait"
    /\ UNCHANGED <<rpc, adapter, power_on, scanning, m_post_write, m_signal_write,
                   connecting, result, wild>>

WriteWait ==
    /\ writing = "wait" /\ m_signal_write
    /\ m_signal_write' = FALSE
    /\ writing' = "reset"
    /\ UNCHANGED <<rpc, adapter, power_on, scanning, m_post_write, connecting, result, wild>>

WriteReset ==
    /\ writing = "reset"
    /\ m_post_write' = FALSE
    /\ writing' = "clear"
    /\ UNCHANGED <<rpc, adapter, power_on, scanning, m_signal_write, connecting, result, wild>>

WriteCall ==
    /\ writing = "clear" /\ Call("write")
    /\ m_signal_write' = FALSE
    /\ writing' = "call"
    /\ UNCHANGED <<adapter, power_on, scanning, m_post_write, connecting, result, wild>>

Returned ==
    /\ Return
    /\ waiting_result_p' = After(waiting_result_p)
    /\ scan_number_p' = After(scan_number_p)
    /\ m_post_write' = (m_post_write \/ writing = "call")
    /\ writing' = "no"
    /\ UNCHANGED <<adapter, client_status, btcm_hdl, spp, search_tid, inquiry, timers,
                   m_signal_write, connecting, result, wild>>

----------------------------------------------------------------------------
(* bt_client_init_spp and bt_client_end_spp *)

\* The serial port opens only while the chip is on.
InitSpp == power = "ON" /\ btspp_hdl' = TRUE /\ btspp_buf' = TRUE /\ UNCHANGED conn_id
InitSppFails == power # "ON" \/ May("init_spp")

CloseSpp == btspp_hdl' = FALSE /\ btspp_buf' = FALSE /\ conn_id' = FALSE

ExitCm == btcm_hdl' = FALSE /\ client_status' = "IDLE"

\* bt_client_end_spp() returning done: TRUE when everything is closed, FALSE when
\* a power event will finish the work.
EndSpp(done) ==
    /\ CloseSpp
    /\ \/ ~done /\ SwitchOff /\ client_status' = "POWERING_OFF" /\ UNCHANGED btcm_hdl
       \/ /\ ~done /\ power = "SWITCHING_ON" /\ client_status' = "ENDING"
          /\ UNCHANGED <<power, btcm_hdl>>
       \/ /\ ~done /\ power = "SWITCHING_OFF" /\ client_status' = "POWERING_OFF"
          /\ UNCHANGED <<power, btcm_hdl>>
       \/ done /\ power = "ON" /\ SwitchOffFails /\ ExitCm
       \/ done /\ power = "OFF" /\ ExitCm /\ UNCHANGED power

----------------------------------------------------------------------------
(* btClientBegin *)

Userdata(p) == p' = m_msg.userdata

\* Already begun, or vm_bt_cm_init fails.
BeginRefused ==
    /\ Run("begin") /\ (btcm_hdl \/ May("cm_init"))
    /\ Store(m_msg.userdata, FALSE)
    /\ Returns(TRUE, FALSE)
    /\ UNCHANGED <<adapter, power_on, scanning, write, connecting>>

\* The chip is not on: wait for the event that tells.
BeginWaits ==
    /\ Run("begin") /\ ~btcm_hdl
    /\ \/ SwitchOn /\ client_status' = "POWERING_ON"
       \/ power = "SWITCHING_OFF" /\ client_status' = "BEGINING" /\ UNCHANGED power
       \/ power = "SWITCHING_ON" /\ client_status' = "POWERING_ON" /\ UNCHANGED power
    /\ btcm_hdl' = TRUE
    /\ Userdata(waiting_result_p)
    /\ Returns(FALSE, FALSE)
    /\ UNCHANGED <<cmq, spp, scanning, write, connecting, result, wild>>

\* Mutated form of BeginReady: it posts, and __handle_sysevt posts again.
BeginReadyPosts ==
    /\ Run("begin") /\ ~btcm_hdl
    /\ power = "ON" /\ InitSpp
    /\ btcm_hdl' = TRUE /\ client_status' = "READY"
    /\ Store(m_msg.userdata, TRUE)
    /\ Returns(TRUE, TRUE)
    /\ UNCHANGED <<adapter, waiting_result_p, scanning, write, connecting>>

BeginReady ==
    /\ Run("begin") /\ ~btcm_hdl
    /\ power = "ON" /\ InitSpp
    /\ btcm_hdl' = TRUE /\ client_status' = "READY"
    /\ Store(m_msg.userdata, TRUE)
    /\ Returns(TRUE, FALSE)
    /\ UNCHANGED <<adapter, waiting_result_p, scanning, write, connecting>>

\* switch_on or init_spp failed: bt_client_end_spp() decides whether the call is over.
BeginFails ==
    /\ Run("begin") /\ ~btcm_hdl
    /\ \/ /\ power = "OFF" /\ May("switch_on")
          /\ CloseSpp /\ ExitCm /\ UNCHANGED power /\ Returns(TRUE, FALSE)
       \/ /\ power = "ON" /\ InitSppFails /\ SwitchOff
          /\ CloseSpp /\ client_status' = "POWERING_OFF" /\ btcm_hdl' = TRUE
          /\ Returns(FALSE, FALSE)
       \/ /\ power = "ON" /\ InitSppFails /\ SwitchOffFails
          /\ CloseSpp /\ ExitCm /\ Returns(TRUE, FALSE)
    /\ Store(m_msg.userdata, FALSE)
    /\ UNCHANGED <<cmq, waiting_result_p, scanning, write, connecting>>

----------------------------------------------------------------------------
(* The other functions *)

RunEnd ==
    /\ Run("end")
    /\ \E done \in BOOLEAN : EndSpp(done) /\ Returns(done, FALSE)
    /\ UNCHANGED <<cmq, waiting_result_p, scanning, write, connecting, result, wild>>

\* Connected already, or vm_bt_spp_connect fails.
ConnectRefused ==
    /\ Run("connect")
    /\ conn_id \/ ~btspp_hdl \/ May("spp_connect")
    /\ Store(m_msg.userdata, FALSE)
    /\ Returns(TRUE, FALSE)
    /\ UNCHANGED <<adapter, power_on, scanning, write, connecting>>

ConnectWaits ==
    /\ Run("connect")
    /\ ~conn_id /\ btspp_hdl
    /\ connecting' = TRUE
    /\ Userdata(waiting_result_p)
    /\ Returns(FALSE, FALSE)
    /\ UNCHANGED <<adapter, client_status, btcm_hdl, spp, scanning, write, result, wild>>

RunConnected ==
    /\ Run("connected")
    /\ Store(m_msg.userdata, conn_id)
    /\ Returns(TRUE, FALSE)
    /\ UNCHANGED <<adapter, power_on, scanning, write, connecting>>

RunWrite ==
    /\ Run("write")
    /\ Returns(TRUE, FALSE)
    /\ UNCHANGED <<adapter, power_on, scanning, write, connecting, result, wild>>

\* time_out is 0, or vm_bt_cm_search fails: the number is stored at once.
ScanNothing ==
    /\ Run("scan")
    /\ Store(m_msg.userdata, result)
    /\ Returns(TRUE, FALSE)
    /\ UNCHANGED <<adapter, power_on, scanning, write, connecting>>

Unused == {t \in Timers : timers[t] = "free"}

\* vm_bt_cm_search takes a search while none runs and the manager is initialised; otherwise
\* it fails, and the scan is a ScanNothing.  A timer may fail to be created.
ScanWaits ==
    /\ Run("scan")
    /\ btcm_hdl /\ inquiry = "none"
    /\ inquiry' = "running"
    /\ \/ /\ Unused = {}
          /\ search_tid' = -1
          /\ timers' = [t \in Timers |-> "earlier"]
       \/ \E t \in Unused :
             /\ search_tid' = t
             /\ timers' = [u \in Timers |-> IF u = t THEN "latest"
                                            ELSE IF u \in Unused THEN "free" ELSE "earlier"]
    /\ Userdata(scan_number_p)
    /\ Returns(FALSE, FALSE)
    /\ UNCHANGED <<adapter, power_on, write, connecting, result, wild>>

----------------------------------------------------------------------------
(* Events: bt_client_btcm_cb *)

\* ACTIVATE while begin() waits for it.  client_status is left as it is.
ActivateReady ==
    /\ client_status = "POWERING_ON" /\ InitSpp
    /\ Store(waiting_result_p, TRUE)
    /\ waiting_result_p' = "null"
    /\ Event(TRUE)
    /\ UNCHANGED <<power, btcm_hdl, client_status>>

\* Mutated form of ActivateFails: it posts only if an event is still to come.
ActivateFailsSilent ==
    /\ client_status = "POWERING_ON" /\ InitSppFails
    /\ Store(waiting_result_p, FALSE)
    /\ waiting_result_p' = "null"
    /\ \E done \in BOOLEAN : EndSpp(done) /\ Event(~done)

ActivateFails ==
    /\ client_status = "POWERING_ON" /\ InitSppFails
    /\ Store(waiting_result_p, FALSE)
    /\ waiting_result_p' = "null"
    /\ \E done \in BOOLEAN : EndSpp(done) /\ Event(done)

\* end() had to wait for the chip to be on before it can be switched off.
ActivateEnding ==
    /\ client_status = "ENDING"
    /\ \/ SwitchOff /\ client_status' = "POWERING_OFF" /\ Event(FALSE) /\ UNCHANGED btcm_hdl
       \/ SwitchOffFails /\ ExitCm /\ Event(TRUE)
    /\ UNCHANGED <<spp, waiting_result_p, result, wild>>

ActivateIgnored ==
    /\ client_status \notin {"POWERING_ON", "ENDING"}
    /\ Event(FALSE)
    /\ UNCHANGED <<power, power_on, result, wild>>

Activate ==
    /\ btcm_hdl /\ Delivered("ACTIVATE")
    /\ ActivateReady \/ ActivateFails \/ ActivateEnding \/ ActivateIgnored
    /\ UNCHANGED <<scanning, write, connecting>>

\* DEACTIVATE while begin() waits to switch the chip on again.
DeactivateBegins ==
    /\ client_status = "BEGINING"
    /\ \/ /\ SwitchOn /\ client_status' = "POWERING_ON" /\ Event(FALSE)
          /\ UNCHANGED <<btcm_hdl, spp, waiting_result_p, result, wild>>
       \/ /\ power # "OFF" \/ May("switch_on")
          /\ Store(waiting_result_p, FALSE)
          /\ waiting_result_p' = "null"
          /\ \E done \in BOOLEAN : EndSpp(done) /\ Event(done)

\* Mutated form of DeactivateEnds: the connection manager's handle is not closed.
DeactivateKeepsCm ==
    /\ client_status = "POWERING_OFF"
    /\ client_status' = "IDLE" /\ Event(TRUE)
    /\ UNCHANGED <<power, btcm_hdl, spp, waiting_result_p, result, wild>>

DeactivateEnds ==
    /\ client_status = "POWERING_OFF"
    /\ ExitCm /\ Event(TRUE)
    /\ UNCHANGED <<power, spp, waiting_result_p, result, wild>>

DeactivateIgnored ==
    /\ client_status \notin {"BEGINING", "POWERING_OFF"}
    /\ Event(FALSE)
    /\ UNCHANGED <<power, power_on, result, wild>>

Deactivate ==
    /\ btcm_hdl /\ Delivered("DEACTIVATE")
    /\ DeactivateBegins \/ DeactivateEnds \/ DeactivateIgnored
    /\ UNCHANGED <<scanning, write, connecting>>

\* No callback is registered.
Missed ==
    /\ ~btcm_hdl
    /\ Delivered("ACTIVATE") \/ Delivered("DEACTIVATE")
    /\ Event(FALSE)
    /\ UNCHANGED <<power, power_on, scanning, write, connecting, result, wild>>

\* A report of a running search: the number so far is stored.
InquiryInd ==
    /\ inquiry = "running" /\ btcm_hdl
    /\ Store(scan_number_p, result)
    /\ Event(FALSE)
    /\ UNCHANGED <<adapter, power_on, scanning, write, connecting>>

\* The search is over, by itself or aborted.  Its timer is not deleted.
InquiryComplete ==
    /\ inquiry # "none" /\ btcm_hdl
    /\ inquiry' = "none"
    /\ Store(scan_number_p, result)
    /\ Event(TRUE)
    /\ UNCHANGED <<adapter, power_on, scan_number_p, search_tid, timers, write, connecting>>

\* Mutated form of Timeout: any timer ends the search.
TimeoutOfAny(t) ==
    /\ timers[t] # "free"
    /\ inquiry' = IF inquiry = "running" THEN "aborted" ELSE inquiry
    /\ timers' = [timers EXCEPT ![t] = "free"]
    /\ search_tid' = 0
    /\ Event(FALSE)
    /\ UNCHANGED <<adapter, power_on, scan_number_p, write, connecting, result, wild>>

\* bt_client_timeout_cb.  A timer that is not search_tid does nothing, and fires again.
Timeout(t) ==
    /\ timers[t] # "free" /\ t = search_tid
    /\ inquiry' = IF inquiry = "running" THEN "aborted" ELSE inquiry
    /\ timers' = [timers EXCEPT ![t] = "free"]
    /\ search_tid' = 0
    /\ Event(FALSE)
    /\ UNCHANGED <<adapter, power_on, scan_number_p, write, connecting, result, wild>>

----------------------------------------------------------------------------
(* Events: bt_client_spp_cb *)

\* Mutated form of Connect: waiting_result_p is not reset.
ConnectKeepsPointer(ok) ==
    /\ btspp_hdl /\ (connecting \/ (ok /\ ~conn_id))
    /\ connecting' = FALSE
    /\ conn_id' = (conn_id \/ ok)
    /\ IF waiting_result_p # "null"
       THEN Store(waiting_result_p, ok) /\ Event(TRUE)
       ELSE Event(FALSE) /\ UNCHANGED <<result, wild>>
    /\ UNCHANGED <<adapter, client_status, btcm_hdl, btspp_hdl, btspp_buf, scanning, write,
                   waiting_result_p>>

\* CONNECT with the outcome ok: of connect(), or of a link the stack restores.
Connect(ok) ==
    /\ btspp_hdl /\ (connecting \/ (ok /\ ~conn_id))
    /\ connecting' = FALSE
    /\ conn_id' = (conn_id \/ ok)
    /\ IF waiting_result_p # "null"
       THEN Store(waiting_result_p, ok) /\ Event(TRUE)
       ELSE Event(FALSE) /\ UNCHANGED <<result, wild>>
    /\ waiting_result_p' = "null"
    /\ UNCHANGED <<adapter, client_status, btcm_hdl, btspp_hdl, btspp_buf, scanning, write>>

Disconnect ==
    /\ conn_id
    /\ conn_id' = FALSE
    /\ Event(FALSE)
    /\ UNCHANGED <<adapter, client_status, btcm_hdl, btspp_hdl, btspp_buf, waiting_result_p,
                   scanning, write, connecting, result, wild>>

ReadyToWrite ==
    /\ conn_id
    /\ m_signal_write' = TRUE
    /\ m_post_write' = TRUE
    /\ Event(FALSE)
    /\ UNCHANGED <<adapter, power_on, scanning, writing, connecting, result, wild>>

----------------------------------------------------------------------------
(* The specification *)

Sketch ==
    \/ Begin \/ End \/ WriteEnter
    \/ \E f \in {"connect", "connected", "scan"} : Ask(f)

InCall == WriteWait \/ WriteReset \/ WriteCall \/ Returned

HandleSysevt ==
    \/ BeginRefused \/ BeginWaits \/ BeginReady \/ BeginFails \/ RunEnd
    \/ ConnectRefused \/ ConnectWaits \/ RunConnected \/ RunWrite
    \/ ScanNothing \/ ScanWaits

Posts == PostResult /\ UNCHANGED <<adapter, power_on, scanning, write, connecting, result, wild>>

CmEvent == Activate \/ Deactivate \/ Missed

SppEvent == \/ \E ok \in BOOLEAN : Connect(ok)
            \/ Disconnect \/ ReadyToWrite

ScanEvent == \/ InquiryInd
             \/ InquiryComplete
             \/ \E t \in Timers : Timeout(t)

Chip == /\ \/ Switched /\ UNCHANGED switches
           \/ switches < MaxSwitches /\ OtherSwitches /\ switches' = switches + 1
        /\ UNCHANGED <<rpc, power_on, scanning, write, connecting, result, wild>>

\* Only the chip's steps count switches.
Own(A) == A /\ UNCHANGED switches

Next == Own(Sketch \/ InCall \/ HandleSysevt \/ Posts \/ CmEvent \/ SppEvent \/ ScanEvent) \/ Chip

Spec == Init /\ [][Next]_vars

\* The sketch thread goes on once it is woken; the main thread serves messages and
\* events; the chip finishes switching, the stack answers a connect and ends a
\* search.  Nothing is assumed of timers, of reports, of the peer, or of the sketch.
FairSpec ==
    /\ Spec
    /\ WF_vars(Own(InCall))
    /\ WF_vars(Own(HandleSysevt \/ Posts))
    /\ WF_vars(Own(CmEvent))
    /\ WF_vars(Switched /\ Chip)
    /\ WF_vars(Own(InquiryComplete))
    /\ WF_vars(Own(connecting /\ \E ok \in BOOLEAN : Connect(ok)))

----------------------------------------------------------------------------
(* Properties *)

\* Another library has switched the chip off and on again, or on and off, under the
\* client's feet: a stale POWERING_ON then takes its ACTIVATE for the client's own, and
\* of the properties only that calls return is left.
Mixed == switches > 1

\* Each call is answered once: nothing of an earlier one is left when the sketch is
\* outside remoteCall.
AnsweredOnce == Mixed \/ Quiet

\* No result is written through NULL or into the frame of a call that is over.
NoWildWrite == wild => Mixed

\* Between calls the client is either begun, with every handle it needs, or closed,
\* with none left behind: whatever failed on the way, and however the power events
\* fell.  When begin() is about to return, TRUE means that the port is open.
AllOrNothing ==
    ~Mixed =>
        /\ call = None =>
               /\ btspp_hdl = btcm_hdl /\ btspp_buf = btcm_hdl
               /\ ~btcm_hdl => client_status = "IDLE" /\ ~conn_id
        /\ call = "begin" /\ signal /\ result => btcm_hdl /\ btspp_hdl /\ btspp_buf

\* A search is aborted by the timer made for it, never by one an earlier scan
\* left running.
AbortsOwnScan ==
    [][inquiry = "running" /\ inquiry' = "aborted" =>
          \E t \in Timers : timers[t] = "latest" /\ timers'[t] = "free"]_vars

\* A call to the main thread returns.
CallsReturn == (call # None) ~> (call = None)

\* What the comments of bt_client_status say (BTClient.cpp:93): POWERING_ON is
\* "waiting for power on to process", so begin() is waiting in that status.
PoweringOnWaits == client_status = "POWERING_ON" => waiting_result_p = "caller"

\* What LBTClient.h:572 says of write(): it returns 1, or 0 "for write fail".
WriteReturns == (writing # "no") ~> (writing = "no")
=============================================================================
