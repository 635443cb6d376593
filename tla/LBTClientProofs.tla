-------------------------- MODULE LBTClientProofs ---------------------------
(***************************************************************************)
(* The Bluetooth client, with any drivers that fail and while somebody     *)
(* else switches the chip at most once: each call is answered once, into   *)
(* the frame that waits for it, and leaves the client begun or closed.     *)
(* What has to be shown is that the power event a call waits for is on its *)
(* way, with no older one before it that could be taken for it.            *)
(***************************************************************************)
EXTENDS LBTClient, SequenceTheorems, TLAPS

\* The queues of power events that occur.
Empty == << >>
A == <<"ACTIVATE">>
D == <<"DEACTIVATE">>
DA == <<"DEACTIVATE", "ACTIVATE">>
AD == <<"ACTIVATE", "DEACTIVATE">>

----------------------------------------------------------------------------
(* The inductive invariant *)

\* Nothing is open.  An event that nobody waits for may be under way.
Closed ==
    /\ ~btcm_hdl /\ ~btspp_hdl /\ ~btspp_buf /\ ~conn_id
    /\ client_status = "IDLE"
    /\ \/ cmq = Empty
       \/ power = "ON" /\ cmq = A
       \/ power = "OFF" /\ cmq = D

\* Everything is open.  The chip is on, unless the one switch was to turn it off; a status
\* that is still POWERING_ON has no ACTIVATE to come.
Begun ==
    /\ btcm_hdl /\ btspp_hdl /\ btspp_buf
    /\ client_status \in {"READY", "POWERING_ON"}
    /\ \/ power = "ON" /\ (cmq = Empty \/ (cmq = A /\ client_status = "READY"))
       \/ switches = 1 /\ power = "SWITCHING_OFF" /\ cmq = Empty
       \/ switches = 1 /\ power = "OFF" /\ (cmq = Empty \/ cmq = D)

\* begin() waits for the chip to be on, or first to be off.
Beginning ==
    /\ btcm_hdl /\ ~btspp_hdl /\ ~btspp_buf /\ ~conn_id
    /\ \/ /\ client_status = "POWERING_ON"
          /\ \/ power = "SWITCHING_ON" /\ (cmq = Empty \/ cmq = D)
             \/ power = "ON" /\ (cmq = A \/ cmq = DA)
       \/ /\ client_status = "BEGINING"
          /\ \/ power = "SWITCHING_OFF" /\ cmq = Empty
             \/ power = "OFF" /\ cmq = D

\* end(), or a begin() that failed, waits for the chip to be off.
Ending ==
    /\ btcm_hdl /\ ~btspp_hdl /\ ~btspp_buf /\ ~conn_id
    /\ client_status = "POWERING_OFF"
    /\ \/ power = "SWITCHING_OFF" /\ (cmq = Empty \/ cmq = A)
       \/ power = "OFF" /\ (cmq = D \/ cmq = AD)

\* No event will answer a call.
Idle == waiting_result_p = "null" /\ inquiry = "none" /\ (Closed \/ Begun)

\* An event will.
Owed ==
    \/ /\ Beginning /\ call = "begin" /\ ~result
       /\ waiting_result_p = "caller" /\ inquiry = "none"
    \/ /\ Ending /\ (call = "end" \/ (call = "begin" /\ ~result))
       /\ waiting_result_p = "null" /\ inquiry = "none"
    \/ /\ Begun /\ call = "connect"
       /\ waiting_result_p = "caller" /\ inquiry = "none"
    \/ /\ Begun /\ call = "scan"
       /\ waiting_result_p = "null" /\ inquiry # "none" /\ scan_number_p = "caller"

\* Where the one call and its answer are.
Resting == call = None /\ sent = 0 /\ ~signal /\ ~posting /\ Idle
Sent ==
    /\ call \in Functions /\ sent = 1 /\ ~signal /\ ~posting /\ Idle
    /\ m_msg.func = call /\ m_msg.userdata = "caller"
    /\ call = "end" => btcm_hdl
    /\ call = "begin" => ~result
Waiting == call \in Functions /\ sent = 0 /\ ~signal /\ ~posting /\ Owed
Answering ==
    /\ call \in Functions /\ sent = 0 /\ Idle
    /\ \/ signal /\ ~posting
       \/ posting /\ ~signal
    /\ call = "begin" /\ result => Begun

Good == ~wild /\ (Resting \/ Sent \/ Waiting \/ Answering)

Handles == btcm_hdl \in BOOLEAN /\ btspp_hdl \in BOOLEAN /\ btspp_buf \in BOOLEAN

IInv == switches \in Nat /\ Handles /\ (~Mixed => Good)

----------------------------------------------------------------------------
(* The queue of events *)

LEMMA PairLemma ==
    ASSUME NEW x, NEW y
    PROVE  Append(<<x>>, y) = <<x, y>>
<1>1. <<x>> \in Seq({x, y}) /\ Len(<<x>>) = 1
  OBVIOUS
<1>2. /\ Append(<<x>>, y) \in Seq({x, y}) /\ Len(Append(<<x>>, y)) = 2
      /\ Append(<<x>>, y)[1] = x /\ Append(<<x>>, y)[2] = y
  BY <1>1
<1>3. <<x, y>> \in Seq({x, y}) /\ Len(<<x, y>>) = 2 /\ <<x, y>>[1] = x /\ <<x, y>>[2] = y
  OBVIOUS
<1>4. \A i \in 1 .. Len(<<x, y>>) : Append(<<x>>, y)[i] = <<x, y>>[i]
  BY <1>2, <1>3
<1> QED  BY <1>2, <1>3, <1>4, SeqEqual

LEMMA QueueLemma ==
    /\ Empty # A /\ Empty # D /\ Empty # DA /\ Empty # AD
    /\ A # D /\ A # DA /\ A # AD /\ D # DA /\ D # AD /\ DA # AD
    /\ Append(Empty, "ACTIVATE") = A /\ Append(Empty, "DEACTIVATE") = D
    /\ Append(A, "DEACTIVATE") = AD /\ Append(D, "ACTIVATE") = DA
    /\ Head(A) = "ACTIVATE" /\ Tail(A) = Empty
    /\ Head(D) = "DEACTIVATE" /\ Tail(D) = Empty
    /\ Head(DA) = "DEACTIVATE" /\ Tail(DA) = A
    /\ Head(AD) = "ACTIVATE" /\ Tail(AD) = D
<1>1. /\ Len(Empty) = 0 /\ Len(A) = 1 /\ Len(D) = 1 /\ Len(DA) = 2 /\ Len(AD) = 2
      /\ A[1] = "ACTIVATE" /\ D[1] = "DEACTIVATE" /\ DA[1] = "DEACTIVATE" /\ AD[1] = "ACTIVATE"
  BY DEF Empty, A, D, DA, AD
<1>2. /\ Empty # A /\ Empty # D /\ Empty # DA /\ Empty # AD
      /\ A # D /\ A # DA /\ A # AD /\ D # DA /\ D # AD /\ DA # AD
  BY <1>1
<1>3. Append(Empty, "ACTIVATE") = A /\ Append(Empty, "DEACTIVATE") = D
  BY DEF Empty, A, D
<1>4. Append(A, "DEACTIVATE") = AD
  BY PairLemma, Zenon DEF A, AD
<1>5. Append(D, "ACTIVATE") = DA
  BY PairLemma, Zenon DEF D, DA
<1>6. Head(A) = "ACTIVATE" /\ Head(D) = "DEACTIVATE" /\ Head(DA) = "DEACTIVATE" /\ Head(AD) = "ACTIVATE"
  BY DEF A, D, DA, AD
<1>7. Tail(A) = Empty /\ Tail(D) = Empty
  BY DEF A, D, Empty
<1>8. Tail(DA) = A /\ Tail(AD) = D
  BY DEF A, D, DA, AD
<1> QED  BY <1>2, <1>3, <1>4, <1>5, <1>6, <1>7, <1>8

----------------------------------------------------------------------------
(* How a call goes on *)

\* The function that __handle_sysevt runs is that of the call.
LEMMA RunLemma ==
    ASSUME Good, NEW f \in Functions, Run(f)
    PROVE  /\ Sent /\ call = f /\ m_msg.userdata = "caller"
           /\ sent' = 0 /\ call' = f /\ ~signal /\ ~wild
  BY DEF Good, Resting, Sent, Waiting, Answering, Run

LEMMA AnswerLemma ==
    ASSUME call' \in Functions, sent' = 0, posting' = ~signal', signal' \in BOOLEAN, ~wild', Idle',
           call' = "begin" /\ result' => Begun'
    PROVE  Good'
  BY DEF Good, Answering

LEMMA WaitLemma ==
    ASSUME call' \in Functions, sent' = 0, ~posting', ~signal', ~wild', Owed'
    PROVE  Good'
  BY DEF Good, Waiting

\* A function answers at once, or leaves the answer to an event.
LEMMA ReturnsLemma ==
    ASSUME Good, NEW f \in Functions, Run(f), ~wild',
           \/ Returns(TRUE, FALSE) /\ Idle' /\ (f = "begin" /\ result' => Begun')
           \/ Returns(FALSE, FALSE) /\ Owed'
    PROVE  Good'
<1>1. sent' = 0 /\ call' = f /\ ~signal
  BY RunLemma
<1> QED  BY <1>1, AnswerLemma, WaitLemma DEF Returns

\* An event answers the call that waits for it.
LEMMA EventLemma ==
    ASSUME Good, Owed, Event(TRUE), ~wild', Idle', call = "begin" /\ result' => Begun'
    PROVE  Good'
  BY AnswerLemma, NoneAssumption
     DEF Event, Good, Resting, Sent, Waiting, Answering, Owed, Idle, Beginning, Ending, Begun, Closed

\* An event changes nothing that matters to a call.
LEMMA SilentLemma ==
    ASSUME Good, Event(FALSE), ~wild', UNCHANGED <<result, scan_number_p>>,
           Owed => Owed', Idle => Idle', Begun => Begun', btcm_hdl => btcm_hdl'
    PROVE  Good'
  BY DEF Event, Good, Resting, Sent, Waiting, Answering

LEMMA SameLemma ==
    ASSUME UNCHANGED <<adapter, power_on, switches>>
    PROVE  /\ Begun => Begun'
           /\ inquiry' = inquiry /\ Idle => Idle'
  BY DEF Idle, Begun, Closed, power_on, spp, adapter

LEMMA SameStep ==
    ASSUME Good, UNCHANGED <<rpc, adapter, power_on, scanning, result, wild, switches>>
    PROVE  Good'
<1>1. /\ UNCHANGED <<call, m_msg, sent, signal, posting, result, scan_number_p, inquiry, wild>>
      /\ UNCHANGED <<waiting_result_p, btcm_hdl>>
  BY DEF rpc, scanning, power_on
<1>2. Idle => Idle'
  BY DEF Idle, Begun, Closed, power_on, spp, adapter, scanning
<1>3. Owed => Owed'
  <2>1. (Beginning => Beginning') /\ (Ending => Ending')
    BY DEF Beginning, Ending, power_on, spp, adapter
  <2> QED  BY <1>1, <2>1, SameLemma DEF Owed
<1>4. Begun => Begun'
  BY SameLemma
<1> QED  BY <1>1, <1>2, <1>3, <1>4 DEF Good, Resting, Sent, Waiting, Answering

----------------------------------------------------------------------------
(* The functions *)

\* What a function finds: the client is begun or closed, and no event will answer.
LEMMA FoundLemma ==
    ASSUME Good, NEW f \in Functions, Run(f)
    PROVE  /\ Idle /\ call = f /\ call' = f /\ m_msg.userdata = "caller" /\ ~wild
           /\ f = "end" => Begun
           /\ f = "begin" => ~result
           /\ btcm_hdl => Begun
           /\ ~btcm_hdl => Closed
  BY RunLemma DEF Sent, Idle, Begun, Closed

LEMMA BeginStep ==
    ASSUME Good, UNCHANGED switches,
           BeginRefused \/ BeginWaits \/ BeginReady \/ BeginFails
    PROVE  Good'
<1> Run("begin") /\ "begin" \in Functions
  BY DEF BeginRefused, BeginWaits, BeginReady, BeginFails, Functions
<1> Idle /\ call' = "begin" /\ m_msg.userdata = "caller" /\ ~wild /\ ~result
    /\ (btcm_hdl => Begun) /\ (~btcm_hdl => Closed)
  BY FoundLemma
<1>1. CASE BeginRefused
  <2>1. Idle' /\ ~wild' /\ ~result' /\ Returns(TRUE, FALSE)
    BY <1>1 DEF BeginRefused, Store, Idle, Begun, Closed, power_on, spp, scanning, adapter
  <2> QED  BY <2>1, ReturnsLemma
<1>2. CASE BeginWaits
  <2>1. Beginning'
    BY <1>2, QueueLemma DEF BeginWaits, Closed, Beginning, SwitchOn, spp
  <2>2. Owed' /\ ~wild' /\ Returns(FALSE, FALSE)
    BY <1>2, <2>1 DEF BeginWaits, Owed, Idle, Userdata, scanning
  <2> QED  BY <2>2, ReturnsLemma
<1>3. CASE BeginReady
  <2>1. Begun'
    BY <1>3, QueueLemma DEF BeginReady, InitSpp, Closed, Begun, adapter
  <2>2. Idle' /\ ~wild' /\ Returns(TRUE, FALSE)
    BY <1>3, <2>1 DEF BeginReady, Idle, Store, scanning
  <2> QED  BY <2>1, <2>2, ReturnsLemma
<1>4. CASE BeginFails
  <2>1. /\ waiting_result_p' = "null" /\ inquiry' = "none" /\ ~wild' /\ ~result'
    BY <1>4 DEF BeginFails, Idle, Store, scanning
  <2>2. \/ Returns(TRUE, FALSE) /\ Closed'
        \/ Returns(FALSE, FALSE) /\ Ending'
    BY <1>4, QueueLemma
       DEF BeginFails, Closed, Ending, CloseSpp, ExitCm, SwitchOff, SwitchOffFails
  <2> QED  BY <2>1, <2>2, ReturnsLemma DEF Idle, Owed
<1> QED  BY <1>1, <1>2, <1>3, <1>4

\* While nobody else has switched the chip on and off, end() finds it on, being switched
\* off, or off.
LEMMA EndStep ==
    ASSUME Good, UNCHANGED switches, RunEnd
    PROVE  Good'
<1>1. Run("end") /\ "end" \in Functions
  BY DEF RunEnd, Functions
<1>2. Idle /\ Begun /\ call' = "end" /\ ~wild
  BY <1>1, FoundLemma
<1>3. PICK done \in BOOLEAN : EndSpp(done) /\ Returns(done, FALSE)
  BY DEF RunEnd
<1>4. waiting_result_p' = "null" /\ inquiry' = "none" /\ ~wild' /\ UNCHANGED cmq
  BY <1>2 DEF RunEnd, Idle, scanning
<1>5. CASE ~done
  <2>1. Ending'
    BY <1>2, <1>3, <1>4, <1>5, QueueLemma DEF EndSpp, CloseSpp, Begun, Ending, SwitchOff
  <2> QED  BY <1>1, <1>2, <1>3, <1>4, <1>5, <2>1, ReturnsLemma DEF Owed
<1>6. CASE done
  <2>1. Closed'
    BY <1>2, <1>3, <1>4, <1>6, QueueLemma
       DEF EndSpp, CloseSpp, ExitCm, Begun, Closed, SwitchOffFails
  <2> QED  BY <1>1, <1>2, <1>3, <1>4, <1>6, <2>1, ReturnsLemma DEF Idle
<1> QED  BY <1>5, <1>6

LEMMA ConnectStep ==
    ASSUME Good, UNCHANGED switches,
           ConnectRefused \/ ConnectWaits \/ RunConnected
    PROVE  Good'
<1>1. CASE ConnectWaits
  <2>1. Run("connect") /\ "connect" \in Functions
    BY <1>1 DEF ConnectWaits, Functions
  <2>2. Idle /\ Begun /\ call' = "connect" /\ m_msg.userdata = "caller" /\ ~wild
    BY <1>1, <2>1, FoundLemma DEF ConnectWaits, Closed
  <2>3. Begun' /\ ~wild' /\ Returns(FALSE, FALSE) /\ waiting_result_p' = "caller" /\ inquiry' = "none"
    BY <1>1, <2>2 DEF ConnectWaits, Begun, Idle, Userdata, spp, scanning, adapter
  <2> QED  BY <2>1, <2>2, <2>3, ReturnsLemma DEF Owed
<1>2. CASE ConnectRefused \/ RunConnected
  <2>1. PICK f \in {"connect", "connected"} : Run(f) /\ f \in Functions
    BY <1>2 DEF ConnectRefused, RunConnected, Functions
  <2>2. Idle /\ m_msg.userdata = "caller" /\ ~wild
    BY <2>1, FoundLemma
  <2>3. UNCHANGED <<adapter, power_on, scanning>> /\ ~wild' /\ Returns(TRUE, FALSE)
    BY <1>2, <2>2 DEF ConnectRefused, RunConnected, Store
  <2>4. Idle'
    BY <2>2, <2>3, SameLemma DEF scanning
  <2> QED  BY <2>1, <2>3, <2>4, ReturnsLemma
<1> QED  BY <1>1, <1>2

LEMMA OtherStep ==
    ASSUME Good, UNCHANGED switches, RunWrite \/ ScanNothing \/ ScanWaits
    PROVE  Good'
<1>1. CASE ScanWaits
  <2>1. Run("scan") /\ "scan" \in Functions
    BY <1>1 DEF ScanWaits, Functions
  <2>2. Idle /\ Begun /\ call' = "scan" /\ m_msg.userdata = "caller" /\ ~wild
    BY <1>1, <2>1, FoundLemma DEF ScanWaits, Closed
  <2>3. Begun' /\ ~wild' /\ Returns(FALSE, FALSE) /\ waiting_result_p' = "null"
        /\ inquiry' = "running" /\ scan_number_p' = "caller"
    BY <1>1, <2>2 DEF ScanWaits, Begun, Idle, Userdata, power_on, spp, adapter
  <2> QED  BY <2>1, <2>2, <2>3, ReturnsLemma DEF Owed
<1>2. CASE RunWrite \/ ScanNothing
  <2>1. PICK f \in {"write", "scan"} : Run(f) /\ f \in Functions
    BY <1>2 DEF RunWrite, ScanNothing, Functions
  <2>2. Idle /\ m_msg.userdata = "caller" /\ ~wild
    BY <2>1, FoundLemma
  <2>3. UNCHANGED <<adapter, power_on, scanning>> /\ ~wild' /\ Returns(TRUE, FALSE)
    <3>1. CASE RunWrite
      BY <2>2, <3>1 DEF RunWrite
    <3>2. CASE ScanNothing
      BY <2>2, <3>2 DEF ScanNothing, Store
    <3> QED  BY <1>2, <3>1, <3>2
  <2>4. Idle'
    BY <2>2, <2>3, SameLemma DEF scanning
  <2> QED  BY <2>1, <2>3, <2>4, ReturnsLemma
<1> QED  BY <1>1, <1>2

----------------------------------------------------------------------------
(* The sketch thread *)

LEMMA SketchStep ==
    ASSUME Good, UNCHANGED switches, ~EndUnbegun, Sketch
    PROVE  Good'
<1>1. ASSUME NEW f \in Functions, Fill(f), signal' => signal, ~wild',
             UNCHANGED <<adapter, power_on, inquiry>>,
             f = "end" => btcm_hdl, f = "begin" => ~result'
      PROVE  Good'
  <2>1. Resting
    BY <1>1, NoneAssumption DEF Good, Sent, Waiting, Answering, Fill
  <2>2. Idle'
    BY <1>1, <2>1, SameLemma DEF Resting, Idle
  <2>3. /\ call' = f /\ sent' = 1 /\ ~signal'
        /\ m_msg' = [func |-> f, userdata |-> "caller"] /\ posting' = posting
    BY <1>1, <2>1 DEF Fill, Resting
  <2>4. m_msg'.func = call' /\ m_msg'.userdata = "caller"
    BY <2>3
  <2>5. (call' = "end" => btcm_hdl') /\ (call' = "begin" => ~result')
    BY <1>1, <2>3 DEF power_on
  <2>6. Sent'
    BY <1>1, <2>1, <2>2, <2>3, <2>4, <2>5 DEF Sent, Resting
  <2> QED  BY <1>1, <2>6 DEF Good
<1>2. CASE Begin
  BY <1>1, <1>2 DEF Begin, CallFresh, scanning, Good, Functions
<1>3. CASE End
  BY <1>1, <1>3 DEF End, CallFresh, scanning, Good, Functions
<1>4. ASSUME NEW f \in {"connect", "connected", "scan"}, Ask(f) PROVE Good'
  BY <1>1, <1>4 DEF Ask, Call, scanning, Good, Functions
<1>5. CASE WriteEnter
  BY <1>5, SameStep DEF WriteEnter
<1> QED  BY <1>2, <1>3, <1>4, <1>5 DEF Sketch

LEMMA InCallStep ==
    ASSUME Good, UNCHANGED switches, InCall
    PROVE  Good'
<1>1. CASE WriteWait \/ WriteReset
  BY <1>1, SameStep DEF WriteWait, WriteReset
<1>2. CASE WriteCall
  <2>1. /\ Fill("write") /\ UNCHANGED <<signal, adapter, power_on, inquiry, wild>>
        /\ "write" \in Functions
    BY <1>2 DEF WriteCall, Call, scanning, Functions
  <2>2. Resting
    BY <2>1, NoneAssumption DEF Good, Sent, Waiting, Answering, Fill
  <2>3. Idle'
    BY <2>1, <2>2, SameLemma DEF Resting, Idle
  <2>4. Sent'
    BY <2>1, <2>2, <2>3 DEF Fill, Resting, Sent
  <2> QED  BY <2>1, <2>4 DEF Good
<1>3. CASE Returned
  <2>1. Answering /\ ~posting
    BY <1>3, NoneAssumption DEF Returned, Return, Good, Resting, Sent, Waiting, Answering
  <2>2. Idle'
    BY <1>3, <2>1 DEF Returned, Answering, Idle, Begun, Closed, After, spp, adapter
  <2>3. Resting'
    BY <1>3, <2>1, <2>2 DEF Returned, Return, Answering, Resting
  <2> QED  BY <1>3, <2>3 DEF Returned, Good
<1> QED  BY <1>1, <1>2, <1>3 DEF InCall

LEMMA PostsStep ==
    ASSUME Good, UNCHANGED switches, Posts
    PROVE  Good'
<1>1. Answering /\ ~signal
  BY DEF Posts, PostResult, Good, Resting, Sent, Waiting, Answering
<1>2. Idle' /\ (Begun => Begun')
  BY <1>1, SameLemma DEF Posts, scanning, Answering
<1>3. Answering'
  BY <1>1, <1>2 DEF Posts, PostResult, Answering
<1> QED  BY <1>3 DEF Good, Posts

----------------------------------------------------------------------------
(* Power events *)

\* An ACTIVATE that the callback acts on is the one begin() waits for.
LEMMA ActivateStep ==
    ASSUME Good, UNCHANGED switches, Activate
    PROVE  Good'
<1>1. /\ btcm_hdl /\ cmq # Empty /\ Head(cmq) = "ACTIVATE" /\ cmq' = Tail(cmq)
      /\ UNCHANGED <<scanning, inquiry>> /\ ~posting
  BY DEF Activate, Delivered, Empty, scanning, ActivateReady, ActivateFails, ActivateEnding,
         ActivateIgnored, Event
<1>2. CASE client_status = "POWERING_ON"
  <2>1. Beginning /\ cmq = A /\ power = "ON"
    BY <1>1, <1>2, QueueLemma
       DEF Good, Resting, Sent, Waiting, Answering, Idle, Owed, Closed, Begun, Beginning, Ending
  <2>2. Waiting /\ Owed /\ call = "begin" /\ waiting_result_p = "caller" /\ inquiry = "none" /\ ~wild
    BY <2>1 DEF Good, Resting, Sent, Waiting, Answering, Idle, Owed, Closed, Begun, Beginning, Ending
  <2>3. cmq' = Empty
    BY <1>1, <2>1, QueueLemma
  <2>4. CASE ActivateReady
    <3>1. Begun' /\ ~wild' /\ Event(TRUE) /\ waiting_result_p' = "null"
      BY <2>1, <2>2, <2>3, <2>4, <1>2 DEF ActivateReady, InitSpp, Store, Beginning, Begun
    <3> QED  BY <1>1, <2>2, <3>1, EventLemma DEF Idle
  <2>5. CASE ActivateFails
    <3>1. PICK done \in BOOLEAN : EndSpp(done) /\ Event(done)
      BY <2>5 DEF ActivateFails
    <3>2. waiting_result_p' = "null" /\ ~wild' /\ ~result'
      BY <2>2, <2>5 DEF ActivateFails, Store
    <3>3. CASE done
      <4>1. Closed'
        BY <2>1, <2>3, <3>1, <3>3 DEF EndSpp, CloseSpp, ExitCm, Closed
      <4> QED  BY <1>1, <2>2, <3>1, <3>2, <3>3, <4>1, EventLemma DEF Idle
    <3>4. CASE ~done
      <4>1. Ending'
        BY <2>1, <2>3, <3>1, <3>4 DEF EndSpp, CloseSpp, SwitchOff, Beginning, Ending
      <4>2. Waiting'
        BY <1>1, <2>2, <3>1, <3>2, <3>4, <4>1 DEF Waiting, Owed, Event
      <4> QED  BY <3>2, <4>2 DEF Good
    <3> QED  BY <3>3, <3>4
  <2> QED  BY <1>2, <2>4, <2>5 DEF Activate, ActivateEnding, ActivateIgnored
<1>3. CASE client_status # "POWERING_ON"
  <2>1. client_status # "ENDING"
    BY <1>3 DEF Good, Resting, Sent, Waiting, Answering, Idle, Owed, Closed, Begun, Beginning, Ending
  <2>2. ActivateIgnored
    BY <1>3, <2>1 DEF Activate, ActivateReady, ActivateFails, ActivateEnding
  <2>3. /\ UNCHANGED <<power, power_on, result, wild>> /\ Event(FALSE)
    BY <2>2 DEF ActivateIgnored
  <2>4. Begun => Begun'
    BY <1>1, <2>3, QueueLemma DEF Begun, power_on, spp
  <2>5. Ending => Ending'
    BY <1>1, <2>3, QueueLemma DEF Ending, power_on, spp
  <2>6. ~Closed /\ ~Beginning
    BY <1>1, <1>3, QueueLemma DEF Closed, Beginning
  <2>7. (Owed => Owed') /\ (Idle => Idle')
    BY <1>1, <2>3, <2>4, <2>5, <2>6 DEF Owed, Idle, Event, power_on, scanning
  <2> QED  BY <1>1, <2>3, <2>4, <2>7, SilentLemma DEF Good, power_on, scanning
<1> QED  BY <1>2, <1>3

\* A DEACTIVATE ends the call that waits for it.
LEMMA DeactivateStep ==
    ASSUME Good, UNCHANGED switches, Deactivate
    PROVE  Good'
<1>1. /\ btcm_hdl /\ cmq # Empty /\ Head(cmq) = "DEACTIVATE" /\ cmq' = Tail(cmq)
      /\ UNCHANGED <<scanning, inquiry>> /\ ~posting
  BY DEF Deactivate, Delivered, Empty, scanning, DeactivateBegins, DeactivateEnds,
         DeactivateIgnored, Event
<1>2. CASE client_status = "BEGINING"
  <2>1. Beginning /\ cmq = D /\ power = "OFF"
    BY <1>1, <1>2, QueueLemma
       DEF Good, Resting, Sent, Waiting, Answering, Idle, Owed, Closed, Begun, Beginning, Ending
  <2>2. /\ Waiting /\ Owed /\ call = "begin" /\ waiting_result_p = "caller" /\ inquiry = "none"
        /\ ~wild /\ ~result
    BY <2>1 DEF Good, Resting, Sent, Waiting, Answering, Idle, Owed, Closed, Begun, Beginning, Ending
  <2>3. cmq' = Empty
    BY <1>1, <2>1, QueueLemma
  <2>4. CASE SwitchOn /\ client_status' = "POWERING_ON" /\ Event(FALSE)
             /\ UNCHANGED <<btcm_hdl, spp, waiting_result_p, result, wild>>
    <3>1. Beginning'
      BY <2>1, <2>3, <2>4 DEF Beginning, SwitchOn, spp
    <3>2. Waiting'
      BY <1>1, <2>2, <2>4, <3>1 DEF Waiting, Owed, Event
    <3> QED  BY <2>2, <2>4, <3>2 DEF Good
  <2>5. CASE /\ Store(waiting_result_p, FALSE) /\ waiting_result_p' = "null"
             /\ \E done \in BOOLEAN : EndSpp(done) /\ Event(done)
    <3>1. PICK done \in BOOLEAN : EndSpp(done) /\ Event(done)
      BY <2>5
    <3>2. waiting_result_p' = "null" /\ ~wild' /\ ~result'
      BY <2>2, <2>5 DEF Store
    <3>3. done /\ Closed'
      BY <2>1, <2>3, <3>1 DEF EndSpp, CloseSpp, ExitCm, Closed, SwitchOff
    <3> QED  BY <1>1, <2>2, <3>1, <3>2, <3>3, EventLemma DEF Idle
  <2> QED  BY <1>2, <2>4, <2>5 DEF Deactivate, DeactivateBegins, DeactivateEnds, DeactivateIgnored
<1>3. CASE client_status = "POWERING_OFF"
  <2>1. Ending /\ cmq = D /\ power = "OFF"
    BY <1>1, <1>3, QueueLemma
       DEF Good, Resting, Sent, Waiting, Answering, Idle, Owed, Closed, Begun, Beginning, Ending
  <2>2. Owed /\ waiting_result_p = "null" /\ inquiry = "none" /\ ~wild /\ (call = "begin" => ~result)
    BY <2>1 DEF Good, Resting, Sent, Waiting, Answering, Idle, Owed, Closed, Begun, Beginning, Ending
  <2>3. DeactivateEnds
    BY <1>3 DEF Deactivate, DeactivateBegins, DeactivateIgnored
  <2>4. Closed' /\ waiting_result_p' = "null" /\ ~wild' /\ Event(TRUE) /\ UNCHANGED result
    BY <1>1, <2>1, <2>2, <2>3, QueueLemma DEF DeactivateEnds, ExitCm, Closed, Ending, spp
  <2> QED  BY <1>1, <2>2, <2>4, EventLemma DEF Idle
<1>4. CASE client_status \notin {"BEGINING", "POWERING_OFF"}
  <2>1. /\ UNCHANGED <<power, power_on, result, wild>> /\ Event(FALSE)
    BY <1>4 DEF Deactivate, DeactivateBegins, DeactivateEnds, DeactivateIgnored
  <2>2. Begun => Begun'
    BY <1>1, <2>1, QueueLemma DEF Begun, power_on, spp
  <2>3. Beginning => Beginning'
    BY <1>1, <1>4, <2>1, QueueLemma DEF Beginning, power_on, spp
  <2>4. ~Closed /\ ~Ending
    BY <1>1, <1>4, QueueLemma DEF Closed, Ending
  <2>5. (Owed => Owed') /\ (Idle => Idle')
    BY <1>1, <2>1, <2>2, <2>3, <2>4 DEF Owed, Idle, Event, power_on, scanning
  <2> QED  BY <1>1, <2>1, <2>2, <2>5, SilentLemma DEF Good, power_on, scanning
<1> QED  BY <1>2, <1>3, <1>4

\* An event that nobody is registered for waits only while the client is closed.
LEMMA MissedStep ==
    ASSUME Good, UNCHANGED switches, Missed
    PROVE  Good'
<1>1. /\ ~btcm_hdl /\ cmq # Empty /\ cmq' = Tail(cmq) /\ Event(FALSE)
      /\ UNCHANGED <<power, power_on, scanning, result, wild>>
  BY DEF Missed, Delivered, Empty
<1>2. ~Begun /\ ~Owed
  BY <1>1 DEF Owed, Begun, Beginning, Ending
<1>3. Closed => Closed'
  BY <1>1, QueueLemma DEF Closed, power_on, spp
<1>4. Idle => Idle'
  BY <1>1, <1>2, <1>3 DEF Idle, power_on, scanning
<1> QED  BY <1>1, <1>2, <1>4, SilentLemma DEF Good, power_on, scanning

----------------------------------------------------------------------------
(* Events of the serial port and of the search *)

\* A link that comes up answers connect() if connect() waits for it.
LEMMA SppStep ==
    ASSUME Good, UNCHANGED switches, SppEvent
    PROVE  Good'
<1>1. ASSUME NEW ok \in BOOLEAN, Connect(ok) PROVE Good'
  <2>1. /\ btspp_hdl /\ waiting_result_p' = "null" /\ inquiry' = inquiry
        /\ UNCHANGED <<power, cmq, client_status, btcm_hdl, btspp_hdl, btspp_buf, scan_number_p>>
    BY <1>1 DEF Connect, adapter, scanning
  <2>2. Begun => Begun'
    BY <2>1 DEF Begun
  <2>3. CASE waiting_result_p # "null"
    <3>1. Event(TRUE) /\ Store(waiting_result_p, ok)
      BY <1>1, <2>3 DEF Connect
    <3>2. ~posting
      BY <3>1 DEF Event
    <3>3. Owed /\ Begun /\ call = "connect" /\ waiting_result_p = "caller" /\ inquiry = "none" /\ ~wild
      BY <2>1, <2>3 DEF Good, Resting, Sent, Waiting, Answering, Idle, Owed, Beginning, Ending
    <3>4. ~wild' /\ Idle'
      BY <2>1, <2>2, <3>1, <3>3 DEF Store, Idle
    <3> QED  BY <3>1, <3>3, <3>4, EventLemma
  <2>4. CASE waiting_result_p = "null"
    <3>1. Event(FALSE) /\ UNCHANGED <<result, wild>>
      BY <1>1, <2>4 DEF Connect
    <3>2. call' = call
      BY <3>1 DEF Event
    <3>3. Owed => Owed'
      BY <2>1, <2>2, <2>4, <3>2 DEF Owed, Beginning, Ending
    <3>4. Idle => Idle'
      BY <2>1, <2>2 DEF Idle, Closed
    <3> QED  BY <2>1, <2>2, <3>1, <3>3, <3>4, SilentLemma DEF Good
  <2> QED  BY <2>3, <2>4
<1>2. CASE Disconnect
  <2>1. /\ conn_id /\ Event(FALSE)
        /\ UNCHANGED <<power, cmq, client_status, btcm_hdl, btspp_hdl, btspp_buf, waiting_result_p>>
        /\ UNCHANGED <<scan_number_p, inquiry, result, wild>>
    BY <1>2 DEF Disconnect, adapter, scanning
  <2>2. Begun => Begun'
    BY <2>1 DEF Begun
  <2>3. ~Closed /\ ~Beginning /\ ~Ending
    BY <2>1 DEF Closed, Beginning, Ending
  <2>4. (Owed => Owed') /\ (Idle => Idle')
    BY <2>1, <2>2, <2>3 DEF Owed, Idle, Event
  <2> QED  BY <2>1, <2>2, <2>4, SilentLemma DEF Good
<1>3. CASE ReadyToWrite
  <2>1. /\ conn_id /\ Event(FALSE)
        /\ UNCHANGED <<adapter, power_on, switches>>
        /\ UNCHANGED <<waiting_result_p, btcm_hdl, scan_number_p, inquiry, result, wild>>
    BY <1>3 DEF ReadyToWrite, scanning, power_on
  <2>2. (Begun => Begun') /\ (Idle => Idle')
    BY <2>1, SameLemma
  <2>3. ~Beginning /\ ~Ending
    BY <2>1 DEF Beginning, Ending
  <2>4. Owed => Owed'
    BY <2>1, <2>2, <2>3 DEF Owed, Event
  <2> QED  BY <2>1, <2>2, <2>4, SilentLemma DEF Good
<1> QED  BY <1>1, <1>2, <1>3 DEF SppEvent

\* A search that is under way is that of the scan() that waits.
LEMMA ScanStep ==
    ASSUME Good, UNCHANGED switches, ScanEvent
    PROVE  Good'
<1>1. ASSUME inquiry # "none"
      PROVE  Waiting /\ Owed /\ Begun /\ call = "scan" /\ waiting_result_p = "null"
             /\ scan_number_p = "caller" /\ ~wild
  BY <1>1 DEF Good, Resting, Sent, Waiting, Answering, Idle, Owed
<1>2. ASSUME inquiry # "none", Event(FALSE), ~wild', inquiry' # "none",
             UNCHANGED <<adapter, power_on, scan_number_p>>
      PROVE  Good'
  <2>1. Begun' /\ waiting_result_p' = "null"
    BY <1>1, <1>2, SameLemma DEF power_on
  <2>2. Waiting'
    BY <1>1, <1>2, <2>1 DEF Waiting, Owed, Event
  <2> QED  BY <1>2, <2>2 DEF Good
<1>3. CASE InquiryInd
  BY <1>1, <1>2, <1>3 DEF InquiryInd, Store, scanning
<1>4. CASE InquiryComplete
  <2>1. /\ inquiry # "none" /\ inquiry' = "none" /\ Store(scan_number_p, result) /\ Event(TRUE)
        /\ UNCHANGED <<adapter, power_on>>
    BY <1>4 DEF InquiryComplete
  <2>2. Begun' /\ waiting_result_p' = "null" /\ ~wild'
    BY <1>1, <2>1, SameLemma DEF power_on, Store
  <2> QED  BY <1>1, <2>1, <2>2, EventLemma DEF Idle
<1>5. ASSUME NEW t \in Timers, Timeout(t) PROVE Good'
  <2>1. /\ Event(FALSE)
        /\ inquiry' = IF inquiry = "running" THEN "aborted" ELSE inquiry
        /\ UNCHANGED <<adapter, power_on, scan_number_p, result, wild>>
    BY <1>5 DEF Timeout
  <2>2. CASE inquiry # "none"
    BY <1>1, <1>2, <2>1, <2>2
  <2>3. CASE inquiry = "none"
    <3>1. inquiry' = "none"
      BY <2>1, <2>3
    <3>2. UNCHANGED <<call, waiting_result_p, btcm_hdl>>
      BY <2>1 DEF Event, power_on
    <3>3. (Begun => Begun')
      BY <2>1, SameLemma
    <3>4. (Beginning => Beginning') /\ (Ending => Ending')
      BY <2>1 DEF Beginning, Ending, power_on, spp, adapter
    <3>5. Owed => Owed'
      BY <2>1, <2>3, <3>1, <3>2, <3>3, <3>4 DEF Owed
    <3>6. Idle => Idle'
      BY <2>1, <3>1 DEF Idle, Begun, Closed, power_on, spp, adapter
    <3> QED  BY <2>1, <3>2, <3>3, <3>5, <3>6, SilentLemma DEF Good
  <2> QED  BY <2>2, <2>3
<1> QED  BY <1>3, <1>4, <1>5 DEF ScanEvent

----------------------------------------------------------------------------
(* The chip *)

\* A chip that does what it is told, which is all that the run assumes of it.
NoSwitchFails == Faults \cap {"activate", "deactivate"} = {}

LEMMA ChipStep ==
    ASSUME switches \in Nat, Good, NoSwitchFails, Chip, switches' < 2
    PROVE  Good'
<1>1. UNCHANGED <<rpc, power_on, scanning, result, wild>>
  BY DEF Chip
<1>2. /\ UNCHANGED <<call, m_msg, sent, signal, posting, result, scan_number_p, inquiry, wild>>
      /\ UNCHANGED <<waiting_result_p, btcm_hdl, btspp_hdl, btspp_buf, conn_id, client_status>>
  BY <1>1 DEF rpc, power_on, spp, scanning
<1>3. \/ power = "SWITCHING_ON" /\ power' = "ON" /\ cmq' = Append(cmq, "ACTIVATE")
         /\ switches' = switches
      \/ power = "SWITCHING_OFF" /\ power' = "OFF" /\ cmq' = Append(cmq, "DEACTIVATE")
         /\ switches' = switches
      \/ cmq = Empty /\ cmq' = Empty /\ switches = 0 /\ switches' = 1
         /\ \/ power = "OFF" /\ power' = "SWITCHING_ON"
            \/ power = "ON" /\ power' = "SWITCHING_OFF"
  <2>1. CASE Switched /\ UNCHANGED switches
    BY <2>1 DEF Switched, May, NoSwitchFails
  <2>2. CASE OtherSwitches /\ switches' = switches + 1
    BY <2>2 DEF OtherSwitches, SwitchOn, SwitchOff, Empty
  <2> QED  BY <2>1, <2>2 DEF Chip
<1>4. Begun => Begun'
  <2>1. CASE power = "SWITCHING_OFF"
    <3>1. ASSUME Begun PROVE cmq = Empty /\ switches = 1
      BY <2>1, <3>1 DEF Begun
    <3>2. ASSUME Begun PROVE power' = "OFF" /\ cmq' = D /\ switches' = 1
      BY <1>3, <2>1, <3>1, <3>2, QueueLemma
    <3> QED  BY <1>2, <3>2 DEF Begun
  <2>2. CASE power # "SWITCHING_OFF"
    <3>1. ASSUME Begun PROVE power' = "SWITCHING_OFF" /\ cmq' = Empty /\ switches' = 1
      BY <1>3, <2>2, <3>1 DEF Begun
    <3> QED  BY <1>2, <3>1 DEF Begun
  <2> QED  BY <2>1, <2>2
<1>5. Closed => Closed'
  BY <1>2, <1>3, QueueLemma DEF Closed
<1>6. Beginning => Beginning'
  BY <1>2, <1>3, QueueLemma DEF Beginning
<1>7. Ending => Ending'
  BY <1>2, <1>3, QueueLemma DEF Ending
<1>8. Idle => Idle'
  BY <1>2, <1>4, <1>5 DEF Idle
<1>9. Owed => Owed'
  BY <1>2, <1>4, <1>6, <1>7 DEF Owed
<1> QED  BY <1>2, <1>4, <1>8, <1>9 DEF Good, Resting, Sent, Waiting, Answering

----------------------------------------------------------------------------
(* The theorems *)

LEMMA HandlesStep ==
    ASSUME Handles, [Next]_vars
    PROVE  Handles'
<1> USE DEF Handles
<1>1. CASE UNCHANGED <<btcm_hdl, btspp_hdl, btspp_buf>>
  BY <1>1
<1>2. CASE Own(Sketch \/ InCall \/ Posts \/ SppEvent \/ ScanEvent) \/ Chip \/ UNCHANGED vars
  BY <1>1, <1>2
     DEF Own, Chip, vars, power_on, spp, Sketch, Begin, End, WriteEnter, Ask, InCall,
         WriteWait, WriteReset, WriteCall, Returned, Posts, SppEvent, Connect, Disconnect,
         ReadyToWrite, ScanEvent, InquiryInd, InquiryComplete, Timeout
<1>3. CASE BeginRefused \/ BeginWaits \/ BeginReady \/ BeginFails
  BY <1>3 DEF BeginRefused, BeginWaits, BeginReady, BeginFails, power_on, spp, InitSpp,
              CloseSpp, ExitCm
<1>4. CASE RunEnd
  BY <1>4 DEF RunEnd, EndSpp, CloseSpp, ExitCm
<1>5. CASE ConnectRefused \/ ConnectWaits \/ RunConnected \/ RunWrite \/ ScanNothing \/ ScanWaits
  BY <1>1, <1>5
     DEF ConnectRefused, ConnectWaits, RunConnected, RunWrite, ScanNothing, ScanWaits,
         power_on, spp
<1>6. CASE Activate
  BY <1>6 DEF Activate, ActivateReady, ActivateFails, ActivateEnding, ActivateIgnored,
              InitSpp, EndSpp, CloseSpp, ExitCm, power_on, spp
<1>7. CASE Deactivate
  BY <1>7 DEF Deactivate, DeactivateBegins, DeactivateEnds, DeactivateIgnored,
              EndSpp, CloseSpp, ExitCm, power_on, spp
<1>8. CASE Missed
  BY <1>8 DEF Missed, power_on, spp
<1> QED
  BY <1>2, <1>3, <1>4, <1>5, <1>6, <1>7, <1>8 DEF Next, Own, HandleSysevt, CmEvent

LEMMA InitIInv == Init => IInv
<1> SUFFICES ASSUME Init PROVE IInv
  OBVIOUS
<1>1. cmq = Empty
  BY DEF Init, AdapterInit, Empty
<1>2. Closed
  BY <1>1 DEF Init, Closed
<1>3. Resting
  BY <1>2 DEF Init, RpcInit, Resting, Idle
<1>4. switches \in Nat /\ Handles
  BY DEF Init, Handles
<1> QED  BY <1>3, <1>4 DEF Init, IInv, Good

LEMMA NextIInv ==
    ASSUME ~EndUnbegun, NoSwitchFails, IInv, [Next]_vars
    PROVE  IInv'
<1>1. switches' \in Nat /\ switches' >= switches
  BY DEF IInv, Next, Own, Chip, vars
<1> SUFFICES ASSUME ~Mixed' PROVE Good'
  BY <1>1, HandlesStep DEF IInv
<1>2. Good /\ switches \in Nat /\ switches' < 2
  BY <1>1 DEF IInv, Mixed
<1>3. CASE Chip
  BY <1>2, <1>3, ChipStep
<1>4. CASE Own(Sketch \/ InCall)
  BY <1>2, <1>4, SketchStep, InCallStep DEF Own
<1>5. CASE Own(HandleSysevt)
  BY <1>2, <1>5, BeginStep, EndStep, ConnectStep, OtherStep DEF Own, HandleSysevt
<1>6. CASE Own(Posts \/ CmEvent)
  BY <1>2, <1>6, PostsStep, ActivateStep, DeactivateStep, MissedStep DEF Own, CmEvent
<1>7. CASE Own(SppEvent \/ ScanEvent)
  BY <1>2, <1>7, SppStep, ScanStep DEF Own
<1>8. CASE UNCHANGED vars
  BY <1>2, <1>8, SameStep DEF vars
<1> QED  BY <1>3, <1>4, <1>5, <1>6, <1>7, <1>8 DEF Next, Own

\* What holds of every state, when end() is only called after begin() and the chip does
\* switch when it is told to.
THEOREM Invariance ==
    ASSUME ~EndUnbegun, NoSwitchFails
    PROVE  Spec => []IInv
<1>1. IInv /\ [Next]_vars => IInv'
  BY NextIInv
<1> QED  BY InitIInv, <1>1, PTL DEF Spec

\* Each call of LBTClient is answered once, whatever fails and however the power events
\* fall: no message, signal or post of it is left when it has returned.
THEOREM AnswersOnce ==
    ASSUME ~EndUnbegun, NoSwitchFails
    PROVE  Spec => []AnsweredOnce
<1>1. IInv => AnsweredOnce
  BY NoneAssumption DEF IInv, AnsweredOnce, Quiet, Good, Resting, Sent, Waiting, Answering
<1> QED  BY Invariance, <1>1, PTL

\* bt_client_btcm_cb and bt_client_spp_cb write results only into the frame of the call
\* that waits for them.
THEOREM WritesToTheCaller ==
    ASSUME ~EndUnbegun, NoSwitchFails
    PROVE  Spec => []NoWildWrite
<1>1. IInv => NoWildWrite
  BY DEF IInv, NoWildWrite, Good
<1> QED  BY Invariance, <1>1, PTL

\* Between calls the client is begun with every handle or closed with none, and begin()
\* says TRUE only when the port is open.
THEOREM BegunOrClosed ==
    ASSUME ~EndUnbegun, NoSwitchFails
    PROVE  Spec => []AllOrNothing
<1>1. ASSUME Good, Handles, call = None
      PROVE  /\ btspp_hdl = btcm_hdl /\ btspp_buf = btcm_hdl
             /\ ~btcm_hdl => client_status = "IDLE" /\ ~conn_id
  <2>1. Closed \/ Begun
    BY <1>1, NoneAssumption DEF Good, Resting, Sent, Waiting, Answering, Idle
  <2> QED  BY <1>1, <2>1, Zenon DEF Closed, Begun, Handles
<1>2. ASSUME Good, call = "begin", signal, result
      PROVE  btcm_hdl /\ btspp_hdl /\ btspp_buf
  BY <1>2 DEF Good, Resting, Sent, Waiting, Answering, Begun
<1>3. IInv => AllOrNothing
  BY <1>1, <1>2 DEF IInv, AllOrNothing
<1> QED  BY Invariance, <1>3, PTL

----------------------------------------------------------------------------
(* The timer of a scan *)

\* The number kept in search_tid is that of the latest scan's timer, or of one that
\* has gone.
TimerInv ==
    /\ timers \in [Timers -> {"free", "latest", "earlier"}]
    /\ search_tid \in Timers => timers[search_tid] # "earlier"

LEMMA NextTimerInv ==
    ASSUME TimerInv, [Next]_vars
    PROVE  TimerInv'
<1>1. CASE UNCHANGED <<search_tid, timers>>
  BY <1>1 DEF TimerInv
<1>2. CASE ScanWaits
  <2>1. CASE Unused = {} /\ search_tid' = -1 /\ timers' = [t \in Timers |-> "earlier"]
    BY <2>1, TimersAssumption DEF TimerInv
  <2>2. ASSUME NEW t \in Unused, search_tid' = t,
               timers' = [u \in Timers |-> IF u = t THEN "latest"
                                           ELSE IF u \in Unused THEN "free" ELSE "earlier"]
        PROVE  TimerInv'
    BY <2>2 DEF TimerInv, Unused
  <2> QED  BY <1>2, <2>1, <2>2 DEF ScanWaits
<1>3. ASSUME NEW t \in Timers, Timeout(t) PROVE TimerInv'
  BY <1>3, TimersAssumption DEF TimerInv, Timeout
<1>4. CASE Own(Sketch \/ InCall \/ Posts \/ CmEvent \/ SppEvent) \/ Chip \/ UNCHANGED vars
  BY <1>1, <1>4
     DEF Own, Chip, vars, scanning, Sketch, Begin, End, WriteEnter, Ask, InCall, WriteWait,
         WriteReset, WriteCall, Returned, Posts, CmEvent, Activate, Deactivate, Missed,
         SppEvent, Connect, Disconnect, ReadyToWrite
<1>5. CASE HandleSysevt
  BY <1>1, <1>2, <1>5
     DEF HandleSysevt, scanning, BeginRefused, BeginWaits, BeginReady, BeginFails, RunEnd,
         ConnectRefused, ConnectWaits, RunConnected, RunWrite, ScanNothing
<1>6. CASE ScanEvent
  BY <1>1, <1>3, <1>6 DEF ScanEvent, InquiryInd, InquiryComplete, scanning
<1> QED  BY <1>4, <1>5, <1>6 DEF Next, Own

\* A search is aborted only by a timer made for it: bt_client_timeout_cb compares the timer
\* with search_tid, which no earlier scan's timer can equal.
THEOREM AbortsItsOwnScan == Spec => AbortsOwnScan
<1>1. Init => TimerInv
  BY TimersAssumption DEF Init, TimerInv
<1>2. TimerInv /\ [Next]_vars => TimerInv'
  BY NextTimerInv
<1>3. ASSUME TimerInv, [Next]_vars, inquiry = "running", inquiry' = "aborted"
      PROVE  \E t \in Timers : timers[t] = "latest" /\ timers'[t] = "free"
  <2>1. ~UNCHANGED inquiry /\ inquiry' # "running" /\ inquiry' # "none"
    BY <1>3
  <2>2. ~(Own(Sketch \/ InCall \/ Posts \/ CmEvent \/ SppEvent) \/ Chip \/ UNCHANGED vars)
    BY <2>1
       DEF Own, Chip, vars, scanning, Sketch, Begin, End, WriteEnter, Ask, InCall, WriteWait,
           WriteReset, WriteCall, Returned, Posts, CmEvent, Activate, Deactivate, Missed,
           SppEvent, Connect, Disconnect, ReadyToWrite
  <2>3. ~HandleSysevt
    BY <2>1
       DEF HandleSysevt, scanning, BeginRefused, BeginWaits, BeginReady, BeginFails, RunEnd,
           ConnectRefused, ConnectWaits, RunConnected, RunWrite, ScanNothing, ScanWaits
  <2>4. PICK t \in Timers : Timeout(t)
    BY <1>3, <2>1, <2>2, <2>3 DEF Next, Own, ScanEvent, InquiryInd, InquiryComplete, scanning
  <2>5. timers[t] = "latest" /\ timers'[t] = "free"
    BY <1>3, <2>4 DEF TimerInv, Timeout
  <2> QED  BY <2>5
<1>4. TimerInv /\ [Next]_vars =>
          [inquiry = "running" /\ inquiry' = "aborted" =>
              \E t \in Timers : timers[t] = "latest" /\ timers'[t] = "free"]_vars
  BY <1>3
<1> QED  BY <1>1, <1>2, <1>4, PTL DEF Spec, AbortsOwnScan
=============================================================================
