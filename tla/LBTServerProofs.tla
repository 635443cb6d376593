-------------------------- MODULE LBTServerProofs ---------------------------
(***************************************************************************)
(* The Bluetooth server, with any driver calls that fail: until a call is  *)
(* answered twice, each result goes into the frame that waits for it, and  *)
(* each call leaves the server begun or closed.  As in LBTClient, the      *)
(* event a call waits for is on its way and no older one can be taken for  *)
(* it; begin() waits for two of them, accept() for one of three, or for    *)
(* none, when the stack did not let in the client its timer was deleted for. *)
(***************************************************************************)
EXTENDS LBTServer, SequenceTheorems, TLAPS

\* The queues of connection manager events that occur.
Empty == << >>
A == <<"ACTIVATE">>
D == <<"DEACTIVATE">>
V == <<"SET_VISIBILITY">>
DA == <<"DEACTIVATE", "ACTIVATE">>
AD == <<"ACTIVATE", "DEACTIVATE">>
AV == <<"ACTIVATE", "SET_VISIBILITY">>

----------------------------------------------------------------------------
(* The inductive invariant *)

Shut == btspp_hdl = FALSE /\ btspp_buf = FALSE /\ ~conn_id
Open == btspp_hdl = TRUE /\ btspp_buf = TRUE

\* Nothing is open.  An event that nobody waits for may be under way.
Closed ==
    /\ btcm_hdl = FALSE /\ Shut /\ server_status = "IDLE" /\ visible # "setting"
    /\ \/ cmq = Empty
       \/ power = "ON" /\ cmq = A
       \/ power = "OFF" /\ cmq = D

\* The port is open and nothing is under way.  server_status says READY only after a begin()
\* that was answered twice.
Begun ==
    /\ btcm_hdl = TRUE /\ Open /\ server_status \in {"IDLE", "POWERING_ON"}
    /\ power = "ON" /\ cmq = Empty /\ visible # "setting"

\* begin() waits for the chip to be on, or first to be off.
Beginning ==
    /\ btcm_hdl = TRUE /\ Shut /\ visible # "setting"
    /\ \/ /\ server_status = "POWERING_ON"
          /\ \/ power = "SWITCHING_ON" /\ (cmq = Empty \/ cmq = D)
             \/ power = "ON" /\ (cmq = A \/ cmq = DA)
       \/ /\ server_status = "BEGINING"
          /\ \/ power = "SWITCHING_OFF" /\ cmq = Empty
             \/ power = "OFF" /\ cmq = D

\* begin() waits for the chip to be visible.  An ACTIVATE may come before only if begin() has
\* not waited for it.
Showing ==
    /\ btcm_hdl = TRUE /\ Open /\ power = "ON"
    /\ \/ server_status \in {"IDLE", "POWERING_ON"} /\ visible = "setting" /\ cmq = Empty
       \/ server_status \in {"IDLE", "POWERING_ON"} /\ visible = "on" /\ cmq = V
       \/ server_status = "IDLE" /\ visible = "setting" /\ cmq = A
       \/ server_status = "IDLE" /\ visible = "on" /\ cmq = AV

\* end(), or a begin() that failed, waits for the chip to be off.
Ending ==
    /\ btcm_hdl = TRUE /\ Shut /\ server_status = "POWERING_OFF" /\ visible # "setting"
    /\ \/ power = "SWITCHING_OFF" /\ (cmq = Empty \/ cmq = A)
       \/ power = "OFF" /\ (cmq = D \/ cmq = AD)

NoAccept == ~waiting_for_accept /\ ~accept_tid /\ ~accepted

\* No event will answer a call.
Idle == NoAccept /\ (Closed \/ (Begun /\ waiting_result_p = "null"))

\* accept() waits for a client, until its timer fires, or has given up the timer for a
\* client; the stack need not have let it in.
Accepting ==
    \/ waiting_for_accept /\ ~accepted
    \/ ~waiting_for_accept /\ ~accept_tid

\* The call waits, and no event has answered it.
Owed ==
    \/ call = "begin" /\ waiting_result_p = "caller" /\ NoAccept /\ (Beginning \/ Showing)
    \/ /\ call \in {"begin", "end"} /\ NoAccept /\ Ending
       /\ call = "begin" => frame.result # "unset"
    \/ call = "accept" /\ waiting_result_p = "caller" /\ Begun /\ Accepting

\* Where the one call and its answer are.
Resting == call = None /\ sent = 0 /\ ~signal /\ ~posting /\ Idle
Sent ==
    /\ call \in Functions /\ sent = 1 /\ ~signal /\ ~posting /\ Idle
    /\ m_msg.func = call /\ m_msg.userdata = "caller"
    /\ call \in {"end", "accept"} => btcm_hdl
Waiting == call \in Functions /\ sent = 0 /\ ~signal /\ ~posting /\ Owed
Answering ==
    /\ call \in Functions /\ sent = 0 /\ Idle
    /\ \/ signal /\ ~posting
       \/ posting /\ ~signal
    /\ call \in {"begin", "accept"} => frame.result # "unset"

FrameType == frame \in [result : Results, named : BOOLEAN]

Good == ~wild /\ FrameType /\ (Resting \/ Sent \/ Waiting \/ Answering)

IInv == ~spoiled => Good

----------------------------------------------------------------------------
(* The queue of events *)

LEMMA PairLemma ==
    ASSUME NEW x, NEW y
    PROVE  Append(<<x>>, y) = <<x, y>>
<1>1. <<x>> \in Seq({x, y}) /\ Len(<<x>>) = 1
  OBVIOUS
<1>2. /\ Append(<<x>>, y) \in Seq({x, y}) /\ Len(Append(<<x>>, y)) = 2
      /\ Append(<<x>>, y)[1] = x /\ Append(<<x>>, y)[2] = y
  BY <1>1
<1>3. <<x, y>> \in Seq({x, y}) /\ Len(<<x, y>>) = 2 /\ <<x, y>>[1] = x /\ <<x, y>>[2] = y
  OBVIOUS
<1>4. \A i \in 1 .. Len(<<x, y>>) : Append(<<x>>, y)[i] = <<x, y>>[i]
  BY <1>2, <1>3
<1> QED  BY <1>2, <1>3, <1>4, SeqEqual

LEMMA DistinctLemma ==
    /\ Empty \notin {A, D, V, DA, AD, AV} /\ A \notin {D, V, DA, AD, AV}
    /\ D \notin {V, DA, AD, AV} /\ V \notin {DA, AD, AV}
    /\ DA \notin {AD, AV} /\ AD # AV
<1>1. /\ Len(Empty) = 0 /\ Len(A) = 1 /\ Len(D) = 1 /\ Len(V) = 1
      /\ Len(DA) = 2 /\ Len(AD) = 2 /\ Len(AV) = 2
      /\ A[1] = "ACTIVATE" /\ D[1] = "DEACTIVATE" /\ V[1] = "SET_VISIBILITY"
      /\ DA[1] = "DEACTIVATE" /\ AD[1] = "ACTIVATE" /\ AV[1] = "ACTIVATE"
      /\ AD[2] = "DEACTIVATE" /\ AV[2] = "SET_VISIBILITY"
  BY DEF Empty, A, D, V, DA, AD, AV
<1> QED  BY <1>1

LEMMA QueueLemma ==
    /\ Append(Empty, "ACTIVATE") = A /\ Append(Empty, "DEACTIVATE") = D
    /\ Append(Empty, "SET_VISIBILITY") = V
    /\ Append(A, "DEACTIVATE") = AD /\ Append(A, "SET_VISIBILITY") = AV
    /\ Append(D, "ACTIVATE") = DA
    /\ Head(A) = "ACTIVATE" /\ Tail(A) = Empty
    /\ Head(D) = "DEACTIVATE" /\ Tail(D) = Empty
    /\ Head(V) = "SET_VISIBILITY" /\ Tail(V) = Empty
    /\ Head(DA) = "DEACTIVATE" /\ Tail(DA) = A
    /\ Head(AD) = "ACTIVATE" /\ Tail(AD) = D
    /\ Head(AV) = "ACTIVATE" /\ Tail(AV) = V
<1>1. /\ Append(Empty, "ACTIVATE") = A /\ Append(Empty, "DEACTIVATE") = D
      /\ Append(Empty, "SET_VISIBILITY") = V
  BY DEF Empty, A, D, V
<1>2. Append(A, "DEACTIVATE") = AD
  BY PairLemma, Zenon DEF A, AD
<1>3. Append(A, "SET_VISIBILITY") = AV
  BY PairLemma, Zenon DEF A, AV
<1>4. Append(D, "ACTIVATE") = DA
  BY PairLemma, Zenon DEF D, DA
<1>5. /\ Head(A) = "ACTIVATE" /\ Head(D) = "DEACTIVATE" /\ Head(V) = "SET_VISIBILITY"
      /\ Head(DA) = "DEACTIVATE" /\ Head(AD) = "ACTIVATE" /\ Head(AV) = "ACTIVATE"
  BY DEF A, D, V, DA, AD, AV
<1>6. Tail(A) = Empty /\ Tail(D) = Empty /\ Tail(V) = Empty
  BY DEF A, D, V, Empty
<1>7. Tail(DA) = A /\ Tail(AD) = D /\ Tail(AV) = V
  BY DEF A, D, V, DA, AD, AV
<1> QED  BY <1>1, <1>2, <1>3, <1>4, <1>5, <1>6, <1>7

----------------------------------------------------------------------------
(* How a call goes on *)

\* The function that __handle_sysevt runs is that of the call.
LEMMA RunLemma ==
    ASSUME Good, NEW f \in Functions, Run(f)
    PROVE  /\ Sent /\ call = f /\ m_msg.userdata = "caller"
           /\ sent' = 0 /\ call' = f /\ ~signal /\ ~wild
  BY DEF Good, Resting, Sent, Waiting, Answering, Run

\* What a function finds: the server is begun or closed, and no event will answer.
LEMMA FoundLemma ==
    ASSUME Good, NEW f \in Functions, Run(f)
    PROVE  /\ Idle /\ call' = f /\ m_msg.userdata = "caller" /\ ~wild /\ FrameType
           /\ f \in {"end", "accept"} => Begun
           /\ btcm_hdl => Begun /\ waiting_result_p = "null"
           /\ ~btcm_hdl => Closed
           /\ NoAccept
<1>1. Sent /\ call = f /\ ~wild /\ FrameType /\ call' = f /\ m_msg.userdata = "caller"
  BY RunLemma DEF Good
<1>2. Idle /\ (f \in {"end", "accept"} => btcm_hdl)
  BY <1>1 DEF Sent
<1> QED  BY <1>1, <1>2 DEF Idle, Begun, Closed

LEMMA StoreLemma ==
    ASSUME FrameType, ~wild, NEW b \in BOOLEAN, Store("caller", b)
    PROVE  FrameType' /\ ~wild' /\ frame'.result # "unset"
<1>1. frame' = [frame EXCEPT !.result = Bool(b)] /\ ~wild'
  BY DEF Store
<1>2. Bool(b) \in Results /\ Bool(b) # "unset"
  BY DEF Bool, Results
<1> QED  BY <1>1, <1>2 DEF FrameType

LEMMA AnswerLemma ==
    ASSUME call' \in Functions, sent' = 0, (signal' /\ ~posting') \/ (posting' /\ ~signal'),
           ~wild', FrameType', Idle', call' \in {"begin", "accept"} => frame'.result # "unset"
    PROVE  Good'
  BY DEF Good, Answering

LEMMA WaitLemma ==
    ASSUME call' \in Functions, sent' = 0, ~posting', ~signal', ~wild', FrameType', Owed'
    PROVE  Good'
  BY DEF Good, Waiting

\* A function answers at once, or leaves the answer to an event.
LEMMA ReturnsLemma ==
    ASSUME Good, NEW f \in Functions, Run(f), ~wild', FrameType',
           \/ /\ Returns(TRUE, FALSE) /\ Idle'
              /\ f \in {"begin", "accept"} => frame'.result # "unset"
           \/ Returns(FALSE, FALSE) /\ Owed'
    PROVE  Good'
<1>1. sent' = 0 /\ call' = f /\ ~signal
  BY RunLemma
<1> QED  BY <1>1, AnswerLemma, WaitLemma DEF Returns

\* An event answers the call that waits for it.
LEMMA EventLemma ==
    ASSUME Good, Owed, Event(TRUE), ~wild', FrameType', Idle',
           call \in {"begin", "accept"} => frame'.result # "unset"
    PROVE  Good'
<1>1. call \in Functions /\ sent = 0
  BY NoneAssumption DEF Good, Resting, Sent, Waiting, Answering, Owed, Idle, Functions,
     NoAccept, Accepting, Closed, Begun, Shut, Open, Beginning, Showing, Ending
<1>2. call' = call /\ sent' = 0 /\ signal' /\ ~posting'
  BY <1>1 DEF Event
<1> QED  BY <1>1, <1>2, AnswerLemma

\* An event changes nothing that matters to a call.
LEMMA SilentLemma ==
    ASSUME Good, Event(FALSE), ~wild', UNCHANGED <<frame, btcm_hdl>>,
           Owed => Owed', Idle => Idle'
    PROVE  Good'
  BY DEF Event, Good, FrameType, Resting, Sent, Waiting, Answering

LEMMA SameLemma ==
    ASSUME UNCHANGED <<adapter, power_on, conn_id, visible>>
    PROVE  /\ Closed => Closed'
           /\ Begun => Begun'
           /\ Beginning => Beginning'
           /\ Showing => Showing'
           /\ Ending => Ending'
  BY DEF Closed, Begun, Beginning, Showing, Ending, Shut, Open, power_on, handles, adapter

LEMMA SameIdle ==
    ASSUME Idle, UNCHANGED <<adapter, power_on, conn_id, visible, accepting>>,
           waiting_result_p' = waiting_result_p \/ (Closed \/ waiting_result_p' = "null")
    PROVE  Idle'
  BY SameLemma DEF Idle, NoAccept, accepting

\* The call goes on as it is, in whatever the state of the server has become.
LEMMA ModeLemma ==
    ASSUME Good, UNCHANGED <<rpc, waiting_result_p, accepting, btcm_hdl, frame, wild>>,
           Closed => Closed', Begun => Begun', Beginning => Beginning', Showing => Showing',
           Ending => Ending'
    PROVE  Good'
<1>1. UNCHANGED <<call, m_msg, sent, signal, posting, waiting_result_p, waiting_for_accept,
                  accept_tid, accepted, btcm_hdl, frame, wild>>
  BY DEF rpc, accepting
<1>2. Idle => Idle'
  BY <1>1 DEF Idle, NoAccept
<1>3. Owed => Owed'
  BY <1>1 DEF Owed, NoAccept, Accepting
<1> QED  BY <1>1, <1>2, <1>3 DEF Good, FrameType, Resting, Sent, Waiting, Answering

LEMMA SameStep ==
    ASSUME Good,
           UNCHANGED <<rpc, adapter, power_on, conn_id, waiting_result_p, accepting, visible,
                       frame, wild>>
    PROVE  Good'
<1>1. UNCHANGED <<call, m_msg, sent, signal, posting, frame, wild, btcm_hdl, waiting_result_p>>
  BY DEF rpc, power_on, handles
<1>2. Idle => Idle'
  BY SameIdle
<1>3. Owed => Owed'
  BY <1>1, SameLemma DEF Owed, NoAccept, Accepting, accepting
<1> QED  BY <1>1, <1>2, <1>3 DEF Good, FrameType, Resting, Sent, Waiting, Answering

----------------------------------------------------------------------------
(* The functions *)

LEMMA BeginStep ==
    ASSUME Good, ~spoiled', BeginRefused \/ BeginWaits \/ BeginOn \/ BeginFails
    PROVE  Good'
<1> Run("begin") /\ "begin" \in Functions
  BY DEF BeginRefused, BeginWaits, BeginOn, BeginFails, Functions
<1> Idle /\ call' = "begin" /\ m_msg.userdata = "caller" /\ ~wild /\ FrameType
    /\ (~btcm_hdl => Closed) /\ NoAccept
  BY FoundLemma
<1>1. CASE BeginRefused
  <2>1. /\ Store("caller", FALSE) /\ Returns(TRUE, FALSE)
        /\ UNCHANGED <<adapter, power_on, conn_id, waiting_result_p, accepting, visible>>
    BY <1>1 DEF BeginRefused
  <2>2. Idle'
    BY <2>1, SameIdle
  <2> QED  BY <2>1, <2>2, StoreLemma, ReturnsLemma
<1>2. CASE BeginWaits
  <2>1. Closed
    BY <1>2 DEF BeginWaits
  <2>2. Beginning'
    BY <1>2, <2>1, DistinctLemma DEF BeginWaits, Closed, Beginning, SwitchOn, Shut
  <2>3. Owed' /\ ~wild' /\ FrameType' /\ Returns(FALSE, FALSE)
    BY <1>2, <2>2 DEF BeginWaits, Owed, NoAccept, accepting, history, FrameType
  <2> QED  BY <2>3, ReturnsLemma
<1>3. CASE BeginOn
  <2>1. Closed /\ InitSets("caller") /\ Returns(FALSE, FALSE) /\ btcm_hdl' = TRUE
        /\ UNCHANGED <<server_status, adapter, conn_id, accepting>>
    BY <1>3 DEF BeginOn
  <2>2. Showing'
    BY <2>1, DistinctLemma DEF InitSets, Opened, Closed, Showing, Open, adapter
  <2>3. Owed' /\ ~wild' /\ FrameType'
    BY <2>1, <2>2 DEF InitSets, Owed, NoAccept, accepting, FrameType
  <2> QED  BY <2>1, <2>3, ReturnsLemma
<1>4. CASE BeginFails
  <2>1. /\ Closed /\ Store("caller", FALSE) /\ NoAccept'
    BY <1>4 DEF BeginFails, CloseSpp, NoAccept
  <2>2. ~wild' /\ FrameType' /\ frame'.result # "unset"
    BY <2>1, StoreLemma
  <2>3. \/ Returns(TRUE, FALSE) /\ Closed'
        \/ Returns(FALSE, FALSE) /\ Ending'
    BY <1>4, <2>1, DistinctLemma
       DEF BeginFails, Closed, Ending, Shut, CloseSpp, ExitCm, SwitchOff, SwitchOffFails
  <2>4. \/ Returns(TRUE, FALSE) /\ Idle'
        \/ Returns(FALSE, FALSE) /\ Owed'
    BY <2>1, <2>2, <2>3 DEF Idle, Owed
  <2> QED  BY <2>2, <2>4, ReturnsLemma
<1> QED  BY <1>1, <1>2, <1>3, <1>4

\* end() finds the chip on, as nobody else is modelled to switch it.
LEMMA EndStep ==
    ASSUME Good, RunEnd
    PROVE  Good'
<1>1. Run("end") /\ "end" \in Functions
  BY DEF RunEnd, Functions
<1>2. Idle /\ Begun /\ call' = "end" /\ ~wild /\ FrameType /\ NoAccept
  BY <1>1, FoundLemma
<1>3. PICK done \in BOOLEAN : EndSpp(done) /\ Returns(done, FALSE)
  BY DEF RunEnd
<1>4. ~wild' /\ FrameType' /\ NoAccept' /\ UNCHANGED <<cmq, visible>>
  BY <1>2, <1>3 DEF RunEnd, EndSpp, CloseSpp, NoAccept, FrameType, history
<1>5. CASE ~done
  <2>1. Ending'
    BY <1>2, <1>3, <1>4, <1>5 DEF EndSpp, CloseSpp, Begun, Ending, Shut, SwitchOff
  <2> QED  BY <1>1, <1>2, <1>3, <1>4, <1>5, <2>1, ReturnsLemma DEF Owed
<1>6. CASE done
  <2>1. Closed'
    BY <1>2, <1>3, <1>4, <1>6 DEF EndSpp, CloseSpp, ExitCm, Begun, Closed, Shut, SwitchOffFails
  <2> QED  BY <1>1, <1>2, <1>3, <1>4, <1>6, <2>1, ReturnsLemma DEF Idle
<1> QED  BY <1>5, <1>6

LEMMA AcceptStep ==
    ASSUME Good, AcceptRefused \/ AcceptWaits
    PROVE  Good'
<1>1. Run("accept") /\ "accept" \in Functions
  BY DEF AcceptRefused, AcceptWaits, Functions
<1>2. Idle /\ Begun /\ call' = "accept" /\ m_msg.userdata = "caller" /\ ~wild /\ FrameType /\ NoAccept
  BY <1>1, FoundLemma
<1>3. CASE AcceptRefused
  <2>1. /\ Store("caller", FALSE) /\ Returns(TRUE, FALSE)
        /\ UNCHANGED <<adapter, power_on, conn_id, waiting_result_p, accepting, visible>>
    BY <1>2, <1>3 DEF AcceptRefused
  <2>2. Idle'
    BY <1>2, <2>1, SameIdle
  <2> QED  BY <1>1, <1>2, <2>1, <2>2, StoreLemma, ReturnsLemma
<1>4. CASE AcceptWaits
  <2>1. Begun'
    BY <1>2, <1>4, SameLemma DEF AcceptWaits
  <2>2. /\ waiting_for_accept' /\ ~accepted' /\ waiting_result_p' = "caller" /\ ~wild' /\ FrameType'
        /\ Returns(FALSE, FALSE)
    BY <1>2, <1>4 DEF AcceptWaits, NoAccept, FrameType, history
  <2> QED  BY <1>1, <1>2, <2>1, <2>2, ReturnsLemma DEF Owed, Accepting
<1> QED  BY <1>3, <1>4

LEMMA OtherStep ==
    ASSUME Good, RunConnected \/ RunWrite
    PROVE  Good'
<1>1. PICK f \in {"connected", "write"} : Run(f) /\ f \in Functions
  BY DEF RunConnected, RunWrite, Functions
<1>2. Idle /\ m_msg.userdata = "caller" /\ ~wild /\ FrameType
  BY <1>1, FoundLemma
<1>3. /\ Returns(TRUE, FALSE)
      /\ UNCHANGED <<adapter, power_on, conn_id, waiting_result_p, accepting, visible>>
  BY DEF RunConnected, RunWrite
<1>4. Idle'
  BY <1>2, <1>3, SameIdle
<1>5. ~wild' /\ FrameType'
  <2>1. CASE RunConnected
    <3>1. Store("caller", conn_id)
      BY <1>2, <2>1 DEF RunConnected
    <3>2. /\ frame' = [frame EXCEPT !.result = Bool(conn_id)] /\ ~wild'
      BY <1>2, <3>1 DEF Store
    <3>3. Bool(conn_id) \in Results
      BY DEF Bool, Results
    <3> QED  BY <1>2, <3>2, <3>3 DEF FrameType
  <2>2. CASE RunWrite
    BY <1>2, <2>2 DEF RunWrite, FrameType, history
  <2> QED  BY <2>1, <2>2
<1> QED  BY <1>1, <1>3, <1>4, <1>5, ReturnsLemma

----------------------------------------------------------------------------
(* The sketch thread *)

LEMMA FillStep ==
    ASSUME Good, NEW f \in Functions, Fill(f), signal' => signal, ~wild', FrameType',
           UNCHANGED <<adapter, power_on, conn_id, waiting_result_p, accepting, visible>>,
           f \in {"end", "accept"} => btcm_hdl
    PROVE  Good'
<1>1. Resting
  BY NoneAssumption DEF Good, Sent, Waiting, Answering, Fill
<1>2. Idle'
  BY <1>1, SameIdle DEF Resting
<1>3. /\ call' = f /\ sent' = 1 /\ ~signal' /\ ~posting'
      /\ m_msg' = [func |-> f, userdata |-> "caller"] /\ btcm_hdl' = btcm_hdl
  BY <1>1 DEF Fill, Resting, power_on, handles
<1>4. m_msg'.func = call' /\ m_msg'.userdata = "caller"
  BY <1>3
<1>5. Sent'
  BY <1>2, <1>3, <1>4 DEF Sent
<1> QED  BY <1>5 DEF Good

LEMMA SketchStep ==
    ASSUME Good, Sketch
    PROVE  Good'
<1>1. CASE Begin
  <2>1. FrameType'
    BY <1>1 DEF Begin, FrameType, Results
  <2> QED  BY <1>1, <2>1, FillStep DEF Begin, CallFresh, Good, Functions, history
<1>2. CASE End
  BY <1>2, FillStep DEF End, CallFresh, Good, FrameType, Functions, history
<1>3. ASSUME NEW named \in BOOLEAN, Accept(named) PROVE Good'
  <2>1. FrameType'
    BY <1>3 DEF Accept, FrameType, Results
  <2> QED  BY <1>3, <2>1, FillStep DEF Accept, Call, Good, Functions, history
<1>4. CASE Connected
  <2>1. FrameType'
    BY <1>4 DEF Connected, FrameType, Results
  <2> QED  BY <1>4, <2>1, FillStep DEF Connected, Call, Good, Functions, history
<1>5. CASE Write
  BY <1>5, SameStep DEF Write, history
<1> QED  BY <1>1, <1>2, <1>3, <1>4, <1>5 DEF Sketch

LEMMA InCallStep ==
    ASSUME Good, InCall
    PROVE  Good'
<1>1. CASE WriteCall
  BY <1>1, FillStep DEF WriteCall, Call, Good, FrameType, Functions, history
<1>2. CASE Returned
  <2>1. Answering /\ ~posting
    BY <1>2, NoneAssumption DEF Returned, Return, Good, Resting, Sent, Waiting, Answering
  <2>2. waiting_result_p = "null" => waiting_result_p' = "null"
    BY <1>2 DEF Returned, After
  <2>3. Idle'
    BY <1>2, <2>1, <2>2, SameIdle DEF Returned, Answering, Idle
  <2>4. Resting'
    BY <1>2, <2>1, <2>3 DEF Returned, Return, Answering, Resting
  <2> QED  BY <1>2, <2>4 DEF Returned, Good, FrameType, history
<1> QED  BY <1>1, <1>2 DEF InCall

LEMMA PostsStep ==
    ASSUME Good, Posts
    PROVE  Good'
<1>1. Answering /\ ~signal
  BY DEF Posts, PostResult, Good, Resting, Sent, Waiting, Answering
<1>2. Idle'
  BY <1>1, SameIdle DEF Posts, Answering
<1>3. Answering'
  BY <1>1, <1>2 DEF Posts, PostResult, Answering
<1> QED  BY <1>3 DEF Good, Posts, FrameType, history

----------------------------------------------------------------------------
(* Events of the connection manager *)

\* What the first event says of the state, when the callback is registered.
LEMMA FirstEventLemma ==
    ASSUME Good, btcm_hdl, cmq # Empty
    PROVE  /\ Waiting /\ Owed /\ NoAccept
           /\ \/ Beginning \/ Showing
              \/ Ending /\ (call = "begin" => frame.result # "unset")
           /\ Beginning \/ Showing => call = "begin" /\ waiting_result_p = "caller"
<1>1. ~Closed /\ ~Begun
  BY DEF Closed, Begun
<1>2. Waiting /\ Owed
  BY <1>1 DEF Good, Resting, Sent, Waiting, Answering, Idle
<1>3. Ending => ~Beginning /\ ~Showing
  BY DEF Ending, Beginning, Showing, Shut, Open
<1> QED  BY <1>1, <1>2, <1>3 DEF Owed

\* An ACTIVATE that the callback acts on is the one begin() waits for.
LEMMA ActivateStep ==
    ASSUME Good, Activate
    PROVE  Good'
<1>1. /\ btcm_hdl /\ cmq # Empty /\ Head(cmq) = "ACTIVATE" /\ cmq' = Tail(cmq) /\ ~posting
      /\ ~wild /\ FrameType
  BY DEF Activate, Delivered, Empty, ActivateReady, ActivateFails, ActivateEnding,
         ActivateIgnored, Event, Good
<1>2. /\ Waiting /\ Owed /\ NoAccept
      /\ \/ Beginning \/ Showing
         \/ Ending /\ (call = "begin" => frame.result # "unset")
      /\ Beginning \/ Showing => call = "begin" /\ waiting_result_p = "caller"
  BY <1>1, FirstEventLemma
<1>3. CASE server_status = "POWERING_ON"
  <2>1. Beginning /\ cmq = A /\ power = "ON"
    BY <1>1, <1>2, <1>3, QueueLemma, DistinctLemma DEF Beginning, Showing, Ending
  <2>2. cmq' = Empty /\ call = "begin" /\ waiting_result_p = "caller"
    BY <1>1, <1>2, <2>1, QueueLemma
  <2>3. ASSUME InitVisible("caller"), Event(TRUE),
               UNCHANGED <<power, btcm_hdl, server_status, conn_id, accepting>>
        PROVE  Good'
    <3>1. Begun' /\ waiting_result_p' = "null" /\ NoAccept'
      BY <1>2, <1>3, <2>1, <2>2, <2>3
         DEF InitVisible, Opened, Beginning, Begun, Open, NoAccept, accepting
    <3>2. FrameType' /\ ~wild' /\ frame'.result # "unset"
      BY <1>1, <2>3, StoreLemma DEF InitVisible
    <3> QED  BY <1>2, <2>3, <3>1, <3>2, EventLemma DEF Idle
  <2>4. ASSUME InitSets("caller"), Event(FALSE),
               UNCHANGED <<power, btcm_hdl, server_status, conn_id, accepting>>
        PROVE  Good'
    <3>1. Showing' /\ waiting_result_p' = "caller" /\ NoAccept' /\ ~wild' /\ FrameType'
      BY <1>1, <1>2, <1>3, <2>1, <2>2, <2>4
         DEF InitSets, Opened, Beginning, Showing, Open, NoAccept, accepting, FrameType
    <3>2. call' = "begin" /\ call' \in Functions /\ sent' = 0 /\ ~posting' /\ ~signal'
      BY <1>2, <2>2, <2>4 DEF Event, Waiting
    <3> QED  BY <3>1, <3>2, WaitLemma DEF Owed
  <2>5. ASSUME ActivateFails PROVE Good'
    <3>1. PICK done \in BOOLEAN : EndSpp(done) /\ Event(done)
      BY <2>5 DEF ActivateFails
    <3>2. FrameType' /\ ~wild' /\ frame'.result # "unset" /\ visible' = visible
      BY <1>1, <2>2, <2>5, StoreLemma DEF ActivateFails
    <3>3. NoAccept'
      BY <1>2, <3>1 DEF EndSpp, CloseSpp, NoAccept
    <3>4. CASE done
      <4>1. Closed'
        BY <2>1, <2>2, <3>1, <3>2, <3>4 DEF EndSpp, CloseSpp, ExitCm, Closed, Shut, Beginning
      <4> QED  BY <1>2, <3>1, <3>2, <3>3, <3>4, <4>1, EventLemma DEF Idle
    <3>5. CASE ~done
      <4>1. Ending'
        BY <2>1, <2>2, <3>1, <3>2, <3>5 DEF EndSpp, CloseSpp, SwitchOff, Beginning, Ending, Shut
      <4>2. call' = "begin" /\ call' \in Functions /\ sent' = 0 /\ ~posting' /\ ~signal'
        BY <1>2, <2>2, <3>1, <3>5 DEF Event, Waiting
      <4> QED  BY <3>2, <3>3, <4>1, <4>2, WaitLemma DEF Owed
    <3> QED  BY <3>4, <3>5
  <2>6. ActivateReady \/ ActivateFails
    BY <1>3 DEF Activate, ActivateEnding, ActivateIgnored
  <2> QED  BY <2>2, <2>3, <2>4, <2>5, <2>6 DEF ActivateReady
<1>4. CASE server_status # "POWERING_ON"
  <2>1. ActivateIgnored
    BY <1>2, <1>4 DEF Activate, ActivateReady, ActivateFails, ActivateEnding, Beginning, Showing, Ending
  <2>2. /\ Event(FALSE) /\ ~wild'
        /\ UNCHANGED <<power, power_on, conn_id, accepting, waiting_result_p, visible, frame, call>>
    BY <1>1, <2>1 DEF ActivateIgnored, Event
  <2>3. ~Beginning
    BY <1>1, <1>4, QueueLemma, DistinctLemma DEF Beginning
  <2>4. Showing => Showing'
    BY <1>1, <1>4, <2>2, QueueLemma, DistinctLemma DEF Showing, Open, power_on, handles
  <2>5. Ending => Ending'
    BY <1>1, <2>2, QueueLemma, DistinctLemma DEF Ending, Shut, power_on, handles
  <2>6. Owed' /\ ~Idle
    <3>1. ~Closed /\ ~Begun
      BY <1>1 DEF Closed, Begun
    <3> QED  BY <1>2, <2>2, <2>3, <2>4, <2>5, <3>1 DEF Owed, Idle, NoAccept, accepting
  <2> QED  BY <2>2, <2>6, SilentLemma DEF power_on, handles
<1> QED  BY <1>3, <1>4

\* A DEACTIVATE ends the call that waits for it, or begin() goes on.
LEMMA DeactivateStep ==
    ASSUME Good, Deactivate
    PROVE  Good'
<1>1. /\ btcm_hdl /\ cmq # Empty /\ Head(cmq) = "DEACTIVATE" /\ cmq' = Tail(cmq) /\ ~posting
      /\ ~wild /\ FrameType /\ visible' = visible
  BY DEF Deactivate, Delivered, Empty, DeactivateBegins, DeactivateEnds, DeactivateIgnored, Event, Good
<1>2. /\ Waiting /\ Owed /\ NoAccept
      /\ \/ Beginning \/ Showing
         \/ Ending /\ (call = "begin" => frame.result # "unset")
      /\ Beginning \/ Showing => call = "begin" /\ waiting_result_p = "caller"
  BY <1>1, FirstEventLemma
<1>3. ~Showing
  BY <1>1, QueueLemma, DistinctLemma DEF Showing
<1>4. CASE server_status = "BEGINING"
  <2>1. Beginning /\ cmq = D /\ power = "OFF" /\ call = "begin" /\ waiting_result_p = "caller"
    BY <1>1, <1>2, <1>3, <1>4, DistinctLemma DEF Beginning, Ending
  <2>2. cmq' = Empty
    BY <1>1, <2>1, QueueLemma
  <2>3. ASSUME SwitchOn, server_status' = "POWERING_ON", Event(FALSE),
               UNCHANGED <<handles, conn_id, accepting, waiting_result_p, frame, wild>>
        PROVE  Good'
    <3>1. Beginning'
      BY <1>1, <2>1, <2>2, <2>3 DEF Beginning, SwitchOn, Shut, handles
    <3>2. call' = "begin" /\ call' \in Functions /\ sent' = 0 /\ ~posting' /\ ~signal'
      BY <1>2, <2>1, <2>3 DEF Event, Waiting
    <3>3. waiting_result_p' = "caller" /\ NoAccept' /\ ~wild' /\ FrameType'
      BY <1>1, <1>2, <2>1, <2>3 DEF NoAccept, accepting, FrameType
    <3> QED  BY <3>1, <3>2, <3>3, WaitLemma DEF Owed
  <2>4. ASSUME Store(waiting_result_p, FALSE),
               \E done \in BOOLEAN : EndSpp(done) /\ Event(done)
        PROVE  Good'
    <3>1. PICK done \in BOOLEAN : EndSpp(done) /\ Event(done)
      BY <2>4
    <3>2. FrameType' /\ ~wild' /\ frame'.result # "unset"
      BY <1>1, <2>1, <2>4, StoreLemma
    <3>3. done /\ Closed' /\ NoAccept'
      BY <1>1, <1>2, <2>1, <2>2, <3>1
         DEF EndSpp, CloseSpp, ExitCm, SwitchOff, Closed, Shut, NoAccept, Beginning
    <3> QED  BY <1>2, <3>1, <3>2, <3>3, EventLemma DEF Idle
  <2> QED  BY <1>4, <2>3, <2>4 DEF Deactivate, DeactivateBegins, DeactivateEnds, DeactivateIgnored
<1>5. CASE server_status = "POWERING_OFF"
  <2>1. Ending /\ cmq = D /\ power = "OFF" /\ (call = "begin" => frame.result # "unset")
    BY <1>1, <1>2, <1>3, <1>5, QueueLemma, DistinctLemma DEF Beginning, Ending
  <2>2. DeactivateEnds
    BY <1>5 DEF Deactivate, DeactivateBegins, DeactivateIgnored
  <2>3. /\ Closed' /\ NoAccept' /\ ~wild' /\ Event(TRUE) /\ frame' = frame /\ FrameType'
    BY <1>1, <1>2, <2>1, <2>2, QueueLemma
       DEF DeactivateEnds, ExitCm, Closed, Ending, Shut, NoAccept, accepting, FrameType
  <2>4. call \in {"begin", "end"}
    BY <1>2, <2>1 DEF Owed, Ending, Begun
  <2> QED  BY <1>2, <2>1, <2>3, <2>4, EventLemma DEF Idle
<1>6. CASE server_status \notin {"BEGINING", "POWERING_OFF"}
  <2>1. /\ Event(FALSE) /\ ~wild'
        /\ UNCHANGED <<power, power_on, conn_id, accepting, waiting_result_p, visible, frame, call>>
    <3>1. DeactivateIgnored
      BY <1>6 DEF Deactivate, DeactivateBegins, DeactivateEnds
    <3> QED  BY <1>1, <3>1 DEF DeactivateIgnored, Event
  <2>2. ~Ending /\ Beginning
    BY <1>2, <1>3, <1>6 DEF Ending
  <2>3. Beginning'
    BY <1>1, <1>6, <2>1, <2>2, QueueLemma, DistinctLemma DEF Beginning, Shut, power_on, handles
  <2>4. Owed' /\ ~Idle
    <3>1. ~Closed /\ ~Begun
      BY <1>1 DEF Closed, Begun
    <3> QED  BY <1>2, <2>1, <2>2, <2>3, <3>1 DEF Owed, Idle, NoAccept, accepting
  <2> QED  BY <2>1, <2>4, SilentLemma DEF power_on, handles
<1> QED  BY <1>4, <1>5, <1>6

\* A SET_VISIBILITY answers begin().
LEMMA VisibilityStep ==
    ASSUME Good, SetVisibility
    PROVE  Good'
<1>1. /\ btcm_hdl /\ cmq # Empty /\ Head(cmq) = "SET_VISIBILITY" /\ cmq' = Tail(cmq)
      /\ ~wild /\ FrameType /\ Event(TRUE) /\ waiting_result_p' = "null"
      /\ Store(waiting_result_p, TRUE)
      /\ UNCHANGED <<power, power_on, conn_id, accepting, visible>>
  BY DEF SetVisibility, Delivered, Empty, Good
<1>2. /\ Owed /\ NoAccept /\ (Beginning \/ Showing \/ Ending)
      /\ Beginning \/ Showing => call = "begin" /\ waiting_result_p = "caller"
  BY <1>1, FirstEventLemma
<1>3. Showing /\ cmq = V
  BY <1>1, <1>2, QueueLemma, DistinctLemma DEF Beginning, Showing, Ending
<1>4. cmq' = Empty /\ waiting_result_p = "caller"
  BY <1>1, <1>2, <1>3, QueueLemma
<1>5. FrameType' /\ ~wild' /\ frame'.result # "unset"
  BY <1>1, <1>4, StoreLemma
<1>6. Begun'
  BY <1>1, <1>3, <1>4, DistinctLemma DEF Showing, Begun, Open, power_on, handles
<1>7. Idle'
  BY <1>1, <1>2, <1>6 DEF Idle, NoAccept, accepting
<1> QED  BY <1>1, <1>2, <1>5, <1>7, EventLemma

\* An event that nobody is registered for waits only while the server is closed.
LEMMA MissedStep ==
    ASSUME Good, Missed
    PROVE  Good'
<1>1. /\ ~btcm_hdl /\ cmq # Empty /\ cmq' = Tail(cmq) /\ Event(FALSE) /\ ~wild'
      /\ UNCHANGED <<power, power_on, conn_id, accepting, waiting_result_p, visible, frame>>
  BY DEF Missed, Delivered, Empty, Good, history
<1>2. ~Begun /\ ~Owed
  BY <1>1 DEF Owed, Begun, Beginning, Showing, Ending
<1>3. Closed => Closed'
  BY <1>1, QueueLemma DEF Closed, Shut, power_on, handles
<1>4. Idle => Idle'
  BY <1>1, <1>2, <1>3 DEF Idle, NoAccept, accepting
<1> QED  BY <1>1, <1>2, <1>4, SilentLemma DEF power_on, handles

----------------------------------------------------------------------------
(* Events of the serial port, and the timer of accept() *)

\* With the port open, and until a client is let in, no call is answered by a link.
LEMMA PortLemma ==
    ASSUME Good, btspp_hdl \/ conn_id
    PROVE  /\ Idle => Begun /\ waiting_result_p = "null" /\ NoAccept
           /\ Owed => \/ call = "begin" /\ waiting_result_p = "caller" /\ NoAccept /\ Showing
                      \/ call = "accept" /\ waiting_result_p = "caller" /\ Begun /\ Accepting
           /\ Idle \/ Owed
  BY DEF Good, Resting, Sent, Waiting, Answering, Idle, Owed, Closed, Beginning, Ending, Shut

LEMMA AuthorizeStep ==
    ASSUME Good, NEW known \in BOOLEAN, Authorize(known)
    PROVE  Good'
<1>1. /\ btspp_hdl /\ waiting_for_accept /\ Event(FALSE) /\ ~wild'
      /\ waiting_for_accept' = FALSE /\ accept_tid' = FALSE
      /\ UNCHANGED <<adapter, power_on, conn_id, waiting_result_p, visible, frame, call>>
  BY DEF Authorize, Event, Good, history
<1>2. Begun => Begun'
  BY <1>1, SameLemma
<1>3. ~Idle
  BY <1>1 DEF Idle, NoAccept
<1>4. Owed => Owed'
  BY <1>1, <1>2, PortLemma DEF Owed, NoAccept, Accepting
<1> QED  BY <1>1, <1>3, <1>4, SilentLemma DEF power_on, handles

\* A CONNECT ends only an accept() that has let its client in.
LEMMA ConnectStep ==
    ASSUME Good, ~spoiled', NEW ok \in BOOLEAN, Connect(ok)
    PROVE  Good'
<1>1. /\ btspp_hdl /\ accepted' = FALSE /\ waiting_result_p' = "null" /\ ~wild /\ FrameType
      /\ UNCHANGED <<power, cmq, btcm_hdl, btspp_hdl, btspp_buf, server_status, visible, mac_only>>
  BY DEF Connect, Good, adapter, power_on, handles
<1>2. Begun => Begun'
  BY <1>1 DEF Begun, Open
<1>3. CASE waiting_result_p = "null"
  <2>1. Event(FALSE) /\ UNCHANGED <<frame, wild, waiting_for_accept, accept_tid>>
    BY <1>3 DEF Connect, history
  <2>2. ~Owed
    BY <1>1, <1>3, PortLemma
  <2>3. Idle => Idle'
    BY <1>1, <1>2, <2>1, PortLemma DEF Idle, NoAccept
  <2> QED  BY <1>1, <2>1, <2>2, <2>3, SilentLemma
<1>4. CASE waiting_result_p # "null"
  <2>1. /\ frame' = IF waiting_result_p = "caller" THEN [frame EXCEPT !.result = Bool(ok)] ELSE frame
        /\ wild' = (wild \/ waiting_result_p # "caller" \/ waiting_for_accept)
        /\ spoiled' = (spoiled \/ ~accepted)
        /\ waiting_for_accept' = FALSE
        /\ accept_tid' = (accept_tid /\ ~waiting_for_accept)
        /\ Event(TRUE)
    BY <1>4 DEF Connect
  <2>2. accepted
    BY <2>1
  <2>3. Owed /\ call = "accept" /\ waiting_result_p = "caller" /\ Begun
        /\ ~waiting_for_accept /\ ~accept_tid
    BY <1>1, <1>4, <2>2, PortLemma DEF NoAccept, Accepting
  <2>4. Idle'
    BY <1>1, <1>2, <2>1, <2>3 DEF Idle, NoAccept
  <2>5. Store("caller", ok)
    BY <2>1, <2>3 DEF Store
  <2>6. ~wild' /\ FrameType' /\ frame'.result # "unset"
    BY <1>1, <2>5, StoreLemma
  <2> QED  BY <2>1, <2>3, <2>4, <2>6, EventLemma
<1> QED  BY <1>3, <1>4

LEMMA DisconnectStep ==
    ASSUME Good, Disconnect
    PROVE  Good'
<1>1. /\ conn_id /\ Event(FALSE) /\ ~wild'
      /\ UNCHANGED <<power, cmq, power_on, accepting, waiting_result_p, visible, frame, call>>
  BY DEF Disconnect, Event, Good, adapter, history
<1>2. Begun => Begun'
  BY <1>1 DEF Begun, Open, power_on, handles
<1>3. Showing => Showing'
  BY <1>1 DEF Showing, Open, power_on, handles
<1>4. Idle => Idle'
  BY <1>1, <1>2, PortLemma DEF Idle, NoAccept, accepting
<1>5. Owed => Owed'
  BY <1>1, <1>2, <1>3, PortLemma DEF Owed, NoAccept, Accepting, accepting
<1> QED  BY <1>1, <1>4, <1>5, SilentLemma DEF power_on, handles

LEMMA ReadyStep ==
    ASSUME Good, ReadyToWrite
    PROVE  Good'
<1>1. /\ Event(FALSE) /\ ~wild'
      /\ UNCHANGED <<adapter, power_on, conn_id, accepting, waiting_result_p, visible, frame, call>>
  BY DEF ReadyToWrite, Event, Good, history
<1>2. Idle => Idle'
  BY <1>1, SameIdle
<1>3. Owed => Owed'
  BY <1>1, SameLemma DEF Owed, NoAccept, Accepting, accepting
<1> QED  BY <1>1, <1>2, <1>3, SilentLemma DEF power_on, handles

LEMMA TimeoutStep ==
    ASSUME Good, Timeout
    PROVE  Good'
<1>1. /\ accept_tid /\ waiting_for_accept /\ Store(waiting_result_p, FALSE) /\ Event(TRUE)
      /\ ~wild /\ FrameType
      /\ waiting_for_accept' = FALSE /\ accept_tid' = FALSE /\ waiting_result_p' = "null"
      /\ UNCHANGED <<adapter, power_on, conn_id, accepted, visible>>
  BY DEF Timeout, Good
<1>2. ~NoAccept
  BY <1>1 DEF NoAccept
<1>3. Owed /\ call = "accept" /\ waiting_result_p = "caller" /\ Begun /\ ~accepted
  BY <1>1, <1>2 DEF Good, Resting, Sent, Waiting, Answering, Idle, Owed, Accepting
<1>4. Idle'
  BY <1>1, <1>3, SameLemma DEF Idle, NoAccept
<1>5. ~wild' /\ FrameType' /\ frame'.result # "unset"
  BY <1>1, <1>3, StoreLemma
<1> QED  BY <1>1, <1>3, <1>4, <1>5, EventLemma

----------------------------------------------------------------------------
(* The chip *)

\* No change of the chip's power fails: Switched ends as it was asked to.
NoSwitchFails == Faults \cap {"activate", "deactivate"} = {}

\* The chip ends in the state it was asked for, and tells.
LEMMA ChipLemma ==
    ASSUME NoSwitchFails, Chip
    PROVE  /\ UNCHANGED <<rpc, power_on, conn_id, waiting_result_p, accepting, frame, wild>>
           /\ \/ /\ power = "SWITCHING_ON" /\ power' = "ON" /\ visible' = visible
                 /\ cmq' = Append(cmq, "ACTIVATE")
              \/ /\ power = "SWITCHING_OFF" /\ power' = "OFF" /\ visible' \in {visible, "off"}
                 /\ cmq' = Append(cmq, "DEACTIVATE")
              \/ /\ power' = power /\ visible = "setting" /\ visible' = "on"
                 /\ cmq' = Append(cmq, "SET_VISIBILITY")
<1>1. ~May("activate") /\ ~May("deactivate")
  BY DEF NoSwitchFails, May
<1>2. UNCHANGED <<rpc, power_on, conn_id, waiting_result_p, accepting, frame, wild>>
  BY DEF Chip, history
<1>3. CASE Switched /\ (UNCHANGED visible \/ (power' = "OFF" /\ visible' = "off"))
  <2>1. CASE power = "SWITCHING_ON"
    BY <1>1, <1>2, <1>3, <2>1 DEF Switched
  <2>2. CASE power = "SWITCHING_OFF"
    BY <1>1, <1>2, <1>3, <2>2 DEF Switched
  <2> QED  BY <1>3, <2>1, <2>2 DEF Switched
<1> QED  BY <1>2, <1>3 DEF Chip

LEMMA ChipStep ==
    ASSUME NoSwitchFails, Good, Chip
    PROVE  Good'
<1>1. /\ UNCHANGED <<rpc, power_on, conn_id, waiting_result_p, accepting, frame, wild>>
      /\ UNCHANGED <<btcm_hdl, btspp_hdl, btspp_buf, server_status, call>>
  BY ChipLemma DEF power_on, handles, rpc
<1>2. CASE power = "SWITCHING_ON" /\ power' = "ON" /\ visible' = visible /\ cmq' = Append(cmq, "ACTIVATE")
  <2>1. Beginning => Beginning'
    BY <1>1, <1>2, QueueLemma DEF Beginning, Shut
  <2>2. ~Closed \/ Closed'
    BY <1>1, <1>2, QueueLemma DEF Closed, Shut
  <2>3. ~Begun /\ ~Showing /\ ~Ending
    BY <1>2 DEF Begun, Showing, Ending
  <2> QED  BY <1>1, <2>1, <2>2, <2>3, ModeLemma
<1>3. CASE power = "SWITCHING_OFF" /\ power' = "OFF" /\ visible' \in {visible, "off"}
           /\ cmq' = Append(cmq, "DEACTIVATE")
  <2>1. Beginning => Beginning'
    BY <1>1, <1>3, QueueLemma, DistinctLemma DEF Beginning, Shut
  <2>2. Closed => Closed'
    BY <1>1, <1>3, QueueLemma DEF Closed, Shut
  <2>3. Ending => Ending'
    BY <1>1, <1>3, QueueLemma DEF Ending, Shut
  <2>4. ~Begun /\ ~Showing
    BY <1>3 DEF Begun, Showing
  <2> QED  BY <1>1, <2>1, <2>2, <2>3, <2>4, ModeLemma
<1>4. CASE power' = power /\ visible = "setting" /\ visible' = "on"
           /\ cmq' = Append(cmq, "SET_VISIBILITY")
  <2>1. Showing => Showing'
    BY <1>1, <1>4, QueueLemma DEF Showing, Open
  <2>2. ~Begun /\ ~Closed /\ ~Beginning /\ ~Ending
    BY <1>4 DEF Begun, Closed, Beginning, Ending
  <2> QED  BY <1>1, <2>1, <2>2, ModeLemma
<1> QED  BY <1>2, <1>3, <1>4, ChipLemma

----------------------------------------------------------------------------
(* The theorems *)

LEMMA InitIInv == Init => IInv
<1> SUFFICES ASSUME Init PROVE Good
  BY DEF IInv
<1>1. FrameType /\ ~wild
  BY DEF Init, FrameType, Results
<1>2. Closed /\ NoAccept
  BY DEF Init, AdapterInit, Closed, Shut, Empty, NoAccept
<1>3. Resting
  BY <1>2 DEF Init, RpcInit, Resting, Idle
<1> QED  BY <1>1, <1>3 DEF Good

\* What has been answered twice stays so.
LEMMA SpoiledLemma ==
    ASSUME [Next]_vars, ~spoiled'
    PROVE  ~spoiled
<1>1. CASE Sketch \/ InCall \/ Posts \/ Timeout \/ Chip \/ UNCHANGED vars
  BY <1>1 DEF Sketch, Begin, End, Accept, Connected, Write, InCall, WriteCall, Returned, Posts,
              Timeout, Chip, vars, history
<1>2. CASE HandleSysevt
  BY <1>2 DEF HandleSysevt, RunFunction, BeginRefused, BeginWaits, BeginOn, BeginFails, RunEnd,
              AcceptRefused, AcceptWaits, RunConnected, RunWrite, history
<1>3. CASE CmEvent
  BY <1>3 DEF CmEvent, Activate, Deactivate, SetVisibility, Missed, history
<1>4. ASSUME NEW ok \in BOOLEAN, Connect(ok) PROVE ~spoiled
  <2>1. (spoiled' = spoiled) \/ (spoiled' = (spoiled \/ ~accepted))
    BY <1>4 DEF Connect, history
  <2> QED  BY <2>1
<1>5. CASE SppEvent
  BY <1>4, <1>5 DEF SppEvent, Authorize, Disconnect, ReadyToWrite, history
<1> QED  BY <1>1, <1>2, <1>3, <1>5 DEF Next

LEMMA NextIInv ==
    ASSUME NoSwitchFails, IInv, [Next]_vars
    PROVE  IInv'
<1> SUFFICES ASSUME ~spoiled' PROVE Good'
  BY DEF IInv
<1>1. Good
  BY SpoiledLemma DEF IInv
<1>2. CASE HandleSysevt
  BY <1>1, <1>2, BeginStep, EndStep, AcceptStep, OtherStep DEF HandleSysevt, RunFunction
<1>3. CASE CmEvent
  BY <1>1, <1>3, ActivateStep, DeactivateStep, VisibilityStep, MissedStep DEF CmEvent
<1>4. CASE SppEvent
  BY <1>1, <1>4, AuthorizeStep, ConnectStep, DisconnectStep, ReadyStep DEF SppEvent
<1>5. CASE UNCHANGED vars
  BY <1>1, <1>5, SameStep DEF vars, history
<1> QED
  BY <1>1, <1>2, <1>3, <1>4, <1>5, SketchStep, InCallStep, PostsStep, TimeoutStep, ChipStep DEF Next

THEOREM Invariance ==
    ASSUME NoSwitchFails
    PROVE  Spec => []IInv
<1>1. Init => IInv
  BY InitIInv
<1>2. IInv /\ [Next]_vars => IInv'
  BY NextIInv
<1> QED  BY <1>1, <1>2, PTL DEF Spec

\* Until a call is answered twice, bt_server_spp_cb, the power events and the timer of
\* accept() write their result into the frame that waits for it: waiting_result_p is
\* neither NULL nor into the frame of a call that is over.
THEOREM WritesToTheCaller ==
    ASSUME NoSwitchFails
    PROVE  Spec => []NoWildWrite
<1>1. IInv => NoWildWrite
  BY DEF IInv, NoWildWrite, Good
<1> QED  BY Invariance, <1>1, PTL

\* Until then, begin() and accept() return a result that the main thread has stored for
\* them: no signal reaches them that an end() or an earlier call has left.
THEOREM ResultsTold ==
    ASSUME NoSwitchFails
    PROVE  Spec => []Answered
<1>1. ASSUME Good, call \in {"begin", "accept"}, signal
      PROVE  frame.result # "unset"
  BY <1>1, NoneAssumption DEF Good, Resting, Sent, Waiting, Answering, Functions
<1>2. IInv => Answered
  BY <1>1 DEF IInv, Answered
<1> QED  BY Invariance, <1>2, PTL

\* Until then, the sketch finds the server begun, with its port and buffer, or closed with
\* nothing left open, however btServerBegin, its events and btServerEnd have ended.
THEOREM BegunOrClosed ==
    ASSUME NoSwitchFails
    PROVE  Spec => []AllOrNothing
<1>1. ASSUME Good, call = None
      PROVE  /\ btspp_hdl = btcm_hdl /\ btspp_buf = btcm_hdl
             /\ ~btcm_hdl => server_status = "IDLE" /\ ~conn_id
  <2>1. Closed \/ Begun
    BY <1>1, NoneAssumption DEF Good, Resting, Sent, Waiting, Answering, Idle
  <2> QED  BY <2>1 DEF Closed, Begun, Shut, Open
<1>2. IInv => AllOrNothing
  BY <1>1 DEF IInv, AllOrNothing
<1> QED  BY Invariance, <1>2, PTL
=============================================================================
