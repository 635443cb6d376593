------------------------------ MODULE LGSMProofs ------------------------------
(***************************************************************************)
(* The two components of LGSM.                                             *)
(*                                                                         *)
(* Voice calls: the status that LVoiceCall keeps follows the modem's call, *)
(* for any length of the queues, any refusals and failed dials.  Every     *)
(* event sets the status, so the last one that is under way decides what   *)
(* it will be; what has to be shown is that a failed action tells the      *)
(* truth.                                                                  *)
(*                                                                         *)
(* Short messages: what available() hands out is one message, and every    *)
(* message is handed out, for any number of messages and any faults, as    *)
(* long as a message arrives only once the one before has been taken.      *)
(*                                                                         *)
(* The two share the task object's variables and the names Faults and      *)
(* refused; a theorem speaks of one component's behaviours at a time.      *)
(***************************************************************************)
EXTENDS LVoiceCall, LSMSState, TLAPS

CONSTANTS Bursts   \* of LSMS

VARIABLES outcome, send_data, doomed, sends, deletes   \* of LSMS, besides its state

SMS == INSTANCE LSMS

----------------------------------------------------------------------------
(* Voice calls *)

\* The status an event sets.
Tells(e) == IF e \in Responses THEN AfterResponse(e) ELSE AfterIndication[e.indication]

\* The request to start a call is with the main thread or with the modem.
Requested(f) == sent > 0 /\ m_msg.func = f
Accepted(a) == \E i \in DOMAIN actions : actions[i] = a
Starting == Requested("voiceCall") \/ Requested("answerCall")
Started == Accepted("DIAL") \/ Accepted("ACCEPT")

TypeInv ==
    /\ sent \in Nat /\ posting \in BOOLEAN
    /\ net \in {"none", "outgoing", "incoming", "talking"}
    /\ actions \in Seq({"DIAL", "ACCEPT", "END_SINGLE"})
    /\ events \in Seq(Responses \cup Indications)

\* The last event under way tells what the modem's call is.
LastTells ==
    IF events = << >> THEN g_call_status = Status[net]
    ELSE Tells(events[Len(events)]) = Status[net]

\* One request to start a call at most is under way.
OneStarts ==
    /\ Starting => sent = 1 /\ ~Started
    /\ \A i, j \in DOMAIN actions :
          actions[i] \in {"DIAL", "ACCEPT"} /\ actions[j] \in {"DIAL", "ACCEPT"} => i = j

\* While a dial is under way there is no call, and while an answer is, no other call.
NothingCrosses ==
    /\ Requested("voiceCall") \/ Accepted("DIAL") => net = "none"
    /\ Requested("answerCall") \/ Accepted("ACCEPT") => net \in {"incoming", "none"}

IInv == TypeInv /\ (~crossed => LastTells /\ OneStarts /\ NothingCrosses)

----------------------------------------------------------------------------
(* Queues *)

LEMMA AppendLemma ==
    ASSUME NEW S, NEW q \in Seq(S), NEW e \in S
    PROVE  /\ Append(q, e) \in Seq(S) /\ Append(q, e) # << >>
           /\ Len(Append(q, e)) = Len(q) + 1 /\ Append(q, e)[Len(q) + 1] = e
           /\ \A i \in DOMAIN q : Append(q, e)[i] = q[i]
           /\ DOMAIN Append(q, e) = 1 .. Len(q) + 1 /\ DOMAIN q = 1 .. Len(q)
  OBVIOUS

LEMMA TailLemma ==
    ASSUME NEW S, NEW q \in Seq(S), q # << >>
    PROVE  /\ Tail(q) \in Seq(S) /\ Head(q) = q[1] /\ Head(q) \in S /\ 1 \in DOMAIN q
           /\ Len(Tail(q)) = Len(q) - 1 /\ Len(q) \in Nat \ {0}
           /\ \A i \in DOMAIN Tail(q) : i + 1 \in DOMAIN q /\ Tail(q)[i] = q[i + 1]
           /\ Tail(q) # << >> => Tail(q)[Len(Tail(q))] = q[Len(q)]
           /\ Tail(q) = << >> => Len(q) = 1
<1>1. Len(q) \in Nat \ {0} /\ DOMAIN q = 1 .. Len(q) /\ Head(q) = q[1]
  OBVIOUS
<1>2. /\ Tail(q) \in Seq(S) /\ Len(Tail(q)) = Len(q) - 1
      /\ DOMAIN Tail(q) = 1 .. Len(q) - 1
      /\ \A i \in 1 .. Len(q) - 1 : Tail(q)[i] = q[i + 1]
  OBVIOUS
<1>3. Tail(q) = << >> => Len(Tail(q)) = 0
  <2>1. Len(<< >>) = 0
    OBVIOUS
  <2> QED  BY <2>1, Zenon
<1>4. Tail(q) # << >> => Len(Tail(q)) \in 1 .. Len(q) - 1
  BY <1>1, <1>2
<1>5. Head(q) \in S /\ 1 \in DOMAIN q
  BY <1>1
<1>6. \A i \in DOMAIN Tail(q) : i + 1 \in DOMAIN q /\ Tail(q)[i] = q[i + 1]
  BY <1>1, <1>2
<1>7. Tail(q) # << >> => Tail(q)[Len(Tail(q))] = q[Len(q)]
  BY <1>1, <1>2, <1>4
<1>8. Tail(q) = << >> => Len(q) = 1
  BY <1>1, <1>2, <1>3
<1> QED  BY <1>1, <1>2, <1>5, <1>6, <1>7, <1>8

Events == Responses \cup Indications

LEMMA KindsLemma ==
    /\ \A a \in {"DIAL", "ACCEPT", "END_SINGLE"} :
          /\ Ok(a) \in Responses /\ Fail(a) \in Responses
          /\ Ok(a).response = a /\ Ok(a).ok = TRUE
          /\ Fail(a).response = a /\ Fail(a).ok = FALSE
    /\ \A i \in {"INCOMING", "OUTGOING", "CONNECTED", "ENDED"} :
          /\ Sign(i) \in Indications /\ Sign(i) \notin Responses /\ Sign(i).indication = i
    /\ \A e \in Indications : e \notin Responses
<1>1. \A i \in {"INCOMING", "OUTGOING", "CONNECTED", "ENDED"} :
         Sign(i) \in Indications /\ Sign(i).indication = i
  BY DEF Sign, Indications
<1>2. \A e \in Indications : e \notin Responses
  <2> SUFFICES ASSUME NEW e \in Indications, e \in Responses PROVE FALSE
    OBVIOUS
  <2>1. DOMAIN e = {"indication"}
    BY DEF Indications
  <2>2. DOMAIN e = {"response", "ok"}
    BY DEF Responses
  <2> QED  BY <2>1, <2>2
<1> QED  BY <1>1, <1>2 DEF Ok, Fail, Responses

\* The status each event sets.
LEMMA TellsLemma ==
    /\ Tells(Ok("DIAL")) = Status["outgoing"] /\ Tells(Sign("OUTGOING")) = Status["outgoing"]
    /\ Tells(Sign("CONNECTED")) = Status["talking"]
    /\ Tells(Sign("ENDED")) = Status["none"] /\ Tells(Sign("INCOMING")) = Status["incoming"]
    /\ \A a \in {"DIAL", "ACCEPT", "END_SINGLE"} : Tells(Fail(a)) = Status["none"]
  BY KindsLemma DEF Tells, AfterResponse, AfterIndication, Status

----------------------------------------------------------------------------
(* The steps *)

LEMMA InitIInv == Init => IInv
<1> SUFFICES ASSUME Init PROVE IInv
  OBVIOUS
<1>1. /\ sent = 0 /\ posting = FALSE /\ net = "none" /\ actions = << >> /\ events = << >>
      /\ g_call_status = "IDLE_CALL"
  BY DEF Init, RpcInit
<1>2. ~Starting /\ ~Started
  BY <1>1 DEF Starting, Started, Requested, Accepted
<1>3. TypeInv
  <2>1. actions \in Seq({"DIAL", "ACCEPT", "END_SINGLE"})
    BY <1>1
  <2>2. events \in Seq(Responses \cup Indications)
    BY <1>1
  <2> QED  BY <1>1, <2>1, <2>2 DEF TypeInv
<1>4. LastTells
  BY <1>1 DEF LastTells, Status
<1>5. OneStarts /\ NothingCrosses
  BY <1>1, <1>2 DEF OneStarts, NothingCrosses
<1> QED  BY <1>3, <1>4, <1>5 DEF IInv

\* Steps that only end a call, post, or ask for nothing new.
LEMMA IdleStep ==
    ASSUME IInv, UNCHANGED <<g_call_status, crossed, modem>>, posting' \in BOOLEAN,
           sent' \in Nat, sent' \in {sent, sent - 1}, m_msg'.func = m_msg.func
    PROVE  IInv'
<1>1. TypeInv' /\ (LastTells => LastTells')
  BY DEF IInv, TypeInv, LastTells, modem
<1>2. /\ \A f : Requested(f)' => Requested(f)
      /\ \A a : Accepted(a)' <=> Accepted(a)
  BY DEF Requested, Accepted, modem, IInv, TypeInv
<1>3. OneStarts => OneStarts'
  <2>1. OneStarts /\ Starting' => sent = 1 /\ ~Started'
    BY <1>2 DEF OneStarts, Starting, Started
  <2>2. Starting' => sent' > 0
    BY DEF Starting, Requested
  <2> QED  BY <2>1, <2>2 DEF OneStarts, modem
<1>4. NothingCrosses => NothingCrosses'
  BY <1>2 DEF NothingCrosses, modem
<1> QED  BY <1>1, <1>3, <1>4 DEF IInv

LEMMA AskStep ==
    ASSUME IInv, NEW f \in Functions, Ask(f)
    PROVE  IInv'
<1>1. /\ sent' = sent + 1 /\ m_msg'.func = f
      /\ UNCHANGED <<posting, g_call_status, net, actions, events>>
      /\ crossed' = (crossed \/ ~Due(f))
  BY DEF Ask, Call, Fill, modem
<1>2. TypeInv'
  BY <1>1 DEF IInv, TypeInv
<1>3. ASSUME ~crossed' PROVE LastTells' /\ OneStarts' /\ NothingCrosses'
  <2>1. ~crossed /\ Due(f) /\ LastTells /\ OneStarts /\ NothingCrosses
    BY <1>1, <1>3 DEF IInv
  <2>2. LastTells'
    BY <1>1, <2>1 DEF LastTells
  <2>3. CASE f \in {"voiceCall", "answerCall"}
    <3>1. Settled
      BY <2>1, <2>3 DEF Due
    <3>2. actions = << >> /\ sent = 0 /\ events = << >>
      BY <3>1 DEF Settled
    <3>3. ~Started'
      BY <1>1, <3>2 DEF Started, Accepted
    <3>4. sent' = 1
      BY <1>1, <3>2
    <3>5. OneStarts'
      BY <1>1, <3>2, <3>3, <3>4 DEF OneStarts
    <3>6. f = "voiceCall" => net = "none"
      BY <2>1 DEF Due
    <3>7. f = "answerCall" => net = "incoming"
      <4> SUFFICES ASSUME f = "answerCall" PROVE net = "incoming"
        OBVIOUS
      <4>1. g_call_status = "RECEIVINGCALL" /\ g_call_status = Status[net]
        BY <2>1, <3>2 DEF Due, LastTells
      <4> QED  BY <4>1 DEF Status, IInv, TypeInv
    <3>8. NothingCrosses'
      BY <1>1, <3>3, <3>6, <3>7 DEF NothingCrosses, Started, Requested
    <3> QED  BY <2>2, <3>5, <3>8
  <2>4. CASE f \notin {"voiceCall", "answerCall"}
    <3>1. ~Starting' /\ (Accepted("DIAL")' <=> Accepted("DIAL"))
          /\ (Accepted("ACCEPT")' <=> Accepted("ACCEPT"))
      BY <1>1, <2>4 DEF Starting, Requested, Accepted
    <3>2. OneStarts' /\ NothingCrosses'
      BY <1>1, <2>1, <2>4, <3>1 DEF OneStarts, NothingCrosses, Starting, Requested
    <3> QED  BY <2>2, <3>2
  <2> QED  BY <2>3, <2>4
<1> QED  BY <1>2, <1>3 DEF IInv

\* The request goes from the main thread to the modem.
LEMMA RequestStep ==
    ASSUME IInv, NEW f \in DOMAIN Action, Request(f)
    PROVE  IInv'
<1>1. /\ sent > 0 /\ sent' = sent - 1 /\ m_msg.func = f /\ m_msg' = m_msg /\ posting' = TRUE
      /\ actions' = Append(actions, Action[f])
      /\ UNCHANGED <<g_call_status, crossed, net, events>>
  BY DEF Request, Run, Returns, history
<1>2. /\ f \in {"voiceCall", "answerCall", "hangCall"}
      /\ Action[f] \in {"DIAL", "ACCEPT", "END_SINGLE"}
      /\ f = "voiceCall" <=> Action[f] = "DIAL"
      /\ f = "answerCall" <=> Action[f] = "ACCEPT"
  BY DEF Action
<1>3. /\ actions \in Seq({"DIAL", "ACCEPT", "END_SINGLE"})
      /\ actions' \in Seq({"DIAL", "ACCEPT", "END_SINGLE"})
      /\ DOMAIN actions' = 1 .. Len(actions) + 1 /\ DOMAIN actions = 1 .. Len(actions)
      /\ \A i \in DOMAIN actions : actions'[i] = actions[i]
      /\ actions'[Len(actions) + 1] = Action[f]
      /\ Len(actions) \in Nat
  BY <1>1, <1>2, AppendLemma DEF IInv, TypeInv
<1>4. TypeInv'
  BY <1>1, <1>3 DEF IInv, TypeInv
<1>5. ASSUME ~crossed PROVE LastTells' /\ OneStarts' /\ NothingCrosses'
  <2>1. LastTells /\ OneStarts /\ NothingCrosses
    BY <1>5 DEF IInv
  <2>2. LastTells'
    BY <1>1, <2>1 DEF LastTells
  <2>3. \A a : Accepted(a)' <=> Accepted(a) \/ a = Action[f]
    BY <1>3 DEF Accepted
  <2>4. CASE f = "hangCall"
    <3>1. ~Starting' /\ (Accepted("DIAL")' <=> Accepted("DIAL"))
          /\ (Accepted("ACCEPT")' <=> Accepted("ACCEPT"))
      BY <1>1, <1>2, <2>3, <2>4 DEF Starting, Requested
    <3>2. NothingCrosses'
      BY <1>1, <2>1, <2>4, <3>1 DEF NothingCrosses, Requested
    <3>3. OneStarts'
      <4>1. \A i \in DOMAIN actions' : actions'[i] \in {"DIAL", "ACCEPT"}
                                          => i \in DOMAIN actions /\ actions'[i] = actions[i]
        BY <1>2, <1>3, <2>4
      <4> QED  BY <2>1, <3>1, <4>1 DEF OneStarts
    <3> QED  BY <2>2, <3>2, <3>3
  <2>5. CASE f # "hangCall"
    <3>1. sent = 1 /\ ~Started
      BY <1>1, <1>2, <2>1, <2>5 DEF OneStarts, Starting, Requested
    <3>2. ~Starting' /\ sent' = 0
      BY <1>1, <3>1 DEF Starting, Requested
    <3>3. \A i \in DOMAIN actions' : actions'[i] \in {"DIAL", "ACCEPT"} => i = Len(actions) + 1
      BY <1>3, <3>1 DEF Started, Accepted
    <3>4. OneStarts'
      BY <3>2, <3>3 DEF OneStarts
    <3>5. NothingCrosses'
      BY <1>1, <1>2, <2>1, <2>3, <3>1, <3>2 DEF NothingCrosses, Requested, Started
    <3> QED  BY <2>2, <3>4, <3>5
  <2> QED  BY <2>4, <2>5
<1> QED  BY <1>1, <1>4, <1>5 DEF IInv

\* Both callbacks set the status by the first event.
LEMMA DeliverStep ==
    ASSUME IInv, events # << >>, events' = Tail(events), g_call_status' = Tells(Head(events)),
           UNCHANGED <<sent, m_msg, posting, net, actions, crossed>>
    PROVE  IInv'
<1>1. events \in Seq(Events)
  BY DEF IInv, TypeInv, Events
<1>2. /\ Tail(events) \in Seq(Events) /\ Head(events) = events[1]
      /\ Tail(events) # << >> => Tail(events)[Len(Tail(events))] = events[Len(events)]
      /\ Tail(events) = << >> => Len(events) = 1
  BY <1>1, TailLemma
<1>3. TypeInv'
  BY <1>2 DEF IInv, TypeInv, Events
<1>4. LastTells => LastTells'
  BY <1>2 DEF LastTells
<1>5. (OneStarts => OneStarts') /\ (NothingCrosses => NothingCrosses')
  BY DEF OneStarts, NothingCrosses, Starting, Started, Requested, Accepted
<1> QED  BY <1>3, <1>4, <1>5 DEF IInv

LEMMA CallbackStep == IInv /\ Callbacks => IInv'
<1>1. ASSUME IInv, Response PROVE IInv'
  BY <1>1, DeliverStep DEF Response, Event, Tells, history
<1>2. ASSUME IInv, Indication PROVE IInv'
  BY <1>2, DeliverStep, KindsLemma DEF Indication, Event, Tells, history
<1> QED  BY <1>1, <1>2 DEF Callbacks

\* The modem begins an action; what it reports last is what its call is then.
LEMMA BeginStep ==
    ASSUME IInv, actions # << >>, actions' = Tail(actions),
           UNCHANGED <<sent, m_msg, posting, g_call_status, crossed>>,
           net' \in {"none", "outgoing", "incoming", "talking"},
           events' \in Seq(Events), events' # << >>,
           ~crossed => Tells(events'[Len(events')]) = Status[net'],
           net' \in {net, "none"} \/ Head(actions) \in {"DIAL", "ACCEPT"}
    PROVE  IInv'
<1>1. actions \in Seq({"DIAL", "ACCEPT", "END_SINGLE"})
  BY DEF IInv, TypeInv
<1>2. /\ actions' \in Seq({"DIAL", "ACCEPT", "END_SINGLE"})
      /\ Head(actions) = actions[1] /\ 1 \in DOMAIN actions
      /\ DOMAIN actions' \subseteq Nat \ {0}
      /\ \A i \in DOMAIN actions' : i + 1 \in DOMAIN actions /\ actions'[i] = actions[i + 1]
  BY <1>1, TailLemma
<1>3. TypeInv'
  BY <1>2 DEF IInv, TypeInv, Events
<1>4. ASSUME ~crossed PROVE LastTells' /\ OneStarts' /\ NothingCrosses'
  <2>1. OneStarts /\ NothingCrosses
    BY <1>4 DEF IInv
  <2>2. LastTells'
    BY <1>4 DEF LastTells
  <2>3. \A a : Accepted(a)' => Accepted(a)
    BY <1>2 DEF Accepted
  <2>4. OneStarts'
    <3>1. ASSUME NEW i \in DOMAIN actions', NEW j \in DOMAIN actions',
                 actions'[i] \in {"DIAL", "ACCEPT"}, actions'[j] \in {"DIAL", "ACCEPT"}
          PROVE  i = j
      <4>1. i + 1 = j + 1
        BY <1>2, <2>1, <3>1 DEF OneStarts
      <4> QED  BY <1>2, <4>1
    <3>2. Starting' => sent' = 1 /\ ~Started'
      BY <2>1, <2>3 DEF OneStarts, Starting, Started, Requested
    <3> QED  BY <3>1, <3>2 DEF OneStarts
  <2>5. NothingCrosses'
    <3>1. CASE Head(actions) \in {"DIAL", "ACCEPT"}
      <4>1. Started
        BY <1>2, <3>1 DEF Started, Accepted
      <4>2. ~Starting'
        BY <2>1, <4>1 DEF OneStarts, Starting, Requested
      <4>3. \A i \in DOMAIN actions' : actions'[i] \notin {"DIAL", "ACCEPT"}
        <5> SUFFICES ASSUME NEW i \in DOMAIN actions', actions'[i] \in {"DIAL", "ACCEPT"}
                     PROVE  FALSE
          OBVIOUS
        <5>1. i + 1 = 1
          BY <1>2, <2>1, <3>1 DEF OneStarts
        <5> QED  BY <1>2, <5>1
      <4> QED  BY <4>2, <4>3 DEF NothingCrosses, Starting, Accepted
    <3>2. CASE net' \in {net, "none"}
      BY <2>1, <2>3, <3>2 DEF NothingCrosses, Requested
    <3> QED  BY <3>1, <3>2
  <2> QED  BY <2>2, <2>4, <2>5
<1> QED  BY <1>3, <1>4 DEF IInv

LEMMA ReportLemma ==
    ASSUME NEW q \in Seq(Events), NEW a \in Events, NEW b \in Events
    PROVE  /\ Append(q, a) \in Seq(Events) /\ Append(q, a) # << >>
           /\ Append(q, a)[Len(Append(q, a))] = a
           /\ q \o <<a, b>> \in Seq(Events) /\ q \o <<a, b>> # << >>
           /\ (q \o <<a, b>>)[Len(q \o <<a, b>>)] = b
<1>1. <<a, b>> \in Seq(Events) /\ Len(<<a, b>>) = 2 /\ <<a, b>>[2] = b
  OBVIOUS
<1>2. /\ q \o <<a, b>> \in Seq(Events) /\ Len(q \o <<a, b>>) = Len(q) + 2
      /\ (q \o <<a, b>>)[Len(q) + 2] = <<a, b>>[2]
  BY <1>1
<1>3. q \o <<a, b>> # << >>
  <2>1. Len(q \o <<a, b>>) # 0 /\ Len(<< >>) = 0
    BY <1>2
  <2> QED  BY <2>1, Zenon
<1> QED  BY <1>1, <1>2, <1>3, AppendLemma

LEMMA ModemStep ==
    ASSUME IInv, Modem, Faults \cap {"accept", "end"} = {}
    PROVE  IInv'
<1>1. UNCHANGED <<sent, m_msg, posting, g_call_status, crossed>>
  BY DEF Modem, rpc, local, history
<1>2. /\ events \in Seq(Events) /\ actions # << >> /\ actions' = Tail(actions)
      /\ net \in {"none", "outgoing", "incoming", "talking"}
      /\ Head(actions) = actions[1] /\ 1 \in DOMAIN actions
  <2>1. actions # << >> /\ actions' = Tail(actions)
    BY DEF Modem, Dial, Accept, Hang, Begun
  <2> QED  BY <2>1, TailLemma DEF IInv, TypeInv, Events
<1>3. CASE Dial
  <2>1. Head(actions) = "DIAL" /\ Accepted("DIAL")
    BY <1>2, <1>3 DEF Dial, Begun, Accepted
  <2>2. ~crossed => net = "none"
    BY <2>1 DEF IInv, NothingCrosses
  <2>3. Ok("DIAL") \in Events /\ Fail("DIAL") \in Events /\ Sign("OUTGOING") \in Events
    BY KindsLemma DEF Events
  <2>4. CASE net' = "outgoing" /\ events' = events \o <<Ok("DIAL"), Sign("OUTGOING")>>
    BY <1>1, <1>2, <2>1, <2>3, <2>4, ReportLemma, TellsLemma, BeginStep
  <2>5. CASE net' = "outgoing" /\ events' = events \o <<Sign("OUTGOING"), Ok("DIAL")>>
    BY <1>1, <1>2, <2>1, <2>3, <2>5, ReportLemma, TellsLemma, BeginStep
  <2>6. CASE net' = net /\ events' = Append(events, Fail("DIAL"))
    BY <1>1, <1>2, <2>1, <2>2, <2>3, <2>6, ReportLemma, TellsLemma, BeginStep
  <2> QED  BY <1>3, <2>4, <2>5, <2>6 DEF Dial
<1>4. CASE Accept
  <2>1. Head(actions) = "ACCEPT" /\ Accepted("ACCEPT")
    BY <1>2, <1>4 DEF Accept, Begun, Accepted
  <2>2. ~crossed => net \in {"incoming", "none"}
    BY <2>1 DEF IInv, NothingCrosses
  <2>3. Ok("ACCEPT") \in Events /\ Fail("ACCEPT") \in Events /\ Sign("CONNECTED") \in Events
    BY KindsLemma DEF Events
  <2>4. CASE net' = "talking" /\ events' = events \o <<Ok("ACCEPT"), Sign("CONNECTED")>>
    BY <1>1, <1>2, <2>1, <2>3, <2>4, ReportLemma, TellsLemma, BeginStep
  <2>5. CASE net # "incoming" /\ net' = net /\ events' = Append(events, Fail("ACCEPT"))
    BY <1>1, <1>2, <2>1, <2>2, <2>3, <2>5, ReportLemma, TellsLemma, BeginStep
  <2> QED  BY <1>4, <2>4, <2>5 DEF Accept, May
<1>5. CASE Hang
  <2>1. /\ Ok("END_SINGLE") \in Events /\ Fail("END_SINGLE") \in Events
        /\ Sign("ENDED") \in Events
    BY KindsLemma DEF Events
  <2>2. CASE net' = "none" /\ events' = events \o <<Ok("END_SINGLE"), Sign("ENDED")>>
    BY <1>1, <1>2, <2>1, <2>2, ReportLemma, TellsLemma, BeginStep
  <2>3. CASE net = "none" /\ net' = net /\ events' = Append(events, Fail("END_SINGLE"))
    BY <1>1, <1>2, <2>1, <2>3, ReportLemma, TellsLemma, BeginStep
  <2> QED  BY <1>5, <2>2, <2>3 DEF Hang, May
<1> QED  BY <1>3, <1>4, <1>5 DEF Modem

LEMMA PeerStep ==
    ASSUME IInv, Peer, UNCHANGED <<rpc, local, refused>>
    PROVE  IInv'
<1>1. UNCHANGED <<sent, m_msg, posting, g_call_status, actions>>
  BY DEF Peer, rpc, local
<1>2. PICK i \in {"CONNECTED", "ENDED", "INCOMING"} :
        /\ events' = Append(events, Sign(i))
        /\ net' = (IF i = "CONNECTED" THEN "talking" ELSE IF i = "ENDED" THEN "none"
                   ELSE "incoming")
        /\ i = "CONNECTED" => net = "outgoing" /\ crossed' = crossed
        /\ i = "ENDED" => crossed' = crossed
        /\ i = "INCOMING" => net = "none" /\ (~crossed' => ~crossed /\ Settled)
  BY DEF Peer
<1>3. Sign(i) \in Events /\ Tells(Sign(i)) = Status[net']
  BY <1>2, KindsLemma, TellsLemma DEF Events
<1>4. /\ events' \in Seq(Events) /\ events' # << >>
      /\ events'[Len(events')] = Sign(i)
  BY <1>2, <1>3, ReportLemma DEF IInv, TypeInv, Events
<1>5. TypeInv'
  BY <1>1, <1>2, <1>4 DEF IInv, TypeInv, Events
<1>6. LastTells'
  BY <1>3, <1>4 DEF LastTells
<1>7. ASSUME ~crossed' PROVE OneStarts' /\ NothingCrosses'
  <2>1. ~crossed /\ OneStarts /\ NothingCrosses
    BY <1>2, <1>7 DEF IInv
  <2>2. OneStarts'
    BY <1>1, <2>1 DEF OneStarts, Starting, Started, Requested, Accepted
  <2>3. /\ Requested("voiceCall")' \/ Accepted("DIAL")'
                <=> Requested("voiceCall") \/ Accepted("DIAL")
        /\ Requested("answerCall")' \/ Accepted("ACCEPT")'
                <=> Requested("answerCall") \/ Accepted("ACCEPT")
    BY <1>1 DEF Requested, Accepted
  <2>4. CASE i \in {"CONNECTED", "ENDED"}
    BY <1>2, <2>1, <2>2, <2>3, <2>4 DEF NothingCrosses
  <2>5. CASE i = "INCOMING"
    <3>1. sent = 0 /\ actions = << >>
      BY <1>2, <1>7, <2>5 DEF Settled
    <3>2. /\ ~(Requested("voiceCall") \/ Accepted("DIAL"))
          /\ ~(Requested("answerCall") \/ Accepted("ACCEPT"))
      BY <3>1 DEF Requested, Accepted
    <3> QED  BY <2>2, <2>3, <3>2 DEF NothingCrosses
  <2> QED  BY <2>2, <2>4, <2>5
<1> QED  BY <1>5, <1>6, <1>7 DEF IInv

LEMMA HandleSysevtStep == IInv /\ HandleSysevt => IInv'
<1>1. ASSUME IInv, NEW f \in Queries, RunQuery(f) PROVE IInv'
  <2>1. sent \in Nat
    BY <1>1 DEF IInv, TypeInv
  <2> QED  BY <1>1, <2>1, IdleStep DEF RunQuery, Run, Returns, history
<1>2. ASSUME IInv, NEW f \in DOMAIN Action, Refused(f) PROVE IInv'
  <2>1. sent \in Nat
    BY <1>2 DEF IInv, TypeInv
  <2>2. /\ sent > 0 /\ sent' = sent - 1 /\ m_msg' = m_msg /\ posting' = FALSE
        /\ UNCHANGED <<g_call_status, crossed, modem>>
    BY <1>2 DEF Refused, Run, Returns, local
  <2>3. sent' \in Nat
    BY <2>1, <2>2
  <2>4. m_msg'.func = m_msg.func
    BY <2>2, Zenon
  <2>5. posting' \in BOOLEAN
    BY <2>2
  <2> QED  BY <1>2, <2>2, <2>3, <2>4, <2>5, IdleStep
<1>3. ASSUME IInv, HangNothing PROVE IInv'
  <2>1. sent \in Nat
    BY <1>3 DEF IInv, TypeInv
  <2> QED  BY <1>3, <2>1, IdleStep DEF HangNothing, Run, Returns, local, history
<1>4. ASSUME IInv, PostResult, UNCHANGED <<local, history, modem>> PROVE IInv'
  <2>1. sent \in Nat
    BY <1>4 DEF IInv, TypeInv
  <2> QED  BY <1>4, <2>1, IdleStep DEF PostResult, local, history
<1> QED  BY <1>1, <1>2, <1>3, <1>4, RequestStep DEF HandleSysevt

LEMMA NextIInv ==
    ASSUME Faults \cap {"accept", "end"} = {}
    PROVE  IInv /\ [Next]_vars => IInv'
<1> SUFFICES ASSUME IInv, [Next]_vars PROVE IInv'
  OBVIOUS
<1>0. sent \in Nat /\ posting \in BOOLEAN
  BY DEF IInv, TypeInv
<1>1. CASE Sketch
  BY <1>1, AskStep DEF Sketch
<1>2. CASE Returned
  BY <1>0, <1>2, IdleStep DEF Returned, Return, local, history
<1>3. CASE HandleSysevt \/ Callbacks \/ Modem \/ (Peer /\ UNCHANGED <<rpc, local, refused>>)
  BY <1>3, HandleSysevtStep, CallbackStep, ModemStep, PeerStep
<1>4. CASE UNCHANGED vars
  BY <1>0, <1>4, IdleStep DEF vars, rpc, local, history
<1> QED  BY <1>1, <1>2, <1>3, <1>4 DEF Next

----------------------------------------------------------------------------
(* The theorem *)

\* VoiceCall.cpp:82-148: g_call_status is the modem's call whenever nothing is under way,
\* however responses and indications are interleaved and whatever calls return too early,
\* as long as the modem fails no answer and no hanging up of a call that is there.
THEOREM StatusIsTheCall ==
    ASSUME Faults \cap {"accept", "end"} = {}
    PROVE  Spec => []StatusFollows
<1>1. IInv => StatusFollows
  BY DEF IInv, LastTells, StatusFollows
<1>2. IInv /\ [Next]_vars => IInv'
  BY NextIInv
<1> QED  BY <1>1, <1>2, InitIInv, PTL DEF Spec

----------------------------------------------------------------------------
(* Short messages *)

\* With no burst at most one message is being read, the one that came in last, and none
\* while the sketch has not taken the one before.
ReadInv ==
    /\ reads = << >> \/ (reads = <<msgRead>> /\ msgRead \in Ids)
    /\ msgNewFlag => reads = << >> /\ buf = msgRead

\* available() copies the globals one by one, and they stay what they are meanwhile.
TakenInv ==
    /\ taking # "none" => msgNewFlag /\ call = None
    /\ taking \in {"buf", "flag"} => _msgId = msgRead
    /\ taking = "flag" => _msgContent = buf
    /\ taking = "none" /\ _msgId # NoId => _msgContent = _msgId

\* A message the sketch has not been given is being read, announced or being taken.
UnseenInv ==
    /\ DOMAIN box = Ids
    /\ \A id \in Ids : box[id] = "unseen" =>
        \/ reads = <<id>>
        \/ msgNewFlag /\ buf = id /\ taking # "flag"

MessageInv == ReadInv /\ TakenInv /\ UnseenInv

LEMMA OneMessageLemma ==
    ASSUME NEW x
    PROVE  /\ <<x>> # << >> /\ Head(<<x>>) = x /\ Tail(<<x>>) = << >>
           /\ Append(<< >>, x) = <<x>>
           /\ \A y : <<x>> = <<y>> => x = y
  OBVIOUS

LEMMA NextMessageInv ==
    ASSUME ~Bursts, MessageInv, [SMS!Next]_(SMS!vars)
    PROVE  MessageInv'
<1> USE DEF MessageInv, ReadInv, TakenInv, UnseenInv
<1>1. CASE SMS!Ready \/ SMS!EndSMS \/ SMS!Flush
  BY <1>1 DEF SMS!Ready, SMS!EndSMS, SMS!Flush, SMS!Outside, SMS!globals, SMS!current, SMS!service
<1>2. CASE SMS!Returned
  BY <1>2 DEF SMS!Returned, SMS!Return, SMS!globals, SMS!service
<1>3. CASE SMS!TakeStart
  BY <1>3 DEF SMS!TakeStart, SMS!Outside, SMS!rpc, SMS!globals, SMS!service
<1>4. CASE SMS!TakeId
  BY <1>4 DEF SMS!TakeId, SMS!rpc, SMS!globals, SMS!service
<1>5. CASE SMS!TakeBuf
  BY <1>5 DEF SMS!TakeBuf, SMS!rpc, SMS!globals
<1>6. CASE SMS!TakeFlag
  BY <1>6 DEF SMS!TakeFlag, SMS!rpc, SMS!service
<1>7. CASE SMS!HandleSysevt
  <2>1. UNCHANGED <<call, msgRead, buf, msgNewFlag, _msgId, _msgContent, taking, box, reads>>
    BY <1>7 DEF SMS!HandleSysevt, SMS!RunReady, SMS!Send, SMS!SendRefused, SMS!Delete,
       SMS!PostResult, SMS!Run, SMS!globals, SMS!current, SMS!service
  <2> QED  BY <2>1
<1>8. CASE SMS!SendCallback
  BY <1>8 DEF SMS!SendCallback, SMS!Event, SMS!globals, SMS!current
<1>9. CASE SMS!ReadCallback
  <2>1. /\ reads # << >> /\ reads' = Tail(reads)
        /\ UNCHANGED <<call, msgRead, _msgId, _msgContent, taking>>
    BY <1>9 DEF SMS!ReadCallback, SMS!Event, SMS!current
  <2>2. reads = <<msgRead>> /\ Head(reads) = msgRead /\ reads' = << >> /\ ~msgNewFlag /\ taking = "none"
    BY <2>1, OneMessageLemma
  <2>3. CASE buf' = Head(reads) /\ msgNewFlag' = TRUE /\ UNCHANGED box
    BY <2>1, <2>2, <2>3, OneMessageLemma
  <2>4. CASE /\ box' = [box EXCEPT ![Head(reads)] = IF @ = "unseen" THEN "unreadable" ELSE @]
             /\ UNCHANGED <<buf, msgNewFlag>>
    BY <2>1, <2>2, <2>4, OneMessageLemma
  <2> QED  BY <1>9, <2>3, <2>4 DEF SMS!ReadCallback
<1>10. CASE SMS!DeleteCallback
  BY <1>10 DEF SMS!DeleteCallback, SMS!Event, SMS!globals, SMS!current
<1>11. ASSUME NEW id \in Ids, SMS!Arrive(id) PROVE MessageInv'
  <2>1. /\ reads = << >> /\ ~msgNewFlag /\ taking = "none" /\ msgRead' = id
        /\ UNCHANGED <<call, buf, msgNewFlag, _msgId, _msgContent, taking>>
    BY <1>11 DEF SMS!Arrive, SMS!Event, SMS!current
  <2>2. CASE reads' = Append(reads, id) /\ box' = [box EXCEPT ![id] = "unseen"]
    <3>1. reads' = <<id>>
      BY <2>1, <2>2, OneMessageLemma
    <3> QED  BY <2>1, <2>2, <3>1
  <2>3. CASE box' = [box EXCEPT ![id] = "unreadable"] /\ UNCHANGED reads
    BY <2>1, <2>3
  <2> QED  BY <1>11, <2>2, <2>3 DEF SMS!Arrive
<1>12. CASE UNCHANGED SMS!vars
  BY <1>12 DEF SMS!vars, SMS!rpc, SMS!globals, SMS!current, SMS!service
<1> QED
  BY <1>1, <1>2, <1>3, <1>4, <1>5, <1>6, <1>7, <1>8, <1>9, <1>10, <1>11, <1>12
     DEF SMS!Next, SMS!Sketch, SMS!Available, SMS!Callbacks

LEMMA MessageInvariance ==
    ASSUME ~Bursts
    PROVE  SMS!Spec => []MessageInv
<1>1. SMS!Init => MessageInv
  BY DEF SMS!Init, SMS!RpcInit, MessageInv, ReadInv, TakenInv, UnseenInv
<1>2. MessageInv /\ [SMS!Next]_(SMS!vars) => MessageInv'
  BY NextMessageInv
<1> QED  BY <1>1, <1>2, PTL DEF SMS!Spec

\* LSMS.cpp:109-129: the text available() hands out belongs to the id that flush() will
\* delete, though id and text are copied from globals the main thread writes, in steps.
THEOREM DeletesTheTaken ==
    ASSUME ~Bursts
    PROVE  SMS!Spec => []CurrentMatches
<1>1. MessageInv => CurrentMatches
  BY DEF MessageInv, TakenInv, CurrentMatches
<1> QED  BY MessageInvariance, <1>1, PTL

\* LSMS.cpp:249-373: with no new message and none being read, the sketch has been given
\* every message that came in and could be read, whatever reads fail.
THEOREM EveryMessageTold ==
    ASSUME ~Bursts
    PROVE  SMS!Spec => []NoneForgotten
<1>1. MessageInv => NoneForgotten
  BY DEF MessageInv, ReadInv, UnseenInv, NoneForgotten, Outside
<1> QED  BY MessageInvariance, <1>1, PTL
=============================================================================
