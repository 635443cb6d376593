----------------------------- MODULE LVoiceCall -----------------------------
(***************************************************************************)
(* LVoiceCall: voice calls (libraries/LGSM/LVoiceCall.cpp on the sketch    *)
(* thread, libraries/LGSM/utility/VoiceCall.cpp on the main thread).  The  *)
(* functions that start an action at the modem return true, so that        *)
(* __handle_sysevt posts, and the action's callback posts again.           *)
(*                                                                         *)
(* Numbers and call ids are left out: there is at most one call.           *)
(***************************************************************************)
EXTENDS SketchCall, Sequences

CONSTANT Faults   \* what may fail: "refuse", "dial", "accept", "end"

VARIABLES
    g_call_status,
    told,      \* the function has stored its result in the caller's frame
    refused,   \* history: the modem did not take what the last call asked for
    crossed,   \* history: the sketch and the other side have acted at the same time
    net,       \* the modem's call
    actions,   \* actions the modem has accepted and not begun
    events     \* indications and action responses not yet delivered

local == <<g_call_status, told>>
history == <<refused, crossed>>
modem == <<net, actions, events>>
vars == <<rpc, local, history, modem>>

Queries == {"ready", "getVoiceCallStatus", "retrieveCallingNumber"}
Functions == Queries \cup {"voiceCall", "answerCall", "hangCall"}
Action == [voiceCall |-> "DIAL", answerCall |-> "ACCEPT", hangCall |-> "END_SINGLE"]

Responses == [response : {"DIAL", "ACCEPT", "END_SINGLE"}, ok : BOOLEAN]
Indications == [indication : {"INCOMING", "OUTGOING", "CONNECTED", "ENDED"}]

\* How many actions and events may be under way at once, a bound of the model.
MaxEvents == 3

TypeOK ==
    /\ RpcType(Functions)
    /\ g_call_status \in {"IDLE_CALL", "CALLING", "RECEIVINGCALL", "TALKING"}
    /\ {told, refused, crossed} \subseteq BOOLEAN
    /\ net \in {"none", "outgoing", "incoming", "talking"}
    /\ actions \in Seq({"DIAL", "ACCEPT", "END_SINGLE"})
    /\ events \in Seq(Responses \cup Indications)
    /\ Len(actions) <= MaxEvents

Init ==
    /\ RpcInit
    /\ g_call_status = "IDLE_CALL"
    /\ told = FALSE /\ refused = FALSE /\ crossed = FALSE
    /\ net = "none" /\ actions = << >> /\ events = << >>

May(fault) == fault \in Faults

----------------------------------------------------------------------------
(* The sketch thread: LVoiceCall.cpp *)

\* Nothing is under way, or being asked for, at the modem.
Settled == actions = << >> /\ events = << >> /\ sent = 0 /\ ~posting

\* What does not cross anything: the sketch dials when there is no call and it answers when one comes in.
Due(f) ==
    CASE f = "voiceCall" -> Settled /\ net = "none"
      [] f = "answerCall" -> Settled /\ g_call_status = "RECEIVINGCALL"
      [] OTHER -> TRUE

Ask(f) ==
    /\ Call(f)
    /\ sent + Len(actions) + Len(events) < MaxEvents
    /\ crossed' = (crossed \/ ~Due(f))
    /\ told' = FALSE /\ refused' = FALSE
    /\ UNCHANGED <<g_call_status, modem>>

Returned == Return /\ UNCHANGED <<local, history, modem>>

----------------------------------------------------------------------------
(* The main thread: the functions of VoiceCall.cpp *)

\* The result is stored in the caller's frame, which may be gone.
Tell == told' = (told \/ m_msg.userdata = "caller")

RunQuery(f) ==
    /\ Run(f)
    /\ Tell
    /\ Returns(TRUE, FALSE)
    /\ UNCHANGED <<g_call_status, history, modem>>

\* Mutated form of Request: a false return, for a request the modem took.
RequestWaits(f) ==
    /\ Run(f)
    /\ f = "hangCall" => g_call_status # "IDLE_CALL"
    /\ actions' = Append(actions, Action[f])
    /\ IF f = "answerCall" THEN UNCHANGED told ELSE Tell
    /\ Returns(FALSE, FALSE)
    /\ UNCHANGED <<g_call_status, history, net, events>>

\* vm_gsm_tel_call_actions() takes the request.  callanswerCall stores no result.
Request(f) ==
    /\ Run(f)
    /\ f = "hangCall" => g_call_status # "IDLE_CALL"
    /\ actions' = Append(actions, Action[f])
    /\ IF f = "answerCall" THEN UNCHANGED told ELSE Tell
    /\ Returns(TRUE, FALSE)
    /\ UNCHANGED <<g_call_status, history, net, events>>

\* It does not; the function returns false and nobody posts.
Refused(f) ==
    /\ Run(f)
    /\ f = "hangCall" => g_call_status # "IDLE_CALL"
    /\ May("refuse")
    /\ Returns(FALSE, FALSE)
    /\ refused' = TRUE
    /\ UNCHANGED <<local, crossed, modem>>

\* callhangCall finds no call, and returns before it stores a result.
HangNothing ==
    /\ Run("hangCall")
    /\ g_call_status = "IDLE_CALL"
    /\ Returns(TRUE, FALSE)
    /\ UNCHANGED <<local, history, modem>>

----------------------------------------------------------------------------
(* The main thread: the callbacks.  A response posts unless DIAL or ACCEPT    *)
(* failed.                                                                    *)

AfterResponse(e) ==
    CASE e.response = "DIAL" /\ e.ok -> "CALLING"
      [] e.response = "ACCEPT" /\ e.ok -> "TALKING"
      [] OTHER -> "IDLE_CALL"

AfterIndication == [INCOMING |-> "RECEIVINGCALL", OUTGOING |-> "CALLING",
                    CONNECTED |-> "TALKING", ENDED |-> "IDLE_CALL"]

Response ==
    /\ events # << >> /\ Head(events) \in Responses
    /\ LET e == Head(events) IN
          /\ g_call_status' = AfterResponse(e)
          /\ Event(e.ok \/ e.response = "END_SINGLE")
    /\ events' = Tail(events)
    /\ UNCHANGED <<told, history, net, actions>>

\* Mutated form of Indication: the end of a call by the other side goes unnoticed.
IndicationOfStart ==
    /\ events # << >> /\ Head(events) \in Indications
    /\ g_call_status' = IF Head(events).indication = "ENDED" THEN g_call_status
                        ELSE AfterIndication[Head(events).indication]
    /\ Event(FALSE)
    /\ events' = Tail(events)
    /\ UNCHANGED <<told, history, net, actions>>

Indication ==
    /\ events # << >> /\ Head(events) \in Indications
    /\ g_call_status' = AfterIndication[Head(events).indication]
    /\ Event(FALSE)
    /\ events' = Tail(events)
    /\ UNCHANGED <<told, history, net, actions>>

----------------------------------------------------------------------------
(* The modem *)

Ok(a) == [response |-> a, ok |-> TRUE]
Fail(a) == [response |-> a, ok |-> FALSE]
Sign(i) == [indication |-> i]

Begun(a) == actions # << >> /\ Head(actions) = a /\ actions' = Tail(actions)

Dial ==
    /\ Begun("DIAL")
    /\ \/ /\ net = "none" /\ net' = "outgoing"
          /\ \/ events' = events \o <<Ok("DIAL"), Sign("OUTGOING")>>
             \/ events' = events \o <<Sign("OUTGOING"), Ok("DIAL")>>
       \/ /\ net # "none" \/ May("dial")
          /\ events' = Append(events, Fail("DIAL"))
          /\ UNCHANGED net

Accept ==
    /\ Begun("ACCEPT")
    /\ \/ /\ net = "incoming" /\ net' = "talking"
          /\ events' = events \o <<Ok("ACCEPT"), Sign("CONNECTED")>>
       \/ /\ net # "incoming" \/ May("accept")
          /\ events' = Append(events, Fail("ACCEPT"))
          /\ UNCHANGED net

Hang ==
    /\ Begun("END_SINGLE")
    /\ \/ /\ net # "none" /\ net' = "none"
          /\ events' = events \o <<Ok("END_SINGLE"), Sign("ENDED")>>
       \/ /\ net = "none" \/ May("end")
          /\ events' = Append(events, Fail("END_SINGLE"))
          /\ UNCHANGED net

\* The other side answers, hangs up, or calls.
Peer ==
    /\ Len(actions) + Len(events) < MaxEvents
    /\ \/ /\ net = "outgoing" /\ net' = "talking"
          /\ events' = Append(events, Sign("CONNECTED"))
          /\ UNCHANGED crossed
       \/ /\ net # "none" /\ net' = "none"
          /\ events' = Append(events, Sign("ENDED"))
          /\ UNCHANGED crossed
       \/ /\ net = "none" /\ net' = "incoming"
          /\ events' = Append(events, Sign("INCOMING"))
          /\ crossed' = (crossed \/ ~Settled \/ call = "voiceCall")
    /\ UNCHANGED actions

----------------------------------------------------------------------------

Sketch == \E f \in Functions : Ask(f)

HandleSysevt ==
    \/ \E f \in Queries : RunQuery(f)
    \/ \E f \in DOMAIN Action : Request(f) \/ Refused(f)
    \/ HangNothing
    \/ PostResult /\ UNCHANGED <<local, history, modem>>

Callbacks == Response \/ Indication

Modem == (Dial \/ Accept \/ Hang) /\ UNCHANGED <<rpc, local, history>>

Next ==
    \/ Sketch \/ Returned \/ HandleSysevt \/ Callbacks \/ Modem
    \/ Peer /\ UNCHANGED <<rpc, local, refused>>

Spec == Init /\ [][Next]_vars

\* The sketch thread goes on once it is woken, the main thread serves messages and
\* events, and the modem works on what it has accepted.
FairSpec ==
    /\ Spec
    /\ WF_vars(Returned)
    /\ WF_vars(HandleSysevt)
    /\ WF_vars(Callbacks)
    /\ WF_vars(Modem)

----------------------------------------------------------------------------
(* Properties *)

Status == [none |-> "IDLE_CALL", outgoing |-> "CALLING",
           incoming |-> "RECEIVINGCALL", talking |-> "TALKING"]

\* g_call_status is the state of the modem's call whenever nothing is under way,
\* in whatever order responses and indications came, unless the sketch and the
\* other side have acted at the same time.
StatusFollows ==
    ~crossed /\ actions = << >> /\ events = << >> => g_call_status = Status[net]

\* A call to the main thread returns, unless the modem did not take its request:
\* nothing else can keep it, neither a failed action nor the other side.
CallsReturn == (call # None) ~> (call = None \/ refused)

\* LGSM.h:156 of getVoiceCallStatus(): it returns one of four states, so a state
\* has been stored when it returns.
StatusTold == [][call = "getVoiceCallStatus" /\ call' = None => told]_vars

\* LGSM.h:176 of hangCall(): it hangs up "during incoming rings".
HangsUpRinging ==
    [][HangNothing => net # "incoming" \/ events # << >>]_vars
=============================================================================
