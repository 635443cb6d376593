----------------------------- MODULE LGATTServer -----------------------------
(***************************************************************************)
(* LGATTServer and its services (libraries/LGATT/LGATTServer.cpp and, on   *)
(* the main thread, libraries/LGATT/utility/GATTServer.cpp).  begin()      *)
(* switches the chip on and then begins each service: a chain of requests, *)
(* each made by the callback of the one before, declares the profile item  *)
(* by item.  Afterwards the stack's events are queued for handleEvents().  *)
(*                                                                         *)
(* The server and every service are objects with a mutex and a signal of   *)
(* their own; the queue is guarded by the server's.                        *)
(***************************************************************************)
EXTENDS SketchCall, BTAdapter, LGATTQueue, FiniteSets, SequencesExt

CONSTANTS Server,      \* the server object
          NService,    \* how many services begin() is given
          Profiles,    \* the declarations a service may have: sequences of types
          Asked        \* what clients do: "CONNECTION", "READ", "WRITE"

Services == 1 .. NService

\* The server is no service, and a service is declared before its items.
ASSUME ServerAssumption == NService \in Nat /\ Server \notin Services

ASSUME ProfileAssumption ==
    /\ Profiles \subseteq Seq({"SERVICE", "CHARACTERISTIC", "DESCRIPTOR"}) \ {<< >>}
    /\ \A p \in Profiles : \A i \in DOMAIN p : p[i] = "SERVICE" <=> i = 1

ASSUME EventAssumption == Events = ({"CHAR_ADDED", "DESC_ADDED"} \cup Asked) \X Services

VARIABLES
    entering,     \* the event for which rEnQ() wants the server's mutex
    _hdl_btcm,    \* the connection manager's handle is open
    _result,      \* per object: the result of its last call, as far as the call stores one
    begun,        \* in begin(): how many services have been begun; -1 outside
    _gatts_service,   \* the services the callbacks know
    profile, trigged, \* per service: its declarations, and which were made
    declared,     \* history: per service, the types it declared, in order
    pending,      \* per service: the request the stack owes an answer to
    listening,    \* the services whose begin() worked
    stray,        \* the server's signal is set and the sketch is not in a call of the server
    unanswered,   \* history: the code gave up a call without an answer to come
    again,        \* history: begin() or end() of a server with services was called
    overtaken     \* history: begin() ran while an ACTIVATE that it had not asked for was under way

registry == <<_gatts_service, profile, trigged, declared, pending, listening>>
local == <<_hdl_btcm, _result, begun, stray>>
history == <<unanswered, again, overtaken>>
vars == <<rpc, adapter, queue_vars, entering, local, registry, history>>

Functions == {"begin", "end"} \X ({Server} \cup Services) \cup {"send"} \X Services
ASSUME NoneAssumption == None \notin Functions

Requests == {"register", "service", "characteristic", "descriptor", "start", "listen"}

TypeOK ==
    /\ RpcType(Functions)
    /\ AdapterType
    /\ QueueType
    /\ entering \in Events \cup {NoEvent}
    /\ {_hdl_btcm, stray, unanswered, again, overtaken} \subseteq BOOLEAN
    /\ _result \in [{Server} \cup Services -> BOOLEAN]
    /\ begun \in -1 .. NService
    /\ {_gatts_service, listening} \subseteq SUBSET Services
    /\ profile \in [Services -> Profiles]
    /\ \A s \in Services : trigged[s] \subseteq DOMAIN profile[s]
    /\ pending \in [Services -> Requests \cup {"none"}]

Init ==
    /\ RpcInit /\ AdapterInit /\ QueueInit
    /\ entering = NoEvent
    /\ _hdl_btcm = FALSE
    /\ _result = [o \in {Server} \cup Services |-> FALSE]
    /\ begun = -1
    /\ _gatts_service = {} /\ listening = {}
    /\ profile \in [Services -> Profiles]
    /\ trigged = [s \in Services |-> {}]
    /\ declared = [s \in Services |-> << >>]
    /\ pending = [s \in Services |-> "none"]
    /\ stray = FALSE /\ unanswered = FALSE /\ again = FALSE /\ overtaken = FALSE

----------------------------------------------------------------------------
(* The sketch thread: LGATTServer.cpp *)

\* A second begin() or an end() is followed to its end and no further.
Outside == call = None /\ ~again

\* begin() and end() of the server, whose signal may have been posted meanwhile.
CallServer(f) ==
    /\ Outside /\ handling = "no" /\ begun = -1
    /\ Fill(<<f, Server>>)
    /\ signal' = stray /\ stray' = FALSE
    /\ begun' = IF f = "begin" THEN 0 ELSE begun
    /\ again' = (again \/ _gatts_service # {})
    /\ UNCHANGED <<adapter, queue_vars, entering, _hdl_btcm, _result, registry, unanswered, overtaken>>

\* begin() of the next service, or the end of begin(): the result of a service is
\* ignored.  onLoadService() may return NULL.
BeginService ==
    /\ Outside /\ begun \in 0 .. NService - 1
    /\ LET s == begun + 1 IN
       /\ _gatts_service' = _gatts_service \cup {s}
       /\ \/ Call(<<"begin", s>>) /\ UNCHANGED _result
          \/ /\ _result' = [_result EXCEPT ![s] = FALSE]
             /\ UNCHANGED rpc
    /\ begun' = begun + 1
    /\ UNCHANGED <<adapter, queue_vars, entering, _hdl_btcm, stray, profile, trigged, declared,
                   pending, listening, history>>

BeginReturns ==
    /\ Outside /\ begun = NService
    /\ begun' = -1
    /\ UNCHANGED <<rpc, adapter, queue_vars, entering, _hdl_btcm, _result, stray, registry, history>>

\* A service's callback answers, inside handleEvents(); or the sketch notifies.
Send(s) ==
    /\ Outside /\ begun = -1 /\ s \in listening
    /\ \/ handling = "dispatch" /\ node = <<"READ", s>>
       \/ handling = "no"
    /\ Call(<<"send", s>>)
    /\ UNCHANGED <<adapter, queue_vars, entering, local, registry, history>>

EndService(s) ==
    /\ Outside /\ handling = "no" /\ begun = -1 /\ s \in listening
    /\ Call(<<"end", s>>)
    /\ UNCHANGED <<adapter, queue_vars, entering, local, registry, history>>

Returned ==
    /\ Return
    /\ UNCHANGED <<adapter, queue_vars, entering, local, registry, history>>

\* handleEvents() makes no remote call of its own; its accesses to the queue find
\* the mutex free, since the sketch is not in a call.
Handle ==
    /\ Outside /\ begun = -1
    /\ HandleEvents
    /\ UNCHANGED <<rpc, adapter, entering, local, registry, history>>

Handling ==
    /\ Outside
    /\ FrQ \/ FrQEmpty \/ Dispatched \/ DeQ
    /\ UNCHANGED <<rpc, adapter, entering, local, registry, history>>

----------------------------------------------------------------------------
(* The main thread: the functions of GATTServer.cpp *)

\* Mutated form of Mutex: the services share the server's mutex.
MutexShared(o) == Server

\* The object whose mutex remoteCall locks for a call of o.
Mutex(o) == o

\* The sketch holds the server's mutex.
Locked == call # None /\ Mutex(call[2]) = Server

\* The main thread is in a callback that wants the mutex of the queue.
Busy == entering # NoEvent

Answer(o, r) == _result' = [_result EXCEPT ![o] = r]

Overtakes == overtaken' = (overtaken \/ "ACTIVATE" \in ToSet(cmq))

\* The chip is on.  Its ACTIVATE may be under way still, and will be listened to.
ServerReady ==
    /\ Run(<<"begin", Server>>)
    /\ power = "ON"
    /\ _hdl_btcm' \in {TRUE} \cup (IF May("cm_init") THEN {_hdl_btcm} ELSE {})
    /\ Answer(Server, TRUE)
    /\ Overtakes
    /\ Returns(TRUE, FALSE)
    /\ UNCHANGED <<power, unanswered>>

\* Mutated form of ServerWaits: it returns true while the chip is being switched on.
ServerWaitsReturns ==
    /\ Run(<<"begin", Server>>)
    /\ power # "ON"
    /\ _hdl_btcm' = TRUE /\ UNCHANGED _result
    /\ SwitchOn \/ SwitchOnFails
    /\ Overtakes
    /\ Returns(TRUE, FALSE)
    /\ UNCHANGED unanswered

\* It is not: ACTIVATE will answer, if it comes and is listened to.
ServerWaits ==
    /\ Run(<<"begin", Server>>)
    /\ power # "ON"
    /\ \/ _hdl_btcm' = TRUE /\ UNCHANGED _result
       \/ May("cm_init") /\ ~_hdl_btcm /\ _hdl_btcm' = FALSE /\ Answer(Server, FALSE)
    /\ \/ SwitchOn
       \/ SwitchOnFails
    /\ unanswered' = (unanswered \/ ~_hdl_btcm' \/ power' # "SWITCHING_ON")
    /\ Overtakes
    /\ Returns(FALSE, FALSE)

\* Only when the chip is off already does the call return; the handle is closed
\* before the event can come.
ServerEnds ==
    /\ Run(<<"end", Server>>)
    /\ IF power = "OFF"
       THEN /\ Answer(Server, TRUE) /\ Returns(TRUE, FALSE)
            /\ UNCHANGED <<power, _hdl_btcm, unanswered>>
       ELSE /\ SwitchOff \/ SwitchOffFails
            /\ _hdl_btcm' = FALSE
            /\ unanswered' = TRUE
            /\ Returns(FALSE, FALSE)
            /\ UNCHANGED _result
    /\ UNCHANGED overtaken

ServiceRefused(s) ==
    /\ Run(<<"begin", s>>) /\ May("register")
    /\ Answer(s, FALSE)
    /\ Returns(TRUE, FALSE)
    /\ UNCHANGED <<power, _hdl_btcm, pending, unanswered>>

ServiceRegisters(s) ==
    /\ Run(<<"begin", s>>)
    /\ pending' = [pending EXCEPT ![s] = "register"]
    /\ Returns(FALSE, FALSE)
    /\ UNCHANGED <<power, _hdl_btcm, _result, unanswered>>

\* Whether vm_bt_gatt_server_send_indication() or _response() fails or not.
ServiceSends(s) ==
    /\ Run(<<"send", s>>)
    /\ Answer(s, TRUE)
    /\ Returns(TRUE, FALSE)
    /\ UNCHANGED <<power, _hdl_btcm, pending, unanswered>>

\* rEnd() does nothing and returns false.
ServiceEnds(s) ==
    /\ Run(<<"end", s>>)
    /\ Returns(FALSE, FALSE)
    /\ unanswered' = TRUE
    /\ UNCHANGED <<power, _hdl_btcm, _result, pending>>

----------------------------------------------------------------------------
(* The main thread: events *)

\* addDeclaration: the first item not yet made, if it is of the type asked for.
Untrigged(s) == DOMAIN profile[s] \ trigged[s]
First(s) == CHOOSE i \in Untrigged(s) : \A j \in Untrigged(s) : i <= j
NextType(s) == IF Untrigged(s) = {} THEN "END" ELSE profile[s][First(s)]

\* Mutated form of AddDeclaration: the item is not marked.
AddDeclarationUnmarked(s, type) ==
    /\ declared' = [declared EXCEPT ![s] = Append(@, type)]
    /\ Len(declared[s]) < 2 * Len(profile[s])
    /\ UNCHANGED trigged

AddDeclaration(s, type) ==
    /\ NextType(s) = type
    /\ trigged' = [trigged EXCEPT ![s] = @ \cup {First(s)}]
    /\ declared' = [declared EXCEPT ![s] = Append(@, type)]

Owes(s, request) == pending' = [pending EXCEPT ![s] = request]

Enters(e) == entering' = e

\* The next characteristic or descriptor, or the start of the service: after a
\* characteristic or a descriptor.
Continue(s) ==
    \/ AddDeclaration(s, "CHARACTERISTIC") /\ Owes(s, "characteristic")
    \/ AddDeclaration(s, "DESCRIPTOR") /\ Owes(s, "descriptor")
    \/ NextType(s) = "END" /\ Owes(s, "start") /\ UNCHANGED <<trigged, declared>>

Registered(s) ==
    /\ pending[s] = "register"
    /\ AddDeclaration(s, "SERVICE") /\ Owes(s, "service")
    /\ Event(FALSE)
    /\ UNCHANGED <<entering, _result, listening, unanswered>>

\* Only a characteristic may follow; otherwise the chain ends here.
ServiceAdded(s) ==
    /\ pending[s] = "service"
    /\ \/ AddDeclaration(s, "CHARACTERISTIC") /\ Owes(s, "characteristic") /\ UNCHANGED unanswered
       \/ /\ NextType(s) # "CHARACTERISTIC"
          /\ Owes(s, "none") /\ unanswered' = TRUE
          /\ UNCHANGED <<trigged, declared>>
    /\ Event(FALSE)
    /\ UNCHANGED <<entering, _result, listening>>

AttributeAdded(s) ==
    /\ pending[s] \in {"characteristic", "descriptor"}
    /\ Enters(<<IF pending[s] = "characteristic" THEN "CHAR_ADDED" ELSE "DESC_ADDED", s>>)
    /\ Continue(s)
    /\ Event(FALSE)
    /\ UNCHANGED <<_result, listening, unanswered>>

Started(s) ==
    /\ pending[s] = "start"
    /\ Owes(s, "listen")
    /\ Event(FALSE)
    /\ UNCHANGED <<entering, _result, trigged, declared, listening, unanswered>>

Listens(s, ok) ==
    /\ pending[s] = "listen"
    /\ Owes(s, "none")
    /\ listening' = IF ok THEN listening \cup {s} ELSE listening
    /\ Answer(s, ok)
    /\ Event(TRUE)
    /\ UNCHANGED <<entering, trigged, declared, unanswered>>

\* Mutated form of RequestFails: the callback of a service that could not be added
\* says nothing either.
RequestFailsSilent(s) ==
    /\ pending[s] # "none" /\ May(pending[s])
    /\ Owes(s, "none")
    /\ pending[s] = "register" => Answer(s, FALSE)
    /\ pending[s] # "register" => UNCHANGED _result
    /\ Event(pending[s] = "register")
    /\ unanswered' = (unanswered \/ pending[s] \in {"characteristic", "descriptor", "start"})
    /\ UNCHANGED <<entering, trigged, declared, listening>>

\* The stack reports an error; from the characteristics on, nobody is told.
RequestFails(s) ==
    /\ pending[s] # "none" /\ May(pending[s])
    /\ Owes(s, "none")
    /\ IF pending[s] \in {"register", "service"}
       THEN Answer(s, FALSE) /\ Event(TRUE) /\ UNCHANGED unanswered
       ELSE Event(FALSE) /\ unanswered' = TRUE /\ UNCHANGED _result
    /\ UNCHANGED <<entering, trigged, declared, listening>>

\* A client connects, disconnects, reads or writes.
Request(s) ==
    /\ s \in listening
    /\ \E evt \in Asked : Enters(<<evt, s>>)
    /\ Event(FALSE)
    /\ UNCHANGED <<_result, trigged, declared, pending, listening, unanswered>>

\* enQ() has the mutex.
Enter ==
    /\ Busy /\ ~Locked
    /\ EnQ(entering) \/ EnQFull
    /\ Enters(NoEvent)

\* It posts whether begin() waits or not: begin() may have found the chip on already.
Activate ==
    /\ Delivered("ACTIVATE")
    /\ IF _hdl_btcm
       THEN LET called == call # None /\ call[2] = Server IN
            /\ Answer(Server, TRUE)
            /\ Event(called)
            /\ stray' = (stray \/ ~called)
       ELSE Event(FALSE) /\ UNCHANGED <<_result, stray>>

Deactivate == Delivered("DEACTIVATE") /\ Event(FALSE) /\ UNCHANGED <<_result, stray>>

----------------------------------------------------------------------------
(* The specification *)

Sketch == \/ \E f \in {"begin", "end"} : CallServer(f)
          \/ \E s \in Services : EndService(s) \/ Send(s)
          \/ Handle

InCall == BeginService \/ BeginReturns \/ Returned \/ Handling

HandleSysevt ==
    /\ ~Busy
    /\ \/ (ServerReady \/ ServerWaits \/ ServerEnds) /\ UNCHANGED pending
       \/ \E s \in Services :
             /\ ServiceRefused(s) \/ ServiceRegisters(s) \/ ServiceSends(s) \/ ServiceEnds(s)
             /\ UNCHANGED overtaken
    /\ UNCHANGED <<cmq, queue_vars, entering, begun, stray, _gatts_service, profile, trigged, declared,
                   listening, again>>

Posts ==
    /\ ~Busy /\ PostResult
    /\ UNCHANGED <<adapter, queue_vars, entering, local, registry, history>>

\* The stack's answers and the chip's events.
StackAnswer ==
    /\ ~Busy
    /\ \E s \in Services :
          \/ Registered(s) \/ ServiceAdded(s) \/ AttributeAdded(s) \/ Started(s)
          \/ (\E ok \in BOOLEAN : Listens(s, ok)) \/ RequestFails(s)
    /\ UNCHANGED <<adapter, queue_vars, _hdl_btcm, begun, stray, _gatts_service, profile, again,
                   overtaken>>

ClientRequest ==
    /\ ~Busy
    /\ \E s \in Services : Request(s)
    /\ UNCHANGED <<adapter, queue_vars, _hdl_btcm, begun, stray, _gatts_service, profile, again,
                   overtaken>>

CmEvent ==
    /\ ~Busy
    /\ Activate \/ Deactivate
    /\ UNCHANGED <<power, queue_vars, entering, _hdl_btcm, begun, registry, history>>

EntersQueue ==
    /\ Enter
    /\ UNCHANGED <<rpc, adapter, local, registry, history>>

Chip == /\ Switched
        /\ UNCHANGED <<rpc, queue_vars, entering, local, registry, history>>

Next == \/ Sketch \/ InCall \/ HandleSysevt \/ Posts \/ StackAnswer \/ ClientRequest \/ CmEvent
        \/ EntersQueue \/ Chip

Spec == Init /\ [][Next]_vars

\* Both threads go on, the stack answers every request and the chip finishes
\* switching.  The main thread serves messages and events in the order they come, so
\* the requests of clients, of which nothing is assumed, keep none from its turn.
FairSpec ==
    /\ Spec
    /\ WF_vars(InCall)
    /\ SF_vars(HandleSysevt \/ Posts)
    /\ SF_vars(StackAnswer)
    /\ SF_vars(CmEvent)
    /\ WF_vars(EntersQueue)
    /\ WF_vars(Chip)

----------------------------------------------------------------------------
(* Properties *)

\* A service declares its profile in order, each item once, and it listens only
\* when all of it has been declared.
DeclaredInOrder ==
    \A s \in Services : /\ IsPrefix(declared[s], profile[s])
                        /\ s \in listening => declared[s] = profile[s]

\* The main thread waits for the server's mutex only while the sketch is in a second
\* begin() or an end(): not while services are begun, whose callbacks queue events.
FirstBeginFree == Busy /\ Locked => again

\* Before a second begin() or an end(), nothing of an earlier call is left when the
\* sketch is outside a call, be it a service's or begin() of the server: neither its message,
\* nor a post for the signal of a service or, by the ACTIVATE of btcm_cb, for the server's.
\* Only a begin() that ran while an older ACTIVATE was under way may be answered twice.
AnsweredOnce == again \/ (Quiet /\ (stray => overtaken))

\* A call returns unless the code gave it up without an answer, or it was begin() or
\* end() of a server with services.
CallsReturn == (call # None) ~> (call = None \/ unanswered \/ again)

\* What LGATTServer.h:198 says: "Returning NULL will fail LGATTServer.begin()."
\* begin() returns the server's _result.
BeginTells == begun = NService /\ call = None /\ _result[Server] => listening = Services
=============================================================================
