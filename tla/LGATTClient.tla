----------------------------- MODULE LGATTClient -----------------------------
(***************************************************************************)
(* LGATTClient (libraries/LGATT/LGATTClient.cpp and, on the main thread,   *)
(* libraries/LGATT/utility/GATTClient.cpp): several clients, each an       *)
(* object with a signal of its own, over one Bluetooth stack.  The stack's *)
(* callbacks carry a context; the table gatt_client, which begin() fills   *)
(* and end() empties, leads from it to the client whose call is answered.  *)
(*                                                                         *)
(* Left out: the values read and written, the position getCharacteristic-  *)
(* Info() and getDescriptorInfo() remember, and notifications themselves.  *)
(***************************************************************************)
EXTENDS LGATTClientState, BTAdapter, FiniteSets

CONSTANTS Askers,              \* the clients with which the sketch does more than begin and end
          Devices,             \* the devices that advertise
          MAX_GATT_CLIENT,
          MaxBegins,           \* bound: calls of begin() that reach the driver
          MaxReports           \* bound: reports of one scan

VARIABLES
    handles,       \* the clients whose connection manager callback is registered
    state,         \* per client: _cntx.state
    _tid,          \* the clients whose scan timer runs
    searched,      \* _cntx._searched_ble_dev_nums of the client that scanned last
    ending,        \* the client in end(), or None
    posted,        \* the clients whose signal is set and that are not in a call
    unanswered     \* history: the code gave a call up without an answer to come

stack == <<asked, link>>
table == <<gatt_client, handles, state, reg_ctx>>
scanning == <<_tid, searched, BD_ADDR_LIST, heard>>
history == <<cleared, unanswered, early>>
vars == <<rpc, adapter, table, _return_value, scanning, ending, stack, posted, history>>

Asks == {"getCharacteristic", "getDescriptor", "writeCharacteristic", "readDescriptor",
         "writeDescriptor", "readRemoteRSSI", "readCharacteristic", "notification"}
Functions == ({"begin", "disconnect", "end"} \X Clients)
             \cup (({"scan", "connect"} \cup Asks) \X Askers)

\* What a client may be asked for is told apart from no call; the sketch works with
\* clients it has.
ASSUME ClientsAssumption ==
    None \notin Functions /\ Askers \subseteq Clients /\ MAX_GATT_CLIENT \in Nat

Requests == ({"register", "connect", "search", "disconnect"} \X Clients) \cup (Asks \X Askers)

TypeOK ==
    /\ RpcType(Functions)
    /\ AdapterType
    /\ gatt_client \in Seq(Clients) /\ Len(gatt_client) <= MAX_GATT_CLIENT
    /\ handles \in Seq(Clients) /\ Len(handles) <= MaxBegins
    /\ state \in [Clients -> {"DISABLED", "ENABLING", "ENABLED", "DISABLING"}]
    /\ _return_value \in [Clients -> BOOLEAN]
    /\ {reg_ctx, _tid, link, posted, cleared} \subseteq SUBSET Clients
    /\ searched \in 0 .. MaxReports
    /\ BD_ADDR_LIST \in Seq(Devices)
    /\ heard \subseteq Devices
    /\ ending \in Clients \cup {None}
    /\ asked \subseteq Requests
    /\ {unanswered, early} \subseteq BOOLEAN

Init ==
    /\ RpcInit /\ AdapterInit
    /\ gatt_client = << >> /\ handles = << >>
    /\ state = [c \in Clients |-> "DISABLED"]
    /\ _return_value = [c \in Clients |-> FALSE]
    /\ reg_ctx = {} /\ _tid = {} /\ link = {} /\ posted = {} /\ cleared = {}
    /\ searched = 0 /\ BD_ADDR_LIST = << >> /\ heard = {}
    /\ ending = None
    /\ asked = {}
    /\ unanswered = FALSE /\ early = FALSE

----------------------------------------------------------------------------
(* The table of clients *)

\* Mutated form of GATTCSetClient: the client always takes the first slot.
GATTCSetClientFirst(c) == <<c>>

\* The first free slot; a client may have several.
GATTCSetClient(c) == Append(gatt_client, c)

Full == Len(gatt_client) = MAX_GATT_CLIENT

----------------------------------------------------------------------------
(* The sketch thread: LGATTClient.cpp *)

CallClient(f, c) ==
    /\ call = None
    /\ Fill(<<f, c>>)
    /\ signal' = (c \in posted)
    /\ posted' = posted \ {c}

\* A new call.  What follows a signal posted early is not followed further.
Outside == ending = None /\ ~early

Calls(f, c) ==
    /\ Outside
    /\ CallClient(f, c)
    /\ UNCHANGED <<adapter, table, _return_value, scanning, ending, stack, history>>

scan(c) == Calls("scan", c)
connect(c) == Calls("connect", c)
disconnect(c) == Calls("disconnect", c)
getCharacteristicInfo(c) == Calls("getCharacteristic", c)
getDescriptorInfo(c) == Calls("getDescriptor", c)
readCharacteristic(c) == Calls("readCharacteristic", c)
writeCharacteristic(c) == Calls("writeCharacteristic", c)
readDescriptor(c) == Calls("readDescriptor", c)
writeDescriptor(c) == Calls("writeDescriptor", c)
readRemoteRSSI(c) == Calls("readRemoteRSSI", c)
setupNotification(c) == Calls("notification", c)

\* begin(), which does nothing unless the client is disabled and has a slot.
Begin(c) ==
    /\ Outside
    /\ state[c] = "DISABLED" /\ ~Full
    /\ Len(handles) + sent < MaxBegins
    /\ gatt_client' = GATTCSetClient(c)
    /\ CallClient("begin", c)
    /\ UNCHANGED <<adapter, handles, state, reg_ctx, _return_value, scanning, ending, stack, history>>

\* end() disconnects first, connected or not, and waits for it.
End(c) ==
    /\ Outside
    /\ CallClient("disconnect", c)
    /\ ending' = c
    /\ UNCHANGED <<adapter, table, _return_value, scanning, stack, history>>

EndDisconnected ==
    /\ ending # None
    /\ CallClient("end", ending)
    /\ UNCHANGED <<adapter, table, _return_value, scanning, ending, stack, history>>

Returned ==
    /\ Return
    /\ IF call[1] = "end"
       THEN state' = [state EXCEPT ![call[2]] = "DISABLED"] /\ ending' = None
       ELSE UNCHANGED <<state, ending>>
    /\ UNCHANGED <<adapter, gatt_client, handles, reg_ctx, _return_value, scanning, stack, posted,
                   history>>

----------------------------------------------------------------------------
(* The main thread: the functions of GATTClient.cpp *)

Answer(c, r) == _return_value' = [_return_value EXCEPT ![c] = r]

Asked(requests) == asked' = asked \cup requests

\* A request the driver has not accepted, by a function that does not look.
NotAsked == asked' = asked /\ unanswered' = TRUE

\* gatt_client_init for one client after the other: each takes a slot while there is one,
\* and one that is disabled is registered.
gatt_client_init(clients) ==
    LET room == MAX_GATT_CLIENT - Len(gatt_client)
        placed == IF Len(clients) <= room THEN clients ELSE SubSeq(clients, 1, room)
        new == {c \in ToSet(placed) : state[c] = "DISABLED"}
    IN
    /\ gatt_client' = gatt_client \o placed
    /\ state' = [c \in Clients |-> IF c \in new THEN "ENABLING" ELSE state[c]]
    /\ Asked({"register"} \X new)

\* The handle of the connection manager is not kept, and never closed.
gattBegin(c) ==
    /\ Run(<<"begin", c>>)
    /\ handles' = Append(handles, c)
    /\ IF power = "ON"
       THEN /\ gatt_client_init(<<c>>)
            /\ unanswered' = (unanswered \/ <<"register", c>> \notin asked')
            /\ UNCHANGED power
       ELSE /\ SwitchOn \/ SwitchOnFails
            /\ unanswered' = (unanswered \/ power' # "SWITCHING_ON")
            /\ UNCHANGED <<gatt_client, state, asked>>
    /\ Returns(FALSE, FALSE)
    /\ UNCHANGED <<reg_ctx, _return_value, scanning, link, cleared>>

ScanRefused(c) ==
    /\ Run(<<"scan", c>>)
    /\ c \in _tid \/ May("timer") \/ May("scan") \/ c \notin reg_ctx
    /\ Answer(c, FALSE)
    /\ Returns(TRUE, FALSE)
    /\ UNCHANGED <<power, table, scanning, stack, cleared, unanswered>>

gattScan(c) ==
    /\ Run(<<"scan", c>>)
    /\ c \notin _tid /\ c \in reg_ctx
    /\ _tid' = _tid \cup {c}
    /\ searched' = 0 /\ BD_ADDR_LIST' = << >> /\ heard' = {}
    /\ Returns(FALSE, FALSE)
    /\ UNCHANGED <<power, table, _return_value, stack, cleared, unanswered>>

\* Connecting needs a context; disconnecting may be answered when nothing is connected.
gattConnect(c) ==
    /\ Run(<<"connect", c>>)
    /\ \/ c \in reg_ctx /\ Asked({<<"connect", c>>}) /\ UNCHANGED unanswered
       \/ (c \notin reg_ctx \/ May("connect")) /\ NotAsked
    /\ Returns(FALSE, FALSE)
    /\ UNCHANGED <<power, table, _return_value, scanning, link, cleared>>

gattDisConnect(c) ==
    /\ Run(<<"disconnect", c>>)
    /\ \/ c \in reg_ctx /\ Asked({<<"disconnect", c>>}) /\ UNCHANGED unanswered
       \/ (c \notin link \cap reg_ctx \/ May("disconnect")) /\ NotAsked
    /\ Returns(FALSE, FALSE)
    /\ UNCHANGED <<power, table, _return_value, scanning, link, cleared>>

\* The driver's answer to a request about an attribute is not looked at.
Ask(f, c) ==
    /\ Run(<<f, c>>)
    /\ \/ c \in link \cap reg_ctx /\ Asked({<<f, c>>}) /\ UNCHANGED unanswered
       \/ (c \notin link \cap reg_ctx \/ May("ask")) /\ NotAsked
    /\ UNCHANGED <<power, table, _return_value, scanning, link, cleared>>

gattGetCharacteristic(c) == Ask("getCharacteristic", c) /\ Returns(FALSE, FALSE)
gattGetDescriptor(c) == Ask("getDescriptor", c) /\ Returns(FALSE, FALSE)
gattWriteCharacteristic(c) == Ask("writeCharacteristic", c) /\ Returns(FALSE, FALSE)
gattReadDescriptor(c) == Ask("readDescriptor", c) /\ Returns(FALSE, FALSE)
gattWriteDescriptor(c) == Ask("writeDescriptor", c) /\ Returns(FALSE, FALSE)
gattReadRemoteRSSI(c) == Ask("readRemoteRSSI", c) /\ Returns(FALSE, FALSE)

\* No return statement: the value is what the register holds.
gattEnableNotification(c) == Ask("notification", c) /\ \E r \in BOOLEAN : Returns(r, FALSE)

gattReadCharacteristic(c) ==
    /\ Run(<<"readCharacteristic", c>>)
    /\ \/ /\ c \in link \cap reg_ctx /\ Asked({<<"readCharacteristic", c>>})
          /\ Answer(c, TRUE)
          /\ Returns(FALSE, FALSE)
       \/ /\ c \notin link \cap reg_ctx \/ May("ask")
          /\ Answer(c, FALSE)
          /\ Returns(TRUE, FALSE)
          /\ UNCHANGED asked
    /\ UNCHANGED <<power, table, scanning, link, cleared, unanswered>>

\* gatt_client_deinit is refused: the client keeps its context and its slots.
EndRefused(c) ==
    /\ Run(<<"end", c>>)
    /\ c \notin reg_ctx \/ May("deregister")
    /\ state' = [state EXCEPT ![c] = "DISABLING"]
    /\ Answer(c, FALSE)
    /\ Returns(TRUE, FALSE)
    /\ UNCHANGED <<power, gatt_client, handles, reg_ctx, scanning, stack, cleared, unanswered>>

\* It is not, and posts itself; then gatt_client_clean empties the table of every client.
gattEnd(c) ==
    /\ Run(<<"end", c>>)
    /\ c \in reg_ctx
    /\ reg_ctx' = reg_ctx \ {c}
    /\ state' = [state EXCEPT ![c] = "DISABLED"]
    /\ gatt_client' = << >>
    /\ cleared' = (cleared \cup ToSet(gatt_client)) \ {c}
    /\ asked' = {r \in asked : r[2] # c}
    /\ link' = link \ {c}
    /\ Answer(c, TRUE)
    /\ Returns(FALSE, TRUE)
    /\ UNCHANGED <<power, handles, scanning, unanswered>>

----------------------------------------------------------------------------
(* The main thread: events *)

\* post_signal() of a client, waited for or not.
Posts(c) ==
    LET waits == call # None /\ call[2] = c IN
    /\ Event(waits)
    /\ posted' = IF waits THEN posted ELSE posted \cup {c}

Silent == Event(FALSE) /\ UNCHANGED posted

\* gatt_client_bt_init_cb, for every handle.
Activate ==
    /\ Delivered("ACTIVATE")
    /\ gatt_client_init(handles)
    /\ early' = (early \/ \E r \in asked' \ asked : signal \/ sent > 0 \/ call # <<"begin", r[2]>>)
    /\ Silent
    /\ UNCHANGED <<power, handles, reg_ctx, _return_value, scanning, ending, link, cleared,
                   unanswered>>

Deactivate ==
    /\ Delivered("DEACTIVATE")
    /\ Silent
    /\ UNCHANGED <<power, table, _return_value, scanning, ending, stack, cleared, unanswered, early>>

\* GATTCDelClient leaves a hole, which hides what is behind it.
GATTCDelClient(c) == SubSeq(gatt_client, 1, SelectInSeq(gatt_client, LAMBDA d : d = c) - 1)

\* The client is found by its UUID.  A client that is neither enabling nor disabling any
\* more takes the context and is told that it worked, whether it did or not.
Registers(c, ok) ==
    /\ <<"register", c>> \in asked
    /\ asked' = asked \ {<<"register", c>>}
    /\ IF c \in ToSet(gatt_client)
       THEN LET enabling == state[c] = "ENABLING"
                disabling == state[c] = "DISABLING"
                closed == (enabling /\ ~ok) \/ (disabling /\ ok)
            IN /\ reg_ctx' = IF closed THEN reg_ctx \ {c} ELSE reg_ctx \cup {c}
               /\ state' = IF enabling \/ disabling
                           THEN [state EXCEPT ![c] = IF closed THEN "DISABLED" ELSE "ENABLED"]
                           ELSE state
               /\ gatt_client' = IF disabling /\ ok THEN GATTCDelClient(c) ELSE gatt_client
               /\ Answer(c, ok \/ ~(enabling \/ disabling))
               /\ Posts(c)
       ELSE Silent /\ UNCHANGED <<gatt_client, reg_ctx, state, _return_value>>
    /\ UNCHANGED <<handles, scanning, link, early>>

\* Mutated form of ScanResult: the device is not looked for in the list.
ScanResultAgain(c, d) ==
    /\ c \in _tid
    /\ searched < MaxReports
    /\ Found(c)
    /\ heard' = heard \cup {d}
    /\ searched' = searched + 1
    /\ BD_ADDR_LIST' = IF Len(BD_ADDR_LIST) = MAX_BLE_SERCHED_DEV THEN BD_ADDR_LIST
                       ELSE Append(BD_ADDR_LIST, d)
    /\ Silent
    /\ UNCHANGED <<table, _return_value, _tid, stack, early>>

\* A device reports, again or for the first time: the count grows, the list only by
\* a device that is new, while there is room.  A client that is not found hears nothing.
ScanResult(c, d) ==
    /\ c \in _tid
    /\ searched < MaxReports
    /\ Found(c)
    /\ heard' = heard \cup {d}
    /\ searched' = searched + 1
    /\ BD_ADDR_LIST' = IF d \in ToSet(BD_ADDR_LIST) \/ Len(BD_ADDR_LIST) = MAX_BLE_SERCHED_DEV
                       THEN BD_ADDR_LIST ELSE Append(BD_ADDR_LIST, d)
    /\ Silent
    /\ UNCHANGED <<table, _return_value, _tid, stack, early>>

\* gatt_client_timeout_cb; _return_value stays what the last call left.
ScanTimeout(c) ==
    /\ c \in _tid
    /\ IF c \in ToSet(gatt_client)
       THEN _tid' = _tid \ {c} /\ Posts(c)
       ELSE Silent /\ UNCHANGED _tid
    /\ UNCHANGED <<table, _return_value, searched, BD_ADDR_LIST, heard, stack, early>>

\* Mutated form of Connected: connect() is answered before the services are searched.
ConnectedAnswers(c) ==
    /\ <<"connect", c>> \in asked
    /\ asked' = (asked \ {<<"connect", c>>}) \cup {<<"search", c>>}
    /\ link' = link \cup {c}
    /\ Found(c)
    /\ Answer(c, TRUE) /\ Posts(c)
    /\ UNCHANGED <<table, scanning, early>>

\* gatt_client_connection_callback, connected.  A client that is not found is written
\* to all the same (a NULL pointer).
Connected(c) ==
    /\ <<"connect", c>> \in asked
    /\ asked' = (asked \ {<<"connect", c>>}) \cup {<<"search", c>>}
    /\ link' = link \cup {c}
    /\ IF Found(c) THEN Answer(c, TRUE) ELSE UNCHANGED _return_value
    /\ Silent
    /\ UNCHANGED <<table, scanning, early>>

\* The same, not connected: connect() failed, disconnect() is done, or the connection
\* was lost; then requests that wait are answered with an error or not at all.
Disconnected(c) ==
    /\ \/ \E f \in {"connect", "disconnect"} : <<f, c>> \in asked
       \/ c \in link
    /\ early' = (early \/ {<<"connect", c>>, <<"disconnect", c>>} \cap asked = {})
    /\ link' = link \ {c}
    /\ LET rest == {r \in asked : r[2] = c /\ r[1] # "register"} IN
       \E gone \in {rest, {r \in rest : r[1] \in {"connect", "disconnect"}}} :
          asked' = asked \ gone
    /\ IF Found(c) THEN Answer(c, FALSE) /\ Posts(c) ELSE Silent /\ UNCHANGED _return_value
    /\ UNCHANGED <<table, scanning>>

\* gatt_client_search_complete_callback, which compares the context with a pointer to
\* the connection and so leaves _return_value as it is.
SearchComplete(c) ==
    /\ <<"search", c>> \in asked
    /\ asked' = asked \ {<<"search", c>>}
    /\ IF Found(c) THEN Posts(c) ELSE Silent
    /\ UNCHANGED <<table, _return_value, scanning, link, early>>

\* Mutated form of Answered: an error is not told.
AnsweredOkOnly(f, c, ok) ==
    /\ <<f, c>> \in asked
    /\ asked' = asked \ {<<f, c>>}
    /\ IF Found(c) /\ ok THEN Answer(c, ok) /\ Posts(c) ELSE Silent /\ UNCHANGED _return_value
    /\ UNCHANGED <<table, scanning, link, early>>

\* The callbacks of the requests about attributes: a lost connection answers with an error.
Answered(f, c, ok) ==
    /\ <<f, c>> \in asked
    /\ ok => c \in link
    /\ asked' = asked \ {<<f, c>>}
    /\ IF Found(c) THEN Answer(c, ok) /\ Posts(c) ELSE Silent /\ UNCHANGED _return_value
    /\ UNCHANGED <<table, scanning, link, early>>

get_characteristic_callback(c, ok) == Answered("getCharacteristic", c, ok)
get_descriptor_callback(c, ok) == Answered("getDescriptor", c, ok)
register_for_notification_callback(c, ok) == Answered("notification", c, ok)
read_characteristic_callback(c, ok) == Answered("readCharacteristic", c, ok)
write_characteristic_callback(c, ok) == Answered("writeCharacteristic", c, ok)
read_descriptor_callback(c, ok) == Answered("readDescriptor", c, ok)
write_descriptor_callback(c, ok) == Answered("writeDescriptor", c, ok)
read_remote_rssi_callback(c, ok) == Answered("readRemoteRSSI", c, ok)

----------------------------------------------------------------------------
(* The specification *)

\* The sketch does more than begin and end with the clients of Askers.
Sketch ==
    \/ \E c \in Clients : Begin(c) \/ End(c)
    \/ \E c \in Askers :
          \/ scan(c) \/ connect(c) \/ disconnect(c) \/ setupNotification(c)
          \/ getCharacteristicInfo(c) \/ getDescriptorInfo(c) \/ readRemoteRSSI(c)
          \/ readCharacteristic(c) \/ writeCharacteristic(c)
          \/ readDescriptor(c) \/ writeDescriptor(c)

HandleSysevt ==
    /\ \E c \in Clients :
          \/ gattBegin(c) \/ gattScan(c) \/ ScanRefused(c) \/ gattConnect(c) \/ gattDisConnect(c)
          \/ gattGetCharacteristic(c) \/ gattGetDescriptor(c)
          \/ gattReadCharacteristic(c) \/ gattWriteCharacteristic(c)
          \/ gattReadDescriptor(c) \/ gattWriteDescriptor(c)
          \/ gattReadRemoteRSSI(c) \/ gattEnd(c) \/ EndRefused(c)
    /\ UNCHANGED <<cmq, ending, posted, early>>

\* When the value happens to be true __handle_sysevt posts, and so will the callback.
HandleNotification ==
    /\ \E c \in Clients : gattEnableNotification(c)
    /\ early' = (early \/ posting')
    /\ UNCHANGED <<cmq, ending, posted>>

CmEvent == Activate \/ Deactivate

\* The stack answers.
StackAnswers ==
    /\ \E c \in Clients :
          \/ \E ok \in BOOLEAN : Registers(c, ok)
          \/ ScanTimeout(c) \/ Connected(c)
          \/ Disconnected(c) /\ {<<"connect", c>>, <<"disconnect", c>>} \cap asked # {}
          \/ SearchComplete(c)
    /\ UNCHANGED <<adapter, ending, cleared, unanswered>>

\* It answers a request about an attribute.
AttributeAnswers ==
    /\ \E c \in Clients, ok \in BOOLEAN :
          \/ get_characteristic_callback(c, ok) \/ get_descriptor_callback(c, ok)
          \/ read_characteristic_callback(c, ok) \/ write_characteristic_callback(c, ok)
          \/ read_descriptor_callback(c, ok) \/ write_descriptor_callback(c, ok)
          \/ register_for_notification_callback(c, ok) \/ read_remote_rssi_callback(c, ok)
    /\ UNCHANGED <<adapter, ending, cleared, unanswered>>

\* The stack reports a device or a lost connection.
StackReports ==
    /\ \E c \in Clients :
          \/ \E d \in Devices : ScanResult(c, d)
          \/ Disconnected(c) /\ {<<"connect", c>>, <<"disconnect", c>>} \cap asked = {}
    /\ UNCHANGED <<adapter, ending, cleared, unanswered>>

PostsResult ==
    /\ PostResult
    /\ UNCHANGED <<adapter, table, _return_value, scanning, ending, stack, posted, history>>

Chip ==
    /\ Switched
    /\ UNCHANGED <<rpc, table, _return_value, scanning, ending, stack, posted, history>>

InCall == Returned \/ EndDisconnected

Next == \/ Sketch \/ InCall \/ HandleSysevt \/ HandleNotification \/ PostsResult \/ CmEvent
        \/ StackAnswers \/ AttributeAnswers \/ StackReports \/ Chip

Spec == Init /\ [][Next]_vars

\* Both threads go on, the chip finishes switching and the stack answers what it has
\* accepted.  The main thread takes messages and events in the order they come, so the
\* reports of devices keep none from its turn.
FairSpec ==
    /\ Spec
    /\ WF_vars(InCall)
    /\ SF_vars(HandleSysevt \/ HandleNotification \/ PostsResult)
    /\ SF_vars(CmEvent)
    /\ SF_vars(StackAnswers \/ AttributeAnswers)
    /\ WF_vars(Chip)

----------------------------------------------------------------------------
(* Properties *)

\* A call returns unless its client is one that another's end() made deaf, or a
\* driver refused what was asked of it.
CallsReturn ==
    (call # None) ~> (call = None \/ unanswered \/ cleared # {})

\* What LGATTClient.h says of scan(): "The number of Bluetooth 4.0 devices that have been
\* capture by scan()."
ScanCounts ==
    \A c \in Clients :
       call = None /\ m_msg.func = <<"scan", c>> /\ _return_value[c]
          => searched = Len(BD_ADDR_LIST)
=============================================================================
