--------------------------- MODULE LGATTClientState ---------------------------
(***************************************************************************)
(* What the callbacks of GATTClient.cpp and the sketch share, and what     *)
(* must be true of it.  LGATTClient has the steps.                         *)
(***************************************************************************)
EXTENDS SketchCall, SequencesExt

CONSTANTS Clients,
          MAX_BLE_SERCHED_DEV

VARIABLES
    gatt_client,   \* the table, cut off at its first NULL
    reg_ctx,       \* the clients whose _cntx.reg_ctx is set
    _return_value, \* per client: the result of its last call
    BD_ADDR_LIST,  \* the devices found, the same table for every client
    asked,         \* requests the stack has accepted and not answered
    link,          \* the clients that are connected
    heard,         \* history: the devices that reported since the scan started
    cleared,       \* history: clients another client's end() took out of the table
    early          \* history: a signal was posted for no call that waits

\* The callbacks' way from a context to the client: the search ends at the first NULL.
Found(c) == c \in reg_ctx /\ c \in ToSet(gatt_client)

\* The stack's callbacks find every registered client, until the end() of another one
\* (or an end() that an early signal has overtaken).
RegisteredFound == early \/ \A c \in reg_ctx \ cleared : Found(c)

\* connect() returns true only with a connection whose services have been searched.
ConnectTells ==
    \A c \in Clients :
       call = None /\ m_msg.func = <<"connect", c>> /\ _return_value[c] /\ ~early
          => c \in link /\ <<"search", c>> \notin asked

\* The list has every device that reported while there was room, and each once.
ListedOnce ==
    /\ IsInjective(BD_ADDR_LIST)
    /\ heard \subseteq ToSet(BD_ADDR_LIST) \/ Len(BD_ADDR_LIST) = MAX_BLE_SERCHED_DEV
=============================================================================
