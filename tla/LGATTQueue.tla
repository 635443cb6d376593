----------------------------- MODULE LGATTQueue ------------------------------
(***************************************************************************)
(* The event queue of LGATTServer (libraries/LGATT/LGATTServer.cpp): the   *)
(* stack's callbacks put events in on the main thread, handleEvents() of   *)
(* the sketch takes them out.  Each access holds the server's mutex, so it *)
(* is one step; handleEvents() makes several, and deletes an event's node  *)
(* before it takes it out of the queue.                                    *)
(***************************************************************************)
EXTENDS Integers, Sequences

CONSTANTS Events, NoEvent, MAX_QUEUE_NODES

ASSUME QueueAssumption == NoEvent \notin Events /\ MAX_QUEUE_NODES \in Nat \ {0, 1}

VARIABLES
    _cq,        \* per place: the event of the node, and whether the node is still allocated
    _fr, _ba, _size,
    handling,   \* where the sketch is in handleEvents()
    node,       \* the event of the node handleEvents() works on
    fate,       \* history: the last event enQ() was given, NoEvent if it was turned away
    got         \* history: the last event handled, NoEvent if there was none

queue == <<_cq, _fr, _ba, _size>>
queue_vars == <<queue, handling, node, fate, got>>

Places == 0 .. MAX_QUEUE_NODES - 1
Nodes == [event : Events \cup {NoEvent}, live : BOOLEAN]

QueueType ==
    /\ _cq \in [Places -> Nodes]
    /\ {_fr, _ba} \subseteq Places
    /\ _size \in Places
    /\ handling \in {"no", "frQ", "dispatch", "deQ"}
    /\ node \in Events \cup {NoEvent}
    /\ {fate, got} \subseteq Events \cup {NoEvent}

QueueInit ==
    /\ _cq = [i \in Places |-> [event |-> NoEvent, live |-> FALSE]]
    /\ _fr = 0 /\ _ba = 0 /\ _size = 0
    /\ handling = "no" /\ node = NoEvent /\ fate = NoEvent /\ got = NoEvent

Succ(i) == (i + 1) % MAX_QUEUE_NODES

----------------------------------------------------------------------------
(* enQ(), on the main thread *)

\* Mutated form of EnQ: it takes the last free place as well.
EnQFills(e) ==
    /\ _cq' = [_cq EXCEPT ![_ba] = [event |-> e, live |-> TRUE]]
    /\ _ba' = Succ(_ba)
    /\ _size' = _size + 1
    /\ fate' = e
    /\ UNCHANGED <<_fr, handling, node, got>>

EnQ(e) ==
    /\ Succ(_ba) # _fr
    /\ _cq' = [_cq EXCEPT ![_ba] = [event |-> e, live |-> TRUE]]
    /\ _ba' = Succ(_ba)
    /\ _size' = _size + 1
    /\ fate' = e
    /\ UNCHANGED <<_fr, handling, node, got>>

\* The result is ignored: the event is lost and its node is never deleted.
EnQFull ==
    /\ Succ(_ba) = _fr
    /\ fate' = NoEvent
    /\ UNCHANGED <<queue, handling, node, got>>

----------------------------------------------------------------------------
(* handleEvents(), with frQ() and deQ() *)

HandleEvents ==
    /\ handling = "no"
    /\ handling' = "frQ"
    /\ UNCHANGED <<queue, node, fate, got>>

FrQ ==
    /\ handling = "frQ" /\ _size # 0
    /\ node' = _cq[_fr].event
    /\ handling' = "dispatch"
    /\ UNCHANGED <<queue, fate, got>>

FrQEmpty ==
    /\ handling = "frQ" /\ _size = 0
    /\ handling' = "no"
    /\ got' = NoEvent
    /\ UNCHANGED <<queue, node, fate>>

\* The service's callback has run; delete node.
Dispatched ==
    /\ handling = "dispatch"
    /\ _cq' = [_cq EXCEPT ![_fr].live = FALSE]
    /\ handling' = "deQ"
    /\ UNCHANGED <<_fr, _ba, _size, node, fate, got>>

\* Mutated form of DeQ: the node stays in the queue.
DeQNothing ==
    /\ handling = "deQ"
    /\ handling' = "frQ"
    /\ node' = NoEvent
    /\ got' = node
    /\ UNCHANGED <<queue, fate>>

DeQ ==
    /\ handling = "deQ"
    /\ IF _size = 0 THEN UNCHANGED <<_fr, _size>>
       ELSE _fr' = Succ(_fr) /\ _size' = _size - 1
    /\ handling' = "frQ"
    /\ node' = NoEvent
    /\ got' = node
    /\ UNCHANGED <<_cq, _ba, fate>>

QueueNext ==
    \/ \E e \in Events : EnQ(e)
    \/ EnQFull
    \/ HandleEvents \/ FrQ \/ FrQEmpty \/ Dispatched \/ DeQ

QueueSpec == QueueInit /\ [][QueueNext]_queue_vars

----------------------------------------------------------------------------
(* Properties *)

\* The places in use, from the front, are as many as _size says, all but one at most.
SizeMatches == _size = (_ba - _fr + MAX_QUEUE_NODES) % MAX_QUEUE_NODES

\* Every node in the queue is allocated, but for the front one between its deletion
\* and deQ(): handleEvents() works on a live node, and on the front one.
NoneFreed ==
    /\ \A i \in 0 .. _size - 1 :
          _cq[(_fr + i) % MAX_QUEUE_NODES].live \/ (i = 0 /\ handling = "deQ")
    /\ handling \in {"dispatch", "deQ"} => _size > 0 /\ node = _cq[_fr].event

contents == [n \in 1 .. _size |-> _cq[(_fr + n - 1) % MAX_QUEUE_NODES].event]

\* Every event is handled once, in the order of arrival; what is lost arrived
\* while MAX_QUEUE_NODES - 1 others waited.
Fifo == INSTANCE ByteQueue WITH
    q <- contents, Bytes <- Events, NoByte <- NoEvent, Capacity <- MAX_QUEUE_NODES - 1

ImplementsQueue == Fifo!Spec
=============================================================================
