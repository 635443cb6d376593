----------------------------- MODULE LGATTProofs -----------------------------
(***************************************************************************)
(* The two components of LGATT.                                            *)
(*                                                                         *)
(* The server: its event queue is a bounded queue of MAX_QUEUE_NODES less  *)
(* one places, and handleEvents() works on a live node, for every number   *)
(* of nodes and every set of events.  LGATTServer, for any number of       *)
(* services and any profiles, uses it as LGATTQueue says, declares         *)
(* profiles in order, locks nobody out in the first begin(), and answers   *)
(* each call once.                                                         *)
(*                                                                         *)
(* The client: for any clients, table size, devices and faults, an answer  *)
(* that is to come is the answer to the call that waits, until a signal is *)
(* posted early; so what connect() returns is the connection, and a        *)
(* registered client is found.  The list of devices has each once.         *)
(*                                                                         *)
(* The two share the names of SketchCall, BTAdapter and unanswered; a      *)
(* theorem speaks of one component's behaviours at a time.                 *)
(***************************************************************************)
EXTENDS LGATTServer, LGATTClientState, SequenceTheorems, TLAPS

\* Of LGATTClient, besides its state.
CONSTANTS Askers, Devices, MAX_GATT_CLIENT, MaxBegins, MaxReports
VARIABLES handles, state, _tid, searched, ending, posted

Client == INSTANCE LGATTClient

----------------------------------------------------------------------------
(* The queue: its places.  At replaces the modulus by a comparison, so that  *)
(* everything after PlaceLemma is linear.                                    *)

\* The place n after place i, for an n less than MAX_QUEUE_NODES.
At(i, n) == IF i + n < MAX_QUEUE_NODES THEN i + n ELSE i + n - MAX_QUEUE_NODES

\* A sum of two places is reduced by at most one MAX_QUEUE_NODES.
LEMMA Wrap ==
    ASSUME NEW n \in 0 .. 2 * MAX_QUEUE_NODES - 1
    PROVE  n % MAX_QUEUE_NODES = IF n < MAX_QUEUE_NODES THEN n ELSE n - MAX_QUEUE_NODES
  BY QueueAssumption

LEMMA PlaceLemma ==
    ASSUME NEW i \in Places, NEW n \in 0 .. MAX_QUEUE_NODES
    PROVE  (i + n) % MAX_QUEUE_NODES = At(i, n)
<1>1. i + n \in 0 .. 2 * MAX_QUEUE_NODES - 1
  BY QueueAssumption DEF Places
<1>2. \A m \in 0 .. 2 * MAX_QUEUE_NODES - 1 :
         m % MAX_QUEUE_NODES = IF m < MAX_QUEUE_NODES THEN m ELSE m - MAX_QUEUE_NODES
  BY Wrap, Zenon
<1>3. PICK m \in 0 .. 2 * MAX_QUEUE_NODES - 1 : m = i + n
  BY <1>1
<1>4. m % MAX_QUEUE_NODES = IF m < MAX_QUEUE_NODES THEN m ELSE m - MAX_QUEUE_NODES
  BY <1>2, Zenon
<1>5. (IF m < MAX_QUEUE_NODES THEN m ELSE m - MAX_QUEUE_NODES) = At(i, n)
  BY <1>3, QueueAssumption DEF At, Places
<1> QED  BY <1>3, <1>4, <1>5, Zenon

LEMMA SuccLemma ==
    ASSUME NEW i \in Places
    PROVE  Succ(i) = (IF i = MAX_QUEUE_NODES - 1 THEN 0 ELSE i + 1) /\ Succ(i) \in Places
<1>1. i + 1 \in 0 .. 2 * MAX_QUEUE_NODES - 1
  BY QueueAssumption DEF Places
<1> QED  BY <1>1, Wrap, QueueAssumption DEF Places, Succ

----------------------------------------------------------------------------
(* The queue: its invariant *)

\* The back is _size places after the front.
EndsMeet == _ba = At(_fr, _size)

\* The places in use hold events, in nodes that are allocated, but for the front one
\* between its deletion and deQ().
WaitingInv ==
    \A i \in 0 .. _size - 1 :
       /\ _cq[At(_fr, i)].event \in Events
       /\ _cq[At(_fr, i)].live \/ (i = 0 /\ handling = "deQ")

\* handleEvents() works on the node at the front.
WorkingInv == handling \in {"dispatch", "deQ"} => _size > 0 /\ node = _cq[_fr].event

QueueInv == QueueType /\ EndsMeet /\ WaitingInv /\ WorkingInv

LEMMA InitQueueInv == QueueInit => QueueInv
  BY QueueAssumption
     DEF QueueInit, QueueInv, QueueType, Nodes, Places, EndsMeet, At, WaitingInv, WorkingInv

\* There is room unless _size has reached its limit.
LEMMA RoomLemma ==
    ASSUME QueueInv
    PROVE  (Succ(_ba) # _fr) <=> (_size < MAX_QUEUE_NODES - 1)
<1>1. /\ _fr \in Places /\ _size \in Places /\ _ba \in Places
      /\ _ba = At(_fr, _size)
  BY DEF QueueInv, QueueType, EndsMeet
<1>2. Succ(_ba) = IF _ba = MAX_QUEUE_NODES - 1 THEN 0 ELSE _ba + 1
  BY <1>1, SuccLemma
<1> QED  BY <1>1, <1>2, QueueAssumption DEF Places, At

LEMMA EnQStep ==
    ASSUME QueueInv, NEW e \in Events, EnQ(e)
    PROVE  QueueInv'
<1> USE QueueAssumption
<1>1. /\ _size < MAX_QUEUE_NODES - 1
      /\ _ba' = IF _ba = MAX_QUEUE_NODES - 1 THEN 0 ELSE _ba + 1
      /\ _ba' \in Places
  BY RoomLemma, SuccLemma DEF EnQ, QueueInv, QueueType
<1>2. /\ _fr \in Places /\ _size \in Places /\ _ba \in Places
      /\ _cq \in [Places -> Nodes] /\ _ba = At(_fr, _size)
  BY DEF QueueInv, QueueType, EndsMeet
<1>3. /\ _cq' = [_cq EXCEPT ![_ba] = [event |-> e, live |-> TRUE]]
      /\ _size' = _size + 1
      /\ UNCHANGED <<_fr, handling, node>>
  BY DEF EnQ
<1>4. [event |-> e, live |-> TRUE] \in Nodes
  BY DEF Nodes
<1>5. QueueType'
  BY <1>1, <1>2, <1>3, <1>4 DEF QueueInv, QueueType, EnQ, Places
<1>6. EndsMeet'
  BY <1>1, <1>2, <1>3 DEF EndsMeet, At, Places
<1>7. WaitingInv'
  <2> SUFFICES ASSUME NEW i \in 0 .. _size
               PROVE  /\ _cq'[At(_fr, i)].event \in Events
                      /\ _cq'[At(_fr, i)].live \/ (i = 0 /\ handling = "deQ")
    <3>1. 0 .. _size' - 1 = 0 .. _size
      BY <1>2, <1>3 DEF Places
    <3>2. _fr' = _fr /\ handling' = handling
      BY <1>3
    <3> QED  BY <3>1, <3>2, Zenon DEF WaitingInv, At
  <2>1. CASE i = _size
    BY <1>2, <1>3, <2>1
  <2>2. CASE i < _size
    <3>1. At(_fr, i) # _ba /\ At(_fr, i) \in Places /\ i \in 0 .. _size - 1
      BY <1>2, <2>2 DEF At, Places
    <3>2. _cq'[At(_fr, i)] = _cq[At(_fr, i)]
      BY <1>2, <1>3, <3>1
    <3> QED  BY <3>1, <3>2 DEF QueueInv, WaitingInv
  <2> QED  BY <1>2, <2>1, <2>2 DEF Places
<1>8. WorkingInv'
  <2> SUFFICES ASSUME handling \in {"dispatch", "deQ"}
               PROVE  _size' > 0 /\ node = _cq'[_fr].event
    BY <1>3 DEF WorkingInv
  <2>1. _size > 0 /\ node = _cq[_fr].event
    BY DEF QueueInv, WorkingInv
  <2>2. _fr # _ba
    BY <1>1, <1>2, <2>1 DEF At, Places
  <2> QED  BY <1>2, <1>3, <2>1, <2>2 DEF Places
<1> QED  BY <1>5, <1>6, <1>7, <1>8 DEF QueueInv

LEMMA DispatchedStep ==
    ASSUME QueueInv, Dispatched
    PROVE  QueueInv'
<1> USE QueueAssumption
<1>1. /\ _fr \in Places /\ _size \in Places /\ _cq \in [Places -> Nodes]
      /\ _size > 0 /\ node = _cq[_fr].event
  BY DEF QueueInv, QueueType, WorkingInv, Dispatched
<1>2. /\ _cq' = [_cq EXCEPT ![_fr].live = FALSE]
      /\ handling' = "deQ"
      /\ UNCHANGED <<_fr, _ba, _size, node, fate, got>>
  BY DEF Dispatched
<1>3. \A p \in Places : _cq'[p].event = _cq[p].event /\ (p # _fr => _cq'[p] = _cq[p])
  BY <1>1, <1>2 DEF Nodes
<1>4. _cq' \in [Places -> Nodes]
  BY <1>1, <1>2 DEF Nodes
<1>5. QueueType'
  BY <1>2, <1>4 DEF QueueInv, QueueType
<1>6. EndsMeet'
  BY <1>2 DEF QueueInv, EndsMeet, At
<1>7. WaitingInv'
  <2> SUFFICES ASSUME NEW i \in 0 .. _size - 1
               PROVE  /\ _cq'[At(_fr, i)].event \in Events
                      /\ _cq'[At(_fr, i)].live \/ i = 0
    BY <1>2 DEF WaitingInv, At
  <2>1. At(_fr, i) \in Places /\ (i # 0 => At(_fr, i) # _fr)
    BY <1>1 DEF At, Places
  <2>2. _cq[At(_fr, i)].event \in Events
    BY DEF QueueInv, WaitingInv
  <2>3. i # 0 => _cq[At(_fr, i)].live
    BY DEF QueueInv, WaitingInv
  <2> QED  BY <1>3, <2>1, <2>2, <2>3
<1>8. WorkingInv'
  BY <1>1, <1>2, <1>3 DEF WorkingInv
<1> QED  BY <1>5, <1>6, <1>7, <1>8 DEF QueueInv

LEMMA DeQStep ==
    ASSUME QueueInv, DeQ
    PROVE  QueueInv'
<1> USE QueueAssumption
<1>1. /\ _fr \in Places /\ _size \in Places /\ _ba \in Places
      /\ _size > 0 /\ _ba = At(_fr, _size)
      /\ node \in Events \cup {NoEvent}
  BY DEF QueueInv, QueueType, EndsMeet, WorkingInv, DeQ
<1>2. /\ _fr' = Succ(_fr) /\ _size' = _size - 1
      /\ handling' = "frQ" /\ node' = NoEvent /\ got' = node
      /\ UNCHANGED <<_cq, _ba, fate>>
  BY <1>1 DEF DeQ
<1>3. _fr' = (IF _fr = MAX_QUEUE_NODES - 1 THEN 0 ELSE _fr + 1) /\ _fr' \in Places
  BY <1>1, <1>2, SuccLemma
<1>4. QueueType'
  BY <1>1, <1>2, <1>3 DEF QueueInv, QueueType, Places
<1>5. EndsMeet'
  BY <1>1, <1>2, <1>3 DEF EndsMeet, At, Places
<1>6. WaitingInv'
  <2> SUFFICES ASSUME NEW i \in 0 .. _size' - 1
               PROVE  _cq[At(_fr', i)].event \in Events /\ _cq[At(_fr', i)].live
    BY <1>2 DEF WaitingInv, At
  <2>1. i + 1 \in 0 .. _size - 1 /\ i + 1 # 0
    BY <1>1, <1>2 DEF Places
  <2>2. At(_fr', i) = At(_fr, i + 1)
    BY <1>1, <1>2, <1>3, <2>1 DEF At, Places
  <2>3. _cq[At(_fr, i + 1)].event \in Events /\ _cq[At(_fr, i + 1)].live
    BY <2>1 DEF QueueInv, WaitingInv
  <2> QED  BY <2>2, <2>3, Zenon
<1>7. WorkingInv'
  BY <1>2 DEF WorkingInv
<1> QED  BY <1>4, <1>5, <1>6, <1>7 DEF QueueInv

LEMMA NextQueueInv == QueueInv /\ [QueueNext]_queue_vars => QueueInv'
<1> SUFFICES ASSUME QueueInv, [QueueNext]_queue_vars PROVE QueueInv'
  OBVIOUS
<1> USE DEF QueueInv, QueueType, EndsMeet, WaitingInv, WorkingInv, At, queue
<1>1. ASSUME NEW e \in Events, EnQ(e) PROVE QueueInv'
  BY <1>1, EnQStep
<1>2. CASE EnQFull
  BY <1>2 DEF EnQFull
<1>3. CASE HandleEvents
  BY <1>3 DEF HandleEvents
<1>4. CASE FrQ
  <2>1. _size > 0 /\ _fr \in Places /\ _cq[_fr] \in Nodes
    BY <1>4, QueueAssumption DEF FrQ, Places
  <2> QED  BY <1>4, <2>1 DEF FrQ, Nodes
<1>5. CASE FrQEmpty
  BY <1>5 DEF FrQEmpty
<1>6. CASE Dispatched
  BY <1>6, DispatchedStep
<1>7. CASE DeQ
  BY <1>7, DeQStep
<1>8. CASE UNCHANGED queue_vars
  BY <1>8 DEF queue_vars
<1> QED  BY <1>1, <1>2, <1>3, <1>4, <1>5, <1>6, <1>7, <1>8 DEF QueueNext

LEMMA QueueInvariance == QueueSpec => []QueueInv
<1>1. QueueInit => QueueInv
  BY InitQueueInv
<1>2. QueueInv /\ [QueueNext]_queue_vars => QueueInv'
  BY NextQueueInv
<1> QED  BY <1>1, <1>2, PTL DEF QueueSpec

\* The queue's variables keep their types, for any number of nodes.
THEOREM QueueTypeCorrect == QueueSpec => []QueueType
<1>1. QueueInv => QueueType
  BY DEF QueueInv
<1> QED  BY <1>1, QueueInvariance, PTL

LEMMA NoneFreedLemma ==
    ASSUME QueueInv
    PROVE  NoneFreed
<1>1. _fr \in Places /\ _size \in Places
  BY DEF QueueInv, QueueType
<1>2. ASSUME NEW i \in 0 .. _size - 1
      PROVE  _cq[(_fr + i) % MAX_QUEUE_NODES].live \/ (i = 0 /\ handling = "deQ")
  <2>1. i \in 0 .. MAX_QUEUE_NODES
    BY <1>1, QueueAssumption DEF Places
  <2>2. (_fr + i) % MAX_QUEUE_NODES = At(_fr, i)
    BY <1>1, <2>1, PlaceLemma
  <2>3. _cq[At(_fr, i)].live \/ (i = 0 /\ handling = "deQ")
    BY DEF QueueInv, WaitingInv
  <2> QED  BY <2>2, <2>3, Zenon
<1>3. handling \in {"dispatch", "deQ"} => _size > 0 /\ node = _cq[_fr].event
  BY DEF QueueInv, WorkingInv
<1> QED  BY <1>2, <1>3, Zenon DEF NoneFreed

\* handleEvents() works on a node that is allocated and is the front one, and no node
\* in the queue is deleted but that one.
THEOREM NodesAlive == QueueSpec => []NoneFreed
<1>1. QueueInv => NoneFreed
  BY NoneFreedLemma
<1> QED  BY <1>1, QueueInvariance, PTL

----------------------------------------------------------------------------
(* The queue: its contents *)

\* The events waiting, as a sequence, and how many they are.
Shape ==
    /\ _size \in Places
    /\ contents \in Seq(Events) /\ Len(contents) = _size
    /\ \A n \in 1 .. _size : contents[n] = _cq[At(_fr, n - 1)].event

LEMMA ShapeLemma ==
    ASSUME QueueInv
    PROVE  Shape
<1>1. _fr \in Places /\ _size \in Places
  BY DEF QueueInv, QueueType
<1>2. contents = [n \in 1 .. _size |-> _cq[(_fr + n - 1) % MAX_QUEUE_NODES].event]
  BY DEF contents
<1>3. ASSUME NEW n \in 1 .. _size
      PROVE  /\ _cq[(_fr + n - 1) % MAX_QUEUE_NODES].event = _cq[At(_fr, n - 1)].event
             /\ _cq[(_fr + n - 1) % MAX_QUEUE_NODES].event \in Events
  <2>1. /\ n - 1 \in 0 .. MAX_QUEUE_NODES /\ n - 1 \in 0 .. _size - 1
        /\ _fr + (n - 1) = _fr + n - 1
    BY <1>1, QueueAssumption DEF Places
  <2>2. (_fr + (n - 1)) % MAX_QUEUE_NODES = At(_fr, n - 1)
    BY <1>1, <2>1, PlaceLemma
  <2>3. (_fr + n - 1) % MAX_QUEUE_NODES = At(_fr, n - 1)
    BY <2>1, <2>2, Zenon
  <2>4. _cq[At(_fr, n - 1)].event \in Events
    BY <2>1 DEF QueueInv, WaitingInv
  <2> QED  BY <2>3, <2>4, Zenon
<1> DEFINE e(n) == _cq[(_fr + n - 1) % MAX_QUEUE_NODES].event
<1>4. \A n \in 1 .. _size : e(n) \in Events
  BY <1>3, Zenon
<1>5. contents = [n \in 1 .. _size |-> e(n)]
  BY <1>2, Zenon
<1>6. \A n \in 1 .. _size : e(n) = _cq[At(_fr, n - 1)].event
  BY <1>3, Zenon
<1> HIDE DEF e
<1>7. contents \in Seq(Events) /\ Len(contents) = _size
  BY <1>1, <1>4, <1>5 DEF Places
<1>8. \A n \in 1 .. _size : contents[n] = e(n)
  BY <1>5, Zenon
<1>9. \A n \in 1 .. _size : contents[n] = _cq[At(_fr, n - 1)].event
  BY <1>6, <1>8, Zenon
<1> QED  BY <1>1, <1>7, <1>9, Zenon DEF Shape

LEMMA NextShape == QueueInv' => Shape'
<1>1. QueueInv => Shape
  BY ShapeLemma
<1> QED  BY <1>1, PTL

\* Two sequences of events of the same length with the same elements are the same.
LEMMA SameEvents ==
    ASSUME NEW s \in Seq(Events), NEW t \in Seq(Events), NEW l \in Nat,
           Len(s) = l, Len(t) = l, \A n \in 1 .. l : s[n] = t[n]
    PROVE  s = t
<1>1. Len(s) = Len(t) /\ \A n \in 1 .. Len(s) : s[n] = t[n]
  BY Zenon
<1> QED  BY <1>1, SeqEqual, Zenon

----------------------------------------------------------------------------
(* The queue: the refinement *)

LEMMA EnQStores ==
    ASSUME QueueInv, NEW e \in Events, EnQ(e)
    PROVE  Fifo!Store(e)
<1>1. Shape /\ Shape'
  BY ShapeLemma, EnQStep, NextShape
<1>2. /\ _size < MAX_QUEUE_NODES - 1
      /\ _fr \in Places /\ _ba \in Places /\ _size \in Places
      /\ _cq \in [Places -> Nodes] /\ _ba = At(_fr, _size)
  BY RoomLemma DEF EnQ, QueueInv, QueueType, EndsMeet
<1>3. /\ _cq' = [_cq EXCEPT ![_ba] = [event |-> e, live |-> TRUE]]
      /\ _size' = _size + 1
      /\ fate' = e
      /\ UNCHANGED <<_fr, got>>
  BY DEF EnQ
<1> DEFINE c == contents
           d == contents'
           a == Append(contents, e)
<1>4. /\ c \in Seq(Events) /\ Len(c) = _size
      /\ \A n \in 1 .. _size : c[n] = _cq[At(_fr, n - 1)].event
  BY <1>1, Zenon DEF Shape
<1>5. /\ d \in Seq(Events) /\ Len(d) = _size + 1
      /\ \A n \in 1 .. _size + 1 : d[n] = _cq'[At(_fr, n - 1)].event
  BY <1>1, <1>3, Zenon DEF Shape, At
<1> HIDE DEF c, d
<1>6. /\ a \in Seq(Events) /\ Len(a) = _size + 1
      /\ \A n \in 1 .. _size : a[n] = c[n]
      /\ a[_size + 1] = e
  BY <1>2, <1>4 DEF c, Places
<1> HIDE DEF a
<1>7. ASSUME NEW n \in 1 .. _size + 1 PROVE d[n] = a[n]
  <2>1. CASE n = _size + 1
    <3>1. At(_fr, n - 1) = _ba
      BY <1>2, <2>1, QueueAssumption DEF Places, At
    <3>2. _cq'[_ba].event = e
      BY <1>2, <1>3
    <3> QED  BY <1>5, <1>6, <2>1, <3>1, <3>2, Zenon
  <2>2. CASE n # _size + 1
    <3>1. n \in 1 .. _size /\ At(_fr, n - 1) # _ba /\ At(_fr, n - 1) \in Places
      BY <1>2, <2>2, QueueAssumption DEF Places, At
    <3>2. _cq'[At(_fr, n - 1)] = _cq[At(_fr, n - 1)]
      BY <1>2, <1>3, <3>1
    <3> QED  BY <1>4, <1>5, <1>6, <3>1, <3>2, Zenon
  <2> QED  BY <2>1, <2>2
<1>8. _size + 1 \in Nat
  BY <1>2 DEF Places
<1>9. d = a
  BY <1>5, <1>6, <1>7, <1>8, SameEvents, Zenon
<1>10. Len(contents) < MAX_QUEUE_NODES - 1
  BY <1>2, <1>4 DEF c
<1>11. contents' = Append(contents, e)
  BY <1>9, Zenon DEF a, d
<1> QED  BY <1>3, <1>10, <1>11, Zenon DEF Fifo!Store

LEMMA DeQTakes ==
    ASSUME QueueInv, DeQ
    PROVE  Fifo!Take
<1>1. Shape /\ Shape'
  BY ShapeLemma, DeQStep, NextShape
<1>2. /\ _fr \in Places /\ _size \in Places
      /\ _size > 0 /\ node = _cq[_fr].event
  BY DEF DeQ, QueueInv, QueueType, WorkingInv
<1>3. /\ _fr' = Succ(_fr) /\ _size' = _size - 1 /\ got' = node
      /\ UNCHANGED <<_cq, fate>>
  BY <1>2 DEF DeQ
<1>4. Succ(_fr) = IF _fr = MAX_QUEUE_NODES - 1 THEN 0 ELSE _fr + 1
  BY <1>2, SuccLemma
<1> DEFINE c == contents
           d == contents'
           t == Tail(contents)
<1>5. /\ c \in Seq(Events) /\ Len(c) = _size
      /\ \A n \in 1 .. _size : c[n] = _cq[At(_fr, n - 1)].event
  BY <1>1, Zenon DEF Shape
<1>6. /\ d \in Seq(Events) /\ Len(d) = _size - 1
      /\ \A n \in 1 .. _size - 1 : d[n] = _cq[At(Succ(_fr), n - 1)].event
  BY <1>1, <1>3, Zenon DEF Shape, At
<1> HIDE DEF c, d
<1>7. /\ t \in Seq(Events) /\ Len(t) = _size - 1
      /\ \A n \in 1 .. _size - 1 : t[n] = c[n + 1]
      /\ c # << >> /\ Head(c) = c[1]
  BY <1>2, <1>5 DEF c, Places
<1> HIDE DEF t
<1>8. ASSUME NEW n \in 1 .. _size - 1 PROVE d[n] = t[n]
  <2>1. n + 1 \in 1 .. _size /\ At(Succ(_fr), n - 1) = At(_fr, (n + 1) - 1)
    BY <1>2, <1>4, QueueAssumption DEF Places, At
  <2> QED  BY <1>5, <1>6, <1>7, <2>1, Zenon
<1>9. _size - 1 \in Nat
  BY <1>2 DEF Places
<1>10. d = t
  BY <1>6, <1>7, <1>8, <1>9, SameEvents, Zenon
<1>11. Head(c) = node
  <2>1. At(_fr, 1 - 1) = _fr /\ 1 \in 1 .. _size
    BY <1>2, QueueAssumption DEF Places, At
  <2> QED  BY <1>2, <1>5, <1>7, <2>1, Zenon
<1>12. contents # << >> /\ got' = Head(contents) /\ contents' = Tail(contents)
  BY <1>3, <1>7, <1>10, <1>11, Zenon DEF c, d, t
<1> QED  BY <1>3, <1>12, Zenon DEF Fifo!Take

\* What deletes a node changes no event.
LEMMA DispatchedKeeps ==
    ASSUME QueueInv, Dispatched
    PROVE  UNCHANGED <<contents, fate, got>>
<1>1. Shape /\ Shape'
  BY ShapeLemma, DispatchedStep, NextShape
<1>2. /\ _fr \in Places /\ _size \in Places /\ _cq \in [Places -> Nodes]
      /\ _cq' = [_cq EXCEPT ![_fr].live = FALSE]
      /\ UNCHANGED <<_fr, _size, fate, got>>
  BY DEF Dispatched, QueueInv, QueueType
<1>3. \A p \in Places : _cq'[p].event = _cq[p].event
  BY <1>2 DEF Nodes
<1> DEFINE c == contents
           d == contents'
<1>4. /\ c \in Seq(Events) /\ Len(c) = _size
      /\ \A n \in 1 .. _size : c[n] = _cq[At(_fr, n - 1)].event
  BY <1>1, Zenon DEF Shape
<1>5. /\ d \in Seq(Events) /\ Len(d) = _size
      /\ \A n \in 1 .. _size : d[n] = _cq'[At(_fr, n - 1)].event
  BY <1>1, <1>2, Zenon DEF Shape, At
<1> HIDE DEF c, d
<1>6. \A n \in 1 .. _size : At(_fr, n - 1) \in Places
  BY <1>2, QueueAssumption DEF Places, At
<1>7. \A n \in 1 .. _size : d[n] = c[n]
  BY <1>3, <1>4, <1>5, <1>6, Zenon
<1>8. _size \in Nat
  BY <1>2 DEF Places
<1>9. d = c
  BY <1>4, <1>5, <1>7, <1>8, SameEvents, Zenon
<1> QED  BY <1>2, <1>9, Zenon DEF c, d

LEMMA SameContents ==
    ASSUME UNCHANGED queue
    PROVE  UNCHANGED contents
  BY DEF queue, contents

\* Every event is handled once, in the order of arrival, and an event is only lost when
\* all other places wait, whatever the number of nodes.
THEOREM QueueIsFifo == QueueSpec => ImplementsQueue
<1>1. QueueInit => Fifo!Init
  <2> SUFFICES ASSUME QueueInit PROVE Fifo!Init
    OBVIOUS
  <2>1. Shape
    BY InitQueueInv, ShapeLemma
  <2>2. contents = << >>
    BY <2>1 DEF QueueInit, Shape
  <2> QED  BY <2>2 DEF QueueInit, Fifo!Init
<1>2. QueueInv /\ [QueueNext]_queue_vars => [Fifo!Next]_<<contents, fate, got>>
  <2> SUFFICES ASSUME QueueInv, [QueueNext]_queue_vars
               PROVE  [Fifo!Next]_<<contents, fate, got>>
    OBVIOUS
  <2>1. Shape
    BY ShapeLemma
  <2>2. ASSUME NEW e \in Events, EnQ(e) PROVE Fifo!Next
    BY <2>2, EnQStores, Zenon DEF Fifo!Next
  <2>3. CASE EnQFull
    <3>1. Len(contents) = MAX_QUEUE_NODES - 1
      <4>1. ~(_size < MAX_QUEUE_NODES - 1)
        BY <2>3, RoomLemma DEF EnQFull
      <4> QED  BY <2>1, <4>1, QueueAssumption DEF Shape, Places
    <3>2. UNCHANGED contents
      BY <2>3, SameContents DEF EnQFull
    <3> QED  BY <2>3, <3>1, <3>2 DEF EnQFull, Fifo!Next, Fifo!Refuse
  <2>4. CASE HandleEvents
    BY <2>4, SameContents DEF HandleEvents
  <2>5. CASE FrQ
    BY <2>5, SameContents DEF FrQ
  <2>6. CASE FrQEmpty
    <3>1. contents = << >>
      BY <2>1, <2>6 DEF Shape, FrQEmpty
    <3> QED  BY <2>6, <3>1, SameContents DEF FrQEmpty, Fifo!Next, Fifo!Miss
  <2>7. CASE Dispatched
    BY <2>7, DispatchedKeeps
  <2>8. CASE DeQ
    BY <2>8, DeQTakes DEF Fifo!Next
  <2>9. CASE UNCHANGED queue_vars
    BY <2>9, SameContents DEF queue_vars
  <2> QED  BY <2>2, <2>3, <2>4, <2>5, <2>6, <2>7, <2>8, <2>9 DEF QueueNext
<1> QED  BY <1>1, <1>2, QueueInvariance, PTL DEF QueueSpec, ImplementsQueue, Fifo!Spec

----------------------------------------------------------------------------
(* The server: its invariants *)

Types == {"SERVICE", "CHARACTERISTIC", "DESCRIPTOR"}

\* The declarations of a service, as far as it has made them: those marked are the
\* first ones.
DeclaredInv(s) ==
    /\ declared[s] \in Seq(Types) /\ Len(declared[s]) <= Len(profile[s])
    /\ \A i \in 1 .. Len(declared[s]) : declared[s][i] = profile[s][i]
    /\ trigged[s] = 1 .. Len(declared[s])

\* The service is only started, and listens, when it has made them all.
CompleteInv(s) ==
    pending[s] \in {"start", "listen"} \/ s \in listening => Len(declared[s]) = Len(profile[s])

ChainType ==
    /\ profile \in [Services -> Profiles]
    /\ DOMAIN declared = Services /\ DOMAIN trigged = Services
    /\ pending \in [Services -> Requests \cup {"none"}]
    /\ listening \subseteq Services

ChainInv == ChainType /\ \A s \in Services : DeclaredInv(s) /\ CompleteInv(s)

\* Before the first service is begun nothing can put an event into the queue, and the
\* sketch is in a call of the server only before that.
IdleInv ==
    ~again /\ _gatts_service = {} =>
        /\ entering = NoEvent
        /\ listening = {} /\ \A s \in Services : pending[s] = "none"
        /\ sent > 0 => m_msg.func \in {"begin", "end"} \X {Server}

ServerFirst == ~again /\ Locked => _gatts_service = {}

LockInv == IdleInv /\ ServerFirst

----------------------------------------------------------------------------
(* The server uses the queue *)

\* What a callback wants to put into the queue is an event.
EnteringInv == entering \in Events \cup {NoEvent}

LEMMA EnteringStep == EnteringInv /\ [Next]_vars => EnteringInv'
<1> SUFFICES ASSUME EnteringInv, [Next]_vars PROVE EnteringInv'
  OBVIOUS
<1> USE DEF EnteringInv
<1>1. ASSUME NEW s \in Services, AttributeAdded(s) PROVE EnteringInv'
  <2>1. entering' \in {<<"CHAR_ADDED", s>>, <<"DESC_ADDED", s>>}
    BY <1>1 DEF AttributeAdded, Enters
  <2>2. <<"CHAR_ADDED", s>> \in Events /\ <<"DESC_ADDED", s>> \in Events
    BY EventAssumption
  <2> QED  BY <2>1, <2>2
<1>2. ASSUME NEW s \in Services, Request(s) PROVE EnteringInv'
  <2>1. PICK evt \in Asked : entering' = <<evt, s>>
    BY <1>2 DEF Request, Enters
  <2>2. <<evt, s>> \in Events
    BY EventAssumption
  <2> QED  BY <2>1, <2>2
<1>3. CASE StackAnswer
  BY <1>1, <1>3 DEF StackAnswer, Registered, ServiceAdded, Started, Listens, RequestFails
<1>4. CASE ClientRequest
  BY <1>2, <1>4 DEF ClientRequest
<1>5. CASE EntersQueue
  BY <1>5 DEF EntersQueue, Enter, Enters
<1>6. CASE Sketch
  BY <1>6 DEF Sketch, CallServer, EndService, Send, Handle
<1>7. CASE InCall
  BY <1>7 DEF InCall, BeginService, BeginReturns, Returned, Handling
<1>8. CASE HandleSysevt \/ Posts \/ CmEvent \/ Chip \/ UNCHANGED vars
  BY <1>8 DEF HandleSysevt, Posts, CmEvent, Chip, vars
<1> QED  BY <1>3, <1>4, <1>5, <1>6, <1>7, <1>8 DEF Next

\* Every step is one of the queue's or leaves it alone.
LEMMA QueueStep == EnteringInv /\ [Next]_vars => [QueueNext]_queue_vars
<1> SUFFICES ASSUME EnteringInv, [Next]_vars PROVE [QueueNext]_queue_vars
  OBVIOUS
<1>1. CASE Sketch
  BY <1>1 DEF Sketch, CallServer, EndService, Send, Handle, QueueNext
<1>2. CASE InCall
  BY <1>2 DEF InCall, BeginService, BeginReturns, Returned, Handling, QueueNext
<1>3. CASE EntersQueue
  BY <1>3 DEF EntersQueue, Enter, Busy, EnteringInv, QueueNext
<1>4. CASE HandleSysevt \/ Posts \/ StackAnswer \/ ClientRequest \/ CmEvent \/ Chip
  BY <1>4 DEF HandleSysevt, Posts, StackAnswer, ClientRequest, CmEvent, Chip
<1>5. CASE UNCHANGED vars
  BY <1>5 DEF vars
<1> QED  BY <1>1, <1>2, <1>3, <1>4, <1>5 DEF Next

LEMMA ServerUsesQueue == Spec => QueueSpec
<1>1. Init => EnteringInv /\ QueueInit
  BY DEF Init, EnteringInv
<1> QED  BY <1>1, EnteringStep, QueueStep, PTL DEF Spec, QueueSpec

\* However callbacks and handleEvents() interleave, handleEvents() works on a node that is
\* allocated and is the front one (LGATTServer.cpp:299 deletes it before it is taken out).
THEOREM NodesAliveInServer == Spec => []NoneFreed
  BY ServerUsesQueue, NodesAlive, PTL

\* The events of all services are handled once each, in the order of arrival; one is lost
\* only when MAX_QUEUE_NODES - 1 others wait.
THEOREM EventsInOrder == Spec => ImplementsQueue
  BY ServerUsesQueue, QueueIsFifo, PTL

----------------------------------------------------------------------------
(* The declarations *)

LEMMA UntriggedLemma ==
    ASSUME ChainInv, NEW s \in Services
    PROVE  /\ profile[s] \in Seq(Types) /\ Len(profile[s]) \in Nat /\ Len(declared[s]) \in Nat
           /\ DOMAIN profile[s] = 1 .. Len(profile[s])
           /\ Untrigged(s) = Len(declared[s]) + 1 .. Len(profile[s])
<1>1. profile[s] \in Seq(Types)
  BY ProfileAssumption DEF ChainInv, ChainType, Types
<1>2. Len(profile[s]) \in Nat /\ DOMAIN profile[s] = 1 .. Len(profile[s])
  BY <1>1
<1>3. declared[s] \in Seq(Types) /\ trigged[s] = 1 .. Len(declared[s])
  BY DEF ChainInv, DeclaredInv
<1>4. Len(declared[s]) \in Nat
  BY <1>3
<1> QED  BY <1>1, <1>2, <1>3, <1>4 DEF Untrigged

\* addDeclaration finds the item after those that were made.
LEMMA FirstLemma ==
    ASSUME ChainInv, NEW s \in Services, Len(declared[s]) < Len(profile[s])
    PROVE  First(s) = Len(declared[s]) + 1
<1> DEFINE k == Len(declared[s])
           n == Len(profile[s])
<1>1. k \in Nat /\ n \in Nat /\ k < n /\ Untrigged(s) = k + 1 .. n
  BY UntriggedLemma
<1> HIDE DEF k, n
<1>2. First(s) = CHOOSE i \in k + 1 .. n : \A j \in k + 1 .. n : i <= j
  BY <1>1 DEF First
<1>3. k + 1 \in k + 1 .. n /\ \A j \in k + 1 .. n : k + 1 <= j
  BY <1>1
<1>4. \A i \in k + 1 .. n : (\A j \in k + 1 .. n : i <= j) => i = k + 1
  BY <1>1
<1>5. First(s) = k + 1
  BY <1>2, <1>3, <1>4
<1> QED  BY <1>5 DEF k

LEMMA EndLemma ==
    ASSUME ChainInv, NEW s \in Services
    PROVE  NextType(s) = "END" <=> Len(declared[s]) = Len(profile[s])
<1>1. /\ profile[s] \in Seq(Types) /\ Len(profile[s]) \in Nat /\ Len(declared[s]) \in Nat
      /\ Untrigged(s) = Len(declared[s]) + 1 .. Len(profile[s])
      /\ Len(declared[s]) <= Len(profile[s])
  BY UntriggedLemma DEF ChainInv, DeclaredInv
<1>2. CASE Len(declared[s]) = Len(profile[s])
  BY <1>1, <1>2 DEF NextType
<1>3. CASE Len(declared[s]) < Len(profile[s])
  <2>1. First(s) \in 1 .. Len(profile[s]) /\ Untrigged(s) # {}
    BY <1>1, <1>3, FirstLemma
  <2>2. profile[s][First(s)] \in Types
    BY <1>1, <2>1
  <2> QED  BY <1>3, <1>1, <2>1, <2>2 DEF NextType, Types
<1> QED  BY <1>1, <1>2, <1>3

\* It declares that item, and no other service's.
LEMMA AddLemma ==
    ASSUME ChainInv, NEW s \in Services, NEW type \in Types, AddDeclaration(s, type),
           UNCHANGED profile
    PROVE  /\ Len(declared[s]) < Len(profile[s])
           /\ DOMAIN declared' = Services /\ DOMAIN trigged' = Services
           /\ DeclaredInv(s)'
           /\ \A t \in Services \ {s} : declared'[t] = declared[t] /\ trigged'[t] = trigged[t]
<1>1. /\ profile[s] \in Seq(Types) /\ Len(profile[s]) \in Nat /\ Len(declared[s]) \in Nat
      /\ declared[s] \in Seq(Types) /\ Len(declared[s]) <= Len(profile[s])
      /\ \A i \in 1 .. Len(declared[s]) : declared[s][i] = profile[s][i]
      /\ trigged[s] = 1 .. Len(declared[s])
      /\ DOMAIN declared = Services /\ DOMAIN trigged = Services
      /\ Untrigged(s) = Len(declared[s]) + 1 .. Len(profile[s])
  BY UntriggedLemma DEF ChainInv, ChainType, DeclaredInv
<1>2. NextType(s) = type /\ type # "END"
  BY DEF AddDeclaration, Types
<1>3. Len(declared[s]) < Len(profile[s])
  BY <1>1, <1>2, EndLemma
<1>4. First(s) = Len(declared[s]) + 1 /\ profile[s][First(s)] = type
  BY <1>1, <1>2, <1>3, FirstLemma DEF NextType
<1>5. /\ declared' = [declared EXCEPT ![s] = Append(declared[s], type)]
      /\ trigged' = [trigged EXCEPT ![s] = trigged[s] \cup {First(s)}]
  BY DEF AddDeclaration
<1>6. declared'[s] = Append(declared[s], type) /\ trigged'[s] = trigged[s] \cup {First(s)}
  BY <1>1, <1>5
<1> DEFINE d == declared[s]
           p == profile[s]
           e == Append(d, type)
<1>7. /\ e \in Seq(Types) /\ Len(e) = Len(d) + 1 /\ Len(e) <= Len(p)
      /\ \A i \in 1 .. Len(e) : e[i] = p[i]
  <2>1. d \in Seq(Types) /\ Len(d) < Len(p) /\ Len(p) \in Nat /\ p[Len(d) + 1] = type
        /\ \A i \in 1 .. Len(d) : d[i] = p[i]
    BY <1>1, <1>3, <1>4
  <2> HIDE DEF d, p
  <2> QED  BY <2>1
<1>8. trigged'[s] = 1 .. Len(e)
  BY <1>1, <1>4, <1>6, <1>7
<1>9. DeclaredInv(s)'
  <2> HIDE DEF e
  <2>1. declared'[s] = e /\ profile'[s] = p
    BY <1>6 DEF e
  <2> QED  BY <1>7, <1>8, <2>1, Zenon DEF DeclaredInv
<1> QED  BY <1>1, <1>3, <1>5, <1>9

chain == <<profile, trigged, declared, pending, listening>>

\* A step of one service's chain: it declares an item or none, and its request changes.
LEMMA ServiceStep ==
    ASSUME ChainInv, NEW s \in Services, NEW r \in Requests \cup {"none"},
           UNCHANGED profile, Owes(s, r),
           listening' = listening \/ (listening' = listening \cup {s} /\ pending[s] = "listen"),
           \/ \E type \in Types : AddDeclaration(s, type) /\ r \notin {"start", "listen"}
                                 /\ listening' = listening
           \/ /\ UNCHANGED <<trigged, declared>>
              /\ r \in {"start", "listen"} => NextType(s) = "END" \/ pending[s] \in {"start", "listen"}
    PROVE  ChainInv'
<1>1. /\ pending \in [Services -> Requests \cup {"none"}]
      /\ pending' = [pending EXCEPT ![s] = r]
      /\ listening \subseteq Services /\ profile \in [Services -> Profiles]
      /\ DOMAIN declared = Services /\ DOMAIN trigged = Services
  BY DEF ChainInv, ChainType, Owes
<1>2. /\ pending' \in [Services -> Requests \cup {"none"}]
      /\ pending'[s] = r /\ \A t \in Services \ {s} : pending'[t] = pending[t]
      /\ listening' \subseteq Services
      /\ \A t \in Services \ {s} : t \in listening' <=> t \in listening
  BY <1>1
<1>3. ASSUME NEW t \in Services \ {s}, declared'[t] = declared[t], trigged'[t] = trigged[t]
      PROVE  DeclaredInv(t)' /\ CompleteInv(t)'
  <2>1. DeclaredInv(t) /\ CompleteInv(t)
    BY DEF ChainInv
  <2> QED  BY <1>2, <1>3, <2>1 DEF DeclaredInv, CompleteInv
<1>4. CASE \E type \in Types : AddDeclaration(s, type) /\ r \notin {"start", "listen"}
                                 /\ listening' = listening
  <2>1. PICK type \in Types : AddDeclaration(s, type)
    BY <1>4
  <2>2. r \notin {"start", "listen"} /\ listening' = listening
    BY <1>4
  <2>3. /\ Len(declared[s]) < Len(profile[s])
        /\ DOMAIN declared' = Services /\ DOMAIN trigged' = Services
        /\ DeclaredInv(s)'
        /\ \A t \in Services \ {s} : declared'[t] = declared[t] /\ trigged'[t] = trigged[t]
    BY <2>1, AddLemma
  <2>4. s \notin listening
    <3>1. Len(declared[s]) \in Nat /\ Len(profile[s]) \in Nat /\ CompleteInv(s)
      BY UntriggedLemma DEF ChainInv
    <3> QED  BY <2>3, <3>1 DEF CompleteInv
  <2>5. CompleteInv(s)'
    BY <1>2, <2>2, <2>4 DEF CompleteInv
  <2> QED  BY <1>1, <1>2, <1>3, <2>3, <2>5 DEF ChainInv, ChainType
<1>5. CASE /\ UNCHANGED <<trigged, declared>>
           /\ r \in {"start", "listen"} => NextType(s) = "END" \/ pending[s] \in {"start", "listen"}
  <2>1. DeclaredInv(s) /\ CompleteInv(s)
    BY DEF ChainInv
  <2>2. DeclaredInv(s)'
    BY <1>5, <2>1 DEF DeclaredInv
  <2>3. r \in {"start", "listen"} \/ s \in listening' => Len(declared[s]) = Len(profile[s])
    BY <1>5, <2>1, EndLemma DEF CompleteInv
  <2>4. CompleteInv(s)'
    BY <1>2, <1>5, <2>3 DEF CompleteInv
  <2> QED  BY <1>1, <1>2, <1>3, <1>5, <2>2, <2>4 DEF ChainInv, ChainType
<1> QED  BY <1>4, <1>5

LEMMA ContinueStep ==
    ASSUME ChainInv, NEW s \in Services, Continue(s), UNCHANGED <<profile, listening>>
    PROVE  ChainInv'
<1>1. CASE AddDeclaration(s, "CHARACTERISTIC") /\ Owes(s, "characteristic")
  BY <1>1, ServiceStep DEF Types, Requests
<1>2. CASE AddDeclaration(s, "DESCRIPTOR") /\ Owes(s, "descriptor")
  BY <1>2, ServiceStep DEF Types, Requests
<1>3. CASE NextType(s) = "END" /\ Owes(s, "start") /\ UNCHANGED <<trigged, declared>>
  BY <1>3, ServiceStep DEF Requests
<1> QED  BY <1>1, <1>2, <1>3 DEF Continue

LEMMA SameChain ==
    ASSUME ChainInv, UNCHANGED chain
    PROVE  ChainInv'
  BY DEF chain, ChainInv, ChainType, DeclaredInv, CompleteInv

LEMMA ChainStep == ChainInv /\ [Next]_vars => ChainInv'
<1> SUFFICES ASSUME ChainInv, [Next]_vars PROVE ChainInv'
  OBVIOUS
<1>1. ASSUME StackAnswer PROVE ChainInv'
  <2>1. UNCHANGED profile
    BY <1>1 DEF StackAnswer
  <2>2. PICK s \in Services :
           \/ Registered(s) \/ ServiceAdded(s) \/ AttributeAdded(s) \/ Started(s)
           \/ (\E ok \in BOOLEAN : Listens(s, ok)) \/ RequestFails(s)
    BY <1>1 DEF StackAnswer
  <2>3. CASE Registered(s)
    BY <2>1, <2>3, ServiceStep DEF Registered, Types, Requests
  <2>4. CASE ServiceAdded(s)
    <3>1. CASE AddDeclaration(s, "CHARACTERISTIC") /\ Owes(s, "characteristic")
      BY <2>1, <2>4, <3>1, ServiceStep DEF ServiceAdded, Types, Requests
    <3>2. CASE Owes(s, "none") /\ UNCHANGED <<trigged, declared>>
      BY <2>1, <2>4, <3>2, ServiceStep DEF ServiceAdded
    <3> QED  BY <2>4, <3>1, <3>2 DEF ServiceAdded
  <2>5. CASE AttributeAdded(s)
    BY <2>1, <2>5, ContinueStep DEF AttributeAdded
  <2>6. CASE Started(s)
    BY <2>1, <2>6, ServiceStep DEF Started, Requests
  <2>7. ASSUME NEW ok \in BOOLEAN, Listens(s, ok) PROVE ChainInv'
    BY <2>1, <2>7, ServiceStep DEF Listens
  <2>8. CASE RequestFails(s)
    BY <2>1, <2>8, ServiceStep DEF RequestFails
  <2> QED  BY <2>2, <2>3, <2>4, <2>5, <2>6, <2>7, <2>8
<1>2. ASSUME HandleSysevt PROVE ChainInv'
  <2>1. UNCHANGED <<profile, trigged, declared, listening>>
    BY <1>2 DEF HandleSysevt
  <2>2. ASSUME NEW s \in Services, ServiceRegisters(s) PROVE ChainInv'
    BY <2>1, <2>2, ServiceStep DEF ServiceRegisters, Owes, Requests
  <2>3. CASE UNCHANGED pending
    BY <2>1, <2>3, SameChain DEF chain
  <2>4. UNCHANGED pending \/ \E s \in Services : ServiceRegisters(s)
    BY <1>2 DEF HandleSysevt, ServiceRefused, ServiceSends, ServiceEnds
  <2> QED  BY <2>2, <2>3, <2>4
<1>3. CASE ClientRequest
  BY <1>3, SameChain DEF ClientRequest, Request, chain
<1>4. CASE Sketch
  BY <1>4, SameChain DEF Sketch, CallServer, EndService, Send, Handle, registry, chain
<1>5. CASE InCall
  BY <1>5, SameChain DEF InCall, BeginService, BeginReturns, Returned, Handling, registry, chain
<1>6. CASE Posts \/ CmEvent \/ EntersQueue \/ Chip \/ UNCHANGED vars
  BY <1>6, SameChain DEF Posts, CmEvent, EntersQueue, Chip, vars, registry, chain
<1> QED  BY <1>1, <1>2, <1>3, <1>4, <1>5, <1>6 DEF Next

LEMMA InitChain == Init => ChainInv
<1> SUFFICES ASSUME Init PROVE ChainInv
  OBVIOUS
<1>1. ChainType
  BY DEF Init, ChainType
<1>2. ASSUME NEW s \in Services PROVE DeclaredInv(s) /\ CompleteInv(s)
  <2>1. profile[s] \in Seq(Types)
    BY <1>1, ProfileAssumption DEF ChainType, Types
  <2>2. Len(profile[s]) \in Nat
    BY <2>1
  <2>3. declared[s] = << >> /\ trigged[s] = {} /\ pending[s] = "none" /\ s \notin listening
    BY DEF Init
  <2> QED  BY <2>2, <2>3 DEF DeclaredInv, CompleteInv
<1> QED  BY <1>1, <1>2 DEF ChainInv

\* The chain of callbacks declares every service's profile in order, each item once, and a
\* service that listens has declared all of it, whatever the profiles and failures.
THEOREM ProfilesDeclared == Spec => []DeclaredInOrder
<1>1. Init => ChainInv
  BY InitChain
<1>2. ChainInv => DeclaredInOrder
  <2> SUFFICES ASSUME ChainInv, NEW s \in Services
               PROVE  /\ IsPrefix(declared[s], profile[s])
                      /\ s \in listening => declared[s] = profile[s]
    BY DEF DeclaredInOrder
  <2> DEFINE d == declared[s]
             p == profile[s]
  <2>1. /\ d \in Seq(Types) /\ p \in Seq(Types) /\ Len(d) \in Nat /\ Len(p) \in Nat
        /\ Len(d) <= Len(p) /\ \A i \in 1 .. Len(d) : d[i] = p[i]
        /\ s \in listening => Len(d) = Len(p)
    BY UntriggedLemma DEF ChainInv, DeclaredInv, CompleteInv
  <2> HIDE DEF d, p
  <2>2. SubSeq(d, 1, Len(d)) = SubSeq(p, 1, Len(d))
    <3> DEFINE l == Len(d)
               a == SubSeq(d, 1, l)
               b == SubSeq(p, 1, l)
    <3>1. a \in Seq(Types) /\ b \in Seq(Types) /\ Len(a) = l /\ Len(b) = l
      BY <2>1
    <3>2. \A i \in 1 .. l : a[i] = b[i]
      BY <2>1
    <3> HIDE DEF a, b, l
    <3>3. Len(a) = Len(b) /\ \A i \in 1 .. Len(a) : a[i] = b[i]
      BY <3>1, <3>2, Zenon
    <3>4. a = b
      BY <3>1, <3>3, SeqEqual, Zenon
    <3> QED  BY <3>4, Zenon DEF a, b, l
  <2>3. IsPrefix(d, p)
    BY <2>1, <2>2, Zenon DEF IsPrefix
  <2>4. s \in listening => d = p
    BY <2>1, SeqEqual, Zenon
  <2> QED  BY <2>3, <2>4, Zenon DEF d, p
<1> QED  BY <1>1, <1>2, ChainStep, PTL DEF Spec

----------------------------------------------------------------------------
(* The mutex *)

LEMMA LockStep == LockInv /\ [Next]_vars => LockInv'
<1> SUFFICES ASSUME LockInv, [Next]_vars PROVE LockInv'
  OBVIOUS
<1> USE DEF LockInv, IdleInv, ServerFirst, Locked, Mutex
<1>1. CASE Sketch
  <2>1. ASSUME NEW f \in {"begin", "end"}, CallServer(f) PROVE LockInv'
    <3>1. /\ call' = <<f, Server>> /\ m_msg'.func = <<f, Server>>
          /\ again' = (again \/ _gatts_service # {})
          /\ UNCHANGED <<entering, listening, pending, _gatts_service>>
      BY <2>1 DEF CallServer, Fill, registry
    <3>2. m_msg'.func \in {"begin", "end"} \X {Server}
      BY <3>1
    <3>3. IdleInv'
      BY <3>1, <3>2
    <3>4. ServerFirst'
      BY <3>1
    <3> QED  BY <3>3, <3>4
  <2>2. ASSUME NEW s \in Services, EndService(s) \/ Send(s) PROVE LockInv'
    <3>1. /\ s \in listening
          /\ call'[2] = s /\ UNCHANGED <<entering, registry, history>>
      BY <2>2 DEF EndService, Send, Call, Fill
    <3> QED  BY <3>1, ServerAssumption DEF registry, history
  <2>3. CASE Handle
    BY <2>3 DEF Handle, rpc, registry, history
  <2> QED  BY <1>1, <2>1, <2>2, <2>3 DEF Sketch
<1>2. CASE InCall
  <2>1. CASE BeginService
    <3>1. ~again /\ UNCHANGED again
      BY <2>1 DEF BeginService, Outside, history
    <3>2. PICK s \in Services : /\ _gatts_service' = _gatts_service \cup {s}
                               /\ \/ call' = <<"begin", s>>
                                  \/ call' = None
      <4>1. begun + 1 \in Services
        BY <2>1, ServerAssumption DEF BeginService, Services
      <4> QED  BY <2>1, <4>1 DEF BeginService, Outside, Call, Fill, rpc
    <3>3. s \in _gatts_service' /\ <<"begin", s>>[2] = s /\ s # Server
      BY <3>2, ServerAssumption
    <3>4. ~Locked'
      BY <3>2, <3>3
    <3> QED  BY <3>3, <3>4
  <2>2. CASE Returned
    BY <2>2 DEF Returned, Return, registry, history
  <2>3. CASE BeginReturns \/ Handling
    BY <2>3 DEF BeginReturns, Handling, rpc, registry, history
  <2> QED  BY <1>2, <2>1, <2>2, <2>3 DEF InCall
<1>3. CASE HandleSysevt
  <2>1. /\ UNCHANGED <<call, m_msg, _gatts_service, again, entering, listening>>
        /\ sent > 0
    BY <1>3 DEF HandleSysevt, ServerReady, ServerWaits, ServerEnds, ServiceRefused,
                ServiceRegisters, ServiceSends, ServiceEnds, Run
  <2>2. UNCHANGED pending \/ \E s \in Services : m_msg.func = <<"begin", s>>
    BY <1>3 DEF HandleSysevt, ServiceRefused, ServiceRegisters, ServiceSends, ServiceEnds, Run
  <2>3. ASSUME NEW s \in Services, m_msg.func = <<"begin", s>>
        PROVE  m_msg.func \notin {"begin", "end"} \X {Server}
    BY <2>3, ServerAssumption
  <2> QED  BY <2>1, <2>2, <2>3
<1>4. CASE StackAnswer
  <2>1. PICK s \in Services : pending[s] # "none"
    BY <1>4 DEF StackAnswer, Registered, ServiceAdded, AttributeAdded, Started, Listens, RequestFails
  <2>2. UNCHANGED <<call, m_msg, sent, _gatts_service, again>>
    BY <1>4 DEF StackAnswer, Registered, ServiceAdded, AttributeAdded, Started, Listens, RequestFails,
                Event
  <2> QED  BY <2>1, <2>2
<1>5. CASE ClientRequest
  <2>1. PICK s \in Services : s \in listening
    BY <1>5 DEF ClientRequest, Request
  <2>2. UNCHANGED <<call, m_msg, sent, _gatts_service, again>>
    BY <1>5 DEF ClientRequest, Request, Event
  <2> QED  BY <2>1, <2>2
<1>6. CASE CmEvent
  BY <1>6 DEF CmEvent, Activate, Deactivate, Event, registry, history
<1>7. CASE EntersQueue
  BY <1>7 DEF EntersQueue, Enter, Enters, rpc, registry, history
<1>8. CASE Posts
  BY <1>8 DEF Posts, PostResult, registry, history
<1>9. CASE Chip
  BY <1>9 DEF Chip, rpc, registry, history
<1>10. CASE UNCHANGED vars
  BY <1>10 DEF vars, rpc, registry, history
<1> QED  BY <1>1, <1>2, <1>3, <1>4, <1>5, <1>6, <1>7, <1>8, <1>9, <1>10 DEF Next

LEMMA InitLock == Init => LockInv
  BY DEF Init, RpcInit, LockInv, IdleInv, ServerFirst

\* A callback that wants to queue an event only finds the mutex locked by a sketch that
\* waits for the main thread in a second begin() or an end(): the first begin() is safe.
THEOREM FirstBeginSafe == Spec => []FirstBeginFree
<1>1. Init => LockInv
  BY InitLock
<1>2. LockInv => FirstBeginFree
  BY DEF LockInv, IdleInv, ServerFirst, FirstBeginFree, Busy
<1> QED  BY <1>1, <1>2, LockStep, PTL DEF Spec

----------------------------------------------------------------------------
(* The answers *)

Unowed == \A s \in Services : pending[s] = "none"

\* The one call, its message or its answer: the stack owes an answer only to the begin() of
\* the service that asked, and only when nothing else of that call is under way.
OneAnswerInv ==
    /\ call = None => sent = 0 /\ ~signal /\ ~posting
    /\ sent # 0 => sent = 1 /\ ~signal /\ ~posting /\ Unowed /\ m_msg.func = call
    /\ signal \/ posting => Unowed
    /\ ~(signal /\ posting)
    /\ \A s \in Services : pending[s] # "none" => call = <<"begin", s>>

\* The server is begun once.  Until then it listens to no power event, and its signal is
\* not set before its call.
FreshInv ==
    /\ begun \in Int
    /\ begun >= 1 => _gatts_service # {}
    /\ _gatts_service = {} /\ begun = -1 => ~_hdl_btcm /\ ~stray
    /\ sent # 0 /\ call[2] = Server => ~_hdl_btcm
    /\ call = <<"end", Server>> => begun = -1
    /\ call = <<"begin", Server>> => begun # -1
    /\ \A s \in Services : call \in {"begin", "end", "send"} \X {s} => _gatts_service # {}

AnswerInv == ~again => OneAnswerInv /\ FreshInv

\* A step that leaves the call, the requests and the registry alone.
SameAnswer ==
    UNCHANGED <<rpc, pending, again, begun, stray, _hdl_btcm, _gatts_service>>

LEMMA SameAnswerStep ==
    ASSUME AnswerInv, SameAnswer
    PROVE  AnswerInv'
  BY DEF AnswerInv, OneAnswerInv, FreshInv, SameAnswer, Unowed, rpc

\* An event that posts for nobody.
LEMMA SilentStep ==
    ASSUME AnswerInv, Event(FALSE), NEW s \in Services, pending[s] # "none",
           NEW r \in Requests \cup {"none"}, Owes(s, r), DOMAIN pending = Services,
           UNCHANGED <<again, begun, stray, _hdl_btcm, _gatts_service>>
    PROVE  AnswerInv'
<1> SUFFICES ASSUME ~again PROVE OneAnswerInv' /\ FreshInv'
  BY DEF AnswerInv
<1>1. OneAnswerInv /\ FreshInv
  BY DEF AnswerInv
<1>2. call = <<"begin", s>> /\ sent = 0 /\ ~signal /\ ~posting
  BY <1>1 DEF OneAnswerInv, Unowed
<1>3. UNCHANGED <<call, m_msg, sent, posting>> /\ ~signal'
  BY <1>2 DEF Event
<1>4. \A t \in Services : t # s => pending'[t] = pending[t]
  BY DEF Owes
<1>5. OneAnswerInv'
  BY <1>1, <1>2, <1>3, <1>4, NoneAssumption DEF OneAnswerInv
<1>6. FreshInv'
  BY <1>1, <1>3 DEF FreshInv
<1> QED  BY <1>5, <1>6

\* An event that answers the begin() of a service.
LEMMA AnsweredStep ==
    ASSUME AnswerInv, Event(TRUE), NEW s \in Services, pending[s] # "none", Owes(s, "none"),
           DOMAIN pending = Services,
           UNCHANGED <<again, begun, stray, _hdl_btcm, _gatts_service>>
    PROVE  AnswerInv'
<1> SUFFICES ASSUME ~again PROVE OneAnswerInv' /\ FreshInv'
  BY DEF AnswerInv
<1>1. OneAnswerInv /\ FreshInv
  BY DEF AnswerInv
<1>2. call = <<"begin", s>> /\ sent = 0 /\ ~posting
  BY <1>1 DEF OneAnswerInv, Unowed
<1>3. UNCHANGED <<call, m_msg, sent, posting>>
  BY DEF Event
<1>4. \A t \in Services : t # s => pending[t] = "none"
  BY <1>1, <1>2 DEF OneAnswerInv
<1>5. Unowed'
  BY <1>4 DEF Owes, Unowed
<1>6. call' # None
  BY <1>2, <1>3, NoneAssumption DEF Functions
<1>7. OneAnswerInv'
  BY <1>2, <1>3, <1>5, <1>6 DEF OneAnswerInv, Unowed
<1>8. FreshInv'
  BY <1>1, <1>3 DEF FreshInv
<1> QED  BY <1>7, <1>8

\* A call the sketch makes.
LEMMA CallStep ==
    ASSUME AnswerInv, ~again, NEW f \in Functions, Fill(f), ~signal',
           UNCHANGED <<pending, _gatts_service, _hdl_btcm>>, begun = -1, begun' \in Int,
           begun' >= 1 => _gatts_service # {},
           _gatts_service = {} /\ begun' = -1 => ~stray',
           f[2] = Server => ~_hdl_btcm,
           f = <<"end", Server>> => begun' = -1,
           f = <<"begin", Server>> => begun' # -1,
           \A s \in Services : f \in {"begin", "end", "send"} \X {s} => _gatts_service # {}
    PROVE  OneAnswerInv' /\ FreshInv'
<1>1. OneAnswerInv /\ FreshInv
  BY DEF AnswerInv
<1>2. /\ sent = 0 /\ ~signal /\ ~posting /\ Unowed
  BY <1>1, NoneAssumption DEF Fill, OneAnswerInv, Unowed, Functions
<1>3. /\ call' = f /\ sent' = 1 /\ ~posting' /\ m_msg'.func = f /\ f # None
  BY <1>2, NoneAssumption DEF Fill
<1>4. Unowed'
  BY <1>2 DEF Unowed
<1>5. OneAnswerInv'
  BY <1>3, <1>4 DEF OneAnswerInv, Unowed
<1>6. call' = <<"end", Server>> => begun' = -1
  BY <1>3
<1>7. call' = <<"begin", Server>> => begun' # -1
  BY <1>3
<1>8. \A s \in Services : call' \in {"begin", "end", "send"} \X {s} => _gatts_service' # {}
  BY <1>3
<1>9. _gatts_service' = {} /\ begun' = -1 => ~_hdl_btcm' /\ ~stray'
  BY <1>1 DEF FreshInv
<1>10. sent' # 0 /\ call'[2] = Server => ~_hdl_btcm'
  BY <1>3
<1>11. FreshInv'
  BY <1>6, <1>7, <1>8, <1>9, <1>10, Zenon DEF FreshInv
<1> QED  BY <1>5, <1>11

LEMMA CallServerStep ==
    ASSUME AnswerInv, NEW f \in {"begin", "end"}, CallServer(f)
    PROVE  AnswerInv'
<1> SUFFICES ASSUME ~again' PROVE OneAnswerInv' /\ FreshInv'
  BY DEF AnswerInv
<1>1. ~again /\ _gatts_service = {} /\ begun = -1
  BY DEF CallServer
<1>2. ~_hdl_btcm /\ ~stray
  BY <1>1 DEF AnswerInv, FreshInv
<1>3. <<f, Server>> \in Functions
  BY DEF Functions
<1>4. /\ Fill(<<f, Server>>) /\ signal' = stray /\ ~stray'
      /\ begun' = (IF f = "begin" THEN 0 ELSE begun)
      /\ UNCHANGED <<pending, _gatts_service, _hdl_btcm>>
  BY DEF CallServer, registry
<1>5. \A s \in Services : <<f, Server>> \notin {"begin", "end", "send"} \X {s}
  BY ServerAssumption
<1>6. <<f, Server>> = <<"end", Server>> => begun' = -1
  BY <1>1, <1>4
<1>7. <<f, Server>> = <<"begin", Server>> => begun' # -1
  BY <1>4
<1>8. begun' \in Int /\ ~(begun' >= 1)
  BY <1>1, <1>4
<1> QED  BY <1>1, <1>2, <1>3, <1>4, <1>5, <1>6, <1>7, <1>8, CallStep

\* A service that listens has been begun.
LEMMA AskServiceStep ==
    ASSUME LockInv, AnswerInv, NEW s \in Services, EndService(s) \/ Send(s)
    PROVE  AnswerInv'
<1> SUFFICES ASSUME ~again' PROVE OneAnswerInv' /\ FreshInv'
  BY DEF AnswerInv
<1>1. /\ ~again /\ s \in listening /\ begun = -1
      /\ UNCHANGED <<signal, pending, _gatts_service, _hdl_btcm, begun, stray>>
      /\ Outside
  BY DEF EndService, Send, Call, registry, local, history
<1>2. PICK n \in {"end", "send"} : Fill(<<n, s>>)
  BY DEF EndService, Send, Call
<1>3. _gatts_service # {}
  BY <1>1 DEF LockInv, IdleInv
<1>4. <<n, s>> \in Functions /\ s # Server
  BY ServerAssumption DEF Functions
<1>5. ~signal' /\ begun' \in Int
  BY <1>1 DEF AnswerInv, OneAnswerInv, FreshInv, Outside
<1>6. <<n, s>>[2] # Server /\ <<n, s>> # <<"end", Server>> /\ <<n, s>> # <<"begin", Server>>
  BY <1>4
<1> QED  BY <1>1, <1>2, <1>3, <1>4, <1>5, <1>6, CallStep

LEMMA BeginServiceStep ==
    ASSUME AnswerInv, BeginService
    PROVE  AnswerInv'
<1> SUFFICES ASSUME ~again' PROVE OneAnswerInv' /\ FreshInv'
  BY DEF AnswerInv
<1>1. /\ ~again /\ call = None /\ begun \in Int /\ begun >= 0 /\ begun' = begun + 1
      /\ UNCHANGED <<pending, _hdl_btcm, stray>>
  BY ServerAssumption DEF BeginService, Outside, history
<1>2. OneAnswerInv /\ FreshInv
  BY <1>1 DEF AnswerInv
<1>3. PICK s \in Services : /\ _gatts_service' = _gatts_service \cup {s}
                            /\ Call(<<"begin", s>>) \/ UNCHANGED rpc
  <2>1. begun + 1 \in Services
    BY ServerAssumption DEF BeginService, Services
  <2> QED  BY <2>1 DEF BeginService
<1>4. /\ _gatts_service' # {} /\ begun' \in Int /\ begun' # -1
      /\ ~signal /\ ~posting /\ sent = 0 /\ Unowed
  BY <1>1, <1>2, <1>3, NoneAssumption DEF OneAnswerInv, Unowed, Functions
<1>5. Unowed'
  BY <1>1, <1>4 DEF Unowed
<1>6. CASE Call(<<"begin", s>>)
  <2>1. /\ call' = <<"begin", s>> /\ sent' = 1 /\ ~posting' /\ ~signal' /\ m_msg'.func = call'
    BY <1>4, <1>6 DEF Call, Fill
  <2>2. <<"begin", s>> # None /\ <<"begin", s>>[2] # Server
        /\ <<"begin", s>> # <<"begin", Server>> /\ <<"begin", s>> # <<"end", Server>>
    <3>1. s # Server /\ <<"begin", s>> \in Functions
      BY ServerAssumption DEF Functions
    <3> QED  BY <3>1, NoneAssumption
  <2>3. OneAnswerInv'
    BY <1>5, <2>1, <2>2 DEF OneAnswerInv, Unowed
  <2>4. FreshInv'
    BY <1>4, <2>1, <2>2 DEF FreshInv
  <2> QED  BY <2>3, <2>4
<1>7. CASE UNCHANGED rpc
  <2>1. /\ call' = None /\ sent' = 0 /\ ~posting' /\ ~signal'
    BY <1>1, <1>4, <1>7 DEF rpc
  <2>2. None # <<"end", Server>> /\ None # <<"begin", Server>>
    BY NoneAssumption DEF Functions
  <2>3. OneAnswerInv'
    BY <1>5, <2>1 DEF OneAnswerInv, Unowed
  <2>4. FreshInv'
    BY <1>4, <2>1, <2>2 DEF FreshInv
  <2> QED  BY <2>3, <2>4
<1> QED  BY <1>3, <1>6, <1>7

LEMMA NoServiceCall ==
    /\ None # <<"end", Server>> /\ None # <<"begin", Server>>
    /\ \A s \in Services : None \notin {"begin", "end", "send"} \X {s}
<1>1. \A s \in Services : {"begin", "end", "send"} \X {s} \subseteq Functions
  BY DEF Functions
<1> QED  BY <1>1, NoneAssumption DEF Functions

\* The call returns, or the main thread posts for it.
LEMMA ReturnStep ==
    ASSUME AnswerInv, Returned \/ Posts
    PROVE  AnswerInv'
<1> SUFFICES ASSUME ~again' PROVE OneAnswerInv' /\ FreshInv'
  BY DEF AnswerInv
<1>1. /\ ~again /\ UNCHANGED <<pending, _gatts_service, _hdl_btcm, begun, stray>>
  BY DEF Returned, Posts, registry, local, history
<1>2. OneAnswerInv /\ FreshInv
  BY <1>1 DEF AnswerInv
<1>3. CASE Returned
  <2>1. /\ Unowed /\ ~posting /\ sent = 0
        /\ call' = None /\ sent' = 0 /\ ~posting' /\ ~signal'
    BY <1>2, <1>3 DEF Returned, Return, OneAnswerInv
  <2>2. None # <<"end", Server>> /\ None # <<"begin", Server>>
        /\ \A s \in Services : None \notin {"begin", "end", "send"} \X {s}
    BY NoServiceCall
  <2>3. OneAnswerInv'
    BY <1>1, <2>1 DEF OneAnswerInv, Unowed
  <2>4. FreshInv'
    BY <1>1, <1>2, <2>1, <2>2 DEF FreshInv
  <2> QED  BY <2>3, <2>4
<1>4. CASE Posts
  <2>1. /\ posting /\ ~posting' /\ signal' /\ UNCHANGED <<call, m_msg, sent>>
    BY <1>4 DEF Posts, PostResult
  <2>2. OneAnswerInv'
    BY <1>1, <1>2, <2>1 DEF OneAnswerInv, Unowed
  <2>3. FreshInv'
    BY <1>1, <1>2, <2>1 DEF FreshInv
  <2> QED  BY <2>2, <2>3
<1> QED  BY <1>3, <1>4

\* The function that __handle_sysevt runs is that of the call.
LEMMA RunLemma ==
    ASSUME OneAnswerInv, NEW f, Run(f), signal' = (signal \/ FALSE)
    PROVE  Unowed /\ call = f /\ sent' = 0 /\ ~signal' /\ UNCHANGED <<call, m_msg>>
<1>1. sent # 0 /\ sent' = sent - 1 /\ m_msg.func = f /\ UNCHANGED <<call, m_msg>>
  BY DEF Run
<1>2. sent = 1 /\ ~signal /\ Unowed /\ m_msg.func = call
  BY <1>1, Zenon DEF OneAnswerInv
<1>3. ~signal'
  BY <1>2, Zenon
<1>4. sent' = 0
  BY <1>1, <1>2
<1> QED  BY <1>1, <1>2, <1>3, <1>4, Zenon

\* A function of the server is run.  It may open the connection manager's handle.
LEMMA RunServerStep ==
    ASSUME AnswerInv, ServerReady \/ ServerWaits \/ ServerEnds,
           UNCHANGED <<pending, begun, stray, _gatts_service, again>>
    PROVE  AnswerInv'
<1> SUFFICES ASSUME ~again PROVE OneAnswerInv' /\ FreshInv'
  BY DEF AnswerInv
<1>1. OneAnswerInv /\ FreshInv
  BY DEF AnswerInv
<1>2. PICK f \in {"begin", "end"} :
         /\ Run(<<f, Server>>)
         /\ f = "end" => ~_hdl_btcm' \/ UNCHANGED _hdl_btcm
         /\ signal' = (signal \/ FALSE)
    BY DEF ServerReady, ServerWaits, ServerEnds, Returns
<1>3. /\ Unowed /\ call = <<f, Server>> /\ sent' = 0 /\ ~signal' /\ UNCHANGED <<call, m_msg>>
  BY <1>1, <1>2, RunLemma
<1>4. call # None
  BY <1>3, NoneAssumption DEF Functions
<1>5. OneAnswerInv'
  BY <1>3, <1>4 DEF OneAnswerInv, Unowed
<1>6. _gatts_service = {} /\ begun = -1 => ~_hdl_btcm'
  <2>1. ~_hdl_btcm
    BY <1>1, <1>2, <1>3 DEF FreshInv, Run
  <2>2. f = "begin" => begun # -1
    BY <1>1, <1>3 DEF FreshInv
  <2> QED  BY <1>2, <2>1, <2>2
<1>7. FreshInv'
  BY <1>1, <1>3, <1>6 DEF FreshInv
<1> QED  BY <1>5, <1>7

\* A function of a service is run.  Only its begin() may leave the answer to the stack.
LEMMA RunServiceStep ==
    ASSUME AnswerInv, DOMAIN pending = Services, NEW s \in Services,
           ServiceRefused(s) \/ ServiceRegisters(s) \/ ServiceSends(s) \/ ServiceEnds(s),
           UNCHANGED <<begun, stray, _gatts_service, again>>
    PROVE  AnswerInv'
<1> SUFFICES ASSUME ~again PROVE OneAnswerInv' /\ FreshInv'
  BY DEF AnswerInv
<1>1. OneAnswerInv /\ FreshInv
  BY DEF AnswerInv
<1>2. PICK n \in {"begin", "send", "end"} :
         /\ Run(<<n, s>>) /\ UNCHANGED _hdl_btcm
         /\ signal' = (signal \/ FALSE)
         /\ \/ UNCHANGED pending
            \/ n = "begin" /\ ~posting' /\ pending' = [pending EXCEPT ![s] = "register"]
    BY DEF ServiceRefused, ServiceRegisters, ServiceSends, ServiceEnds, Returns
<1>3. /\ Unowed /\ call = <<n, s>> /\ sent' = 0 /\ ~signal' /\ UNCHANGED <<call, m_msg>>
  BY <1>1, <1>2, RunLemma
<1>4. call # None
  BY <1>3, NoneAssumption DEF Functions
<1>5. OneAnswerInv'
  <2>1. CASE UNCHANGED pending
    BY <1>3, <1>4, <2>1 DEF OneAnswerInv, Unowed
  <2>2. CASE n = "begin" /\ ~posting' /\ pending' = [pending EXCEPT ![s] = "register"]
    <3>1. \A t \in Services : t # s => pending'[t] = "none"
      BY <1>3, <2>2 DEF Unowed
    <3> QED  BY <1>3, <1>4, <2>2, <3>1 DEF OneAnswerInv
  <2> QED  BY <1>2, <2>1, <2>2
<1>6. FreshInv'
  BY <1>1, <1>2, <1>3 DEF FreshInv
<1> QED  BY <1>5, <1>6

\* A power event.  Until the server is begun the callback is not set; and while its call is
\* under way, its answer has not been given or is repeated.
LEMMA PowerStep ==
    ASSUME AnswerInv, CmEvent
    PROVE  AnswerInv'
<1> SUFFICES ASSUME ~again' PROVE OneAnswerInv' /\ FreshInv'
  BY DEF AnswerInv
<1>1. /\ ~again /\ ~posting
      /\ UNCHANGED <<call, m_msg, sent, posting, pending, begun, _hdl_btcm, _gatts_service>>
  BY DEF CmEvent, Activate, Deactivate, Event, registry, history
<1>2. OneAnswerInv /\ FreshInv
  BY <1>1 DEF AnswerInv
<1>3. CASE Event(FALSE) /\ UNCHANGED stray
  <2>1. signal' = (signal \/ FALSE)
    BY <1>3 DEF Event
  <2>2. OneAnswerInv'
    BY <1>1, <1>2, <2>1 DEF OneAnswerInv, Unowed
  <2>3. FreshInv'
    BY <1>1, <1>2, <1>3 DEF FreshInv
  <2> QED  BY <2>2, <2>3
<1>4. CASE Activate /\ _hdl_btcm /\ call # None /\ call[2] = Server
  <2>1. /\ signal' = (signal \/ TRUE) /\ stray' = (stray \/ ~TRUE)
    BY <1>4 DEF Activate, Event
  <2>2. sent = 0
    BY <1>2, <1>4 DEF FreshInv
  <2>3. Unowed
    <3>1. ASSUME NEW s \in Services, pending[s] # "none" PROVE FALSE
      <4>1. call = <<"begin", s>>
        BY <1>2, <3>1 DEF OneAnswerInv
      <4> QED  BY <1>4, <4>1, ServerAssumption
    <3> QED  BY <3>1 DEF Unowed
  <2>4. OneAnswerInv'
    BY <1>1, <1>2, <1>4, <2>1, <2>2, <2>3 DEF OneAnswerInv, Unowed
  <2>5. FreshInv'
    BY <1>1, <1>2, <2>1 DEF FreshInv
  <2> QED  BY <2>4, <2>5
<1>5. CASE Activate /\ _hdl_btcm /\ ~(call # None /\ call[2] = Server)
  <2>1. signal' = (signal \/ FALSE)
    BY <1>5 DEF Activate, Event
  <2>2. OneAnswerInv'
    BY <1>1, <1>2, <2>1 DEF OneAnswerInv, Unowed
  <2>3. FreshInv'
    BY <1>1, <1>2, <1>5 DEF FreshInv
  <2> QED  BY <2>2, <2>3
<1> QED  BY <1>3, <1>4, <1>5 DEF CmEvent, Activate, Deactivate

LEMMA AnswerStep ==
    ASSUME NService # 0, ChainInv, LockInv, AnswerInv, [Next]_vars
    PROVE  AnswerInv'
<1>1. DOMAIN pending = Services
  BY DEF ChainInv, ChainType
<1>2. CASE Sketch
  <2>1. CASE Handle
    BY <2>1, SameAnswerStep DEF Handle, SameAnswer, registry, local, history
  <2> QED  BY <1>2, <2>1, CallServerStep, AskServiceStep DEF Sketch
<1>3. CASE InCall
  <2>1. CASE BeginReturns
    <3>1. SUFFICES ASSUME ~again' PROVE OneAnswerInv' /\ FreshInv'
      BY DEF AnswerInv
    <3>2. /\ ~again /\ begun = NService /\ begun' = -1
          /\ UNCHANGED <<rpc, pending, stray, _hdl_btcm, _gatts_service>> /\ call = None
      BY <2>1 DEF BeginReturns, Outside, registry, history
    <3>3. OneAnswerInv /\ FreshInv
      BY <3>2 DEF AnswerInv
    <3>4. _gatts_service # {} /\ -1 \in Int /\ ~(-1 >= 1)
      BY <3>2, <3>3, ServerAssumption DEF FreshInv
    <3>5. call # <<"begin", Server>>
      BY <3>2, NoneAssumption DEF Functions
    <3>6. OneAnswerInv'
      BY <3>2, <3>3 DEF OneAnswerInv, Unowed, rpc
    <3>7. FreshInv'
      BY <3>2, <3>3, <3>4, <3>5 DEF FreshInv, rpc
    <3> QED  BY <3>6, <3>7
  <2>2. CASE Handling
    BY <2>2, SameAnswerStep DEF Handling, SameAnswer, registry, local, history
  <2> QED  BY <1>3, <2>1, <2>2, BeginServiceStep, ReturnStep DEF InCall
<1>4. CASE HandleSysevt
  <2>1. UNCHANGED <<begun, stray, _gatts_service, again>>
    BY <1>4 DEF HandleSysevt
  <2> QED  BY <1>1, <1>4, <2>1, RunServerStep, RunServiceStep DEF HandleSysevt
<1>5. CASE StackAnswer
  <2>1. UNCHANGED <<again, begun, stray, _hdl_btcm, _gatts_service>>
    BY <1>5 DEF StackAnswer
  <2>2. PICK s \in Services :
           \/ Registered(s) \/ ServiceAdded(s) \/ AttributeAdded(s) \/ Started(s)
           \/ (\E ok \in BOOLEAN : Listens(s, ok)) \/ RequestFails(s)
    BY <1>5 DEF StackAnswer
  <2>3. pending[s] # "none"
    BY <2>2 DEF Registered, ServiceAdded, AttributeAdded, Started, Listens, RequestFails
  <2>4. \/ Event(FALSE) /\ \E r \in Requests \cup {"none"} : Owes(s, r)
        \/ Event(TRUE) /\ Owes(s, "none")
    BY <2>2
       DEF Registered, ServiceAdded, AttributeAdded, Continue, Started, Listens, RequestFails, Requests
  <2> QED  BY <1>1, <2>1, <2>3, <2>4, SilentStep, AnsweredStep
<1>6. CASE ClientRequest
  <2>1. /\ UNCHANGED <<call, m_msg, sent, posting, again, begun, stray, _hdl_btcm, _gatts_service,
                      pending>>
        /\ signal' = (signal \/ FALSE)
    BY <1>6 DEF ClientRequest, Request, Event
  <2> QED  BY <2>1 DEF AnswerInv, OneAnswerInv, FreshInv, Unowed
<1>7. CASE CmEvent
  BY <1>7, PowerStep
<1>8. CASE Posts
  BY <1>8, ReturnStep
<1>9. CASE EntersQueue
  BY <1>9, SameAnswerStep DEF EntersQueue, SameAnswer, registry, local, history
<1>10. CASE Chip
  BY <1>10, SameAnswerStep DEF Chip, SameAnswer, registry, local, history
<1>11. CASE UNCHANGED vars
  BY <1>11, SameAnswerStep DEF vars, SameAnswer, registry, local, history
<1> QED  BY <1>2, <1>3, <1>4, <1>5, <1>6, <1>7, <1>8, <1>9, <1>10, <1>11 DEF Next

----------------------------------------------------------------------------
(* The power events *)

\* The queues of connection manager events that occur before the server ends.
NoCmEvent == << >>
On == <<"ACTIVATE">>
Off == <<"DEACTIVATE">>
OffOn == <<"DEACTIVATE", "ACTIVATE">>

LEMMA TwoLemma ==
    ASSUME NEW x, NEW y
    PROVE  Append(<<x>>, y) = <<x, y>>
<1>1. <<x>> \in Seq({x, y}) /\ Len(<<x>>) = 1
  OBVIOUS
<1>2. /\ Append(<<x>>, y) \in Seq({x, y}) /\ Len(Append(<<x>>, y)) = 2
      /\ Append(<<x>>, y)[1] = x /\ Append(<<x>>, y)[2] = y
  BY <1>1
<1>3. <<x, y>> \in Seq({x, y}) /\ Len(<<x, y>>) = 2 /\ <<x, y>>[1] = x /\ <<x, y>>[2] = y
  OBVIOUS
<1>4. \A i \in 1 .. Len(<<x, y>>) : Append(<<x>>, y)[i] = <<x, y>>[i]
  BY <1>2, <1>3
<1> QED  BY <1>2, <1>3, <1>4, SeqEqual

LEMMA CmQueueLemma ==
    /\ Append(NoCmEvent, "ACTIVATE") = On /\ Append(NoCmEvent, "DEACTIVATE") = Off
    /\ Append(Off, "ACTIVATE") = OffOn
    /\ Head(On) = "ACTIVATE" /\ Tail(On) = NoCmEvent
    /\ Head(Off) = "DEACTIVATE" /\ Tail(Off) = NoCmEvent
    /\ Head(OffOn) = "DEACTIVATE" /\ Tail(OffOn) = On
    /\ "ACTIVATE" \in ToSet(On) /\ "ACTIVATE" \in ToSet(OffOn)
<1>1. /\ Append(NoCmEvent, "ACTIVATE") = On /\ Append(NoCmEvent, "DEACTIVATE") = Off
      /\ Head(On) = "ACTIVATE" /\ Head(Off) = "DEACTIVATE" /\ Head(OffOn) = "DEACTIVATE"
      /\ Tail(On) = NoCmEvent /\ Tail(Off) = NoCmEvent
  BY DEF NoCmEvent, On, Off, OffOn
<1>2. Append(Off, "ACTIVATE") = OffOn
  BY TwoLemma, Zenon DEF Off, OffOn
<1>3. Tail(OffOn) = On
  BY DEF On, OffOn
<1>4. /\ 1 \in DOMAIN On /\ On[1] = "ACTIVATE"
      /\ 2 \in DOMAIN OffOn /\ OffOn[2] = "ACTIVATE"
  BY DEF On, OffOn
<1>5. "ACTIVATE" \in ToSet(On) /\ "ACTIVATE" \in ToSet(OffOn)
  BY <1>4 DEF ToSet
<1> QED  BY <1>1, <1>2, <1>3, <1>5

\* No ACTIVATE is under way, or one is.
NoneComes ==
    \/ power \in {"ON", "OFF"} /\ cmq \in {NoCmEvent, Off}
    \/ power = "SWITCHING_OFF" /\ cmq = NoCmEvent
OneComes ==
    \/ power \in {"ON", "OFF"} /\ cmq \in {On, OffOn}
    \/ power = "SWITCHING_ON" /\ cmq \in {NoCmEvent, Off}

\* The call waits and nothing but an event can end it.
Untold == sent = 0 /\ ~signal /\ ~posting
BeginWaits == call = <<"begin", Server>> /\ Untold
EndWaits == call = <<"end", Server>> /\ Untold

\* Once the server listens, an ACTIVATE comes only to the begin() that waits for it.
PowerInv ==
    ~again /\ ~overtaken =>
        /\ ~stray
        /\ \/ ~_hdl_btcm /\ (NoneComes \/ OneComes)
           \/ ~_hdl_btcm /\ EndWaits
           \/ _hdl_btcm /\ NoneComes
           \/ _hdl_btcm /\ OneComes /\ BeginWaits

\* Nothing of the power changes, and whoever waits goes on to wait.
LEMMA SamePower ==
    ASSUME PowerInv, ~again, ~overtaken, UNCHANGED <<power, cmq, _hdl_btcm>>, ~stray',
           BeginWaits => BeginWaits', EndWaits => EndWaits'
    PROVE  PowerInv'
  BY DEF PowerInv, NoneComes, OneComes

\* What has been called again, or overtaken, stays so.
LEMMA HistoryLemma ==
    ASSUME [Next]_vars, ~again', ~overtaken'
    PROVE  ~again /\ ~overtaken
<1>1. CASE Sketch
  <2>1. ASSUME NEW f \in {"begin", "end"}, CallServer(f) PROVE ~again /\ ~overtaken
    <3>1. UNCHANGED overtaken /\ again' = (again \/ _gatts_service # {})
      BY <2>1, Zenon DEF CallServer
    <3> QED  BY <3>1, Zenon
  <2>2. CASE Handle \/ \E s \in Services : EndService(s) \/ Send(s)
    <3>1. UNCHANGED history
      BY <2>2 DEF EndService, Send, Handle
    <3> QED  BY <3>1 DEF history
  <2> QED  BY <1>1, <2>1, <2>2, Zenon DEF Sketch
<1>2. CASE InCall
  BY <1>2 DEF InCall, BeginService, BeginReturns, Returned, Handling, history
<1>3. CASE HandleSysevt
  <2>1. UNCHANGED again
    BY <1>3 DEF HandleSysevt
  <2>2. Overtakes \/ UNCHANGED overtaken
    BY <1>3, Zenon DEF HandleSysevt, ServerReady, ServerWaits, ServerEnds
  <2>3. ~overtaken
    <3>1. (overtaken' = overtaken) \/ (overtaken' = (overtaken \/ "ACTIVATE" \in ToSet(cmq)))
      BY <2>2, Zenon DEF Overtakes
    <3> QED  BY <3>1, Zenon
  <2> QED  BY <2>1, <2>3
<1>4. CASE StackAnswer \/ ClientRequest \/ CmEvent \/ EntersQueue \/ Posts \/ Chip \/ UNCHANGED vars
  BY <1>4 DEF StackAnswer, ClientRequest, CmEvent, EntersQueue, Posts, Chip, vars, history
<1> QED  BY <1>1, <1>2, <1>3, <1>4 DEF Next

\* begin() of the server finds no ACTIVATE under way, and so the next one is its own.
LEMMA PowerOfServer ==
    ASSUME PowerInv, AnswerInv, ServerReady \/ ServerWaits \/ ServerEnds,
           UNCHANGED <<cmq, stray, again>>, ~again, ~overtaken, ~overtaken'
    PROVE  PowerInv'
<1> USE DEF Untold
<1>1. PICK f \in {"begin", "end"} :
         /\ Run(<<f, Server>>) /\ signal' = (signal \/ FALSE)
         /\ f = "begin" => (ServerReady \/ ServerWaits)
         /\ f = "end" => ServerEnds
  BY DEF ServerReady, ServerWaits, ServerEnds, Returns
<1>2. OneAnswerInv /\ FreshInv
  BY DEF AnswerInv
<1>3. call = <<f, Server>> /\ sent' = 0 /\ ~signal' /\ call' = call /\ sent # 0
  BY <1>1, <1>2, RunLemma DEF Run
<1>4. ~_hdl_btcm
  BY <1>2, <1>3 DEF FreshInv
<1>5. ~stray' /\ (NoneComes \/ OneComes)
  BY <1>3, <1>4 DEF PowerInv, EndWaits
<1>6. CASE f = "begin"
  <2>1. "ACTIVATE" \notin ToSet(cmq)
    BY <1>1, <1>6 DEF ServerReady, ServerWaits, Overtakes
  <2>2. cmq' \in {NoCmEvent, Off} /\ cmq' = cmq
    BY <1>5, <2>1, CmQueueLemma DEF NoneComes, OneComes
  <2>3. CASE ServerReady
    <3>1. NoneComes'
      BY <2>2, <2>3 DEF ServerReady, NoneComes
    <3> QED  BY <1>5, <3>1, Zenon DEF PowerInv
  <2>4. CASE ServerWaits
    <3>1. ~posting' /\ BeginWaits'
      BY <1>3, <1>6, <2>4 DEF ServerWaits, Returns, BeginWaits
    <3>2. NoneComes' \/ OneComes'
      BY <1>5, <2>2, <2>4 DEF ServerWaits, SwitchOn, SwitchOnFails, NoneComes, OneComes
    <3> QED  BY <1>5, <3>1, <3>2, Zenon DEF PowerInv
  <2> QED  BY <1>1, <1>6, <2>3, <2>4
<1>7. CASE f = "end"
  <2>1. CASE power = "OFF"
    <3>1. UNCHANGED <<power, cmq, _hdl_btcm>>
      BY <1>1, <1>7, <2>1 DEF ServerEnds
    <3> QED  BY <1>4, <1>5, <3>1 DEF PowerInv, NoneComes, OneComes
  <2>2. CASE power # "OFF"
    <3>1. ~_hdl_btcm' /\ ~posting'
      BY <1>1, <1>7, <2>2 DEF ServerEnds, Returns
    <3> QED  BY <1>3, <1>5, <1>7, <3>1 DEF PowerInv, EndWaits
  <2> QED  BY <2>1, <2>2
<1> QED  BY <1>6, <1>7

\* The ACTIVATE that comes to a server that listens ends the begin() that waits for it.
LEMMA PowerOfEvent ==
    ASSUME PowerInv, CmEvent, ~again, ~overtaken
    PROVE  PowerInv'
<1>1. ~stray
  BY DEF PowerInv
<1>2. /\ cmq # NoCmEvent /\ cmq' = Tail(cmq) /\ Head(cmq) \in {"ACTIVATE", "DEACTIVATE"}
      /\ UNCHANGED <<power, _hdl_btcm, again, overtaken, call, sent, posting>>
  BY DEF CmEvent, Activate, Deactivate, Delivered, Event, NoCmEvent, history
<1>3. ASSUME ~_hdl_btcm \/ Head(cmq) = "DEACTIVATE"
      PROVE  ~stray' /\ (~signal => ~signal')
  <2>1. Event(FALSE) /\ UNCHANGED stray
    BY <1>3 DEF CmEvent, Activate, Deactivate, Delivered
  <2> QED  BY <1>1, <2>1, Zenon DEF Event
<1>4. ASSUME call = <<"begin", Server>>
      PROVE  ~stray'
  <2>1. call # None /\ call[2] = Server
    BY <1>4, NoServiceCall
  <2>2. stray' = stray \/ stray' = (stray \/ ~(call # None /\ call[2] = Server))
    BY DEF CmEvent, Activate, Deactivate
  <2> QED  BY <1>1, <2>1, <2>2, Zenon
<1>5. CASE ~_hdl_btcm /\ EndWaits
  BY <1>2, <1>3, <1>5 DEF EndWaits, Untold, PowerInv
<1>6. CASE ~_hdl_btcm /\ (NoneComes \/ OneComes)
  <2>1. NoneComes' \/ OneComes'
    BY <1>2, <1>6, CmQueueLemma DEF NoneComes, OneComes
  <2> QED  BY <1>2, <1>3, <1>6, <2>1 DEF PowerInv
<1>7. CASE _hdl_btcm /\ NoneComes
  <2>1. cmq = Off
    BY <1>2, <1>7 DEF NoneComes
  <2>2. NoneComes'
    BY <1>2, <1>7, <2>1, CmQueueLemma DEF NoneComes
  <2> QED  BY <1>2, <1>3, <1>7, <2>1, <2>2, CmQueueLemma DEF PowerInv
<1>8. CASE _hdl_btcm /\ OneComes /\ BeginWaits
  <2>1. ~stray'
    BY <1>4, <1>8 DEF BeginWaits
  <2>2. CASE cmq = On
    <3>1. On # Off /\ On # NoCmEvent
      BY CmQueueLemma DEF On, NoCmEvent
    <3>2. NoneComes'
      BY <1>2, <1>8, <2>2, <3>1, CmQueueLemma DEF NoneComes, OneComes
    <3> QED  BY <1>2, <1>8, <2>1, <3>2 DEF PowerInv
  <2>3. CASE cmq = OffOn \/ cmq = Off
    <3>1. Head(cmq) = "DEACTIVATE"
      BY <2>3, CmQueueLemma
    <3>2. BeginWaits'
      BY <1>2, <1>3, <1>8, <3>1 DEF BeginWaits, Untold
    <3>3. OneComes'
      BY <1>2, <1>8, <2>3, CmQueueLemma DEF OneComes
    <3> QED  BY <1>2, <1>8, <2>1, <3>2, <3>3 DEF PowerInv
  <2> QED  BY <1>2, <1>8, <2>2, <2>3 DEF OneComes
<1> QED  BY <1>5, <1>6, <1>7, <1>8 DEF PowerInv

\* The chip ends a change it was asked for.
LEMMA PowerOfChip ==
    ASSUME PowerInv, Chip, ~again, ~overtaken
    PROVE  PowerInv'
<1>1. UNCHANGED <<call, sent, signal, posting, _hdl_btcm, stray, again, overtaken>>
  BY DEF Chip, rpc, local, history
<1>2. NoneComes => NoneComes'
  BY CmQueueLemma DEF Chip, Switched, NoneComes
<1>3. OneComes => OneComes'
  BY CmQueueLemma DEF Chip, Switched, OneComes
<1> QED  BY <1>1, <1>2, <1>3 DEF PowerInv, BeginWaits, EndWaits, Untold

LEMMA PowerInvStep ==
    ASSUME PowerInv, AnswerInv, [Next]_vars
    PROVE  PowerInv'
<1> SUFFICES ASSUME ~again', ~overtaken' PROVE PowerInv'
  BY DEF PowerInv
<1>1. ~again /\ ~overtaken /\ ~stray
  BY HistoryLemma DEF PowerInv
<1>2. OneAnswerInv /\ FreshInv
  BY <1>1 DEF AnswerInv
<1>3. <<"begin", Server>> # None /\ <<"end", Server>> # None
  BY NoServiceCall
<1>4. CASE Sketch
  <2>1. call = None
    BY <1>4 DEF Sketch, CallServer, EndService, Send, Handle, Outside
  <2>2. UNCHANGED <<power, cmq, _hdl_btcm>> /\ (stray' = FALSE \/ UNCHANGED stray)
    BY <1>4, Zenon DEF Sketch, CallServer, EndService, Send, Handle, adapter, local
  <2>3. ~stray'
    BY <1>1, <2>2, Zenon
  <2> QED  BY <1>1, <1>3, <2>1, <2>2, <2>3, SamePower DEF BeginWaits, EndWaits
<1>5. CASE InCall
  <2>1. call = None \/ signal
    BY <1>5 DEF InCall, BeginService, BeginReturns, Returned, Return, Handling, Outside
  <2>2. UNCHANGED <<power, cmq, _hdl_btcm>> /\ ~stray'
    BY <1>1, <1>5 DEF InCall, BeginService, BeginReturns, Returned, Handling, adapter, local
  <2> QED  BY <1>1, <1>3, <2>1, <2>2, SamePower DEF BeginWaits, EndWaits, Untold
<1>6. CASE HandleSysevt
  <2>1. CASE ServerReady \/ ServerWaits \/ ServerEnds
    BY <1>1, <1>6, <2>1, PowerOfServer DEF HandleSysevt
  <2>2. CASE \E s \in Services :
                ServiceRefused(s) \/ ServiceRegisters(s) \/ ServiceSends(s) \/ ServiceEnds(s)
    <3>1. sent > 0
      BY <2>2 DEF ServiceRefused, ServiceRegisters, ServiceSends, ServiceEnds, Run
    <3>2. UNCHANGED <<power, cmq, _hdl_btcm>> /\ ~stray'
      BY <1>1, <1>6, <2>2
         DEF HandleSysevt, ServiceRefused, ServiceRegisters, ServiceSends, ServiceEnds
    <3> QED  BY <1>1, <3>1, <3>2, SamePower DEF BeginWaits, EndWaits, Untold
  <2> QED  BY <1>6, <2>1, <2>2 DEF HandleSysevt
<1>7. CASE StackAnswer
  <2>1. UNCHANGED <<power, cmq, _hdl_btcm>> /\ ~stray'
    BY <1>1, <1>7 DEF StackAnswer, adapter
  <2>2. PICK s \in Services :
           \/ Registered(s) \/ ServiceAdded(s) \/ AttributeAdded(s) \/ Started(s)
           \/ (\E ok \in BOOLEAN : Listens(s, ok)) \/ RequestFails(s)
    BY <1>7 DEF StackAnswer
  <2>3. pending[s] # "none"
    BY <2>2 DEF Registered, ServiceAdded, AttributeAdded, Started, Listens, RequestFails
  <2>4. call = <<"begin", s>> /\ s # Server
    BY <1>2, <2>3, ServerAssumption DEF OneAnswerInv
  <2> QED  BY <1>1, <2>1, <2>4, SamePower DEF BeginWaits, EndWaits
<1>8. CASE ClientRequest
  <2>1. /\ UNCHANGED <<power, cmq, _hdl_btcm, call, sent, posting>> /\ ~stray'
        /\ signal' = (signal \/ FALSE)
    BY <1>1, <1>8 DEF ClientRequest, Request, Event, adapter
  <2> QED  BY <1>1, <2>1, SamePower DEF BeginWaits, EndWaits, Untold
<1>9. CASE CmEvent
  BY <1>1, <1>9, PowerOfEvent
<1>10. CASE Posts
  <2>1. UNCHANGED <<power, cmq, _hdl_btcm>> /\ ~stray' /\ posting
    BY <1>1, <1>10 DEF Posts, PostResult, adapter, local
  <2> QED  BY <1>1, <2>1, SamePower DEF BeginWaits, EndWaits, Untold
<1>11. CASE EntersQueue \/ UNCHANGED vars
  <2>1. UNCHANGED <<power, cmq, _hdl_btcm, call, sent, signal, posting>> /\ ~stray'
    BY <1>1, <1>11 DEF EntersQueue, vars, rpc, adapter, local
  <2> QED  BY <1>1, <2>1, SamePower DEF BeginWaits, EndWaits, Untold
<1>12. CASE Chip
  BY <1>1, <1>12, PowerOfChip
<1> QED  BY <1>4, <1>5, <1>6, <1>7, <1>8, <1>9, <1>10, <1>11, <1>12 DEF Next

\* Until begin() or end() of a server with services is called, every call is answered once:
\* nothing of it is left when the sketch is outside a call, and no ACTIVATE posts for begin()
\* of the server again, but for a begin() that ran while an older ACTIVATE was under way.  A
\* server without services is excepted: its begin() may be called twice, with a post left.
THEOREM AnswersOnce ==
    ASSUME NService # 0
    PROVE  Spec => []AnsweredOnce
<1>1. Init => ChainInv
  BY InitChain
<1>2. Init => LockInv
  BY InitLock
<1>3. Init => AnswerInv
  <2>1. /\ None # <<"end", Server>> /\ None # <<"begin", Server>>
        /\ \A s \in Services : None \notin {"begin", "end", "send"} \X {s}
    BY NoServiceCall
  <2> SUFFICES ASSUME Init PROVE OneAnswerInv /\ FreshInv
    BY DEF AnswerInv
  <2>2. OneAnswerInv
    BY DEF Init, RpcInit, OneAnswerInv, Unowed
  <2>3. /\ call = None /\ sent = 0 /\ begun = -1 /\ ~_hdl_btcm /\ ~stray
    BY DEF Init, RpcInit
  <2>4. begun \in Int /\ ~(begun >= 1)
    BY <2>3
  <2>5. \A s \in Services : call \notin {"begin", "end", "send"} \X {s}
    BY <2>1, <2>3
  <2>6. call # <<"end", Server>> /\ call # <<"begin", Server>>
    BY <2>1, <2>3
  <2>7. FreshInv
    BY <2>3, <2>4, <2>5, <2>6, Zenon DEF FreshInv
  <2> QED  BY <2>2, <2>7
<1>4. Init => PowerInv
  BY DEF Init, AdapterInit, PowerInv, NoneComes, OneComes, NoCmEvent, PowerStatus
<1>5. AnswerInv /\ PowerInv => AnsweredOnce
  BY DEF AnswerInv, OneAnswerInv, PowerInv, AnsweredOnce, Quiet
<1>6. ChainInv /\ LockInv /\ AnswerInv /\ [Next]_vars => AnswerInv'
  BY AnswerStep
<1>7. PowerInv /\ AnswerInv /\ [Next]_vars => PowerInv'
  BY PowerInvStep
<1> QED  BY <1>1, <1>2, <1>3, <1>4, <1>5, <1>6, <1>7, ChainStep, LockStep, PTL DEF Spec

----------------------------------------------------------------------------
(* The client: its invariant *)

\* What the variables of the table hold.
TableType ==
    /\ gatt_client \in Seq(Clients) /\ handles \in Seq(Clients)
    /\ DOMAIN state = Clients /\ _return_value \in [Clients -> BOOLEAN]
    /\ ending \in Clients \cup {None}
    /\ DOMAIN m_msg = {"func", "userdata"}

\* No answer is to come.
Unasked == asked = {} /\ _tid = {}

\* One is, to the call in progress: the end of its scan, or of its request, or, after a
\* connection, of the search for services.
Asking ==
    \/ call[1] = "scan" /\ asked = {} /\ _tid = {call[2]}
    \/ /\ _tid = {}
       /\ \/ call[1] = "begin" /\ asked = {<<"register", call[2]>>} /\ state[call[2]] = "ENABLING"
          \/ call[1] = "connect" /\ asked = {<<"search", call[2]>>} /\ call[2] \in link
          \/ call[1] \notin {"begin", "scan", "end"} /\ asked = {call}

\* Where the one call and its answer are.  A call whose request the driver did not take
\* waits for nothing.
Between == call = None /\ sent = 0 /\ ~signal /\ ~posting /\ Unasked
SentOff == call # None /\ sent = 1 /\ ~signal /\ ~posting /\ Unasked
InWait == call # None /\ sent = 0 /\ ~signal /\ ~posting /\ (Unasked \/ Asking)
Told ==
    /\ call # None /\ sent = 0 /\ Unasked
    /\ \/ signal /\ ~posting
       \/ posting /\ ~signal

ClientCallInv ==
    /\ posted = {}
    /\ call # None => m_msg.func = call /\ call \in Client!Functions
    /\ Between \/ SentOff \/ InWait \/ Told

\* The result of connect() is the connection.
ConnectInv ==
    (call = None \/ signal \/ posting) =>
    \A c \in Clients : m_msg.func = <<"connect", c>> /\ _return_value[c] => c \in link

\* The clients that are registered are in the table, but for those an end() threw out.
RegisteredInv == \A c \in reg_ctx \ cleared : c \in ToSet(gatt_client)

ClientInv == TableType /\ ClientCallInv /\ ConnectInv /\ RegisteredInv

----------------------------------------------------------------------------
\* The clients in a sequence of them.
LEMMA PlacesLemma ==
    ASSUME NEW s \in Seq(Clients)
    PROVE  /\ Client!ToSet(s) = ToSet(s) /\ ToSet(s) \subseteq Clients
           /\ \A c \in Clients :
                 /\ Append(s, c) \in Seq(Clients) /\ <<c>> \in Seq(Clients)
                 /\ ToSet(s) \subseteq ToSet(Append(s, c))
           /\ \A t \in Seq(Clients) : s \o t \in Seq(Clients) /\ ToSet(s) \subseteq ToSet(s \o t)
<1>1. Client!ToSet(s) = ToSet(s)
  BY DEF Client!ToSet, ToSet
<1>2. ASSUME NEW c \in Clients
      PROVE  /\ Append(s, c) \in Seq(Clients) /\ <<c>> \in Seq(Clients)
             /\ ToSet(s) \subseteq ToSet(Append(s, c))
  <2>1. \A i \in DOMAIN s : i \in DOMAIN Append(s, c) /\ Append(s, c)[i] = s[i]
    OBVIOUS
  <2> QED  BY <2>1 DEF ToSet
<1>3. ASSUME NEW t \in Seq(Clients)
      PROVE  s \o t \in Seq(Clients) /\ ToSet(s) \subseteq ToSet(s \o t)
  <2>1. \A i \in DOMAIN s : i \in DOMAIN (s \o t) /\ (s \o t)[i] = s[i]
    OBVIOUS
  <2> QED  BY <2>1 DEF ToSet
<1>4. ToSet(s) \subseteq Clients
  BY DEF ToSet
<1> QED  BY <1>1, <1>2, <1>3, <1>4

LEMMA PairLemma ==
    \A a, b, c, d : <<a, b>> = <<c, d>> <=> a = c /\ b = d
  OBVIOUS

----------------------------------------------------------------------------
(* The client: how a call goes on *)

\* A call that is not told yet has no result to compare.
LEMMA UntoldLemma ==
    ASSUME call' # None, ~signal', ~posting'
    PROVE  ConnectInv'
  BY DEF ConnectInv

\* Nor has a call of something else than connect().
LEMMA OtherLemma ==
    ASSUME NEW f, f # "connect", NEW c, m_msg'.func = <<f, c>>
    PROVE  ConnectInv'
  BY PairLemma DEF ConnectInv

\* The sketch fills the message of a call.
LEMMA FillLemma ==
    ASSUME ClientInv, NEW f, NEW c, <<f, c>> \in Client!Functions, <<f, c>> # None,
           Client!CallClient(f, c),
           UNCHANGED <<_tid, asked>>
    PROVE  ClientCallInv' /\ ConnectInv' /\ DOMAIN m_msg' = {"func", "userdata"}
<1>1. /\ call = None /\ call' = <<f, c>> /\ m_msg' = [func |-> <<f, c>>, userdata |-> "caller"]
      /\ sent' = sent + 1 /\ posting' = posting
      /\ signal' = (c \in posted) /\ posted' = posted \ {c}
  BY DEF Client!CallClient, Client!Fill
<1>2. Between /\ posted = {}
  BY <1>1 DEF ClientInv, ClientCallInv, SentOff, InWait, Told
<1>3. sent = 0 /\ ~posting /\ Unasked /\ c \notin posted
  BY <1>2 DEF Between
<1>4. sent' = 1
  BY <1>1, <1>3
<1>5. ~signal' /\ ~posting'
  BY <1>1, <1>3, Zenon
<1>6. posted' = {} /\ Unasked'
  BY <1>1, <1>2, <1>3 DEF Unasked
<1>7. ConnectInv'
  BY <1>1, <1>5, UntoldLemma
<1> QED  BY <1>1, <1>4, <1>5, <1>6, <1>7 DEF ClientCallInv, SentOff

\* The main thread runs the function of the call, which no answer waits for yet.
LEMMA RunsLemma ==
    ASSUME ClientInv, NEW f, NEW c, Client!Run(<<f, c>>)
    PROVE  /\ call = <<f, c>> /\ call # None /\ call' = call
           /\ m_msg' = m_msg /\ m_msg'.func = <<f, c>>
           /\ sent' = 0 /\ ~signal /\ ~posting /\ asked = {} /\ _tid = {} /\ posted = {}
           /\ call \in Client!Functions
<1>1. sent > 0 /\ m_msg.func = <<f, c>> /\ sent' = sent - 1 /\ call' = call /\ m_msg' = m_msg
  BY DEF Client!Run
<1>2. sent # 0
  BY <1>1
<1>3. SentOff /\ m_msg.func = call /\ posted = {} /\ call \in Client!Functions
  BY <1>2 DEF ClientInv, ClientCallInv, Between, SentOff, InWait, Told
<1>4. sent' = 0
  BY <1>1, <1>3 DEF SentOff
<1> QED  BY <1>1, <1>3, <1>4 DEF SentOff, Unasked

\* It returns false, and an answer may come.
LEMMA WaitsLemma ==
    ASSUME ClientInv, NEW f, NEW c, Client!Run(<<f, c>>), Client!Returns(FALSE, FALSE),
           posted' = posted, Unasked' \/ Asking'
    PROVE  ClientCallInv' /\ ConnectInv'
<1>1. /\ call = <<f, c>> /\ call # None /\ call' = call /\ m_msg'.func = <<f, c>>
      /\ sent' = 0 /\ ~signal /\ posted = {} /\ call \in Client!Functions
  BY RunsLemma
<1>2. ~signal' /\ ~posting'
  BY <1>1, Zenon DEF Client!Returns
<1> QED  BY <1>1, <1>2, UntoldLemma DEF ClientCallInv, InWait

\* It answers itself.
LEMMA AnswersLemma ==
    ASSUME ClientInv, NEW f, f # "connect", NEW c, Client!Run(<<f, c>>),
           Client!Returns(TRUE, FALSE) \/ Client!Returns(FALSE, TRUE),
           posted' = posted, asked' = {}, _tid' = {}
    PROVE  ClientCallInv' /\ ConnectInv'
<1>1. /\ call = <<f, c>> /\ call # None /\ call' = call /\ m_msg'.func = <<f, c>>
      /\ sent' = 0 /\ ~signal /\ posted = {} /\ call \in Client!Functions
  BY RunsLemma
<1>2. (signal' /\ ~posting') \/ (posting' /\ ~signal')
  BY <1>1, Zenon DEF Client!Returns
<1>3. ConnectInv'
  BY <1>1, OtherLemma
<1> QED  BY <1>1, <1>2, <1>3 DEF ClientCallInv, Told, Unasked

\* A callback posts the signal of the call that waits for it.
LEMMA PostsLemma ==
    ASSUME ClientInv, InWait, Client!Posts(call[2]), asked' = {}, _tid' = {}
    PROVE  ClientCallInv' /\ m_msg' = m_msg
<1>1. /\ call' = call /\ m_msg' = m_msg /\ sent' = 0 /\ signal' /\ ~posting' /\ posted' = {}
  BY DEF Client!Posts, Client!Event, InWait, ClientInv, ClientCallInv
<1> QED  BY <1>1 DEF ClientInv, ClientCallInv, Told, InWait, Unasked

\* A callback that finds no client posts nothing.
LEMMA SilentLemma ==
    ASSUME ClientInv, InWait, Client!Silent, Unasked' \/ Asking'
    PROVE  ClientCallInv' /\ ConnectInv'
<1>1. /\ call' = call /\ m_msg' = m_msg /\ sent' = 0 /\ ~signal' /\ ~posting' /\ posted' = {}
  BY DEF Client!Silent, Client!Event, InWait, ClientInv, ClientCallInv
<1> QED  BY <1>1, UntoldLemma DEF ClientInv, ClientCallInv, InWait

\* Nothing of the protocol changes.
LEMMA SameCall ==
    ASSUME ClientInv, signal' <=> signal, posting' <=> posting,
           UNCHANGED <<call, m_msg, sent, posted, asked, _tid, _return_value, link>>,
           state[call[2]] = "ENABLING" => state'[call[2]] = "ENABLING"
    PROVE  ClientCallInv' /\ ConnectInv'
<1>1. (Unasked => Unasked') /\ (Asking => Asking')
  BY DEF Unasked, Asking
<1>2. ClientCallInv'
  BY <1>1 DEF ClientInv, ClientCallInv, Between, SentOff, InWait, Told
<1>3. ConnectInv'
  BY DEF ClientInv, ConnectInv
<1> QED  BY <1>2, <1>3

\* Nothing of the table changes.
LEMMA SameTable ==
    ASSUME ClientInv, UNCHANGED <<gatt_client, reg_ctx, cleared>>
    PROVE  RegisteredInv'
  BY DEF ClientInv, RegisteredInv

LEMMA SameTypes ==
    ASSUME TableType, UNCHANGED <<gatt_client, handles, state, ending, m_msg>>,
           _return_value' = _return_value \/
              \E c \in Clients, r \in BOOLEAN : _return_value' = [_return_value EXCEPT ![c] = r]
    PROVE  TableType'
  BY DEF TableType

----------------------------------------------------------------------------
(* The client: the sketch thread *)

LEMMA ClientCallStep ==
    ASSUME ClientInv, Client!ClientsAssumption, Client!Sketch \/ Client!InCall
    PROVE  ClientInv'
<1>0. \A p \in Client!Functions : p # None
  BY DEF Client!ClientsAssumption
<1>1. ASSUME NEW f, NEW c, <<f, c>> \in Client!Functions, Client!Calls(f, c)
      PROVE  ClientInv'
  <2>1. /\ Client!CallClient(f, c)
        /\ UNCHANGED <<gatt_client, handles, state, reg_ctx, _return_value, _tid, asked, ending,
                       cleared>>
    BY <1>1 DEF Client!Calls, Client!table, Client!scanning, Client!stack, Client!history
  <2> QED  BY <1>0, <1>1, <2>1, FillLemma, SameTable DEF ClientInv, TableType
<1>2. ASSUME NEW c \in Clients, Client!Begin(c) PROVE ClientInv'
  <2>1. /\ Client!CallClient("begin", c) /\ gatt_client' = Append(gatt_client, c)
        /\ UNCHANGED <<handles, state, reg_ctx, _return_value, _tid, asked, ending, cleared>>
    BY <1>2 DEF Client!Begin, Client!GATTCSetClient, Client!scanning, Client!stack, Client!history
  <2>2. <<"begin", c>> \in Client!Functions /\ <<"begin", c>> # None
    BY <1>0, <1>2 DEF Client!Functions
  <2>3. TableType' /\ RegisteredInv'
    BY <2>1, <2>2, FillLemma, PlacesLemma DEF ClientInv, TableType, RegisteredInv
  <2> QED  BY <2>1, <2>2, <2>3, FillLemma DEF ClientInv
<1>3. ASSUME NEW c \in Clients, Client!End(c) PROVE ClientInv'
  <2>1. /\ Client!CallClient("disconnect", c) /\ ending' = c
        /\ UNCHANGED <<gatt_client, handles, state, reg_ctx, _return_value, _tid, asked, cleared>>
    BY <1>3 DEF Client!End, Client!table, Client!scanning, Client!stack, Client!history
  <2>2. <<"disconnect", c>> \in Client!Functions /\ <<"disconnect", c>> # None
    BY <1>0, <1>3 DEF Client!Functions
  <2> QED  BY <2>1, <2>2, FillLemma, SameTable DEF ClientInv, TableType
<1>4. CASE Client!EndDisconnected
  <2>1. /\ Client!CallClient("end", ending) /\ ending # None
        /\ UNCHANGED <<gatt_client, handles, state, reg_ctx, _return_value, _tid, asked, ending,
                       cleared>>
    BY <1>4 DEF Client!EndDisconnected, Client!table, Client!scanning, Client!stack, Client!history
  <2>2. <<"end", ending>> \in Client!Functions /\ <<"end", ending>> # None
    BY <1>0, <2>1 DEF Client!Functions, ClientInv, TableType
  <2> QED  BY <2>1, <2>2, FillLemma, SameTable DEF ClientInv, TableType
<1>5. CASE Client!Returned
  <2>1. /\ call # None /\ signal /\ ~signal' /\ call' = None /\ sent' = sent /\ posting' = posting
        /\ m_msg' = [m_msg EXCEPT !.userdata = "gone"]
        /\ UNCHANGED <<gatt_client, handles, reg_ctx, _return_value, _tid, asked, link, cleared, posted>>
    BY <1>5 DEF Client!Returned, Client!Return, Client!scanning, Client!stack, Client!history
  <2>2. Told /\ m_msg'.func = m_msg.func
    BY <2>1 DEF ClientInv, ClientCallInv, Between, SentOff, InWait, TableType
  <2>3. ClientCallInv' /\ ConnectInv'
    BY <2>1, <2>2 DEF ClientInv, ClientCallInv, ConnectInv, Told, Between, Unasked
  <2>4. TableType'
    BY <1>5, <2>1 DEF Client!Returned, ClientInv, TableType
  <2> QED  BY <2>1, <2>3, <2>4, SameTable DEF ClientInv
<1>6. CASE \E c \in Askers :
              \/ Client!scan(c) \/ Client!connect(c) \/ Client!disconnect(c)
              \/ Client!setupNotification(c) \/ Client!getCharacteristicInfo(c)
              \/ Client!getDescriptorInfo(c) \/ Client!readRemoteRSSI(c)
              \/ Client!readCharacteristic(c) \/ Client!writeCharacteristic(c)
              \/ Client!readDescriptor(c) \/ Client!writeDescriptor(c)
  <2>1. PICK c \in Askers, f \in {"scan", "connect", "disconnect"} \cup Client!Asks : Client!Calls(f, c)
    BY <1>6 DEF Client!scan, Client!connect, Client!disconnect, Client!setupNotification,
       Client!getCharacteristicInfo, Client!getDescriptorInfo, Client!readRemoteRSSI,
       Client!readCharacteristic, Client!writeCharacteristic, Client!readDescriptor,
       Client!writeDescriptor, Client!Asks
  <2>2. <<f, c>> \in Client!Functions
    BY <2>1 DEF Client!Functions, Client!ClientsAssumption
  <2> QED  BY <1>1, <2>1, <2>2
<1> QED  BY <1>2, <1>3, <1>4, <1>5, <1>6 DEF Client!Sketch, Client!InCall

----------------------------------------------------------------------------
(* The client: the functions *)

\* gatt_client_init only adds places to the table, and registers clients of its sequence.
LEMMA InitLemma ==
    ASSUME TableType, Client!ClientsAssumption, NEW s \in Seq(Clients), Client!gatt_client_init(s)
    PROVE  /\ gatt_client' \in Seq(Clients) /\ ToSet(gatt_client) \subseteq ToSet(gatt_client')
           /\ DOMAIN state' = Clients
           /\ \E new \in SUBSET ToSet(s) :
                 /\ asked' = asked \cup ({"register"} \X new)
                 /\ \A c \in new : state[c] = "DISABLED" /\ state'[c] = "ENABLING"
                 /\ \A c \in Clients \ new : state'[c] = state[c]
<1> DEFINE room == MAX_GATT_CLIENT - Len(gatt_client)
           placed == IF Len(s) <= room THEN s ELSE SubSeq(s, 1, room)
           new == {c \in Client!ToSet(placed) : state[c] = "DISABLED"}
<1>1. /\ gatt_client' = gatt_client \o placed
      /\ state' = [c \in Clients |-> IF c \in new THEN "ENABLING" ELSE state[c]]
      /\ asked' = asked \cup ({"register"} \X new)
  BY DEF Client!gatt_client_init, Client!Asked
<1>2. room \in Int /\ Len(s) \in Nat
  BY DEF Client!ClientsAssumption, TableType
<1>3. placed \in Seq(Clients) /\ ToSet(placed) \subseteq ToSet(s)
  <2>1. CASE Len(s) <= room
    BY <2>1
  <2>2. CASE ~(Len(s) <= room)
    <3>1. placed = SubSeq(s, 1, room) /\ room \in Int /\ room < Len(s)
      BY <1>2, <2>2
    <3> HIDE DEF room
    <3>2. SubSeq(s, 1, room) \in Seq(Clients)
      BY <3>1
    <3>3. \A i \in DOMAIN SubSeq(s, 1, room) : i \in DOMAIN s /\ SubSeq(s, 1, room)[i] = s[i]
      BY <3>1
    <3> QED  BY <3>1, <3>2, <3>3 DEF ToSet
  <2> QED  BY <2>1, <2>2
<1>4. Client!ToSet(placed) = ToSet(placed) /\ ToSet(s) \subseteq Clients
  BY <1>3, PlacesLemma
<1>5. new \in SUBSET ToSet(s) /\ new \subseteq Clients
  BY <1>3, <1>4
<1>6. \A c \in new : state[c] = "DISABLED"
  OBVIOUS
<1> HIDE DEF new, placed
<1>7. DOMAIN state' = Clients /\ \A c \in Clients : state'[c] = IF c \in new THEN "ENABLING" ELSE state[c]
  BY <1>1
<1>8. gatt_client' \in Seq(Clients) /\ ToSet(gatt_client) \subseteq ToSet(gatt_client')
  BY <1>1, <1>3, PlacesLemma DEF TableType
<1> QED  BY <1>1, <1>5, <1>6, <1>7, <1>8

\* A request is passed on to the driver, which takes it or does not.
LEMMA AskLemma ==
    ASSUME ClientInv, NEW f, f \notin {"begin", "scan", "end"}, NEW c,
           Client!Run(<<f, c>>), Client!Returns(FALSE, FALSE),
           asked' = asked \cup {<<f, c>>} \/ asked' = asked,
           UNCHANGED <<gatt_client, handles, state, reg_ctx, _tid, cleared, ending, posted>>,
           _return_value' = _return_value \/
              \E d \in Clients, r \in BOOLEAN : _return_value' = [_return_value EXCEPT ![d] = r]
    PROVE  ClientInv'
<1>1. /\ call = <<f, c>> /\ call' = call /\ m_msg' = m_msg /\ asked = {} /\ _tid = {}
  BY RunsLemma
<1>2. Unasked' \/ Asking'
  BY <1>1 DEF Unasked, Asking
<1>3. ClientCallInv' /\ ConnectInv'
  BY <1>2, WaitsLemma
<1>4. TableType'
  BY <1>1, SameTypes DEF ClientInv
<1> QED  BY <1>3, <1>4, SameTable DEF ClientInv

LEMMA BeginRun ==
    ASSUME ClientInv, Client!ClientsAssumption, NEW c \in Clients, Client!gattBegin(c),
           UNCHANGED <<ending, posted>>
    PROVE  ClientInv'
<1>1. /\ Client!Run(<<"begin", c>>) /\ Client!Returns(FALSE, FALSE) /\ handles' = Append(handles, c)
      /\ UNCHANGED <<reg_ctx, _return_value, _tid, link, cleared>>
      /\ \/ Client!gatt_client_init(<<c>>)
         \/ UNCHANGED <<gatt_client, state, asked>>
  BY DEF Client!gattBegin, Client!scanning
<1>2. /\ call = <<"begin", c>> /\ call' = call /\ m_msg' = m_msg /\ asked = {} /\ _tid = {}
  BY <1>1, RunsLemma
<1>3. handles' \in Seq(Clients)
  BY <1>1, PlacesLemma DEF ClientInv, TableType
<1>4. CASE Client!gatt_client_init(<<c>>)
  <2>1. <<c>> \in Seq(Clients) /\ ToSet(<<c>>) = {c}
    BY PlacesLemma DEF ToSet
  <2>2. /\ gatt_client' \in Seq(Clients) /\ ToSet(gatt_client) \subseteq ToSet(gatt_client')
        /\ DOMAIN state' = Clients
        /\ \E new \in SUBSET {c} :
              /\ asked' = asked \cup ({"register"} \X new)
              /\ \A d \in new : state[d] = "DISABLED" /\ state'[d] = "ENABLING"
              /\ \A d \in Clients \ new : state'[d] = state[d]
    BY <1>4, <2>1, InitLemma DEF ClientInv
  <2>3. asked' = {} \/ (asked' = {<<"register", c>>} /\ state'[c] = "ENABLING")
    BY <1>2, <2>2
  <2>4. Unasked' \/ Asking'
    BY <1>1, <1>2, <2>3 DEF Unasked, Asking
  <2>5. ClientCallInv' /\ ConnectInv'
    BY <1>1, <2>4, WaitsLemma
  <2>6. TableType' /\ RegisteredInv'
    BY <1>1, <1>2, <1>3, <2>2 DEF ClientInv, TableType, RegisteredInv
  <2> QED  BY <2>5, <2>6 DEF ClientInv
<1>5. CASE UNCHANGED <<gatt_client, state, asked>>
  <2>1. Unasked'
    BY <1>1, <1>2, <1>5 DEF Unasked
  <2>2. ClientCallInv' /\ ConnectInv'
    BY <1>1, <2>1, WaitsLemma
  <2>3. TableType' /\ RegisteredInv'
    BY <1>1, <1>2, <1>3, <1>5 DEF ClientInv, TableType, RegisteredInv
  <2> QED  BY <2>2, <2>3 DEF ClientInv
<1> QED  BY <1>1, <1>4, <1>5

\* The functions that start a scan.
LEMMA ScanRun ==
    ASSUME ClientInv, NEW c \in Clients, Client!gattScan(c) \/ Client!ScanRefused(c),
           UNCHANGED <<ending, posted>>
    PROVE  ClientInv'
<1>1. CASE Client!gattScan(c)
  <2>1. /\ Client!Run(<<"scan", c>>) /\ Client!Returns(FALSE, FALSE) /\ _tid' = _tid \cup {c}
        /\ UNCHANGED <<gatt_client, handles, state, reg_ctx, _return_value, asked, cleared>>
    BY <1>1 DEF Client!gattScan, Client!table, Client!stack
  <2>2. /\ call = <<"scan", c>> /\ call' = call /\ m_msg' = m_msg /\ asked = {} /\ _tid = {}
    BY <2>1, RunsLemma
  <2>3. Asking'
    BY <2>1, <2>2 DEF Asking
  <2>4. ClientCallInv' /\ ConnectInv'
    BY <2>1, <2>3, WaitsLemma
  <2>5. TableType'
    BY <2>1, <2>2, SameTypes DEF ClientInv
  <2> QED  BY <2>1, <2>4, <2>5, SameTable DEF ClientInv
<1>2. CASE Client!ScanRefused(c)
  <2>1. /\ Client!Run(<<"scan", c>>) /\ Client!Returns(TRUE, FALSE)
        /\ _return_value' = [_return_value EXCEPT ![c] = FALSE]
        /\ UNCHANGED <<gatt_client, handles, state, reg_ctx, _tid, asked, cleared>>
    BY <1>2 DEF Client!ScanRefused, Client!table, Client!stack, Client!scanning, Client!Answer
  <2>2. m_msg' = m_msg /\ asked = {} /\ _tid = {}
    BY <2>1, RunsLemma
  <2>3. ClientCallInv' /\ ConnectInv'
    BY <2>1, <2>2, AnswersLemma
  <2>4. TableType'
    BY <2>1, <2>2, SameTypes DEF ClientInv
  <2> QED  BY <2>1, <2>3, <2>4, SameTable DEF ClientInv
<1> QED  BY <1>1, <1>2

LEMMA EndRun ==
    ASSUME ClientInv, NEW c \in Clients, Client!gattEnd(c) \/ Client!EndRefused(c),
           UNCHANGED <<ending, posted>>
    PROVE  ClientInv'
<1>1. CASE Client!gattEnd(c)
  <2>1. /\ Client!Run(<<"end", c>>) /\ Client!Returns(FALSE, TRUE)
        /\ reg_ctx' = reg_ctx \ {c} /\ state' = [state EXCEPT ![c] = "DISABLED"]
        /\ gatt_client' = << >> /\ cleared' = (cleared \cup Client!ToSet(gatt_client)) \ {c}
        /\ asked' = {r \in asked : r[2] # c}
        /\ _return_value' = [_return_value EXCEPT ![c] = TRUE]
        /\ UNCHANGED <<handles, _tid>>
    BY <1>1 DEF Client!gattEnd, Client!scanning, Client!Answer
  <2>2. m_msg' = m_msg /\ asked = {} /\ _tid = {}
    BY <2>1, RunsLemma
  <2>3. ClientCallInv' /\ ConnectInv'
    BY <2>1, <2>2, AnswersLemma
  <2>4. TableType'
    BY <2>1, <2>2 DEF ClientInv, TableType
  <2>5. RegisteredInv'
    BY <2>1, PlacesLemma DEF ClientInv, TableType, RegisteredInv
  <2> QED  BY <2>3, <2>4, <2>5 DEF ClientInv
<1>2. CASE Client!EndRefused(c)
  <2>1. /\ Client!Run(<<"end", c>>) /\ Client!Returns(TRUE, FALSE)
        /\ state' = [state EXCEPT ![c] = "DISABLING"]
        /\ _return_value' = [_return_value EXCEPT ![c] = FALSE]
        /\ UNCHANGED <<gatt_client, handles, reg_ctx, _tid, asked, cleared>>
    BY <1>2 DEF Client!EndRefused, Client!scanning, Client!stack, Client!Answer
  <2>2. m_msg' = m_msg /\ asked = {} /\ _tid = {}
    BY <2>1, RunsLemma
  <2>3. ClientCallInv' /\ ConnectInv'
    BY <2>1, <2>2, AnswersLemma
  <2>4. TableType'
    BY <2>1, <2>2 DEF ClientInv, TableType
  <2> QED  BY <2>1, <2>3, <2>4, SameTable DEF ClientInv
<1> QED  BY <1>1, <1>2

\* The functions that pass a request on.
LEMMA RequestRun ==
    ASSUME ClientInv, NEW c, NEW f \in {"connect", "disconnect"} \cup Client!Asks,
           Client!Run(<<f, c>>), Client!Asked({<<f, c>>}) \/ Client!NotAsked,
           Client!Returns(FALSE, FALSE),
           UNCHANGED <<power, Client!table, _return_value, Client!scanning, link, cleared>>,
           UNCHANGED <<ending, posted>>
    PROVE  ClientInv'
<1>1. f \notin {"begin", "scan", "end"}
  BY DEF Client!Asks
<1>2. /\ asked' = asked \cup {<<f, c>>} \/ asked' = asked
      /\ UNCHANGED <<gatt_client, handles, state, reg_ctx, _return_value, _tid, cleared>>
  BY DEF Client!Asked, Client!NotAsked, Client!table, Client!scanning
<1> QED  BY <1>1, <1>2, AskLemma

LEMMA ReadRun ==
    ASSUME ClientInv, NEW c \in Clients, Client!gattReadCharacteristic(c),
           UNCHANGED <<ending, posted>>
    PROVE  ClientInv'
<1>1. /\ Client!Run(<<"readCharacteristic", c>>)
      /\ UNCHANGED <<gatt_client, handles, state, reg_ctx, _tid, cleared>>
  BY DEF Client!gattReadCharacteristic, Client!table, Client!scanning
<1>2. CASE /\ Client!Asked({<<"readCharacteristic", c>>}) /\ Client!Answer(c, TRUE)
           /\ Client!Returns(FALSE, FALSE)
  BY <1>1, <1>2, AskLemma DEF Client!Asked, Client!Answer
<1>3. CASE Client!Answer(c, FALSE) /\ Client!Returns(TRUE, FALSE) /\ UNCHANGED asked
  <2>1. m_msg' = m_msg /\ asked = {} /\ _tid = {}
    BY <1>1, RunsLemma
  <2>2. ClientCallInv' /\ ConnectInv'
    BY <1>1, <1>3, <2>1, AnswersLemma
  <2>3. TableType'
    BY <1>1, <1>3, <2>1, SameTypes DEF ClientInv, Client!Answer
  <2> QED  BY <1>1, <2>2, <2>3, SameTable DEF ClientInv
<1> QED  BY <1>2, <1>3 DEF Client!gattReadCharacteristic

LEMMA FunctionStep ==
    ASSUME ClientInv, Client!ClientsAssumption, Client!HandleSysevt
    PROVE  ClientInv'
<1>1. UNCHANGED <<ending, posted>>
  BY DEF Client!HandleSysevt
<1>2. PICK c \in Clients :
          \/ Client!gattBegin(c) \/ Client!gattScan(c) \/ Client!ScanRefused(c) \/ Client!gattConnect(c)
          \/ Client!gattDisConnect(c)
          \/ Client!gattGetCharacteristic(c) \/ Client!gattGetDescriptor(c)
          \/ Client!gattReadCharacteristic(c) \/ Client!gattWriteCharacteristic(c)
          \/ Client!gattReadDescriptor(c) \/ Client!gattWriteDescriptor(c)
          \/ Client!gattReadRemoteRSSI(c) \/ Client!gattEnd(c) \/ Client!EndRefused(c)
  BY DEF Client!HandleSysevt
<1>3. ASSUME NEW f \in Client!Asks, Client!Ask(f, c), Client!Returns(FALSE, FALSE) PROVE ClientInv'
  BY <1>1, <1>3, RequestRun DEF Client!Ask
<1>4. CASE Client!gattConnect(c)
  BY <1>1, <1>4, RequestRun DEF Client!gattConnect
<1>5. CASE Client!gattDisConnect(c)
  BY <1>1, <1>5, RequestRun DEF Client!gattDisConnect
<1>6. CASE \/ Client!gattGetCharacteristic(c) \/ Client!gattGetDescriptor(c)
           \/ Client!gattWriteCharacteristic(c) \/ Client!gattReadDescriptor(c)
           \/ Client!gattWriteDescriptor(c) \/ Client!gattReadRemoteRSSI(c)
  BY <1>3, <1>6 DEF Client!gattGetCharacteristic, Client!gattGetDescriptor,
     Client!gattWriteCharacteristic, Client!gattReadDescriptor, Client!gattWriteDescriptor,
     Client!gattReadRemoteRSSI, Client!Asks
<1> QED  BY <1>1, <1>2, <1>4, <1>5, <1>6, BeginRun, ScanRun, ReadRun, EndRun

LEMMA NotificationStep ==
    ASSUME ClientInv, Client!HandleNotification, ~early'
    PROVE  ClientInv'
<1>1. ~posting' /\ UNCHANGED <<ending, posted>>
  BY DEF Client!HandleNotification
<1>2. PICK c \in Clients, r \in BOOLEAN : Client!Ask("notification", c) /\ Client!Returns(r, FALSE)
  BY DEF Client!HandleNotification, Client!gattEnableNotification
<1>3. r = FALSE
  BY <1>1, <1>2 DEF Client!Returns
<1> QED  BY <1>1, <1>2, <1>3, RequestRun DEF Client!Ask, Client!Asks

----------------------------------------------------------------------------
(* The client: events *)

\* An answer to come is the answer to the call in progress.
LEMMA OwedLemma ==
    ASSUME ClientInv, asked # {} \/ _tid # {}
    PROVE  /\ InWait /\ Asking /\ m_msg.func = call /\ call \in Client!Functions
           /\ \E f, c : call = <<f, c>>
<1>1. InWait /\ Asking
  BY DEF ClientInv, ClientCallInv, Between, SentOff, InWait, Told, Unasked
<1>2. m_msg.func = call /\ call \in Client!Functions
  BY <1>1 DEF InWait, ClientInv, ClientCallInv
<1>3. \E f, c : call = <<f, c>>
  BY <1>2 DEF Client!Functions
<1> QED  BY <1>1, <1>2, <1>3

\* The stack answers a request: the call is the one that asked.
LEMMA RequestedLemma ==
    ASSUME ClientInv, NEW f, f \notin {"register", "search"}, NEW c, <<f, c>> \in asked
    PROVE  InWait /\ Asking /\ m_msg.func = <<f, c>> /\ call = <<f, c>> /\ asked = {call} /\ _tid = {}
<1>1. InWait /\ Asking /\ m_msg.func = call
  BY OwedLemma
<1>2. asked = {call} /\ _tid = {}
  BY <1>1, PairLemma DEF Asking
<1> QED  BY <1>1, <1>2

LEMMA RegistersStep ==
    ASSUME ClientInv, NEW c \in Clients, NEW ok \in BOOLEAN, Client!Registers(c, ok),
           UNCHANGED <<ending, cleared>>
    PROVE  ClientInv'
<1>1. /\ <<"register", c>> \in asked /\ asked' = asked \ {<<"register", c>>}
      /\ UNCHANGED <<handles, _tid, link>>
  BY DEF Client!Registers, Client!scanning
<1>2. PICK f, d : /\ InWait /\ Asking /\ m_msg.func = call /\ call \in Client!Functions
                  /\ call = <<f, d>>
  BY <1>1, OwedLemma
<1>3. f # "register" /\ call[1] = f /\ call[2] = d
  BY <1>2 DEF Client!Functions, Client!Asks
<1>4. /\ f = "begin" /\ d = c /\ asked = {<<"register", c>>} /\ state[c] = "ENABLING" /\ _tid = {}
  BY <1>1, <1>2, <1>3, PairLemma DEF Asking
<1>5. asked' = {} /\ _tid' = {}
  BY <1>1, <1>4
<1>6. CASE c \in Client!ToSet(gatt_client)
  <2>1. /\ Client!Posts(c) /\ gatt_client' = gatt_client /\ reg_ctx' \subseteq reg_ctx \cup {c}
        /\ DOMAIN state' = DOMAIN state /\ \E r \in BOOLEAN : _return_value' = [_return_value EXCEPT ![c] = r]
    BY <1>4, <1>6 DEF Client!Registers, Client!Answer
  <2>2. ClientCallInv' /\ m_msg' = m_msg
    BY <1>2, <1>3, <1>4, <1>5, <2>1, PostsLemma
  <2>3. ConnectInv'
    BY <1>2, <1>4, <2>2, OtherLemma
  <2>4. TableType'
    BY <1>1, <2>1, <2>2 DEF ClientInv, TableType
  <2>5. RegisteredInv'
    BY <1>6, <2>1, PlacesLemma DEF ClientInv, TableType, RegisteredInv
  <2> QED  BY <2>2, <2>3, <2>4, <2>5 DEF ClientInv
<1>7. CASE c \notin Client!ToSet(gatt_client)
  <2>1. Client!Silent /\ UNCHANGED <<gatt_client, reg_ctx, state, _return_value>>
    BY <1>7 DEF Client!Registers
  <2>2. ClientCallInv' /\ ConnectInv'
    BY <1>2, <1>5, <2>1, SilentLemma DEF Unasked
  <2>3. TableType'
    BY <1>1, <2>1 DEF ClientInv, TableType, Client!Silent, Client!Event
  <2> QED  BY <2>1, <2>2, <2>3, SameTable DEF ClientInv
<1> QED  BY <1>6, <1>7

LEMMA TimeoutStep ==
    ASSUME ClientInv, NEW c \in Clients, Client!ScanTimeout(c), UNCHANGED <<ending, cleared>>
    PROVE  ClientInv'
<1>1. /\ c \in _tid
      /\ UNCHANGED <<gatt_client, handles, state, reg_ctx, _return_value, asked, link>>
      /\ \/ _tid' = _tid \ {c} /\ Client!Posts(c)
         \/ Client!Silent /\ UNCHANGED _tid
  BY DEF Client!ScanTimeout, Client!table, Client!stack
<1>2. PICK f, d : /\ InWait /\ Asking /\ m_msg.func = call /\ call \in Client!Functions
                  /\ call = <<f, d>>
  BY <1>1, OwedLemma
<1>3. f = "scan" /\ d = c /\ call[2] = c /\ asked = {} /\ _tid = {c}
  BY <1>1, <1>2 DEF Asking
<1>4. CASE _tid' = _tid \ {c} /\ Client!Posts(c)
  <2>1. ClientCallInv' /\ m_msg' = m_msg
    BY <1>1, <1>2, <1>3, <1>4, PostsLemma
  <2>2. ConnectInv'
    BY <1>2, <1>3, <2>1, OtherLemma
  <2>3. TableType'
    BY <1>1, <2>1, SameTypes DEF ClientInv
  <2> QED  BY <1>1, <2>1, <2>2, <2>3, SameTable DEF ClientInv
<1>5. CASE Client!Silent /\ UNCHANGED _tid
  <2>1. call' = call /\ m_msg' = m_msg
    BY <1>5 DEF Client!Silent, Client!Event
  <2>2. Asking'
    BY <1>1, <1>2, <1>5, <2>1 DEF Asking
  <2>3. ClientCallInv' /\ ConnectInv'
    BY <1>2, <1>5, <2>2, SilentLemma
  <2>4. TableType'
    BY <1>1, <2>1, SameTypes DEF ClientInv
  <2> QED  BY <1>1, <2>3, <2>4, SameTable DEF ClientInv
<1> QED  BY <1>1, <1>4, <1>5

LEMMA ConnectedStep ==
    ASSUME ClientInv, NEW c \in Clients, Client!Connected(c), UNCHANGED <<ending, cleared>>
    PROVE  ClientInv'
<1>1. /\ <<"connect", c>> \in asked /\ asked' = (asked \ {<<"connect", c>>}) \cup {<<"search", c>>}
      /\ link' = link \cup {c} /\ Client!Silent
      /\ _return_value' = [_return_value EXCEPT ![c] = TRUE] \/ _return_value' = _return_value
      /\ UNCHANGED <<gatt_client, handles, state, reg_ctx, _tid>>
  BY DEF Client!Connected, Client!table, Client!scanning, Client!Answer
<1>2. InWait /\ call = <<"connect", c>> /\ asked = {call} /\ _tid = {}
  BY <1>1, RequestedLemma
<1>3. call' = call /\ m_msg' = m_msg
  BY <1>1 DEF Client!Silent, Client!Event
<1>4. Asking'
  BY <1>1, <1>2, <1>3 DEF Asking
<1>5. ClientCallInv' /\ ConnectInv'
  BY <1>1, <1>2, <1>4, SilentLemma
<1>6. TableType'
  BY <1>1, <1>3, SameTypes DEF ClientInv
<1> QED  BY <1>1, <1>5, <1>6, SameTable DEF ClientInv

\* A call of connect() that is told no is not connected.
LEMMA RefusesLemma ==
    ASSUME ClientInv, NEW f, NEW c \in Clients, m_msg'.func = <<f, c>>,
           _return_value' = [_return_value EXCEPT ![c] = FALSE]
    PROVE  ConnectInv'
  BY PairLemma DEF ClientInv, TableType, ConnectInv

LEMMA DisconnectedStep ==
    ASSUME ClientInv, NEW c \in Clients, Client!Disconnected(c), UNCHANGED <<ending, cleared>>,
           ~early'
    PROVE  ClientInv'
<1>1. /\ {<<"connect", c>>, <<"disconnect", c>>} \cap asked # {}
      /\ UNCHANGED <<gatt_client, handles, state, reg_ctx, _tid>>
      /\ \/ Client!Answer(c, FALSE) /\ Client!Posts(c)
         \/ Client!Silent /\ UNCHANGED _return_value
  BY DEF Client!Disconnected, Client!table, Client!scanning
<1>2. PICK f \in {"connect", "disconnect"} : <<f, c>> \in asked
  BY <1>1
<1>3. InWait /\ m_msg.func = <<f, c>> /\ call = <<f, c>> /\ asked = {<<f, c>>} /\ _tid = {}
  BY <1>2, RequestedLemma
<1>4. asked' = {}
  <2>1. PICK gone : /\ \/ gone = {r \in asked : r[2] = c /\ r[1] # "register"}
                       \/ gone = {r \in {q \in asked : q[2] = c /\ q[1] # "register"} :
                                     r[1] \in {"connect", "disconnect"}}
                    /\ asked' = asked \ gone
    BY DEF Client!Disconnected
  <2>2. <<f, c>> \in gone
    BY <1>2, <1>3, <2>1
  <2> QED  BY <1>3, <2>1, <2>2
<1>5. CASE Client!Answer(c, FALSE) /\ Client!Posts(c)
  <2>1. ClientCallInv' /\ m_msg' = m_msg
    BY <1>1, <1>3, <1>4, <1>5, PostsLemma
  <2>2. ConnectInv'
    BY <1>3, <1>5, <2>1, RefusesLemma DEF Client!Answer
  <2>3. TableType'
    BY <1>1, <1>5, <2>1, SameTypes DEF ClientInv, Client!Answer
  <2> QED  BY <1>1, <2>1, <2>2, <2>3, SameTable DEF ClientInv
<1>6. CASE Client!Silent /\ UNCHANGED _return_value
  <2>1. ClientCallInv' /\ ConnectInv'
    BY <1>1, <1>3, <1>4, <1>6, SilentLemma DEF Unasked
  <2>2. TableType'
    BY <1>1, <1>6, SameTypes DEF ClientInv, Client!Silent, Client!Event
  <2> QED  BY <1>1, <2>1, <2>2, SameTable DEF ClientInv
<1> QED  BY <1>1, <1>5, <1>6

LEMMA SearchStep ==
    ASSUME ClientInv, NEW c \in Clients, Client!SearchComplete(c), UNCHANGED <<ending, cleared>>
    PROVE  ClientInv'
<1>1. /\ <<"search", c>> \in asked /\ asked' = asked \ {<<"search", c>>}
      /\ Client!Posts(c) \/ Client!Silent
      /\ UNCHANGED <<gatt_client, handles, state, reg_ctx, _return_value, _tid, link>>
  BY DEF Client!SearchComplete, Client!table, Client!scanning
<1>2. PICK f, d : /\ InWait /\ Asking /\ m_msg.func = call /\ call \in Client!Functions
                  /\ call = <<f, d>>
  BY <1>1, OwedLemma
<1>3. f # "search" /\ call[1] = f /\ call[2] = d
  BY <1>2 DEF Client!Functions, Client!Asks
<1>4. /\ f = "connect" /\ d = c /\ asked = {<<"search", c>>} /\ c \in link /\ _tid = {}
  BY <1>1, <1>2, <1>3, PairLemma DEF Asking
<1>5. asked' = {} /\ _tid' = {}
  BY <1>1, <1>4
<1>6. CASE Client!Posts(c)
  <2>1. ClientCallInv' /\ m_msg' = m_msg
    BY <1>2, <1>3, <1>4, <1>5, <1>6, PostsLemma
  <2>2. ConnectInv'
    <3> SUFFICES ASSUME NEW e \in Clients, m_msg'.func = <<"connect", e>> PROVE e \in link'
      BY DEF ConnectInv
    <3>1. e = c
      BY <1>2, <1>4, <2>1, PairLemma
    <3> QED  BY <1>1, <1>4, <3>1
  <2>3. TableType'
    BY <1>1, <2>1, SameTypes DEF ClientInv
  <2> QED  BY <1>1, <2>1, <2>2, <2>3, SameTable DEF ClientInv
<1>7. CASE Client!Silent
  <2>1. ClientCallInv' /\ ConnectInv'
    BY <1>2, <1>5, <1>7, SilentLemma DEF Unasked
  <2>2. TableType'
    BY <1>1, <1>7, SameTypes DEF ClientInv, Client!Silent, Client!Event
  <2> QED  BY <1>1, <2>1, <2>2, SameTable DEF ClientInv
<1> QED  BY <1>1, <1>6, <1>7

LEMMA ClientAnsweredStep ==
    ASSUME ClientInv, NEW f \in Client!Asks, NEW c \in Clients, NEW ok \in BOOLEAN,
           Client!Answered(f, c, ok), UNCHANGED <<ending, cleared>>
    PROVE  ClientInv'
<1>1. /\ <<f, c>> \in asked /\ asked' = asked \ {<<f, c>>}
      /\ \/ Client!Answer(c, ok) /\ Client!Posts(c)
         \/ Client!Silent /\ UNCHANGED _return_value
      /\ UNCHANGED <<gatt_client, handles, state, reg_ctx, _tid, link>>
  BY DEF Client!Answered, Client!table, Client!scanning
<1>2. f \notin {"register", "search", "connect"}
  BY DEF Client!Asks
<1>3. InWait /\ m_msg.func = <<f, c>> /\ call = <<f, c>> /\ asked = {<<f, c>>} /\ _tid = {}
  BY <1>1, <1>2, RequestedLemma
<1>4. asked' = {} /\ _tid' = {}
  BY <1>1, <1>3
<1>5. CASE Client!Answer(c, ok) /\ Client!Posts(c)
  <2>1. ClientCallInv' /\ m_msg' = m_msg
    BY <1>3, <1>4, <1>5, PostsLemma
  <2>2. ConnectInv'
    BY <1>2, <1>3, <2>1, OtherLemma
  <2>3. TableType'
    BY <1>1, <1>5, <2>1, SameTypes DEF ClientInv, Client!Answer
  <2> QED  BY <1>1, <2>1, <2>2, <2>3, SameTable DEF ClientInv
<1>6. CASE Client!Silent /\ UNCHANGED _return_value
  <2>1. ClientCallInv' /\ ConnectInv'
    BY <1>3, <1>4, <1>6, SilentLemma DEF Unasked
  <2>2. TableType'
    BY <1>1, <1>6, SameTypes DEF ClientInv, Client!Silent, Client!Event
  <2> QED  BY <1>1, <2>1, <2>2, SameTable DEF ClientInv
<1> QED  BY <1>1, <1>5, <1>6

LEMMA ActivateStep ==
    ASSUME ClientInv, Client!ClientsAssumption, Client!Activate, ~early'
    PROVE  ClientInv'
<1>1. /\ Client!gatt_client_init(handles) /\ Client!Silent
      /\ UNCHANGED <<handles, reg_ctx, _return_value, _tid, ending, link, cleared>>
      /\ \A r \in asked' \ asked : ~signal /\ ~(sent > 0) /\ call = <<"begin", r[2]>>
  BY DEF Client!Activate, Client!scanning
<1>2. /\ gatt_client' \in Seq(Clients) /\ ToSet(gatt_client) \subseteq ToSet(gatt_client')
      /\ DOMAIN state' = Clients
  BY <1>1, InitLemma DEF ClientInv, TableType
<1>3. PICK new \in SUBSET ToSet(handles) :
         /\ asked' = asked \cup ({"register"} \X new)
         /\ \A c \in new : state[c] = "DISABLED" /\ state'[c] = "ENABLING"
         /\ \A c \in Clients \ new : state'[c] = state[c]
  BY <1>1, InitLemma DEF ClientInv, TableType
<1>4. /\ call' = call /\ m_msg' = m_msg /\ sent' = sent /\ posted' = posted
      /\ ~posting /\ posting' = posting /\ (signal' <=> signal)
  BY <1>1, Zenon DEF Client!Silent, Client!Event
<1>5. TableType' /\ RegisteredInv'
  BY <1>1, <1>2, <1>4 DEF ClientInv, TableType, RegisteredInv
<1>6. ToSet(handles) \subseteq Clients
  BY PlacesLemma DEF ClientInv, TableType
<1>7. CASE asked' = asked
  <2>1. state[call[2]] = "ENABLING" /\ call[2] \in Clients => state'[call[2]] = "ENABLING"
    BY <1>3
  <2>2. Asking /\ call \in Client!Functions => call[2] \in Clients \/ call[1] # "begin"
    BY DEF Client!Functions
  <2>3. (Unasked => Unasked') /\ (Asking /\ call \in Client!Functions => Asking')
    BY <1>1, <1>4, <1>7, <2>1, <2>2 DEF Unasked, Asking
  <2>4. ClientCallInv'
    BY <1>4, <2>3 DEF ClientInv, ClientCallInv, Between, SentOff, InWait, Told
  <2>5. ConnectInv'
    BY <1>1, <1>4 DEF ClientInv, ConnectInv
  <2> QED  BY <1>5, <2>4, <2>5 DEF ClientInv
<1>8. CASE asked' # asked
  <2>1. PICK c \in new : <<"register", c>> \notin asked
    BY <1>3, <1>8
  <2>2. c \in Clients /\ call = <<"begin", c>> /\ ~signal /\ ~(sent > 0)
    <3>1. c \in Clients
      BY <1>3, <1>6
    <3>2. <<"register", c>> \in asked' \ asked
      BY <1>3, <2>1
    <3>3. ~signal /\ ~(sent > 0) /\ call = <<"begin", <<"register", c>>[2]>>
      BY <1>1, <3>2, Zenon
    <3>4. <<"register", c>>[2] = c
      OBVIOUS
    <3> QED  BY <3>1, <3>3, <3>4, Zenon
  <2>3. <<"begin", c>> # None
    BY <2>2 DEF Client!ClientsAssumption, Client!Functions
  <2>4. InWait /\ (Unasked \/ Asking)
    BY <1>4, <2>2, <2>3 DEF ClientInv, ClientCallInv, Between, SentOff, InWait, Told
  <2>5. Unasked
    BY <2>1, <2>2, <2>4 DEF Asking
  <2>6. \A d \in new : d = c
    <3> SUFFICES ASSUME NEW d \in new PROVE d = c
      OBVIOUS
    <3>1. <<"register", d>> \in asked' \ asked
      BY <1>3, <2>5 DEF Unasked
    <3> QED  BY <1>1, <2>2, <3>1, PairLemma
  <2>7. asked' = {<<"register", c>>} /\ state'[c] = "ENABLING" /\ _tid' = {}
    BY <1>1, <1>3, <2>1, <2>5, <2>6 DEF Unasked
  <2>8. Asking'
    BY <1>4, <2>2, <2>7 DEF Asking
  <2>9. ClientCallInv' /\ ConnectInv'
    BY <1>1, <2>4, <2>8, SilentLemma
  <2> QED  BY <1>5, <2>9 DEF ClientInv
<1> QED  BY <1>7, <1>8

\* A device reports: the table of devices is not the table of clients.
LEMMA ReportStep ==
    ASSUME ClientInv, NEW c \in Clients, NEW d \in Devices, Client!ScanResult(c, d),
           UNCHANGED <<ending, cleared>>
    PROVE  ClientInv'
<1>1. /\ Client!Silent
      /\ UNCHANGED <<gatt_client, handles, state, reg_ctx, _return_value, _tid, asked, link>>
  BY DEF Client!ScanResult, Client!table, Client!stack
<1>2. /\ call' = call /\ m_msg' = m_msg /\ sent' = sent /\ posted' = posted
      /\ posting' = posting /\ (signal' <=> signal)
  BY <1>1, Zenon DEF Client!Silent, Client!Event
<1>3. ClientCallInv' /\ ConnectInv'
  BY <1>1, <1>2, SameCall
<1>4. TableType'
  BY <1>1, <1>2, SameTypes DEF ClientInv
<1> QED  BY <1>1, <1>3, <1>4, SameTable DEF ClientInv

\* Nothing of the client changes: a switch of the chip, or an event that tells nothing.
LEMMA ClientIdleStep ==
    ASSUME ClientInv, signal' <=> signal,
           UNCHANGED <<call, m_msg, sent, posting, posted, Client!table, _return_value, _tid,
                       asked, link, ending, cleared>>
    PROVE  ClientInv'
<1>1. UNCHANGED <<gatt_client, handles, state, reg_ctx>>
  BY DEF Client!table
<1>2. ClientCallInv' /\ ConnectInv'
  BY <1>1, SameCall
<1>3. TableType'
  BY <1>1, SameTypes DEF ClientInv
<1> QED  BY <1>1, <1>2, <1>3, SameTable DEF ClientInv

LEMMA ClientPostsStep ==
    ASSUME ClientInv, Client!PostsResult
    PROVE  ClientInv'
<1>1. /\ posting /\ ~posting' /\ signal' = TRUE /\ call' = call /\ m_msg' = m_msg /\ sent' = sent
      /\ UNCHANGED <<gatt_client, handles, state, reg_ctx, _return_value, _tid, asked, link,
                     posted, ending, cleared>>
  BY DEF Client!PostsResult, Client!PostResult, Client!table, Client!scanning, Client!stack,
     Client!history
<1>2. Told
  BY <1>1 DEF ClientInv, ClientCallInv, Between, SentOff, InWait
<1>3. ClientCallInv'
  BY <1>1, <1>2 DEF ClientInv, ClientCallInv, Told, Unasked
<1>4. ConnectInv'
  BY <1>1 DEF ClientInv, ConnectInv
<1>5. TableType'
  BY <1>1, SameTypes DEF ClientInv
<1> QED  BY <1>1, <1>3, <1>4, <1>5, SameTable DEF ClientInv

LEMMA NextClientInv ==
    ASSUME Client!ClientsAssumption, ~early => ClientInv, [Client!Next]_(Client!vars)
    PROVE  ~early' => ClientInv'
<1> USE DEF Client!vars, Client!rpc, Client!history
<1>1. CASE Client!Sketch \/ Client!InCall
  <2>1. early' = early
    BY <1>1 DEF Client!Sketch, Client!InCall, Client!Begin, Client!End, Client!scan, Client!connect,
       Client!disconnect, Client!setupNotification, Client!getCharacteristicInfo,
       Client!getDescriptorInfo, Client!readRemoteRSSI, Client!readCharacteristic,
       Client!writeCharacteristic, Client!readDescriptor, Client!writeDescriptor, Client!Calls,
       Client!Returned, Client!EndDisconnected
  <2> QED  BY <1>1, <2>1, ClientCallStep
<1>2. CASE Client!HandleSysevt
  BY <1>2, FunctionStep DEF Client!HandleSysevt
<1>3. CASE Client!HandleNotification
  BY <1>3, NotificationStep DEF Client!HandleNotification
<1>4. CASE Client!PostsResult
  BY <1>4, ClientPostsStep DEF Client!PostsResult
<1>5. CASE Client!Activate
  BY <1>5, ActivateStep DEF Client!Activate
<1>6. CASE Client!Deactivate
  <2>1. /\ UNCHANGED <<call, m_msg, sent, posting, posted, Client!table, _return_value, _tid,
                       asked, link, ending, cleared, early>>
        /\ signal' <=> signal
    BY <1>6, Zenon DEF Client!Deactivate, Client!Silent, Client!Event, Client!scanning, Client!stack
  <2> QED  BY <2>1, ClientIdleStep
<1>7. CASE Client!StackAnswers
  <2>1. UNCHANGED <<ending, cleared>>
    BY <1>7 DEF Client!StackAnswers
  <2>2. PICK c \in Clients :
          \/ \E ok \in BOOLEAN : Client!Registers(c, ok)
          \/ Client!ScanTimeout(c) \/ Client!Connected(c) \/ Client!Disconnected(c)
          \/ Client!SearchComplete(c)
    BY <1>7 DEF Client!StackAnswers
  <2>3. ~early' => ~early
    BY <2>2 DEF Client!Registers, Client!ScanTimeout, Client!Connected, Client!Disconnected,
       Client!SearchComplete
  <2> QED  BY <2>1, <2>2, <2>3, RegistersStep, TimeoutStep, ConnectedStep, DisconnectedStep, SearchStep
<1>8. CASE Client!AttributeAnswers
  <2>1. UNCHANGED <<ending, cleared>>
    BY <1>8 DEF Client!AttributeAnswers
  <2>2. PICK c \in Clients, ok \in BOOLEAN, f \in Client!Asks : Client!Answered(f, c, ok)
    BY <1>8 DEF Client!AttributeAnswers, Client!get_characteristic_callback,
       Client!get_descriptor_callback, Client!register_for_notification_callback,
       Client!read_characteristic_callback, Client!write_characteristic_callback,
       Client!read_descriptor_callback, Client!write_descriptor_callback,
       Client!read_remote_rssi_callback, Client!Asks
  <2>3. early' = early
    BY <2>2 DEF Client!Answered
  <2> QED  BY <2>1, <2>2, <2>3, ClientAnsweredStep
<1>9. CASE Client!StackReports
  <2>1. UNCHANGED <<ending, cleared>>
    BY <1>9 DEF Client!StackReports
  <2>2. PICK c \in Clients :
          (\E d \in Devices : Client!ScanResult(c, d)) \/ Client!Disconnected(c)
    BY <1>9 DEF Client!StackReports
  <2>3. ~early' => ~early
    BY <2>2 DEF Client!ScanResult, Client!Disconnected
  <2> QED  BY <2>1, <2>2, <2>3, ReportStep, DisconnectedStep
<1>10. CASE Client!Chip \/ UNCHANGED Client!vars
  <2>1. /\ UNCHANGED <<call, m_msg, sent, posting, posted, Client!table, _return_value, _tid,
                       asked, link, ending, cleared, early, signal>>
    BY <1>10 DEF Client!Chip, Client!scanning, Client!stack
  <2> QED  BY <2>1, ClientIdleStep
<1> QED
  BY <1>1, <1>2, <1>3, <1>4, <1>5, <1>6, <1>7, <1>8, <1>9, <1>10 DEF Client!Next, Client!CmEvent

LEMMA ClientInvariance ==
    ASSUME Client!ClientsAssumption
    PROVE  Client!Spec => [](~early => ClientInv)
<1>1. Client!Init => ClientInv
  BY DEF Client!Init, Client!RpcInit, ClientInv, TableType, ClientCallInv, Between, Unasked,
     ConnectInv, RegisteredInv
<1>2. (~early => ClientInv) /\ [Client!Next]_(Client!vars) => (~early' => ClientInv')
  BY NextClientInv
<1> QED  BY <1>1, <1>2, PTL DEF Client!Spec

\* GATTClient.cpp:81-158, 204-269: the callbacks find the client of a context in the
\* table, whatever clients begin, end and fail, unless another's end() has emptied it.
THEOREM RegisteredAreFound ==
    ASSUME Client!ClientsAssumption
    PROVE  Client!Spec => []RegisteredFound
<1>1. (~early => ClientInv) => RegisteredFound
  BY PlacesLemma DEF ClientInv, TableType, RegisteredInv, RegisteredFound, Found, Client!Found
<1> QED  BY <1>1, ClientInvariance, PTL

\* GATTClient.cpp:359-458: when connect() returns true its client is connected and the search for
\* services is over, though one variable takes the results of all the callbacks.
THEOREM ConnectTellsTheTruth ==
    ASSUME Client!ClientsAssumption
    PROVE  Client!Spec => []ConnectTells
<1>1. (~early => ClientInv) => ConnectTells
  BY DEF ClientInv, ClientCallInv, ConnectInv, Between, SentOff, InWait, Told, Unasked,
     ConnectTells
<1> QED  BY <1>1, ClientInvariance, PTL

----------------------------------------------------------------------------
(* The client: the devices found *)

ListInv == BD_ADDR_LIST \in Seq(Devices) /\ ListedOnce

LEMMA NextListInv ==
    ASSUME ListInv, [Client!Next]_(Client!vars)
    PROVE  ListInv'
<1>1. CASE \E c \in Clients : Client!gattScan(c)
  <2>1. BD_ADDR_LIST' = << >> /\ heard' = {}
    BY <1>1 DEF Client!gattScan
  <2> QED  BY <2>1 DEF ListInv, ListedOnce, IsInjective
<1>2. CASE \E c \in Clients, d \in Devices : Client!ScanResult(c, d)
  <2>1. PICK d \in Devices :
          /\ heard' = heard \cup {d}
          /\ BD_ADDR_LIST' = IF d \in ToSet(BD_ADDR_LIST)
                                \/ Len(BD_ADDR_LIST) = MAX_BLE_SERCHED_DEV
                             THEN BD_ADDR_LIST ELSE Append(BD_ADDR_LIST, d)
    BY <1>2 DEF Client!ScanResult, Client!ToSet, ToSet
  <2>2. CASE BD_ADDR_LIST' = BD_ADDR_LIST
    BY <2>1, <2>2 DEF ListInv, ListedOnce, IsInjective
  <2>3. CASE /\ d \notin ToSet(BD_ADDR_LIST) /\ Len(BD_ADDR_LIST) # MAX_BLE_SERCHED_DEV
             /\ BD_ADDR_LIST' = Append(BD_ADDR_LIST, d)
    <3>1. /\ BD_ADDR_LIST' \in Seq(Devices)
          /\ DOMAIN BD_ADDR_LIST' = DOMAIN BD_ADDR_LIST \cup {Len(BD_ADDR_LIST) + 1}
          /\ \A i \in DOMAIN BD_ADDR_LIST : BD_ADDR_LIST'[i] = BD_ADDR_LIST[i]
          /\ BD_ADDR_LIST'[Len(BD_ADDR_LIST) + 1] = d
      BY <2>3 DEF ListInv
    <3>2. \A i \in DOMAIN BD_ADDR_LIST : BD_ADDR_LIST[i] # d
      BY <2>3 DEF ToSet
    <3>3. IsInjective(BD_ADDR_LIST')
      BY <3>1, <3>2 DEF ListInv, ListedOnce, IsInjective
    <3>4. heard' \subseteq ToSet(BD_ADDR_LIST')
      BY <2>1, <2>3, <3>1 DEF ListInv, ListedOnce, ToSet
    <3> QED  BY <3>1, <3>3, <3>4 DEF ListInv, ListedOnce
  <2> QED  BY <2>1, <2>2, <2>3
<1>3. ASSUME ~ \E c \in Clients : Client!gattScan(c),
             ~ \E c \in Clients, d \in Devices : Client!ScanResult(c, d)
      PROVE  UNCHANGED <<BD_ADDR_LIST, heard>>
  <2> USE DEF Client!scanning, Client!vars
  <2>1. ASSUME Client!Sketch \/ Client!InCall PROVE UNCHANGED <<BD_ADDR_LIST, heard>>
    BY <2>1 DEF Client!Sketch, Client!InCall, Client!Begin, Client!End, Client!scan, Client!connect,
       Client!disconnect, Client!setupNotification, Client!getCharacteristicInfo,
       Client!getDescriptorInfo, Client!readRemoteRSSI, Client!readCharacteristic,
       Client!writeCharacteristic, Client!readDescriptor, Client!writeDescriptor, Client!Calls,
       Client!Returned, Client!EndDisconnected
  <2>2. ASSUME Client!HandleSysevt \/ Client!HandleNotification PROVE UNCHANGED <<BD_ADDR_LIST, heard>>
    BY <1>3, <2>2 DEF Client!HandleSysevt, Client!HandleNotification, Client!gattEnableNotification,
       Client!gattBegin, Client!ScanRefused, Client!gattConnect, Client!gattDisConnect,
       Client!gattGetCharacteristic, Client!gattGetDescriptor, Client!gattReadCharacteristic,
       Client!gattWriteCharacteristic, Client!gattReadDescriptor, Client!gattWriteDescriptor,
       Client!gattReadRemoteRSSI, Client!gattEnd, Client!EndRefused, Client!Ask
  <2>3. ASSUME Client!PostsResult \/ Client!CmEvent \/ Client!Chip PROVE UNCHANGED <<BD_ADDR_LIST, heard>>
    BY <2>3 DEF Client!PostsResult, Client!CmEvent, Client!Activate, Client!Deactivate, Client!Chip
  <2>4. ASSUME Client!StackAnswers PROVE UNCHANGED <<BD_ADDR_LIST, heard>>
    BY <2>4 DEF Client!StackAnswers, Client!Registers, Client!ScanTimeout, Client!Connected,
       Client!Disconnected, Client!SearchComplete
  <2>5. ASSUME Client!AttributeAnswers PROVE UNCHANGED <<BD_ADDR_LIST, heard>>
    BY <2>5 DEF Client!AttributeAnswers, Client!get_characteristic_callback,
       Client!get_descriptor_callback, Client!register_for_notification_callback,
       Client!read_characteristic_callback, Client!write_characteristic_callback,
       Client!read_descriptor_callback, Client!write_descriptor_callback,
       Client!read_remote_rssi_callback, Client!Answered
  <2>6. ASSUME Client!StackReports PROVE UNCHANGED <<BD_ADDR_LIST, heard>>
    BY <1>3, <2>6 DEF Client!StackReports, Client!Disconnected
  <2> QED  BY <2>1, <2>2, <2>3, <2>4, <2>5, <2>6 DEF Client!Next
<1> QED  BY <1>1, <1>2, <1>3 DEF ListInv, ListedOnce, IsInjective, ToSet

\* GATTClient.cpp:271-354: the list of a scan has no device twice, and misses one that reported
\* only when it is full, however often and in what order the devices report.
THEOREM DevicesListedOnce == Client!Spec => []ListedOnce
<1>1. Client!Init => ListInv
  BY DEF Client!Init, ListInv, ListedOnce, IsInjective
<1>2. ListInv /\ [Client!Next]_(Client!vars) => ListInv'
  BY NextListInv
<1>3. ListInv => ListedOnce
  BY DEF ListInv
<1> QED  BY <1>1, <1>2, <1>3, PTL DEF Client!Spec
=============================================================================
