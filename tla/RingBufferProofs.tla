-------------------------- MODULE RingBufferProofs --------------------------
(***************************************************************************)
(* RingBuffer is a bounded queue for every buffer size and every set of    *)
(* bytes.  The indices move modulo SIZE; Wrap replaces the modulus by a    *)
(* comparison, so that everything after it is linear.                      *)
(***************************************************************************)
EXTENDS RingBuffer, SequenceTheorems, TLAPS

\* A sum of two indices is reduced by at most one SIZE.
LEMMA Wrap ==
    ASSUME NEW n \in 0 .. 2 * SIZE - 1
    PROVE  n % SIZE = IF n < SIZE THEN n ELSE n - SIZE
  BY SizeAssumption

LEMMA AfterLemma ==
    ASSUME NEW i \in Index
    PROVE  After(i) = IF i = SIZE - 1 THEN 0 ELSE i + 1
<1>1. i + 1 \in 0 .. 2 * SIZE - 1
  BY SizeAssumption DEF Index
<1> QED  BY <1>1, Wrap, SizeAssumption DEF Index, After

LEMMA AvailableLemma ==
    ASSUME TypeOK
    PROVE  /\ available = IF _iHead >= _iTail THEN _iHead - _iTail
                                               ELSE SIZE + _iHead - _iTail
           /\ available \in 0 .. SIZE - 1
<1> DEFINE n == SIZE + _iHead - _iTail
<1>1. n \in 0 .. 2 * SIZE - 1
  BY SizeAssumption DEF TypeOK, Index
<1>2. available = n % SIZE
  BY DEF available
<1> HIDE DEF n
<1>3. available = IF n < SIZE THEN n ELSE n - SIZE
  BY <1>1, <1>2, Wrap
<1> QED  BY <1>3, SizeAssumption DEF TypeOK, Index, n

\* The place of the n-th character after the tail.
LEMMA PlaceLemma ==
    ASSUME TypeOK, NEW n \in 0 .. SIZE - 1
    PROVE  (_iTail + n) % SIZE = IF _iTail + n < SIZE THEN _iTail + n
                                                     ELSE _iTail + n - SIZE
<1>1. _iTail \in Nat /\ n \in Nat /\ _iTail + n \in 0 .. 2 * SIZE - 1
  BY SizeAssumption DEF TypeOK, Index
<1>2. \A m \in 0 .. 2 * SIZE - 1 : m % SIZE = IF m < SIZE THEN m ELSE m - SIZE
  BY Wrap, Zenon
<1>3. PICK m \in 0 .. 2 * SIZE - 1 : m = _iTail + n
  BY <1>1
<1>4. m % SIZE = IF m < SIZE THEN m ELSE m - SIZE
  BY <1>2, Zenon
<1> QED  BY <1>1, <1>3, <1>4, SizeAssumption

----------------------------------------------------------------------------
(* The invariant *)

\* store_char in progress has room: the tail may move away from its index i, never
\* on to it; and a character that has been loaded is the one at the tail.
StoringInv ==
    storing # NotStoring =>
        /\ storing.i = After(_iHead) /\ storing.i # _iTail
        /\ storing.step = "advance" => _aucBuffer[_iHead] = storing.c

ReadingInv ==
    reading # NotReading => _iHead # _iTail /\ reading.uc = _aucBuffer[_iTail]

IInv == TypeOK /\ StoringInv /\ ReadingInv

LEMMA InitIInv == Init => IInv
  BY SizeAssumption, BytesAssumption
     DEF Init, IInv, TypeOK, Index, StoringInv, ReadingInv

LEMMA NextIInv == IInv /\ [Next]_vars => IInv'
<1> SUFFICES ASSUME IInv, [Next]_vars PROVE IInv'
  OBVIOUS
<1> USE SizeAssumption, BytesAssumption
<1> USE DEF IInv, TypeOK, StoringInv, ReadingInv, Stored, NotStoring, Loaded, NotReading, ring
<1>1. After(_iHead) \in Index /\ After(_iTail) \in Index /\ After(_iHead) # _iHead
  BY AfterLemma DEF Index
<1>2. ASSUME NEW c \in Bytes, StoreRoom(c) PROVE IInv'
  BY <1>1, <1>2 DEF StoreRoom, After
<1>3. CASE StoreFull
  BY <1>3 DEF StoreFull, After
<1>4. CASE StoreWrite
  BY <1>1, <1>4 DEF StoreWrite, After
<1>5. CASE StoreAdvance
  BY <1>5 DEF StoreAdvance
<1>6. CASE ReadEmpty
  BY <1>6 DEF ReadEmpty, After
<1>7. CASE ReadLoad
  BY <1>7 DEF ReadLoad, After
<1>8. CASE ReadAdvance
  <2>1. After(_iHead)' = After(_iHead)
    BY <1>8 DEF ReadAdvance, After
  <2>2. _iTail' = After(_iTail) /\ After(_iTail) # After(_iHead)
    BY <1>8, AfterLemma DEF ReadAdvance, Index
  <2> QED  BY <1>1, <1>8, <2>1, <2>2 DEF ReadAdvance
<1>9. CASE UNCHANGED vars
  BY <1>9 DEF vars, After
<1> QED  BY <1>2, <1>3, <1>4, <1>5, <1>6, <1>7, <1>8, <1>9 DEF Next, StoreChar, Read

THEOREM Invariance == Spec => []IInv
<1>1. Init => IInv
  BY InitIInv
<1>2. IInv /\ [Next]_vars => IInv'
  BY NextIInv
<1> QED  BY <1>1, <1>2, PTL DEF Spec

\* Indices stay inside the buffer and store_char and read() keep their types.
THEOREM TypeCorrect == Spec => []TypeOK
<1>1. IInv => TypeOK
  BY DEF IInv
<1> QED  BY <1>1, Invariance, PTL

\* The character read() is about to return is the oldest one.
THEOREM ReadsTheOldest == Spec => []ReadsOldest
<1>1. IInv => ReadsOldest
  <2> SUFFICES ASSUME IInv, reading # NotReading
               PROVE  available > 0 /\ reading.uc = contents[1]
    BY DEF ReadsOldest
  <2>1. TypeOK /\ _iHead # _iTail /\ reading.uc = _aucBuffer[_iTail]
    BY DEF IInv, ReadingInv
  <2>2. available \in 1 .. SIZE - 1
    <3>1. /\ available \in 0 .. SIZE - 1
          /\ available = IF _iHead >= _iTail THEN _iHead - _iTail
                                             ELSE SIZE + _iHead - _iTail
      BY <2>1, AvailableLemma
    <3> QED  BY <2>1, <3>1, SizeAssumption DEF TypeOK, Index
  <2>3. contents[1] = _aucBuffer[(_iTail + 0) % SIZE]
    BY <2>1, <2>2 DEF contents, TypeOK, Index
  <2>4. (_iTail + 0) % SIZE = _iTail
    BY <2>1, PlaceLemma, SizeAssumption DEF TypeOK, Index
  <2> QED  BY <2>1, <2>2, <2>3, <2>4
<1> QED  BY <1>1, Invariance, PTL

----------------------------------------------------------------------------
(* The contents *)

\* The character n places after the tail, for every place that can hold one.
LEMMA ContentsLemma ==
    ASSUME TypeOK
    PROVE  /\ contents \in Seq(Bytes) /\ Len(contents) = available
           /\ \A n \in 1 .. available : contents[n] = _aucBuffer[(_iTail + n - 1) % SIZE]
<1>1. available \in 0 .. SIZE - 1
  BY AvailableLemma
<1>2. ASSUME NEW n \in 1 .. available
      PROVE  _aucBuffer[(_iTail + n - 1) % SIZE] \in Bytes
  <2>1. n - 1 \in 0 .. SIZE - 1 /\ _iTail + (n - 1) = _iTail + n - 1
    BY <1>1, SizeAssumption DEF TypeOK, Index
  <2>2. (_iTail + (n - 1)) % SIZE = IF _iTail + (n - 1) < SIZE
                                    THEN _iTail + (n - 1) ELSE _iTail + (n - 1) - SIZE
    BY <2>1, PlaceLemma
  <2>3. (_iTail + (n - 1)) % SIZE \in Index
    BY <2>1, <2>2, SizeAssumption DEF TypeOK, Index
  <2> QED  BY <2>1, <2>3 DEF TypeOK
<1>3. contents = [n \in 1 .. available |-> _aucBuffer[(_iTail + n - 1) % SIZE]]
  BY DEF contents
<1> QED  BY <1>1, <1>2, <1>3

\* Both, as one formula of the state.
RingShape ==
    /\ available \in 0 .. SIZE - 1
    /\ available = IF _iHead >= _iTail THEN _iHead - _iTail
                                       ELSE SIZE + _iHead - _iTail
    /\ contents \in Seq(Bytes) /\ Len(contents) = available
    /\ \A n \in 1 .. available : contents[n] = _aucBuffer[(_iTail + n - 1) % SIZE]

LEMMA NextContents == TypeOK' => RingShape'
<1>1. TypeOK => RingShape
  <2> SUFFICES ASSUME TypeOK PROVE RingShape
    OBVIOUS
  <2>1. /\ available \in 0 .. SIZE - 1
        /\ available = IF _iHead >= _iTail THEN _iHead - _iTail
                                           ELSE SIZE + _iHead - _iTail
    BY AvailableLemma
  <2>2. contents \in Seq(Bytes) /\ Len(contents) = available
    BY ContentsLemma
  <2>3. \A n \in 1 .. available : contents[n] = _aucBuffer[(_iTail + n - 1) % SIZE]
    BY ContentsLemma, Zenon
  <2> QED  BY <2>1, <2>2, <2>3, Zenon DEF RingShape
<1> QED  BY <1>1, PTL

\* store_char's last step adds one character.
LEMMA AdvanceAddsOne ==
    ASSUME IInv, TypeOK', StoreAdvance
    PROVE  available < SIZE - 1 /\ available' = available + 1
<1>1. /\ _iHead' = After(_iHead) /\ After(_iHead) # _iTail
      /\ UNCHANGED _iTail
  BY DEF StoreAdvance, IInv, TypeOK, StoringInv, Stored, NotStoring
<1>2. _iHead \in Index /\ _iTail \in Index
  BY DEF IInv, TypeOK
<1>3. After(_iHead) = IF _iHead = SIZE - 1 THEN 0 ELSE _iHead + 1
  BY <1>2, AfterLemma
<1>4. available = IF _iHead >= _iTail THEN _iHead - _iTail ELSE SIZE + _iHead - _iTail
  BY AvailableLemma DEF IInv
<1>5. available' = IF _iHead' >= _iTail' THEN _iHead' - _iTail'
                                        ELSE SIZE + _iHead' - _iTail'
  BY NextContents DEF RingShape
<1> HIDE DEF TypeOK
<1> QED  BY <1>1, <1>2, <1>3, <1>4, <1>5, SizeAssumption DEF Index

----------------------------------------------------------------------------
(* NoOverwrite *)

\* The head is not the place of a waiting character.
LEMMA HeadFree ==
    ASSUME TypeOK, NEW n \in 0 .. available - 1
    PROVE  (_iTail + n) % SIZE \in Index /\ (_iTail + n) % SIZE # _iHead
<1>1. n \in 0 .. SIZE - 1
  BY AvailableLemma, SizeAssumption
<1>2. (_iTail + n) % SIZE = IF _iTail + n < SIZE THEN _iTail + n ELSE _iTail + n - SIZE
  BY <1>1, PlaceLemma
<1> QED  BY <1>1, <1>2, AvailableLemma, SizeAssumption DEF TypeOK, Index

\* A received character keeps its place and value, and is counted, until it is read.
THEOREM NothingOverwritten == Spec => NoOverwrite
<1> DEFINE Kept == \A n \in 0 .. available - 1 :
              LET p == (_iTail + n) % SIZE IN _aucBuffer'[p] = _aucBuffer[p]
           Counted == _iTail' = _iTail => available' >= available
<1>1. IInv /\ [Next]_vars => [Kept]_vars
  <2> SUFFICES ASSUME IInv, Next, NEW n \in 0 .. available - 1
               PROVE  LET p == (_iTail + n) % SIZE IN _aucBuffer'[p] = _aucBuffer[p]
    OBVIOUS
  <2> DEFINE p == (_iTail + n) % SIZE
  <2>1. p \in Index /\ p # _iHead
    BY HeadFree DEF IInv
  <2>2. _aucBuffer' = _aucBuffer \/ _aucBuffer' = [_aucBuffer EXCEPT ![_iHead] = storing.c]
    BY DEF Next, StoreChar, Read, StoreRoom, StoreFull, StoreWrite, StoreAdvance,
           ReadEmpty, ReadLoad, ReadAdvance, ring
  <2> HIDE DEF p
  <2>3. _aucBuffer'[p] = _aucBuffer[p]
    BY <2>1, <2>2 DEF IInv, TypeOK
  <2> QED  BY <2>3 DEF p
<1>2. IInv /\ [Next]_vars => [Counted]_vars
  <2> SUFFICES ASSUME IInv, Next, _iTail' = _iTail PROVE available' >= available
    OBVIOUS
  <2>1. TypeOK /\ TypeOK'
    BY NextIInv DEF IInv
  <2>2. available \in Nat
    BY <2>1, AvailableLemma
  <2>3. CASE StoreAdvance
    BY <2>1, <2>2, <2>3, AdvanceAddsOne
  <2>4. CASE UNCHANGED _iHead
    <3>1. available' = available
      BY <2>4, Zenon DEF available
    <3> QED  BY <2>2, <3>1
  <2>5. StoreAdvance \/ UNCHANGED _iHead
    <3>1. CASE ReadAdvance
      BY <3>1 DEF ReadAdvance
    <3>2. CASE ~ReadAdvance
      BY <3>2 DEF Next, StoreChar, Read, StoreRoom, StoreFull, StoreWrite,
                  ReadEmpty, ReadLoad, ring
    <3> QED  BY <3>1, <3>2
  <2> QED  BY <2>3, <2>4, <2>5
<1> QED  BY <1>1, <1>2, Invariance, PTL DEF Spec, NoOverwrite

----------------------------------------------------------------------------
(* The refinement *)

\* The ring implements the bounded queue, for every buffer size.
THEOREM QueueSpec == Spec => ImplementsQueue
<1> USE SizeAssumption, BytesAssumption
<1>1. Init => Queue!Init
  <2> SUFFICES ASSUME Init PROVE Queue!Init
    OBVIOUS
  <2>1. TypeOK
    BY InitIInv DEF IInv
  <2>2. available = 0
    BY <2>1, AvailableLemma DEF Init
  <2>3. contents = << >>
    BY <2>1, <2>2, ContentsLemma
  <2> QED  BY <2>3 DEF Init, Queue!Init, NotStoring, NotReading
<1>2. IInv /\ [Next]_vars => [Queue!Next]_<<contents, fate, got>>
  <2> SUFFICES ASSUME IInv, [Next]_vars PROVE [Queue!Next]_<<contents, fate, got>>
    OBVIOUS
  <2> USE DEF NotStoring, NotReading
  <2>1. TypeOK /\ TypeOK'
    BY NextIInv DEF IInv
  <2>2. /\ available \in 0 .. SIZE - 1
        /\ available = IF _iHead >= _iTail THEN _iHead - _iTail
                                           ELSE SIZE + _iHead - _iTail
    BY <2>1, AvailableLemma
  <2>3. contents \in Seq(Bytes) /\ Len(contents) = available
    BY <2>1, ContentsLemma
  <2>4. ASSUME UNCHANGED ring PROVE UNCHANGED contents
    BY <2>4 DEF ring, contents, available
  <2>5. CASE StoreFull
    <3>1. available = SIZE - 1
      BY <2>1, <2>2, <2>5, AfterLemma DEF StoreFull, TypeOK, Index
    <3> QED  BY <2>3, <2>4, <2>5, <3>1 DEF StoreFull, Queue!Next, Queue!Refuse
  <2>6. ASSUME NEW c \in Bytes, StoreRoom(c) PROVE UNCHANGED <<contents, fate, got>>
    BY <2>4, <2>6 DEF StoreRoom
  <2>7. CASE StoreWrite
    <3>1. available' = available
      BY <2>7 DEF StoreWrite, available
    <3>2. ASSUME NEW n \in 1 .. available PROVE contents'[n] = contents[n]
      <4>1. n - 1 \in 0 .. available - 1 /\ _iTail + (n - 1) = _iTail + n - 1
        BY <2>1, <2>2 DEF TypeOK, Index
      <4>2. (_iTail + n - 1) % SIZE \in Index /\ (_iTail + n - 1) % SIZE # _iHead
        BY <2>1, <4>1, HeadFree
      <4>3. contents[n] = _aucBuffer[(_iTail + n - 1) % SIZE]
        BY <2>1, ContentsLemma
      <4>4. contents'[n] = _aucBuffer'[(_iTail + n - 1) % SIZE]
        BY <2>1, <2>7, <3>1, NextContents DEF RingShape, StoreWrite
      <4> HIDE DEF TypeOK
      <4>5. _aucBuffer' = [_aucBuffer EXCEPT ![_iHead] = storing.c]
        BY <2>7 DEF StoreWrite
      <4>6. PICK p \in Index : p = (_iTail + n - 1) % SIZE
        BY <4>2
      <4>7. _aucBuffer'[p] = _aucBuffer[p]
        BY <2>1, <4>2, <4>5, <4>6 DEF TypeOK
      <4> QED  BY <4>3, <4>4, <4>6, <4>7, Zenon
    <3>3. contents' = contents
      BY <2>1, <2>3, <3>1, <3>2, NextContents DEF RingShape
    <3> QED  BY <3>3, <2>7 DEF StoreWrite
  <2>8. CASE StoreAdvance
    <3>1. /\ _iHead' = After(_iHead) /\ After(_iHead) # _iTail
          /\ _aucBuffer[_iHead] = storing.c /\ storing.c \in Bytes
          /\ UNCHANGED <<_aucBuffer, _iTail>>
      BY <2>8 DEF StoreAdvance, IInv, TypeOK, StoringInv, Stored
    <3>2. available < SIZE - 1 /\ available' = available + 1
      BY <2>1, <2>8, AdvanceAddsOne
    <3>3. (_iTail + available) % SIZE = _iHead
      BY <2>1, <2>2, PlaceLemma DEF TypeOK, Index
    <3>4. ASSUME NEW n \in 1 .. available' PROVE contents'[n] = Append(contents, storing.c)[n]
      <4>1. contents'[n] = _aucBuffer[(_iTail + n - 1) % SIZE]
        BY <2>1, <3>1, NextContents DEF RingShape
      <4>2. CASE n \in 1 .. available
        <5>1. contents[n] = _aucBuffer[(_iTail + n - 1) % SIZE]
          BY <2>1, <4>2, ContentsLemma
        <5>2. Append(contents, storing.c)[n] = contents[n]
          BY <2>3, <4>2
        <5> QED  BY <4>1, <5>1, <5>2, Zenon
      <4>3. CASE n = available + 1
        <5>1. _iTail + n - 1 = _iTail + available
          BY <2>1, <2>2, <4>3 DEF TypeOK, Index
        <5>2. Append(contents, storing.c)[n] = storing.c
          BY <2>3, <4>3
        <5>3. _aucBuffer[_iHead] = storing.c
          BY <3>1
        <5> QED  BY <3>3, <4>1, <5>1, <5>2, <5>3, Zenon
      <4>4. n \in 1 .. available \/ n = available + 1
        BY <2>2, <3>2
      <4> QED  BY <4>2, <4>3, <4>4, Zenon
    <3>5. contents' = Append(contents, storing.c)
      <4>1. /\ contents' \in Seq(Bytes) /\ Len(contents') = available + 1
        BY <2>1, <3>2, NextContents DEF RingShape
      <4>2. /\ Append(contents, storing.c) \in Seq(Bytes)
            /\ Len(Append(contents, storing.c)) = available + 1
        BY <2>2, <2>3, <3>1
      <4> DEFINE c == contents'
                 d == Append(contents, storing.c)
      <4>3. \A n \in 1 .. available + 1 : c[n] = d[n]
        BY <3>2, <3>4, Zenon
      <4>4. /\ c \in Seq(Bytes) /\ Len(c) = available + 1
            /\ d \in Seq(Bytes) /\ Len(d) = available + 1
        BY <4>1, <4>2
      <4> HIDE DEF c, d
      <4>5. c = d
        <5>1. Len(c) = Len(d) /\ \A n \in 1 .. Len(c) : c[n] = d[n]
          BY <4>3, <4>4, Zenon
        <5> QED  BY <4>4, <5>1, SeqEqual, Zenon
      <4> QED  BY <4>5, Zenon DEF c, d
    <3> QED  BY <2>3, <2>8, <3>1, <3>2, <3>5 DEF StoreAdvance, Queue!Next, Queue!Store
  <2>9. CASE ReadEmpty
    <3>1. available = 0
      BY <2>1, <2>2, <2>9 DEF ReadEmpty, TypeOK, Index
    <3> QED  BY <2>3, <2>4, <2>9, <3>1 DEF ReadEmpty, Queue!Next, Queue!Miss
  <2>10. CASE ReadLoad
    BY <2>4, <2>10 DEF ReadLoad
  <2>11. CASE ReadAdvance
    <3>1. /\ _iTail' = After(_iTail) /\ _iHead # _iTail
          /\ _aucBuffer[_iTail] = reading.uc
          /\ UNCHANGED <<_aucBuffer, _iHead>>
      BY <2>11 DEF ReadAdvance, IInv, ReadingInv
    <3>2. After(_iTail) = IF _iTail = SIZE - 1 THEN 0 ELSE _iTail + 1
      BY <2>1, AfterLemma DEF TypeOK
    <3>3. available > 0 /\ available' = available - 1
      <4>1. _iHead \in Index /\ _iTail \in Index
        BY <2>1 DEF TypeOK
      <4>2. available' = IF _iHead' >= _iTail' THEN _iHead' - _iTail'
                                              ELSE SIZE + _iHead' - _iTail'
        BY <2>1, NextContents DEF RingShape
      <4> HIDE DEF TypeOK
      <4> QED  BY <2>2, <3>1, <3>2, <4>1, <4>2 DEF Index
    <3>4. Head(contents) = reading.uc
      <4>1. contents[1] = _aucBuffer[(_iTail + 0) % SIZE]
        BY <2>1, <2>2, <3>3 DEF contents, TypeOK, Index
      <4>2. (_iTail + 0) % SIZE = _iTail
        BY <2>1, PlaceLemma DEF TypeOK, Index
      <4>3. Head(contents) = contents[1]
        BY <2>3, <3>3
      <4> QED  BY <3>1, <4>1, <4>2, <4>3, Zenon
    <3>5. ASSUME NEW n \in 1 .. available' PROVE contents'[n] = Tail(contents)[n]
      <4>1. contents'[n] = _aucBuffer[(_iTail' + n - 1) % SIZE]
        BY <2>1, <3>1, NextContents DEF RingShape
      <4>2. contents[n + 1] = _aucBuffer[(_iTail + (n + 1) - 1) % SIZE]
        BY <2>1, <2>2, <3>3, ContentsLemma
      <4>3. (_iTail' + n - 1) % SIZE = (_iTail + (n + 1) - 1) % SIZE
        <5>1. _iTail \in Index /\ _iTail' \in Index
          BY <2>1 DEF TypeOK
        <5>2. n \in 1 .. SIZE - 2
          BY <2>2, <3>3
        <5>3. \A m \in 0 .. 2 * SIZE - 1 : m % SIZE = IF m < SIZE THEN m ELSE m - SIZE
          BY Wrap, Zenon
        <5>4. PICK a \in 0 .. 2 * SIZE - 1 : a = _iTail' + n - 1
          <6>1. _iTail' \in 0 .. SIZE - 1
            BY <5>1 DEF Index
          <6> DEFINE i == _iTail'
          <6> HIDE DEF i
          <6>2. i \in 0 .. SIZE - 1
            BY <6>1 DEF i
          <6>3. i + n - 1 \in 0 .. 2 * SIZE - 1
            BY <5>2, <6>2
          <6> QED  BY <6>3, Zenon DEF i
        <5>5. PICK b \in 0 .. 2 * SIZE - 1 : b = _iTail + (n + 1) - 1
          BY <5>1, <5>2 DEF Index
        <5>6. /\ a % SIZE = IF a < SIZE THEN a ELSE a - SIZE
              /\ b % SIZE = IF b < SIZE THEN b ELSE b - SIZE
          BY <5>3, Zenon
        <5>7. (IF a < SIZE THEN a ELSE a - SIZE) = (IF b < SIZE THEN b ELSE b - SIZE)
          BY <3>1, <3>2, <5>1, <5>2, <5>4, <5>5 DEF Index
        <5> QED  BY <5>4, <5>5, <5>6, <5>7, Zenon
      <4>4. Tail(contents)[n] = contents[n + 1]
        BY <2>2, <2>3, <3>3
      <4> QED  BY <4>1, <4>2, <4>3, <4>4, Zenon
    <3>6. contents' = Tail(contents)
      <4>1. /\ contents' \in Seq(Bytes) /\ Len(contents') = available - 1
        BY <2>1, <3>3, NextContents DEF RingShape
      <4>2. /\ Tail(contents) \in Seq(Bytes)
            /\ Len(Tail(contents)) = available - 1
        BY <2>2, <2>3, <3>3
      <4> QED  BY <2>2, <3>3, <3>5, <4>1, <4>2
    <3> QED  BY <2>3, <2>11, <3>3, <3>4, <3>6 DEF ReadAdvance, Queue!Next, Queue!Take
  <2>12. CASE UNCHANGED vars
    BY <2>4, <2>12 DEF vars
  <2> QED  BY <2>5, <2>6, <2>7, <2>8, <2>9, <2>10, <2>11, <2>12
           DEF Next, StoreChar, Read
<1> QED  BY <1>1, <1>2, Invariance, PTL DEF Spec, ImplementsQueue, Queue!Spec
=============================================================================
