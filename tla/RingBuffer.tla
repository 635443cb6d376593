----------------------------- MODULE RingBuffer -----------------------------
(***************************************************************************)
(* RingBuffer (cores/arduino/RingBuffer.cpp) with its two users:           *)
(* UartIrqHandler stores the bytes the driver delivers and UARTClass reads *)
(* them on the sketch thread.  Neither takes a lock, so a step below makes  *)
(* at most one access to what the other side writes.                       *)
(***************************************************************************)
EXTENDS Integers, Sequences

CONSTANTS Bytes,   \* the values a byte is given here
          SIZE,    \* SERIAL_BUFFER_SIZE
          NoByte   \* the -1 that read() returns

ASSUME SizeAssumption == SIZE \in Nat /\ SIZE > 1

ASSUME BytesAssumption == 0 \in Bytes /\ NoByte \notin Bytes

VARIABLES
    _aucBuffer, _iHead, _iTail,
    storing,   \* store_char: where it is, its argument c and its local i
    reading,   \* read: whether the character has been loaded, and the local uc
    fate,      \* history: the last argument of store_char, NoByte if it was dropped
    got        \* history: what read() returned last

ring == <<_aucBuffer, _iHead, _iTail>>
vars == <<ring, storing, reading, fate, got>>

Index == 0 .. SIZE - 1
Stored == [step : {"write", "advance"}, c : Bytes, i : Index]
NotStoring == [step |-> "none"]
Loaded == [step : {"advance"}, uc : Bytes]
NotReading == [step |-> "none"]

TypeOK ==
    /\ _aucBuffer \in [Index -> Bytes]
    /\ _iHead \in Index
    /\ _iTail \in Index
    /\ storing \in Stored \cup {NotStoring}
    /\ reading \in Loaded \cup {NotReading}
    /\ fate \in Bytes \cup {NoByte}
    /\ got \in Bytes \cup {NoByte}

\* The index after i.
After(i) == (i + 1) % SIZE

\* available(): how many characters wait.
available == (SIZE + _iHead - _iTail) % SIZE

Init ==
    /\ _aucBuffer = [i \in Index |-> 0]
    /\ _iHead = 0 /\ _iTail = 0
    /\ storing = NotStoring /\ reading = NotReading
    /\ fate = NoByte /\ got = NoByte

----------------------------------------------------------------------------
(* store_char(c), called by UartIrqHandler *)

\* The test against the tail: a character that finds the buffer full is dropped.
StoreFull ==
    /\ storing = NotStoring
    /\ After(_iHead) = _iTail
    /\ fate' = NoByte
    /\ UNCHANGED <<ring, storing, reading, got>>

StoreRoom(c) ==
    /\ storing = NotStoring
    /\ After(_iHead) # _iTail
    /\ storing' = [step |-> "write", c |-> c, i |-> After(_iHead)]
    /\ UNCHANGED <<ring, reading, fate, got>>

\* Mutated form: the head moves on a character that has not been written.
StoreWriteNothing ==
    /\ storing.step = "write"
    /\ storing' = [storing EXCEPT !.step = "advance"]
    /\ UNCHANGED <<ring, reading, fate, got>>

StoreWrite ==
    /\ storing.step = "write"
    /\ _aucBuffer' = [_aucBuffer EXCEPT ![_iHead] = storing.c]
    /\ storing' = [storing EXCEPT !.step = "advance"]
    /\ UNCHANGED <<_iHead, _iTail, reading, fate, got>>

StoreAdvance ==
    /\ storing.step = "advance"
    /\ _iHead' = storing.i
    /\ storing' = NotStoring
    /\ fate' = storing.c
    /\ UNCHANGED <<_aucBuffer, _iTail, reading, got>>

----------------------------------------------------------------------------
(* read(), called by the sketch; flush() is read() until it returns -1 *)

ReadEmpty ==
    /\ reading = NotReading
    /\ _iHead = _iTail
    /\ got' = NoByte
    /\ UNCHANGED <<ring, storing, reading, fate>>

ReadLoad ==
    /\ reading = NotReading
    /\ _iHead # _iTail
    /\ reading' = [step |-> "advance", uc |-> _aucBuffer[_iTail]]
    /\ UNCHANGED <<ring, storing, fate, got>>

ReadAdvance ==
    /\ reading.step = "advance"
    /\ _iTail' = After(_iTail)
    /\ got' = reading.uc
    /\ reading' = NotReading
    /\ UNCHANGED <<_aucBuffer, _iHead, storing, fate>>

----------------------------------------------------------------------------

StoreChar == (\E c \in Bytes : StoreRoom(c)) \/ StoreFull \/ StoreWrite \/ StoreAdvance

Read == ReadEmpty \/ ReadLoad \/ ReadAdvance

Next == StoreChar \/ Read

Spec == Init /\ [][Next]_vars

----------------------------------------------------------------------------
(* Properties *)

\* The characters waiting, oldest first.
contents == [n \in 1 .. available |-> _aucBuffer[(_iTail + n - 1) % SIZE]]

\* A character that has been received keeps its place and its value until the
\* sketch has read it, and is counted until then, however store_char and read()
\* interleave.
NoOverwrite ==
    [][/\ \A n \in 0 .. available - 1 :
             LET p == (_iTail + n) % SIZE IN _aucBuffer'[p] = _aucBuffer[p]
       /\ _iTail' = _iTail => available' >= available]_vars

\* What read() has loaded is still the oldest character when it moves the tail.
ReadsOldest == reading # NotReading => available > 0 /\ reading.uc = contents[1]

\* The ring is a bounded queue of SIZE - 1 places: order kept, nothing lost but
\* what arrives when every place is taken, nothing read twice.
Queue == INSTANCE ByteQueue WITH q <- contents, Capacity <- SIZE - 1

ImplementsQueue == Queue!Spec
=============================================================================
