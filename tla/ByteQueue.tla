----------------------------- MODULE ByteQueue ------------------------------
(***************************************************************************)
(* What the receive side of a serial port promises: a bounded queue.  The  *)
(* bytes come out in the order they went in, none twice; one that arrives  *)
(* while the queue is full is refused, and only then.                      *)
(***************************************************************************)
EXTENDS Naturals, Sequences

CONSTANTS Bytes, Capacity, NoByte

VARIABLES q,      \* bytes received and not yet read
          fate,   \* the last byte received, NoByte if it was refused
          got     \* what the last read returned

Init == q = << >> /\ fate = NoByte /\ got = NoByte

Store(c) == /\ Len(q) < Capacity
            /\ q' = Append(q, c)
            /\ fate' = c
            /\ UNCHANGED got

Refuse == /\ Len(q) = Capacity
          /\ fate' = NoByte
          /\ UNCHANGED <<q, got>>

Take == /\ q # << >>
        /\ got' = Head(q)
        /\ q' = Tail(q)
        /\ UNCHANGED fate

Miss == /\ q = << >>
        /\ got' = NoByte
        /\ UNCHANGED <<q, fate>>

Next == (\E c \in Bytes : Store(c)) \/ Refuse \/ Take \/ Miss

Spec == Init /\ [][Next]_<<q, fate, got>>
=============================================================================
