------------------------------ MODULE MCLTask ------------------------------
(* Two sketch threads, one object they share and one private to each kind:  *)
(* k1 is called by both threads, k2 by t2 alone.                            *)
EXTENDS LTask

CONSTANTS t1, t2, k1, k2

MCUsers == [k \in {k1, k2} |-> IF k = k1 THEN {t1, t2} ELSE {t2}]
=============================================================================
