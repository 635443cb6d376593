---------------------------- MODULE MCLGATTServer ----------------------------
(* A profile with every kind of declaration, and one of a bare service. *)
EXTENDS LGATTServer

MCProfiles ==
    {<<"SERVICE", "CHARACTERISTIC", "DESCRIPTOR", "CHARACTERISTIC">>, <<"SERVICE">>}

MCEvents == {"CHAR_ADDED", "DESC_ADDED", "READ"} \X {1, 2}
=============================================================================
