-------------------------- MODULE MCPlayerKeyGate --------------------------
(***************************************************************************)
(* Three players; c1 and c2 share the key k1.                              *)
(***************************************************************************)
EXTENDS PlayerKeyGate

CONSTANTS c1, c2, c3, k1, k2

MCKeyOf == [c \in PlayerConns |-> IF c = c3 THEN k2 ELSE k1]
=============================================================================
