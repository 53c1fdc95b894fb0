------------------------- MODULE MCStreamOwnership -------------------------
(***************************************************************************)
(* Streams fed by two publishers and a puller on one key, and one more     *)
(* publisher on another key that competes for the stream cap.              *)
(***************************************************************************)
EXTENDS StreamOwnership

CONSTANTS p1, p2, other, q1, k1, k2

MCKeyOf == [r \in Roles |-> IF r = other THEN k2 ELSE k1]
MCHintOf == [r \in Roles |-> <<0, 0>>]
MCHints == {<<0, 0>>}
=============================================================================
