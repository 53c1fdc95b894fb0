--------------------------- MODULE MCRecycleArray ---------------------------
(* One viewer of one ring. *)
EXTENDS RecycleArray

CONSTANT r1
=============================================================================
