-------------------------- MODULE MCPublisherGate --------------------------
(***************************************************************************)
(* Two callers with streamids of their own, for one stream at one          *)
(* listener.                                                               *)
(***************************************************************************)
EXTENDS PublisherGate

CONSTANTS c1, c2, l1, s1, s2

MCListenerOf == [c \in Conns |-> l1]
MCSidOf == [c \in Conns |-> IF c = c2 THEN s2 ELSE s1]
MCStreamOf == [c \in Conns |-> s1]
=============================================================================
