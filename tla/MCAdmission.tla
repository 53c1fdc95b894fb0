---------------------------- MODULE MCAdmission ----------------------------
(***************************************************************************)
(* What a connection has to pass before it is served, one test at a time:  *)
(* a behaviour is one of the component's own, the others rest.             *)
(*                                                                         *)
(*   memory     rings of four streams, with the real sizes: an 8 MB        *)
(*              default, 32 MB per stream, 72 MB in all, and hints that    *)
(*              size a ring by default, in between and past the cap        *)
(*   publisher  two callers with streamids of their own for one stream     *)
(*   key        three players; c1 and c2 share the key k1                  *)
(*   rate       three addresses, two requests in a window of three ticks,  *)
(*              and room for two of them in the map                        *)
(*   limit      three players at one listener; the key of c1 carries a     *)
(*              higher limit                                               *)
(*   acl        two rules, two IPv4 hosts and an IPv6 host                 *)
(***************************************************************************)
EXTENDS MapData, PublisherGate, PlayerKeyGate, KeyRateLimit, PlayerLimit, PeerAcl

CONSTANTS c1, c2, c3, k1, k2, l1, s1, s2

MCHints == {<<0, 3000>>, <<6000, 500>>, <<80000, 1500>>, <<100000, 3000>>}
MCListenerOf == [c \in Conns |-> l1]
MCSidOf == [c \in Conns |-> IF c = c2 THEN s2 ELSE s1]
MCStreamOf == [c \in Conns |-> s1]
MCKeyOf == [c \in PlayerConns |-> IF c = c3 THEN k2 ELSE k1]
MCPortOf == [p \in Players |-> l1]
MCOverrideOf == [p \in Players |-> IF p = c1 THEN 2 ELSE NoOverride]

(* The caps on held sockets, requests in flight, rejected and cached keys  *)
(* and tracked addresses hold together, in whatever order callers, answers *)
(* and sweeps come.                                                        *)
AdmissionBounded ==
  /\ GateBounded /\ KeyGateBounded
  /\ Cardinality(Tracked(m_rate_limit_map)) <= MAX_RATE_LIMIT_ENTRIES

VARIABLE part

admissionVars == <<part, mapVars, gateVars, keyVars, rateVars, limitVars, aclVars>>

AdmissionInit ==
  /\ part \in {"memory", "publisher", "key", "rate", "limit", "acl"}
  /\ MapInit /\ GateInit /\ KeyInit /\ RateInit /\ LimitInit /\ AclInit

AdmissionNext ==
  /\ \/ part = "memory" /\ MapNext
        /\ UNCHANGED <<gateVars, keyVars, rateVars, limitVars, aclVars>>
     \/ part = "publisher" /\ GateNext
        /\ UNCHANGED <<mapVars, keyVars, rateVars, limitVars, aclVars>>
     \/ part = "key" /\ KeyNext
        /\ UNCHANGED <<mapVars, gateVars, rateVars, limitVars, aclVars>>
     \/ part = "rate" /\ RateNext
        /\ UNCHANGED <<mapVars, gateVars, keyVars, limitVars, aclVars>>
     \/ part = "limit" /\ LimitNext
        /\ UNCHANGED <<mapVars, gateVars, keyVars, rateVars, aclVars>>
     \/ part = "acl" /\ AclNext
        /\ UNCHANGED <<mapVars, gateVars, keyVars, rateVars, limitVars>>
  /\ UNCHANGED part

(* The fairness of the part that is checked: GateFairness, KeyFairness,    *)
(* RateFairness.                                                           *)
AdmissionFairness ==
  /\ WF_gateVars(part = "publisher" /\ Tick)
  /\ \A c \in Conns : /\ WF_gateVars(part = "publisher" /\ FirstPoll(c))
                      /\ SF_gateVars(part = "publisher" /\ DrivePending(c))
  /\ \A l \in Listeners : WF_gateVars(part = "publisher" /\ Reap(l))
  /\ SF_keyVars(part = "key" /\ KeyTick)
  /\ WF_keyVars(part = "key" /\ TickBegin)
  /\ \A k \in PlayerKeys : WF_keyVars(part = "key" /\ DrainOne(k))
  /\ WF_keyVars(part = "key" /\ Drive)
  /\ WF_rateVars(part = "rate" /\ RateTick)

AdmissionSpec == AdmissionInit /\ [][AdmissionNext]_admissionVars /\ AdmissionFairness
=============================================================================
