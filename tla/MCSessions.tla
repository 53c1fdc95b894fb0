---------------------------- MODULE MCSessions -----------------------------
(***************************************************************************)
(* What lives for a while and must end well, one part at a time: a         *)
(* behaviour is one of the component's own, the others rest.               *)
(*                                                                         *)
(*   egress   one player, a ring of two and a half packets, a send buffer  *)
(*            of one                                                       *)
(*   relay    two sessions of one stream on one worker, two upstreams, one *)
(*            of which may go down, and three relay roles; see MCRelay     *)
(***************************************************************************)
EXTENDS Egress, MCRelay

MCIdleTimeouts == {-1, 2}

VARIABLE part

sessionsVars == <<part, egressVars, relayVars>>

(* A part that rests has one initial state.                                *)
SessionsInit ==
  /\ part \in {"egress", "relay"}
  /\ EgressInit /\ (part # "egress" => m_idle_streams_timeout = -1)
  /\ RelayInit /\ (part # "relay" => conf = CHOOSE c \in RelayConfs : TRUE)

SessionsNext ==
  /\ \/ part = "egress" /\ EgressNext /\ UNCHANGED <<relayVars>>
     \/ part = "relay" /\ RelayNext /\ UNCHANGED <<egressVars>>
  /\ UNCHANGED part

(* EgressFairness and RelayFairness, of the part that is checked.          *)
SessionsFairness ==
  /\ WF_egressVars(part = "egress" /\ handler_write_data)
  /\ WF_egressVars(part = "egress" /\ EgressTick)
  /\ WF_relayVars(part = "relay" /\ RelayTick)
  /\ \A w \in RelayWorkers :
       /\ WF_relayVars(part = "relay" /\ Call(w))
       /\ SF_relayVars(part = "relay" /\ Call(w) /\ handoff' # handoff)
       /\ SF_relayVars(part = "relay" /\ \E m \in Managers : check_reconnect_relay(w, m))
       /\ SF_relayVars(part = "relay" /\ (check_new_role(w) \/ \E c \in Relays : check_invalid_sock(w, c)))

SessionsSpec == SessionsInit /\ [][SessionsNext]_sessionsVars /\ SessionsFairness
=============================================================================
