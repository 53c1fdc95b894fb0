----------------------------- MODULE PlayerLimit -----------------------------
(***************************************************************************)
(* The limit on the players of a stream: CSLSListener::finish_player_      *)
(* accept and CSLSPlayerRegistry.  The listeners of a server share the     *)
(* registry, which counts the players of the stream; each keeps its own    *)
(* table of the limits that the player-key webhook has set.                *)
(*                                                                         *)
(* One stream: the registry and the tables keep streams apart.  The limit  *)
(* is tested in one locked call of the registry and the player is added in *)
(* a later one, so accepts of listeners on different workers interleave;   *)
(* with one worker (SharedWorker) they do not.  Time is counted in ticks   *)
(* that are long against an accept.                                        *)
(***************************************************************************)
EXTENDS Integers, FiniteSets

CONSTANTS
  Ports,               \* of one server, accepting players
  Players,
  PortOf,              \* [Players -> Listeners]
  OverrideOf,              \* [Players -> limit its key carries, or NoOverride]
  max_players_per_stream,  \* of the app; not positive is unlimited
  KeyTime,                 \* how long an answer of the webhook is cached
  SharedWorker             \* TRUE with worker_threads 0 or 1

NoOverride == -2

ASSUME LimitAssumption ==
  /\ IsFiniteSet(Players)
  /\ PortOf \in [Players -> Ports]
  /\ OverrideOf \in [Players -> Int]
  /\ max_players_per_stream \in Int
  /\ KeyTime \in Nat \ {0}
  /\ SharedWorker \in BOOLEAN

VARIABLES
  player,     \* [Players -> where the player is]
  m_players,  \* the registrations of the stream in the registry
  m_stream_player_limit_map,  \* [Listeners -> the stream's entry]
  lastStored  \* history: the entry stored last by any listener

limitVars == <<player, m_players, m_stream_player_limit_map, lastStored>>

ViewerLeft(t) == IF t > 0 THEN t - 1 ELSE t

(* left = 0: no entry, or an expired one, which cleanupExpiredStream-      *)
(* Overrides and the lookup erase.                                         *)
LimitEntry == [limit : Int, left : 0..KeyTime]
NoEntry == [limit |-> NoOverride, left |-> 0]

(* "checked": past the limit, not yet registered.  "closed": invalid_srt() *)
(* has run, the role object still exists.                                  *)
PlayerPlaces == {"none", "checked", "open", "closed", "refused"}

Open == {p \in Players : player[p] = "open"}
InAccept == {p \in Players : player[p] = "checked"}

LimitInit ==
  /\ player = [p \in Players |-> "none"]
  /\ m_players = {}
  /\ m_stream_player_limit_map = [l \in Ports |-> NoEntry]
  /\ lastStored = NoEntry

(* Mutant: only players whose object is gone are dropped. *)
Pruned_LivenessOnly == {p \in m_players : player[p] \in {"open", "closed"}}

(* prune_locked: without the closed and the freed. *)
Pruned == {p \in m_players : player[p] = "open"}

(* The table after the player's own key has been looked at; t is what is   *)
(* left of the key's cache entry, with which the stream's expires.         *)
Stored(p, t) ==
  IF OverrideOf[p] = NoOverride THEN m_stream_player_limit_map[PortOf[p]]
  ELSE [limit |-> OverrideOf[p], left |-> t]

(* effective_max_players, under the entry e of the stream. *)
Effective(e) == IF e.left > 0 THEN e.limit ELSE max_players_per_stream

(* Mutant: one too many. *)
HasRoom_OffByOne(limit) == limit > 0 => Cardinality(Pruned) <= limit

HasRoom(limit) == limit > 0 => Cardinality(Pruned) < limit

(* finish_player_accept up to the limit.  The refusals of the first        *)
(* disjunct: no publisher, no app, the ACL.  The registry is asked, and    *)
(* pruned, only if there is a limit.                                       *)
Check(p) ==
  /\ player[p] \in {"none", "refused"}
  /\ \A q \in InAccept : ~SharedWorker /\ PortOf[q] # PortOf[p]
  /\ \E t \in 1..KeyTime :
       LET e == Stored(p, t)
       IN  /\ m_stream_player_limit_map' =
                [m_stream_player_limit_map EXCEPT ![PortOf[p]] = e]
           /\ lastStored' = IF OverrideOf[p] = NoOverride THEN lastStored ELSE e
           /\ \/ /\ player' = [player EXCEPT ![p] = "none"]
                 /\ UNCHANGED m_players
              \/ /\ player' = [player EXCEPT ![p] =
                      IF HasRoom(Effective(e)) THEN "checked" ELSE "refused"]
                 /\ m_players' = IF Effective(e) > 0 THEN Pruned ELSE m_players

(* The role is made, registered and handed to the workers. *)
Register(p) ==
  /\ player[p] = "checked"
  /\ player' = [player EXCEPT ![p] = "open"]
  /\ m_players' = Pruned \cup {p}
  /\ UNCHANGED <<m_stream_player_limit_map, lastStored>>

(* invalid_srt() on the worker that has the player, between its accepts if *)
(* it is the only one.                                                     *)
CloseSocket(p) ==
  /\ player[p] = "open"
  /\ SharedWorker => InAccept = {}
  /\ player' = [player EXCEPT ![p] = "closed"]
  /\ UNCHANGED <<m_players, m_stream_player_limit_map, lastStored>>

(* check_invalid_sock drops the role; the weak pointer expires. *)
Destroy(p) ==
  /\ player[p] = "closed"
  /\ SharedWorker => InAccept = {}
  /\ player' = [player EXCEPT ![p] = "none"]
  /\ UNCHANGED <<m_players, m_stream_player_limit_map, lastStored>>

(* /stats lists the players, on the HTTP thread. *)
List ==
  /\ m_players' = Pruned
  /\ UNCHANGED <<player, m_stream_player_limit_map, lastStored>>

LimitTick ==
  /\ InAccept = {}
  /\ m_stream_player_limit_map' = [l \in Ports |->
       [m_stream_player_limit_map[l] EXCEPT !.left = ViewerLeft(@)]]
  /\ lastStored' = [lastStored EXCEPT !.left = ViewerLeft(@)]
  /\ UNCHANGED <<player, m_players>>

LimitNext ==
  \/ \E p \in Players : Check(p) \/ Register(p) \/ CloseSocket(p) \/ Destroy(p)
  \/ List
  \/ LimitTick

LimitSpec == LimitInit /\ [][LimitNext]_limitVars

-----------------------------------------------------------------------------
(* The variables stay in their types; no stored limit outlives the longest *)
(* life of a cached key.                                                   *)
LimitTypeOK ==
  /\ player \in [Players -> PlayerPlaces]
  /\ m_players \subseteq Players
  /\ m_stream_player_limit_map \in [Ports -> LimitEntry]
  /\ lastStored \in LimitEntry

(* A player that gets in leaves the stream within its limit: the one a key *)
(* response has stored for the stream ("applies to all subsequent players  *)
(* on that resolved stream, regardless of which key they used, until it    *)
(* expires"), and otherwise the app's ("Cap on simultaneous players per    *)
(* stream").                                                               *)
WithinLimit ==
  LET cap == Effective(lastStored)
  IN  \A p \in Players :
        player[p] = "checked" /\ player'[p] = "open" /\ cap > 0
          => Cardinality(Open') <= cap

AdmitWithinLimit == [][WithinLimit]_limitVars

(* A player is turned away for the limit only if that many sockets are     *)
(* really open: one that has gone frees its place at once, not when its    *)
(* role object is destroyed.                                               *)
RefusedOnlyWhenFull ==
  [][\A p \in Players :
       player[p] # "refused" /\ player'[p] = "refused"
         => Cardinality(Open)
              >= Effective(m_stream_player_limit_map'[PortOf[p]])]_limitVars

-----------------------------------------------------------------------------
(* Why the limit holds with one worker and one listener: between the test  *)
(* and the registration nobody else gets in, every open player is in the   *)
(* registry, and the listener's table is the server's.                     *)
AcceptInv ==
  /\ Open \subseteq m_players
  /\ \A p, q \in InAccept : p = q
  /\ \A l \in Ports : m_stream_player_limit_map[l] = lastStored
  /\ Effective(lastStored) > 0 /\ InAccept # {}
       => Cardinality(Open) < Effective(lastStored)
=============================================================================
