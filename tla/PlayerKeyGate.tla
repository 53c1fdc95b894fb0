---------------------------- MODULE PlayerKeyGate ----------------------------
(***************************************************************************)
(* How a player gets in with a player key.  A key that is not in the       *)
(* listener's cache is asked of the auth webhook, one request per key; the *)
(* accepted socket is held meanwhile.  The worker's tick folds finished    *)
(* requests into the cache and then admits or closes the held sockets.     *)
(*                                                                         *)
(* One player listener.  handler() and on_worker_tick() run on its worker  *)
(* (phase tells where the tick is); the HTTP pool answers and the main     *)
(* thread tears the listener down at any time, except that uninit() waits  *)
(* for a tick that holds m_mutex.  Time is counted in ticks of a clock     *)
(* that is slow against one pass of the worker; a time stamp is what is    *)
(* left until it, 0 when it has come, NoTime when there is none.           *)
(* finish_player_accept() either admits the player or, for reasons of the  *)
(* publisher map, the ACL or the player limit, closes it.                  *)
(***************************************************************************)
EXTENDS Integers, FiniteSets

CONSTANTS
  PlayerConns,    \* client sockets; one that is closed may call again
  PlayerKeys,     \* player keys
  KeyOf,    \* [Conns -> Keys]
  MAX_PENDING_PLAYER_CONNECTIONS,
  MAX_PENDING_PLAYER_KEY_VALIDATIONS,
  MAX_PLAYER_KEY_CACHE_ENTRIES,
  m_player_key_cache_duration,
  HoldTime  \* m_player_key_auth_timeout + 2000

ASSUME KeyAssumption ==
  /\ KeyOf \in [PlayerConns -> PlayerKeys]
  /\ MAX_PENDING_PLAYER_CONNECTIONS \in Nat \ {0}
  /\ MAX_PENDING_PLAYER_KEY_VALIDATIONS \in Nat \ {0}
  /\ MAX_PLAYER_KEY_CACHE_ENTRIES \in Nat \ {0}
  /\ m_player_key_cache_duration \in Nat \ {0}
  /\ HoldTime \in Nat \ {0}

VARIABLES
  conn,                \* [Conns -> "none", "held", "admitted", "timedout"]
  deadline,            \* [Conns -> time left of a held connection]
  validation,          \* m_pending_player_key_validations: [Keys -> future]
  m_player_key_cache,  \* [Keys -> entry, or Absent]
  phase,               \* of on_worker_tick()
  todo,                \* the keys drain_player_key_validations has to visit
  srt,               \* "open", "freed" by uninit(), "reaped"
  okLeft               \* history: [Keys -> time left of the last answer, if
                       \* it was a permission]

keyVars == <<conn, deadline, validation, m_player_key_cache, phase, todo,
             srt, okLeft>>

NoKeyTime == -1
PlayerLeft(t) == IF t > 0 THEN t - 1 ELSE t

KeyEntry == [is_valid : BOOLEAN, left : NoKeyTime..m_player_key_cache_duration]
Absent == [is_valid |-> FALSE, left |-> NoKeyTime]

Held == {c \in PlayerConns : conn[c] = "held"}
InFlight == {k \in PlayerKeys : validation[k] # "none"}
KeyEntries(m) == {k \in PlayerKeys : m[k].left # NoKeyTime}

KeyInit ==
  /\ conn = [c \in PlayerConns |-> "none"]
  /\ deadline = [c \in PlayerConns |-> NoKeyTime]
  /\ validation = [k \in PlayerKeys |-> "none"]
  /\ m_player_key_cache = [k \in PlayerKeys |-> Absent]
  /\ phase = "idle"
  /\ todo = {}
  /\ srt = "open"
  /\ okLeft = [k \in PlayerKeys |-> NoKeyTime]

-----------------------------------------------------------------------------
(* The cache.                                                              *)

(* Mutant: an entry counts until somebody sweeps it. *)
Live_UntilSwept(k) == m_player_key_cache[k].left # NoKeyTime

Live(k) == m_player_key_cache[k].left > 0

(* The map without its expired entries: sweep_player_key_cache, and the    *)
(* first thing insert_player_key_cache_locked does with a full map.        *)
Swept(m) == [k \in PlayerKeys |-> IF m[k].left = 0 THEN Absent ELSE m[k]]

Soonest(m) == {v \in KeyEntries(m) : \A w \in KeyEntries(m) : m[v].left <= m[w].left}

(* Mutant: the full map is swept, but nothing live is ever evicted. *)
Inserted_SweepOnly(m, k, e) ==
  IF k \in KeyEntries(m) \/ Cardinality(KeyEntries(m)) < MAX_PLAYER_KEY_CACHE_ENTRIES
  THEN {[m EXCEPT ![k] = e]}
  ELSE {[Swept(m) EXCEPT ![k] = e]}

(* What insert_player_key_cache_locked may leave behind. *)
Inserted(m, k, e) ==
  IF k \in KeyEntries(m) \/ Cardinality(KeyEntries(m)) < MAX_PLAYER_KEY_CACHE_ENTRIES
  THEN {[m EXCEPT ![k] = e]}
  ELSE IF Cardinality(KeyEntries(Swept(m))) < MAX_PLAYER_KEY_CACHE_ENTRIES
       THEN {[Swept(m) EXCEPT ![k] = e]}
       ELSE {[Swept(m) EXCEPT ![v] = Absent, ![k] = e] : v \in Soonest(Swept(m))}

(* Mutant: whatever came back with a body is a permission. *)
EntryFor_AnyAnswer(r) ==
  [is_valid |-> TRUE, left |-> m_player_key_cache_duration]

(* process_player_key_response: everything but a 200 with a usable         *)
(* stream_id is cached as a refusal, for a quarter of the time.            *)
EntryFor(r) ==
  [is_valid |-> r = "ok",
   left |-> IF r = "ok" THEN m_player_key_cache_duration
            ELSE m_player_key_cache_duration \div 4]

-----------------------------------------------------------------------------
(* handler(): a connection with a key.                                     *)

WorkerFree == phase = "idle" /\ srt = "open"

(* Turned away before the webhook is asked: the handoff backlog, latency,  *)
(* streamid, app; then the format of the key, the rate limit of its        *)
(* address (KeyRateLimit), a cached key whose stream is offline.           *)
Refuse(c) ==
  /\ WorkerFree
  /\ conn[c] \in {"none", "timedout"}
  /\ conn' = [conn EXCEPT ![c] = "none"]
  /\ UNCHANGED <<deadline, validation, m_player_key_cache, phase, todo, srt,
                 okLeft>>

(* validate_player_key finds a live entry. *)
CacheHit(c) ==
  /\ WorkerFree
  /\ conn[c] \in {"none", "timedout"}
  /\ Live(KeyOf[c])
  /\ \/ conn' = [conn EXCEPT ![c] = "none"]
     \/ /\ m_player_key_cache[KeyOf[c]].is_valid
        /\ conn' = [conn EXCEPT ![c] = "admitted"]
  /\ UNCHANGED <<deadline, validation, m_player_key_cache, phase, todo, srt,
                 okLeft>>

(* start_player_key_validation. *)
MayStart(k) ==
  /\ validation[k] = "none"
  /\ Cardinality(InFlight) < MAX_PENDING_PLAYER_KEY_VALIDATIONS

MayHoldPlayer == Cardinality(Held) < MAX_PENDING_PLAYER_CONNECTIONS

(* validate_player_key erases an expired entry and asks the webhook unless *)
(* it has been asked; then the socket is held, if there is room.           *)
CacheMiss(c) ==
  LET k == KeyOf[c]
  IN  /\ WorkerFree
      /\ conn[c] \in {"none", "timedout"}
      /\ ~Live(k)
      /\ m_player_key_cache' = [m_player_key_cache EXCEPT ![k] = Absent]
      /\ validation' = [validation EXCEPT ![k] =
                          IF MayStart(k) THEN "waiting" ELSE @]
      /\ conn' = [conn EXCEPT ![c] = IF MayHoldPlayer THEN "held" ELSE "none"]
      /\ deadline' = [deadline EXCEPT ![c] = IF MayHoldPlayer THEN HoldTime ELSE @]
      /\ UNCHANGED <<phase, todo, srt, okLeft>>

(* The HTTP pool finishes a request. *)
KeyAnswer(k, r) ==
  /\ validation[k] = "waiting"
  /\ validation' = [validation EXCEPT ![k] = r]
  /\ UNCHANGED <<conn, deadline, m_player_key_cache, phase, todo, srt, okLeft>>

-----------------------------------------------------------------------------
(* on_worker_tick().                                                       *)

(* The sweep runs every PLAYER_KEY_CACHE_SWEEP_INTERVAL, in some ticks. *)
TickBegin ==
  /\ WorkerFree
  /\ m_player_key_cache' \in {m_player_key_cache, Swept(m_player_key_cache)}
  /\ phase' = "drain"
  /\ todo' = InFlight
  /\ UNCHANGED <<conn, deadline, validation, srt, okLeft>>

(* drain_player_key_validations comes to one of the requests. *)
DrainOne(k) ==
  /\ phase = "drain"
  /\ k \in todo
  /\ todo' = todo \ {k}
  /\ IF validation[k] = "waiting"
     THEN UNCHANGED <<validation, m_player_key_cache, okLeft>>
     ELSE /\ m_player_key_cache' \in
               Inserted(m_player_key_cache, k, EntryFor(validation[k]))
          /\ validation' = [validation EXCEPT ![k] = "none"]
          /\ okLeft' = [okLeft EXCEPT ![k] =
               IF validation[k] = "ok" THEN m_player_key_cache_duration
               ELSE NoKeyTime]
  /\ UNCHANGED <<conn, deadline, phase, srt>>

(* Mutants: the deadline is tested first; it is not tested at all. *)
Driven_DeadlineFirst(c) ==
  IF deadline[c] = 0 THEN {"timedout"}
  ELSE IF Live(KeyOf[c])
       THEN IF m_player_key_cache[KeyOf[c]].is_valid THEN {"admitted", "none"}
            ELSE {"none"}
       ELSE {"held"}

Driven_NoDeadline(c) ==
  IF Live(KeyOf[c])
  THEN IF m_player_key_cache[KeyOf[c]].is_valid THEN {"admitted", "none"}
       ELSE {"none"}
  ELSE {"held"}

(* Where drive_pending_player_connections may put a held connection. *)
Driven(c) ==
  IF Live(KeyOf[c])
  THEN IF m_player_key_cache[KeyOf[c]].is_valid THEN {"admitted", "none"}
       ELSE {"none"}
  ELSE IF deadline[c] = 0 THEN {"timedout"} ELSE {"held"}

(* The loop over the held connections, which ends the tick. *)
Drive ==
  /\ phase = "drain"
  /\ todo = {}
  /\ phase' = "idle"
  /\ \E to \in [Held -> {"none", "held", "admitted", "timedout"}] :
       /\ \A c \in Held : to[c] \in Driven(c)
       /\ conn' = [c \in PlayerConns |-> IF c \in Held THEN to[c] ELSE conn[c]]
  /\ deadline' = [c \in PlayerConns |->
                    IF conn'[c] = "held" THEN deadline[c] ELSE NoKeyTime]
  /\ UNCHANGED <<validation, m_player_key_cache, todo, srt, okLeft>>

-----------------------------------------------------------------------------
(* An admitted player ends. *)
LeavePlayer(c) ==
  /\ conn[c] = "admitted"
  /\ conn' = [conn EXCEPT ![c] = "none"]
  /\ UNCHANGED <<deadline, validation, m_player_key_cache, phase, todo, srt,
                 okLeft>>

(* CSLSListener::uninit() on the main thread: it closes the publishers the *)
(* listener holds, and a player listener holds none.                       *)
ReloadListener ==
  /\ srt = "open"
  /\ phase = "idle"
  /\ srt' = "freed"
  /\ UNCHANGED <<conn, deadline, validation, m_player_key_cache, phase, todo,
                 okLeft>>

(* The worker drops the listener: maps and futures go with it. *)
DropHeld ==
  /\ srt = "freed"
  /\ srt' = "reaped"
  /\ validation' = [k \in PlayerKeys |-> "none"]
  /\ m_player_key_cache' = [k \in PlayerKeys |-> Absent]
  /\ UNCHANGED <<conn, deadline, phase, todo, okLeft>>

KeyTick ==
  /\ phase = "idle"
  /\ deadline' = [c \in PlayerConns |-> PlayerLeft(deadline[c])]
  /\ m_player_key_cache' = [k \in PlayerKeys |->
       [m_player_key_cache[k] EXCEPT !.left = PlayerLeft(@)]]
  /\ okLeft' = [k \in PlayerKeys |-> PlayerLeft(okLeft[k])]
  /\ UNCHANGED <<conn, validation, phase, todo, srt>>

KeyNext ==
  \/ \E c \in PlayerConns : Refuse(c) \/ CacheHit(c) \/ CacheMiss(c) \/ LeavePlayer(c)
  \/ \E k \in PlayerKeys : \/ \E r \in {"ok", "refused"} : KeyAnswer(k, r)
                     \/ DrainOne(k)
  \/ TickBegin
  \/ Drive
  \/ ReloadListener
  \/ DropHeld
  \/ KeyTick

KeySpec == KeyInit /\ [][KeyNext]_keyVars

(* Time passes and the worker keeps ticking.  The clock needs strong       *)
(* fairness: between two ticks of the worker it may always run.  The       *)
(* webhook need never answer.                                              *)
KeyFairness ==
  /\ SF_keyVars(KeyTick)
  /\ WF_keyVars(TickBegin)
  /\ \A k \in PlayerKeys : WF_keyVars(DrainOne(k))
  /\ WF_keyVars(Drive)

KeyFairSpec == KeySpec /\ KeyFairness

-----------------------------------------------------------------------------
(* The variables stay in their types. *)
KeyTypeOK ==
  /\ conn \in [PlayerConns -> {"none", "held", "admitted", "timedout"}]
  /\ deadline \in [PlayerConns -> NoKeyTime..HoldTime]
  /\ validation \in [PlayerKeys -> {"none", "waiting", "ok", "refused"}]
  /\ m_player_key_cache \in [PlayerKeys -> KeyEntry]
  /\ phase \in {"idle", "drain"}
  /\ todo \subseteq PlayerKeys
  /\ srt \in {"open", "freed", "reaped"}
  /\ okLeft \in [PlayerKeys -> NoKeyTime..m_player_key_cache_duration]

(* A player gets in only on a permission in force: the last answer of the  *)
(* webhook for its key was a 200, read no longer than the cache duration   *)
(* ago, whether the player hit the cache or was held.                      *)
Permitted ==
  \A c \in PlayerConns :
    conn[c] # "admitted" /\ conn'[c] = "admitted" => okLeft[KeyOf[c]] > 0

AdmittedPermitted == [][Permitted]_keyVars

(* A held player is not timed out over a permission that is in force and   *)
(* has not been evicted, however late the worker reads the answer: the     *)
(* drain comes before the loop that tests the deadlines.                   *)
TimedOutUnanswered ==
  [][\A c \in PlayerConns :
       conn[c] = "held" /\ conn'[c] = "timedout"
         => ~ /\ okLeft[KeyOf[c]] > 0
              /\ KeyOf[c] \in KeyEntries(m_player_key_cache)]_keyVars

(* The three limits hold together: sockets held, requests in flight, and   *)
(* entries cached.                                                         *)
KeyGateBounded ==
  /\ Cardinality(Held) <= MAX_PENDING_PLAYER_CONNECTIONS
  /\ Cardinality(InFlight) <= MAX_PENDING_PLAYER_KEY_VALIDATIONS
  /\ Cardinality(KeyEntries(m_player_key_cache)) <= MAX_PLAYER_KEY_CACHE_ENTRIES

(* While the listener is up, nobody is held for ever: not when the webhook *)
(* never answers, nor when no request could be started.                    *)
HeldResolves ==
  \A c \in PlayerConns : conn[c] = "held" ~> (conn[c] # "held" \/ srt # "open")

(* "Sockets held pending authorization are owned by nothing else ... so    *)
(* listener teardown is the only place that can close them" (CSLSListener::*)
(* uninit): a listener that is gone has left no socket open.               *)
TeardownClosesHeld == srt = "reaped" => Held = {}

-----------------------------------------------------------------------------
(* Why AdmittedPermitted holds: a live permission in the cache never       *)
(* outlives the one the webhook gave.                                      *)
CachedPermission ==
  \A k \in PlayerKeys :
    m_player_key_cache[k].is_valid /\ m_player_key_cache[k].left > 0
      => okLeft[k] >= m_player_key_cache[k].left

(* The drain visits requests that exist; nothing else ends one, and no     *)
(* tick is under way when the listener goes.                               *)
DrainInFlight ==
  /\ todo \subseteq InFlight
  /\ phase = "idle" => todo = {}
  /\ srt # "open" => phase = "idle"
=============================================================================
