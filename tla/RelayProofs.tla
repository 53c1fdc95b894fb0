---------------------------- MODULE RelayProofs ----------------------------
(***************************************************************************)
(* Proofs about the relays of a stream for any number of upstreams,        *)
(* publisher sessions and relay roles, on one worker: with two, a          *)
(* reconnect() that is under way while the publisher leaves opens a relay  *)
(* nobody will take down.                                                  *)
(***************************************************************************)
EXTENDS Relay, SequenceTheorems, FiniteSetTheorems, TLAPS

OneWorker == \A v, w \in RelayWorkers : v = w

(* No upstream is listed twice. *)
Distinct(l) == \A i, j \in 1..Len(l) : l[i] = l[j] => i = j

IsRole(r) == {"where", "manager", "maker", "url", "sock", "kicked"} \subseteq DOMAIN r
IsCall(t) == {"op", "manager", "todo", "no_publisher", "due", "ret"} \subseteq DOMAIN t

Leaving == {"detached", "unmapped"}
Connecting == {"connect_all", "reconnect", "reconnect_all"}

(* A role of manager m for upstream u, up or not. *)
Live(c, m, u) == relay[c].where # "none" /\ relay[c].manager = m /\ relay[c].url = u

RelayTypes ==
  /\ conf.dynamic => conf.type = "push" /\ conf.mode = "all"
  /\ conf \in [type : {"push", "pull"}, mode : {"loop", "all", "hash"},
               dynamic : BOOLEAN, down : SUBSET Urls, toolong : SUBSET Urls]
  /\ home \in [Sessions -> RelayWorkers \cup {"none", "leaving", "gone"}]
  /\ managerHeld \in [Managers -> BOOLEAN]
  /\ m_map_reconnect_relay \in [Managers -> [Urls -> Nat \cup {Absent}]]
  /\ m_child_relays \in [Managers -> SUBSET Relays]
  /\ handoff \in Seq(Relays)
  /\ DOMAIN relay = Relays /\ DOMAIN thread = RelayWorkers

(* A role that is up belongs to a publisher that has not begun to leave,   *)
(* which knows it.                                                         *)
RoleOK(c) ==
  /\ IsRole(relay[c])
  /\ relay[c].manager \in Managers \cup {NoManager}
  /\ relay[c].maker \in Managers \cup {NoManager}
  /\ relay[c].where = "none" => relay[c].sock = "broken" /\ relay[c].manager = NoManager
  /\ Up(c) /\ relay[c].maker > 0 => /\ home[relay[c].maker] \in RelayWorkers
                                    /\ c \in m_child_relays[relay[c].maker]

RoleInv == \A c \in Relays : RoleOK(c)

(* The upstreams a first round still has to connect have no role yet. *)
Ahead(m, l) ==
  /\ l \in Seq(Urls) /\ Distinct(l)
  /\ \A i \in 1..Len(l) : /\ m_map_reconnect_relay[m][l[i]] = Absent
                          /\ \A c \in Relays : ~Live(c, m, l[i])

CallOK(t) ==
  /\ IsCall(t)
  /\ t.op \in {"idle", "connect_hash", "connect_loop"} \cup Leaving \cup Connecting
  /\ t.due \subseteq Urls
  /\ t.op = "idle" => t.manager = NoManager
  /\ t.op \in Leaving => t.manager \in Sessions /\ home[t.manager] = "leaving"
  /\ t.op \in {"connect_hash", "connect_loop"} => t.manager = 0
  /\ t.op \in Connecting =>
       /\ t.manager \in Managers
       /\ t.manager > 0 => managerHeld[t.manager] /\ home[t.manager] \in RelayWorkers
  /\ Distinct(Upstreams) /\ t.op = "connect_all" /\ t.manager > 0 => Ahead(t.manager, t.todo)

CallInv == \A w \in RelayWorkers : CallOK(thread[w])

SessionOK(p) ==
  /\ managerHeld[p] => conf.dynamic /\ home[p] \notin {"none", "gone"}
  /\ home[p] = "leaving" =>
       \E w \in RelayWorkers : thread[w].op \in Leaving /\ thread[w].manager = p
  /\ ~managerHeld[p] /\ home[p] \notin {"leaving", "gone"} =>
       /\ \A u \in Urls : m_map_reconnect_relay[p][u] = Absent
       /\ \A c \in Relays : relay[c].manager # p

SessionInv == \A p \in Sessions : SessionOK(p)

(* At most one role per upstream, and none while it waits. *)
OneRole ==
  Distinct(Upstreams) =>
    \A p \in Sessions, u \in Urls :
      /\ \A c, d \in Relays : Live(c, p, u) /\ Live(d, p, u) => c = d
      /\ m_map_reconnect_relay[p][u] # Absent => \A c \in Relays : ~Live(c, p, u)

RelayInv == RelayTypes /\ RoleInv /\ CallInv /\ SessionInv /\ OneRole

-----------------------------------------------------------------------------
(* The idle call. *)
LEMMA IdleCall ==
  /\ IsCall(Working) /\ Working.op = "idle" /\ Working.manager = NoManager
  /\ Working.due = {} /\ Working.due \subseteq Urls
<1>1. IsCall(Working)
  BY DEF IsCall, Working
<1>2. Working.op = "idle" /\ Working.manager = NoManager /\ Working.due = {}
  BY DEF Working
<1> QED  BY <1>1, <1>2

-----------------------------------------------------------------------------
(* What a connect() that succeeds does to the roles: one free slot becomes *)
(* a role of manager m for upstream u. *)
Connected(d, m, u) ==
  /\ relay[d].where = "none"
  /\ relay' = [relay EXCEPT ![d] =
                 [where |-> "handoff", manager |-> m, maker |-> m, url |-> u,
                  sock |-> "connecting", kicked |-> FALSE]]
  /\ handoff' = Append(handoff, d)
  /\ m_child_relays' \in [Managers -> SUBSET Relays]
  /\ \A p \in Managers : m_child_relays[p] \subseteq m_child_relays'[p]
  /\ m > 0 => d \in m_child_relays'[m]

LEMMA ConnectEffect ==
  ASSUME RelayTypes, NEW m \in Managers, NEW u, m > 0 => conf.type = "push", ConnectOK(m, u)
  PROVE  \E d \in Relays : Connected(d, m, u)
<1> DEFINE d == FreeRelay
           new == [where |-> "handoff", manager |-> m, maker |-> m, url |-> u,
                   sock |-> "connecting", kicked |-> FALSE]
<1>1. Opened(m, u)
  BY Zenon DEF ConnectOK, set_relay_param, SetPusherParam, SetPullerParam
<1>2. d \in Relays /\ relay[d].where = "none"
  BY <1>1, Zenon DEF Opened, FreeRelay
<1>3. relay' = [relay EXCEPT ![d] = new] /\ handoff' = Append(handoff, d)
  BY <1>1, Zenon DEF Opened
<1>4. m_child_relays \in [Managers -> SUBSET Relays]
  BY Zenon DEF RelayTypes
<1>5. \/ m_child_relays' = [m_child_relays EXCEPT ![m] = @ \cup {d}]
      \/ ~(m > 0) /\ m_child_relays' = m_child_relays
  BY Zenon DEF ConnectOK, set_relay_param, SetPusherParam, SetPullerParam
<1> HIDE DEF d, new
<1>6. /\ m_child_relays' \in [Managers -> SUBSET Relays]
      /\ \A p \in Managers : m_child_relays[p] \subseteq m_child_relays'[p]
      /\ m > 0 => d \in m_child_relays'[m]
  BY <1>2, <1>4, <1>5
<1>7. Connected(d, m, u)
  BY <1>2, <1>3, <1>6, Zenon DEF Connected, new
<1> QED  BY <1>2, <1>7, Zenon

LEMMA ConnectKeepsRoles ==
  ASSUME RelayTypes, RoleInv, NEW m \in Managers, NEW u, NEW d \in Relays, Connected(d, m, u),
         m > 0 => home[m] \in RelayWorkers, home' = home
  PROVE  /\ RoleInv' /\ DOMAIN relay' = Relays /\ handoff' \in Seq(Relays)
         /\ \A c \in Relays, p \in Sessions, v \in Urls :
              Live(c, p, v)' => Live(c, p, v) \/ (c = d /\ p = m /\ v = u)
         /\ \A c \in Relays, p \in Sessions : relay'[c].manager = p => relay[c].manager = p \/ p = m
<1> DEFINE new == [where |-> "handoff", manager |-> m, maker |-> m, url |-> u,
                   sock |-> "connecting", kicked |-> FALSE]
<1>1. /\ DOMAIN relay = Relays /\ handoff \in Seq(Relays)
      /\ relay' = [relay EXCEPT ![d] = new] /\ handoff' = Append(handoff, d)
      /\ \A p \in Managers : m_child_relays[p] \subseteq m_child_relays'[p]
      /\ m > 0 => d \in m_child_relays'[m]
  BY Zenon DEF Connected, RelayTypes
<1>2. /\ IsRole(new) /\ new.where = "handoff" /\ new.manager = m /\ new.maker = m
      /\ new.url = u
  BY DEF IsRole
<1> HIDE DEF new
<1>3. /\ DOMAIN relay' = Relays /\ handoff' \in Seq(Relays) /\ relay'[d] = new
      /\ \A c \in Relays : c # d => relay'[c] = relay[c]
  BY <1>1
<1>4. ASSUME NEW c \in Relays
      PROVE  RoleOK(c)'
  <2>1. CASE c = d
    BY <1>1, <1>2, <1>3, <2>1 DEF RoleOK, Up
  <2>2. CASE c # d
    <3>1. RoleOK(c) /\ relay'[c] = relay[c] /\ (relay[c].maker > 0 => relay[c].maker \in Managers)
      BY <1>3, <2>2 DEF RoleInv, RoleOK, Managers, NoManager
    <3> QED  BY <1>1, <3>1 DEF RoleOK, Up
  <2> QED  BY <2>1, <2>2
<1>5. RoleInv'
  BY <1>4, Zenon DEF RoleInv
<1>6. /\ \A c \in Relays, p \in Sessions, v \in Urls :
           Live(c, p, v)' => Live(c, p, v) \/ (c = d /\ p = m /\ v = u)
      /\ \A c \in Relays, p \in Sessions : relay'[c].manager = p => relay[c].manager = p \/ p = m
  BY <1>2, <1>3 DEF Live
<1> QED  BY <1>3, <1>5, <1>6

-----------------------------------------------------------------------------
(* With one worker, a weak_ptr that an idle worker locks is the owner's. *)
LEMMA AliveIsHeld ==
  ASSUME OneWorker, CallInv, NEW w \in RelayWorkers, thread[w].op = "idle",
         NEW m, Alive(m)
  PROVE  managerHeld[m]
<1>1. \A v \in RelayWorkers : thread[v].manager = NoManager
  BY Zenon DEF OneWorker, CallInv, CallOK
<1> QED  BY <1>1, Zenon DEF Alive

(* While the worker is idle, no publisher is half way out. *)
LEMMA NobodyLeaving ==
  ASSUME OneWorker, RelayTypes, SessionInv, NEW w \in RelayWorkers, thread[w].op = "idle",
         NEW p \in Sessions
  PROVE  home[p] \in RelayWorkers \cup {"none", "gone"}
<1>1. \A v \in RelayWorkers : thread[v].op \notin Leaving
  BY Zenon DEF OneWorker, Leaving
<1>2. home[p] # "leaving"
  BY <1>1, Zenon DEF SessionInv, SessionOK
<1>3. home[p] \in RelayWorkers \cup {"none", "leaving", "gone"}
  BY Zenon DEF RelayTypes
<1> QED  BY <1>2, <1>3

(* The effect of uninit(): the role's slot is free, and the upstream is    *)
(* noted only if the owner still holds the manager. *)
Freed(c) ==
  /\ relay' = [relay EXCEPT ![c] = NoRelay]
  /\ m_child_relays' = [m \in Managers |-> m_child_relays[m] \ {c}]
  /\ \/ m_map_reconnect_relay' = m_map_reconnect_relay
     \/ /\ relay[c].manager \in Managers /\ managerHeld[relay[c].manager]
        /\ m_map_reconnect_relay' =
             [m_map_reconnect_relay EXCEPT ![relay[c].manager][relay[c].url] = 0]

LEMMA UninitEffect ==
  ASSUME OneWorker, RoleInv, CallInv, NEW w \in RelayWorkers, thread[w].op = "idle",
         NEW c \in Relays, uninit(c)
  PROVE  Freed(c)
<1>1. /\ relay' = [relay EXCEPT ![c] = NoRelay]
      /\ m_child_relays' = [m \in Managers |-> m_child_relays[m] \ {c}]
  BY Zenon DEF uninit
<1>2. CASE Alive(relay[c].manager)
  <2>1. relay[c].manager \in Managers
    BY <1>2, Zenon DEF RoleInv, RoleOK, Alive
  <2>2. managerHeld[relay[c].manager]
    BY <1>2, AliveIsHeld, Zenon
  <2>3. \/ m_map_reconnect_relay' = m_map_reconnect_relay
        \/ m_map_reconnect_relay' =
             [m_map_reconnect_relay EXCEPT ![relay[c].manager][relay[c].url] = 0]
    BY <1>2, Zenon DEF uninit, add_reconnect_stream
  <2> QED  BY <1>1, <2>1, <2>2, <2>3, Zenon DEF Freed
<1>3. CASE ~Alive(relay[c].manager)
  BY <1>1, <1>3, Zenon DEF uninit, Freed
<1> QED  BY <1>2, <1>3

LEMMA FreedSlot ==
  /\ IsRole(NoRelay) /\ NoRelay.where = "none" /\ NoRelay.manager = NoManager
  /\ NoRelay.maker = NoManager /\ NoRelay.sock = "broken" /\ NoManager \notin Managers
  /\ ~(NoManager > 0)
  BY RelayAssumption DEF IsRole, NoRelay, NoManager, Managers

LEMMA FreedKeeps ==
  ASSUME RelayInv, NEW c \in Relays, Freed(c),
         conf' = conf, home' = home, managerHeld' = managerHeld, thread' = thread
  PROVE  /\ RoleInv' /\ SessionInv' /\ OneRole'
         /\ m_map_reconnect_relay' \in [Managers -> [Urls -> Nat \cup {Absent}]]
         /\ m_child_relays' \in [Managers -> SUBSET Relays]
         /\ DOMAIN relay' = Relays
<1> DEFINE n == relay[c].manager
           v == relay[c].url
<1>1. /\ DOMAIN relay = Relays /\ m_child_relays \in [Managers -> SUBSET Relays]
      /\ m_map_reconnect_relay \in [Managers -> [Urls -> Nat \cup {Absent}]]
  BY Zenon DEF RelayInv, RelayTypes
<1>2. /\ DOMAIN relay' = Relays /\ relay'[c] = NoRelay
      /\ \A d \in Relays : d # c => relay'[d] = relay[d]
  BY <1>1, Zenon DEF Freed
<1>3. /\ m_child_relays' \in [Managers -> SUBSET Relays]
      /\ \A d \in Relays, p \in Managers :
           d # c /\ d \in m_child_relays[p] => d \in m_child_relays'[p]
  BY <1>1 DEF Freed
<1>4. \/ m_map_reconnect_relay' = m_map_reconnect_relay
      \/ /\ n \in Managers /\ managerHeld[n]
         /\ m_map_reconnect_relay' = [m_map_reconnect_relay EXCEPT ![n][v] = 0]
  BY Zenon DEF Freed
<1>5. RoleOK(c) /\ (n \in Managers => relay[c].where # "none")
  BY FreedSlot, Zenon DEF RelayInv, RoleInv, RoleOK
<1> HIDE DEF n, v
<1>6. m_map_reconnect_relay' \in [Managers -> [Urls -> Nat \cup {Absent}]]
  BY <1>1, <1>4
<1>7. \A p \in Managers, u \in Urls :
        /\ m_map_reconnect_relay[p][u] # Absent => m_map_reconnect_relay'[p][u] # Absent
        /\ \/ m_map_reconnect_relay'[p][u] = m_map_reconnect_relay[p][u]
           \/ p = n /\ u = v /\ managerHeld[p]
  BY <1>1, <1>4 DEF Absent
<1>8. RoleInv'
  <2> SUFFICES ASSUME NEW d \in Relays
               PROVE  RoleOK(d)'
    BY Zenon DEF RoleInv
  <2>1. CASE d = c
    BY <1>2, <2>1, FreedSlot DEF RoleOK, Up
  <2>2. CASE d # c
    <3>1. RoleOK(d) /\ relay'[d] = relay[d]
          /\ (relay[d].maker > 0 => relay[d].maker \in Managers)
      BY <1>2, <2>2, FreedSlot DEF RelayInv, RoleInv, RoleOK
    <3> QED  BY <1>3, <2>2, <3>1 DEF RoleOK, Up
  <2> QED  BY <2>1, <2>2
<1>9. SessionInv'
  <2> SUFFICES ASSUME NEW p \in Sessions
               PROVE  SessionOK(p)'
    BY Zenon DEF SessionInv
  <2>1. SessionOK(p) /\ p \in Managers
    BY DEF RelayInv, SessionInv, Sessions, Managers
  <2>2. ~managerHeld[p] => \A u \in Urls : m_map_reconnect_relay'[p][u] = m_map_reconnect_relay[p][u]
    BY <1>7, <2>1
  <2>3. \A d \in Relays : relay[d].manager # p => relay'[d].manager # p
    BY <1>2, <2>1, FreedSlot
  <2> QED  BY <2>1, <2>2, <2>3, Zenon DEF SessionOK
<1>10. OneRole'
  <2> SUFFICES ASSUME Distinct(Upstreams), NEW p \in Sessions, NEW u \in Urls
               PROVE  /\ \A d, e \in Relays : Live(d, p, u)' /\ Live(e, p, u)' => d = e
                      /\ m_map_reconnect_relay'[p][u] # Absent => \A d \in Relays : ~Live(d, p, u)'
    BY Zenon DEF OneRole
  <2>1. /\ \A d, e \in Relays : Live(d, p, u) /\ Live(e, p, u) => d = e
        /\ m_map_reconnect_relay[p][u] # Absent => \A d \in Relays : ~Live(d, p, u)
        /\ p \in Managers
    BY DEF RelayInv, OneRole, Sessions, Managers
  <2>2. \A d \in Relays : Live(d, p, u)' => Live(d, p, u) /\ d # c
    BY <1>2, FreedSlot DEF Live
  <2>3. p = n /\ u = v => Live(c, p, u)
    BY <1>5, <2>1 DEF Live, n, v
  <2> QED  BY <1>7, <2>1, <2>2, <2>3
<1> QED  BY <1>2, <1>3, <1>6, <1>8, <1>9, <1>10

-----------------------------------------------------------------------------
(* The steps of a call that connects: what they keep, whatever the call    *)
(* does next. *)

(* Nothing changes at the upstreams of m other than u. *)
OthersKept(m, u) ==
  \A v \in Urls \ {u} : /\ m_map_reconnect_relay'[m][v] = m_map_reconnect_relay[m][v]
                        /\ \A c \in Relays : Live(c, m, v)' => Live(c, m, v)

(* What the records of the sessions need, when only the calls and the      *)
(* relays of a held manager change. *)
LEMMA SessionsKept ==
  ASSUME OneWorker, SessionInv, NEW w \in RelayWorkers, thread[w].op \notin Leaving,
         home' = home, managerHeld' = managerHeld, conf' = conf,
         \A p \in Sessions : ~managerHeld[p] =>
           /\ \A u \in Urls : m_map_reconnect_relay'[p][u] = m_map_reconnect_relay[p][u]
           /\ \A c \in Relays : relay'[c].manager = p => relay[c].manager = p
  PROVE  SessionInv'
<1>1. \A v \in RelayWorkers : thread[v].op \notin Leaving
  BY Zenon DEF OneWorker
<1> SUFFICES ASSUME NEW p \in Sessions
             PROVE  SessionOK(p)'
  BY Zenon DEF SessionInv
<1>2. SessionOK(p) /\ home[p] # "leaving"
  BY <1>1, Zenon DEF SessionInv, SessionOK
<1>3. /\ managerHeld'[p] => conf'.dynamic /\ home'[p] \notin {"none", "gone"}
      /\ home'[p] # "leaving"
  BY <1>2, Zenon DEF SessionOK
<1>4. ~managerHeld'[p] /\ home'[p] \notin {"leaving", "gone"} =>
        /\ \A u \in Urls : m_map_reconnect_relay'[p][u] = Absent
        /\ \A c \in Relays : relay'[c].manager # p
  BY <1>2, Zenon DEF SessionOK
<1> QED  BY <1>3, <1>4, Zenon DEF SessionOK

LEMMA FailedStep ==
  ASSUME OneWorker, RelayInv, NEW w \in RelayWorkers, thread[w].op \notin Leaving,
         NEW m \in Managers, m > 0 => managerHeld[m], NEW u,
         ConnectFails,
         \/ m_map_reconnect_relay' = m_map_reconnect_relay
         \/ /\ m_map_reconnect_relay' = [m_map_reconnect_relay EXCEPT ![m][u] = 0]
            /\ Distinct(Upstreams) /\ m > 0 /\ u \in Urls => \A c \in Relays : ~Live(c, m, u),
         conf' = conf, home' = home, managerHeld' = managerHeld,
         DOMAIN thread' = RelayWorkers
  PROVE  RelayTypes' /\ RoleInv' /\ SessionInv' /\ OneRole' /\ OthersKept(m, u)
<1>1. relay' = relay /\ m_child_relays' = m_child_relays /\ handoff' = handoff
  BY Zenon DEF ConnectFails
<1>2. m_map_reconnect_relay \in [Managers -> [Urls -> Nat \cup {Absent}]]
  BY Zenon DEF RelayInv, RelayTypes
<1>3. m_map_reconnect_relay' \in [Managers -> [Urls -> Nat \cup {Absent}]]
  BY <1>2
<1>4. \A p \in Managers, v \in Urls :
        p # m \/ v # u => m_map_reconnect_relay'[p][v] = m_map_reconnect_relay[p][v]
  BY <1>2
<1>5. RelayTypes'
  BY <1>1, <1>3, Zenon DEF RelayInv, RelayTypes
<1>6. RoleInv'
  BY <1>1, Zenon DEF RelayInv, RoleInv, RoleOK, Up
<1>7. \A p \in Sessions : p \in Managers /\ p > 0
  BY DEF Sessions, Managers
<1>8. \A p \in Sessions : ~managerHeld[p] =>
           /\ \A v \in Urls : m_map_reconnect_relay'[p][v] = m_map_reconnect_relay[p][v]
           /\ \A c \in Relays : relay'[c].manager = p => relay[c].manager = p
  BY <1>1, <1>4, <1>7
<1>9. SessionInv'
  BY <1>8, SessionsKept, Zenon DEF RelayInv
<1>10. \A c \in Relays, p \in Managers, v \in Urls : Live(c, p, v)' <=> Live(c, p, v)
  BY <1>1, Zenon DEF Live
<1>11. OneRole'
  <2> SUFFICES ASSUME Distinct(Upstreams), NEW p \in Sessions, NEW v \in Urls
               PROVE  /\ \A d, e \in Relays : Live(d, p, v)' /\ Live(e, p, v)' => d = e
                      /\ m_map_reconnect_relay'[p][v] # Absent => \A d \in Relays : ~Live(d, p, v)'
    BY Zenon DEF OneRole
  <2>1. /\ \A d, e \in Relays : Live(d, p, v) /\ Live(e, p, v) => d = e
        /\ m_map_reconnect_relay[p][v] # Absent => \A d \in Relays : ~Live(d, p, v)
    BY Zenon DEF RelayInv, OneRole
  <2>2. m_map_reconnect_relay'[p][v] # Absent => \A d \in Relays : ~Live(d, p, v)
    BY <1>4, <1>7, <2>1
  <2> QED  BY <1>7, <1>10, <2>1, <2>2, Zenon
<1>12. OthersKept(m, u)
  BY <1>4, <1>10 DEF OthersKept
<1> QED  BY <1>5, <1>6, <1>9, <1>11, <1>12

LEMMA OpenedStep ==
  ASSUME OneWorker, RelayInv, NEW w \in RelayWorkers, thread[w].op \notin Leaving,
         NEW m \in Managers, m > 0 => managerHeld[m] /\ home[m] \in RelayWorkers, NEW u,
         ConnectOK(m, u),
         \/ m_map_reconnect_relay' = m_map_reconnect_relay
         \/ m_map_reconnect_relay' = [m_map_reconnect_relay EXCEPT ![m][u] = Absent],
         Distinct(Upstreams) /\ m > 0 /\ u \in Urls =>
           m_map_reconnect_relay'[m][u] = Absent /\ \A c \in Relays : ~Live(c, m, u),
         conf' = conf, home' = home, managerHeld' = managerHeld,
         DOMAIN thread' = RelayWorkers
  PROVE  RelayTypes' /\ RoleInv' /\ SessionInv' /\ OneRole' /\ OthersKept(m, u)
<1>1. m > 0 => conf.type = "push"
  <2> SUFFICES ASSUME m > 0
               PROVE  conf.type = "push"
    OBVIOUS
  <2>1. m \in Sessions
    BY RelayAssumption DEF Managers, Sessions
  <2> QED  BY <2>1, Zenon DEF RelayInv, SessionInv, SessionOK, RelayTypes
<1>2. PICK d \in Relays : Connected(d, m, u)
  BY <1>1, ConnectEffect, Zenon DEF RelayInv
<1>3. /\ RoleInv' /\ DOMAIN relay' = Relays /\ handoff' \in Seq(Relays)
      /\ \A c \in Relays, p \in Sessions, v \in Urls :
           Live(c, p, v)' => Live(c, p, v) \/ (c = d /\ p = m /\ v = u)
      /\ \A c \in Relays, p \in Sessions : relay'[c].manager = p => relay[c].manager = p \/ p = m
  BY <1>2, ConnectKeepsRoles, Zenon DEF RelayInv
<1>4. m_map_reconnect_relay \in [Managers -> [Urls -> Nat \cup {Absent}]]
  BY Zenon DEF RelayInv, RelayTypes
<1>5. m_map_reconnect_relay' \in [Managers -> [Urls -> Nat \cup {Absent}]]
  BY <1>4
<1>6. \A p \in Managers, v \in Urls :
        p # m \/ v # u => m_map_reconnect_relay'[p][v] = m_map_reconnect_relay[p][v]
  BY <1>4
<1>7. RelayTypes'
  BY <1>2, <1>3, <1>5, Zenon DEF RelayInv, RelayTypes, Connected
<1>8. \A p \in Sessions : p \in Managers /\ p > 0
  BY DEF Sessions, Managers
<1>9. \A p \in Sessions : ~managerHeld[p] =>
           /\ \A v \in Urls : m_map_reconnect_relay'[p][v] = m_map_reconnect_relay[p][v]
           /\ \A c \in Relays : relay'[c].manager = p => relay[c].manager = p
  BY <1>3, <1>6, <1>8
<1>10. SessionInv'
  BY <1>9, SessionsKept, Zenon DEF RelayInv
<1>11. OneRole'
  <2> SUFFICES ASSUME Distinct(Upstreams), NEW p \in Sessions, NEW v \in Urls
               PROVE  /\ \A c, e \in Relays : Live(c, p, v)' /\ Live(e, p, v)' => c = e
                      /\ m_map_reconnect_relay'[p][v] # Absent => \A c \in Relays : ~Live(c, p, v)'
    BY Zenon DEF OneRole
  <2>1. /\ \A c, e \in Relays : Live(c, p, v) /\ Live(e, p, v) => c = e
        /\ m_map_reconnect_relay[p][v] # Absent => \A c \in Relays : ~Live(c, p, v)
    BY Zenon DEF RelayInv, OneRole
  <2>2. CASE p = m /\ v = u
    <3>1. \A c \in Relays : Live(c, p, v)' => c = d
      BY <1>3, <1>8, <2>2, Zenon
    <3>2. m_map_reconnect_relay'[p][v] = Absent
      BY <1>8, <2>2, Zenon
    <3> QED  BY <3>1, <3>2, Zenon
  <2>3. CASE ~(p = m /\ v = u)
    <3>1. \A c \in Relays : Live(c, p, v)' => Live(c, p, v)
      BY <1>3, <2>3, Zenon
    <3>2. m_map_reconnect_relay'[p][v] = m_map_reconnect_relay[p][v]
      BY <1>6, <1>8, <2>3, Zenon
    <3> QED  BY <2>1, <3>1, <3>2, Zenon
  <2> QED  BY <2>2, <2>3, Zenon
<1>12. OthersKept(m, u)
  <2> SUFFICES ASSUME NEW v \in Urls \ {u}, NEW c \in Relays, Live(c, m, v)'
               PROVE  Live(c, m, v)
    BY <1>6, Zenon DEF OthersKept
  <2>1. /\ relay' = [relay EXCEPT ![d] =
                 [where |-> "handoff", manager |-> m, maker |-> m, url |-> u,
                  sock |-> "connecting", kicked |-> FALSE]]
        /\ DOMAIN relay = Relays
    BY <1>2, Zenon DEF Connected, RelayInv, RelayTypes
  <2>2. c # d
    BY <2>1 DEF Live
  <2> QED  BY <2>1, <2>2 DEF Live
<1> QED  BY <1>3, <1>7, <1>10, <1>11, <1>12

-----------------------------------------------------------------------------
(* The one worker's call is now t. *)
LEMMA CallBegins ==
  ASSUME OneWorker, RelayTypes, NEW w \in RelayWorkers, NEW t, Step(w, t), CallOK(t)'
  PROVE  CallInv' /\ DOMAIN thread' = RelayWorkers
<1>1. DOMAIN thread = RelayWorkers
  BY Zenon DEF RelayTypes
<1>2. DOMAIN thread' = RelayWorkers /\ thread'[w] = t
  BY <1>1 DEF Step
<1>3. \A v \in RelayWorkers : thread'[v] = t
  BY <1>2, Zenon DEF OneWorker
<1> QED  BY <1>2, <1>3, Zenon DEF CallInv

LEMMA IdleOK ==
  CallOK(Working)'
<1>1. Working' = Working
  BY DEF Working, NoManager
<1>2. /\ IsCall(Working) /\ Working.op = "idle" /\ Working.manager = NoManager
      /\ Working.due \subseteq Urls
  BY IdleCall
<1> QED  BY <1>1, <1>2 DEF CallOK, Leaving, Connecting

LEMMA CallEnds ==
  ASSUME OneWorker, RelayTypes, NEW w \in RelayWorkers, Step(w, Working)
  PROVE  CallInv' /\ DOMAIN thread' = RelayWorkers
<1>1. PICK t : t = Working
  OBVIOUS
<1>2. CallOK(t)' /\ Step(w, t)
  <2>1. CallOK(Working)'
    BY IdleOK
  <2>2. Working' = Working
    BY DEF Working, NoManager
  <2> QED  BY <1>1, <2>1, <2>2, Zenon
<1> QED  BY <1>2, CallBegins, Zenon

(* The rest of the round is still ahead when its first upstream is done. *)
LEMMA AheadTail ==
  ASSUME NEW m \in Managers, NEW l, Ahead(m, l), l # <<>>, NEW u, u = Head(l), OthersKept(m, u)
  PROVE  Ahead(m, Tail(l))'
<1>1. l \in Seq(Urls) /\ Distinct(l)
  BY Zenon DEF Ahead
<1>2. /\ Tail(l) \in Seq(Urls) /\ Len(Tail(l)) = Len(l) - 1 /\ Len(l) \in Nat \ {0}
      /\ u = l[1] /\ u \in Urls
      /\ \A i \in 1..Len(Tail(l)) : i + 1 \in 1..Len(l) /\ Tail(l)[i] = l[i + 1] /\ l[i + 1] \in Urls
  BY <1>1
<1>3. Distinct(Tail(l))
  BY <1>1, <1>2 DEF Distinct
<1>4. \A i \in 1..Len(Tail(l)) : Tail(l)[i] \in Urls \ {u}
  BY <1>1, <1>2 DEF Distinct
<1>5. \A i \in 1..Len(l) : m_map_reconnect_relay[m][l[i]] = Absent
                           /\ \A c \in Relays : ~Live(c, m, l[i])
  BY Zenon DEF Ahead
<1>6. \A v \in Urls \ {u} : /\ m_map_reconnect_relay'[m][v] = m_map_reconnect_relay[m][v]
                            /\ \A c \in Relays : Live(c, m, v)' => Live(c, m, v)
  BY Zenon DEF OthersKept
<1>7. \A i \in 1..Len(Tail(l)) : /\ m_map_reconnect_relay'[m][Tail(l)[i]] = Absent
                                 /\ \A c \in Relays : ~Live(c, m, Tail(l)[i])'
  <2> SUFFICES ASSUME NEW i \in 1..Len(Tail(l))
               PROVE  /\ m_map_reconnect_relay'[m][Tail(l)[i]] = Absent
                      /\ \A c \in Relays : ~Live(c, m, Tail(l)[i])'
    OBVIOUS
  <2>1. PICK v : v = Tail(l)[i]
    OBVIOUS
  <2>2. v \in Urls \ {u} /\ m_map_reconnect_relay[m][v] = Absent
        /\ \A c \in Relays : ~Live(c, m, v)
    BY <1>2, <1>4, <1>5, <2>1
  <2>3. m_map_reconnect_relay'[m][v] = Absent /\ \A c \in Relays : ~Live(c, m, v)'
    BY <1>6, <2>2, Zenon
  <2> QED  BY <2>1, <2>3, Zenon
<1> QED  BY <1>2, <1>3, <1>7, Zenon DEF Ahead

(* The first upstream of what is ahead is clear. *)
LEMMA AheadHead ==
  ASSUME NEW m \in Managers, NEW l, Ahead(m, l), l # <<>>, NEW u, u = Head(l)
  PROVE  u \in Urls /\ m_map_reconnect_relay[m][u] = Absent
         /\ \A c \in Relays : ~Live(c, m, u)
<1>1. l \in Seq(Urls)
  BY Zenon DEF Ahead
<1>2. u = l[1] /\ u \in Urls /\ 1 \in 1..Len(l)
  BY <1>1
<1> QED  BY <1>2, Zenon DEF Ahead

-----------------------------------------------------------------------------
(* The calls. *)

(* A step of a call that goes on: it keeps the operation, the manager and  *)
(* the upstreams that were due. *)
LEMMA CallGoesOn ==
  ASSUME RelayInv, NEW w \in RelayWorkers, NEW t, t = thread[w], NEW s,
         t.op \notin Leaving, t.op # "idle",
         IsCall(s), s.manager = t.manager, s.due = t.due,
         s.op = t.op \/ (t.op = "reconnect" /\ s.op = "reconnect_all"),
         home' = home, managerHeld' = managerHeld,
         Distinct(Upstreams) /\ s.op = "connect_all" /\ s.manager > 0 => Ahead(s.manager, s.todo)'
  PROVE  CallOK(s)'
<1>1. CallOK(t)
  BY Zenon DEF RelayInv, CallInv
<1>2. /\ s.op \in {"idle", "connect_hash", "connect_loop"} \cup Leaving \cup Connecting
      /\ s.due \subseteq Urls
      /\ s.op # "idle" /\ s.op \notin Leaving
      /\ s.op \in {"connect_hash", "connect_loop"} => s.manager = 0
      /\ s.op \in Connecting =>
           /\ s.manager \in Managers
           /\ s.manager > 0 => managerHeld[s.manager] /\ home[s.manager] \in RelayWorkers
  BY <1>1 DEF CallOK, Leaving, Connecting
<1> QED  BY <1>2, Zenon DEF CallOK

(* Who a connecting call works for. *)
LEMMA CallManager ==
  ASSUME RelayInv, NEW w \in RelayWorkers, NEW t, t = thread[w],
         t.op \in Connecting \cup {"connect_hash", "connect_loop"}
  PROVE  /\ t.manager \in Managers /\ t.op \notin Leaving /\ t.op # "idle" /\ IsCall(t)
         /\ t.manager > 0 => managerHeld[t.manager] /\ home[t.manager] \in RelayWorkers
         /\ t.due \subseteq Urls
         /\ t.op \in {"connect_hash", "connect_loop"} => t.manager = 0
         /\ Distinct(Upstreams) /\ t.op = "connect_all" /\ t.manager > 0 =>
              Ahead(t.manager, t.todo)
<1>1. CallOK(t)
  BY Zenon DEF RelayInv, CallInv
<1>2. 0 \in Managers
  BY RelayAssumption DEF Managers
<1> QED  BY <1>1, <1>2 DEF CallOK, Connecting, Leaving

LEMMA ConnectAllKeeps ==
  ASSUME OneWorker, RelayInv, NEW w \in RelayWorkers, connect_all(w)
  PROVE  RelayInv'
<1>1. PICK t : t = thread[w]
  OBVIOUS
<1>2. PICK m : m = t.manager
  OBVIOUS
<1>3. PICK u : u = Head(t.todo)
  OBVIOUS
<1>4. /\ t.op = "connect_all"
      /\ conf' = conf /\ home' = home /\ managerHeld' = managerHeld
      /\ \/ Step(w, Working) /\ ConnectFails /\ m_map_reconnect_relay' = m_map_reconnect_relay
         \/ /\ t.todo # <<>> /\ Step(w, [t EXCEPT !.todo = Tail(t.todo)])
            /\ \/ ConnectFails /\ m_map_reconnect_relay' = m_map_reconnect_relay
               \/ /\ ConnectFails
                  /\ m_map_reconnect_relay' = [m_map_reconnect_relay EXCEPT ![m][u] = 0]
               \/ ConnectOK(m, u) /\ m_map_reconnect_relay' = m_map_reconnect_relay
  BY <1>1, <1>2, <1>3, Zenon DEF connect_all, Return
<1>5. t.op \in Connecting \cup {"connect_hash", "connect_loop"}
  BY <1>4 DEF Connecting
<1>6. /\ m \in Managers /\ t.op \notin Leaving /\ t.op # "idle" /\ IsCall(t)
      /\ m > 0 => managerHeld[m] /\ home[m] \in RelayWorkers
      /\ Distinct(Upstreams) /\ m > 0 => Ahead(m, t.todo)
  BY <1>1, <1>2, <1>4, <1>5, CallManager, Zenon
<1>7. RelayTypes
  BY Zenon DEF RelayInv
<1>8. CASE Step(w, Working) /\ ConnectFails /\ m_map_reconnect_relay' = m_map_reconnect_relay
  <2>1. CallInv' /\ DOMAIN thread' = RelayWorkers
    BY <1>7, <1>8, CallEnds, Zenon
  <2>2. RelayTypes' /\ RoleInv' /\ SessionInv' /\ OneRole'
    BY <1>1, <1>4, <1>6, <1>8, <2>1, FailedStep, Zenon
  <2> QED  BY <2>1, <2>2, Zenon DEF RelayInv
<1>9. CASE /\ t.todo # <<>> /\ Step(w, [t EXCEPT !.todo = Tail(t.todo)])
           /\ \/ ConnectFails /\ m_map_reconnect_relay' = m_map_reconnect_relay
              \/ /\ ConnectFails
                 /\ m_map_reconnect_relay' = [m_map_reconnect_relay EXCEPT ![m][u] = 0]
              \/ ConnectOK(m, u) /\ m_map_reconnect_relay' = m_map_reconnect_relay
  <2>1. Distinct(Upstreams) /\ m > 0 /\ u \in Urls =>
          m_map_reconnect_relay[m][u] = Absent /\ \A c \in Relays : ~Live(c, m, u)
    BY <1>3, <1>6, <1>9, AheadHead, Zenon
  <2>2. PICK s : s = [t EXCEPT !.todo = Tail(t.todo)]
    OBVIOUS
  <2>3. DOMAIN thread' = RelayWorkers
    BY <1>7, <1>9 DEF Step, RelayTypes
  <2>4. RelayTypes' /\ RoleInv' /\ SessionInv' /\ OneRole' /\ OthersKept(m, u)
    <3>1. CASE ConnectFails
      BY <1>1, <1>4, <1>6, <1>9, <2>1, <2>3, <3>1, FailedStep, Zenon
    <3>2. CASE ConnectOK(m, u) /\ m_map_reconnect_relay' = m_map_reconnect_relay
      BY <1>1, <1>4, <1>6, <2>1, <2>3, <3>2, OpenedStep, Zenon
    <3> QED  BY <1>9, <3>1, <3>2, Zenon
  <2>5. /\ IsCall(s) /\ s.op = t.op /\ s.manager = t.manager /\ s.due = t.due
        /\ s.todo = Tail(t.todo)
    BY <1>6, <2>2 DEF IsCall
  <2>6. Distinct(Upstreams) /\ s.op = "connect_all" /\ s.manager > 0 => Ahead(s.manager, s.todo)'
    BY <1>2, <1>3, <1>6, <1>9, <2>4, <2>5, AheadTail, Zenon
  <2>7. CallOK(s)'
    BY <1>1, <1>4, <1>6, <2>5, <2>6, CallGoesOn, Zenon
  <2>8. CallInv'
    BY <1>7, <1>9, <2>2, <2>7, CallBegins, Zenon
  <2> QED  BY <2>4, <2>8, Zenon DEF RelayInv
<1> QED  BY <1>4, <1>8, <1>9, Zenon

LEMMA ConnectOneKeeps ==
  ASSUME OneWorker, RelayInv, NEW w \in RelayWorkers, connect_hash(w) \/ connect_loop(w)
  PROVE  RelayInv'
<1>1. PICK t : t = thread[w]
  OBVIOUS
<1>2. PICK u : u = Head(t.todo)
  OBVIOUS
<1>3. /\ t.op \in {"connect_hash", "connect_loop"}
      /\ conf' = conf /\ home' = home /\ managerHeld' = managerHeld
      /\ m_map_reconnect_relay' = m_map_reconnect_relay
      /\ ConnectFails \/ ConnectOK(t.manager, u)
      /\ Step(w, Working) \/ Step(w, [t EXCEPT !.todo = Tail(t.todo)])
  BY <1>1, <1>2, Zenon DEF connect_hash, connect_loop, Return
<1>4. /\ t.manager = 0 /\ t.manager \in Managers /\ t.op \notin Leaving /\ t.op # "idle" /\ IsCall(t)
  BY <1>1, <1>3, CallManager, Zenon
<1>5. RelayTypes
  BY Zenon DEF RelayInv
<1>6. CallInv' /\ DOMAIN thread' = RelayWorkers
  <2>1. CASE Step(w, Working)
    BY <1>5, <2>1, CallEnds, Zenon
  <2>2. CASE Step(w, [t EXCEPT !.todo = Tail(t.todo)])
    <3>1. PICK s : s = [t EXCEPT !.todo = Tail(t.todo)]
      OBVIOUS
    <3>2. IsCall(s) /\ s.op = t.op /\ s.manager = t.manager /\ s.due = t.due
      BY <1>4, <3>1 DEF IsCall
    <3>3. s.op # "connect_all"
      BY <1>3, <3>2
    <3>4. CallOK(s)'
      BY <1>1, <1>3, <1>4, <3>2, <3>3, CallGoesOn, Zenon
    <3> QED  BY <1>5, <2>2, <3>1, <3>4, CallBegins, Zenon
  <2> QED  BY <1>3, <2>1, <2>2, Zenon
<1>7. ~(0 > 0) /\ 0 \in Managers
  BY <1>4
<1>8. ConnectFails \/ ConnectOK(0, u)
  BY <1>3, <1>4, Zenon
<1>9. RelayTypes' /\ RoleInv' /\ SessionInv' /\ OneRole'
  <2>1. CASE ConnectFails
    BY <1>1, <1>3, <1>4, <1>6, <1>7, <2>1, FailedStep, Zenon
  <2>2. CASE ConnectOK(0, u)
    BY <1>1, <1>3, <1>4, <1>6, <1>7, <2>2, OpenedStep, Zenon
  <2> QED  BY <1>8, <2>1, <2>2, Zenon
<1> QED  BY <1>6, <1>9, Zenon DEF RelayInv

LEMMA ReconnectKeeps ==
  ASSUME OneWorker, RelayInv, NEW w \in RelayWorkers, reconnect(w)
  PROVE  RelayInv'
<1>1. PICK t : t = thread[w]
  OBVIOUS
<1>2. PICK e : e = Entries(t.manager)
  OBVIOUS
<1>3. PICK s : s = [t EXCEPT !.op = "reconnect_all", !.todo = e]
  OBVIOUS
<1>4. /\ t.op = "reconnect" /\ Step(w, s) /\ ConnectFails
      /\ conf' = conf /\ home' = home /\ managerHeld' = managerHeld
      /\ m_map_reconnect_relay' = m_map_reconnect_relay
  BY <1>1, <1>2, <1>3, Zenon DEF reconnect, ConnectFails
<1>5. t.op \in Connecting \cup {"connect_hash", "connect_loop"}
  BY <1>4 DEF Connecting
<1>6. /\ t.manager \in Managers /\ t.op \notin Leaving /\ t.op # "idle" /\ IsCall(t)
      /\ t.manager > 0 => managerHeld[t.manager]
  BY <1>1, <1>5, CallManager, Zenon
<1>7. IsCall(s) /\ s.op = "reconnect_all" /\ s.manager = t.manager /\ s.due = t.due
  BY <1>3, <1>6 DEF IsCall
<1>8. CallOK(s)'
  BY <1>1, <1>4, <1>6, <1>7, CallGoesOn
<1>9. RelayTypes
  BY Zenon DEF RelayInv
<1>10. CallInv' /\ DOMAIN thread' = RelayWorkers
  BY <1>4, <1>8, <1>9, CallBegins, Zenon
<1>11. RelayTypes' /\ RoleInv' /\ SessionInv' /\ OneRole'
  BY <1>1, <1>4, <1>6, <1>10, FailedStep, Zenon
<1> QED  BY <1>10, <1>11, Zenon DEF RelayInv

LEMMA ReconnectAllKeeps ==
  ASSUME OneWorker, RelayInv, NEW w \in RelayWorkers, reconnect_all(w)
  PROVE  RelayInv'
<1>1. PICK t : t = thread[w]
  OBVIOUS
<1>2. PICK m : m = t.manager
  OBVIOUS
<1>3. PICK u : u = Head(t.todo)
  OBVIOUS
<1> DEFINE next(r) == [t EXCEPT !.todo = Tail(t.todo), !.ret = r, !.all_ret = Either(t.all_ret, r)]
           map(age) == m_map_reconnect_relay' = [m_map_reconnect_relay EXCEPT ![m][u] = age]
           due == u \in t.due /\ Overdue(m, u)
<1>4. /\ t.op = "reconnect_all"
      /\ conf' = conf /\ home' = home /\ managerHeld' = managerHeld
      /\ \/ Step(w, Working) /\ ConnectFails /\ m_map_reconnect_relay' = m_map_reconnect_relay
         \/ /\ \E r : Step(w, next(r))
            /\ \/ ConnectFails /\ map(m_map_reconnect_relay[m][u])
               \/ due /\ ConnectFails /\ map(0)
               \/ due /\ ConnectOK(m, u) /\ map(Absent)
  BY <1>1, <1>2, <1>3, Zenon DEF reconnect_all, Return, EntryAfterConnect
<1>5. t.op \in Connecting \cup {"connect_hash", "connect_loop"}
  BY <1>4 DEF Connecting
<1>6. /\ m \in Managers /\ t.op \notin Leaving /\ t.op # "idle" /\ IsCall(t)
      /\ m > 0 => managerHeld[m] /\ home[m] \in RelayWorkers
      /\ t.due \subseteq Urls
  BY <1>1, <1>2, <1>4, <1>5, CallManager, Zenon
<1>7. RelayTypes /\ m_map_reconnect_relay \in [Managers -> [Urls -> Nat \cup {Absent}]]
  BY Zenon DEF RelayInv, RelayTypes
<1>8. CallInv' /\ DOMAIN thread' = RelayWorkers
  <2>1. CASE Step(w, Working)
    BY <1>7, <2>1, CallEnds, Zenon
  <2>2. CASE \E r : Step(w, next(r))
    <3>1. PICK r : Step(w, next(r))
      BY <2>2, Zenon
    <3>2. PICK a : a = Either(t.all_ret, r)
      OBVIOUS
    <3>3. PICK s : s = [t EXCEPT !.todo = Tail(t.todo), !.ret = r, !.all_ret = a]
      OBVIOUS
    <3>4. IsCall(s) /\ s.op = t.op /\ s.manager = t.manager /\ s.due = t.due
      BY <1>6, <3>3 DEF IsCall
    <3>5. s.op # "connect_all"
      BY <1>4, <3>4
    <3>6. CallOK(s)'
      BY <1>1, <1>4, <1>6, <3>4, <3>5, CallGoesOn, Zenon
    <3>7. Step(w, s)
      BY <3>1, <3>2, <3>3, Zenon
    <3> QED  BY <1>7, <3>6, <3>7, CallBegins, Zenon
  <2> QED  BY <1>4, <2>1, <2>2, Zenon
<1>9. Distinct(Upstreams) /\ m > 0 /\ due => u \in Urls /\ \A c \in Relays : ~Live(c, m, u)
  <2> SUFFICES ASSUME Distinct(Upstreams), m > 0, due
               PROVE  u \in Urls /\ \A c \in Relays : ~Live(c, m, u)
    OBVIOUS
  <2>1. u \in Urls /\ m \in Sessions
    BY <1>6 DEF Managers, Sessions
  <2>2. m_map_reconnect_relay[m][u] # Absent
    BY <1>6, <1>7, <2>1, RelayAssumption DEF Overdue, Absent
  <2> QED  BY <2>1, <2>2, Zenon DEF RelayInv, OneRole
<1>10. map(m_map_reconnect_relay[m][u]) => m_map_reconnect_relay' = m_map_reconnect_relay
  BY <1>6, <1>7
<1>11. due /\ map(Absent) => m_map_reconnect_relay'[m][u] = Absent
  BY <1>6, <1>7
<1>12. \/ ConnectFails /\ m_map_reconnect_relay' = m_map_reconnect_relay
       \/ due /\ ConnectFails /\ map(0)
       \/ due /\ ConnectOK(m, u) /\ map(Absent)
  BY <1>4, <1>10, Zenon
<1> HIDE DEF due, next
<1>13. RelayTypes' /\ RoleInv' /\ SessionInv' /\ OneRole'
  <2>1. CASE ConnectFails /\ m_map_reconnect_relay' = m_map_reconnect_relay
    BY <1>1, <1>4, <1>6, <1>8, <2>1, FailedStep, Zenon
  <2>2. CASE due /\ ConnectFails /\ map(0)
    BY <1>1, <1>4, <1>6, <1>8, <1>9, <2>2, FailedStep, Zenon
  <2>3. CASE due /\ ConnectOK(m, u) /\ map(Absent)
    BY <1>1, <1>4, <1>6, <1>8, <1>9, <1>11, <2>3, OpenedStep, Zenon
  <2> QED  BY <1>12, <2>1, <2>2, <2>3, Zenon
<1> QED  BY <1>8, <1>13, Zenon DEF RelayInv

-----------------------------------------------------------------------------
(* The steps of an idle worker. *)

(* What start() begins. *)
Begins(w, m) ==
  \E t : /\ Step(w, t) /\ IsCall(t) /\ t.manager = m /\ t.due = {}
         /\ t.op \in {"connect_all", "connect_hash", "connect_loop"}
         /\ t.op = "connect_all" => t.todo = Upstreams
         /\ conf.type = "push" /\ conf.mode = "all" => t.op = "connect_all"

LEMMA StartBegins ==
  ASSUME NEW w, NEW m, NEW publisher, NEW queued, start(w, m, publisher, queued)
  PROVE  thread' = thread \/ Begins(w, m)
<1>1. PICK call : call = [Working EXCEPT !.manager = m, !.queued = queued]
  OBVIOUS
<1>2. IsCall(call) /\ call.manager = m /\ call.due = {}
  BY <1>1, IdleCall DEF IsCall
<1>3. \/ thread' = thread
      \/ Step(w, [call EXCEPT !.op = "connect_all", !.todo = Upstreams])
      \/ /\ ~(conf.type = "push" /\ conf.mode = "all")
         /\ \E h : \/ Step(w, [call EXCEPT !.op = "connect_hash", !.todo = h])
                   \/ Step(w, [call EXCEPT !.op = "connect_loop", !.todo = h])
  BY <1>1 DEF start, StartPusher, StartPullerManager
<1>4. ASSUME NEW h
      PROVE  LET s == [call EXCEPT !.op = "connect_hash", !.todo = h]
                 r == [call EXCEPT !.op = "connect_loop", !.todo = h]
                 a == [call EXCEPT !.op = "connect_all", !.todo = h]
             IN  /\ IsCall(s) /\ s.manager = m /\ s.due = {} /\ s.op = "connect_hash"
                 /\ IsCall(r) /\ r.manager = m /\ r.due = {} /\ r.op = "connect_loop"
                 /\ IsCall(a) /\ a.manager = m /\ a.due = {} /\ a.op = "connect_all" /\ a.todo = h
  BY <1>2 DEF IsCall
<1>5. CASE Step(w, [call EXCEPT !.op = "connect_all", !.todo = Upstreams])
  <2>1. PICK t : t = [call EXCEPT !.op = "connect_all", !.todo = Upstreams]
    OBVIOUS
  <2>2. /\ Step(w, t) /\ IsCall(t) /\ t.manager = m /\ t.due = {} /\ t.op = "connect_all"
        /\ t.todo = Upstreams
    BY <1>4, <1>5, <2>1
  <2> QED  BY <2>2, Zenon DEF Begins
<1>6. CASE /\ ~(conf.type = "push" /\ conf.mode = "all")
           /\ \E h : \/ Step(w, [call EXCEPT !.op = "connect_hash", !.todo = h])
                     \/ Step(w, [call EXCEPT !.op = "connect_loop", !.todo = h])
  <2>1. PICK h : \/ Step(w, [call EXCEPT !.op = "connect_hash", !.todo = h])
                 \/ Step(w, [call EXCEPT !.op = "connect_loop", !.todo = h])
    BY <1>6
  <2>2. PICK t : /\ Step(w, t)
                 /\ \/ t = [call EXCEPT !.op = "connect_hash", !.todo = h]
                    \/ t = [call EXCEPT !.op = "connect_loop", !.todo = h]
    BY <2>1
  <2>3. /\ IsCall(t) /\ t.manager = m /\ t.due = {}
        /\ t.op \in {"connect_hash", "connect_loop"}
    BY <1>2, <2>2 DEF IsCall
  <2>4. t.op # "connect_all"
    BY <2>3
  <2> QED  BY <1>6, <2>2, <2>3, <2>4, Zenon DEF Begins
<1> QED  BY <1>3, <1>5, <1>6, Zenon

(* A call that has begun is in order, if its manager is held. *)
LEMMA BegunOK ==
  ASSUME OneWorker, RelayTypes, NEW w \in RelayWorkers, NEW m \in Managers, Begins(w, m),
         m > 0 => /\ conf.type = "push" /\ conf.mode = "all"
                  /\ managerHeld'[m] /\ home'[m] \in RelayWorkers
                  /\ Distinct(Upstreams) => Ahead(m, Upstreams)'
  PROVE  CallInv' /\ DOMAIN thread' = RelayWorkers
<1>1. PICK t : /\ Step(w, t) /\ IsCall(t) /\ t.manager = m /\ t.due = {}
               /\ t.op \in {"connect_all", "connect_hash", "connect_loop"}
               /\ t.op = "connect_all" => t.todo = Upstreams
               /\ conf.type = "push" /\ conf.mode = "all" => t.op = "connect_all"
  BY Zenon DEF Begins
<1>2. /\ t.op \in {"idle", "connect_hash", "connect_loop"} \cup Leaving \cup Connecting
      /\ t.due \subseteq Urls /\ t.op # "idle" /\ t.op \notin Leaving
      /\ t.op = "connect_all" => t.op \notin {"connect_hash", "connect_loop"}
      /\ m = 0 \/ m > 0
  BY <1>1 DEF Leaving, Connecting, Managers
<1>3. /\ t.op \in {"connect_hash", "connect_loop"} => t.manager = 0
      /\ t.op \in Connecting =>
           /\ t.manager \in Managers
           /\ t.manager > 0 => managerHeld'[t.manager] /\ home'[t.manager] \in RelayWorkers
      /\ Distinct(Upstreams) /\ t.op = "connect_all" /\ t.manager > 0 =>
           Ahead(t.manager, t.todo)'
  BY <1>1, <1>2, Zenon
<1>4. CallOK(t)'
  BY <1>1, <1>2, <1>3, Zenon DEF CallOK
<1> QED  BY <1>1, <1>4, CallBegins, Zenon

(* An idle worker that stays idle has its call in order. *)
LEMMA StaysIdle ==
  ASSUME OneWorker, CallInv, NEW w \in RelayWorkers, thread[w].op = "idle", thread' = thread
  PROVE  CallInv'
<1>1. \A v \in RelayWorkers : thread[v].op = "idle" /\ CallOK(thread[v])
  BY Zenon DEF OneWorker, CallInv
<1> SUFFICES ASSUME NEW v \in RelayWorkers
             PROVE  CallOK(thread[v])'
  BY Zenon DEF CallInv
<1>2. PICK t : t = thread[v] /\ t = thread'[v]
  OBVIOUS
<1>3. t.op = "idle" /\ CallOK(t)
  BY <1>1, <1>2, Zenon
<1>4. CallOK(t)'
  BY <1>3 DEF CallOK, Leaving, Connecting
<1> QED  BY <1>2, <1>4, Zenon

LEMMA IdleNotLeaving ==
  ASSUME NEW w, thread[w].op = "idle"
  PROVE  thread[w].op \notin Leaving
  BY DEF Leaving

LEMMA CheckReconnectKeeps ==
  ASSUME OneWorker, RelayInv, NEW w \in RelayWorkers, NEW m \in Managers,
         check_reconnect_relay(w, m)
  PROVE  RelayInv'
<1>1. /\ thread[w].op = "idle" /\ ConnectFails
      /\ conf' = conf /\ home' = home /\ managerHeld' = managerHeld
      /\ m_map_reconnect_relay' = m_map_reconnect_relay
  BY Zenon DEF check_reconnect_relay, ConnectFails
<1>2. PICK call : call = [Working EXCEPT !.manager = m, !.queued = TRUE,
                                 !.no_publisher = registered = NoPublisher,
                                 !.due = {u \in Urls : Overdue(m, u)}]
  OBVIOUS
<1>3. \/ thread' = thread
      \/ /\ Alive(m) /\ conf.type = "push" /\ conf.mode = "all"
         /\ Step(w, [call EXCEPT !.op = "reconnect"])
      \/ /\ Alive(m) /\ ~(conf.type = "push" /\ conf.mode = "all")
         /\ start(w, m, registered # NoPublisher, TRUE)
  BY <1>2 DEF check_reconnect_relay, RestartDue
<1>4. RelayTypes /\ CallInv /\ SessionInv /\ DOMAIN thread = RelayWorkers
  BY Zenon DEF RelayInv, RelayTypes
<1>5. Alive(m) /\ m > 0 => /\ managerHeld[m] /\ home[m] \in RelayWorkers
                           /\ conf.type = "push" /\ conf.mode = "all"
  <2> SUFFICES ASSUME Alive(m), m > 0
               PROVE  /\ managerHeld[m] /\ home[m] \in RelayWorkers
                      /\ conf.type = "push" /\ conf.mode = "all"
    OBVIOUS
  <2>1. m \in Sessions
    BY RelayAssumption DEF Managers, Sessions
  <2>2. managerHeld[m]
    BY <1>1, <1>4, AliveIsHeld, Zenon
  <2>3. conf.dynamic /\ home[m] \notin {"none", "gone"}
    BY <1>4, <2>1, <2>2, Zenon DEF SessionInv, SessionOK
  <2>4. home[m] \in RelayWorkers \cup {"none", "gone"}
    BY <1>1, <1>4, <2>1, NobodyLeaving, Zenon
  <2> QED  BY <1>4, <2>2, <2>3, <2>4 DEF RelayTypes
<1>6. CallInv' /\ DOMAIN thread' = RelayWorkers
  <2>1. CASE thread' = thread
    BY <1>1, <1>4, <2>1, StaysIdle, Zenon
  <2>2. CASE /\ Alive(m) /\ conf.type = "push" /\ conf.mode = "all"
             /\ Step(w, [call EXCEPT !.op = "reconnect"])
    <3>1. PICK t : t = [call EXCEPT !.op = "reconnect"]
      OBVIOUS
    <3>2. /\ IsCall(t) /\ t.op = "reconnect" /\ t.manager = m
          /\ t.due = {u \in Urls : Overdue(m, u)}
      <4>1. IsCall(call) /\ call.manager = m /\ call.due = {u \in Urls : Overdue(m, u)}
        BY <1>2, IdleCall DEF IsCall
      <4> QED  BY <3>1, <4>1 DEF IsCall
    <3>3. CallOK(t)'
      BY <1>1, <1>5, <2>2, <3>2 DEF CallOK, Leaving, Connecting
    <3> QED  BY <1>4, <2>2, <3>1, <3>3, CallBegins, Zenon
  <2>3. CASE /\ Alive(m) /\ ~(conf.type = "push" /\ conf.mode = "all")
             /\ start(w, m, registered # NoPublisher, TRUE)
    <3>1. thread' = thread \/ Begins(w, m)
      BY <2>3, StartBegins, Zenon
    <3> QED  BY <1>4, <1>5, <2>1, <2>3, <3>1, BegunOK, Zenon
  <2> QED  BY <1>3, <2>1, <2>2, <2>3, Zenon
<1>7. 0 \in Managers /\ ~(0 > 0) /\ thread[w].op \notin Leaving
  BY <1>1, RelayAssumption DEF Managers, Leaving
<1>8. RelayTypes' /\ RoleInv' /\ SessionInv' /\ OneRole'
  BY <1>1, <1>6, <1>7, FailedStep, Zenon
<1> QED  BY <1>6, <1>8, Zenon DEF RelayInv

LEMMA StartPullerKeeps ==
  ASSUME OneWorker, RelayInv, NEW w \in RelayWorkers, StartPuller(w)
  PROVE  RelayInv'
<1>1. /\ thread[w].op = "idle" /\ ConnectFails /\ start(w, 0, FALSE, FALSE)
      /\ conf' = conf /\ home' = home /\ managerHeld' = managerHeld
      /\ m_map_reconnect_relay' = m_map_reconnect_relay
  BY Zenon DEF StartPuller, ConnectFails
<1>2. RelayTypes /\ CallInv /\ DOMAIN thread = RelayWorkers
  BY Zenon DEF RelayInv, RelayTypes
<1>3. 0 \in Managers /\ ~(0 > 0) /\ thread[w].op \notin Leaving
  BY <1>1, RelayAssumption DEF Managers, Leaving
<1>4. thread' = thread \/ Begins(w, 0)
  BY <1>1, StartBegins, Zenon
<1>5. CallInv' /\ DOMAIN thread' = RelayWorkers
  BY <1>1, <1>2, <1>3, <1>4, StaysIdle, BegunOK, Zenon
<1>6. RelayTypes' /\ RoleInv' /\ SessionInv' /\ OneRole'
  BY <1>1, <1>3, <1>5, FailedStep, Zenon
<1> QED  BY <1>5, <1>6, Zenon DEF RelayInv

LEMMA ReapKeeps ==
  ASSUME OneWorker, RelayInv, NEW w \in RelayWorkers, thread[w].op = "idle",
         NEW c \in Relays, uninit(c), handoff' \in Seq(Relays),
         conf' = conf, home' = home, managerHeld' = managerHeld, thread' = thread
  PROVE  RelayInv'
<1>1. Freed(c)
  BY UninitEffect, Zenon DEF RelayInv
<1>2. /\ RoleInv' /\ SessionInv' /\ OneRole'
      /\ m_map_reconnect_relay' \in [Managers -> [Urls -> Nat \cup {Absent}]]
      /\ m_child_relays' \in [Managers -> SUBSET Relays]
      /\ DOMAIN relay' = Relays
  BY <1>1, FreedKeeps, Zenon
<1>3. CallInv'
  BY StaysIdle, Zenon DEF RelayInv
<1>4. RelayTypes'
  BY <1>2, Zenon DEF RelayInv, RelayTypes
<1> QED  BY <1>2, <1>3, <1>4, Zenon DEF RelayInv

LEMMA AdoptKeeps ==
  ASSUME OneWorker, RelayInv, NEW w \in RelayWorkers, thread[w].op = "idle",
         NEW c \in Relays, relay' = [relay EXCEPT ![c].where = w], handoff' \in Seq(Relays),
         conf' = conf, home' = home, managerHeld' = managerHeld, thread' = thread,
         m_map_reconnect_relay' = m_map_reconnect_relay, m_child_relays' = m_child_relays
  PROVE  RelayInv'
<1>1. DOMAIN relay = Relays /\ RoleOK(c) /\ w # "none"
  BY RelayAssumption DEF RelayInv, RelayTypes, RoleInv
<1>2. DOMAIN relay' = Relays /\ \A d \in Relays \ {c} : relay'[d] = relay[d]
  BY <1>1
<1>3. PICK r : r = relay[c]
  OBVIOUS
<1>4. PICK s : s = [r EXCEPT !.where = w]
  OBVIOUS
<1>5. relay'[c] = s
  BY <1>1, <1>3, <1>4
<1>6. /\ IsRole(s) /\ s.where = w /\ s.manager = r.manager /\ s.maker = r.maker
      /\ s.url = r.url /\ s.sock = r.sock /\ s.kicked = r.kicked
  BY <1>1, <1>3, <1>4 DEF RoleOK, IsRole
<1>7. Up(c)' => Up(c)
  BY <1>1, <1>3, <1>5, <1>6 DEF Up, RoleOK
<1>8. RoleInv'
  <2> SUFFICES ASSUME NEW d \in Relays
               PROVE  RoleOK(d)'
    BY Zenon DEF RoleInv
  <2>1. CASE d = c
    BY <1>1, <1>3, <1>5, <1>6, <1>7, <2>1 DEF RoleOK
  <2>2. CASE d # c
    <3>1. RoleOK(d) /\ relay'[d] = relay[d]
      BY <1>2, <2>2 DEF RelayInv, RoleInv
    <3> QED  BY <3>1, Zenon DEF RoleOK, Up
  <2> QED  BY <2>1, <2>2
<1>9. \A d \in Relays, p \in Sessions, u \in Urls : Live(d, p, u)' => Live(d, p, u)
  <2> SUFFICES ASSUME NEW d \in Relays, NEW p \in Sessions, NEW u \in Urls, Live(d, p, u)'
               PROVE  Live(d, p, u)
    OBVIOUS
  <2>1. CASE d = c
    <3>1. r.manager = p /\ r.url = u
      BY <1>5, <1>6, <2>1 DEF Live
    <3>2. r.manager # NoManager
      BY <3>1 DEF NoManager, Sessions
    <3>3. r.where # "none"
      BY <1>1, <1>3, <3>2 DEF RoleOK
    <3> QED  BY <1>3, <2>1, <3>1, <3>3 DEF Live
  <2>2. CASE d # c
    BY <1>2, <2>2 DEF Live
  <2> QED  BY <2>1, <2>2
<1>10. OneRole'
  BY <1>9, Zenon DEF OneRole, RelayInv
<1>11. \A d \in Relays : relay'[d].manager = relay[d].manager
  BY <1>2, <1>3, <1>5, <1>6
<1>12. SessionInv'
  BY <1>11, IdleNotLeaving, SessionsKept, Zenon DEF RelayInv
<1>13. CallInv'
  BY StaysIdle, Zenon DEF RelayInv
<1>14. RelayTypes'
  BY <1>2, Zenon DEF RelayInv, RelayTypes
<1> QED  BY <1>8, <1>10, <1>12, <1>13, <1>14, Zenon DEF RelayInv

LEMMA CheckNewRoleKeeps ==
  ASSUME OneWorker, RelayInv, NEW w \in RelayWorkers, check_new_role(w) \/ reap_unadopted(w)
  PROVE  RelayInv'
<1>1. /\ thread[w].op = "idle" /\ handoff # <<>> /\ handoff' = Tail(handoff)
      /\ conf' = conf /\ home' = home /\ managerHeld' = managerHeld /\ thread' = thread
      /\ \/ uninit(Head(handoff))
         \/ /\ relay' = [relay EXCEPT ![Head(handoff)].where = w]
            /\ m_map_reconnect_relay' = m_map_reconnect_relay
            /\ m_child_relays' = m_child_relays
  BY Zenon DEF check_new_role, reap_unadopted
<1>2. PICK c : c = Head(handoff)
  OBVIOUS
<1>3. handoff \in Seq(Relays)
  BY Zenon DEF RelayInv, RelayTypes
<1>4. c \in Relays /\ handoff' \in Seq(Relays)
  BY <1>1, <1>2, <1>3
<1>5. CASE uninit(Head(handoff))
  <2>1. uninit(c)
    BY <1>2, <1>5, Zenon
  <2> QED  BY <1>1, <1>4, <2>1, ReapKeeps, Zenon
<1>6. CASE /\ relay' = [relay EXCEPT ![Head(handoff)].where = w]
           /\ m_map_reconnect_relay' = m_map_reconnect_relay
           /\ m_child_relays' = m_child_relays
  <2>1. relay' = [relay EXCEPT ![c].where = w]
    BY <1>2, <1>6, Zenon
  <2> QED  BY <1>1, <1>4, <1>6, <2>1, AdoptKeeps, Zenon
<1> QED  BY <1>1, <1>5, <1>6, Zenon

LEMMA CheckInvalidSockKeeps ==
  ASSUME OneWorker, RelayInv, NEW w \in RelayWorkers, NEW c \in Relays,
         check_invalid_sock(w, c)
  PROVE  RelayInv'
<1>1. /\ thread[w].op = "idle" /\ uninit(c) /\ handoff' = handoff
      /\ conf' = conf /\ home' = home /\ managerHeld' = managerHeld /\ thread' = thread
  BY Zenon DEF check_invalid_sock
<1>2. handoff \in Seq(Relays)
  BY Zenon DEF RelayInv, RelayTypes
<1>3. handoff' \in Seq(Relays)
  BY <1>1, <1>2, Zenon
<1> QED  BY <1>1, <1>3, ReapKeeps, Zenon

-----------------------------------------------------------------------------
(* Publisher sessions. *)

LEMMA SameRoles ==
  ASSUME OneRole, relay' = relay,
         \A p \in Sessions, u \in Urls :
           m_map_reconnect_relay'[p][u] # Absent => m_map_reconnect_relay[p][u] # Absent
  PROVE  OneRole'
<1>1. \A c \in Relays, p \in Sessions, u \in Urls : Live(c, p, u)' <=> Live(c, p, u)
  BY Zenon DEF Live
<1> QED  BY <1>1, Zenon DEF OneRole

LEMMA PublisherAcceptedKeeps ==
  ASSUME OneWorker, RelayInv, NEW w \in RelayWorkers, NEW p \in Sessions,
         PublisherAccepted(w, p)
  PROVE  RelayInv'
<1>1. /\ thread[w].op = "idle" /\ home[p] = "none" /\ home' = [home EXCEPT ![p] = w]
      /\ conf' = conf /\ managerHeld' = managerHeld /\ handoff' = handoff
      /\ relay' = relay /\ m_child_relays' = m_child_relays
      /\ m_map_reconnect_relay' = m_map_reconnect_relay
      /\ start(w, 0, TRUE, FALSE) \/ thread' = thread
  BY Zenon DEF PublisherAccepted
<1>2. /\ RelayTypes /\ CallInv /\ DOMAIN thread = RelayWorkers
      /\ home \in [Sessions -> RelayWorkers \cup {"none", "leaving", "gone"}]
  BY Zenon DEF RelayInv, RelayTypes
<1>3. 0 \in Managers /\ ~(0 > 0) /\ w # "none" /\ w # "leaving" /\ w # "gone"
  BY RelayAssumption DEF Managers
<1>4. /\ home' \in [Sessions -> RelayWorkers \cup {"none", "leaving", "gone"}]
      /\ home'[p] = w /\ \A q \in Sessions : q # p => home'[q] = home[q]
  BY <1>1, <1>2
<1>5. CallInv' /\ DOMAIN thread' = RelayWorkers
  <2>1. thread' = thread \/ Begins(w, 0)
    BY <1>1, StartBegins, Zenon
  <2> QED  BY <1>1, <1>2, <1>3, <2>1, StaysIdle, BegunOK, Zenon
<1>6. RelayTypes'
  BY <1>1, <1>2, <1>4, <1>5, Zenon DEF RelayTypes
<1>7. RoleInv'
  <2> SUFFICES ASSUME NEW c \in Relays
               PROVE  RoleOK(c)'
    BY Zenon DEF RoleInv
  <2>1. RoleOK(c) /\ (relay[c].maker \in Managers /\ relay[c].maker > 0 => relay[c].maker \in Sessions)
        /\ (relay[c].maker > 0 => relay[c].maker \in Managers)
    BY RelayAssumption DEF RelayInv, RoleInv, RoleOK, Managers, Sessions, NoManager
  <2>2. relay[c].maker > 0 /\ home[relay[c].maker] \in RelayWorkers =>
          home'[relay[c].maker] \in RelayWorkers
    BY <1>4, <2>1
  <2> QED  BY <1>1, <2>1, <2>2, Zenon DEF RoleOK, Up
<1>8. OneRole'
  BY <1>1, SameRoles, Zenon DEF RelayInv
<1>9. SessionInv'
  <2> SUFFICES ASSUME NEW q \in Sessions
               PROVE  SessionOK(q)'
    BY Zenon DEF SessionInv
  <2>1. SessionOK(q) /\ home[q] # "leaving"
    <3>1. home[q] \in RelayWorkers \cup {"none", "gone"}
      BY <1>1, NobodyLeaving, Zenon DEF RelayInv
    <3> QED  BY <3>1, RelayAssumption DEF RelayInv, SessionInv
  <2>2. home'[q] # "leaving"
    BY <1>3, <1>4, <2>1, Zenon
  <2>3. managerHeld'[q] => conf'.dynamic /\ home'[q] \notin {"none", "gone"}
    BY <1>1, <1>3, <1>4, <2>1 DEF SessionOK
  <2>4. ~managerHeld'[q] /\ home'[q] \notin {"leaving", "gone"} =>
          ~managerHeld[q] /\ home[q] \notin {"leaving", "gone"}
    BY <1>1, <1>4, <2>1
  <2> QED  BY <1>1, <2>1, <2>2, <2>3, <2>4, Zenon DEF SessionOK
<1> QED  BY <1>5, <1>6, <1>7, <1>8, <1>9, Zenon DEF RelayInv

LEMMA SpawnKeeps ==
  ASSUME OneWorker, RelayInv, NEW w \in RelayWorkers, NEW p \in Sessions,
         try_spawn_dynamic_pusher(w, p)
  PROVE  RelayInv'
<1>1. /\ thread[w].op = "idle" /\ home[p] = w /\ conf.dynamic /\ ~managerHeld[p]
      /\ managerHeld' = [managerHeld EXCEPT ![p] = TRUE]
      /\ conf' = conf /\ home' = home /\ handoff' = handoff
      /\ relay' = relay /\ m_child_relays' = m_child_relays
      /\ m_map_reconnect_relay' = m_map_reconnect_relay
      /\ start(w, p, TRUE, FALSE)
  BY Zenon DEF try_spawn_dynamic_pusher
<1>2. /\ RelayTypes /\ CallInv /\ DOMAIN thread = RelayWorkers
      /\ managerHeld \in [Managers -> BOOLEAN] /\ conf.type = "push" /\ conf.mode = "all"
  BY <1>1, Zenon DEF RelayInv, RelayTypes
<1>3. p \in Managers /\ w # "none" /\ w # "leaving" /\ w # "gone"
  BY RelayAssumption DEF Managers, Sessions
<1>4. /\ managerHeld' \in [Managers -> BOOLEAN]
      /\ managerHeld'[p] /\ \A q \in Managers : q # p => managerHeld'[q] = managerHeld[q]
  BY <1>1, <1>2, <1>3
<1>5. /\ \A u \in Urls : m_map_reconnect_relay[p][u] = Absent
      /\ \A c \in Relays : relay[c].manager # p
  <2>1. SessionOK(p)
    BY Zenon DEF RelayInv, SessionInv
  <2> QED  BY <1>1, <1>3, <2>1 DEF SessionOK
<1>6. Distinct(Upstreams) => Ahead(p, Upstreams)'
  <2>1. Upstreams \in Seq(Urls)
    BY RelayAssumption
  <2>2. \A i \in 1..Len(Upstreams) : Upstreams[i] \in Urls
    BY <2>1
  <2>3. \A i \in 1..Len(Upstreams) : /\ m_map_reconnect_relay'[p][Upstreams[i]] = Absent
                                     /\ \A c \in Relays : ~Live(c, p, Upstreams[i])'
    BY <1>1, <1>5, <2>2, Zenon DEF Live
  <2> QED  BY <2>1, <2>3, Zenon DEF Ahead
<1>7. CallInv' /\ DOMAIN thread' = RelayWorkers
  <2>1. thread' = thread \/ Begins(w, p)
    BY <1>1, StartBegins, Zenon
  <2> QED  BY <1>1, <1>2, <1>3, <1>4, <1>6, <2>1, StaysIdle, BegunOK, Zenon
<1>8. RelayTypes'
  BY <1>1, <1>2, <1>4, <1>7, Zenon DEF RelayTypes
<1>9. RoleInv'
  BY <1>1, Zenon DEF RelayInv, RoleInv, RoleOK, Up
<1>10. OneRole'
  BY <1>1, SameRoles, Zenon DEF RelayInv
<1>11. SessionInv'
  <2> SUFFICES ASSUME NEW q \in Sessions
               PROVE  SessionOK(q)'
    BY Zenon DEF SessionInv
  <2>1. SessionOK(q) /\ home[q] # "leaving" /\ q \in Managers
    <3>1. home[q] \in RelayWorkers \cup {"none", "gone"}
      BY <1>1, NobodyLeaving, Zenon DEF RelayInv
    <3> QED  BY <3>1, RelayAssumption DEF RelayInv, SessionInv, Sessions, Managers
  <2>2. home'[q] # "leaving"
    BY <1>1, <2>1, Zenon
  <2>3. managerHeld'[q] => conf'.dynamic /\ home'[q] \notin {"none", "gone"}
    BY <1>1, <1>3, <1>4, <2>1 DEF SessionOK
  <2>4. ~managerHeld'[q] => ~managerHeld[q]
    BY <1>4, <2>1, Zenon
  <2> QED  BY <1>1, <2>1, <2>2, <2>3, <2>4, Zenon DEF SessionOK
<1> QED  BY <1>7, <1>8, <1>9, <1>10, <1>11, Zenon DEF RelayInv

LEMMA DetachKeeps ==
  ASSUME OneWorker, RelayInv, NEW w \in RelayWorkers, NEW p \in Sessions, DetachChildren(w, p)
  PROVE  RelayInv'
<1>1. /\ thread[w].op = "idle" /\ home[p] = w /\ relay' = Detached(p)
      /\ m_child_relays' = [m_child_relays EXCEPT ![p] = {}]
      /\ home' = [home EXCEPT ![p] = "leaving"]
      /\ Step(w, [Working EXCEPT !.op = "detached", !.manager = p])
      /\ conf' = conf /\ managerHeld' = managerHeld /\ handoff' = handoff
      /\ m_map_reconnect_relay' = m_map_reconnect_relay
  BY Zenon DEF DetachChildren
<1>2. /\ RelayTypes /\ DOMAIN thread = RelayWorkers /\ DOMAIN relay = Relays
      /\ home \in [Sessions -> RelayWorkers \cup {"none", "leaving", "gone"}]
      /\ m_child_relays \in [Managers -> SUBSET Relays]
  BY Zenon DEF RelayInv, RelayTypes
<1>3. p \in Managers /\ w # "none" /\ w # "leaving" /\ w # "gone"
  BY RelayAssumption DEF Managers, Sessions
<1>4. /\ home' \in [Sessions -> RelayWorkers \cup {"none", "leaving", "gone"}]
      /\ home'[p] = "leaving" /\ \A q \in Sessions : q # p => home'[q] = home[q]
  BY <1>1, <1>2
<1>5. /\ m_child_relays' \in [Managers -> SUBSET Relays]
      /\ \A q \in Managers : q # p => m_child_relays'[q] = m_child_relays[q]
  BY <1>1, <1>2
<1>6. /\ DOMAIN relay' = Relays
      /\ \A c \in Relays : c \in m_child_relays[p] =>
           relay'[c] = [relay[c] EXCEPT !.manager = NoManager, !.kicked = TRUE]
      /\ \A c \in Relays : c \notin m_child_relays[p] => relay'[c] = relay[c]
  BY <1>1 DEF Detached
<1>7. PICK t : t = [Working EXCEPT !.op = "detached", !.manager = p]
  OBVIOUS
<1>8. IsCall(t) /\ t.op = "detached" /\ t.manager = p /\ t.due = {}
  BY <1>7, IdleCall DEF IsCall
<1>9. CallOK(t)'
  BY <1>4, <1>8 DEF CallOK, Leaving, Connecting
<1>10. CallInv' /\ DOMAIN thread' = RelayWorkers /\ thread'[w] = t
  <2>1. Step(w, t)
    BY <1>1, <1>7, Zenon
  <2>2. thread'[w] = t
    BY <1>2, <2>1 DEF Step
  <2> QED  BY <1>2, <1>9, <2>1, <2>2, CallBegins, Zenon
<1>11. RelayTypes'
  BY <1>1, <1>2, <1>4, <1>5, <1>6, <1>10, Zenon DEF RelayTypes
<1>12. ASSUME NEW c \in Relays
       PROVE  /\ IsRole(relay'[c]) /\ relay'[c].where = relay[c].where
              /\ relay'[c].maker = relay[c].maker /\ relay'[c].url = relay[c].url
              /\ relay'[c].sock = relay[c].sock
              /\ relay'[c].manager = relay[c].manager \/ relay'[c].manager = NoManager
              /\ Up(c)' => Up(c) /\ c \notin m_child_relays[p]
  <2>1. RoleOK(c)
    BY Zenon DEF RelayInv, RoleInv
  <2>2. PICK r : r = relay[c]
    OBVIOUS
  <2>3. PICK s : s = relay'[c]
    OBVIOUS
  <2>4. CASE c \in m_child_relays[p]
    <3>1. s = [r EXCEPT !.manager = NoManager, !.kicked = TRUE] /\ IsRole(r)
      BY <1>6, <2>1, <2>2, <2>3, <2>4, Zenon DEF RoleOK
    <3>2. /\ IsRole(s) /\ s.where = r.where /\ s.manager = NoManager /\ s.maker = r.maker
          /\ s.url = r.url /\ s.sock = r.sock /\ s.kicked = TRUE
      BY <3>1 DEF IsRole
    <3>3. ~Up(c)'
      BY <2>3, <3>2, Zenon DEF Up
    <3> QED  BY <2>2, <2>3, <3>2, <3>3, Zenon
  <2>5. CASE c \notin m_child_relays[p]
    BY <1>6, <2>1, <2>5, Zenon DEF Up, RoleOK
  <2> QED  BY <2>4, <2>5
<1>13. RoleInv'
  <2> SUFFICES ASSUME NEW c \in Relays
               PROVE  RoleOK(c)'
    BY Zenon DEF RoleInv
  <2>1. /\ RoleOK(c) /\ (relay[c].maker > 0 => relay[c].maker \in Managers)
        /\ (relay[c].maker > 0 => relay[c].maker \in Sessions)
    BY RelayAssumption DEF RelayInv, RoleInv, RoleOK, Managers, Sessions, NoManager
  <2>2. Up(c)' /\ relay[c].maker > 0 => relay[c].maker # p
    BY <1>12, <2>1, Zenon DEF RoleOK
  <2>3. Up(c)' /\ relay[c].maker > 0 => /\ home'[relay[c].maker] \in RelayWorkers
                                        /\ c \in m_child_relays'[relay[c].maker]
    BY <1>4, <1>5, <1>12, <2>1, <2>2, Zenon DEF RoleOK
  <2> QED  BY <1>12, <2>1, <2>3, Zenon DEF RoleOK
<1>14. OneRole'
  <2>1. \A c \in Relays, q \in Sessions, u \in Urls : Live(c, q, u)' => Live(c, q, u)
    <3>1. \A q \in Sessions : q # NoManager
      BY DEF Sessions, NoManager
    <3> QED  BY <1>12, <3>1, Zenon DEF Live
  <2> QED  BY <1>1, <2>1, Zenon DEF OneRole, RelayInv
<1>15. SessionInv'
  <2> SUFFICES ASSUME NEW q \in Sessions
               PROVE  SessionOK(q)'
    BY Zenon DEF SessionInv
  <2>1. SessionOK(q) /\ home[q] # "leaving"
    <3>1. home[q] \in RelayWorkers \cup {"none", "gone"}
      BY <1>1, NobodyLeaving, Zenon DEF RelayInv
    <3> QED  BY <3>1, RelayAssumption DEF RelayInv, SessionInv
  <2>2. home'[q] = "leaving" => \E v \in RelayWorkers : thread'[v].op \in Leaving /\ thread'[v].manager = q
    BY <1>4, <1>8, <1>10, <2>1 DEF Leaving
  <2>3. managerHeld'[q] => conf'.dynamic /\ home'[q] \notin {"none", "gone"}
    BY <1>1, <1>3, <1>4, <2>1 DEF SessionOK
  <2>4. ~managerHeld'[q] /\ home'[q] \notin {"leaving", "gone"} =>
          ~managerHeld[q] /\ home[q] \notin {"leaving", "gone"}
    BY <1>1, <1>4, <2>1
  <2>5. \A c \in Relays : relay'[c].manager = q => relay[c].manager = q
    <3>1. q # NoManager
      BY DEF Sessions, NoManager
    <3> QED  BY <1>12, <3>1, Zenon
  <2> QED  BY <1>1, <2>1, <2>2, <2>3, <2>4, <2>5, Zenon DEF SessionOK
<1> QED  BY <1>10, <1>11, <1>13, <1>14, <1>15, Zenon DEF RelayInv

LEMMA LeaveMapsKeeps ==
  ASSUME OneWorker, RelayInv, NEW w \in RelayWorkers, LeaveMaps(w)
  PROVE  RelayInv'
<1>1. PICK t : t = thread[w]
  OBVIOUS
<1>2. PICK s : s = [t EXCEPT !.op = "unmapped"]
  OBVIOUS
<1>3. /\ t.op = "detached" /\ Step(w, s)
      /\ conf' = conf /\ home' = home /\ managerHeld' = managerHeld /\ handoff' = handoff
      /\ relay' = relay /\ m_child_relays' = m_child_relays
      /\ m_map_reconnect_relay' = m_map_reconnect_relay
  BY <1>1, <1>2, Zenon DEF LeaveMaps
<1>4. RelayTypes /\ CallOK(t) /\ DOMAIN thread = RelayWorkers
  BY <1>1, Zenon DEF RelayInv, RelayTypes, CallInv
<1>5. IsCall(s) /\ s.op = "unmapped" /\ s.manager = t.manager /\ s.due = t.due
  BY <1>2, <1>4 DEF IsCall, CallOK
<1>6. CallOK(s)'
  BY <1>3, <1>4, <1>5 DEF CallOK, Leaving, Connecting
<1>7. CallInv' /\ DOMAIN thread' = RelayWorkers /\ thread'[w] = s
  <2>1. thread'[w] = s
    BY <1>3, <1>4 DEF Step
  <2> QED  BY <1>3, <1>4, <1>6, <2>1, CallBegins, Zenon
<1>8. RelayTypes'
  BY <1>3, <1>4, <1>7, Zenon DEF RelayTypes
<1>9. RoleInv'
  BY <1>3, Zenon DEF RelayInv, RoleInv, RoleOK, Up
<1>10. OneRole'
  BY <1>3, SameRoles, Zenon DEF RelayInv
<1>11. SessionInv'
  <2> SUFFICES ASSUME NEW p \in Sessions
               PROVE  SessionOK(p)'
    BY Zenon DEF SessionInv
  <2>1. SessionOK(p)
    BY Zenon DEF RelayInv, SessionInv
  <2>2. home[p] = "leaving" => t.manager = p
    BY <1>1, <2>1, Zenon DEF SessionOK, OneWorker
  <2>3. home'[p] = "leaving" => thread'[w].op \in Leaving /\ thread'[w].manager = p
    BY <1>3, <1>5, <1>7, <2>2 DEF Leaving
  <2> QED  BY <1>3, <2>1, <2>3, Zenon DEF SessionOK
<1> QED  BY <1>7, <1>8, <1>9, <1>10, <1>11, Zenon DEF RelayInv

LEMMA DropManagerKeeps ==
  ASSUME OneWorker, RelayInv, NEW w \in RelayWorkers, DropManager(w)
  PROVE  RelayInv'
<1>1. PICK t : t = thread[w]
  OBVIOUS
<1>2. PICK p : p = t.manager
  OBVIOUS
<1>3. /\ t.op = "unmapped" /\ Step(w, Working)
      /\ managerHeld' = [managerHeld EXCEPT ![p] = FALSE]
      /\ home' = [home EXCEPT ![p] = "gone"]
      /\ conf' = conf /\ handoff' = handoff
      /\ relay' = relay /\ m_child_relays' = m_child_relays
      /\ m_map_reconnect_relay' = m_map_reconnect_relay
  BY <1>1, <1>2, Zenon DEF DropManager
<1>4. /\ RelayTypes /\ CallOK(t) /\ managerHeld \in [Managers -> BOOLEAN]
      /\ home \in [Sessions -> RelayWorkers \cup {"none", "leaving", "gone"}]
  BY <1>1, Zenon DEF RelayInv, RelayTypes, CallInv
<1>5. p \in Sessions /\ p \in Managers /\ home[p] = "leaving"
  BY <1>2, <1>3, <1>4 DEF CallOK, Leaving, Sessions, Managers
<1>6. /\ home' \in [Sessions -> RelayWorkers \cup {"none", "leaving", "gone"}]
      /\ home'[p] = "gone" /\ \A q \in Sessions : q # p => home'[q] = home[q]
      /\ managerHeld' \in [Managers -> BOOLEAN]
      /\ ~managerHeld'[p] /\ \A q \in Managers : q # p => managerHeld'[q] = managerHeld[q]
  BY <1>3, <1>4, <1>5
<1>7. CallInv' /\ DOMAIN thread' = RelayWorkers
  BY <1>3, <1>4, CallEnds, Zenon
<1>8. RelayTypes'
  BY <1>3, <1>4, <1>6, <1>7, Zenon DEF RelayTypes
<1>9. RoleInv'
  <2> SUFFICES ASSUME NEW c \in Relays
               PROVE  RoleOK(c)'
    BY Zenon DEF RoleInv
  <2>1. RoleOK(c) /\ (relay[c].maker > 0 => relay[c].maker \in Sessions)
    BY RelayAssumption DEF RelayInv, RoleInv, RoleOK, Managers, Sessions, NoManager
  <2>2. "leaving" \notin RelayWorkers
    BY RelayAssumption
  <2>3. Up(c) /\ relay[c].maker > 0 => relay[c].maker # p
    BY <1>5, <2>1, <2>2, Zenon DEF RoleOK
  <2>4. Up(c)' <=> Up(c)
    BY <1>3, Zenon DEF Up
  <2>5. Up(c) /\ relay[c].maker > 0 => home'[relay[c].maker] \in RelayWorkers
    BY <1>6, <2>1, <2>3, Zenon DEF RoleOK
  <2> QED  BY <1>3, <2>1, <2>4, <2>5, Zenon DEF RoleOK
<1>10. OneRole'
  BY <1>3, SameRoles, Zenon DEF RelayInv
<1>11. SessionInv'
  <2> SUFFICES ASSUME NEW q \in Sessions
               PROVE  SessionOK(q)'
    BY Zenon DEF SessionInv
  <2>1. SessionOK(q) /\ q \in Managers
    BY DEF RelayInv, SessionInv, Sessions, Managers
  <2>2. home'[q] # "leaving"
    <3>1. home[q] = "leaving" => q = p
      BY <1>1, <1>2, <2>1, Zenon DEF SessionOK, OneWorker
    <3> QED  BY <1>6, <3>1
  <2>3. CASE q = p
    BY <1>6, <2>2, <2>3 DEF SessionOK
  <2>4. CASE q # p
    <3>1. home'[q] = home[q] /\ managerHeld'[q] = managerHeld[q]
      BY <1>6, <2>1, <2>4, Zenon
    <3> QED  BY <1>3, <2>1, <2>2, <3>1, Zenon DEF SessionOK
  <2> QED  BY <2>3, <2>4
<1> QED  BY <1>7, <1>8, <1>9, <1>10, <1>11, Zenon DEF RelayInv

-----------------------------------------------------------------------------
(* The environment. *)

LEMMA SockChangesKeeps ==
  ASSUME RelayInv, NEW c \in Relays, SockChanges(c)
  PROVE  RelayInv'
<1>1. PICK x : relay' = [relay EXCEPT ![c].sock = x]
  BY Zenon DEF SockChanges
<1>2. /\ relay[c].where # "none" /\ relay[c].sock # "broken"
      /\ conf' = conf /\ home' = home /\ managerHeld' = managerHeld /\ handoff' = handoff
      /\ m_child_relays' = m_child_relays /\ thread' = thread
      /\ m_map_reconnect_relay' = m_map_reconnect_relay
  BY Zenon DEF SockChanges
<1>3. DOMAIN relay = Relays /\ RoleOK(c)
  BY Zenon DEF RelayInv, RelayTypes, RoleInv
<1>4. PICK r : r = relay[c]
  OBVIOUS
<1>5. PICK s : s = [r EXCEPT !.sock = x]
  OBVIOUS
<1>6. DOMAIN relay' = Relays /\ relay'[c] = s /\ \A d \in Relays \ {c} : relay'[d] = relay[d]
  BY <1>1, <1>3, <1>4, <1>5
<1>7. /\ IsRole(s) /\ s.where = r.where /\ s.manager = r.manager /\ s.maker = r.maker
      /\ s.url = r.url /\ s.kicked = r.kicked
  BY <1>3, <1>4, <1>5 DEF RoleOK, IsRole
<1>8. ASSUME NEW d \in Relays
      PROVE  /\ relay'[d].where = relay[d].where /\ relay'[d].manager = relay[d].manager
             /\ relay'[d].url = relay[d].url
  BY <1>4, <1>6, <1>7
<1>9. \A d \in Relays : \A m, u : Live(d, m, u)' <=> Live(d, m, u)
  BY <1>8, Zenon DEF Live
<1>10. RoleInv'
  <2> SUFFICES ASSUME NEW d \in Relays
               PROVE  RoleOK(d)'
    BY Zenon DEF RoleInv
  <2>1. CASE d = c
    <3>1. Up(c)' => Up(c)
      BY <1>2, <1>4, <1>6, <1>7, Zenon DEF Up
    <3> QED  BY <1>2, <1>3, <1>4, <1>6, <1>7, <2>1, <3>1 DEF RoleOK
  <2>2. CASE d # c
    <3>1. RoleOK(d) /\ relay'[d] = relay[d]
      BY <1>6, <2>2 DEF RelayInv, RoleInv
    <3> QED  BY <1>2, <3>1, Zenon DEF RoleOK, Up
  <2> QED  BY <2>1, <2>2
<1>11. OneRole'
  BY <1>2, <1>9, Zenon DEF OneRole, RelayInv
<1>12. SessionInv'
  <2> SUFFICES ASSUME NEW p \in Sessions
               PROVE  SessionOK(p)'
    BY Zenon DEF SessionInv
  <2>1. SessionOK(p) /\ \A d \in Relays : relay'[d].manager = relay[d].manager
    BY <1>8, Zenon DEF RelayInv, SessionInv
  <2>2. (\A d \in Relays : relay[d].manager # p) => \A d \in Relays : relay'[d].manager # p
    BY <2>1, Zenon
  <2> QED  BY <1>2, <2>1, <2>2, Zenon DEF SessionOK
<1>13. \A m, l : Ahead(m, l)' <=> Ahead(m, l)
  BY <1>2, <1>9, Zenon DEF Ahead
<1>14. CallInv'
  BY <1>2, <1>13, Zenon DEF CallInv, CallOK, RelayInv
<1>15. RelayTypes'
  BY <1>2, <1>6, Zenon DEF RelayInv, RelayTypes
<1> QED  BY <1>10, <1>11, <1>12, <1>14, <1>15, Zenon DEF RelayInv

LEMMA UpstreamFailsKeeps ==
  ASSUME RelayInv, NEW u \in Urls, UpstreamFails(u)
  PROVE  RelayInv'
<1>1. /\ conf' = [conf EXCEPT !.down = {u}]
      /\ home' = home /\ managerHeld' = managerHeld /\ handoff' = handoff /\ relay' = relay
      /\ m_child_relays' = m_child_relays /\ thread' = thread
      /\ m_map_reconnect_relay' = m_map_reconnect_relay
  BY Zenon DEF UpstreamFails
<1>2. conf \in [type : {"push", "pull"}, mode : {"loop", "all", "hash"},
                dynamic : BOOLEAN, down : SUBSET Urls, toolong : SUBSET Urls]
  BY Zenon DEF RelayInv, RelayTypes
<1>3. /\ conf' \in [type : {"push", "pull"}, mode : {"loop", "all", "hash"},
                    dynamic : BOOLEAN, down : SUBSET Urls, toolong : SUBSET Urls]
      /\ conf'.dynamic = conf.dynamic /\ conf'.type = conf.type /\ conf'.mode = conf.mode
  BY <1>1, <1>2
<1>4. RelayTypes'
  BY <1>1, <1>3, Zenon DEF RelayInv, RelayTypes
<1>5. RoleInv'
  BY <1>1, Zenon DEF RelayInv, RoleInv, RoleOK, Up
<1>6. OneRole'
  BY <1>1, SameRoles, Zenon DEF RelayInv
<1>7. SessionInv'
  BY <1>1, <1>3, Zenon DEF SessionInv, SessionOK, RelayInv
<1>8. \A m, l : Ahead(m, l)' <=> Ahead(m, l)
  BY <1>1, Zenon DEF Ahead, Live
<1>9. CallInv'
  BY <1>1, <1>8, Zenon DEF CallInv, CallOK, RelayInv
<1> QED  BY <1>4, <1>5, <1>6, <1>7, <1>9, Zenon DEF RelayInv

LEMMA ClearMapKeeps ==
  ASSUME RelayInv, ClearMap
  PROVE  RelayInv'
<1>1. /\ managerHeld' = [managerHeld EXCEPT ![0] = FALSE]
      /\ conf' = conf /\ home' = home /\ handoff' = handoff /\ relay' = relay
      /\ m_child_relays' = m_child_relays /\ thread' = thread
      /\ m_map_reconnect_relay' = m_map_reconnect_relay
  BY Zenon DEF ClearMap
<1>2. managerHeld \in [Managers -> BOOLEAN]
  BY Zenon DEF RelayInv, RelayTypes
<1>3. /\ managerHeld' \in [Managers -> BOOLEAN]
      /\ \A p \in Sessions : managerHeld'[p] = managerHeld[p]
      /\ \A p \in Managers : p > 0 => managerHeld'[p] = managerHeld[p]
  <2>1. \A p \in Sessions : p \in Managers /\ p # 0
    BY DEF Sessions, Managers
  <2>2. \A p \in Managers : p > 0 => p # 0
    BY DEF Managers
  <2>3. \A p \in Managers : p # 0 => managerHeld'[p] = managerHeld[p]
    BY <1>1, <1>2, Zenon
  <2>4. managerHeld' \in [Managers -> BOOLEAN]
    BY <1>1, <1>2
  <2> QED  BY <2>1, <2>2, <2>3, <2>4, Zenon
<1>4. RelayTypes'
  BY <1>1, <1>3, Zenon DEF RelayInv, RelayTypes
<1>5. RoleInv'
  BY <1>1, Zenon DEF RelayInv, RoleInv, RoleOK, Up
<1>6. OneRole'
  BY <1>1, SameRoles, Zenon DEF RelayInv
<1>7. SessionInv'
  BY <1>1, <1>3, Zenon DEF SessionInv, SessionOK, RelayInv
<1>8. \A m, l : Ahead(m, l)' <=> Ahead(m, l)
  BY <1>1, Zenon DEF Ahead, Live
<1>9. CallInv'
  BY <1>1, <1>3, <1>8, Zenon DEF CallInv, CallOK, RelayInv
<1> QED  BY <1>4, <1>5, <1>6, <1>7, <1>9, Zenon DEF RelayInv

LEMMA RelayTickKeeps ==
  ASSUME RelayInv, RelayTick
  PROVE  RelayInv'
<1>1. /\ m_map_reconnect_relay' =
           [m \in Managers |-> [u \in Urls |-> Older(m_map_reconnect_relay[m][u])]]
      /\ conf' = conf /\ home' = home /\ handoff' = handoff /\ relay' = relay
      /\ m_child_relays' = m_child_relays /\ thread' = thread /\ managerHeld' = managerHeld
  BY Zenon DEF RelayTick
<1>2. m_map_reconnect_relay \in [Managers -> [Urls -> Nat \cup {Absent}]]
  BY Zenon DEF RelayInv, RelayTypes
<1>3. \A age \in Nat \cup {Absent} : /\ Older(age) \in Nat \cup {Absent}
                                     /\ Older(age) = Absent <=> age = Absent
  BY DEF Older, Absent
<1>4. /\ m_map_reconnect_relay' \in [Managers -> [Urls -> Nat \cup {Absent}]]
      /\ \A m \in Managers, u \in Urls :
           m_map_reconnect_relay'[m][u] = Absent <=> m_map_reconnect_relay[m][u] = Absent
  BY <1>1, <1>2, <1>3
<1>5. \A p \in Sessions : p \in Managers
  BY DEF Sessions, Managers
<1>6. RelayTypes'
  BY <1>1, <1>4, Zenon DEF RelayInv, RelayTypes
<1>7. RoleInv'
  BY <1>1, Zenon DEF RelayInv, RoleInv, RoleOK, Up
<1>8. OneRole'
  BY <1>1, <1>4, <1>5, SameRoles, Zenon DEF RelayInv
<1>9. SessionInv'
  BY <1>1, <1>4, <1>5, ZenonT(40) DEF SessionInv, SessionOK, RelayInv
<1>10. ASSUME NEW m \in Managers, NEW l, Ahead(m, l)
       PROVE  Ahead(m, l)'
  <2>1. l \in Seq(Urls) /\ Distinct(l)
    BY <1>10, Zenon DEF Ahead
  <2>2. \A i \in 1..Len(l) : l[i] \in Urls
    BY <2>1
  <2>3. \A i \in 1..Len(l) : /\ m_map_reconnect_relay'[m][l[i]] = Absent
                             /\ \A c \in Relays : ~Live(c, m, l[i])'
    BY <1>1, <1>4, <1>10, <2>2, Zenon DEF Ahead, Live
  <2> QED  BY <2>1, <2>3, Zenon DEF Ahead
<1>11. CallInv'
  <2> SUFFICES ASSUME NEW w \in RelayWorkers
               PROVE  CallOK(thread[w])'
    BY Zenon DEF CallInv
  <2>1. PICK t : t = thread[w] /\ t = thread'[w]
    BY <1>1
  <2>2. CallOK(t)
    BY <2>1, Zenon DEF RelayInv, CallInv
  <2>3. t.op = "connect_all" => t.manager \in Managers
    BY <2>2 DEF CallOK, Connecting
  <2>4. CallOK(t)'
    BY <1>1, <1>10, <2>2, <2>3, Zenon DEF CallOK
  <2> QED  BY <2>1, <2>4, Zenon
<1> QED  BY <1>6, <1>7, <1>8, <1>9, <1>11, Zenon DEF RelayInv

-----------------------------------------------------------------------------
LEMMA RelayInitOK ==
  RelayInit => RelayInv
<1> SUFFICES ASSUME RelayInit
             PROVE  RelayInv
  OBVIOUS
<1>1. /\ conf \in RelayConfs /\ home = [p \in Sessions |-> "none"]
      /\ managerHeld = [m \in Managers |-> m = 0 /\ ~conf.dynamic]
      /\ m_map_reconnect_relay = [m \in Managers |-> [u \in Urls |-> Absent]]
      /\ m_child_relays = [m \in Managers |-> {}]
      /\ relay = [c \in Relays |-> NoRelay] /\ handoff = <<>>
      /\ thread = [w \in RelayWorkers |-> Working]
  BY Zenon DEF RelayInit
<1>2. /\ conf \in [type : {"push", "pull"}, mode : {"loop", "all", "hash"},
                   dynamic : BOOLEAN, down : SUBSET Urls, toolong : SUBSET Urls]
      /\ conf.dynamic => conf.type = "push" /\ conf.mode = "all"
  BY <1>1, RelayAssumption, Zenon
<1>3. \A p \in Sessions : p \in Managers /\ p # 0 /\ p # NoManager
  BY DEF Sessions, Managers, NoManager
<1>4. /\ \A p \in Sessions : home[p] = "none" /\ ~managerHeld[p]
      /\ \A c \in Relays : relay[c] = NoRelay
      /\ \A w \in RelayWorkers : thread[w] = Working
  BY <1>1, <1>3, Zenon
<1>5. \A p \in Managers, u \in Urls : m_map_reconnect_relay[p][u] = Absent
  BY <1>1
<1>6. RelayTypes
  <2>1. managerHeld \in [Managers -> BOOLEAN]
    <3>1. \A m \in Managers : (m = 0 /\ ~conf.dynamic) \in BOOLEAN
      OBVIOUS
    <3> QED  BY <1>1, <3>1, Zenon
  <2>2. home \in [Sessions -> RelayWorkers \cup {"none", "leaving", "gone"}]
    BY <1>1
  <2>3. m_map_reconnect_relay \in [Managers -> [Urls -> Nat \cup {Absent}]]
    BY <1>1
  <2>4. m_child_relays \in [Managers -> SUBSET Relays] /\ handoff \in Seq(Relays)
    BY <1>1
  <2>5. DOMAIN relay = Relays /\ DOMAIN thread = RelayWorkers
    BY <1>1, Zenon
  <2> QED  BY <1>2, <2>1, <2>2, <2>3, <2>4, <2>5, Zenon DEF RelayTypes
<1>7. RoleInv
  BY <1>4, FreedSlot DEF RoleInv, RoleOK, Up
<1>8. CallInv
  <2>1. CallOK(Working)
    BY IdleCall DEF CallOK, Leaving, Connecting
  <2> QED  BY <1>4, <2>1, Zenon DEF CallInv
<1>9. SessionInv
  <2> SUFFICES ASSUME NEW p \in Sessions
               PROVE  SessionOK(p)
    BY Zenon DEF SessionInv
  <2>1. ~managerHeld[p] /\ home[p] # "leaving"
    BY <1>4
  <2>2. \A c \in Relays : relay[c].manager # p
    BY <1>3, <1>4, FreedSlot
  <2>3. \A u \in Urls : m_map_reconnect_relay[p][u] = Absent
    BY <1>3, <1>5, Zenon
  <2> QED  BY <2>1, <2>2, <2>3, Zenon DEF SessionOK
<1>10. OneRole
  <2>1. \A p \in Sessions, u \in Urls, c \in Relays : ~Live(c, p, u)
    BY <1>4, FreedSlot DEF Live
  <2> QED  BY <1>3, <1>5, <2>1, Zenon DEF OneRole
<1> QED  BY <1>6, <1>7, <1>8, <1>9, <1>10, Zenon DEF RelayInv

LEMMA RelayNextOK ==
  ASSUME OneWorker, RelayInv, [RelayNext]_relayVars
  PROVE  RelayInv'
<1>1. ASSUME NEW w \in RelayWorkers, Call(w)
      PROVE  RelayInv'
  BY <1>1, ConnectAllKeeps, ConnectOneKeeps, ReconnectKeeps, ReconnectAllKeeps,
     LeaveMapsKeeps, DropManagerKeeps, Zenon DEF Call
<1>2. ASSUME NEW w \in RelayWorkers,
             check_new_role(w) \/ reap_unadopted(w) \/ StartPuller(w)
      PROVE  RelayInv'
  BY <1>2, CheckNewRoleKeeps, StartPullerKeeps, Zenon
<1>3. ASSUME NEW w \in RelayWorkers, NEW m \in Managers, check_reconnect_relay(w, m)
      PROVE  RelayInv'
  BY <1>3, CheckReconnectKeeps, Zenon
<1>4. ASSUME NEW w \in RelayWorkers, NEW c \in Relays, check_invalid_sock(w, c)
      PROVE  RelayInv'
  BY <1>4, CheckInvalidSockKeeps, Zenon
<1>5. ASSUME NEW w \in RelayWorkers, NEW p \in Sessions,
             \/ PublisherAccepted(w, p) \/ try_spawn_dynamic_pusher(w, p)
             \/ DetachChildren(w, p)
      PROVE  RelayInv'
  BY <1>5, PublisherAcceptedKeeps, SpawnKeeps, DetachKeeps, Zenon
<1>6. CASE (\E c \in Relays : SockChanges(c)) \/ (\E u \in Urls : UpstreamFails(u))
  BY <1>6, SockChangesKeeps, UpstreamFailsKeeps, Zenon
<1>7. CASE ClearMap \/ RelayTick
  BY <1>7, ClearMapKeeps, RelayTickKeeps, Zenon
<1>8. CASE UNCHANGED relayVars
  <2>1. /\ conf' = conf /\ home' = home /\ managerHeld' = managerHeld
        /\ m_map_reconnect_relay' = m_map_reconnect_relay /\ relay' = relay
        /\ m_child_relays' = m_child_relays /\ handoff' = handoff /\ thread' = thread
    BY <1>8 DEF relayVars
  <2>2. RelayTypes'
    BY <2>1, Zenon DEF RelayInv, RelayTypes
  <2>3. RoleInv'
    BY <2>1, Zenon DEF RelayInv, RoleInv, RoleOK, Up
  <2>4. SessionInv'
    BY <2>1, Zenon DEF RelayInv, SessionInv, SessionOK
  <2>5. OneRole'
    BY <2>1, SameRoles, Zenon DEF RelayInv
  <2>6. \A m, l : Ahead(m, l)' <=> Ahead(m, l)
    BY <2>1, Zenon DEF Ahead, Live
  <2>7. CallInv'
    BY <2>1, <2>6, Zenon DEF CallInv, CallOK, RelayInv
  <2> QED  BY <2>2, <2>3, <2>4, <2>5, <2>7, Zenon DEF RelayInv
<1> QED  BY <1>1, <1>2, <1>3, <1>4, <1>5, <1>6, <1>7, <1>8, Zenon DEF RelayNext

(* CSLSPublisher::uninit() with one worker thread, any number of           *)
(* upstreams, sessions and roles: when a publisher is gone, no relay of    *)
(* its dynamic pusher is up, and none comes up later.                      *)
THEOREM NoRelayOutlivesItsPublisher ==
  ASSUME OneWorker
  PROVE  RelaySpec => []NoOrphanRelay
<1>1. RelayInv => NoOrphanRelay
  <2>1. "gone" \notin RelayWorkers
    BY RelayAssumption
  <2> QED  BY <2>1, Zenon DEF RelayInv, RoleInv, RoleOK, NoOrphanRelay
<1>2. RelayInit => RelayInv
  BY RelayInitOK
<1>3. RelayInv /\ [RelayNext]_relayVars => RelayInv'
  BY RelayNextOK
<1> QED  BY <1>1, <1>2, <1>3, PTL DEF RelaySpec

(* The reconnect map of a dynamic pusher (connect_all, reconnect_all,      *)
(* add_reconnect_stream), with one worker thread and no upstream listed    *)
(* twice: an upstream never has two relays up, nor one while it waits for  *)
(* a reconnect.                                                            *)
THEOREM UpstreamsAreFedOnce ==
  ASSUME OneWorker, Distinct(Upstreams)
  PROVE  RelaySpec => []OneRelayPerUpstream
<1>1. RelayInv => OneRelayPerUpstream
  <2> SUFFICES ASSUME RelayInv, NEW m \in Sessions, NEW u \in Urls
               PROVE  LET ups == {c \in Relays : Up(c) /\ relay[c].manager = m /\ relay[c].url = u}
                      IN  /\ Cardinality(ups) <= 1
                          /\ m_map_reconnect_relay[m][u] # Absent => ups = {}
    BY Zenon DEF OneRelayPerUpstream
  <2> DEFINE ups == {c \in Relays : Up(c) /\ relay[c].manager = m /\ relay[c].url = u}
  <2>1. \A c \in ups : c \in Relays /\ Live(c, m, u)
    BY DEF Up, Live
  <2>2. /\ \A c, d \in Relays : Live(c, m, u) /\ Live(d, m, u) => c = d
        /\ m_map_reconnect_relay[m][u] # Absent => \A c \in Relays : ~Live(c, m, u)
    BY Zenon DEF RelayInv, OneRole
  <2> HIDE DEF ups
  <2>3. Cardinality(ups) <= 1
    <3>1. CASE ups = {}
      BY <3>1, FS_EmptySet
    <3>2. CASE ups # {}
      <4>1. PICK c : c \in ups
        BY <3>2
      <4>2. ups = {c}
        BY <2>1, <2>2, <4>1
      <4>3. Cardinality({c}) = 1
        BY FS_Singleton
      <4> QED  BY <4>2, <4>3
    <3> QED  BY <3>1, <3>2
  <2>4. m_map_reconnect_relay[m][u] # Absent => ups = {}
    BY <2>1, <2>2
  <2> QED  BY <2>3, <2>4 DEF ups
<1>2. RelayInit => RelayInv
  BY RelayInitOK
<1>3. RelayInv /\ [RelayNext]_relayVars => RelayInv'
  BY RelayNextOK
<1> QED  BY <1>1, <1>2, <1>3, PTL DEF RelaySpec
=============================================================================
