------------------------------- MODULE Relay -------------------------------
(***************************************************************************)
(* The relays of one stream: the manager that owns its upstream URLs       *)
(* (CSLSPusherManager, CSLSPullerManager), the relay roles it opens        *)
(* (CSLSPusher, CSLSPuller), the workers that adopt and reap them, and the *)
(* reconnect queue of each worker.  Manager 0 belongs to the relay map of  *)
(* the configuration; manager p > 0 is the dynamic pusher manager of the   *)
(* publisher session p, created from the URLs its webhook returned.        *)
(*                                                                         *)
(* Worker threads interleave between the locked sections of an operation;  *)
(* thread[w] is what worker w is in the middle of.  Time is the age of a   *)
(* reconnect entry, capped at the interval.  conf.down are the upstreams   *)
(* that never answer, conf.toolong the ones whose URL does not fit once    *)
(* the stream name is filled in; srt_connect may fail for the others too.  *)
(***************************************************************************)
EXTENDS Integers, Sequences, FiniteSets

CONSTANTS
  RelayWorkers,
  Upstreams,          \* m_sri->m_upstreams, a sequence of URLs
  HashIndex,          \* sls_hash_key(stream) % number of upstreams, from 1
  ReconnectInterval,
  RelayConfs,         \* configurations to start from
  MaxSessions,        \* bound: publisher sessions of the stream
  MaxRelays           \* bound: relay roles alive at once

Urls == {Upstreams[i] : i \in 1..Len(Upstreams)}
Managers == 0..MaxSessions
Sessions == 1..MaxSessions
Relays == 1..MaxRelays
Absent == -1
NoManager == -1
NoPublisher == <<"none", 0>>

ASSUME RelayAssumption ==
  /\ Upstreams \in Seq(Urls) /\ Len(Upstreams) >= 1
  /\ HashIndex \in 1..Len(Upstreams)
  /\ ReconnectInterval \in Nat
  /\ RelayConfs \subseteq [type : {"push", "pull"}, mode : {"loop", "all", "hash"},
                           dynamic : BOOLEAN, down : SUBSET Urls, toolong : SUBSET Urls]
  \* try_spawn_dynamic_pusher() makes a pusher to all upstreams
  /\ \A c \in RelayConfs : c.dynamic => c.type = "push" /\ c.mode = "all"
  /\ RelayWorkers \cap {"none", "handoff", "leaving", "gone"} = {}
  /\ MaxSessions \in Nat /\ MaxRelays \in Nat

VARIABLES
  conf,
  registered,                      \* m_map_publisher of the stream's key
  home,                            \* [Sessions -> the worker of the publisher]
  managerHeld,                     \* the owner's shared_ptr to the manager
  m_map_reconnect_relay,           \* [Managers -> [Urls -> age or Absent]]
  m_reconnect_begin_tm,            \* [Managers -> age]
  m_cur_loop_index,                \* of manager 0
  m_child_relays,                  \* [Managers -> subset of Relays]
  relay,                           \* [Relays -> the role]
  handoff,                         \* CSLSRoleList
  m_list_reconnect_relay_manager,  \* [RelayWorkers -> subset of Managers]
  thread

relayVars == <<conf, registered, home, managerHeld, m_map_reconnect_relay,
               m_reconnect_begin_tm, m_cur_loop_index, m_child_relays, relay,
               handoff, m_list_reconnect_relay_manager, thread>>

-----------------------------------------------------------------------------
NoRelay == [where |-> "none", manager |-> NoManager, maker |-> NoManager,
            url |-> Upstreams[1], sock |-> "broken", kicked |-> FALSE]

Working == [op |-> "idle", manager |-> NoManager, todo |-> <<>>,
            no_publisher |-> FALSE, due |-> {}, ret |-> "error", all_ret |-> "ok",
            queued |-> FALSE]

RelayInit ==
  /\ conf \in RelayConfs
  /\ registered = NoPublisher
  /\ home = [p \in Sessions |-> "none"]
  /\ managerHeld = [m \in Managers |-> m = 0 /\ ~conf.dynamic]
  /\ m_map_reconnect_relay = [m \in Managers |-> [u \in Urls |-> Absent]]
  /\ m_reconnect_begin_tm = [m \in Managers |-> ReconnectInterval]
  /\ m_cur_loop_index = -1
  /\ m_child_relays = [m \in Managers |-> {}]
  /\ relay = [c \in Relays |-> NoRelay]
  /\ handoff = <<>>
  /\ m_list_reconnect_relay_manager = [w \in RelayWorkers |-> {}]
  /\ thread = [w \in RelayWorkers |-> Working]

(* A weak_ptr to a manager locks while its owner holds it or while another *)
(* worker has it pinned for a call.                                        *)
Alive(m) ==
  /\ m # NoManager
  /\ managerHeld[m] \/ \E w \in RelayWorkers : thread[w].manager = m

(* reconnect_all() holds m_rwclock over all its connects.                  *)
LockFree(m) ==
  ~ \E w \in RelayWorkers : thread[w].op = "reconnect_all" /\ thread[w].manager = m

Up(c) == relay[c].where # "none" /\ relay[c].sock # "broken" /\ ~relay[c].kicked

Step(w, t) == thread' = [thread EXCEPT ![w] = t]

(* A call that came from the reconnect queue leaves it on SLS_OK only.     *)
Return(w, ret) ==
  /\ Step(w, Working)
  /\ m_list_reconnect_relay_manager' =
       [m_list_reconnect_relay_manager EXCEPT ![w] =
          IF thread[w].queued /\ ret = "ok" THEN @ \ {thread[w].manager} ELSE @]

-----------------------------------------------------------------------------
(* connect(): create the role, open() it and hand it to set_relay_param.   *)
(* An upstream that open() cannot reach, or any srt_connect that fails,    *)
(* leaves nothing behind: the role has no manager yet, so its uninit()     *)
(* queues nothing.                                                         *)
ConnectFails == UNCHANGED <<m_child_relays, relay, handoff, registered>>

open(u) == u \notin conf.down

FreeRelay == CHOOSE c \in Relays : relay[c].where = "none"

(* The role goes to the handoff list; a pusher is noted as a child of its  *)
(* manager, a puller registers as the publisher of the stream and opens    *)
(* nothing if somebody else has.                                           *)
Opened(m, u) ==
  /\ \E c \in Relays : relay[c].where = "none"
  /\ relay' = [relay EXCEPT ![FreeRelay] =
                 [where |-> "handoff", manager |-> m, maker |-> m, url |-> u,
                  sock |-> "connecting", kicked |-> FALSE]]
  /\ handoff' = Append(handoff, FreeRelay)

SetPusherParam(m, u) ==
  /\ Opened(m, u)
  /\ m_child_relays' = [m_child_relays EXCEPT ![m] = @ \cup {FreeRelay}]
  /\ UNCHANGED registered

(* Fails when the stream has a publisher.                                  *)
set_push_2_publisher(role) == registered = NoPublisher /\ registered' = role

SetPullerParam(m, u) ==
  /\ set_push_2_publisher(<<"puller", FreeRelay>>)
  /\ Opened(m, u)
  /\ UNCHANGED m_child_relays

set_relay_param(m, u) ==
  IF conf.type = "push" THEN SetPusherParam(m, u) ELSE SetPullerParam(m, u)

ConnectOK(m, u) == open(u) /\ set_relay_param(m, u)

-----------------------------------------------------------------------------
(* start() of a manager, as the publisher accept, the first packet of a    *)
(* publisher with push URLs, and a player's request call it.               *)
get_hash_url == Upstreams[HashIndex]

(* The rotation starts at the current upstream again, and stops there.     *)
LoopOrder_Same(cur) == <<Upstreams[cur + 1]>>

(* The upstreams in the order connect_loop() tries them: from the one      *)
(* after the current one, round to the current one.                        *)
LoopOrder(cur) ==
  [i \in 1..Len(Upstreams) |-> Upstreams[((cur + i) % Len(Upstreams)) + 1]]

StartPusher(w, call, publisher) ==
  /\ publisher
  /\ CASE conf.mode = "all" -> Step(w, [call EXCEPT !.op = "connect_all", !.todo = Upstreams])
       [] conf.mode = "hash" -> Step(w, [call EXCEPT !.op = "connect_hash", !.todo = <<get_hash_url>>])
       [] OTHER -> UNCHANGED thread
  /\ UNCHANGED m_cur_loop_index

StartPullerManager(w, call, publisher) ==
  LET cur == IF m_cur_loop_index = -1 THEN Len(Upstreams) - 1 ELSE m_cur_loop_index
  IN  /\ ~publisher
      /\ IF conf.mode = "loop"
           THEN /\ Step(w, [call EXCEPT !.op = "connect_loop", !.todo = LoopOrder(cur)])
                /\ m_cur_loop_index' = cur
           ELSE /\ IF conf.mode = "hash"
                     THEN Step(w, [call EXCEPT !.op = "connect_hash", !.todo = <<get_hash_url>>])
                     ELSE UNCHANGED thread
                /\ UNCHANGED m_cur_loop_index

(* A pusher needs a publisher, a puller the absence of one.                *)
start(w, m, publisher, fromQueue) ==
  LET call == [Working EXCEPT !.manager = m, !.queued = fromQueue]
  IN  \/ conf.type = "push" /\ StartPusher(w, call, publisher)
      \/ conf.type = "pull" /\ StartPullerManager(w, call, publisher)
      \/ publisher # (conf.type = "push") /\ UNCHANGED <<thread, m_cur_loop_index>>

connect_all(w) ==
  LET t == thread[w]
      m == t.manager
      u == Head(t.todo)
      next == [t EXCEPT !.todo = Tail(@)]
  IN  /\ t.op = "connect_all"
      /\ IF t.todo = <<>>
           THEN Return(w, "ok") /\ ConnectFails /\ UNCHANGED m_map_reconnect_relay
           ELSE /\ UNCHANGED m_list_reconnect_relay_manager
                /\ Step(w, next)
                /\ \/ u \in conf.toolong /\ ConnectFails /\ UNCHANGED m_map_reconnect_relay
                   \/ /\ u \notin conf.toolong /\ LockFree(m) /\ ConnectFails
                      /\ m_map_reconnect_relay' = [m_map_reconnect_relay EXCEPT ![m][u] = 0]
                   \/ u \notin conf.toolong /\ ConnectOK(m, u) /\ UNCHANGED m_map_reconnect_relay
      /\ UNCHANGED <<conf, home, managerHeld, m_reconnect_begin_tm, m_cur_loop_index>>

connect_hash(w) ==
  LET t == thread[w]
      u == Head(t.todo)
  IN  /\ t.op = "connect_hash"
      /\ \/ ConnectFails /\ Return(w, "error")
         \/ u \notin conf.toolong /\ ConnectOK(t.manager, u) /\ Return(w, "ok")
      /\ UNCHANGED <<conf, home, managerHeld, m_map_reconnect_relay,
                     m_reconnect_begin_tm, m_cur_loop_index>>

(* One upstream of connect_loop(): the loop ends on the first that opens,  *)
(* after the one it started behind, or on one whose URL is too long.       *)
connect_loop(w) ==
  LET t == thread[w]
      u == Head(t.todo)
      index == (CHOOSE i \in 1..Len(Upstreams) : Upstreams[i] = u) - 1
  IN  /\ t.op = "connect_loop"
      /\ \/ /\ u \in conf.toolong /\ ConnectFails
            /\ Return(w, "error") /\ UNCHANGED m_cur_loop_index
         \/ /\ u \notin conf.toolong /\ ConnectOK(t.manager, u)
            /\ Return(w, "ok") /\ m_cur_loop_index' = index
         \/ /\ u \notin conf.toolong /\ ConnectFails
            /\ IF Len(t.todo) = 1
                 THEN Return(w, "error") /\ m_cur_loop_index' = index
                 ELSE /\ Step(w, [t EXCEPT !.todo = Tail(@)])
                      /\ UNCHANGED <<m_cur_loop_index, m_list_reconnect_relay_manager>>
      /\ UNCHANGED <<conf, home, managerHeld, m_map_reconnect_relay, m_reconnect_begin_tm>>

-----------------------------------------------------------------------------
(* check_reconnect_relay() and reconnect().  The publisher is looked up    *)
(* before the lock of the reconnect map is taken.                          *)
Overdue(m, u) == m_map_reconnect_relay[m][u] >= ReconnectInterval

(* reconnect() of a puller, and of a pusher in hash mode: start() again,   *)
(* once per interval.                                                      *)
RestartDue(w, m) ==
  /\ m_reconnect_begin_tm[m] >= ReconnectInterval
  /\ m_reconnect_begin_tm' = [m_reconnect_begin_tm EXCEPT ![m] = 0]
  /\ start(w, m, registered # NoPublisher, TRUE)
  /\ UNCHANGED m_list_reconnect_relay_manager

check_reconnect_relay(w, m) ==
  /\ thread[w].op = "idle" /\ m \in m_list_reconnect_relay_manager[w]
  /\ LET call == [Working EXCEPT !.manager = m, !.queued = TRUE,
                                 !.no_publisher = registered = NoPublisher,
                                 !.due = {u \in Urls : Overdue(m, u)}]
     IN  CASE ~Alive(m) ->
                /\ m_list_reconnect_relay_manager' =
                     [m_list_reconnect_relay_manager EXCEPT ![w] = @ \ {m}]
                /\ UNCHANGED <<m_reconnect_begin_tm, m_cur_loop_index, thread>>
           [] Alive(m) /\ conf.type = "push" /\ conf.mode = "all" ->
                /\ Step(w, [call EXCEPT !.op = "reconnect"])
                /\ UNCHANGED <<m_reconnect_begin_tm, m_cur_loop_index,
                               m_list_reconnect_relay_manager>>
           [] OTHER -> RestartDue(w, m)
  /\ UNCHANGED <<conf, registered, home, managerHeld, m_map_reconnect_relay,
                 m_child_relays, relay, handoff>>

(* The entries are visited in the order of the map.                        *)
Entries(m) == SelectSeq(Upstreams, LAMBDA u : m_map_reconnect_relay[m][u] # Absent)

reconnect(w) ==
  LET t == thread[w]
  IN  /\ t.op = "reconnect" /\ LockFree(t.manager)
      /\ Step(w, [t EXCEPT !.op = "reconnect_all", !.todo = Entries(t.manager)])
      /\ UNCHANGED <<conf, registered, home, managerHeld, m_map_reconnect_relay,
                     m_reconnect_begin_tm, m_cur_loop_index, m_child_relays, relay,
                     handoff, m_list_reconnect_relay_manager>>

Either(a, b) == IF a = "error" \/ b = "error" THEN "error" ELSE "ok"

(* What an entry becomes once its upstream is connected again: erased.     *)
EntryAfterConnect_Kept == 0
EntryAfterConnect == Absent

(* One entry of reconnect_all().  An entry that is skipped adds ret, the   *)
(* result of the previous connect(), to the result of the call.            *)
reconnect_all(w) ==
  LET t == thread[w]
      m == t.manager
      u == Head(t.todo)
      entry(age, ret) ==
        /\ m_map_reconnect_relay' = [m_map_reconnect_relay EXCEPT ![m][u] = age]
        /\ Step(w, [t EXCEPT !.todo = Tail(@), !.ret = ret, !.all_ret = Either(@, ret)])
      due == u \in t.due /\ Overdue(m, u)          \* against the cur_tm_ms of the call
  IN  /\ t.op = "reconnect_all"
      /\ IF t.todo = <<>>
           THEN Return(w, t.all_ret) /\ ConnectFails /\ UNCHANGED m_map_reconnect_relay
           ELSE /\ UNCHANGED m_list_reconnect_relay_manager
                /\ \/ ~due /\ ConnectFails
                      /\ entry(m_map_reconnect_relay[m][u], t.ret)
                   \/ due /\ t.no_publisher /\ ConnectFails /\ entry(0, t.ret)
                   \/ due /\ ~t.no_publisher /\ ConnectFails /\ entry(0, "error")
                   \/ due /\ ~t.no_publisher /\ ConnectOK(m, u)
                      /\ entry(EntryAfterConnect, "ok")
      /\ UNCHANGED <<conf, home, managerHeld, m_reconnect_begin_tm, m_cur_loop_index>>

-----------------------------------------------------------------------------
(* Adoption and teardown of relay roles.  CSLSRelay::uninit() reports the  *)
(* URL to the manager if its weak_ptr still locks; only                    *)
(* check_invalid_sock() also queues the manager at the worker.             *)
add_reconnect_stream(m, u) ==
  IF conf.type = "push" /\ conf.mode = "all"
    THEN /\ LockFree(m)
         /\ m_map_reconnect_relay' = [m_map_reconnect_relay EXCEPT ![m][u] = 0]
         /\ UNCHANGED m_reconnect_begin_tm
    ELSE /\ m_reconnect_begin_tm' = [m_reconnect_begin_tm EXCEPT ![m] = 0]
         /\ UNCHANGED m_map_reconnect_relay

uninit(c) ==
  /\ IF Alive(relay[c].manager)
       THEN add_reconnect_stream(relay[c].manager, relay[c].url)
       ELSE UNCHANGED <<m_map_reconnect_relay, m_reconnect_begin_tm>>
  /\ registered' = IF registered = <<"puller", c>> THEN NoPublisher ELSE registered
  /\ m_child_relays' = [m \in Managers |-> m_child_relays[m] \ {c}]   \* weak_ptrs expire
  /\ relay' = [relay EXCEPT ![c] = NoRelay]

check_new_role(w) ==
  /\ thread[w].op = "idle" /\ handoff # <<>>
  /\ handoff' = Tail(handoff)
  /\ \/ /\ relay' = [relay EXCEPT ![Head(handoff)].where = w]
        /\ UNCHANGED <<registered, m_map_reconnect_relay, m_reconnect_begin_tm,
                       m_child_relays>>
     \/ uninit(Head(handoff))                     \* add_to_epoll fails
  /\ UNCHANGED <<conf, home, managerHeld, m_cur_loop_index,
                 m_list_reconnect_relay_manager, thread>>

(* A full worker leaves the role in the list until the admission deadline. *)
reap_unadopted(w) ==
  /\ thread[w].op = "idle" /\ handoff # <<>>
  /\ handoff' = Tail(handoff)
  /\ uninit(Head(handoff))
  /\ UNCHANGED <<conf, home, managerHeld, m_cur_loop_index,
                 m_list_reconnect_relay_manager, thread>>

check_invalid_sock(w, c) ==
  /\ thread[w].op = "idle" /\ relay[c].where = w /\ ~Up(c)
  /\ m_list_reconnect_relay_manager' =
       [m_list_reconnect_relay_manager EXCEPT ![w] =
          IF Alive(relay[c].manager) THEN @ \cup {relay[c].manager} ELSE @]
  /\ uninit(c)
  /\ UNCHANGED <<conf, home, managerHeld, m_cur_loop_index, handoff, thread>>

(* The asynchronous connect completes; the link breaks, or the role is     *)
(* idle for too long and invalidates itself.                               *)
SockChanges(c) ==
  /\ relay[c].where # "none" /\ relay[c].sock # "broken"
  /\ \E s \in {"connected", "broken"} \ {relay[c].sock} :
       relay' = [relay EXCEPT ![c].sock = s]
  /\ UNCHANGED <<conf, registered, home, managerHeld, m_map_reconnect_relay,
                 m_reconnect_begin_tm, m_cur_loop_index, m_child_relays, handoff,
                 m_list_reconnect_relay_manager, thread>>

-----------------------------------------------------------------------------
(* Publisher sessions.  The accept starts the configured pusher, the first *)
(* packet after the webhook's answer the dynamic one.                      *)
PublisherAccepted(w, p) ==
  /\ thread[w].op = "idle" /\ registered = NoPublisher
  /\ home[p] = "none" /\ \A q \in 1..(p - 1) : home[q] # "none"
  /\ home' = [home EXCEPT ![p] = w]
  /\ registered' = <<"publisher", p>>
  /\ IF managerHeld[0] /\ conf.type = "push"
       THEN start(w, 0, TRUE, FALSE)
       ELSE UNCHANGED <<m_cur_loop_index, thread>>
  /\ UNCHANGED <<conf, managerHeld, m_map_reconnect_relay, m_reconnect_begin_tm,
                 m_child_relays, relay, handoff, m_list_reconnect_relay_manager>>

try_spawn_dynamic_pusher(w, p) ==
  /\ thread[w].op = "idle" /\ home[p] = w /\ registered = <<"publisher", p>>
  /\ conf.dynamic /\ ~managerHeld[p]
  /\ managerHeld' = [managerHeld EXCEPT ![p] = TRUE]
  /\ start(w, p, TRUE, FALSE)
  /\ UNCHANGED <<conf, registered, home, m_map_reconnect_relay, m_reconnect_begin_tm,
                 m_child_relays, relay, handoff, m_list_reconnect_relay_manager>>

(* A player asks for a stream nobody publishes.                            *)
StartPuller(w) ==
  /\ thread[w].op = "idle" /\ managerHeld[0] /\ conf.type = "pull"
  /\ registered = NoPublisher /\ start(w, 0, FALSE, FALSE)
  /\ UNCHANGED <<conf, registered, home, managerHeld, m_map_reconnect_relay,
                 m_reconnect_begin_tm, m_child_relays, relay, handoff,
                 m_list_reconnect_relay_manager>>

(* detach_child_relays() that forgets to ask the children to go.           *)
Detached_NoKick(m) ==
  [c \in Relays |-> IF c \in m_child_relays[m]
                      THEN [relay[c] EXCEPT !.manager = NoManager] ELSE relay[c]]

Detached(m) ==
  [c \in Relays |-> IF c \in m_child_relays[m]
                      THEN [relay[c] EXCEPT !.manager = NoManager, !.kicked = TRUE]
                      ELSE relay[c]]

(* CSLSPublisher::uninit(): detach and kick the children, leave the maps,  *)
(* and only then drop the manager.                                         *)
DetachChildren(w, p) ==
  /\ thread[w].op = "idle" /\ home[p] = w
  /\ relay' = Detached(p)
  /\ m_child_relays' = [m_child_relays EXCEPT ![p] = {}]
  /\ home' = [home EXCEPT ![p] = "leaving"]
  /\ Step(w, [Working EXCEPT !.op = "detached", !.manager = p])
  /\ UNCHANGED <<conf, registered, managerHeld, m_map_reconnect_relay,
                 m_reconnect_begin_tm, m_cur_loop_index, handoff,
                 m_list_reconnect_relay_manager>>

LeaveMaps(w) ==
  /\ thread[w].op = "detached"
  /\ registered' = IF registered = <<"publisher", thread[w].manager>>
                     THEN NoPublisher ELSE registered
  /\ Step(w, [thread[w] EXCEPT !.op = "unmapped"])
  /\ UNCHANGED <<conf, home, managerHeld, m_map_reconnect_relay, m_reconnect_begin_tm,
                 m_cur_loop_index, m_child_relays, relay, handoff,
                 m_list_reconnect_relay_manager>>

DropManager(w) ==
  /\ thread[w].op = "unmapped"
  /\ managerHeld' = [managerHeld EXCEPT ![thread[w].manager] = FALSE]
  /\ home' = [home EXCEPT ![thread[w].manager] = "gone"]
  /\ Step(w, Working)
  /\ UNCHANGED <<conf, registered, m_map_reconnect_relay, m_reconnect_begin_tm,
                 m_cur_loop_index, m_child_relays, relay, handoff,
                 m_list_reconnect_relay_manager>>

(* CSLSMapRelay::clear(), on a reload.                                     *)
ClearMap ==
  /\ managerHeld[0]
  /\ managerHeld' = [managerHeld EXCEPT ![0] = FALSE]
  /\ UNCHANGED <<conf, registered, home, m_map_reconnect_relay, m_reconnect_begin_tm,
                 m_cur_loop_index, m_child_relays, relay, handoff,
                 m_list_reconnect_relay_manager, thread>>

(* An upstream goes down for good.  Where the upstreams are not tried in   *)
(* turn this is no different from its connects failing.                    *)
UpstreamFails(u) ==
  /\ conf.mode = "loop" /\ conf.type = "pull" /\ conf.down = {}
  /\ conf' = [conf EXCEPT !.down = {u}]
  /\ UNCHANGED <<registered, home, managerHeld, m_map_reconnect_relay,
                 m_reconnect_begin_tm, m_cur_loop_index, m_child_relays, relay,
                 handoff, m_list_reconnect_relay_manager, thread>>

Older(age) == IF age = Absent \/ age = ReconnectInterval THEN age ELSE age + 1

RelayTick ==
  /\ m_map_reconnect_relay' =
       [m \in Managers |-> [u \in Urls |-> Older(m_map_reconnect_relay[m][u])]]
  /\ m_reconnect_begin_tm' = [m \in Managers |-> Older(m_reconnect_begin_tm[m])]
  /\ <<m_map_reconnect_relay, m_reconnect_begin_tm>>' #
       <<m_map_reconnect_relay, m_reconnect_begin_tm>>
  /\ UNCHANGED <<conf, registered, home, managerHeld, m_cur_loop_index, m_child_relays,
                 relay, handoff, m_list_reconnect_relay_manager, thread>>

-----------------------------------------------------------------------------
Call(w) ==
  \/ connect_all(w) \/ connect_hash(w) \/ connect_loop(w)
  \/ reconnect(w) \/ reconnect_all(w)
  \/ LeaveMaps(w) \/ DropManager(w)

RelayNext ==
  \/ \E w \in RelayWorkers :
       \/ Call(w)
       \/ check_new_role(w) \/ reap_unadopted(w) \/ StartPuller(w)
       \/ \E m \in Managers : check_reconnect_relay(w, m)
       \/ \E c \in Relays : check_invalid_sock(w, c)
       \/ \E p \in Sessions : \/ PublisherAccepted(w, p)
                              \/ try_spawn_dynamic_pusher(w, p) \/ DetachChildren(w, p)
  \/ \E c \in Relays : SockChanges(c)
  \/ \E u \in Urls : UpstreamFails(u)
  \/ ClearMap
  \/ RelayTick

(* A worker's loop runs its housekeeping again and again, between whatever *)
(* else it does, and time passes; an upstream that is tried often enough   *)
(* is reached unless it is down.                                           *)
RelayFairness ==
  /\ WF_relayVars(RelayTick)
  /\ \A w \in RelayWorkers :
       /\ WF_relayVars(Call(w))
       /\ SF_relayVars(Call(w) /\ handoff' # handoff)
       /\ SF_relayVars(\E m \in Managers : check_reconnect_relay(w, m))
       /\ SF_relayVars(check_new_role(w) \/ \E c \in Relays : check_invalid_sock(w, c))

RelaySpec == RelayInit /\ [][RelayNext]_relayVars /\ RelayFairness

-----------------------------------------------------------------------------
(* An upstream of a dynamic pusher has at most one relay that is up, and   *)
(* none while the upstream waits for a reconnect: a URL is taken from the  *)
(* reconnect map exactly when a new role stands in for the old one, so a   *)
(* receiver is never sent the stream twice.                                *)
OneRelayPerUpstream ==
  conf.dynamic =>
    \A m \in Sessions, u \in Urls :
      LET ups == {c \in Relays : Up(c) /\ relay[c].manager = m /\ relay[c].url = u}
      IN  /\ Cardinality(ups) <= 1
          /\ m_map_reconnect_relay[m][u] # Absent => ups = {}

(* CSLSPublisher::uninit(): once the publisher is gone, no relay of its    *)
(* dynamic pusher goes on pushing under its key: each has been kicked and  *)
(* none is opened afterwards.                                              *)
NoOrphanRelay ==
  \A c \in Relays :
    Up(c) /\ relay[c].maker > 0 => home[relay[c].maker] # "gone"

(* A puller in loop mode that lost its upstream pulls again, although one  *)
(* of its upstreams is down, unless a URL does not fit (the rotation stops *)
(* there), the stream is published or the manager cleared.                 *)
PullerRecovers ==
  (\E w \in RelayWorkers : 0 \in m_list_reconnect_relay_manager[w])
    /\ conf.type = "pull" /\ conf.mode = "loop" /\ conf.toolong = {}
      ~> (registered # NoPublisher \/ ~managerHeld[0])

(* "dynamic pusher start failed for {}, will retry on reconnect": an       *)
(* upstream in the reconnect map of a live publisher is tried again.       *)
RetryHappens ==
  \A u \in Urls :
    (m_map_reconnect_relay[1][u] >= 0 /\ managerHeld[1])
      ~> (m_map_reconnect_relay[1][u] = Absent \/ ~managerHeld[1])

=============================================================================
