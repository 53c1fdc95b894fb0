------------------------------- MODULE Server -------------------------------
(***************************************************************************)
(* The server process: main() of srt-live-server.cpp with its reload and   *)
(* exit paths, the managers it starts and retires (CSLSManager), their     *)
(* worker threads (CSLSGroup on CSLSEpollThread), the handoff list the     *)
(* workers of a manager share, and the configuration generations of        *)
(* conf.cpp.  The HTTP handlers of the control plane are left out.         *)
(*                                                                         *)
(* Managers, configuration generations (the shared_ptrs sls_conf_open()    *)
(* makes) and configuration trees are numbered in the order they are made; *)
(* 0 is NULL.  A manager has one listener; its sessions are counted, not   *)
(* named.  With worker_threads 0 the only group is number 0,  *)
(* and main() itself calls its handler.                                    *)
(***************************************************************************)
EXTENDS Integers, Sequences, FiniteSets, Functions

CONSTANTS
  WorkerThreads,      \* the values of conf_srt->worker_threads to start with
  WorkerConnections,  \* conf_srt->worker_connections
  FileFaults,         \* what may be wrong with the file a reload reads
  MaxManagers,        \* bound: managers ever started
  MaxOpen             \* bound: sessions a manager has open at once

ASSUME ServerAssumption ==
  /\ WorkerThreads \subseteq Nat
  /\ WorkerConnections \in Nat \ {0}
  /\ FileFaults \subseteq {"absent", "first", "later", "bare"}
  /\ MaxManagers \in Nat \ {0} /\ MaxOpen \in Nat

ManagerIds == 1..MaxManagers
Null == 0

VARIABLES
  worker_threads,
  pc,                   \* where main() is
  at,                   \* the manager of reload_manager_list it looks at
  b_exit, b_reload,
  sls_manager,
  reload_manager_list,
  life,                 \* [ManagerIds -> {"none", "running", "retired", "destroyed"}]
  m_conf_generation,    \* [ManagerIds -> the generation, or Null]
  root,                 \* sls_first_conf.child, a tree
  g_current_conf,       \* the current generation
  tree,                 \* Seq: the tree each generation frees with its last holder
  released,             \* trees that have been freed
  bound,                \* managers whose listener has its port
  m_workers,            \* [ManagerIds -> Seq of groups]
  m_list_role,          \* [ManagerIds -> Seq({"listener", "session"})]
  group                 \* [ManagerIds -> [Groups -> the worker]]

confVars == <<m_conf_generation, root, g_current_conf, tree, released>>
managerVars == <<life, bound, m_workers, m_list_role, group>>
mainVars == <<pc, at, b_exit, b_reload, sls_manager, reload_manager_list>>
serverVars == <<worker_threads, mainVars, confVars, managerVars>>

Largest(S) == CHOOSE n \in S : \A k \in S : k <= n
Groups == 0..Largest(WorkerThreads)

(* The groups manager start() makes, in order.                             *)
GroupsOf(n) == IF n = 0 THEN <<0>> ELSE [i \in 1..n |-> i]

Idle == [run |-> "none", m_exit |-> FALSE, m_reload |-> FALSE,
         listener |-> FALSE, sessions |-> 0]

ServerInit ==
  /\ worker_threads \in WorkerThreads
  /\ pc = "start" /\ at = 1
  /\ b_exit = FALSE /\ b_reload = FALSE
  /\ sls_manager = Null /\ reload_manager_list = <<>>
  /\ life = [m \in ManagerIds |-> "none"]
  /\ m_conf_generation = [m \in ManagerIds |-> Null]
  /\ root = 1 /\ g_current_conf = 1 /\ tree = <<1>> /\ released = {}
  /\ bound = {}
  /\ m_workers = [m \in ManagerIds |-> <<>>]
  /\ m_list_role = [m \in ManagerIds |-> <<>>]
  /\ group = [m \in ManagerIds |-> [w \in Groups |-> Idle]]

Running == pc \notin {"done", "crashed"}

-----------------------------------------------------------------------------
(* Configuration generations.  The last holder of a generation frees its   *)
(* tree.                                                                   *)
Held(g, current, holds) == g = current \/ \E m \in ManagerIds : holds[m] = g

DropUnheld(trees, current, holds) ==
  released' = released \cup {trees[g] : g \in {g \in 1..Len(trees) :
                                               ~Held(g, current, holds)}}

(* CSLSManager::start(): the manager takes a reference for its lifetime.   *)
Generation_NotHeld == Null
Generation == g_current_conf

(* sls_conf_open() on a reload publishes what hangs below sls_first_conf   *)
(* as a new generation: the tree just read, or, after a file that closes a *)
(* block before it opens one ("bare": no error), still the old tree.       *)
PublishTree(t) ==
  /\ tree' = Append(tree, t) /\ root' = t
  /\ g_current_conf' = Len(tree) + 1
  /\ DropUnheld(tree', g_current_conf', m_conf_generation)

NewTree == Len(tree) + 1

(* sls_conf_open() on a failure releases what hangs below sls_first_conf   *)
(* as "the partial tree this failed parse just built"; when the parse      *)
(* failed before its first block, that is still the old tree.  A file that *)
(* is "absent" is not parsed at all.                                       *)
DiscardTree(t) ==
  /\ root' = Null /\ released' = released \cup {t}
  /\ UNCHANGED <<tree, g_current_conf>>

(* The reload goes on to sls_reload_pid(), which may fail too; every       *)
(* failure ends the process.                                               *)
sls_conf_open ==
  /\ pc = "conf"
  /\ \/ PublishTree(NewTree) /\ pc' \in {"start", "stop"}
     \/ "bare" \in FileFaults /\ PublishTree(root) /\ pc' \in {"start", "stop"}
     \/ "later" \in FileFaults /\ DiscardTree(NewTree) /\ pc' = "stop"
     \/ "first" \in FileFaults /\ DiscardTree(root) /\ pc' = "stop"
     \/ /\ "absent" \in FileFaults /\ pc' = "stop"
        /\ UNCHANGED <<root, g_current_conf, tree, released>>
  /\ UNCHANGED <<worker_threads, at, b_exit, b_reload, sls_manager,
                 reload_manager_list, m_conf_generation, managerVars>>

-----------------------------------------------------------------------------
(* CSLSManager::start(): listeners first, then the groups.  A listener     *)
(* that cannot bind ends the start, and with it the process; so does a     *)
(* group whose init_epoll() fails, when those before it already run.  The  *)
(* first start is followed by checks that may end the process as well.     *)
NextManager == 1 + Cardinality({m \in ManagerIds : life[m] # "none"})

start_manager ==
  LET m == NextManager
      groups == GroupsOf(worker_threads)
  IN  /\ pc = "start"
      /\ sls_manager' = m
      /\ life' = [life EXCEPT ![m] = "running"]
      /\ m_conf_generation' = [m_conf_generation EXCEPT ![m] = Generation]
      /\ \/ /\ bound = {}
            /\ bound' = {m}
            /\ m_list_role' = [m_list_role EXCEPT ![m] = <<"listener">>]
            /\ \E k \in 0..Len(groups) :
                 /\ m_workers' = [m_workers EXCEPT ![m] = SubSeq(groups, 1, k)]
                 /\ group' = [group EXCEPT ![m] =
                      [w \in Groups |->
                         IF w \in {groups[i] : i \in 1..k}
                           THEN [Idle EXCEPT !.run = IF w = 0 THEN "main" ELSE "looping"]
                           ELSE Idle]]
                 /\ \/ pc' = "loop" /\ k = Len(groups)
                    \/ pc' = "stop" /\ (k < Len(groups) \/ m = 1)
         \/ /\ pc' = "stop"
            /\ UNCHANGED <<bound, m_list_role, m_workers, group>>
      /\ UNCHANGED <<worker_threads, at, b_exit, b_reload, reload_manager_list,
                     root, g_current_conf, tree, released>>

-----------------------------------------------------------------------------
(* One pass of CSLSGroup::handler(): after a reload a worker without roles *)
(* ends; otherwise check_invalid_sock() drops the roles that are over (the *)
(* listener once the manager has closed it), reap_unadopted() the sessions *)
(* that waited too long, and check_new_role() adopts one.                  *)
Roles(g) == g.sessions + IF g.listener THEN 1 ELSE 0

(* The list without its first k sessions: they are the oldest.             *)
Reaped(list, k) ==
  LET old(i) == /\ list[i] = "session"
                /\ Cardinality({j \in 1..i : list[j] = "session"}) <= k
      keep == SelectSeq([i \in 1..Len(list) |-> i], LAMBDA i : ~old(i))
  IN  [i \in 1..Len(keep) |-> list[keep[i]]]

Adopted(g, role, m) ==
  IF role = "listener" THEN {[g EXCEPT !.listener = m \in bound]}
                       ELSE {[g EXCEPT !.sessions = @ + 1], g}     \* add_to_epoll may fail

MayEnd(g) == g.m_reload /\ Roles(g) = 0

handler(m, w) ==
  LET g == group[m][w]
  IN  IF MayEnd(g)
        THEN /\ group' = [group EXCEPT ![m][w].m_exit = TRUE]
             /\ UNCHANGED m_list_role
        ELSE \E left \in 0..g.sessions, k \in 0..Len(m_list_role[m]) :
               LET kept == [g EXCEPT !.sessions = left,
                                     !.listener = g.listener /\ m \in bound]
                   list == Reaped(m_list_role[m], k)
               IN  IF list = <<>> \/ Roles(kept) >= WorkerConnections
                     THEN /\ group' = [group EXCEPT ![m][w] = kept]
                          /\ m_list_role' = [m_list_role EXCEPT ![m] = list]
                     ELSE /\ \E after \in Adopted(kept, Head(list), m) :
                               group' = [group EXCEPT ![m][w] = after]
                          /\ m_list_role' = [m_list_role EXCEPT ![m] = Tail(list)]

WorkerPass(m, w) ==
  /\ Running
  /\ group[m][w].run = "looping" /\ ~group[m][w].m_exit
  /\ handler(m, w)
  /\ UNCHANGED <<worker_threads, mainVars, confVars, life, bound, m_workers>>

(* work() leaves its loop and clears the roles that are left.              *)
WorkEnds(m, w) ==
  /\ Running
  /\ group[m][w].run = "looping" /\ group[m][w].m_exit
  /\ group' = [group EXCEPT ![m][w] = [Idle EXCEPT !.run = "ended", !.m_exit = TRUE]]
  /\ UNCHANGED <<worker_threads, mainVars, confVars, life, bound, m_workers,
                 m_list_role>>

(* The sessions of a manager, waiting or adopted.                          *)
Open(m) ==
  FoldFunction(LAMBDA g, n : g.sessions + n,
               Len(SelectSeq(m_list_role[m], LAMBDA r : r = "session")), group[m])

(* The listener's handler accepts a connection.                            *)
Accept(m) ==
  /\ Running /\ m \in bound
  /\ \E w \in Groups : group[m][w].listener /\ group[m][w].run \in {"looping", "main"}
  /\ Open(m) < MaxOpen
  /\ m_list_role' = [m_list_role EXCEPT ![m] = Append(@, "session")]
  /\ UNCHANGED <<worker_threads, mainVars, confVars, life, bound, m_workers, group>>

-----------------------------------------------------------------------------
(* main(): the top of the loop, the sweep over the retired managers, and   *)
(* the reload.                                                             *)
LoopTop ==
  /\ pc = "loop"
  /\ IF b_exit
       THEN pc' = "stop" /\ UNCHANGED <<at, group, m_list_role>>
       ELSE /\ pc' = "sweep" /\ at' = 1
            /\ IF worker_threads = 0 THEN handler(sls_manager, 0)
                                     ELSE UNCHANGED <<group, m_list_role>>
  /\ UNCHANGED <<worker_threads, b_exit, b_reload, sls_manager, reload_manager_list,
                 confVars, life, bound, m_workers>>

(* check_invalid() walks m_workers with iterators taken before its         *)
(* erase() calls: after an erase the next element is skipped and the walk  *)
(* still runs to the old end, over slots that keep what they held.  An     *)
(* erase at or past the new end is undefined; it crashes, or shortens the  *)
(* vector.                                                                 *)
Visit(m, i, s) ==
  LET w == s.slots[i]
  IN  IF ~group[m][w].m_exit THEN s
      ELSE [slots |-> [j \in DOMAIN s.slots |->
                         IF j >= i /\ j < s.size THEN s.slots[j + 1] ELSE s.slots[j]],
            size |-> s.size - 1,
            deleted |-> s.deleted \cup {w},
            undefined |-> s.undefined \/ w \in s.deleted \/ i > s.size]

CheckedWorkers(m) ==
  LET v == m_workers[m]
      walk[i \in 0..Len(v)] ==
        IF i = 0 THEN [slots |-> v, size |-> Len(v), deleted |-> {}, undefined |-> FALSE]
                 ELSE Visit(m, i, walk[i - 1])
  IN  walk[Len(v)]

(* The join in worker->stop() waits for the thread to leave its loop.      *)
check_invalid ==
  /\ pc = "sweep"
  /\ IF at > Len(reload_manager_list)
       THEN /\ pc' = IF b_reload /\ NextManager <= MaxManagers THEN "reload" ELSE "loop"
            /\ UNCHANGED <<at, reload_manager_list, life, m_workers, m_list_role, group,
                           m_conf_generation, released>>
       ELSE LET m == reload_manager_list[at]
                s == CheckedWorkers(m)
                left == SubSeq(s.slots, 1, s.size)
                without == [m_conf_generation EXCEPT ![m] = Null]
            IN  /\ \A w \in s.deleted : group[m][w].run # "looping"
                /\ m_workers' = [m_workers EXCEPT ![m] = left]
                /\ group' = [group EXCEPT ![m] =
                     [w \in Groups |-> IF w \in s.deleted THEN Idle ELSE group[m][w]]]
                /\ \/ s.undefined /\ pc' = "crashed"
                      /\ UNCHANGED <<at, reload_manager_list, life, m_list_role,
                                     m_conf_generation, released>>
                   \/ /\ UNCHANGED pc
                      /\ IF left # <<>>
                           THEN /\ at' = at + 1
                                /\ UNCHANGED <<reload_manager_list, life, m_list_role,
                                               m_conf_generation, released>>
                           ELSE /\ reload_manager_list' =
                                     SubSeq(reload_manager_list, 1, at - 1) \o
                                     SubSeq(reload_manager_list, at + 1,
                                            Len(reload_manager_list))
                                /\ life' = [life EXCEPT ![m] = "destroyed"]
                                /\ m_list_role' = [m_list_role EXCEPT ![m] = <<>>]
                                /\ m_conf_generation' = without
                                /\ DropUnheld(tree, g_current_conf, without)
                                /\ UNCHANGED at
  /\ UNCHANGED <<worker_threads, b_exit, b_reload, sls_manager, root, g_current_conf,
                 tree, bound>>

(* CSLSManager::reload() closes the listeners and flags the workers.       *)
ReloadFlag_First(m, w) == IF w = m_workers[m][1] THEN TRUE ELSE group[m][w].m_reload
ReloadFlag(m, w) == TRUE

reload ==
  LET m == sls_manager
  IN  /\ pc = "reload"
      /\ b_reload' = FALSE
      /\ bound' = bound \ {m}
      /\ group' = [group EXCEPT ![m] =
           [w \in Groups |-> IF group[m][w].run = "none" THEN group[m][w]
                             ELSE [group[m][w] EXCEPT !.m_reload = ReloadFlag(m, w)]]]
      /\ life' = [life EXCEPT ![m] = "retired"]
      /\ reload_manager_list' = Append(reload_manager_list, m)
      /\ sls_manager' = Null
      /\ pc' = "conf"
      /\ UNCHANGED <<worker_threads, at, b_exit, confVars, m_workers, m_list_role>>

-----------------------------------------------------------------------------
(* The exit path: stop() and delete the current manager, then each retired *)
(* one.  stop() closes the listeners, stops and joins the workers in turn, *)
(* and only then clears the maps and the handoff list.                     *)
Leaving == IF sls_manager # Null THEN sls_manager
           ELSE IF reload_manager_list # <<>> THEN Head(reload_manager_list) ELSE Null

StopWorker ==
  LET m == Leaving
      w == Head(m_workers[m])
  IN  /\ pc = "stop" /\ m # Null /\ m_workers[m] # <<>>
      /\ bound' = bound \ {m}
      /\ IF group[m][w].run = "looping"
           THEN /\ ~group[m][w].m_exit
                /\ group' = [group EXCEPT ![m][w].m_exit = TRUE]
                /\ UNCHANGED m_workers
           ELSE /\ m_workers' = [m_workers EXCEPT ![m] = Tail(@)]
                /\ group' = [group EXCEPT ![m][w] = Idle]
      /\ UNCHANGED <<worker_threads, mainVars, confVars, life, m_list_role>>

(* stop() that does not wait for the workers.                              *)
Joined_NotWaited(m) == TRUE
Joined(m) == m_workers[m] = <<>>

DestroyManager ==
  LET m == Leaving
      without == [m_conf_generation EXCEPT ![m] = Null]
  IN  /\ pc = "stop" /\ m # Null /\ Joined(m)
      /\ bound' = bound \ {m}
      /\ life' = [life EXCEPT ![m] = "destroyed"]
      /\ m_list_role' = [m_list_role EXCEPT ![m] = <<>>]
      /\ sls_manager' = Null
      /\ reload_manager_list' = IF m = sls_manager THEN reload_manager_list
                                ELSE Tail(reload_manager_list)
      /\ m_conf_generation' = without
      /\ DropUnheld(tree, g_current_conf, without)
      /\ UNCHANGED <<worker_threads, pc, at, b_exit, b_reload, root, g_current_conf,
                     tree, m_workers, group>>

(* sls_conf_close(), and main() returns.                                   *)
Finish ==
  /\ pc = "stop" /\ Leaving = Null
  /\ pc' = "done"
  /\ root' = Null /\ g_current_conf' = Null
  /\ DropUnheld(tree, Null, m_conf_generation)
  /\ UNCHANGED <<worker_threads, at, b_exit, b_reload, sls_manager, reload_manager_list,
                 m_conf_generation, tree, managerVars>>

-----------------------------------------------------------------------------
(* SIGHUP, SIGINT and SIGTERM.                                             *)
Signal ==
  /\ Running
  /\ \/ ~b_reload /\ b_reload' = TRUE /\ UNCHANGED b_exit
     \/ ~b_exit /\ b_exit' = TRUE /\ UNCHANGED b_reload
  /\ UNCHANGED <<worker_threads, pc, at, sls_manager, reload_manager_list, confVars,
                 managerVars>>

-----------------------------------------------------------------------------
Main == \/ start_manager \/ LoopTop \/ check_invalid \/ reload \/ sls_conf_open
        \/ StopWorker \/ DestroyManager \/ Finish

Worker(m, w) == WorkerPass(m, w) \/ WorkEnds(m, w)

ServerNext ==
  \/ Main
  \/ \E m \in ManagerIds : Accept(m)
  \/ \E m \in ManagerIds, w \in Groups : Worker(m, w)
  \/ Signal

(* The threads run; sessions end, and none is accepted once the listener   *)
(* is closed, so a worker that is passed over often enough runs empty.     *)
ServerFairness ==
  /\ WF_serverVars(Main)
  /\ \A m \in ManagerIds, w \in Groups :
       /\ WF_serverVars(Worker(m, w))
       /\ SF_serverVars(Worker(m, w) /\ group'[m][w].sessions < group[m][w].sessions)

ServerSpec == ServerInit /\ [][ServerNext]_serverVars /\ ServerFairness

-----------------------------------------------------------------------------
(* CSLSManager::start(): a manager that is not destroyed, running or       *)
(* draining after a reload, never has its configuration tree freed under   *)
(* it, whatever is reloaded after it and whatever the file is.             *)
ConfOutlivesManager ==
  \A m \in ManagerIds :
    life[m] \in {"running", "retired"} =>
      /\ m_conf_generation[m] \in 1..Len(tree)
      /\ tree[m_conf_generation[m]] \notin released

(* CSLSManager::stop(): "workers hold raw &m_map_*[i] pointers into these  *)
(* vectors, so the elements outlive every worker": no worker thread runs   *)
(* for a manager whose maps are gone.                                      *)
MapsOutliveWorkers ==
  \A m \in ManagerIds, w \in Groups :
    group[m][w].run = "looping" => life[m] \in {"running", "retired"}

(* Nothing a manager and its workers still point at is freed under them,   *)
(* whatever signals, reloads and ends of sessions come between.            *)
NothingFreedInUse == ConfOutlivesManager /\ MapsOutliveWorkers

(* With a worker thread, a manager that a reload retired drains and is     *)
(* destroyed by a later sweep, unless the process ends first.              *)
RetiredFreed ==
  \A m \in ManagerIds :
    (life[m] = "retired" /\ worker_threads > 0)
      ~> (life[m] = "destroyed" \/ pc \in {"stop", "done", "crashed"})

=============================================================================
