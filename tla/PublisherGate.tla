---------------------------- MODULE PublisherGate ----------------------------
(***************************************************************************)
(* How a publisher gets past the on_connect webhook.  A listener accepts   *)
(* the connection, posts the request and holds the publisher in            *)
(* m_pending_publisher_connections; its worker polls the answer on every   *)
(* tick until it comes or the deadline passes.  A key the webhook denies   *)
(* goes to the AuthRejectCache that all publisher listeners share, and the *)
(* handshake callback, which runs on libsrt's thread, turns it away.       *)
(*                                                                         *)
(* Time is counted in the seconds of Tick.  A time stamp of the code is    *)
(* what is left until it: 0 is a time that has come, NoTime none at all.   *)
(* The HTTP client answers at any time or never.  What finish_publisher_   *)
(* accept makes of an authorised publisher depends on the publisher map,   *)
(* module StreamOwnership; here it is admitted or refused.                 *)
(***************************************************************************)
EXTENDS Integers, FiniteSets

CONSTANTS
  Listeners,   \* publisher listeners
  Conns,       \* client sockets; one that is closed may call again
  Sids,        \* canonical streamids, the keys of the reject cache
  Streams,     \* key_stream_name: app and stream
  ListenerOf,  \* [Conns -> Listeners]
  SidOf,       \* [Conns -> Sids]
  StreamOf,    \* [Conns -> Streams]
  GatedListeners,  \* the ones with an on_event_url, m_http_url_role
  MAX_PENDING_PUBLISHER_CONNECTIONS,
  MAX_AUTH_REJECT_ENTRIES,
  AuthorizationDeadline,  \* kHttpAuthorizationDeadlineMs, in ticks
  m_ttl                   \* of the reject cache, in ticks

ASSUME GateAssumption ==
  /\ ListenerOf \in [Conns -> Listeners]
  /\ SidOf \in [Conns -> Sids]
  /\ StreamOf \in [Conns -> Streams]
  /\ GatedListeners \subseteq Listeners
  /\ MAX_PENDING_PUBLISHER_CONNECTIONS \in Nat \ {0}
  /\ MAX_AUTH_REJECT_ENTRIES \in Nat \ {0}
  /\ AuthorizationDeadline \in Nat \ {0}
  /\ m_ttl \in Nat \ {0}

VARIABLES
  pub,        \* [Conns -> the socket and its CSLSPublisher]
  m_blocked,  \* [Sids -> time left of the cache entry, or NoTime]
  swept,      \* m_last_sweep is the current second
  m_srt,      \* [Listeners -> "open", "freed" by uninit(), "reaped"]
  deniedLeft  \* history: [Sids -> time left in which a block is justified]

gateVars == <<pub, m_blocked, swept, m_srt, deniedLeft>>

NoTime == -1
Left(t) == IF t > 0 THEN t - 1 ELSE t

(* 200; 401 or 403; another status; no answer from the backend at all.     *)
Answers == {"ok", "denied", "other", "error"}

(* "backlog": past the handshake, not yet accepted.  "accepting": handler() *)
(* is between on_connect() and the first check_http_passed().               *)
Places == {"none", "backlog", "accepting", "pending", "admitted"}

(* The last two fields are history: how long the webhook has been asked,   *)
(* and what it first answered.                                             *)
Publisher ==
  [at : Places, passed : BOOLEAN, future : {"none", "waiting"} \cup Answers,
   deadline : NoTime..AuthorizationDeadline,
   age : 0..AuthorizationDeadline, verdict : {"none"} \cup Answers]

Closed == [at |-> "none", passed |-> TRUE, future |-> "none",
           deadline |-> NoTime, age |-> 0, verdict |-> "none"]

GateInit ==
  /\ pub = [c \in Conns |-> Closed]
  /\ m_blocked = [s \in Sids |-> NoTime]
  /\ swept = FALSE
  /\ m_srt = [l \in Listeners |-> "open"]
  /\ deniedLeft = [s \in Sids |-> NoTime]

At(c) == pub[c].at
Gated(c) == ListenerOf[c] \in GatedListeners
Pending(l) == {c \in Conns : At(c) = "pending" /\ ListenerOf[c] = l}
InHandler(l) == \E c \in Conns : At(c) = "accepting" /\ ListenerOf[c] = l

-----------------------------------------------------------------------------
(* The negative cache: AuthRejectCache.                                    *)

(* Mutant: an entry blocks until it is swept. *)
is_blocked_UntilSwept(s) == m_blocked[s] # NoTime

is_blocked(s) == m_blocked[s] > 0

Entries(b) == {s \in Sids : b[s] # NoTime}

(* The sweep, at most once a second. *)
Sweep == [s \in Sids |-> IF ~swept /\ m_blocked[s] = 0 THEN NoTime
                         ELSE m_blocked[s]]

(* Mutant: the size test is off by one. *)
Victims_OffByOne(b, s) ==
  IF s \in Entries(b) \/ Cardinality(Entries(b)) <= MAX_AUTH_REJECT_ENTRIES
  THEN {} ELSE {v \in Entries(b) : \A w \in Entries(b) : b[v] <= b[w]}

(* Room for a new key: of a full map, the entries closest to expiring. *)
Victims(b, s) ==
  IF s \in Entries(b) \/ Cardinality(Entries(b)) < MAX_AUTH_REJECT_ENTRIES
  THEN {} ELSE {v \in Entries(b) : \A w \in Entries(b) : b[v] <= b[w]}

record_failure(s) ==
  /\ swept' = TRUE
  /\ LET b == Sweep
     IN  \/ /\ Victims(b, s) = {}
            /\ m_blocked' = [b EXCEPT ![s] = m_ttl]
         \/ \E v \in Victims(b, s) :
              m_blocked' = [b EXCEPT ![v] = NoTime, ![s] = m_ttl]

-----------------------------------------------------------------------------
(* The publisher's side of the webhook: CSLSRole.                          *)

(* Mutant: a role that was never authorised reports its end as well. *)
on_close_Always(c) == "waiting"

(* The future after invalid_srt(): on_close() posts for an authorised role *)
(* only, and stores that request where on_connect() stored its own.        *)
on_close(c) == IF pub[c].passed /\ Gated(c) THEN "waiting" ELSE "none"

(* Mutant: there is no deadline. *)
check_http_passed_NoDeadline(c) ==
  CASE pub[c].passed -> "passed"
    [] ~pub[c].passed /\ pub[c].future = "none" -> "invalid"
    [] ~pub[c].passed /\ pub[c].future = "waiting" -> "wait"
    [] ~pub[c].passed /\ pub[c].future = "ok" -> "passed"
    [] ~pub[c].passed /\ pub[c].future \in Answers \ {"ok"} -> "refused"

(* The decision of check_http_passed(), in the order of its tests. *)
check_http_passed(c) ==
  IF pub[c].passed THEN "passed"
  ELSE IF pub[c].deadline = 0 \/ pub[c].future = "none" THEN "invalid"
  ELSE IF pub[c].future = "waiting" THEN "wait"
  ELSE IF pub[c].future = "ok" THEN "passed"
  ELSE "refused"

(* Mutant: any answer but 200 is held against the key. *)
CachedAnswers_All == {"denied", "other", "error"}

(* 401 and 403 are about the key, everything else about the backend. *)
CachedAnswers == {"denied"}

Close(c) == pub' = [pub EXCEPT ![c] = Closed]

(* One check_http_passed() and what its caller does with the result: the   *)
(* end of handler() and the loop body of drive_pending_publisher_          *)
(* connections().  A refused role has lost its socket but is not invalid,  *)
(* so it is held until the next poll finds no request.                     *)
Poll(c) ==
  \/ /\ check_http_passed(c) = "passed"
     /\ \/ Close(c)
        \/ pub' = [pub EXCEPT ![c].at = "admitted", ![c].passed = TRUE,
                              ![c].future = "none", ![c].deadline = NoTime]
     /\ UNCHANGED <<m_blocked, swept>>
  \/ /\ check_http_passed(c) = "invalid"
     /\ Close(c)
     /\ UNCHANGED <<m_blocked, swept>>
  \/ /\ check_http_passed(c) = "wait"
     /\ pub' = [pub EXCEPT ![c].at = "pending"]
     /\ UNCHANGED <<m_blocked, swept>>
  \/ /\ check_http_passed(c) = "refused"
     /\ pub' = [pub EXCEPT ![c].at = "pending", ![c].future = on_close(c),
                           ![c].deadline = NoTime]
     /\ IF pub[c].future \in CachedAnswers THEN record_failure(SidOf[c])
        ELSE UNCHANGED <<m_blocked, swept>>

-----------------------------------------------------------------------------
(* The listener.                                                           *)

(* sls_publisher_listen_callback lets the handshake of c through. *)
Handshake(c) ==
  /\ At(c) = "none"
  /\ m_srt[ListenerOf[c]] = "open"
  /\ ~is_blocked(SidOf[c])
  /\ pub' = [pub EXCEPT ![c].at = "backlog"]
  /\ UNCHANGED <<m_blocked, swept, m_srt, deniedLeft>>

(* Mutant: no test for a second request of the stream. *)
MayHold_Duplicates(c) ==
  Gated(c) => Cardinality(Pending(ListenerOf[c]))
                < MAX_PENDING_PUBLISHER_CONNECTIONS

MayHold(c) ==
  Gated(c) => /\ Cardinality(Pending(ListenerOf[c]))
                   < MAX_PENDING_PUBLISHER_CONNECTIONS
              /\ \A d \in Pending(ListenerOf[c]) : StreamOf[d] # StreamOf[c]

(* handler() up to on_connect().  The refusals of the first disjunct are   *)
(* the handoff backlog, the latency, streamid, app and ACL tests, and a    *)
(* request that cannot be posted.                                          *)
Accept(c) ==
  /\ At(c) = "backlog"
  /\ m_srt[ListenerOf[c]] = "open"
  /\ ~InHandler(ListenerOf[c])
  /\ \/ Close(c)
     \/ /\ MayHold(c)
        /\ pub' = [pub EXCEPT
             ![c] = [Closed EXCEPT
                       !.at = "accepting", !.passed = ~Gated(c),
                       !.future = IF Gated(c) THEN "waiting" ELSE "none",
                       !.deadline = IF Gated(c) THEN AuthorizationDeadline
                                    ELSE NoTime]]
  /\ UNCHANGED <<m_blocked, swept, m_srt, deniedLeft>>

(* handler() polls once and holds the publisher if it must wait. *)
FirstPoll(c) ==
  /\ At(c) = "accepting"
  /\ Poll(c)
  /\ UNCHANGED <<m_srt, deniedLeft>>

(* on_worker_tick(), on the thread that also runs handler(). *)
DrivePending(c) ==
  /\ At(c) = "pending"
  /\ m_srt[ListenerOf[c]] = "open"
  /\ ~InHandler(ListenerOf[c])
  /\ Poll(c)
  /\ UNCHANGED <<m_srt, deniedLeft>>

(* The HTTP pool finishes a request, of on_connect() in the code as it is. *)
Answer(c, r) ==
  /\ pub[c].future = "waiting"
  /\ pub' = [pub EXCEPT ![c].future = r,
                        ![c].verdict = IF @ = "none" THEN r ELSE @]
  /\ deniedLeft' = [deniedLeft EXCEPT ![SidOf[c]] =
       IF pub[c].verdict = "none" /\ r = "denied"
       THEN m_ttl + AuthorizationDeadline ELSE @]
  /\ UNCHANGED <<m_blocked, swept, m_srt>>

(* An admitted publisher ends. *)
Leave(c) ==
  /\ At(c) = "admitted"
  /\ Close(c)
  /\ UNCHANGED <<m_blocked, swept, m_srt, deniedLeft>>

(* CSLSListener::uninit() on the main thread, from reload() or stop(),     *)
(* while the workers run.  libsrt drops the backlog with the socket.       *)
Uninit(l) ==
  /\ m_srt[l] = "open"
  /\ m_srt' = [m_srt EXCEPT ![l] = "freed"]
  /\ pub' = [c \in Conns |->
       IF ListenerOf[c] = l /\ At(c) \in {"backlog", "pending"} THEN Closed
       ELSE pub[c]]
  /\ UNCHANGED <<m_blocked, swept, deniedLeft>>

(* The worker drops its reference, and ~CSLSListener the publishers that   *)
(* handler() still put into the list.                                      *)
Reap(l) ==
  /\ m_srt[l] = "freed"
  /\ ~InHandler(l)
  /\ m_srt' = [m_srt EXCEPT ![l] = "reaped"]
  /\ pub' = [c \in Conns |-> IF c \in Pending(l) THEN Closed ELSE pub[c]]
  /\ UNCHANGED <<m_blocked, swept, deniedLeft>>

Older(c) ==
  IF At(c) \in {"accepting", "pending"}
  THEN [pub[c] EXCEPT
          !.deadline = Left(@),
          !.age = IF @ < AuthorizationDeadline THEN @ + 1 ELSE @]
  ELSE pub[c]

Tick ==
  /\ pub' = [c \in Conns |-> Older(c)]
  /\ m_blocked' = [s \in Sids |-> Left(m_blocked[s])]
  /\ deniedLeft' = [s \in Sids |-> Left(deniedLeft[s])]
  /\ swept' = FALSE
  /\ UNCHANGED m_srt

GateNext ==
  \/ \E c \in Conns :
       \/ Handshake(c)
       \/ Accept(c)
       \/ FirstPoll(c)
       \/ DrivePending(c)
       \/ \E r \in Answers : Answer(c, r)
       \/ Leave(c)
  \/ \E l \in Listeners : Uninit(l) \/ Reap(l)
  \/ Tick

GateSpec == GateInit /\ [][GateNext]_gateVars

(* Time passes, a handler that has started finishes, and a worker calls    *)
(* on_worker_tick() in every round: handlers in between only delay it,     *)
(* hence strong fairness.  The webhook need never answer.                  *)
GateFairness ==
  /\ WF_gateVars(Tick)
  /\ \A c \in Conns : WF_gateVars(FirstPoll(c)) /\ SF_gateVars(DrivePending(c))
  /\ \A l \in Listeners : WF_gateVars(Reap(l))

GateFairSpec == GateSpec /\ GateFairness

-----------------------------------------------------------------------------
(* The variables stay in their types; a cache entry never outlives m_ttl. *)
GateTypeOK ==
  /\ pub \in [Conns -> Publisher]
  /\ m_blocked \in [Sids -> NoTime..m_ttl]
  /\ swept \in BOOLEAN
  /\ m_srt \in [Listeners -> {"open", "freed", "reaped"}]
  /\ deniedLeft \in [Sids -> NoTime..(m_ttl + AuthorizationDeadline)]

(* With a webhook configured, a publisher reaches the publisher map only   *)
(* if the webhook answered its on_connect with 200, and only before the    *)
(* authorisation deadline, however late the worker polls and whatever      *)
(* other request the role has made since (check_http_passed, on_close).    *)
AdmittedAuthorized ==
  \A c \in Conns :
    Gated(c) /\ At(c) = "admitted"
      => pub[c].verdict = "ok" /\ pub[c].age < AuthorizationDeadline

(* A key is turned away at the handshake only because the webhook itself   *)
(* said 401 or 403 for it, not longer ago than the cache's TTL and one     *)
(* authorisation deadline; a backend that fails locks nobody out.  That is *)
(* the rule of the code: CONFIGURATION.md has every answer but a 200       *)
(* remembered.                                                             *)
BlockJustified ==
  \A s \in Sids : is_blocked(s) => deniedLeft[s] > 0

(* What unauthorised callers can take up is bounded: a listener holds no   *)
(* more of their sockets than its cap and at most one request per stream,  *)
(* and the reject cache never grows past its own cap.                      *)
GateBounded ==
  /\ \A l \in GatedListeners :
       /\ Cardinality(Pending(l)) <= MAX_PENDING_PUBLISHER_CONNECTIONS
       /\ \A c, d \in Pending(l) : StreamOf[c] = StreamOf[d] => c = d
  /\ Cardinality(Entries(m_blocked)) <= MAX_AUTH_REJECT_ENTRIES

(* No publisher is held for ever: it is admitted or closed, even if the    *)
(* webhook never answers and even if its listener is torn down.            *)
PendingResolves ==
  \A c \in Conns :
    At(c) \in {"accepting", "pending"} ~> At(c) \in {"none", "admitted"}

(* A key is let in again: no sequence of denials blocks it for ever. *)
BlockEnds == \A s \in Sids : []<>~is_blocked(s)

(* "only one thread ever frees m_srt for a given role ... so ownership     *)
(* transfers but never overlaps" (CSLSRole::invalid_srt), for the listener *)
(* itself: its socket is not freed while its worker is inside handler().   *)
TeardownAlone ==
  \A l \in Listeners : InHandler(l) => m_srt[l] = "open"

-----------------------------------------------------------------------------
(* Why they hold.  An answer that is still to be read belongs to a role    *)
(* that is not authorised, whose clock started with the request and has    *)
(* not been reset, and it is the webhook's first answer; a denial that can *)
(* still be read leaves time for a whole TTL after the poll that reads it. *)
RequestInv(c) ==
  /\ At(c) \in {"accepting", "pending"} /\ Gated(c) => ~pub[c].passed
  /\ pub[c].future # "none" =>
       /\ At(c) \in {"accepting", "pending"} /\ ~pub[c].passed
       /\ pub[c].deadline = AuthorizationDeadline - pub[c].age
       /\ pub[c].future = "waiting" => pub[c].verdict = "none"
       /\ pub[c].future \in Answers => pub[c].verdict = pub[c].future
       /\ pub[c].future = "denied" /\ pub[c].deadline > 0
            => deniedLeft[SidOf[c]] >= m_ttl + pub[c].deadline

BlockInv == \A s \in Sids : m_blocked[s] > 0 => deniedLeft[s] >= m_blocked[s]

GateInv ==
  /\ GateTypeOK
  /\ \A c \in Conns : RequestInv(c)
  /\ AdmittedAuthorized
  /\ BlockInv
=============================================================================
