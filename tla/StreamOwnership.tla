-------------------------- MODULE StreamOwnership --------------------------
(***************************************************************************)
(* Who feeds a stream, and whose ring it is.  Publishers (accepted by a    *)
(* listener) and pullers (started by a relay manager) claim a stream key   *)
(* in CSLSMapPublisher, allocate its ring in CSLSMapData, and give both    *)
(* back in uninit(), which the worker that owns the role runs.             *)
(*                                                                         *)
(* Each map has a lock of its own and every call takes it once, so an      *)
(* operation of a role is a sequence of steps, one per locked call or      *)
(* atomic flag, and pc[r] is the place of role r in it.  With one worker   *)
(* (SharedWorker) the listeners, the relay managers and all roles run on   *)
(* one thread, which finishes an operation before it starts another; with  *)
(* more, the steps of different roles interleave.  The HTTP control        *)
(* thread, which only sets a flag, always does.                            *)
(*                                                                         *)
(* A publisher is here from the moment its webhook authorisation has       *)
(* passed; time is abstracted to whether data came in the last             *)
(* ACTIVE_INCUMBENT_RECV_WINDOW_MS.  The relays that hang off a publisher  *)
(* are not part of this module.                                            *)
(***************************************************************************)
EXTENDS MapData

CONSTANTS
  Publishers,    \* CSLSPublisher roles
  Pullers,       \* CSLSPuller roles
  NoRole,        \* no entry in m_map_push_2_publisher
  KeyOf,         \* [Publishers \cup Pullers -> Keys], m_map_data_key
  HintOf,        \* [Publishers \cup Pullers -> Hints], of the lazy add()
  timecode_sei,  \* the publishers whose app has timecode_sei on
  SharedWorker   \* TRUE with worker_threads 0 or 1

Roles == Publishers \cup Pullers

ASSUME OwnershipAssumption ==
  /\ Publishers \cap Pullers = {}
  /\ NoRole \notin Roles
  /\ KeyOf \in [Roles -> Keys]
  /\ HintOf \in [Roles -> Hints]
  /\ <<0, 0>> \in Hints
  /\ timecode_sei \subseteq Publishers
  /\ SharedWorker \in BOOLEAN

VARIABLES
  pc,                      \* [Roles -> where the role is in its life]
  m_map_push_2_publisher,  \* [Keys -> Roles \cup {NoRole}]
  incumbent,               \* [Publishers -> the role its accept looked up]
  m_ring_added,
  m_kick_requested,
  recent                   \* has_recent_recv_data() of each role

roleVars == <<pc, m_map_push_2_publisher, incumbent, m_ring_added,
              m_kick_requested, recent>>
ownVars == <<mapVars, roleVars>>

-----------------------------------------------------------------------------
(* "none": no such object.  "pending": a publisher a listener holds.       *)
(* "queued": in CSLSRoleList, waiting for a worker.  "live": adopted.      *)
(* "invalid": marked, waiting for check_invalid_sock.  The others are in   *)
(* the middle of an operation.                                             *)
Resting == {"none", "pending", "queued", "live", "invalid"}
Busy == {"judge", "kicking", "bound",                 \* publisher accept
         "connecting", "registered", "backout",       \* puller start
         "added", "putting",                          \* the first packet
         "closing", "unring", "unregister"}           \* uninit

(* A thread is there to start another operation. *)
WorkerFree == SharedWorker => \A r \in Roles : pc[r] \in Resting

Owner(r) == m_map_push_2_publisher[KeyOf[r]]

Goto(r, l) == pc' = [pc EXCEPT ![r] = l]

(* CSLSMapPublisher::remove(role): erases the role's own entry, if any.    *)
Erased(r) ==
  [k \in Keys |-> IF m_map_push_2_publisher[k] = r THEN NoRole
                  ELSE m_map_push_2_publisher[k]]

OwnInit ==
  /\ MapInit
  /\ pc = [r \in Roles |-> "none"]
  /\ m_map_push_2_publisher = [k \in Keys |-> NoRole]
  /\ incumbent = [p \in Publishers |-> NoRole]
  /\ m_ring_added = [r \in Roles |-> FALSE]
  /\ m_kick_requested = [r \in Roles |-> FALSE]
  /\ recent = [r \in Roles |-> FALSE]

-----------------------------------------------------------------------------
(* A publisher is accepted: CSLSListener::finish_publisher_accept.         *)

(* Mutant: the object is reused without its flags being cleared. *)
Fresh_KeepRing(r) ==
  /\ m_kick_requested' = [m_kick_requested EXCEPT ![r] = FALSE]
  /\ recent' = [recent EXCEPT ![r] = FALSE]
  /\ UNCHANGED m_ring_added

(* A new role object.  The name of an old one is free again only when no   *)
(* accept holds a reference to it.                                         *)
Fresh(r) ==
  /\ m_ring_added' = [m_ring_added EXCEPT ![r] = FALSE]
  /\ m_kick_requested' = [m_kick_requested EXCEPT ![r] = FALSE]
  /\ recent' = [recent EXCEPT ![r] = FALSE]

NewPublisher(p) ==
  /\ WorkerFree
  /\ pc[p] = "none"
  /\ \A q \in Publishers : incumbent[q] # p
  /\ Goto(p, "pending")
  /\ Fresh(p)
  /\ UNCHANGED <<mapVars, m_map_push_2_publisher, incumbent>>

(* get_publisher(key); without an incumbent the maps are bound next. *)
LookupIncumbent(p) ==
  /\ WorkerFree
  /\ pc[p] = "pending"
  /\ incumbent' = [incumbent EXCEPT ![p] = Owner(p)]
  /\ Goto(p, IF Owner(p) = NoRole THEN "bound" ELSE "judge")
  /\ UNCHANGED <<mapVars, m_map_push_2_publisher, m_ring_added,
                 m_kick_requested, recent>>

(* Mutant: the maps are bound before the incumbent is looked at, and the   *)
(* refused publisher's uninit() takes the ring with it.                    *)
Judge_Bound(p) ==
  /\ pc[p] = "judge"
  /\ IF incumbent[p] \in Publishers /\ recent[incumbent[p]]
     THEN Goto(p, "unring") ELSE Goto(p, "kicking")
  /\ incumbent' = [incumbent EXCEPT ![p] =
                     IF pc'[p] = "unring" THEN NoRole ELSE @]
  /\ UNCHANGED <<mapVars, m_map_push_2_publisher, m_ring_added,
                 m_kick_requested, recent>>

(* is_takeover_protected() && has_recent_recv_data(): the newcomer is      *)
(* refused and uninit() finds no map bound; otherwise the incumbent goes.  *)
Judge(p) ==
  /\ pc[p] = "judge"
  /\ IF incumbent[p] \in Publishers /\ recent[incumbent[p]]
     THEN /\ Goto(p, "none")
          /\ incumbent' = [incumbent EXCEPT ![p] = NoRole]
     ELSE /\ Goto(p, "kicking")
          /\ UNCHANGED incumbent
  /\ UNCHANGED <<mapVars, m_map_push_2_publisher, m_ring_added,
                 m_kick_requested, recent>>

(* request_kick(), and the newcomer is refused all the same. *)
TakeoverKick(p) ==
  /\ pc[p] = "kicking"
  /\ m_kick_requested' = [m_kick_requested EXCEPT ![incumbent[p]] = TRUE]
  /\ incumbent' = [incumbent EXCEPT ![p] = NoRole]
  /\ Goto(p, "none")
  /\ UNCHANGED <<mapVars, m_map_push_2_publisher, m_ring_added, recent>>

(* Mutant: the publisher map takes the last comer. *)
Register_Overwrite(p) ==
  /\ pc[p] = "bound"
  /\ m_map_push_2_publisher' = [m_map_push_2_publisher EXCEPT ![KeyOf[p]] = p]
  /\ Goto(p, "queued")
  /\ UNCHANGED <<mapVars, incumbent, m_ring_added, m_kick_requested, recent>>

(* set_push_2_publisher() and the push on the role list; when the key was  *)
(* taken meanwhile, uninit() with the maps bound.                          *)
Register(p) ==
  /\ pc[p] = "bound"
  /\ IF Owner(p) = NoRole
     THEN /\ m_map_push_2_publisher' =
               [m_map_push_2_publisher EXCEPT ![KeyOf[p]] = p]
          /\ Goto(p, "queued")
     ELSE /\ Goto(p, "closing")
          /\ UNCHANGED m_map_push_2_publisher
  /\ UNCHANGED <<mapVars, incumbent, m_ring_added, m_kick_requested, recent>>

-----------------------------------------------------------------------------
(* A puller is started: CSLSPullerManager::start and set_relay_param.      *)

StartPuller(q) ==
  /\ WorkerFree
  /\ pc[q] = "none"
  /\ \A p \in Publishers : incumbent[p] # q
  /\ Owner(q) = NoRole
  /\ Goto(q, "connecting")
  /\ Fresh(q)
  /\ UNCHANGED <<mapVars, m_map_push_2_publisher, incumbent>>

(* The upstream did not answer, or the key was taken meanwhile: uninit()   *)
(* with no map bound.                                                      *)
PullerFails(q) ==
  /\ pc[q] = "connecting"
  /\ Goto(q, "none")
  /\ UNCHANGED <<mapVars, m_map_push_2_publisher, incumbent, m_ring_added,
                 m_kick_requested, recent>>

PullerRegister(q) ==
  /\ pc[q] = "connecting"
  /\ Owner(q) = NoRole
  /\ m_map_push_2_publisher' = [m_map_push_2_publisher EXCEPT ![KeyOf[q]] = q]
  /\ Goto(q, "registered")
  /\ UNCHANGED <<mapVars, incumbent, m_ring_added, m_kick_requested, recent>>

(* The ring is added at once, without a hint; then the push. *)
PullerAdd(q) ==
  /\ pc[q] = "registered"
  /\ Add(KeyOf[q], <<0, 0>>)
  /\ Goto(q, "queued")
  /\ UNCHANGED <<m_map_push_2_publisher, incumbent, m_ring_added,
                 m_kick_requested, recent>>

PullerAddRefused(q) ==
  /\ pc[q] = "registered"
  /\ AddRefused(KeyOf[q], <<0, 0>>)
  /\ Goto(q, "backout")
  /\ UNCHANGED <<mapVars, m_map_push_2_publisher, incumbent, m_ring_added,
                 m_kick_requested, recent>>

PullerBackout(q) ==
  /\ pc[q] = "backout"
  /\ m_map_push_2_publisher' = Erased(q)
  /\ Goto(q, "none")
  /\ UNCHANGED <<mapVars, incumbent, m_ring_added, m_kick_requested, recent>>

-----------------------------------------------------------------------------
(* The worker: CSLSGroup.                                                  *)

(* check_new_role adopts the role. *)
Adopt(r) ==
  /\ WorkerFree
  /\ pc[r] = "queued"
  /\ Goto(r, "live")
  /\ UNCHANGED <<mapVars, m_map_push_2_publisher, incumbent, m_ring_added,
                 m_kick_requested, recent>>

(* check_new_role cannot watch its socket, or reap_unadopted finds it past *)
(* HANDOFF_ADMISSION_TTL_MS.                                               *)
DropUnadopted(r) ==
  /\ WorkerFree
  /\ pc[r] = "queued"
  /\ Goto(r, "closing")
  /\ UNCHANGED <<mapVars, m_map_push_2_publisher, incumbent, m_ring_added,
                 m_kick_requested, recent>>

(* handler_read_data of a packet, when the role has added its ring: put()  *)
(* finds the ring, or its error makes the worker mark the role.            *)
Packet(r) ==
  /\ WorkerFree
  /\ pc[r] = "live"
  /\ m_ring_added[r]
  /\ recent' = [recent EXCEPT ![r] = TRUE]
  /\ Goto(r, IF KeyOf[r] \in Rings THEN "live" ELSE "invalid")
  /\ UNCHANGED <<mapVars, m_map_push_2_publisher, incumbent, m_ring_added,
                 m_kick_requested>>

(* handler_read_data of the first packet: the lazy add(). *)
FirstPacket(r) ==
  /\ WorkerFree
  /\ pc[r] = "live"
  /\ ~m_ring_added[r]
  /\ Add(KeyOf[r], HintOf[r])
  /\ recent' = [recent EXCEPT ![r] = TRUE]
  /\ m_ring_added' = [m_ring_added EXCEPT ![r] = TRUE]
  /\ Goto(r, "added")
  /\ UNCHANGED <<m_map_push_2_publisher, incumbent, m_kick_requested>>

FirstPacketRefused(r) ==
  /\ WorkerFree
  /\ pc[r] = "live"
  /\ ~m_ring_added[r]
  /\ AddRefused(KeyOf[r], HintOf[r])
  /\ recent' = [recent EXCEPT ![r] = TRUE]
  /\ Goto(r, "invalid")
  /\ UNCHANGED <<mapVars, m_map_push_2_publisher, incumbent, m_ring_added,
                 m_kick_requested>>

(* on_map_data_set(), which only CSLSPublisher overrides. *)
EnableScan(r) ==
  /\ pc[r] = "added"
  /\ IF r \in timecode_sei THEN SetTimecodeScan(KeyOf[r], TRUE)
                           ELSE UNCHANGED mapVars
  /\ Goto(r, "putting")
  /\ UNCHANGED <<m_map_push_2_publisher, incumbent, m_ring_added,
                 m_kick_requested, recent>>

(* put() of the first packet. *)
FirstPut(r) ==
  /\ pc[r] = "putting"
  /\ Goto(r, IF KeyOf[r] \in Rings THEN "live" ELSE "invalid")
  /\ UNCHANGED <<mapVars, m_map_push_2_publisher, incumbent, m_ring_added,
                 m_kick_requested, recent>>

(* handler() fails for another reason: the peer is gone, a misaligned      *)
(* read, the bitrate limit, a puller nobody reads.                         *)
ReadFails(r) ==
  /\ WorkerFree
  /\ pc[r] = "live"
  /\ Goto(r, "invalid")
  /\ UNCHANGED <<mapVars, m_map_push_2_publisher, incumbent, m_ring_added,
                 m_kick_requested, recent>>

(* ACTIVE_INCUMBENT_RECV_WINDOW_MS pass without data. *)
Quiet(r) ==
  /\ recent[r]
  /\ recent' = [recent EXCEPT ![r] = FALSE]
  /\ UNCHANGED <<mapVars, pc, m_map_push_2_publisher, incumbent,
                 m_ring_added, m_kick_requested>>

(* CSLSManager::disconnect_stream, on the HTTP control thread. *)
Disconnect(k) ==
  /\ m_map_push_2_publisher[k] # NoRole
  /\ m_kick_requested' =
       [m_kick_requested EXCEPT ![m_map_push_2_publisher[k]] = TRUE]
  /\ UNCHANGED <<mapVars, pc, m_map_push_2_publisher, incumbent,
                 m_ring_added, recent>>

(* Mutant: a kick is put off while data still comes in. *)
KickSeen_Deferred(r) ==
  /\ WorkerFree
  /\ pc[r] = "live"
  /\ m_kick_requested[r]
  /\ ~recent[r]
  /\ Goto(r, "closing")
  /\ UNCHANGED <<mapVars, m_map_push_2_publisher, incumbent, m_ring_added,
                 m_kick_requested, recent>>

(* get_state() of check_invalid_sock honours a kick. *)
KickSeen(r) ==
  /\ WorkerFree
  /\ pc[r] = "live"
  /\ m_kick_requested[r]
  /\ Goto(r, "closing")
  /\ UNCHANGED <<mapVars, m_map_push_2_publisher, incumbent, m_ring_added,
                 m_kick_requested, recent>>

(* get_state() finds the role idle, or its socket broken. *)
StateFails(r) ==
  /\ WorkerFree
  /\ pc[r] = "live"
  /\ Goto(r, "closing")
  /\ UNCHANGED <<mapVars, m_map_push_2_publisher, incumbent, m_ring_added,
                 m_kick_requested, recent>>

(* check_invalid_sock comes to a role that was marked. *)
Reap(r) ==
  /\ WorkerFree
  /\ pc[r] = "invalid"
  /\ Goto(r, "closing")
  /\ UNCHANGED <<mapVars, m_map_push_2_publisher, incumbent, m_ring_added,
                 m_kick_requested, recent>>

-----------------------------------------------------------------------------
(* CSLSPublisher::uninit: ring first, if it is ours, then the entry.       *)

(* Mutant: the owner is not compared with this. *)
CheckOwner_AnyOwner(p) ==
  /\ pc[p] = "closing"
  /\ Goto(p, IF Owner(p) # NoRole THEN "unregister" ELSE "unring")
  /\ UNCHANGED <<mapVars, m_map_push_2_publisher, incumbent, m_ring_added,
                 m_kick_requested, recent>>

(* The ownership check. *)
CheckOwner(p) ==
  /\ pc[p] = "closing"
  /\ Goto(p, IF Owner(p) \in {NoRole, p} THEN "unring" ELSE "unregister")
  /\ UNCHANGED <<mapVars, m_map_push_2_publisher, incumbent, m_ring_added,
                 m_kick_requested, recent>>

PublisherRemoveRing(p) ==
  /\ pc[p] = "unring"
  /\ Remove(KeyOf[p])
  /\ Goto(p, "unregister")
  /\ UNCHANGED <<m_map_push_2_publisher, incumbent, m_ring_added,
                 m_kick_requested, recent>>

PublisherUnregister(p) ==
  /\ pc[p] = "unregister"
  /\ m_map_push_2_publisher' = Erased(p)
  /\ Goto(p, "none")
  /\ UNCHANGED <<mapVars, incumbent, m_ring_added, m_kick_requested, recent>>

(* CSLSPuller::uninit: the entry first, then the ring of the key.          *)
PullerUnregister(q) ==
  /\ pc[q] = "closing"
  /\ m_map_push_2_publisher' = Erased(q)
  /\ Goto(q, "unring")
  /\ UNCHANGED <<mapVars, incumbent, m_ring_added, m_kick_requested, recent>>

PullerRemoveRing(q) ==
  /\ pc[q] = "unring"
  /\ Remove(KeyOf[q])
  /\ Goto(q, "none")
  /\ UNCHANGED <<m_map_push_2_publisher, incumbent, m_ring_added,
                 m_kick_requested, recent>>

-----------------------------------------------------------------------------
AcceptStep(p) == \/ LookupIncumbent(p) \/ Judge(p) \/ TakeoverKick(p)
                 \/ Register(p)
PullerStartStep(q) == \/ PullerFails(q) \/ PullerRegister(q) \/ PullerAdd(q)
                      \/ PullerAddRefused(q) \/ PullerBackout(q)
PublisherUninit(p) == \/ CheckOwner(p) \/ PublisherRemoveRing(p)
                      \/ PublisherUnregister(p)
PullerUninit(q) == PullerUnregister(q) \/ PullerRemoveRing(q)
FirstPacketStep(r) == EnableScan(r) \/ FirstPut(r)
Handoff(r) == Adopt(r) \/ DropUnadopted(r)

OwnNext ==
  \/ \E p \in Publishers : NewPublisher(p) \/ AcceptStep(p)
                             \/ PublisherUninit(p)
  \/ \E q \in Pullers : StartPuller(q) \/ PullerStartStep(q)
                          \/ PullerUninit(q)
  \/ \E r \in Roles :
       \/ Handoff(r) \/ Packet(r) \/ FirstPacket(r) \/ FirstPacketRefused(r)
       \/ FirstPacketStep(r) \/ ReadFails(r) \/ Quiet(r) \/ KickSeen(r)
       \/ StateFails(r) \/ Reap(r)
  \/ \E k \in Keys : Disconnect(k)

OwnSpec == OwnInit /\ [][OwnNext]_ownVars

(* The worker loop comes to every role it owns: an operation once begun    *)
(* ends, check_new_role and reap_unadopted empty the handoff list, and     *)
(* check_invalid_sock runs get_state() on every role on every pass.  The   *)
(* network (Packet, ReadFails) and the peers promise nothing.              *)
WorkerFair ==
  /\ \A p \in Publishers : WF_ownVars(PublisherUninit(p))
  /\ \A q \in Pullers : WF_ownVars(PullerUninit(q))
                          /\ WF_ownVars(PullerStartStep(q))
  /\ \A r \in Roles : /\ WF_ownVars(Handoff(r))
                      /\ WF_ownVars(FirstPacketStep(r))
                      /\ WF_ownVars(KickSeen(r))
                      /\ WF_ownVars(Reap(r))

OwnFairSpec == OwnSpec /\ WorkerFair

-----------------------------------------------------------------------------
(* Properties.                                                             *)

(* The states of a role that has claimed its key and not begun uninit().   *)
Owning == {"queued", "live", "invalid", "added", "putting", "registered",
           "backout"}

(* The roles and the publisher map are well typed; a role adds its ring    *)
(* after a worker has adopted it and before its first put(), and an accept *)
(* that weighs an incumbent has one; a role is registered only under its   *)
(* own key.                                                                *)
OwnTypeOK ==
  /\ pc \in [Roles -> Resting \cup Busy]
  /\ m_map_push_2_publisher \in [Keys -> Roles \cup {NoRole}]
  /\ incumbent \in [Publishers -> Roles \cup {NoRole}]
  /\ m_ring_added \in [Roles -> BOOLEAN]
  /\ m_kick_requested \in [Roles -> BOOLEAN]
  /\ recent \in [Roles -> BOOLEAN]
  /\ \A r \in Roles :
       /\ m_ring_added[r] =>
            pc[r] \notin {"pending", "judge", "kicking", "bound", "connecting",
                          "registered", "backout", "queued"}
       /\ pc[r] \in {"added", "putting"} => m_ring_added[r]
  /\ \A p \in Publishers :
       pc[p] \in {"judge", "kicking"} => incumbent[p] \in Roles
  /\ \A k \in Keys : m_map_push_2_publisher[k] # NoRole
                      => KeyOf[m_map_push_2_publisher[k]] = k

(* A role that claimed its key is the registered owner until its own       *)
(* uninit(), whatever the other workers and listeners do, so two roles     *)
(* never feed one ring: the single-writer invariant that CSLSMapData::put  *)
(* relies on for the parser states it changes under a read lock.           *)
SoleOwner == \A r \in Roles : pc[r] \in Owning => Owner(r) = r

(* A role that has added its ring keeps it until it is torn down itself:   *)
(* no other role's uninit() takes the ring of a running session away.      *)
RingKept ==
  \A r \in Roles : /\ m_ring_added[r]
                   /\ pc[r] \in {"live", "added", "putting"}
                   => KeyOf[r] \in Rings

(* No ring is left behind: one without a registered owner is about to be   *)
(* removed by the puller that has just left it.  An orphan would count     *)
(* against max_streams and max_total_ring_mb for ever.                     *)
NoOrphanRing ==
  \A k \in Rings : \/ m_map_push_2_publisher[k] # NoRole
                   \/ \E q \in Pullers : KeyOf[q] = k /\ pc[q] = "unring"

(* A timecode scanner goes with its ring: the next session on the key      *)
(* does not start from the last one's timecode.                            *)
ScannerTracksRing == m_map_tc_state \subseteq Rings

(* A takeover never kicks a broadcaster that is delivering media when the  *)
(* kick is requested, as finish_publisher_accept claims; pullers may       *)
(* always be taken over.  The recency is read before the flag is set, so   *)
(* a packet that another worker handles in between refutes it.             *)
KickJustified ==
  [][\A p \in Publishers : TakeoverKick(p) =>
        incumbent[p] \in Pullers \/ ~recent[incumbent[p]]]_ownVars

(* A kick is honoured: the owner that was asked to go leaves the publisher *)
(* map, however much data it keeps receiving, so that a reconnecting       *)
(* newcomer finds the key free.                                            *)
KickedLeaves ==
  \A r \in Roles :
    (m_kick_requested[r] /\ Owner(r) = r) ~> (Owner(r) # r)
=============================================================================
