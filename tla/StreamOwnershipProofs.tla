----------------------- MODULE StreamOwnershipProofs -----------------------
(***************************************************************************)
(* Proofs about the ownership of streams, for any number of streams,       *)
(* publishers and pullers, any caps and any ring sizes.  The invariants    *)
(* about the publisher map hold for any number of workers; the one that a  *)
(* session keeps its ring needs one worker, and MCStreamOwnership_puller   *)
(* and _accept show how it fails with more.                                *)
(***************************************************************************)
EXTENDS StreamOwnership, StreamDataProofs

USE DEF Goto

(* A puller gives up its entry in its own uninit() and nowhere else, so    *)
(* when it comes there it still has it.                                    *)
PullerClosing ==
  \A q \in Pullers : pc[q] = "closing" => Owner(q) = q

(* A role that is about to erase the entry of its key has left no ring     *)
(* there: what NoOrphanRing needs of the step that erases it.              *)
Emptied ==
  \A r \in Roles :
    \/ pc[r] = "backout"
    \/ r \in Publishers /\ pc[r] = "unregister" /\ Owner(r) = r
    => KeyOf[r] \notin Rings

(* The inductive invariant of any number of workers. *)
OwnInv == /\ OwnTypeOK /\ MapInv /\ SoleOwner /\ PullerClosing
          /\ Emptied /\ NoOrphanRing

(* One thread is in the middle of at most one operation. *)
Exclusive ==
  \A r, s \in Roles : r # s /\ pc[r] \in Busy => pc[s] \in Resting

(* What uninit() is about to remove belongs to no other role: true from    *)
(* the check (or the erased entry) to the removal only when nothing else   *)
(* runs in between.                                                        *)
RemovingOwn ==
  \A r \in Roles : pc[r] = "unring" => Owner(r) \in {r, NoRole}

(* The inductive invariant that one worker adds. *)
SharedInv == Exclusive /\ RemovingOwn /\ RingKept /\ ScannerTracksRing

-----------------------------------------------------------------------------
(* The steps that leave both maps alone, and the others one by one.        *)
PublisherMove(p) == \/ NewPublisher(p) \/ LookupIncumbent(p) \/ Judge(p)
                    \/ TakeoverKick(p) \/ CheckOwner(p)
PullerMove(q) == StartPuller(q) \/ PullerFails(q) \/ PullerAddRefused(q)
RoleMove(r) == \/ Adopt(r) \/ DropUnadopted(r) \/ Packet(r)
               \/ FirstPacketRefused(r) \/ FirstPut(r) \/ ReadFails(r)
               \/ Quiet(r) \/ KickSeen(r) \/ StateFails(r) \/ Reap(r)

(* A step of the specification, by what it changes. *)
LEMMA NextCases ==
  [OwnNext]_ownVars <=>
    \/ \E p \in Publishers : \/ PublisherMove(p) \/ Register(p)
                             \/ PublisherRemoveRing(p)
                             \/ PublisherUnregister(p)
    \/ \E q \in Pullers : \/ PullerMove(q) \/ PullerRegister(q)
                          \/ PullerAdd(q) \/ PullerBackout(q)
                          \/ PullerUnregister(q) \/ PullerRemoveRing(q)
    \/ \E r \in Roles : RoleMove(r) \/ FirstPacket(r) \/ EnableScan(r)
    \/ \E k \in Keys : Disconnect(k)
    \/ UNCHANGED ownVars
  BY Zenon DEF OwnNext, AcceptStep, PublisherUninit, PullerStartStep,
       PullerUninit, Handoff, FirstPacketStep, PublisherMove, PullerMove,
       RoleMove

-----------------------------------------------------------------------------
(* What the calls on CSLSMapData do to the set of rings.                   *)

(* A successful add() leaves the key with a ring. *)
LEMMA AddRings ==
  ASSUME MapInv, NEW k \in Keys, NEW hint \in Hints, Add(k, hint)
  PROVE  Rings' = Rings \cup {k} /\ m_map_tc_state' = m_map_tc_state
<1>1. CASE AddExisting(k)
  BY <1>1 DEF AddExisting, mapVars, Rings
<1>2. CASE AddNew(k, hint)
  BY <1>2, SizeBounded DEF AddNew, Rings, MapInv, MapTypeOK
<1> QED BY <1>1, <1>2 DEF Add

(* remove() leaves it without a ring and without a scanner. *)
LEMMA RemoveRings ==
  ASSUME MapInv, NEW k \in Keys, Remove(k)
  PROVE  /\ Rings' = Rings \ {k}
         /\ m_map_tc_state' = m_map_tc_state \ {k}
  BY DEF Remove, Rings, MapInv, MapTypeOK

(* set_timecode_scan() changes no ring. *)
LEMMA ScanRings ==
  ASSUME NEW k \in Keys, SetTimecodeScan(k, TRUE)
  PROVE  Rings' = Rings /\ m_map_tc_state' = m_map_tc_state \cup {k}
  BY DEF SetTimecodeScan, Rings

(* Nor does a step that leaves the map alone. *)
LEMMA SameRings ==
  UNCHANGED mapVars => Rings' = Rings /\ m_map_tc_state' = m_map_tc_state
  BY DEF mapVars, Rings

-----------------------------------------------------------------------------
(* The roles drive CSLSMapData only through its operations.                *)

(* Every step of a role is a step of the map, or leaves it alone. *)
LEMMA MapSteps == [OwnNext]_ownVars => [MapNext]_mapVars
<1> SUFFICES ASSUME [OwnNext]_ownVars PROVE [MapNext]_mapVars
  OBVIOUS
<1> USE DEF MapNext, Roles
<1>1. ASSUME NEW p \in Publishers, PublisherMove(p) PROVE [MapNext]_mapVars
  BY <1>1, OwnershipAssumption DEF PublisherMove, NewPublisher,
     LookupIncumbent, Judge, TakeoverKick, CheckOwner
<1>2. ASSUME NEW p \in Publishers, Register(p) PROVE [MapNext]_mapVars
  BY <1>2, OwnershipAssumption DEF Register
<1>3. ASSUME NEW p \in Publishers, PublisherRemoveRing(p) PROVE [MapNext]_mapVars
  BY <1>3, OwnershipAssumption DEF PublisherRemoveRing
<1>4. ASSUME NEW p \in Publishers, PublisherUnregister(p) PROVE [MapNext]_mapVars
  BY <1>4, OwnershipAssumption DEF PublisherUnregister
<1>5. ASSUME NEW q \in Pullers, PullerMove(q) PROVE [MapNext]_mapVars
  BY <1>5, OwnershipAssumption DEF PullerMove, StartPuller, PullerFails,
     PullerAddRefused
<1>6. ASSUME NEW q \in Pullers, PullerRegister(q) PROVE [MapNext]_mapVars
  BY <1>6, OwnershipAssumption DEF PullerRegister
<1>7. ASSUME NEW q \in Pullers, PullerAdd(q) PROVE [MapNext]_mapVars
  BY <1>7, OwnershipAssumption DEF PullerAdd, Add
<1>8. ASSUME NEW q \in Pullers, PullerBackout(q) PROVE [MapNext]_mapVars
  BY <1>8, OwnershipAssumption DEF PullerBackout
<1>9. ASSUME NEW q \in Pullers, PullerUnregister(q) PROVE [MapNext]_mapVars
  BY <1>9, OwnershipAssumption DEF PullerUnregister
<1>10. ASSUME NEW q \in Pullers, PullerRemoveRing(q) PROVE [MapNext]_mapVars
  BY <1>10, OwnershipAssumption DEF PullerRemoveRing
<1>11. ASSUME NEW r \in Roles, RoleMove(r) PROVE [MapNext]_mapVars
  BY <1>11, OwnershipAssumption DEF RoleMove, Adopt, DropUnadopted, Packet,
     FirstPacketRefused, FirstPut, ReadFails, Quiet, KickSeen, StateFails,
     Reap
<1>12. ASSUME NEW r \in Roles, FirstPacket(r) PROVE [MapNext]_mapVars
  BY <1>12, OwnershipAssumption DEF FirstPacket, Add
<1>13. ASSUME NEW r \in Roles, EnableScan(r) PROVE [MapNext]_mapVars
  BY <1>13, OwnershipAssumption DEF EnableScan
<1>14. ASSUME NEW k \in Keys, Disconnect(k) PROVE [MapNext]_mapVars
  BY <1>14, OwnershipAssumption DEF Disconnect
<1>15. CASE UNCHANGED ownVars
  BY <1>15, OwnershipAssumption DEF ownVars
<1> QED BY NextCases, <1>1, <1>2, <1>3, <1>4, <1>5, <1>6, <1>7, <1>8, <1>9,
   <1>10, <1>11, <1>12, <1>13, <1>14, <1>15

(* StreamOwnership implements CSLSMapData's specification, so what is      *)
(* proved of the map holds with the publishers and pullers as its callers. *)
THEOREM OwnershipImplementsMap == OwnSpec => MapSpec
<1>1. OwnInit => MapInit
  BY DEF OwnInit
<1> QED BY <1>1, MapSteps, PTL DEF OwnSpec, MapSpec

-----------------------------------------------------------------------------
(* Any number of workers.                                                  *)

(* Every step preserves the types. *)
LEMMA OwnTypeStep == OwnTypeOK /\ [OwnNext]_ownVars => OwnTypeOK'
<1> SUFFICES ASSUME OwnTypeOK, [OwnNext]_ownVars PROVE OwnTypeOK'
  OBVIOUS
<1> USE DEF OwnTypeOK, Resting, Busy, Roles, Owner, Erased, Fresh
<1>1. ASSUME NEW p \in Publishers, PublisherMove(p) PROVE OwnTypeOK'
  <2>1. CASE NewPublisher(p)
    BY <2>1, OwnershipAssumption DEF NewPublisher
  <2>2. CASE LookupIncumbent(p)
    BY <2>2, OwnershipAssumption DEF LookupIncumbent
  <2>3. CASE Judge(p)
    BY <2>3, OwnershipAssumption DEF Judge
  <2>4. CASE TakeoverKick(p)
    BY <2>4, OwnershipAssumption DEF TakeoverKick
  <2>5. CASE CheckOwner(p)
    BY <2>5, OwnershipAssumption DEF CheckOwner
    <2> QED BY <1>1, <2>1, <2>2, <2>3, <2>4, <2>5
    DEF PublisherMove
<1>2. ASSUME NEW p \in Publishers, Register(p) PROVE OwnTypeOK'
  BY <1>2, OwnershipAssumption DEF Register
<1>3. ASSUME NEW p \in Publishers, PublisherRemoveRing(p) PROVE OwnTypeOK'
  BY <1>3, OwnershipAssumption DEF PublisherRemoveRing
<1>4. ASSUME NEW p \in Publishers, PublisherUnregister(p) PROVE OwnTypeOK'
  BY <1>4, OwnershipAssumption DEF PublisherUnregister
<1>5. ASSUME NEW q \in Pullers, PullerMove(q) PROVE OwnTypeOK'
  <2>1. CASE StartPuller(q)
    BY <2>1, OwnershipAssumption DEF StartPuller
  <2>2. CASE PullerFails(q)
    BY <2>2, OwnershipAssumption DEF PullerFails
  <2>3. CASE PullerAddRefused(q)
    BY <2>3, OwnershipAssumption DEF PullerAddRefused
    <2> QED BY <1>5, <2>1, <2>2, <2>3
    DEF PullerMove
<1>6. ASSUME NEW q \in Pullers, PullerRegister(q) PROVE OwnTypeOK'
  BY <1>6, OwnershipAssumption DEF PullerRegister
<1>7. ASSUME NEW q \in Pullers, PullerAdd(q) PROVE OwnTypeOK'
  BY <1>7, OwnershipAssumption DEF PullerAdd
<1>8. ASSUME NEW q \in Pullers, PullerBackout(q) PROVE OwnTypeOK'
  BY <1>8, OwnershipAssumption DEF PullerBackout
<1>9. ASSUME NEW q \in Pullers, PullerUnregister(q) PROVE OwnTypeOK'
  BY <1>9, OwnershipAssumption DEF PullerUnregister
<1>10. ASSUME NEW q \in Pullers, PullerRemoveRing(q) PROVE OwnTypeOK'
  BY <1>10, OwnershipAssumption DEF PullerRemoveRing
<1>11. ASSUME NEW r \in Roles, RoleMove(r) PROVE OwnTypeOK'
  <2>1. CASE Adopt(r)
    BY <2>1, OwnershipAssumption DEF Adopt
  <2>2. CASE DropUnadopted(r)
    BY <2>2, OwnershipAssumption DEF DropUnadopted
  <2>3. CASE Packet(r)
    BY <2>3, OwnershipAssumption DEF Packet
  <2>4. CASE FirstPacketRefused(r)
    BY <2>4, OwnershipAssumption DEF FirstPacketRefused
  <2>5. CASE FirstPut(r)
    BY <2>5, OwnershipAssumption DEF FirstPut
  <2>6. CASE ReadFails(r)
    BY <2>6, OwnershipAssumption DEF ReadFails
  <2>7. CASE Quiet(r)
    BY <2>7, OwnershipAssumption DEF Quiet
  <2>8. CASE KickSeen(r)
    BY <2>8, OwnershipAssumption DEF KickSeen
  <2>9. CASE StateFails(r)
    BY <2>9, OwnershipAssumption DEF StateFails
  <2>10. CASE Reap(r)
    BY <2>10, OwnershipAssumption DEF Reap
    <2> QED BY <1>11, <2>1, <2>2, <2>3, <2>4, <2>5, <2>6, <2>7, <2>8, <2>9,
     <2>10
    DEF RoleMove
<1>12. ASSUME NEW r \in Roles, FirstPacket(r) PROVE OwnTypeOK'
  BY <1>12, OwnershipAssumption DEF FirstPacket
<1>13. ASSUME NEW r \in Roles, EnableScan(r) PROVE OwnTypeOK'
  BY <1>13, OwnershipAssumption DEF EnableScan
<1>14. ASSUME NEW k \in Keys, Disconnect(k) PROVE OwnTypeOK'
  BY <1>14, OwnershipAssumption DEF Disconnect
<1>15. CASE UNCHANGED ownVars
  BY <1>15, OwnershipAssumption DEF ownVars, roleVars
<1> QED BY NextCases, <1>1, <1>2, <1>3, <1>4, <1>5, <1>6, <1>7, <1>8, <1>9,
   <1>10, <1>11, <1>12, <1>13, <1>14, <1>15

(* An entry is set only on a free key and erased only by its own role.     *)
LEMMA SoleOwnerStep ==
  OwnTypeOK /\ SoleOwner /\ [OwnNext]_ownVars => SoleOwner'
<1> SUFFICES ASSUME OwnTypeOK, SoleOwner, [OwnNext]_ownVars
             PROVE  SoleOwner'
  OBVIOUS
<1> USE DEF OwnTypeOK, SoleOwner, Owning, Roles, Owner, Erased
<1>1. ASSUME NEW p \in Publishers, PublisherMove(p) PROVE SoleOwner'
  BY <1>1, OwnershipAssumption DEF PublisherMove, NewPublisher,
     LookupIncumbent, Judge, TakeoverKick, CheckOwner
<1>2. ASSUME NEW p \in Publishers, Register(p) PROVE SoleOwner'
  BY <1>2, OwnershipAssumption DEF Register
<1>3. ASSUME NEW p \in Publishers, PublisherRemoveRing(p) PROVE SoleOwner'
  BY <1>3, OwnershipAssumption DEF PublisherRemoveRing
<1>4. ASSUME NEW p \in Publishers, PublisherUnregister(p) PROVE SoleOwner'
  BY <1>4, OwnershipAssumption DEF PublisherUnregister
<1>5. ASSUME NEW q \in Pullers, PullerMove(q) PROVE SoleOwner'
  BY <1>5, OwnershipAssumption DEF PullerMove, StartPuller, PullerFails,
     PullerAddRefused
<1>6. ASSUME NEW q \in Pullers, PullerRegister(q) PROVE SoleOwner'
  BY <1>6, OwnershipAssumption DEF PullerRegister
<1>7. ASSUME NEW q \in Pullers, PullerAdd(q) PROVE SoleOwner'
  BY <1>7, OwnershipAssumption DEF PullerAdd
<1>8. ASSUME NEW q \in Pullers, PullerBackout(q) PROVE SoleOwner'
  BY <1>8, OwnershipAssumption DEF PullerBackout
<1>9. ASSUME NEW q \in Pullers, PullerUnregister(q) PROVE SoleOwner'
  BY <1>9, OwnershipAssumption DEF PullerUnregister
<1>10. ASSUME NEW q \in Pullers, PullerRemoveRing(q) PROVE SoleOwner'
  BY <1>10, OwnershipAssumption DEF PullerRemoveRing
<1>11. ASSUME NEW r \in Roles, RoleMove(r) PROVE SoleOwner'
  BY <1>11, OwnershipAssumption DEF RoleMove, Adopt, DropUnadopted, Packet,
     FirstPacketRefused, FirstPut, ReadFails, Quiet, KickSeen, StateFails,
     Reap
<1>12. ASSUME NEW r \in Roles, FirstPacket(r) PROVE SoleOwner'
  BY <1>12, OwnershipAssumption DEF FirstPacket
<1>13. ASSUME NEW r \in Roles, EnableScan(r) PROVE SoleOwner'
  BY <1>13, OwnershipAssumption DEF EnableScan
<1>14. ASSUME NEW k \in Keys, Disconnect(k) PROVE SoleOwner'
  BY <1>14, OwnershipAssumption DEF Disconnect
<1>15. CASE UNCHANGED ownVars
  BY <1>15, OwnershipAssumption DEF ownVars, roleVars
<1> QED BY NextCases, <1>1, <1>2, <1>3, <1>4, <1>5, <1>6, <1>7, <1>8, <1>9,
   <1>10, <1>11, <1>12, <1>13, <1>14, <1>15

(* Only the puller itself erases the entry it comes to close with. *)
LEMMA PullerClosingStep ==
  OwnTypeOK /\ SoleOwner /\ PullerClosing /\ [OwnNext]_ownVars
    => PullerClosing'
<1> SUFFICES ASSUME OwnTypeOK, SoleOwner, PullerClosing, [OwnNext]_ownVars
             PROVE  PullerClosing'
  OBVIOUS
<1> USE DEF OwnTypeOK, SoleOwner, PullerClosing, Owning, Roles, Owner, Erased
<1>1. ASSUME NEW p \in Publishers, PublisherMove(p) PROVE PullerClosing'
  BY <1>1, OwnershipAssumption DEF PublisherMove, NewPublisher,
     LookupIncumbent, Judge, TakeoverKick, CheckOwner
<1>2. ASSUME NEW p \in Publishers, Register(p) PROVE PullerClosing'
  BY <1>2, OwnershipAssumption DEF Register
<1>3. ASSUME NEW p \in Publishers, PublisherRemoveRing(p) PROVE PullerClosing'
  BY <1>3, OwnershipAssumption DEF PublisherRemoveRing
<1>4. ASSUME NEW p \in Publishers, PublisherUnregister(p) PROVE PullerClosing'
  BY <1>4, OwnershipAssumption DEF PublisherUnregister
<1>5. ASSUME NEW q \in Pullers, PullerMove(q) PROVE PullerClosing'
  BY <1>5, OwnershipAssumption DEF PullerMove, StartPuller, PullerFails,
     PullerAddRefused
<1>6. ASSUME NEW q \in Pullers, PullerRegister(q) PROVE PullerClosing'
  BY <1>6, OwnershipAssumption DEF PullerRegister
<1>7. ASSUME NEW q \in Pullers, PullerAdd(q) PROVE PullerClosing'
  BY <1>7, OwnershipAssumption DEF PullerAdd
<1>8. ASSUME NEW q \in Pullers, PullerBackout(q) PROVE PullerClosing'
  BY <1>8, OwnershipAssumption DEF PullerBackout
<1>9. ASSUME NEW q \in Pullers, PullerUnregister(q) PROVE PullerClosing'
  BY <1>9, OwnershipAssumption DEF PullerUnregister
<1>10. ASSUME NEW q \in Pullers, PullerRemoveRing(q) PROVE PullerClosing'
  BY <1>10, OwnershipAssumption DEF PullerRemoveRing
<1>11. ASSUME NEW r \in Roles, RoleMove(r) PROVE PullerClosing'
  BY <1>11, OwnershipAssumption DEF RoleMove, Adopt, DropUnadopted, Packet,
     FirstPacketRefused, FirstPut, ReadFails, Quiet, KickSeen, StateFails,
     Reap
<1>12. ASSUME NEW r \in Roles, FirstPacket(r) PROVE PullerClosing'
  BY <1>12, OwnershipAssumption DEF FirstPacket
<1>13. ASSUME NEW r \in Roles, EnableScan(r) PROVE PullerClosing'
  BY <1>13, OwnershipAssumption DEF EnableScan
<1>14. ASSUME NEW k \in Keys, Disconnect(k) PROVE PullerClosing'
  BY <1>14, OwnershipAssumption DEF Disconnect
<1>15. CASE UNCHANGED ownVars
  BY <1>15, OwnershipAssumption DEF ownVars, roleVars
<1> QED BY NextCases, <1>1, <1>2, <1>3, <1>4, <1>5, <1>6, <1>7, <1>8, <1>9,
   <1>10, <1>11, <1>12, <1>13, <1>14, <1>15

(* A role that adds a ring owns the key, so no other one is erasing it.    *)
LEMMA EmptiedStep == OwnInv /\ [OwnNext]_ownVars => Emptied'
<1> SUFFICES ASSUME OwnInv, [OwnNext]_ownVars PROVE Emptied'
  OBVIOUS
<1> USE SameRings
    DEF OwnInv, OwnTypeOK, SoleOwner, Emptied, Owning, Roles, Owner, Erased
<1>1. ASSUME NEW p \in Publishers, PublisherMove(p) PROVE Emptied'
  BY <1>1, OwnershipAssumption DEF PublisherMove, NewPublisher,
     LookupIncumbent, Judge, TakeoverKick, CheckOwner
<1>2. ASSUME NEW p \in Publishers, Register(p) PROVE Emptied'
  BY <1>2, OwnershipAssumption DEF Register
<1>3. ASSUME NEW p \in Publishers, PublisherRemoveRing(p) PROVE Emptied'
  BY <1>3, RemoveRings, OwnershipAssumption DEF PublisherRemoveRing
<1>4. ASSUME NEW p \in Publishers, PublisherUnregister(p) PROVE Emptied'
  BY <1>4, OwnershipAssumption DEF PublisherUnregister
<1>5. ASSUME NEW q \in Pullers, PullerMove(q) PROVE Emptied'
  BY <1>5, OwnershipAssumption DEF PullerMove, StartPuller, PullerFails,
     PullerAddRefused, AddRefused
<1>6. ASSUME NEW q \in Pullers, PullerRegister(q) PROVE Emptied'
  BY <1>6, OwnershipAssumption DEF PullerRegister
<1>7. ASSUME NEW q \in Pullers, PullerAdd(q) PROVE Emptied'
  BY <1>7, AddRings, OwnershipAssumption DEF PullerAdd
<1>8. ASSUME NEW q \in Pullers, PullerBackout(q) PROVE Emptied'
  BY <1>8, OwnershipAssumption DEF PullerBackout
<1>9. ASSUME NEW q \in Pullers, PullerUnregister(q) PROVE Emptied'
  BY <1>9, OwnershipAssumption DEF PullerUnregister
<1>10. ASSUME NEW q \in Pullers, PullerRemoveRing(q) PROVE Emptied'
  BY <1>10, RemoveRings, OwnershipAssumption DEF PullerRemoveRing
<1>11. ASSUME NEW r \in Roles, RoleMove(r) PROVE Emptied'
  BY <1>11, OwnershipAssumption DEF RoleMove, Adopt, DropUnadopted, Packet,
     FirstPacketRefused, FirstPut, ReadFails, Quiet, KickSeen, StateFails,
     Reap
<1>12. ASSUME NEW r \in Roles, FirstPacket(r) PROVE Emptied'
  BY <1>12, AddRings, OwnershipAssumption DEF FirstPacket
<1>13. ASSUME NEW r \in Roles, EnableScan(r) PROVE Emptied'
  BY <1>13, ScanRings, OwnershipAssumption DEF EnableScan
<1>14. ASSUME NEW k \in Keys, Disconnect(k) PROVE Emptied'
  BY <1>14, OwnershipAssumption DEF Disconnect
<1>15. CASE UNCHANGED ownVars
  BY <1>15, OwnershipAssumption DEF ownVars, roleVars
<1> QED BY NextCases, <1>1, <1>2, <1>3, <1>4, <1>5, <1>6, <1>7, <1>8, <1>9,
   <1>10, <1>11, <1>12, <1>13, <1>14, <1>15

(* An entry is erased when its ring is gone, or by a puller that then goes *)
(* on to remove it.                                                        *)
LEMMA NoOrphanStep == OwnInv /\ [OwnNext]_ownVars => NoOrphanRing'
<1> SUFFICES ASSUME OwnInv, [OwnNext]_ownVars PROVE NoOrphanRing'
  OBVIOUS
<1> USE SameRings
    DEF OwnInv, OwnTypeOK, SoleOwner, Emptied, NoOrphanRing, Owning, Roles,
        Owner, Erased
<1>1. ASSUME NEW p \in Publishers, PublisherMove(p) PROVE NoOrphanRing'
  BY <1>1, OwnershipAssumption DEF PublisherMove, NewPublisher,
     LookupIncumbent, Judge, TakeoverKick, CheckOwner
<1>2. ASSUME NEW p \in Publishers, Register(p) PROVE NoOrphanRing'
  <2> SUFFICES ASSUME NEW k \in Rings PROVE
        \/ m_map_push_2_publisher'[k] # NoRole
        \/ \E s \in Pullers : KeyOf[s] = k /\ pc'[s] = "unring"
    BY <1>2 DEF Register
  <2>1. k \in Keys
    BY DEF Rings
  <2>2. CASE m_map_push_2_publisher[k] # NoRole
    BY <1>2, <2>1, <2>2, OwnershipAssumption DEF Register
  <2>3. ASSUME NEW s \in Pullers, KeyOf[s] = k, pc[s] = "unring"
        PROVE  pc'[s] = "unring"
    BY <1>2, <2>3, OwnershipAssumption DEF Register
  <2> QED BY <2>2, <2>3
<1>3. ASSUME NEW p \in Publishers, PublisherRemoveRing(p) PROVE NoOrphanRing'
  BY <1>3, RemoveRings, OwnershipAssumption DEF PublisherRemoveRing
<1>4. ASSUME NEW p \in Publishers, PublisherUnregister(p) PROVE NoOrphanRing'
  <2> SUFFICES ASSUME NEW k \in Rings PROVE
        \/ m_map_push_2_publisher'[k] # NoRole
        \/ \E s \in Pullers : KeyOf[s] = k /\ pc'[s] = "unring"
    BY <1>4 DEF PublisherUnregister
  <2>1. k \in Keys
    BY DEF Rings
  <2>2. CASE m_map_push_2_publisher[k] # NoRole
    BY <1>4, <2>1, <2>2, OwnershipAssumption DEF PublisherUnregister
  <2>3. ASSUME NEW s \in Pullers, KeyOf[s] = k, pc[s] = "unring"
        PROVE  pc'[s] = "unring"
    BY <1>4, <2>3, OwnershipAssumption DEF PublisherUnregister
  <2> QED BY <2>2, <2>3
<1>5. ASSUME NEW q \in Pullers, PullerMove(q) PROVE NoOrphanRing'
  BY <1>5, OwnershipAssumption DEF PullerMove, StartPuller, PullerFails,
     PullerAddRefused
<1>6. ASSUME NEW q \in Pullers, PullerRegister(q) PROVE NoOrphanRing'
  BY <1>6, OwnershipAssumption DEF PullerRegister
<1>7. ASSUME NEW q \in Pullers, PullerAdd(q) PROVE NoOrphanRing'
  BY <1>7, AddRings, OwnershipAssumption DEF PullerAdd
<1>8. ASSUME NEW q \in Pullers, PullerBackout(q) PROVE NoOrphanRing'
  <2> SUFFICES ASSUME NEW k \in Rings PROVE
        \/ m_map_push_2_publisher'[k] # NoRole
        \/ \E s \in Pullers : KeyOf[s] = k /\ pc'[s] = "unring"
    BY <1>8 DEF PullerBackout
  <2>1. k \in Keys
    BY DEF Rings
  <2>2. CASE m_map_push_2_publisher[k] # NoRole
    BY <1>8, <2>1, <2>2, OwnershipAssumption DEF PullerBackout
  <2>3. ASSUME NEW s \in Pullers, KeyOf[s] = k, pc[s] = "unring"
        PROVE  pc'[s] = "unring"
    BY <1>8, <2>3, OwnershipAssumption DEF PullerBackout
  <2> QED BY <2>2, <2>3
<1>9. ASSUME NEW q \in Pullers, PullerUnregister(q) PROVE NoOrphanRing'
  <2> SUFFICES ASSUME NEW k \in Rings PROVE
        \/ m_map_push_2_publisher'[k] # NoRole
        \/ \E s \in Pullers : KeyOf[s] = k /\ pc'[s] = "unring"
    BY <1>9 DEF PullerUnregister
  <2>1. k \in Keys
    BY DEF Rings
  <2>2. CASE m_map_push_2_publisher[k] # NoRole
    BY <1>9, <2>1, <2>2, OwnershipAssumption DEF PullerUnregister
  <2>3. ASSUME NEW s \in Pullers, KeyOf[s] = k, pc[s] = "unring"
        PROVE  pc'[s] = "unring"
    BY <1>9, <2>3, OwnershipAssumption DEF PullerUnregister
  <2> QED BY <2>2, <2>3
<1>10. ASSUME NEW q \in Pullers, PullerRemoveRing(q) PROVE NoOrphanRing'
  BY <1>10, RemoveRings, OwnershipAssumption DEF PullerRemoveRing
<1>11. ASSUME NEW r \in Roles, RoleMove(r) PROVE NoOrphanRing'
  BY <1>11, OwnershipAssumption DEF RoleMove, Adopt, DropUnadopted, Packet,
     FirstPacketRefused, FirstPut, ReadFails, Quiet, KickSeen, StateFails,
     Reap
<1>12. ASSUME NEW r \in Roles, FirstPacket(r) PROVE NoOrphanRing'
  BY <1>12, AddRings, OwnershipAssumption DEF FirstPacket
<1>13. ASSUME NEW r \in Roles, EnableScan(r) PROVE NoOrphanRing'
  BY <1>13, ScanRings, OwnershipAssumption, ZenonT(40) DEF EnableScan
<1>14. ASSUME NEW k \in Keys, Disconnect(k) PROVE NoOrphanRing'
  BY <1>14, OwnershipAssumption DEF Disconnect
<1>15. CASE UNCHANGED ownVars
  BY <1>15, OwnershipAssumption DEF ownVars, roleVars
<1> QED BY NextCases, <1>1, <1>2, <1>3, <1>4, <1>5, <1>6, <1>7, <1>8, <1>9,
   <1>10, <1>11, <1>12, <1>13, <1>14, <1>15

(* OwnInv is inductive. *)
LEMMA OwnInvariant == OwnSpec => []OwnInv
<1>1. OwnInit => OwnInv
  <2> SUFFICES ASSUME OwnInit PROVE OwnInv
    OBVIOUS
  <2>1. MapInv
    BY InitInv DEF OwnInit
  <2>2. Rings = {}
    BY DEF OwnInit, MapInit, Rings
  <2> QED BY <2>1, <2>2, OwnershipAssumption
          DEF OwnInit, OwnInv, OwnTypeOK, SoleOwner, PullerClosing, Emptied,
              NoOrphanRing, Owning, Resting, Busy, Roles
<1>2. OwnInv /\ [OwnNext]_ownVars => OwnInv'
  BY MapSteps, MapStep, OwnTypeStep, SoleOwnerStep, PullerClosingStep,
     EmptiedStep, NoOrphanStep DEF OwnInv
<1> QED BY <1>1, <1>2, PTL DEF OwnSpec

(* The types of the roles' state and of the publisher map. *)
THEOREM OwnershipTypeCorrect == OwnSpec => []OwnTypeOK
<1>1. OwnInv => OwnTypeOK
  BY DEF OwnInv
<1> QED BY <1>1, OwnInvariant, PTL

(* The single-writer invariant: with any number of workers and listeners,  *)
(* a role that has claimed a key is its registered owner until its uninit. *)
THEOREM OwnershipSoleOwner == OwnSpec => []SoleOwner
<1>1. OwnInv => SoleOwner
  BY DEF OwnInv
<1> QED BY <1>1, OwnInvariant, PTL

(* With any number of workers no ring outlives its owner, except for the   *)
(* moment between the two steps of a puller's uninit().                    *)
THEOREM OwnershipNoOrphan == OwnSpec => []NoOrphanRing
<1>1. OwnInv => NoOrphanRing
  BY DEF OwnInv
<1> QED BY <1>1, OwnInvariant, PTL

-----------------------------------------------------------------------------
(* One worker.                                                             *)

(* With one worker, an operation starts only when none is under way. *)
LEMMA ExclusiveStep ==
  ASSUME SharedWorker
  PROVE  OwnTypeOK /\ Exclusive /\ [OwnNext]_ownVars => Exclusive'
<1> SUFFICES ASSUME OwnTypeOK, Exclusive, [OwnNext]_ownVars PROVE Exclusive'
  OBVIOUS
<1> USE DEF OwnTypeOK, Exclusive, WorkerFree, Resting, Busy, Roles
<1>1. ASSUME NEW p \in Publishers, PublisherMove(p) PROVE Exclusive'
  BY <1>1, OwnershipAssumption DEF PublisherMove, NewPublisher,
     LookupIncumbent, Judge, TakeoverKick, CheckOwner
<1>2. ASSUME NEW p \in Publishers, Register(p) PROVE Exclusive'
  BY <1>2, OwnershipAssumption DEF Register
<1>3. ASSUME NEW p \in Publishers, PublisherRemoveRing(p) PROVE Exclusive'
  BY <1>3, OwnershipAssumption DEF PublisherRemoveRing
<1>4. ASSUME NEW p \in Publishers, PublisherUnregister(p) PROVE Exclusive'
  BY <1>4, OwnershipAssumption DEF PublisherUnregister
<1>5. ASSUME NEW q \in Pullers, PullerMove(q) PROVE Exclusive'
  BY <1>5, OwnershipAssumption DEF PullerMove, StartPuller, PullerFails,
     PullerAddRefused
<1>6. ASSUME NEW q \in Pullers, PullerRegister(q) PROVE Exclusive'
  BY <1>6, OwnershipAssumption DEF PullerRegister
<1>7. ASSUME NEW q \in Pullers, PullerAdd(q) PROVE Exclusive'
  BY <1>7, OwnershipAssumption DEF PullerAdd
<1>8. ASSUME NEW q \in Pullers, PullerBackout(q) PROVE Exclusive'
  BY <1>8, OwnershipAssumption DEF PullerBackout
<1>9. ASSUME NEW q \in Pullers, PullerUnregister(q) PROVE Exclusive'
  BY <1>9, OwnershipAssumption DEF PullerUnregister
<1>10. ASSUME NEW q \in Pullers, PullerRemoveRing(q) PROVE Exclusive'
  BY <1>10, OwnershipAssumption DEF PullerRemoveRing
<1>11. ASSUME NEW r \in Roles, RoleMove(r) PROVE Exclusive'
  BY <1>11, OwnershipAssumption DEF RoleMove, Adopt, DropUnadopted, Packet,
     FirstPacketRefused, FirstPut, ReadFails, Quiet, KickSeen, StateFails,
     Reap
<1>12. ASSUME NEW r \in Roles, FirstPacket(r) PROVE Exclusive'
  BY <1>12, OwnershipAssumption DEF FirstPacket
<1>13. ASSUME NEW r \in Roles, EnableScan(r) PROVE Exclusive'
  BY <1>13, OwnershipAssumption DEF EnableScan
<1>14. ASSUME NEW k \in Keys, Disconnect(k) PROVE Exclusive'
  BY <1>14, OwnershipAssumption DEF Disconnect
<1>15. CASE UNCHANGED ownVars
  BY <1>15, OwnershipAssumption DEF ownVars, roleVars
<1> QED BY NextCases, <1>1, <1>2, <1>3, <1>4, <1>5, <1>6, <1>7, <1>8, <1>9,
   <1>10, <1>11, <1>12, <1>13, <1>14, <1>15

(* With one worker, nobody claims the key between check and removal. *)
LEMMA RemovingOwnStep ==
  OwnInv /\ Exclusive /\ RemovingOwn /\ [OwnNext]_ownVars => RemovingOwn'
<1> SUFFICES ASSUME OwnInv, Exclusive, RemovingOwn, [OwnNext]_ownVars
             PROVE  RemovingOwn'
  OBVIOUS
<1> USE DEF OwnInv, OwnTypeOK, Exclusive, PullerClosing, RemovingOwn,
            Resting, Busy, Roles, Owner, Erased
<1>1. ASSUME NEW p \in Publishers, PublisherMove(p) PROVE RemovingOwn'
  BY <1>1, OwnershipAssumption DEF PublisherMove, NewPublisher,
     LookupIncumbent, Judge, TakeoverKick, CheckOwner
<1>2. ASSUME NEW p \in Publishers, Register(p) PROVE RemovingOwn'
  BY <1>2, OwnershipAssumption DEF Register
<1>3. ASSUME NEW p \in Publishers, PublisherRemoveRing(p) PROVE RemovingOwn'
  BY <1>3, OwnershipAssumption DEF PublisherRemoveRing
<1>4. ASSUME NEW p \in Publishers, PublisherUnregister(p) PROVE RemovingOwn'
  BY <1>4, OwnershipAssumption DEF PublisherUnregister
<1>5. ASSUME NEW q \in Pullers, PullerMove(q) PROVE RemovingOwn'
  BY <1>5, OwnershipAssumption DEF PullerMove, StartPuller, PullerFails,
     PullerAddRefused
<1>6. ASSUME NEW q \in Pullers, PullerRegister(q) PROVE RemovingOwn'
  BY <1>6, OwnershipAssumption DEF PullerRegister
<1>7. ASSUME NEW q \in Pullers, PullerAdd(q) PROVE RemovingOwn'
  BY <1>7, OwnershipAssumption DEF PullerAdd
<1>8. ASSUME NEW q \in Pullers, PullerBackout(q) PROVE RemovingOwn'
  BY <1>8, OwnershipAssumption DEF PullerBackout
<1>9. ASSUME NEW q \in Pullers, PullerUnregister(q) PROVE RemovingOwn'
  BY <1>9, OwnershipAssumption DEF PullerUnregister
<1>10. ASSUME NEW q \in Pullers, PullerRemoveRing(q) PROVE RemovingOwn'
  BY <1>10, OwnershipAssumption DEF PullerRemoveRing
<1>11. ASSUME NEW r \in Roles, RoleMove(r) PROVE RemovingOwn'
  BY <1>11, OwnershipAssumption DEF RoleMove, Adopt, DropUnadopted, Packet,
     FirstPacketRefused, FirstPut, ReadFails, Quiet, KickSeen, StateFails,
     Reap
<1>12. ASSUME NEW r \in Roles, FirstPacket(r) PROVE RemovingOwn'
  BY <1>12, OwnershipAssumption DEF FirstPacket
<1>13. ASSUME NEW r \in Roles, EnableScan(r) PROVE RemovingOwn'
  BY <1>13, OwnershipAssumption DEF EnableScan
<1>14. ASSUME NEW k \in Keys, Disconnect(k) PROVE RemovingOwn'
  BY <1>14, OwnershipAssumption DEF Disconnect
<1>15. CASE UNCHANGED ownVars
  BY <1>15, OwnershipAssumption DEF ownVars, roleVars
<1> QED BY NextCases, <1>1, <1>2, <1>3, <1>4, <1>5, <1>6, <1>7, <1>8, <1>9,
   <1>10, <1>11, <1>12, <1>13, <1>14, <1>15

(* The role whose ring goes is the owner of the key or nobody is, and a    *)
(* running session would be the owner.                                     *)
LEMMA RingKeptStep ==
  OwnInv /\ RemovingOwn /\ RingKept /\ [OwnNext]_ownVars => RingKept'
<1> SUFFICES ASSUME OwnInv, RemovingOwn, RingKept, [OwnNext]_ownVars
             PROVE  RingKept'
  OBVIOUS
<1> USE SameRings
    DEF OwnInv, OwnTypeOK, SoleOwner, RemovingOwn, RingKept, Owning, Roles,
        Owner, Fresh
<1>1. ASSUME NEW p \in Publishers, PublisherMove(p) PROVE RingKept'
  BY <1>1, OwnershipAssumption DEF PublisherMove, NewPublisher,
     LookupIncumbent, Judge, TakeoverKick, CheckOwner
<1>2. ASSUME NEW p \in Publishers, Register(p) PROVE RingKept'
  BY <1>2, OwnershipAssumption DEF Register
<1>3. ASSUME NEW p \in Publishers, PublisherRemoveRing(p) PROVE RingKept'
  BY <1>3, RemoveRings, OwnershipAssumption DEF PublisherRemoveRing
<1>4. ASSUME NEW p \in Publishers, PublisherUnregister(p) PROVE RingKept'
  BY <1>4, OwnershipAssumption DEF PublisherUnregister
<1>5. ASSUME NEW q \in Pullers, PullerMove(q) PROVE RingKept'
  BY <1>5, OwnershipAssumption DEF PullerMove, StartPuller, PullerFails,
     PullerAddRefused
<1>6. ASSUME NEW q \in Pullers, PullerRegister(q) PROVE RingKept'
  BY <1>6, OwnershipAssumption DEF PullerRegister
<1>7. ASSUME NEW q \in Pullers, PullerAdd(q) PROVE RingKept'
  BY <1>7, AddRings, OwnershipAssumption DEF PullerAdd
<1>8. ASSUME NEW q \in Pullers, PullerBackout(q) PROVE RingKept'
  BY <1>8, OwnershipAssumption DEF PullerBackout
<1>9. ASSUME NEW q \in Pullers, PullerUnregister(q) PROVE RingKept'
  BY <1>9, OwnershipAssumption DEF PullerUnregister
<1>10. ASSUME NEW q \in Pullers, PullerRemoveRing(q) PROVE RingKept'
  BY <1>10, RemoveRings, OwnershipAssumption DEF PullerRemoveRing
<1>11. ASSUME NEW r \in Roles, RoleMove(r) PROVE RingKept'
  BY <1>11, OwnershipAssumption DEF RoleMove, Adopt, DropUnadopted, Packet,
     FirstPacketRefused, FirstPut, ReadFails, Quiet, KickSeen, StateFails,
     Reap
<1>12. ASSUME NEW r \in Roles, FirstPacket(r) PROVE RingKept'
  BY <1>12, AddRings, OwnershipAssumption DEF FirstPacket
<1>13. ASSUME NEW r \in Roles, EnableScan(r) PROVE RingKept'
  BY <1>13, ScanRings, OwnershipAssumption DEF EnableScan
<1>14. ASSUME NEW k \in Keys, Disconnect(k) PROVE RingKept'
  BY <1>14, OwnershipAssumption DEF Disconnect
<1>15. CASE UNCHANGED ownVars
  BY <1>15, OwnershipAssumption DEF ownVars, roleVars
<1> QED BY NextCases, <1>1, <1>2, <1>3, <1>4, <1>5, <1>6, <1>7, <1>8, <1>9,
   <1>10, <1>11, <1>12, <1>13, <1>14, <1>15

(* With one worker, the key still has its ring when its scanner is added. *)
LEMMA ScannerStep ==
  OwnInv /\ RingKept /\ ScannerTracksRing /\ [OwnNext]_ownVars
    => ScannerTracksRing'
<1> SUFFICES ASSUME OwnInv, RingKept, ScannerTracksRing, [OwnNext]_ownVars
             PROVE  ScannerTracksRing'
  OBVIOUS
<1> USE SameRings
    DEF OwnInv, OwnTypeOK, RingKept, ScannerTracksRing, Roles
<1>1. ASSUME NEW p \in Publishers, PublisherMove(p) PROVE ScannerTracksRing'
  BY <1>1, OwnershipAssumption DEF PublisherMove, NewPublisher,
     LookupIncumbent, Judge, TakeoverKick, CheckOwner
<1>2. ASSUME NEW p \in Publishers, Register(p) PROVE ScannerTracksRing'
  BY <1>2, OwnershipAssumption DEF Register
<1>3. ASSUME NEW p \in Publishers, PublisherRemoveRing(p) PROVE ScannerTracksRing'
  BY <1>3, RemoveRings, OwnershipAssumption DEF PublisherRemoveRing
<1>4. ASSUME NEW p \in Publishers, PublisherUnregister(p) PROVE ScannerTracksRing'
  BY <1>4, OwnershipAssumption DEF PublisherUnregister
<1>5. ASSUME NEW q \in Pullers, PullerMove(q) PROVE ScannerTracksRing'
  BY <1>5, OwnershipAssumption DEF PullerMove, StartPuller, PullerFails,
     PullerAddRefused
<1>6. ASSUME NEW q \in Pullers, PullerRegister(q) PROVE ScannerTracksRing'
  BY <1>6, OwnershipAssumption DEF PullerRegister
<1>7. ASSUME NEW q \in Pullers, PullerAdd(q) PROVE ScannerTracksRing'
  BY <1>7, AddRings, OwnershipAssumption DEF PullerAdd
<1>8. ASSUME NEW q \in Pullers, PullerBackout(q) PROVE ScannerTracksRing'
  BY <1>8, OwnershipAssumption DEF PullerBackout
<1>9. ASSUME NEW q \in Pullers, PullerUnregister(q) PROVE ScannerTracksRing'
  BY <1>9, OwnershipAssumption DEF PullerUnregister
<1>10. ASSUME NEW q \in Pullers, PullerRemoveRing(q) PROVE ScannerTracksRing'
  BY <1>10, RemoveRings, OwnershipAssumption DEF PullerRemoveRing
<1>11. ASSUME NEW r \in Roles, RoleMove(r) PROVE ScannerTracksRing'
  BY <1>11, OwnershipAssumption DEF RoleMove, Adopt, DropUnadopted, Packet,
     FirstPacketRefused, FirstPut, ReadFails, Quiet, KickSeen, StateFails,
     Reap
<1>12. ASSUME NEW r \in Roles, FirstPacket(r) PROVE ScannerTracksRing'
  BY <1>12, AddRings, OwnershipAssumption DEF FirstPacket
<1>13. ASSUME NEW r \in Roles, EnableScan(r) PROVE ScannerTracksRing'
  <2>1. KeyOf[r] \in Keys /\ KeyOf[r] \in Rings
    BY <1>13, OwnershipAssumption DEF EnableScan
  <2>2. CASE r \in timecode_sei
    <3>1. SetTimecodeScan(KeyOf[r], TRUE)
      BY <1>13, <2>2 DEF EnableScan
    <3>2. Rings' = Rings /\ m_map_tc_state' = m_map_tc_state \cup {KeyOf[r]}
      BY <2>1, <3>1, ScanRings, Zenon
    <3> QED BY <2>1, <3>2
  <2>3. CASE r \notin timecode_sei
    BY <1>13, <2>3 DEF EnableScan
  <2> QED BY <2>2, <2>3
<1>14. ASSUME NEW k \in Keys, Disconnect(k) PROVE ScannerTracksRing'
  BY <1>14, OwnershipAssumption DEF Disconnect
<1>15. CASE UNCHANGED ownVars
  BY <1>15, OwnershipAssumption DEF ownVars, roleVars
<1> QED BY NextCases, <1>1, <1>2, <1>3, <1>4, <1>5, <1>6, <1>7, <1>8, <1>9,
   <1>10, <1>11, <1>12, <1>13, <1>14, <1>15

(* With one worker a session keeps its ring until it is torn down itself,  *)
(* and a timecode scanner goes with its ring.                              *)
THEOREM OwnershipRingKept ==
  ASSUME SharedWorker
  PROVE  OwnSpec => [](RingKept /\ ScannerTracksRing)
<1>1. OwnInit => SharedInv
  BY OwnershipAssumption
     DEF OwnInit, MapInit, SharedInv, Exclusive, RemovingOwn, RingKept,
         ScannerTracksRing, Busy, Roles
<1>2. OwnInv /\ SharedInv /\ [OwnNext]_ownVars => SharedInv'
  BY ExclusiveStep, RemovingOwnStep, RingKeptStep, ScannerStep
     DEF SharedInv, OwnInv
<1>3. SharedInv => RingKept /\ ScannerTracksRing
  BY DEF SharedInv
<1> QED BY <1>1, <1>2, <1>3, OwnInvariant, PTL DEF OwnSpec
=============================================================================
