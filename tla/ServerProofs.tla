---------------------------- MODULE ServerProofs ----------------------------
(***************************************************************************)
(* Proofs about the server around its streams: the sending side of a       *)
(* player (Egress), the reaping of a silent role (RoleTimeouts), the PID   *)
(* file (PidFile), the push destinations of a publisher (PushTargets) and  *)
(* the life of managers, workers and configurations (Server).              *)
(***************************************************************************)
EXTENDS Egress, RoleTimeouts, PidFile, PushTargets, Server, CountingTheorems,
        SequenceTheorems

-----------------------------------------------------------------------------
(* Sending.  What makes in-order delivery inductive: the bytes in m_data   *)
(* end where the reader stands in the ring, and m_data is empty or holds   *)
(* at least a packet, so that a fetch never finds a rest in it.            *)
StagedInv ==
  /\ {published, readPos, staged, m_data_pos, m_data_len, expected} \subseteq Nat
  /\ readPos <= published
  /\ m_data_pos <= m_data_len
  /\ m_data_len = 0 \/ m_data_len >= TS_UDP_LEN
  /\ m_data_pos < m_data_len => staged + m_data_len = readPos
  /\ SentInOrder

(* get() hands out nothing or at least a packet, and no more than is there. *)
LEMMA AvailableBounds ==
  ASSUME published \in Nat, readPos \in Nat, readPos <= published
  PROVE  /\ Available \in Nat
         /\ Available <= published - readPos
         /\ Available = 0 \/ Available >= TS_UDP_LEN
<1> DEFINE n == published - readPos
           q == n \div TS_UDP_LEN
<1>1. TS_UDP_LEN \in Nat /\ TS_UDP_LEN > 0 /\ DATA_BUFF_SIZE \in Nat /\ DATA_BUFF_SIZE >= TS_UDP_LEN
  BY EgressAssumption
<1>2. n \in Nat
  OBVIOUS
<1>3. q \in Nat /\ q * TS_UDP_LEN <= n
  BY <1>1, <1>2, Z3
<1>4. q * TS_UDP_LEN \in Nat
  BY <1>1, <1>3
<1>5. q = 0 \/ q * TS_UDP_LEN >= TS_UDP_LEN
  BY <1>1, <1>3, Z3
<1>6. Available = IF q * TS_UDP_LEN < DATA_BUFF_SIZE THEN q * TS_UDP_LEN ELSE DATA_BUFF_SIZE
  BY DEF Available
<1> HIDE DEF n, q
<1>7. q = 0 => q * TS_UDP_LEN = 0
  BY <1>1
<1> QED
  BY <1>1, <1>2, <1>3, <1>4, <1>5, <1>6, <1>7 DEF n

LEMMA StagedInvStep == StagedInv /\ [EgressNext]_egressVars => StagedInv'
<1> SUFFICES ASSUME StagedInv, [EgressNext]_egressVars PROVE StagedInv'
  OBVIOUS
<1> USE DEF StagedInv, SentInOrder
<1>0. TS_UDP_LEN \in Nat /\ TS_UDP_LEN > 0
  BY EgressAssumption
<1>1. CASE EgressPass
  BY <1>1 DEF EgressPass, ringSide, buffer
<1>2. CASE Fetch
  <2>1. CASE ~MayFetch
    BY <1>2, <2>1 DEF Fetch, ringSide, buffer
  <2>2. MayFetch => m_data_len = 0 /\ m_data_pos = 0
    BY <1>0 DEF MayFetch
  <2>3. CASE MayFetch /\ hasRing /\ Lapped
    BY <1>2, <2>2, <2>3 DEF Fetch, ringSide, buffer
  <2>4. CASE MayFetch /\ hasRing /\ ~Lapped /\ Available > 0
    <3>1. staged' = readPos /\ m_data_pos' = 0 /\ m_data_len' = Available
          /\ readPos' = readPos + Available /\ expected' = expected /\ published' = published
      BY <1>2, <2>4 DEF Fetch, ringSide
    <3>2. expected = readPos
      BY <2>2, <2>4
    <3> QED BY <3>1, <3>2, <2>4, <1>0, AvailableBounds
  <2>5. CASE MayFetch /\ ~(hasRing /\ Lapped) /\ ~(hasRing /\ ~Lapped /\ Available > 0)
    BY <1>2, <2>5 DEF Fetch, ringSide, buffer
  <2> QED BY <2>1, <2>3, <2>4, <2>5
<1>3. CASE Send
  BY <1>0, <1>3 DEF Send, ringSide
<1>4. CASE Backpressured
  BY <1>4 DEF Backpressured, ringSide, buffer
<1>5. CASE SendFails
  BY <1>5 DEF SendFails, ringSide, buffer
<1>6. CASE BatchDone
  BY <1>0, <1>6 DEF BatchDone, ringSide
<1>7. CASE update_egress_arming
  BY <1>7 DEF update_egress_arming, ringSide, buffer
<1>8. CASE get_state
  BY <1>8 DEF get_state, ringSide, buffer
<1>9. CASE \E n \in 1..TS_UDP_LEN : Publish(n)
  BY <1>0, <1>9 DEF Publish, buffer
<1>10. CASE PublisherGone \/ Acknowledged \/ PeerGone \/ EgressTick
  BY <1>10 DEF PublisherGone, Acknowledged, PeerGone, EgressTick, ringSide, buffer
<1>11. CASE UNCHANGED egressVars
  BY <1>11 DEF egressVars
<1>12. CASE ShortWrite
  BY <1>12 DEF ShortWrite, buffer
<1> QED
  BY <1>1, <1>2, <1>3, <1>4, <1>5, <1>6, <1>7, <1>8, <1>9, <1>10, <1>11, <1>12
  DEF EgressNext, handler_write_data

(* handler_write_data(): for any packet, buffer, ring and batch sizes, a   *)
(* viewer is handed the next byte it needs, over refused packets and       *)
(* passes, and skips only when the ring has lapped it.                     *)
THEOREM EgressInOrder == EgressSpec => []SentInOrder
<1>1. EgressInit => StagedInv
  BY DEF EgressInit, StagedInv, SentInOrder
<1>2. StagedInv => SentInOrder
  BY DEF StagedInv
<1> QED
  BY <1>1, <1>2, StagedInvStep, PTL DEF EgressSpec

-----------------------------------------------------------------------------
(* Backpressure.  The streak of refusals is never older than the last      *)
(* packet that was sent, and a role that is done sends no more.            *)
StreakInv ==
  /\ sinceSent \in Nat
  /\ m_backpressure_stuck_since_ms \in Nat \cup {-1}
  /\ m_backpressure_stuck_since_ms <= sinceSent
  /\ ended # "no" => epc = "parked"
  /\ StuckJustified

LEMMA StreakInvStep == StreakInv /\ [EgressNext]_egressVars => StreakInv'
<1> SUFFICES ASSUME StreakInv, [EgressNext]_egressVars PROVE StreakInv'
  OBVIOUS
<1> USE DEF StreakInv, StuckJustified
<1>0. StuckTimeout \in Nat
  BY EgressAssumption
<1>1. CASE EgressPass
  BY <1>1 DEF EgressPass, clocks
<1>2. CASE Fetch
  BY <1>2 DEF Fetch
<1>3. CASE Send
  BY <1>3 DEF Send, StreakAfterSend
<1>4. CASE Backpressured
  BY <1>0, <1>4 DEF Backpressured, Invalidated, Streak
<1>5. CASE SendFails
  BY <1>5 DEF SendFails, Invalidated, clocks
<1>6. CASE BatchDone
  BY <1>6 DEF BatchDone, clocks
<1>7. CASE update_egress_arming
  BY <1>7 DEF update_egress_arming, clocks
<1>8. CASE get_state
  BY <1>8 DEF get_state, Invalidated, clocks
<1>9. CASE (\E n \in 1..TS_UDP_LEN : Publish(n)) \/ PublisherGone \/ Acknowledged \/ PeerGone
  BY <1>9 DEF Publish, PublisherGone, Acknowledged, PeerGone, clocks
<1>10. CASE EgressTick
  BY <1>10 DEF EgressTick, Aged
<1>11. CASE UNCHANGED egressVars
  BY <1>11 DEF egressVars
<1>12. CASE ShortWrite
  BY <1>12 DEF ShortWrite, clocks
<1> QED
  BY <1>1, <1>2, <1>3, <1>4, <1>5, <1>6, <1>7, <1>8, <1>9, <1>10, <1>11, <1>12
  DEF EgressNext, handler_write_data

(* handler_write_data(): for any timeout, a viewer is dropped as stuck     *)
(* only after it took no packet for longer than the timeout.               *)
THEOREM EgressStuckJustified == EgressSpec => []StuckJustified
<1>1. EgressInit => StreakInv
  BY DEF EgressInit, StreakInv, StuckJustified
<1>2. StreakInv => StuckJustified
  BY DEF StreakInv
<1> QED
  BY <1>1, <1>2, StreakInvStep, PTL DEF EgressSpec

-----------------------------------------------------------------------------
(* Reaping.  m_invalid_begin_tm is never older than the last packet, nor   *)
(* than the permission.                                                    *)
SilenceInv ==
  /\ limits \in [first : Nat, idle : Nat \cup {-1}]
  /\ m_invalid_begin_tm \in Nat /\ silent \in Nat /\ permitted \in Nat
  /\ m_invalid_begin_tm <= silent
  /\ passed => m_invalid_begin_tm <= permitted
  /\ IdleReapJustified

LEMMA SilenceInvStep == SilenceInv /\ [TimeoutNext]_timeoutVars => SilenceInv'
<1> SUFFICES ASSUME SilenceInv, [TimeoutNext]_timeoutVars PROVE SilenceInv'
  OBVIOUS
<1> USE DEF SilenceInv, IdleReapJustified, OnProbation
<1>1. CASE Authorized
  BY <1>1 DEF Authorized, ActivityAfterAuth
<1>2. CASE PacketRead
  BY <1>2 DEF PacketRead
<1>3. CASE GetState
  BY <1>3 DEF GetState, sls_should_reap_role
<1>4. CASE KickOrBreak
  BY <1>4 DEF KickOrBreak
<1>5. CASE TimeoutTick
  BY <1>5 DEF TimeoutTick
<1>7. CASE BatchTaken
  BY <1>7 DEF BatchTaken
<1>6. CASE UNCHANGED timeoutVars
  BY <1>6 DEF timeoutVars
<1> QED
  BY <1>1, <1>2, <1>3, <1>4, <1>5, <1>6, <1>7 DEF TimeoutNext

(* get_state(), sls_should_reap_role(): for any probation and idle         *)
(* timeout, a role is reaped as idle only after a whole timeout without a  *)
(* packet, the wait for the webhook left out of it once it is over; on     *)
(* probation that wait never ends in reaping.                              *)
THEOREM ReapJustified == TimeoutSpec => []IdleReapJustified
<1>1. TimeoutInit => SilenceInv
  <2> SUFFICES ASSUME TimeoutInit PROVE SilenceInv
    OBVIOUS
  <2>1. limits.first \in Nat /\ limits.idle \in Nat \cup {-1}
        /\ limits = [first |-> limits.first, idle |-> limits.idle]
    BY TimeoutAssumption DEF TimeoutInit
  <2>2. limits \in [first : Nat, idle : Nat \cup {-1}]
    BY <2>1
  <2> QED BY <2>2 DEF TimeoutInit, SilenceInv, IdleReapJustified, OnProbation
<1>2. SilenceInv => IdleReapJustified
  BY DEF SilenceInv
<1> QED
  BY <1>1, <1>2, SilenceInvStep, PTL DEF TimeoutSpec

-----------------------------------------------------------------------------
(* The PID file, for any number of instances, paths and reloads.           *)

PidPlaces == {"off", "probe", "create", "write", "running", "leave", "gone"}

(* The part of the state that the argument is about.                       *)
PidTypes ==
  /\ file \in [PidPaths -> Instances \cup {Nobody, Empty}]
  /\ pid_file_name \in [Instances -> PidPaths]
  /\ pidpc \in [Instances -> PidPlaces]

(* From the exclusive create on a path has one holder, and what is in its  *)
(* file is the holder's PID or nothing.                                    *)
PidHeld ==
  \A i \in Instances : pidpc[i] \in {"write", "running"} =>
    /\ file[pid_file_name[i]] \in {i, Empty}
    /\ pidpc[i] = "write" => file[pid_file_name[i]] = Empty
    /\ \A j \in Instances \ {i} : ~Holds(j, pid_file_name[i])

PidInv == PidTypes /\ PidHeld

(* Removing the file of a path that nobody holds.                          *)
LEMMA FileRemoved ==
  ASSUME PidInv, NEW p \in PidPaths,
         \A j \in Instances : pidpc'[j] \in {"write", "running"} =>
           pidpc[j] = pidpc'[j] /\ pid_file_name[j] # p,
         UNCHANGED pid_file_name,
         file' = [file EXCEPT ![p] = Nobody]
  PROVE  PidHeld'
BY DEF PidInv, PidTypes, PidHeld, Holds

(* A step that leaves the files alone and makes no holder.                 *)
LEMMA FilesKept ==
  ASSUME PidInv, UNCHANGED file,
         \A j \in Instances : pidpc'[j] \in {"write", "running"} =>
           pidpc[j] = pidpc'[j] /\ pid_file_name'[j] = pid_file_name[j]
  PROVE  PidHeld'
BY DEF PidInv, PidHeld, Holds

LEMMA PidInductive == PidInv /\ [PidNext]_pidVars => PidInv'
<1> SUFFICES ASSUME PidInv, [PidNext]_pidVars
             PROVE  PidInv'
  OBVIOUS
<1> USE PidAssumption
<1>1. ASSUME NEW i \in Instances, NEW c \in PidPaths \cup {Unset}, Launch(i, c)
      PROVE  PidInv'
  <2>1. PidTypes'
    BY <1>1 DEF Launch, At, PidInv, PidTypes, PidPlaces
  <2>2. \A j \in Instances : pidpc'[j] \in {"write", "running"} =>
          pidpc[j] = pidpc'[j] /\ pid_file_name'[j] = pid_file_name[j]
    BY <1>1 DEF Launch, At, PidInv, PidTypes, PidPlaces
  <2> QED BY <2>1, <2>2, <1>1, FilesKept DEF Launch, PidInv
<1>2. ASSUME NEW i \in Instances,
             ProbePid(i) \/ sls_drop_privileges(i) \/ StopMain(i) \/ Killed(i)
      PROVE  PidInv'
  <2>1. PidTypes' /\ UNCHANGED <<file, pid_file_name>>
    BY <1>2 DEF ProbePid, sls_drop_privileges, StopMain, Killed, At, PidInv, PidTypes, PidPlaces
  <2>2. \A j \in Instances : pidpc'[j] \in {"write", "running"} => pidpc[j] = pidpc'[j]
    BY <1>2 DEF ProbePid, sls_drop_privileges, StopMain, Killed, At, PidInv, PidTypes
  <2> QED BY <2>1, <2>2, FilesKept DEF PidInv
<1>3. ASSUME NEW i \in Instances, CreatePid(i)
      PROVE  PidInv'
  <2>1. PidTypes' /\ UNCHANGED pid_file_name /\ pidpc[i] = "create"
    BY <1>3 DEF CreatePid, At, PidInv, PidTypes, PidPlaces
  <2>2. CASE file[pid_file_name[i]] = Nobody
    \* O_EXCL: there was no file, so nobody held the path.
    <3>1. pid_file_name[i] \in PidPaths
      BY DEF PidInv, PidTypes
    <3>2. /\ file' = [file EXCEPT ![pid_file_name[i]] = Empty]
          /\ pidpc' = [pidpc EXCEPT ![i] = "write"]
      BY <1>3, <2>2 DEF CreatePid, MayCreate, At
    <3>3. \A j \in Instances : ~Holds(j, pid_file_name[i])
      BY <2>2 DEF PidInv, PidHeld, Holds, Nobody, Empty
    <3>4. \A j \in Instances : pidpc'[j] \in {"write", "running"} =>
            \/ j = i
            \/ pidpc[j] = pidpc'[j] /\ pid_file_name[j] # pid_file_name[i]
      BY <3>2, <3>3 DEF PidInv, PidTypes, Holds
    <3>5. PidHeld'
      BY <2>1, <3>1, <3>2, <3>4 DEF PidInv, PidTypes, PidHeld, Holds
    <3> QED BY <2>1, <3>5 DEF PidInv
  <2>3. CASE file[pid_file_name[i]] # Nobody
    <3>1. UNCHANGED file
      BY <1>3, <2>3 DEF CreatePid, MayCreate
    <3>2. \A j \in Instances : pidpc'[j] \in {"write", "running"} =>
            pidpc[j] = pidpc'[j] /\ pid_file_name'[j] = pid_file_name[j]
      BY <1>3, <2>3 DEF CreatePid, MayCreate, At, PidInv, PidTypes
    <3> QED BY <2>1, <3>1, <3>2, FilesKept DEF PidInv
  <2> QED BY <2>2, <2>3
<1>8. ASSUME NEW i \in Instances, WritePid(i)
      PROVE  PidInv'
  <2>1. /\ UNCHANGED pid_file_name /\ pidpc[i] = "write"
        /\ pidpc' = [pidpc EXCEPT ![i] = "running"]
        /\ file' \in {file, [file EXCEPT ![pid_file_name[i]] = i]}
    BY <1>8 DEF WritePid, At
  <2>2. PidTypes'
    BY <2>1 DEF PidInv, PidTypes, PidPlaces
  <2>3. \A j \in Instances : pidpc'[j] \in {"write", "running"} =>
          \/ j = i
          \/ pidpc[j] = pidpc'[j] /\ pid_file_name[j] # pid_file_name[i]
    BY <2>1 DEF PidInv, PidTypes, PidHeld, Holds
  <2>4. file'[pid_file_name[i]] \in {i, Empty}
    BY <2>1 DEF PidInv, PidTypes, PidHeld
  <2>5. \A j \in Instances : pid_file_name[j] # pid_file_name[i] =>
          file'[pid_file_name[j]] = file[pid_file_name[j]]
    BY <2>1 DEF PidInv, PidTypes
  <2>6. PidHeld'
    BY <2>1, <2>3, <2>4, <2>5 DEF PidInv, PidTypes, PidHeld, Holds
  <2> QED BY <2>2, <2>6 DEF PidInv
<1>4. ASSUME NEW i \in Instances,
             LeaveMain(i) \/ \E c \in PidPaths \cup {Unset} : sls_reload_pid(i, c)
      PROVE  PidInv'
  \* Only the owner unlinks, and it no longer runs.
  <2>1. UNCHANGED pid_file_name
    BY <1>4 DEF LeaveMain, sls_reload_pid
  <2>2. \/ UNCHANGED <<file, pidpc>>
        \/ /\ UNCHANGED file
           /\ pidpc' \in {[pidpc EXCEPT ![i] = "leave"], [pidpc EXCEPT ![i] = "gone"]}
        \/ /\ file[pid_file_name[i]] = i
           /\ file' = [file EXCEPT ![pid_file_name[i]] = Nobody]
           /\ pidpc' \in {[pidpc EXCEPT ![i] = "probe"], [pidpc EXCEPT ![i] = "gone"]}
    BY <1>4 DEF LeaveMain, sls_reload_pid, Removed, Unlinked, Owned, At
  <2>3. PidTypes'
    BY <2>1, <2>2 DEF PidInv, PidTypes, PidPlaces
  <2>4. CASE UNCHANGED file
    <3>1. \A j \in Instances : pidpc'[j] \in {"write", "running"} => pidpc[j] = pidpc'[j]
      BY <2>2, <2>4 DEF PidInv, PidTypes
    <3> QED BY <2>1, <2>3, <2>4, <3>1, FilesKept DEF PidInv
  <2>5. CASE /\ file[pid_file_name[i]] = i
             /\ file' = [file EXCEPT ![pid_file_name[i]] = Nobody]
             /\ pidpc' \in {[pidpc EXCEPT ![i] = "probe"], [pidpc EXCEPT ![i] = "gone"]}
    <3>1. pid_file_name[i] \in PidPaths
      BY DEF PidInv, PidTypes
    <3>2. \A j \in Instances : pidpc'[j] \in {"write", "running"} =>
            pidpc[j] = pidpc'[j] /\ pid_file_name[j] # pid_file_name[i]
      BY <2>5 DEF PidInv, PidTypes, PidHeld
    <3>3. PidHeld'
      BY <2>1, <2>5, <3>1, <3>2, FileRemoved
    <3> QED BY <2>3, <3>3 DEF PidInv
  <2> QED BY <2>2, <2>4, <2>5
<1>5. ASSUME NEW p \in PidPaths, Tidy(p)
      PROVE  PidInv'
  <2>1. PidTypes'
    BY <1>5 DEF Tidy, PidInv, PidTypes
  <2>2. \A j \in Instances : pidpc'[j] \in {"write", "running"} =>
          pidpc[j] = pidpc'[j] /\ pid_file_name[j] # p
    BY <1>5 DEF Tidy, PidInv, PidTypes, PidHeld, Holds
  <2>3. PidHeld'
    BY <1>5, <2>2, FileRemoved DEF Tidy
  <2> QED BY <2>1, <2>3 DEF PidInv
<1>6. ASSUME NEW p \in PidPaths, NEW s \in {"SIGHUP", "SIGINT"}, sls_send_cmd(p, s)
      PROVE  PidInv'
  BY <1>6 DEF sls_send_cmd, PidInv, PidTypes, PidHeld, Holds
<1>7. CASE UNCHANGED pidVars
  BY <1>7 DEF pidVars, PidInv, PidTypes, PidHeld, Holds
<1> QED BY <1>1, <1>2, <1>3, <1>4, <1>5, <1>6, <1>7, <1>8 DEF PidNext

(* sls_write_pid(), sls_remove_pid(): for any number of instances on any   *)
(* paths, and any sequence of starts, reloads, crashes and clean-ups, the  *)
(* PID file of a server that runs names that server, or is empty since its *)
(* own write failed, and no other server runs on the path.                 *)
THEOREM PidFileIsTheServers == PidSpec => []PidFileKept
<1>1. PidInit => PidInv
  BY PidAssumption DEF PidInit, PidInv, PidTypes, PidPlaces, PidHeld
<1>2. PidInv => PidFileKept
  BY DEF PidInv, PidHeld, PidFileKept
<1> QED BY <1>1, <1>2, PidInductive, PTL DEF PidSpec

-----------------------------------------------------------------------------
(* Push destinations: why the address at an index is that of the URL at    *)
(* the same index.                                                         *)

Hosts == Literals \cup HostNames
AddrLists == Answers \cup {<<>>} \cup {<<h>> : h \in Literals}
Addrs == {Head(a) : a \in AddrLists}
Lookups == [host : Hosts, done : BOOLEAN, addrs : AddrLists]

(* The address a destination may be dialled at first: its host as it is    *)
(* written, or the first of an answer that passed.                         *)
Vetted(url, addr, looked) ==
  \/ addr = url.host
  \/ \E k \in 1..Len(looked) :
       looked[k].host = url.host /\ looked[k].done
         /\ Verdict(looked[k].addrs) /\ Head(looked[k].addrs) = addr

(* The state as far as the argument needs it. *)
PushTypes ==
  /\ pconf \in PushConfs
  /\ reply \in Seq(WebhookEntries)
  /\ dns \in [Hosts -> AddrLists]
  /\ \A h \in Literals : dns[h] = <<h>>
  /\ lookups \in Seq(Lookups)
  /\ waiting \in 0..Len(lookups)
  /\ m_push_urls \in Seq(WebhookEntries)
  /\ upstream \in Nat

(* The worker waits for the lookup of the entry at hand, and has room for  *)
(* it.                                                                     *)
WaitInv ==
  waiting # NoLookup =>
    /\ reply # <<>>
    /\ lookups[waiting].host = Head(reply).host
    /\ Len(m_push_urls) < pconf.max

PairInv ==
  /\ m_push_vetted_addrs \in Seq(Addrs)
  /\ Len(m_push_vetted_addrs) = Len(m_push_urls)
  /\ \A i \in 1..Len(m_push_urls) :
       Vetted(m_push_urls[i], m_push_vetted_addrs[i], lookups)

PushInv == PushTypes /\ WaitInv /\ PairInv /\ DialsOwnAddress

(* An answer, once there, is never changed, and a lookup is not forgotten. *)
LEMMA VettedStays ==
  ASSUME NEW l \in Seq(Lookups), NEW n \in Seq(Lookups), Len(l) <= Len(n),
         \A k \in 1..Len(l) : l[k].done => n[k] = l[k],
         NEW url, NEW addr, Vetted(url, addr, l)
  PROVE  Vetted(url, addr, n)
<1>1. Len(l) \in Nat /\ Len(n) \in Nat
  OBVIOUS
<1>2. \A k \in 1..Len(l) : k \in 1..Len(n)
  BY <1>1
<1> QED BY <1>2 DEF Vetted

(* What a step does to the lookups and to the verdicts on them. *)
LEMMA LookupsGrow ==
  ASSUME PushTypes, [PushNext]_pushVars
  PROVE  /\ pconf' = pconf
         /\ lookups' \in Seq(Lookups)
         /\ Len(lookups) <= Len(lookups')
         /\ \A k \in 1..Len(lookups) : /\ lookups'[k].host = lookups[k].host
                                       /\ lookups[k].done => lookups'[k] = lookups[k]
<1>0. /\ lookups \in Seq(Lookups) /\ Len(lookups) \in Nat
      /\ \A k \in 1..Len(lookups) : lookups[k] \in Lookups
  BY DEF PushTypes
<1>1. CASE lookups' = lookups
  <2>1. pconf' = pconf
    BY DEF PushNext, pushVars, SkipEntry, validate_push_url, LookupEnds, ConnectAll,
           RelayBreaks, Renamed, ResolverAnswers, ReconnectUrl
  <2> QED BY <1>0, <1>1, <2>1
<1>2. CASE validate_push_url /\ lookups' # lookups
  <2> DEFINE l == [host |-> Head(reply).host, done |-> FALSE, addrs |-> <<>>]
  <2>1. pconf' = pconf /\ lookups' = Append(lookups, l) /\ reply # <<>>
    BY <1>2 DEF validate_push_url, Reading
  <2>2. Head(reply) \in WebhookEntries
    BY <2>1 DEF PushTypes
  <2>3. l \in Lookups
    BY <2>2 DEF WebhookEntries, Lookups, Hosts, AddrLists
  <2> HIDE DEF l
  <2>4. /\ lookups' \in Seq(Lookups) /\ Len(lookups') = Len(lookups) + 1
        /\ \A k \in 1..Len(lookups) : lookups'[k] = lookups[k]
    BY <1>0, <2>1, <2>3
  <2> QED BY <1>0, <2>1, <2>4
<1>3. ASSUME NEW j \in 1..Len(lookups), ResolverAnswers(j)
      PROVE  /\ pconf' = pconf
             /\ lookups' \in Seq(Lookups)
             /\ Len(lookups) <= Len(lookups')
             /\ \A k \in 1..Len(lookups) : /\ lookups'[k].host = lookups[k].host
                                           /\ lookups[k].done => lookups'[k] = lookups[k]
  <2> DEFINE r == [lookups[j] EXCEPT !.done = TRUE, !.addrs = dns[lookups[j].host]]
  <2>1. pconf' = pconf /\ ~lookups[j].done /\ lookups' = [lookups EXCEPT ![j] = r]
    BY <1>0, <1>3 DEF ResolverAnswers
  <2>2. r \in Lookups /\ r.host = lookups[j].host
    BY <1>0 DEF Lookups, PushTypes
  <2> HIDE DEF r
  <2>3. /\ lookups' \in Seq(Lookups) /\ Len(lookups') = Len(lookups)
        /\ lookups'[j] = r /\ \A k \in 1..Len(lookups) : k # j => lookups'[k] = lookups[k]
    BY <1>0, <2>1, <2>2
  <2> QED BY <1>0, <2>1, <2>2, <2>3
<1> QED BY <1>1, <1>2, <1>3
        DEF PushNext, pushVars, SkipEntry, LookupEnds, ConnectAll, RelayBreaks, Renamed,
            ReconnectUrl

(* So what was vetted stays vetted. *)
LEMMA StepKeepsVetted ==
  ASSUME PushTypes, [PushNext]_pushVars, NEW url, NEW addr, Vetted(url, addr, lookups)
  PROVE  Vetted(url, addr, lookups')
<1>1. /\ pconf' = pconf /\ lookups' \in Seq(Lookups) /\ lookups \in Seq(Lookups)
      /\ Len(lookups) <= Len(lookups')
      /\ \A k \in 1..Len(lookups) : lookups[k].done => lookups'[k] = lookups[k]
  BY LookupsGrow DEF PushTypes
<1> QED BY <1>1, VettedStays

(* The two statements about vetted addresses after a step. *)
LEMMA PairsAfter ==
  ASSUME pconf' = pconf, m_push_vetted_addrs' \in Seq(Addrs),
         Len(m_push_vetted_addrs') = Len(m_push_urls'),
         \A i \in 1..Len(m_push_urls') :
           Vetted(m_push_urls'[i], m_push_vetted_addrs'[i], lookups')
  PROVE  PairInv'
  BY DEF PairInv, Vetted, Verdict

LEMMA DialsAfter ==
  ASSUME pconf' = pconf, Len(m_push_urls') <= pconf.max,
         \A d \in dialled' : d.vetted => Vetted(d.url, d.addr, lookups')
  PROVE  DialsOwnAddress'
  BY DEF DialsOwnAddress, Vetted, Verdict

(* Keep(): URL and address are stored together or not at all. *)
LEMMA KeepPairs ==
  ASSUME PushInv, [PushNext]_pushVars, NEW url \in WebhookEntries, NEW addrs \in AddrLists,
         Keep(url, addrs), Len(m_push_urls) < pconf.max,
         Verdict(addrs) => Vetted(url, Head(addrs), lookups)
  PROVE  m_push_urls' \in Seq(WebhookEntries) /\ PairInv' /\ Len(m_push_urls') <= pconf.max
<1> DEFINE u == m_push_urls
           a == m_push_vetted_addrs
<1>0. /\ PushTypes /\ u \in Seq(WebhookEntries) /\ a \in Seq(Addrs)
      /\ Len(u) \in Nat /\ Len(a) = Len(u) /\ Len(u) < pconf.max /\ pconf.max \in Nat
      /\ \A i \in 1..Len(u) : Vetted(u[i], a[i], lookups)
  BY PushAssumption DEF PushInv, PushTypes, PairInv
<1>1. \A i \in 1..Len(u) : Vetted(u[i], a[i], lookups')
  BY <1>0, StepKeepsVetted
<1>2. pconf' = pconf
  BY <1>0, LookupsGrow
<1>3. CASE ~Verdict(addrs)
  <2>1. u' = u /\ a' = a
    BY <1>3 DEF Keep
  <2> QED BY <1>0, <1>1, <1>2, <2>1, PairsAfter
<1>4. CASE Verdict(addrs)
  <2>1. u' = Append(u, url) /\ a' = Append(a, Head(addrs))
    BY <1>4 DEF Keep
  <2>2. Vetted(url, Head(addrs), lookups')
    BY <1>0, <1>4, StepKeepsVetted
  <2>3. Head(addrs) \in Addrs
    BY DEF Addrs
  <2>4. /\ u' \in Seq(WebhookEntries) /\ Len(u') = Len(u) + 1
        /\ u'[Len(u) + 1] = url /\ \A i \in 1..Len(u) : u'[i] = u[i]
    BY <1>0, <2>1
  <2>5. /\ a' \in Seq(Addrs) /\ Len(a') = Len(u) + 1
        /\ a'[Len(u) + 1] = Head(addrs) /\ \A i \in 1..Len(u) : a'[i] = a[i]
    BY <1>0, <2>1, <2>3
  <2>6. ASSUME NEW i \in 1..Len(u') PROVE Vetted(u'[i], a'[i], lookups')
    <3>1. CASE i = Len(u) + 1
      BY <2>2, <2>4, <2>5, <3>1
    <3>2. CASE i \in 1..Len(u)
      BY <1>1, <2>4, <2>5, <3>2
    <3> QED BY <1>0, <2>4, <3>1, <3>2
  <2>7. PairInv'
    BY <1>2, <2>4, <2>5, <2>6, PairsAfter
  <2> QED BY <1>0, <2>4, <2>7
<1> QED BY <1>3, <1>4

(* Steps that leave the kept destinations alone. *)
LEMMA PairsRest ==
  ASSUME PushInv, [PushNext]_pushVars, UNCHANGED <<m_push_urls, m_push_vetted_addrs>>
  PROVE  m_push_urls' \in Seq(WebhookEntries) /\ PairInv' /\ Len(m_push_urls') <= pconf.max
<1>1. /\ PushTypes /\ pconf' = pconf /\ m_push_urls \in Seq(WebhookEntries)
      /\ m_push_vetted_addrs \in Seq(Addrs)
      /\ Len(m_push_vetted_addrs) = Len(m_push_urls) /\ Len(m_push_urls) <= pconf.max
      /\ \A i \in 1..Len(m_push_urls) :
           Vetted(m_push_urls[i], m_push_vetted_addrs[i], lookups)
  BY LookupsGrow DEF PushInv, PushTypes, PairInv, DialsOwnAddress
<1>2. \A i \in 1..Len(m_push_urls) :
        Vetted(m_push_urls[i], m_push_vetted_addrs[i], lookups')
  BY <1>1, StepKeepsVetted
<1> QED BY <1>1, <1>2, PairsAfter

LEMMA InitPush == PushInit => PushInv
<1> SUFFICES ASSUME PushInit PROVE PushInv
  OBVIOUS
<1>1. /\ pconf \in PushConfs /\ reply \in WebhookReplies
      /\ dns = [h \in Hosts |-> IF h \in Literals THEN <<h>> ELSE <<>>]
      /\ lookups = <<>> /\ waiting = NoLookup /\ m_push_urls = <<>>
      /\ m_push_vetted_addrs = <<>> /\ upstream = 0 /\ dialled = {}
  BY DEF PushInit, Hosts
<1>2. dns \in [Hosts -> AddrLists] /\ \A h \in Literals : dns[h] = <<h>>
  BY <1>1 DEF AddrLists, Hosts
<1>3. reply \in Seq(WebhookEntries) /\ pconf.max \in Nat
  BY <1>1, PushAssumption
<1>4. PushTypes
  BY <1>1, <1>2, <1>3 DEF PushTypes, NoLookup
<1>5. WaitInv /\ PairInv /\ DialsOwnAddress
  BY <1>1, <1>3 DEF WaitInv, PairInv, DialsOwnAddress
<1> QED BY <1>4, <1>5 DEF PushInv

(* Steps that dial nothing, or nothing for the first time. *)
LEMMA NoFirstDial ==
  ASSUME PushInv, [PushNext]_pushVars, Len(m_push_urls') <= pconf.max,
         \A d \in dialled' : d \in dialled \/ ~d.vetted
  PROVE  DialsOwnAddress'
<1>1. PushTypes /\ pconf' = pconf
  BY LookupsGrow DEF PushInv
<1>2. \A d \in dialled : d.vetted => Vetted(d.url, d.addr, lookups)
  BY DEF PushInv, DialsOwnAddress, Vetted
<1>3. \A d \in dialled' : d.vetted => Vetted(d.url, d.addr, lookups')
  BY <1>1, <1>2, StepKeepsVetted
<1> QED BY <1>1, <1>3, DialsAfter

LEMMA NextPush == PushInv /\ [PushNext]_pushVars => PushInv'
<1> SUFFICES ASSUME PushInv, [PushNext]_pushVars PROVE PushInv'
  OBVIOUS
<1>0. /\ PushTypes /\ WaitInv /\ reply \in Seq(WebhookEntries) /\ pconf.max \in Nat
      /\ lookups \in Seq(Lookups) /\ Len(lookups) \in Nat /\ waiting \in 0..Len(lookups)
  BY PushAssumption DEF PushInv, PushTypes
<1>1. /\ pconf' = pconf /\ lookups' \in Seq(Lookups) /\ Len(lookups) <= Len(lookups')
      /\ \A k \in 1..Len(lookups) : lookups'[k].host = lookups[k].host
  BY <1>0, LookupsGrow
<1>2. reply # <<>> => Head(reply) \in WebhookEntries /\ Tail(reply) \in Seq(WebhookEntries)
  BY <1>0
<1>3. CASE SkipEntry
  <2>1. /\ UNCHANGED <<m_push_urls, m_push_vetted_addrs, dialled, dns, lookups, upstream>>
        /\ waiting' = NoLookup /\ reply' = Tail(reply) /\ reply # <<>>
    BY <1>3 DEF SkipEntry, Reading
  <2>2. m_push_urls' \in Seq(WebhookEntries) /\ PairInv' /\ Len(m_push_urls') <= pconf.max
    BY <2>1, PairsRest
  <2>3. PushTypes' /\ WaitInv'
    BY <1>0, <1>1, <1>2, <2>1, <2>2 DEF PushTypes, WaitInv, NoLookup
  <2>4. DialsOwnAddress'
    BY <2>1, <2>2, NoFirstDial
  <2> QED BY <2>2, <2>3, <2>4 DEF PushInv
<1>4. CASE validate_push_url
  <2> DEFINE e == Head(reply)
  <2>1. /\ reply # <<>> /\ e \in WebhookEntries /\ waiting = NoLookup
        /\ Len(m_push_urls) < pconf.max
        /\ UNCHANGED <<dns, upstream, dialled>>
    BY <1>2, <1>4 DEF validate_push_url, Reading
  <2>2. CASE e.host \in Literals
    <3>1. /\ Keep(e, dns[e.host]) /\ reply' = Tail(reply)
          /\ lookups' = lookups /\ waiting' = waiting
      BY <1>4, <2>2 DEF validate_push_url
    <3>2. dns[e.host] = <<e.host>> /\ <<e.host>> \in AddrLists
      BY <1>0, <2>2 DEF PushTypes, AddrLists
    <3>3. Vetted(e, Head(dns[e.host]), lookups)
      BY <3>2 DEF Vetted
    <3>4. m_push_urls' \in Seq(WebhookEntries) /\ PairInv' /\ Len(m_push_urls') <= pconf.max
      BY <2>1, <3>1, <3>2, <3>3, KeepPairs
    <3>5. PushTypes' /\ WaitInv'
      BY <1>0, <1>1, <1>2, <2>1, <3>1, <3>4 DEF PushTypes, WaitInv, NoLookup
    <3>6. DialsOwnAddress'
      BY <2>1, <3>4, NoFirstDial
    <3> QED BY <3>4, <3>5, <3>6 DEF PushInv
  <2>3. CASE e.host \notin Literals
    <3> DEFINE l == [host |-> e.host, done |-> FALSE, addrs |-> <<>>]
    <3>1. /\ lookups' = Append(lookups, l) /\ waiting' = Len(lookups) + 1
          /\ UNCHANGED <<reply, m_push_urls, m_push_vetted_addrs>>
      BY <1>4, <2>3 DEF validate_push_url
    <3>2. m_push_urls' \in Seq(WebhookEntries) /\ PairInv' /\ Len(m_push_urls') <= pconf.max
      BY <3>1, PairsRest
    <3>3. Len(lookups') = Len(lookups) + 1 /\ lookups'[Len(lookups) + 1] = l
      BY <1>0, <3>1
    <3>4. lookups'[waiting'].host = Head(reply').host
      BY <3>1, <3>3
    <3>5. PushTypes'
      BY <1>0, <1>1, <2>1, <3>1, <3>2, <3>3 DEF PushTypes
    <3>6. WaitInv'
      BY <1>1, <2>1, <3>1, <3>4 DEF WaitInv
    <3>7. DialsOwnAddress'
      BY <2>1, <3>2, NoFirstDial
    <3> QED BY <3>2, <3>5, <3>6, <3>7 DEF PushInv
  <2> QED BY <2>2, <2>3
<1>5. CASE LookupEnds
  <2> DEFINE e == Head(reply)
  <2>1. /\ waiting # NoLookup /\ waiting' = NoLookup /\ reply' = Tail(reply)
        /\ UNCHANGED <<dns, lookups, upstream, dialled>>
    BY <1>5 DEF LookupEnds
  <2>2. /\ reply # <<>> /\ e \in WebhookEntries /\ lookups[waiting].host = e.host
        /\ Len(m_push_urls) < pconf.max /\ waiting \in 1..Len(lookups)
        /\ lookups[waiting] \in Lookups
    BY <1>0, <1>2, <2>1 DEF WaitInv, NoLookup
  <2>3. m_push_urls' \in Seq(WebhookEntries) /\ PairInv' /\ Len(m_push_urls') <= pconf.max
    <3>1. CASE lookups[waiting].done
      <4>1. Keep(e, lookups[waiting].addrs)
        BY <1>5, <3>1 DEF LookupEnds
      <4>2. lookups[waiting].addrs \in AddrLists
        BY <2>2 DEF Lookups
      <4>3. Verdict(lookups[waiting].addrs)
              => Vetted(e, Head(lookups[waiting].addrs), lookups)
        BY <2>2, <3>1 DEF Vetted
      <4> QED BY <2>2, <4>1, <4>2, <4>3, KeepPairs
    <3>2. CASE ~lookups[waiting].done
      <4>1. UNCHANGED <<m_push_urls, m_push_vetted_addrs>>
        BY <1>5, <3>2 DEF LookupEnds
      <4> QED BY <4>1, PairsRest
    <3> QED BY <3>1, <3>2
  <2>4. PushTypes' /\ WaitInv'
    BY <1>0, <1>1, <1>2, <2>1, <2>2, <2>3 DEF PushTypes, WaitInv, NoLookup
  <2>5. DialsOwnAddress'
    BY <2>1, <2>3, NoFirstDial
  <2> QED BY <2>3, <2>4, <2>5 DEF PushInv
<1>6. CASE ConnectAll
  <2> DEFINE i == upstream + 1
  <2>1. /\ UNCHANGED <<reply, dns, lookups, waiting, m_push_urls, m_push_vetted_addrs>>
        /\ upstream' = i /\ upstream < Len(m_push_urls)
        /\ Dial(m_push_urls[i], m_push_vetted_addrs[i], TRUE, queued)
    BY <1>6 DEF ConnectAll
  <2>2. m_push_urls' \in Seq(WebhookEntries) /\ PairInv' /\ Len(m_push_urls') <= pconf.max
    BY <2>1, PairsRest
  <2>3. PushTypes' /\ WaitInv'
    BY <1>0, <1>1, <2>1, <2>2 DEF PushTypes, WaitInv
  <2>4. Vetted(m_push_urls[i], m_push_vetted_addrs[i], lookups)
    <3>1. i \in 1..Len(m_push_urls)
      BY <1>0, <2>1 DEF PushTypes
    <3> QED BY <3>1 DEF PushInv, PairInv
  <2>5. \A d \in dialled' :
          d \in dialled \/ (d.url = m_push_urls[i] /\ d.addr = m_push_vetted_addrs[i])
    BY <2>1 DEF Dial
  <2>6. \A d \in dialled : d.vetted => Vetted(d.url, d.addr, lookups)
    BY DEF PushInv, DialsOwnAddress, Vetted
  <2>7. \A d \in dialled' : d.vetted => Vetted(d.url, d.addr, lookups')
    BY <2>1, <2>4, <2>5, <2>6
  <2>8. DialsOwnAddress'
    BY <1>1, <2>2, <2>7, DialsAfter
  <2> QED BY <2>2, <2>3, <2>8 DEF PushInv
<1>7. ASSUME NEW k \in 1..Len(lookups), ResolverAnswers(k) PROVE PushInv'
  <2>1. /\ UNCHANGED <<reply, dns, waiting, m_push_urls, m_push_vetted_addrs, upstream,
                       dialled>>
    BY <1>7 DEF ResolverAnswers
  <2>2. m_push_urls' \in Seq(WebhookEntries) /\ PairInv' /\ Len(m_push_urls') <= pconf.max
    BY <2>1, PairsRest
  <2>3. PushTypes'
    BY <1>0, <1>1, <2>1, <2>2 DEF PushTypes
  <2>4. WaitInv'
    BY <1>0, <1>1, <2>1 DEF WaitInv, NoLookup
  <2>5. DialsOwnAddress'
    BY <2>1, <2>2, NoFirstDial
  <2> QED BY <2>2, <2>3, <2>4, <2>5 DEF PushInv
<1>8. ASSUME UNCHANGED <<reply, lookups, waiting, m_push_urls, m_push_vetted_addrs, upstream>>,
             dns' \in [Hosts -> AddrLists] /\ (\A h \in Literals : dns'[h] = <<h>>),
             \A d \in dialled' : d \in dialled \/ ~d.vetted
      PROVE  PushInv'
  <2>1. m_push_urls' \in Seq(WebhookEntries) /\ PairInv' /\ Len(m_push_urls') <= pconf.max
    BY <1>8, PairsRest
  <2>2. PushTypes' /\ WaitInv'
    BY <1>0, <1>1, <1>8, <2>1 DEF PushTypes, WaitInv
  <2>3. DialsOwnAddress'
    BY <1>8, <2>1, NoFirstDial
  <2> QED BY <2>1, <2>2, <2>3 DEF PushInv
<1>9. CASE RelayBreaks
  BY <1>0, <1>8, <1>9 DEF RelayBreaks, PushTypes
<1>10. ASSUME NEW url \in queued, ReconnectUrl(url) PROVE PushInv'
  <2>1. \A d \in dialled' : d \in dialled \/ ~d.vetted
    BY <1>10 DEF ReconnectUrl, Dial
  <2> QED BY <1>0, <1>8, <1>10, <2>1 DEF ReconnectUrl, PushTypes
<1>11. CASE Renamed
  <2>1. PICK h \in HostNames, a \in Answers : dns' = [dns EXCEPT ![h] = a]
    BY <1>11 DEF Renamed
  <2>2. dns' \in [Hosts -> AddrLists] /\ \A x \in Literals : dns'[x] = <<x>>
    BY <1>0, <2>1, PushAssumption DEF PushTypes, Hosts, AddrLists
  <2> QED BY <1>8, <1>11, <2>2 DEF Renamed
<1>12. CASE UNCHANGED pushVars
  BY <1>0, <1>8, <1>12 DEF pushVars, PushTypes
<1> QED BY <1>3, <1>4, <1>5, <1>6, <1>7, <1>9, <1>10, <1>11, <1>12 DEF PushNext

(* A push destination is first dialled at an address that its own host     *)
(* stood for when it passed validation, for any reply, any order of late   *)
(* answers and any renaming, and never more of them are kept than the app  *)
(* block allows.                                                           *)
THEOREM PushDialsOwnAddress == PushSpec => []DialsOwnAddress
<1>1. PushInv => DialsOwnAddress
  BY DEF PushInv
<1> QED BY <1>1, InitPush, NextPush, PTL DEF PushSpec

-----------------------------------------------------------------------------
(* Managers, workers and configurations.  The manager in service and the   *)
(* retired ones are different, and a new one is none of them: managers are *)
(* numbered without a gap.                                                 *)
Lives == {"none", "running", "retired", "destroyed"}

Made(k) == \A m \in ManagerIds : life[m] # "none" <=> m <= k

LifeInv ==
  /\ life \in [ManagerIds -> Lives]
  /\ sls_manager \in Nat /\ at \in Nat \ {0}
  /\ reload_manager_list \in Seq(Nat)
  /\ sls_manager \in ManagerIds => life[sls_manager] = "running"
  /\ \A i \in 1..Len(reload_manager_list) :
       reload_manager_list[i] \in ManagerIds =>
         life[reload_manager_list[i]] \in {"retired", "destroyed"}
  /\ \E k \in 0..MaxManagers : Made(k)

(* A manager that is started has not been there before. *)
LEMMA NextIsFresh ==
  ASSUME NEW k \in 0..MaxManagers, Made(k)
  PROVE  NextManager = k + 1
<1>1. MaxManagers \in Nat
  BY ServerAssumption
<1>2. {m \in ManagerIds : life[m] # "none"} = 1..k
  BY <1>1 DEF Made, ManagerIds
<1>3. Cardinality(1..k) = k
  BY <1>1, FS_Interval
<1> DEFINE S == {m \in ManagerIds : life[m] # "none"}
<1>4. NextManager = 1 + Cardinality(S) /\ S = 1..k
  BY <1>2 DEF NextManager
<1> HIDE DEF S
<1> QED BY <1>1, <1>3, <1>4

(* To retire or destroy a manager that was there leaves the numbering. *)
LEMMA StillMade ==
  ASSUME life \in [ManagerIds -> Lives], NEW m, m \in ManagerIds => life[m] # "none",
         NEW x \in {"retired", "destroyed"}, life' = [life EXCEPT ![m] = x],
         \E k \in 0..MaxManagers : Made(k)
  PROVE  (\E k \in 0..MaxManagers : Made(k))'
<1> PICK k \in 0..MaxManagers : Made(k)
  OBVIOUS
<1>1. \A n \in ManagerIds : (life'[n] # "none") <=> (life[n] # "none")
  OBVIOUS
<1>2. Made(k)'
  BY <1>1 DEF Made
<1> QED BY <1>2

(* A list without its element at i holds nothing new. *)
LEMMA ListWithout ==
  ASSUME NEW l \in Seq(Nat), NEW i \in 1..Len(l)
  PROVE  LET n == SubSeq(l, 1, i - 1) \o SubSeq(l, i + 1, Len(l))
         IN  n \in Seq(Nat) /\ \A j \in 1..Len(n) : \E k \in 1..Len(l) : n[j] = l[k]
<1> DEFINE a == SubSeq(l, 1, i - 1)
           b == SubSeq(l, i + 1, Len(l))
           n == a \o b
<1>1. Len(l) \in Nat /\ i \in Nat /\ 1 <= i /\ i <= Len(l)
  OBVIOUS
<1>2. a \in Seq(Nat) /\ Len(a) = i - 1 /\ \A j \in 1..(i - 1) : a[j] = l[j]
  BY <1>1
<1>3. /\ b \in Seq(Nat) /\ Len(b) = Len(l) - i
      /\ \A j \in 1..(Len(l) - i) : b[j] = l[i + j]
  BY <1>1
<1> HIDE DEF a, b
<1>8. /\ n \in Seq(Nat) /\ Len(n) = Len(a) + Len(b)
      /\ \A j \in 1..(Len(a) + Len(b)) :
           n[j] = IF j <= Len(a) THEN a[j] ELSE b[j - Len(a)]
  BY <1>2, <1>3, ConcatProperties
<1> HIDE DEF n
<1>4. n \in Seq(Nat) /\ Len(n) = Len(l) - 1
  BY <1>1, <1>2, <1>3, <1>8
<1>5. ASSUME NEW j \in 1..Len(n)
      PROVE  n[j] = IF j < i THEN l[j] ELSE l[j + 1]
  <2>1. CASE j < i
    <3>1. j \in 1..(i - 1)
      BY <1>1, <1>4, <2>1
    <3> QED BY <1>1, <1>2, <1>3, <1>8, <2>1, <3>1
  <2>2. CASE ~(j < i)
    <3> DEFINE d == j - (i - 1)
    <3>1. d \in 1..(Len(l) - i) /\ i + d = j + 1
      BY <1>1, <1>4, <2>2
    <3>3. ~(j <= Len(a)) /\ j - Len(a) = d /\ j \in 1..(Len(a) + Len(b))
      BY <1>1, <1>2, <1>3, <1>4, <2>2
    <3>2. n[j] = b[d]
      BY <1>8, <3>3
    <3> HIDE DEF d
    <3> QED BY <1>3, <2>2, <3>1, <3>2
  <2> QED BY <2>1, <2>2
<1>6. \A j \in 1..Len(n) : j \in 1..Len(l) /\ j + 1 \in 1..Len(l)
  BY <1>1, <1>4
<1>7. n \in Seq(Nat) /\ \A j \in 1..Len(n) : \E k \in 1..Len(l) : n[j] = l[k]
  BY <1>4, <1>5, <1>6
<1> QED BY <1>7 DEF n, a, b

(* The sweep finds the end of the list, or a manager it keeps or destroys. *)
LEMMA SweepCases ==
  ASSUME check_invalid
  PROVE  /\ pc = "sweep" /\ pc' \notin {"stop", "done"}
         /\ UNCHANGED <<worker_threads, sls_manager, g_current_conf, tree>>
         /\ \/ UNCHANGED <<at, reload_manager_list, life, m_workers, group,
                           m_conf_generation, released>>
            \/ /\ ~(at > Len(reload_manager_list))
               /\ \/ at' = at \/ at' = at + 1
               /\ UNCHANGED <<reload_manager_list, life, m_conf_generation, released>>
            \/ /\ ~(at > Len(reload_manager_list))
               /\ reload_manager_list' = SubSeq(reload_manager_list, 1, at - 1) \o
                    SubSeq(reload_manager_list, at + 1, Len(reload_manager_list))
               /\ life' = [life EXCEPT ![reload_manager_list[at]] = "destroyed"]
               /\ m_conf_generation' =
                    [m_conf_generation EXCEPT ![reload_manager_list[at]] = Null]
               /\ DropUnheld(tree, g_current_conf,
                    [m_conf_generation EXCEPT ![reload_manager_list[at]] = Null])
               /\ UNCHANGED at
BY Zenon DEF check_invalid

LEMMA LifeInvStep == LifeInv /\ [ServerNext]_serverVars => LifeInv'
<1> SUFFICES ASSUME LifeInv, [ServerNext]_serverVars PROVE LifeInv'
  OBVIOUS
<1> USE DEF LifeInv
<1>1. CASE sls_conf_open
  BY <1>1 DEF sls_conf_open, managerVars, Made
<1>2. CASE start_manager
  <2> PICK k \in 0..MaxManagers : Made(k)
    OBVIOUS
  <2>1. /\ sls_manager' = k + 1 /\ life' = [life EXCEPT ![k + 1] = "running"]
        /\ UNCHANGED <<at, reload_manager_list>>
    BY <1>2, NextIsFresh DEF start_manager
  <2>2. MaxManagers \in Nat /\ k \in Nat
    BY ServerAssumption
  <2>3. life' \in [ManagerIds -> Lives]
    BY <2>1 DEF Lives
  <2>4. \A i \in 1..Len(reload_manager_list) :
          reload_manager_list[i] \in ManagerIds =>
            life'[reload_manager_list[i]] \in {"retired", "destroyed"}
    BY <2>1, <2>2 DEF Made, ManagerIds
  <2>5. CASE k + 1 \in ManagerIds
    <3>1. Made(k + 1)'
      BY <2>1, <2>2, <2>5 DEF Made, ManagerIds
    <3>2. k + 1 \in 0..MaxManagers
      BY <2>2, <2>5 DEF ManagerIds
    <3>3. sls_manager' \in Nat /\ life'[sls_manager'] = "running"
      BY <2>1, <2>2, <2>5
    <3> QED BY <2>1, <2>3, <2>4, <3>1, <3>2, <3>3
  <2>6. CASE k + 1 \notin ManagerIds
    <3>1. life' = life
      BY <2>1, <2>6
    <3>2. Made(k)'
      BY <3>1 DEF Made
    <3> QED BY <2>1, <2>2, <2>3, <2>4, <2>6, <3>2
  <2> QED BY <2>5, <2>6
<1>3. CASE check_invalid
  <2>1. CASE UNCHANGED <<life, reload_manager_list>>
    <3>1. sls_manager' = sls_manager /\ (at' = at \/ at' = at + 1)
      BY <1>3, SweepCases, Zenon
    <3> QED BY <2>1, <3>1 DEF Made
  <2>2. CASE ~UNCHANGED <<life, reload_manager_list>>
    <3> DEFINE m == reload_manager_list[at]
    <3>1. /\ ~(at > Len(reload_manager_list))
          /\ life' = [life EXCEPT ![m] = "destroyed"]
          /\ reload_manager_list' = SubSeq(reload_manager_list, 1, at - 1) \o
               SubSeq(reload_manager_list, at + 1, Len(reload_manager_list))
          /\ UNCHANGED <<at, sls_manager>>
      BY <1>3, <2>2, SweepCases, Zenon
    <3>8. at \in 1..Len(reload_manager_list)
      BY <3>1
    <3>2. m \in ManagerIds => life[m] \in {"retired", "destroyed"}
      BY <3>8
    <3>3. (\E k \in 0..MaxManagers : Made(k))'
      BY <3>1, <3>2, StillMade
    <3>4. life' \in [ManagerIds -> Lives]
      BY <3>1 DEF Lives
    <3>5. /\ reload_manager_list' \in Seq(Nat)
          /\ \A i \in 1..Len(reload_manager_list') :
               \E j \in 1..Len(reload_manager_list) :
                 reload_manager_list'[i] = reload_manager_list[j]
      BY <3>1, <3>8, ListWithout
    <3>6. \A i \in 1..Len(reload_manager_list) : reload_manager_list[i] \in ManagerIds =>
            life'[reload_manager_list[i]] \in {"retired", "destroyed"}
      BY <3>1
    <3>7. sls_manager \in ManagerIds => life'[sls_manager] = "running"
      BY <3>1, <3>2
    <3> QED BY <3>1, <3>3, <3>4, <3>5, <3>6, <3>7
  <2> QED BY <2>1, <2>2
<1>4. CASE reload
  <2>1. /\ life' = [life EXCEPT ![sls_manager] = "retired"] /\ sls_manager' = 0
        /\ reload_manager_list' = Append(reload_manager_list, sls_manager) /\ at' = at
    BY <1>4 DEF reload, Null
  <2>2. 0 \notin ManagerIds
    BY DEF ManagerIds
  <2>3. (\E k \in 0..MaxManagers : Made(k))'
    BY <2>1, StillMade
  <2>4. /\ reload_manager_list' \in Seq(Nat)
        /\ \A i \in 1..Len(reload_manager_list') :
             \/ i \in 1..Len(reload_manager_list) /\ reload_manager_list'[i] = reload_manager_list[i]
             \/ reload_manager_list'[i] = sls_manager
    BY <2>1
  <2>5. life' \in [ManagerIds -> Lives]
    BY <2>1 DEF Lives
  <2> QED BY <2>1, <2>2, <2>3, <2>4, <2>5
<1>5. CASE DestroyManager
  <2>1. /\ life' = [life EXCEPT ![Leaving] = "destroyed"] /\ sls_manager' = 0 /\ at' = at
        /\ Leaving # 0
        /\ reload_manager_list' = IF Leaving = sls_manager THEN reload_manager_list
                                  ELSE Tail(reload_manager_list)
    BY <1>5 DEF DestroyManager, Null
  <2>2. 0 \notin ManagerIds
    BY DEF ManagerIds
  <2>3. /\ Leaving \in ManagerIds => life[Leaving] # "none"
        /\ Leaving # sls_manager => reload_manager_list # <<>>
    BY <2>1 DEF Leaving, Null
  <2>4. (\E k \in 0..MaxManagers : Made(k))'
    BY <2>1, <2>3, StillMade
  <2>5. /\ reload_manager_list' \in Seq(Nat)
        /\ \A i \in 1..Len(reload_manager_list') :
             \E j \in 1..Len(reload_manager_list) :
               reload_manager_list'[i] = reload_manager_list[j]
    <3>1. CASE Leaving = sls_manager
      BY <2>1, <3>1
    <3>2. CASE Leaving # sls_manager
      <4>1. /\ Len(Tail(reload_manager_list)) = Len(reload_manager_list) - 1
            /\ Tail(reload_manager_list) \in Seq(Nat)
            /\ \A i \in 1..Len(Tail(reload_manager_list)) :
                 i + 1 \in 1..Len(reload_manager_list)
                   /\ Tail(reload_manager_list)[i] = reload_manager_list[i + 1]
        BY <2>3, <3>2
      <4> QED BY <2>1, <3>2, <4>1
    <3> QED BY <3>1, <3>2
  <2>6. life' \in [ManagerIds -> Lives]
    BY <2>1 DEF Lives
  <2> QED BY <2>1, <2>2, <2>4, <2>5, <2>6
<1>6. CASE LoopTop
  BY <1>6 DEF LoopTop, Made
<1>7. CASE Finish \/ StopWorker
  BY <1>7 DEF StopWorker, Finish, managerVars, mainVars, Made
<1>8. CASE Signal \/ \E m \in ManagerIds : Accept(m)
  BY <1>8 DEF Signal, Accept, managerVars, mainVars, Made
<1>9. CASE \E m \in ManagerIds, w \in Groups : Worker(m, w)
  BY <1>9 DEF Worker, WorkerPass, WorkEnds, mainVars, Made
<1>10. CASE UNCHANGED serverVars
  BY <1>10 DEF serverVars, managerVars, mainVars, Made
<1> QED BY <1>1, <1>2, <1>3, <1>4, <1>5, <1>6, <1>7, <1>8, <1>9, <1>10 DEF ServerNext, Main

-----------------------------------------------------------------------------
(* What keeps the tree in use alive is that no two generations are on one  *)
(* tree, that main() holds its generation until it is done, and that every *)
(* manager holds the one it was started with.                              *)
Numbered(t) == t \in Seq(Nat) /\ \A g \in 1..Len(t) : t[g] = g

Unfreed(g) == g \in (1..Len(tree)) \ released

ConfInv ==
  /\ Numbered(tree)
  /\ pc \notin {"stop", "done"} => released \subseteq 1..Len(tree)
  /\ m_conf_generation \in [ManagerIds -> Nat]
  /\ pc # "done" => Unfreed(g_current_conf)
  /\ \A m \in ManagerIds : life[m] \in {"running", "retired"} => Unfreed(m_conf_generation[m])

(* When the last reference goes, nothing that is held goes with it. *)
LEMMA HeldStays ==
  ASSUME NEW t, Numbered(t), NEW current, NEW holds, DropUnheld(t, current, holds)
  PROVE  released' = released \cup {g \in 1..Len(t) : ~Held(g, current, holds)}
BY DEF DropUnheld, Numbered

LEMMA ConfInvDestroy ==
  ASSUME LifeInv, ConfInv, pc' # "done" => pc # "done",
         pc' \notin {"stop", "done"} => pc \notin {"stop", "done"}, NEW m,
         life' = [life EXCEPT ![m] = "destroyed"],
         m_conf_generation' = [m_conf_generation EXCEPT ![m] = Null],
         DropUnheld(tree, g_current_conf, m_conf_generation'),
         UNCHANGED <<g_current_conf, tree>>
  PROVE  ConfInv'
<1>1. released' = released \cup {g \in 1..Len(tree) :
                                   ~Held(g, g_current_conf, m_conf_generation')}
  BY HeldStays DEF ConfInv
<1>2. m_conf_generation' \in [ManagerIds -> Nat]
  BY DEF ConfInv, Null
<1>3. (pc # "done" => Unfreed(g_current_conf))'
  BY <1>1 DEF ConfInv, Held, Unfreed
<1>4. ASSUME NEW n \in ManagerIds, life'[n] \in {"running", "retired"}
      PROVE  Unfreed(m_conf_generation[n])'
  <2>1. n # m /\ life[n] = life'[n] /\ m_conf_generation'[n] = m_conf_generation[n]
    BY <1>4 DEF LifeInv, ConfInv
  <2>2. Unfreed(m_conf_generation[n])
    BY <1>4, <2>1 DEF ConfInv
  <2>3. Held(m_conf_generation[n], g_current_conf, m_conf_generation')
    BY <2>1 DEF Held
  <2> QED BY <1>1, <2>1, <2>2, <2>3 DEF Unfreed
<1>5. (pc \notin {"stop", "done"} => released \subseteq 1..Len(tree))'
  BY <1>1 DEF ConfInv
<1> QED BY <1>2, <1>3, <1>4, <1>5 DEF ConfInv

(* A generation on a tree of its own frees none that is held. *)
LEMMA ConfInvPublish ==
  ASSUME ConfInv, pc = "conf", pc' \in {"start", "stop"}, PublishTree(NewTree),
         UNCHANGED <<life, m_conf_generation>>
  PROVE  ConfInv'
<1> DEFINE n == Len(tree) + 1
<1>1. /\ tree' = Append(tree, n) /\ g_current_conf' = n
      /\ DropUnheld(tree', g_current_conf', m_conf_generation)
  BY DEF PublishTree, NewTree
<1>2. tree \in Seq(Nat) /\ Len(tree) \in Nat /\ \A g \in 1..Len(tree) : tree[g] = g
  BY DEF ConfInv, Numbered
<1>3. Len(tree') = n /\ (1..n) = (1..Len(tree)) \cup {n} /\ n \notin 1..Len(tree)
  BY <1>1, <1>2
<1>4. Numbered(tree')
  <2>1. tree' \in Seq(Nat) /\ tree'[n] = n /\ \A g \in 1..Len(tree) : tree'[g] = tree[g]
    BY <1>1, <1>2
  <2> HIDE DEF n
  <2> QED BY <1>2, <1>3, <2>1 DEF Numbered
<1>5. released' = released \cup {g \in 1..n : ~Held(g, n, m_conf_generation)}
  <2>1. released' = released \cup {g \in 1..Len(tree') :
                                     ~Held(g, g_current_conf', m_conf_generation)}
    BY <1>1, <1>4, HeldStays, Zenon
  <2> HIDE DEF n
  <2> QED BY <1>1, <1>3, <2>1
<1>6. released \subseteq 1..Len(tree)
  BY DEF ConfInv
<1> HIDE DEF n
<1>7. Unfreed(g_current_conf)'
  BY <1>1, <1>3, <1>5, <1>6 DEF Unfreed, Held
<1>8. ASSUME NEW m \in ManagerIds, life[m] \in {"running", "retired"}
      PROVE  Unfreed(m_conf_generation[m])'
  <2>1. Unfreed(m_conf_generation[m])
    BY <1>8 DEF ConfInv
  <2> QED BY <1>3, <1>5, <2>1 DEF Unfreed, Held
<1>9. released' \subseteq 1..Len(tree')
  BY <1>3, <1>5, <1>6
<1> QED BY <1>4, <1>7, <1>8, <1>9 DEF ConfInv

LEMMA ConfInvStep ==
  ASSUME {"first", "bare"} \cap FileFaults = {}, LifeInv, ConfInv,
         [ServerNext]_serverVars
  PROVE  ConfInv'
<1> USE DEF Unfreed
<1>1. CASE sls_conf_open
  <2>1. pc = "conf" /\ UNCHANGED <<life, m_conf_generation>>
    BY <1>1 DEF sls_conf_open, managerVars
  <2>2. CASE PublishTree(NewTree) /\ pc' \in {"start", "stop"}
    BY <2>1, <2>2, ConfInvPublish
  <2>3. CASE DiscardTree(NewTree) /\ pc' = "stop"
    <3>1. /\ UNCHANGED <<tree, g_current_conf>>
          /\ released' = released \cup {Len(tree) + 1}
      BY <2>3 DEF DiscardTree, NewTree
    <3>2. Len(tree) \in Nat
      BY DEF ConfInv, Numbered
    <3>3. Len(tree) + 1 \notin 1..Len(tree)
      BY <3>2
    <3> QED BY <2>1, <2>3, <3>1, <3>3 DEF ConfInv
  <2>4. CASE pc' = "stop" /\ UNCHANGED <<g_current_conf, tree, released>>
    BY <2>1, <2>4 DEF ConfInv
  <2> QED BY <1>1, <2>2, <2>3, <2>4 DEF sls_conf_open
<1>2. CASE start_manager
  <2>1. /\ pc = "start" /\ UNCHANGED <<tree, released, g_current_conf>>
        /\ life' = [life EXCEPT ![NextManager] = "running"]
        /\ m_conf_generation' = [m_conf_generation EXCEPT ![NextManager] = g_current_conf]
    BY <1>2, Zenon DEF start_manager, Generation
  <2>2. Unfreed(g_current_conf) /\ g_current_conf \in Nat
    BY <2>1 DEF ConfInv
  <2>3. \A m \in ManagerIds : \/ life'[m] = life[m] /\ m_conf_generation'[m] = m_conf_generation[m]
                              \/ m_conf_generation'[m] = g_current_conf
    BY <2>1 DEF ConfInv, LifeInv
  <2> QED BY <2>1, <2>2, <2>3 DEF ConfInv
<1>3. CASE check_invalid
  <2>1. CASE UNCHANGED <<life, m_conf_generation, released>>
    <3>1. UNCHANGED <<g_current_conf, tree>> /\ pc \notin {"stop", "done"}
      BY <1>3, SweepCases, Zenon
    <3> QED BY <2>1, <3>1 DEF ConfInv
  <2>2. CASE ~UNCHANGED <<life, m_conf_generation, released>>
    <3> DEFINE m == reload_manager_list[at]
    <3>1. /\ UNCHANGED <<g_current_conf, tree>> /\ pc \notin {"stop", "done"}
          /\ life' = [life EXCEPT ![m] = "destroyed"]
          /\ m_conf_generation' = [m_conf_generation EXCEPT ![m] = Null]
          /\ DropUnheld(tree, g_current_conf, m_conf_generation')
      BY <1>3, <2>2, SweepCases, Zenon
    <3> QED BY <3>1, ConfInvDestroy, Zenon
  <2> QED BY <2>1, <2>2
<1>4. CASE reload
  <2>1. /\ pc = "reload" /\ UNCHANGED <<m_conf_generation, g_current_conf, tree, released>>
        /\ life' = [life EXCEPT ![sls_manager] = "retired"]
    BY <1>4, Zenon DEF reload, confVars
  <2>2. \A m \in ManagerIds : life'[m] \in {"running", "retired"} =>
                                life[m] \in {"running", "retired"}
    BY <2>1 DEF LifeInv
  <2> QED BY <2>1, <2>2 DEF ConfInv
<1>5. CASE DestroyManager
  <2>1. pc' = pc
    BY <1>5, Zenon DEF DestroyManager
  <2> QED BY <1>5, <2>1, ConfInvDestroy, Zenon DEF DestroyManager
<1>6. CASE Finish
  <2>1. /\ UNCHANGED <<m_conf_generation, life, tree>> /\ pc' = "done"
        /\ DropUnheld(tree, Null, m_conf_generation)
    BY <1>6, Zenon DEF Finish, managerVars
  <2>2. released' = released \cup {g \in 1..Len(tree) : ~Held(g, Null, m_conf_generation)}
    BY <2>1, HeldStays DEF ConfInv
  <2> QED BY <2>1, <2>2 DEF ConfInv, Held
<1>7. CASE LoopTop \/ StopWorker
  BY <1>7 DEF LoopTop, StopWorker, confVars, mainVars, ConfInv
<1>8. CASE Signal \/ \E m \in ManagerIds : Accept(m)
  BY <1>8 DEF Signal, Accept, confVars, managerVars, mainVars, ConfInv
<1>9. CASE \E m \in ManagerIds, w \in Groups : Worker(m, w)
  BY <1>9 DEF Worker, WorkerPass, WorkEnds, confVars, mainVars, ConfInv
<1>10. CASE UNCHANGED serverVars
  BY <1>10 DEF serverVars, confVars, managerVars, mainVars, ConfInv
<1> QED BY <1>1, <1>2, <1>3, <1>4, <1>5, <1>6, <1>7, <1>8, <1>9, <1>10 DEF ServerNext, Main

LEMMA InitLife == ServerInit => LifeInv /\ ConfInv
<1> SUFFICES ASSUME ServerInit PROVE LifeInv /\ ConfInv
  OBVIOUS
<1>1. Made(0) /\ 0 \in 0..MaxManagers
  BY ServerAssumption DEF ServerInit, Made, ManagerIds
<1>2. Numbered(tree) /\ Len(tree) = 1
  BY DEF ServerInit, Numbered
<1> QED BY <1>1, <1>2 DEF ServerInit, LifeInv, ConfInv, Unfreed, Lives, Null

LEMMA KeptOutlives == ConfInv => ConfOutlivesManager
BY DEF ConfInv, ConfOutlivesManager, Numbered, Unfreed

(* CSLSManager::start() and sls_conf_open(): unless the file a reload      *)
(* reads fails before its first block or closes a block before it opens    *)
(* one, no configuration tree is freed under a manager that still runs or  *)
(* drains, for any number of managers and workers, also when the file is   *)
(* gone, when it fails later and when starting the new manager fails.      *)
THEOREM TreesOutliveManagers ==
  ASSUME {"first", "bare"} \cap FileFaults = {}
  PROVE  ServerSpec => []ConfOutlivesManager
<1>1. LifeInv /\ ConfInv /\ [ServerNext]_serverVars => LifeInv' /\ ConfInv'
  BY LifeInvStep, ConfInvStep
<1> QED BY <1>1, KeptOutlives, InitLife, PTL DEF ServerSpec

-----------------------------------------------------------------------------
(* Worker threads.  A thread that may still run is in m_workers of its     *)
(* manager, so an empty m_workers means that the maps may go.              *)
WorkerRecords ==
  [run : {"none", "main", "looping", "ended"}, m_exit : BOOLEAN, m_reload : BOOLEAN,
   listener : BOOLEAN, sessions : Nat]

GroupTypes ==
  /\ m_workers \in [ManagerIds -> Seq(Nat)]
  /\ group \in [ManagerIds -> [Groups -> WorkerRecords]]

Listed(m, w) == \E j \in 1..Len(m_workers[m]) : m_workers[m][j] = w

GroupInv ==
  /\ worker_threads \in Nat
  /\ GroupTypes
  /\ MapsOutliveWorkers
  /\ pc # "crashed" =>
       \A m \in ManagerIds, w \in Groups : group[m][w].run # "none" => Listed(m, w)

SameRuns == \A m \in ManagerIds, w \in Groups : group'[m][w].run = group[m][w].run

(* A step that leaves the threads and the workers where they are. *)
LEMMA GroupInvKept ==
  ASSUME GroupInv, SameRuns, GroupTypes', pc' # "crashed" => pc # "crashed",
         UNCHANGED <<worker_threads, m_workers>>,
         \A m \in ManagerIds : life[m] \in {"running", "retired"} =>
                               life'[m] \in {"running", "retired"}
  PROVE  GroupInv'
BY DEF GroupInv, SameRuns, MapsOutliveWorkers, Listed

LEMMA OneWorkerChanges ==
  ASSUME GroupTypes, NEW m, NEW w, NEW r, 
         m \in ManagerIds /\ w \in Groups => r \in WorkerRecords /\ r.run = group[m][w].run,
         group' = [group EXCEPT ![m][w] = r], m_workers' = m_workers
  PROVE  GroupTypes' /\ SameRuns
<1>1. CASE m \in ManagerIds /\ w \in Groups
  BY <1>1 DEF GroupTypes, SameRuns
<1>2. CASE ~(m \in ManagerIds /\ w \in Groups)
  <2>1. group' = group
    <3>1. \A n \in ManagerIds : [group EXCEPT ![m][w] = r][n] = group[n]
      BY <1>2 DEF GroupTypes
    <3> QED BY <3>1 DEF GroupTypes
  <2> QED BY <2>1 DEF GroupTypes, SameRuns
<1> QED BY <1>1, <1>2

(* Roles that come and go leave the thread of a worker what it is. *)
LEMMA RolesChange ==
  ASSUME NEW r \in WorkerRecords, NEW n \in Nat, NEW b \in BOOLEAN
  PROVE  /\ [r EXCEPT !.sessions = n, !.listener = b] \in WorkerRecords
         /\ [r EXCEPT !.sessions = n, !.listener = b].run = r.run
         /\ [r EXCEPT !.sessions = n] \in WorkerRecords
         /\ [r EXCEPT !.sessions = n].run = r.run
         /\ [r EXCEPT !.listener = b] \in WorkerRecords
         /\ [r EXCEPT !.listener = b].run = r.run
BY DEF WorkerRecords

(* One pass of a worker changes its flags and its roles. *)
LEMMA HandlerKeepsRuns ==
  ASSUME GroupTypes, NEW m, NEW w, handler(m, w), m_workers' = m_workers
  PROVE  GroupTypes' /\ SameRuns
<1> DEFINE g == group[m][w]
<1>1. m \in ManagerIds /\ w \in Groups => g \in WorkerRecords
  BY DEF GroupTypes
<1>2. CASE MayEnd(g)
  <2>1. group' = [group EXCEPT ![m][w] = [g EXCEPT !.m_exit = TRUE]]
    BY <1>2 DEF handler
  <2>2. m \in ManagerIds /\ w \in Groups =>
          /\ [g EXCEPT !.m_exit = TRUE] \in WorkerRecords
          /\ [g EXCEPT !.m_exit = TRUE].run = g.run
    BY <1>1 DEF WorkerRecords
  <2> QED BY <2>1, <2>2, OneWorkerChanges
<1>3. CASE ~MayEnd(g)
  <2> PICK left \in 0..g.sessions, k \in 0..Len(m_list_role[m]) :
        LET kept == [g EXCEPT !.sessions = left,
                              !.listener = g.listener /\ m \in bound]
            list == Reaped(m_list_role[m], k)
        IN  IF list = <<>> \/ Roles(kept) >= WorkerConnections
              THEN group' = [group EXCEPT ![m][w] = kept]
              ELSE \E after \in Adopted(kept, Head(list), m) :
                     group' = [group EXCEPT ![m][w] = after]
    BY <1>3, Zenon DEF handler
  <2> DEFINE kept == [g EXCEPT !.sessions = left, !.listener = g.listener /\ m \in bound]
  <2>1. ASSUME m \in ManagerIds, w \in Groups
        PROVE  kept \in WorkerRecords /\ kept.run = g.run
    <3>1. g \in WorkerRecords
      BY <1>1, <2>1
    <3>2. left \in Nat
      BY <3>1 DEF WorkerRecords
    <3>3. (g.listener /\ m \in bound) \in BOOLEAN
      BY Zenon
    <3> QED BY <3>1, <3>2, <3>3, RolesChange, ZenonT(40)
  <2>2. \/ group' = [group EXCEPT ![m][w] = kept]
        \/ \E head : \E after \in Adopted(kept, head, m) :
             group' = [group EXCEPT ![m][w] = after]
    BY Zenon
  <2> HIDE DEF kept, g
  <2>3. ASSUME NEW head, NEW after \in Adopted(kept, head, m), 
               m \in ManagerIds /\ w \in Groups
        PROVE  after \in WorkerRecords /\ after.run = g.run
    <3>1. kept \in WorkerRecords /\ kept.run = g.run
      BY <2>1, <2>3
    <3>2. kept.sessions + 1 \in Nat
      BY <3>1 DEF WorkerRecords
    <3>3. (m \in bound) \in BOOLEAN
      OBVIOUS
    <3>4. \/ after = [kept EXCEPT !.listener = m \in bound]
          \/ after = [kept EXCEPT !.sessions = @ + 1]
          \/ after = kept
      BY Zenon DEF Adopted
    <3>5. CASE after = [kept EXCEPT !.listener = m \in bound]
      BY <3>1, <3>2, <3>3, <3>5, RolesChange, Zenon
    <3>6. CASE after = [kept EXCEPT !.sessions = @ + 1]
      BY <3>1, <3>2, <3>3, <3>6, RolesChange, Zenon
    <3> QED BY <3>1, <3>4, <3>5, <3>6
  <2>4. CASE group' = [group EXCEPT ![m][w] = kept]
    BY <2>1, <2>4, OneWorkerChanges, Zenon DEF g
  <2>5. ASSUME NEW head, NEW after \in Adopted(kept, head, m),
               group' = [group EXCEPT ![m][w] = after]
        PROVE  GroupTypes' /\ SameRuns
    BY <2>3, <2>5, OneWorkerChanges, Zenon DEF g
  <2> QED BY <2>2, <2>4, <2>5
<1> QED BY <1>2, <1>3

-----------------------------------------------------------------------------
(* The walk of check_invalid().  As long as no erase is undefined, every   *)
(* worker of the manager is either deleted or still in the vector.         *)
Unwalked(v) == [slots |-> v, size |-> Len(v), deleted |-> {}, undefined |-> FALSE]

IsWalk(m, v, n, f) ==
  f = [i \in 0..n |-> IF i = 0 THEN Unwalked(v) ELSE Visit(m, i, f[i - 1])]

Accounted(v, s) ==
  \A j \in 1..Len(v) : v[j] \in s.deleted \/ \E k \in 1..s.size : s.slots[k] = v[j]

WalkInv(v, i, s) ==
  /\ s.slots \in [1..Len(v) -> Nat]
  /\ s.size \in (Len(v) - i)..Len(v)
  /\ s.undefined \/ Accounted(v, s)

(* The recursion defines a walk of every length. *)
LEMMA WalkExists ==
  ASSUME NEW m, NEW v, NEW n \in Nat
  PROVE  \E f : IsWalk(m, v, n, f)
<1> DEFINE T == {k \in Nat : \E f : IsWalk(m, v, k, f)}
<1>1. 0 \in T
  <2>1. IsWalk(m, v, 0, [i \in 0..0 |-> Unwalked(v)])
    BY DEF IsWalk
  <2> QED BY <2>1
<1>2. ASSUME NEW k \in T
      PROVE  k + 1 \in T
  <2>1. k \in Nat
    OBVIOUS
  <2>2. PICK f : IsWalk(m, v, k, f)
    OBVIOUS
  <2> DEFINE g == [i \in 0..(k + 1) |-> IF i <= k THEN f[i] ELSE Visit(m, k + 1, f[k])]
  <2>3. \A i \in 0..k : f[i] = IF i = 0 THEN Unwalked(v) ELSE Visit(m, i, f[i - 1])
    <3> DEFINE h == [i \in 0..k |-> IF i = 0 THEN Unwalked(v) ELSE Visit(m, i, f[i - 1])]
    <3>1. f = h
      BY <2>2 DEF IsWalk
    <3>2. \A i \in 0..k : h[i] = IF i = 0 THEN Unwalked(v) ELSE Visit(m, i, f[i - 1])
      OBVIOUS
    <3> HIDE DEF h
    <3> QED BY <3>1, <3>2
  <2>4. ASSUME NEW i \in 0..(k + 1)
        PROVE  g[i] = IF i = 0 THEN Unwalked(v) ELSE Visit(m, i, g[i - 1])
    <3>1. CASE i = 0
      BY <2>1, <2>3, <3>1
    <3>2. CASE i # 0 /\ i <= k
      <4>1. i \in 0..k /\ i - 1 \in 0..(k + 1) /\ i - 1 <= k
        BY <2>1, <3>2
      <4>2. g[i] = f[i] /\ g[i - 1] = f[i - 1]
        BY <3>2, <4>1
      <4> HIDE DEF g
      <4> QED BY <2>3, <3>2, <4>1, <4>2
    <3>3. CASE i = k + 1
      <4>1. k \in 0..(k + 1) /\ k + 1 # 0 /\ i - 1 = k /\ ~(i <= k) /\ k <= k
        BY <2>1, <3>3
      <4>2. g[i] = Visit(m, k + 1, f[k]) /\ g[k] = f[k]
        BY <4>1
      <4> HIDE DEF g
      <4> QED BY <3>3, <4>1, <4>2
    <3> QED BY <2>1, <3>1, <3>2, <3>3
  <2>5. IsWalk(m, v, k + 1, g)
    BY <2>4 DEF IsWalk
  <2> QED BY <2>1, <2>5
<1>3. T = Nat
  <2> HIDE DEF T
  <2>1. T \in SUBSET Nat
    BY DEF T
  <2> QED BY <1>1, <1>2, <2>1, NatSetInduction
<1> QED BY <1>3

(* CheckedWorkers() is the end of a walk over all of m_workers. *)
LEMMA CheckedIsWalk ==
  ASSUME NEW m, NEW v, v = m_workers[m], Len(v) \in Nat
  PROVE  \E f : /\ f[0] = Unwalked(v)
                /\ \A i \in 1..Len(v) : f[i] = Visit(m, i, f[i - 1])
                /\ CheckedWorkers(m) = f[Len(v)]
<1> DEFINE f == CHOOSE f : IsWalk(m, v, Len(v), f)
<1>1. IsWalk(m, v, Len(v), f)
  BY WalkExists
<1>2. CheckedWorkers(m) = f[Len(v)]
  BY DEF CheckedWorkers, IsWalk, Unwalked
<1> HIDE DEF f
<1>3. \A i \in 0..Len(v) : f[i] = IF i = 0 THEN Unwalked(v) ELSE Visit(m, i, f[i - 1])
  <2> DEFINE h == [i \in 0..Len(v) |-> IF i = 0 THEN Unwalked(v) ELSE Visit(m, i, f[i - 1])]
  <2>1. f = h
    BY <1>1 DEF IsWalk
  <2>2. \A i \in 0..Len(v) : h[i] = IF i = 0 THEN Unwalked(v) ELSE Visit(m, i, f[i - 1])
    OBVIOUS
  <2> HIDE DEF h
  <2> QED BY <2>1, <2>2
<1>4. 0 \in 0..Len(v) /\ \A i \in 1..Len(v) : i \in 0..Len(v) /\ i # 0
  OBVIOUS
<1> QED BY <1>2, <1>3, <1>4

(* One step of the walk, by whether the worker there has ended. *)
LEMMA VisitStays ==
  ASSUME NEW m, NEW i, NEW s, ~group[m][s.slots[i]].m_exit
  PROVE  Visit(m, i, s) = s
BY DEF Visit

LEMMA VisitErases ==
  ASSUME NEW m, NEW i, NEW s, group[m][s.slots[i]].m_exit
  PROVE  /\ Visit(m, i, s).slots = [j \in DOMAIN s.slots |->
              IF j >= i /\ j < s.size THEN s.slots[j + 1] ELSE s.slots[j]]
         /\ Visit(m, i, s).size = s.size - 1
         /\ Visit(m, i, s).deleted = s.deleted \cup {s.slots[i]}
BY DEF Visit

(* An erase inside the vector takes out the one worker that is deleted. *)
LEMMA VisitKeeps ==
  ASSUME NEW m, NEW v \in Seq(Nat), NEW i \in 1..Len(v), NEW s, WalkInv(v, i - 1, s)
  PROVE  WalkInv(v, i, Visit(m, i, s))
<1> DEFINE w == s.slots[i]
           t == Visit(m, i, s)
<1>0. /\ Len(v) \in Nat /\ i \in Nat /\ 1 <= i /\ i <= Len(v)
      /\ s.slots \in [1..Len(v) -> Nat] /\ s.size \in (Len(v) - (i - 1))..Len(v)
      /\ s.size \in Int
  BY DEF WalkInv
<1>1. CASE ~group[m][w].m_exit
  <2>1. t = s
    BY <1>1 DEF Visit
  <2>2. s.size \in (Len(v) - i)..Len(v)
    BY <1>0
  <2> QED BY <2>1, <2>2 DEF WalkInv
<1>2. CASE group[m][w].m_exit
  <2> DEFINE slots == [j \in DOMAIN s.slots |->
                         IF j >= i /\ j < s.size THEN s.slots[j + 1] ELSE s.slots[j]]
  <2>1. /\ t.slots = slots /\ t.size = s.size - 1 /\ t.deleted = s.deleted \cup {w}
        /\ t.undefined = (s.undefined \/ w \in s.deleted \/ i > s.size)
    BY <1>2 DEF Visit
  <2>2. slots \in [1..Len(v) -> Nat]
    <3>1. \A j \in 1..Len(v) : j < s.size => j + 1 \in 1..Len(v)
      BY <1>0
    <3> QED BY <1>0, <3>1
  <2>3. t.size \in (Len(v) - i)..Len(v)
    BY <1>0, <2>1
  <2>4. ASSUME ~t.undefined
        PROVE  Accounted(v, t)
    <3>1. ~s.undefined /\ ~(i > s.size)
      BY <2>1, <2>4
    <3>2. Accounted(v, s) /\ i <= s.size
      BY <1>0, <3>1 DEF WalkInv
    <3>3. ASSUME NEW k \in 1..s.size, k # i
          PROVE  \E l \in 1..(s.size - 1) : slots[l] = s.slots[k]
      <4>1. CASE k < i
        <5>1. k \in 1..(s.size - 1) /\ k \in 1..Len(v) /\ ~(k >= i)
          BY <1>0, <3>2, <4>1
        <5>2. slots[k] = s.slots[k]
          BY <1>0, <5>1
        <5> QED BY <5>1, <5>2
      <4>2. CASE k > i
        <5>1. /\ k - 1 \in 1..(s.size - 1) /\ k - 1 \in 1..Len(v)
              /\ k - 1 >= i /\ k - 1 < s.size /\ (k - 1) + 1 = k
          BY <1>0, <3>2, <4>2, SMTT(30)
        <5>2. slots[k - 1] = s.slots[k]
          BY <1>0, <5>1
        <5> QED BY <5>1, <5>2
      <4>3. k < i \/ k > i
        BY <1>0, <3>3
      <4> QED BY <4>1, <4>2, <4>3
    <3> HIDE DEF slots, t
    <3>4. ASSUME NEW j \in 1..Len(v)
          PROVE  v[j] \in t.deleted \/ \E l \in 1..t.size : t.slots[l] = v[j]
      <4>1. CASE v[j] \in s.deleted
        BY <2>1, <4>1
      <4>2. CASE \E k \in 1..s.size : s.slots[k] = v[j]
        <5> PICK k \in 1..s.size : s.slots[k] = v[j]
          BY <4>2
        <5>1. CASE k = i
          BY <2>1, <5>1
        <5>2. CASE k # i
          BY <2>1, <3>3, <5>2
        <5> QED BY <5>1, <5>2
      <4> QED BY <3>2, <4>1, <4>2 DEF Accounted
    <3> QED BY <3>4 DEF Accounted
  <2> HIDE DEF t, slots
  <2>5. WalkInv(v, i, t)
    BY <2>1, <2>2, <2>3, <2>4 DEF WalkInv
  <2> QED BY <2>5 DEF t
<1> QED BY <1>1, <1>2

LEMMA WalkKeeps ==
  ASSUME NEW m, NEW v \in Seq(Nat), v = m_workers[m]
  PROVE  WalkInv(v, Len(v), CheckedWorkers(m))
<1>0. Len(v) \in Nat
  OBVIOUS
<1>1. PICK f : /\ f[0] = Unwalked(v)
               /\ \A i \in 1..Len(v) : f[i] = Visit(m, i, f[i - 1])
               /\ CheckedWorkers(m) = f[Len(v)]
  BY <1>0, CheckedIsWalk
<1> DEFINE T == {k \in Nat : k <= Len(v) => WalkInv(v, k, f[k])}
<1>2. 0 \in T
  <2>1. v \in [1..Len(v) -> Nat] /\ Accounted(v, Unwalked(v))
    BY <1>0 DEF Accounted, Unwalked
  <2>2. WalkInv(v, 0, Unwalked(v))
    BY <1>0, <2>1 DEF WalkInv, Unwalked
  <2> QED BY <1>1, <2>2
<1>3. ASSUME NEW k \in T
      PROVE  k + 1 \in T
  <2>1. CASE k + 1 <= Len(v)
    <3>1. k \in Nat /\ k <= Len(v) /\ k + 1 \in 1..Len(v) /\ (k + 1) - 1 = k
      BY <1>0, <2>1
    <3>2. WalkInv(v, (k + 1) - 1, f[k])
      BY <3>1
    <3>3. f[k + 1] = Visit(m, k + 1, f[k])
      BY <1>1, <3>1
    <3>4. WalkInv(v, k + 1, f[k + 1])
      BY <3>1, <3>2, <3>3, VisitKeeps
    <3> QED BY <3>1, <3>4
  <2>2. CASE ~(k + 1 <= Len(v))
    BY <2>2
  <2> QED BY <2>1, <2>2
<1>4. T = Nat
  <2> HIDE DEF T
  <2>1. T \in SUBSET Nat
    BY DEF T
  <2> QED BY <1>2, <1>3, <2>1, NatSetInduction
<1>5. Len(v) \in T
  BY <1>0, <1>4
<1> QED BY <1>0, <1>1, <1>5

(* With two workers, even the erase that is undefined leaves no worker out *)
(* that runs: the one that is met twice is the last.                       *)
LEMMA TwoAccounted ==
  ASSUME NEW m, NEW v \in Seq(Nat), Len(v) <= 2, NEW f, f[0] = Unwalked(v),
         \A i \in 1..Len(v) : f[i] = Visit(m, i, f[i - 1])
  PROVE  Accounted(v, f[Len(v)])
<1>0. Len(v) \in Nat /\ v \in [1..Len(v) -> Nat]
  BY LenProperties
<1> DEFINE s == f[0]
           c == f[Len(v)]
<1>5. s.slots = v /\ s.size = Len(v) /\ s.deleted = {}
  BY DEF Unwalked
<1> HIDE DEF s, c
<1>2. CASE Len(v) = 0
  BY <1>2 DEF Accounted
<1>3. CASE Len(v) = 1
  <2>1. c = Visit(m, 1, s)
    BY <1>3 DEF s, c
  <2>2. CASE group[m][v[1]].m_exit
    <3>2. group[m][s.slots[1]].m_exit
      BY <1>5, <2>2
    <3>3. s.slots[1] \in Visit(m, 1, s).deleted
      BY <3>2 DEF Visit
    <3>1. v[1] \in c.deleted
      BY <1>5, <2>1, <3>3
    <3> QED BY <1>3, <3>1 DEF Accounted, c
  <2>3. CASE ~group[m][v[1]].m_exit
    <3>1. c = s
      BY <1>5, <2>1, <2>3, VisitStays
    <3>2. Accounted(v, c)
      BY <1>3, <1>5, <3>1 DEF Accounted
    <3> QED BY <3>2 DEF c
  <2> QED BY <2>2, <2>3
<1>4. CASE Len(v) = 2
  <2> DEFINE t == f[1]
  <2>1. t = Visit(m, 1, s) /\ c = Visit(m, 2, t)
    BY <1>4 DEF s, c
  <2> HIDE DEF t
  <2>2. CASE group[m][v[1]].m_exit
    <3>1. /\ t.deleted = {v[1]} /\ t.size = 1
          /\ t.slots[1] = v[2] /\ t.slots[2] = v[2]
      <4>2. group[m][s.slots[1]].m_exit
        BY <1>5, <2>2
      <4>3. /\ t.slots = [j \in DOMAIN s.slots |->
                           IF j >= 1 /\ j < s.size THEN s.slots[j + 1] ELSE s.slots[j]]
            /\ t.size = s.size - 1 /\ t.deleted = s.deleted \cup {s.slots[1]}
        BY <2>1, <4>2, VisitErases
      <4>1. /\ t.slots = [j \in DOMAIN v |-> IF j >= 1 /\ j < 2 THEN v[j + 1] ELSE v[j]]
            /\ t.size = 2 - 1 /\ t.deleted = {} \cup {v[1]}
        BY <1>4, <1>5, <4>3
      <4> QED BY <1>0, <1>4, <4>1
    <3>2. CASE group[m][v[2]].m_exit
      <4>3. group[m][t.slots[2]].m_exit
        BY <3>1, <3>2
      <4>4. t.slots[2] \in Visit(m, 2, t).deleted /\ t.deleted \subseteq Visit(m, 2, t).deleted
        BY <4>3 DEF Visit
      <4>1. {v[1], v[2]} \subseteq c.deleted
        BY <2>1, <3>1, <4>4
      <4>2. Accounted(v, c)
        BY <1>4, <3>1, <4>1 DEF Accounted
      <4> QED BY <4>2 DEF c
    <3>3. CASE ~group[m][v[2]].m_exit
      <4>1. c = t
        BY <2>1, <3>1, <3>3, VisitStays
      <4>2. Accounted(v, c)
        BY <1>4, <3>1, <4>1 DEF Accounted
      <4> QED BY <4>2 DEF c
    <3> QED BY <3>2, <3>3
  <2>3. CASE ~group[m][v[1]].m_exit
    <3>1. t = s
      BY <1>5, <2>1, <2>3, VisitStays
    <3>2. CASE group[m][v[2]].m_exit
      <4>1. /\ c.slots = [j \in DOMAIN v |-> IF j >= 2 /\ j < 2 THEN v[j + 1] ELSE v[j]]
            /\ c.size = 2 - 1 /\ c.deleted = {} \cup {v[2]}
        BY <1>4, <1>5, <2>1, <3>1, <3>2, VisitErases, SMTT(30)
      <4>2. c.slots[1] = v[1] /\ c.size = 1 /\ c.deleted = {v[2]}
        BY <1>0, <1>4, <4>1
      <4>3. Accounted(v, c)
        BY <1>4, <4>2 DEF Accounted
      <4> QED BY <4>3 DEF c
    <3>3. CASE ~group[m][v[2]].m_exit
      <4>1. c = s
        BY <1>5, <2>1, <3>1, <3>3, VisitStays
      <4>2. Accounted(v, c)
        BY <1>4, <1>5, <4>1 DEF Accounted
      <4> QED BY <4>2 DEF c
    <3> QED BY <3>2, <3>3
  <2> QED BY <2>2, <2>3
<1>6. Len(v) = 0 \/ Len(v) = 1 \/ Len(v) = 2
  BY <1>0
<1> QED BY <1>2, <1>3, <1>4, <1>6 DEF c

(* Every worker is deleted or left, unless there are three and an erase is *)
(* undefined.                                                              *)
LEMMA SweepAccounts ==
  ASSUME NEW m, NEW v \in Seq(Nat), v = m_workers[m],
         Len(v) <= 2 \/ ~CheckedWorkers(m).undefined
  PROVE  Accounted(v, CheckedWorkers(m))
<1> DEFINE s == CheckedWorkers(m)
<1>1. Len(v) \in Nat
  BY LenProperties
<1>2. CASE ~s.undefined
  BY <1>2, WalkKeeps DEF WalkInv
<1>3. CASE Len(v) <= 2
  <2> PICK f : /\ f[0] = Unwalked(v)
               /\ \A i \in 1..Len(v) : f[i] = Visit(m, i, f[i - 1])
               /\ CheckedWorkers(m) = f[Len(v)]
    BY <1>1, CheckedIsWalk
  <2> QED BY <1>3, TwoAccounted
<1> QED BY <1>2, <1>3

LEMMA FunctionIsSeq ==
  ASSUME NEW n \in Nat, NEW f \in [1..n -> Nat]
  PROVE  f \in Seq(Nat) /\ Len(f) = n
OBVIOUS

(* A prefix of a sequence of numbers. *)
LEMMA SubSeqPrefix ==
  ASSUME NEW u \in Seq(Nat), NEW n \in 0..Len(u)
  PROVE  /\ SubSeq(u, 1, n) \in Seq(Nat) /\ Len(SubSeq(u, 1, n)) = n
         /\ \A k \in 1..n : SubSeq(u, 1, n)[k] = u[k]
<1>1. Len(u) \in Nat
  BY LenProperties
<1>2. \A k \in 1..n : u[k] \in Nat
  BY <1>1, ElementOfSeq
<1>3. /\ SubSeq(u, 1, n) \in Seq(Nat) /\ Len(SubSeq(u, 1, n)) = IF 1 <= n THEN n - 1 + 1 ELSE 0
      /\ \A k \in 1..n - 1 + 1 : SubSeq(u, 1, n)[k] = u[1 + k - 1]
  BY <1>1, <1>2, SubSeqProperties
<1>4. n - 1 + 1 = n /\ (IF 1 <= n THEN n - 1 + 1 ELSE 0) = n /\ \A k \in 1..n : 1 + k - 1 = k
  BY <1>1
<1> QED BY <1>3, <1>4

Kept(v, s, left) ==
  \A j \in 1..Len(v) : v[j] \in s.deleted \/ \E k \in 1..Len(left) : left[k] = v[j]

(* What is left of the vector after a walk. *)
LEMMA LeftOver ==
  ASSUME NEW v \in Seq(Nat), NEW s, WalkInv(v, Len(v), s),
         NEW left, left = SubSeq(s.slots, 1, s.size)
  PROVE  /\ left \in Seq(Nat) /\ Len(left) <= Len(v)
         /\ Accounted(v, s) => Kept(v, s, left)
<1>1. Len(v) \in Nat
  BY LenProperties
<1>2. s.slots \in [1..Len(v) -> Nat] /\ s.size \in 0..Len(v)
  BY <1>1 DEF WalkInv
<1>3. s.slots \in Seq(Nat) /\ Len(s.slots) = Len(v)
  BY <1>1, <1>2, FunctionIsSeq
<1>4. /\ left \in Seq(Nat) /\ Len(left) = s.size
      /\ \A k \in 1..s.size : left[k] = s.slots[k]
  <2>1. s.size \in 0..Len(s.slots)
    BY <1>2, <1>3
  <2> QED BY <1>3, <2>1, SubSeqPrefix
<1>5. ASSUME Accounted(v, s), NEW j \in 1..Len(v), v[j] \notin s.deleted
      PROVE  \E k \in 1..Len(left) : left[k] = v[j]
  <2> PICK k \in 1..s.size : s.slots[k] = v[j]
    BY <1>5, Zenon DEF Accounted
  <2> QED BY <1>4
<1>6. Len(left) <= Len(v)
  BY <1>1, <1>2, <1>4
<1> QED BY <1>4, <1>5, <1>6 DEF Kept

-----------------------------------------------------------------------------
(* At most two workers per manager. *)
TwoWorkers == \A m \in ManagerIds : Len(m_workers[m]) <= 2

LEMMA SweepWorkers ==
  ASSUME check_invalid
  PROVE  /\ pc = "sweep" /\ worker_threads' = worker_threads
         /\ \/ UNCHANGED <<life, m_workers, group>> /\ pc' # "crashed"
            \/ LET m == reload_manager_list[at]
                   s == CheckedWorkers(m)
                   left == SubSeq(s.slots, 1, s.size)
               IN  /\ ~(at > Len(reload_manager_list))
                   /\ m_workers' = [m_workers EXCEPT ![m] = left]
                   /\ group' = [group EXCEPT ![m] =
                        [w \in Groups |-> IF w \in s.deleted THEN Idle ELSE group[m][w]]]
                   /\ \/ pc' = "crashed" /\ life' = life
                      \/ pc' = pc /\ left # <<>> /\ life' = life
                      \/ pc' = pc /\ left = <<>> /\ life' = [life EXCEPT ![m] = "destroyed"]
BY Zenon DEF check_invalid

LEMMA IdleRecord ==
  /\ Idle \in WorkerRecords /\ Idle.run = "none"
  /\ \A x \in {"main", "looping", "ended"} :
       [Idle EXCEPT !.run = x] \in WorkerRecords /\ [Idle EXCEPT !.run = x].run = x
  /\ [Idle EXCEPT !.run = "ended", !.m_exit = TRUE] \in WorkerRecords
  /\ [Idle EXCEPT !.run = "ended", !.m_exit = TRUE].run = "ended"
BY DEF Idle, WorkerRecords

(* The groups start() makes are numbers. *)
LEMMA GroupsOfType ==
  ASSUME NEW n \in Nat
  PROVE  GroupsOf(n) \in Seq(Nat)
<1>1. CASE n = 0
  BY <1>1 DEF GroupsOf
<1>2. CASE n # 0
  BY <1>2 DEF GroupsOf
<1> QED BY <1>1, <1>2

LEMMA GroupInvStart ==
  ASSUME LifeInv, GroupInv, start_manager
  PROVE  GroupInv'
<1> DEFINE m == NextManager
           groups == GroupsOf(worker_threads)
           fresh(k) == [w \in Groups |->
                          IF w \in {groups[i] : i \in 1..k}
                            THEN [Idle EXCEPT !.run = IF w = 0 THEN "main" ELSE "looping"]
                            ELSE Idle]
<1>1. /\ worker_threads' = worker_threads /\ life' = [life EXCEPT ![m] = "running"]
      /\ pc = "start"
      /\ \/ UNCHANGED <<m_workers, group>>
         \/ \E k \in 0..Len(groups) :
              /\ m_workers' = [m_workers EXCEPT ![m] = SubSeq(groups, 1, k)]
              /\ group' = [group EXCEPT ![m] = fresh(k)]
  BY Zenon DEF start_manager
<1>2. \A n \in ManagerIds : life[n] \in {"running", "retired"} =>
                            life'[n] \in {"running", "retired"}
  BY <1>1 DEF LifeInv
<1>3. CASE UNCHANGED <<m_workers, group>>
  <2>1. GroupTypes' /\ SameRuns
    BY <1>3 DEF GroupInv, GroupTypes, SameRuns
  <2> QED BY <1>1, <1>2, <1>3, <2>1, GroupInvKept
<1>4. CASE m \notin ManagerIds /\ ~UNCHANGED <<m_workers, group>>
  BY <1>1, <1>4 DEF GroupInv, GroupTypes
<1>5. CASE m \in ManagerIds /\ ~UNCHANGED <<m_workers, group>>
  <2> PICK k \in 0..Len(groups) : /\ m_workers' = [m_workers EXCEPT ![m] = SubSeq(groups, 1, k)]
                                 /\ group' = [group EXCEPT ![m] = fresh(k)]
    BY <1>1, <1>5
  <2> DEFINE made == SubSeq(groups, 1, k)
             now == fresh(k)
  <2>1. made \in Seq(Nat) /\ Len(made) = k /\ \A j \in 1..k : made[j] = groups[j]
    <3>1. groups \in Seq(Nat)
      BY GroupsOfType DEF GroupInv
    <3> HIDE DEF groups
    <3> QED BY <3>1, SubSeqPrefix
  <2>9. \A w \in Groups : /\ now[w] \in WorkerRecords
                          /\ now[w].run # "none" => \E j \in 1..k : groups[j] = w
    BY IdleRecord
  <2>2. \A w \in Groups : /\ now[w] \in WorkerRecords
                          /\ now[w].run # "none" => \E j \in 1..Len(made) : made[j] = w
    <3> HIDE DEF now, made, groups
    <3> QED BY <2>1, <2>9
  <2>3. now \in [Groups -> WorkerRecords]
    BY <2>2
  <2>10. /\ m_workers' = [m_workers EXCEPT ![m] = made] /\ group' = [group EXCEPT ![m] = now]
    OBVIOUS
  <2> HIDE DEF groups, now, made, fresh, m
  <2>4. GroupTypes'
    BY <1>5, <2>1, <2>3, <2>10 DEF GroupInv, GroupTypes
  <2>5. \A n \in ManagerIds : n # m =>
          m_workers'[n] = m_workers[n] /\ group'[n] = group[n] /\ life'[n] = life[n]
    BY <1>1, <1>5, <2>10 DEF GroupInv, GroupTypes, LifeInv
  <2>6. m_workers'[m] = made /\ group'[m] = now /\ life'[m] = "running"
    BY <1>1, <1>5, <2>10 DEF GroupInv, GroupTypes, LifeInv
  <2>7. ASSUME NEW n \in ManagerIds, NEW w \in Groups, group'[n][w].run # "none"
        PROVE  Listed(n, w)'
    <3>1. CASE n = m
      BY <2>2, <2>6, <2>7, <3>1 DEF Listed
    <3>2. CASE n # m
      BY <1>1, <2>5, <2>7, <3>2 DEF GroupInv, Listed
    <3> QED BY <3>1, <3>2
  <2>8. MapsOutliveWorkers'
    BY <2>5, <2>6 DEF GroupInv, MapsOutliveWorkers
  <2> QED BY <1>1, <2>4, <2>7, <2>8 DEF GroupInv
<1> QED BY <1>3, <1>4, <1>5

LEMMA GroupInvSweep ==
  ASSUME LifeInv, GroupInv, check_invalid, TwoWorkers,
         NEW m, m = reload_manager_list[at], NEW v, v = m_workers[m]
  PROVE  GroupInv'
<1> DEFINE s == CheckedWorkers(m)
           left == SubSeq(s.slots, 1, s.size)
           rest == [w \in Groups |-> IF w \in s.deleted THEN Idle ELSE group[m][w]]
<1>0. pc = "sweep" /\ worker_threads' = worker_threads
  BY SweepWorkers, Zenon
<1>1. CASE UNCHANGED <<life, m_workers, group>> /\ pc' # "crashed"
  <2>1. GroupTypes' /\ SameRuns
    BY <1>1 DEF GroupInv, GroupTypes, SameRuns
  <2> QED BY <1>0, <1>1, <2>1, GroupInvKept
<1>2. CASE ~(UNCHANGED <<life, m_workers, group>> /\ pc' # "crashed")
  <2>1. /\ ~(at > Len(reload_manager_list))
        /\ m_workers' = [m_workers EXCEPT ![m] = left]
        /\ group' = [group EXCEPT ![m] = rest]
        /\ \/ pc' = "crashed" /\ life' = life
           \/ pc' = pc /\ left # <<>> /\ life' = life
           \/ pc' = pc /\ left = <<>> /\ life' = [life EXCEPT ![m] = "destroyed"]
    BY <1>2, SweepWorkers, Zenon
  <2>2. CASE m \notin ManagerIds
    <3> HIDE DEF s, left, rest
    <3>1. m_workers' = m_workers /\ group' = group /\ life' = life
      BY <2>1, <2>2 DEF GroupInv, GroupTypes, LifeInv
    <3>2. GroupTypes' /\ SameRuns
      BY <3>1 DEF GroupInv, GroupTypes, SameRuns
    <3> QED BY <1>0, <3>1, <3>2, GroupInvKept
  <2>3. CASE m \in ManagerIds
    <3>1. v \in Seq(Nat) /\ group[m] \in [Groups -> WorkerRecords]
      BY <2>3 DEF GroupInv, GroupTypes
    <3>2. WalkInv(v, Len(v), s)
      BY <3>1, WalkKeeps
    <3>3. left \in Seq(Nat)
      BY <3>1, <3>2, LeftOver
    <3>4. \A w \in Groups : /\ rest[w] \in WorkerRecords
                            /\ w \in s.deleted => rest[w].run = "none"
                            /\ w \notin s.deleted => rest[w] = group[m][w]
      BY <3>1, IdleRecord
    <3>5. rest \in [Groups -> WorkerRecords]
      BY <3>4
    <3>6. ASSUME pc' # "crashed"
          PROVE  Kept(v, s, left)
      <4>1. Len(v) <= 2 \/ ~s.undefined
        BY <2>1, <2>3, <3>6 DEF TwoWorkers
      <4>2. Accounted(v, s)
        BY <3>1, <4>1, SweepAccounts
      <4>3. left = SubSeq(s.slots, 1, s.size)
        OBVIOUS
      <4> HIDE DEF s, left
      <4> QED BY <3>1, <3>2, <4>2, <4>3, LeftOver
    <3> HIDE DEF s, left, rest
    <3>7. /\ m_workers'[m] = left /\ group'[m] = rest
          /\ \A n \in ManagerIds : n # m =>
               m_workers'[n] = m_workers[n] /\ group'[n] = group[n] /\ life'[n] = life[n]
      BY <2>1, <2>3 DEF GroupInv, GroupTypes, LifeInv
    <3>8. GroupTypes'
      BY <2>1, <2>3, <3>3, <3>5 DEF GroupInv, GroupTypes
    <3>9. ASSUME NEW w \in Groups, rest[w].run # "none", pc' # "crashed"
          PROVE  \E k \in 1..Len(left) : left[k] = w
      <4>1. w \notin s.deleted /\ group[m][w].run # "none"
        BY <3>4, <3>9
      <4>2. PICK j \in 1..Len(v) : v[j] = w
        BY <1>0, <2>3, <4>1 DEF GroupInv, Listed
      <4> QED BY <3>6, <3>9, <4>1, <4>2 DEF Kept
    <3>10. ASSUME NEW n \in ManagerIds, NEW w \in Groups, group'[n][w].run # "none",
                  pc' # "crashed"
           PROVE  Listed(n, w)'
      <4>1. CASE n = m
        BY <3>7, <3>9, <3>10, <4>1 DEF Listed
      <4>2. CASE n # m
        BY <1>0, <3>7, <3>10, <4>2 DEF GroupInv, Listed
      <4> QED BY <4>1, <4>2
    <3>11. ASSUME NEW n \in ManagerIds, NEW w \in Groups, group'[n][w].run = "looping"
           PROVE  life'[n] \in {"running", "retired"}
      <4>1. CASE n # m
        BY <3>7, <3>11, <4>1 DEF GroupInv, MapsOutliveWorkers
      <4>2. CASE n = m
        <5>1. rest[w].run = "looping"
          BY <3>7, <3>11, <4>2
        <5>2. life[m] \in {"running", "retired"}
          BY <2>3, <3>4, <5>1 DEF GroupInv, MapsOutliveWorkers
        <5>3. CASE life' = life
          BY <4>2, <5>2, <5>3
        <5>4. CASE life' # life
          <6>1. pc' # "crashed" /\ left = <<>>
            BY <1>0, <2>1, <5>4
          <6>2. PICK k \in 1..Len(left) : left[k] = w
            BY <3>9, <5>1, <6>1
          <6> QED BY <6>1, <6>2
        <5> QED BY <5>3, <5>4
      <4> QED BY <4>1, <4>2
    <3> QED BY <1>0, <3>8, <3>10, <3>11 DEF GroupInv, MapsOutliveWorkers
  <2> QED BY <2>2, <2>3
<1> QED BY <1>1, <1>2

LEMMA GroupInvStop ==
  ASSUME LifeInv, GroupInv, StopWorker, NEW m, m = Leaving,
         NEW w, w = Head(m_workers[m])
  PROVE  GroupInv'
<1>1. /\ pc = "stop" /\ UNCHANGED <<worker_threads, pc, life>> /\ m_workers[m] # <<>>
      /\ \/ /\ group' = [group EXCEPT ![m][w].m_exit = TRUE]
            /\ UNCHANGED m_workers
         \/ /\ m_workers' = [m_workers EXCEPT ![m] = Tail(@)]
            /\ group' = [group EXCEPT ![m][w] = Idle]
            /\ ~(group[m][w].run = "looping")
  BY DEF StopWorker, mainVars
<1>2. CASE UNCHANGED m_workers /\ group' = [group EXCEPT ![m][w].m_exit = TRUE]
  <2> DEFINE r == [group[m][w] EXCEPT !.m_exit = TRUE]
  <2>1. group' = [group EXCEPT ![m][w] = r]
    BY <1>2
  <2>2. ASSUME m \in ManagerIds, w \in Groups
        PROVE  r \in WorkerRecords /\ r.run = group[m][w].run
    <3>1. group[m][w] \in WorkerRecords
      BY <2>2 DEF GroupInv, GroupTypes
    <3> QED BY <3>1 DEF WorkerRecords
  <2> HIDE DEF r
  <2>3. GroupTypes' /\ SameRuns
    <3>1. GroupTypes
      BY DEF GroupInv
    <3>2. m_workers' = m_workers
      BY <1>2
    <3> QED BY <2>1, <2>2, <3>1, <3>2, OneWorkerChanges, Zenon
  <2> QED BY <1>1, <1>2, <2>3, GroupInvKept
<1>3. CASE /\ m_workers' = [m_workers EXCEPT ![m] = Tail(@)]
           /\ group' = [group EXCEPT ![m][w] = Idle]
  <2>1. CASE m \notin ManagerIds
    <3>1. m_workers' = m_workers /\ group' = group
      BY <1>3, <2>1 DEF GroupInv, GroupTypes
    <3>2. GroupTypes' /\ SameRuns
      BY <3>1 DEF GroupInv, GroupTypes, SameRuns
    <3> QED BY <1>1, <3>1, <3>2, GroupInvKept
  <2>2. CASE m \in ManagerIds
    <3> DEFINE v == m_workers[m]
    <3>1. v \in Seq(Nat) /\ v # <<>> /\ group[m] \in [Groups -> WorkerRecords]
      BY <1>1, <2>2 DEF GroupInv, GroupTypes
    <3>2. /\ Tail(v) \in Seq(Nat) /\ Len(Tail(v)) = Len(v) - 1 /\ Len(v) \in Nat
          /\ \A j \in 1..(Len(v) - 1) : Tail(v)[j] = v[j + 1]
          /\ w = v[1]
      BY <3>1
    <3>3. /\ m_workers'[m] = Tail(v) /\ group'[m] = [group[m] EXCEPT ![w] = Idle]
          /\ \A n \in ManagerIds : n # m => m_workers'[n] = m_workers[n] /\ group'[n] = group[n]
      BY <1>3, <2>2 DEF GroupInv, GroupTypes
    <3>4. GroupTypes'
      <4>1. [group[m] EXCEPT ![w] = Idle] \in [Groups -> WorkerRecords]
        BY <3>1, IdleRecord
      <4> QED BY <1>3, <2>2, <3>2, <4>1 DEF GroupInv, GroupTypes
    <3>5. \A x \in Groups : \/ group'[m][x] = group[m][x] /\ x # w
                            \/ group'[m][x].run = "none"
      BY <3>1, <3>3, IdleRecord
    <3>6. ASSUME NEW n \in ManagerIds, NEW x \in Groups, group'[n][x].run # "none"
          PROVE  Listed(n, x)'
      <4>1. CASE n # m
        BY <1>1, <3>3, <3>6, <4>1 DEF GroupInv, Listed
      <4>2. CASE n = m
        <5>1. x # w /\ group[m][x].run # "none"
          BY <3>5, <3>6, <4>2
        <5>2. PICK j \in 1..Len(v) : v[j] = x
          BY <1>1, <2>2, <5>1 DEF GroupInv, Listed
        <5>3. j - 1 \in 1..(Len(v) - 1) /\ (j - 1) + 1 = j
          BY <3>2, <5>1, <5>2
        <5>4. Tail(v)[j - 1] = x
          BY <3>2, <5>2, <5>3
        <5> QED BY <3>2, <3>3, <4>2, <5>3, <5>4 DEF Listed
      <4> QED BY <4>1, <4>2
    <3> HIDE DEF v
    <3>7. ASSUME NEW n \in ManagerIds, NEW x \in Groups, group'[n][x].run = "looping"
          PROVE  life'[n] \in {"running", "retired"}
      <4>1. group[n][x].run = "looping"
        BY <3>3, <3>5, <3>7
      <4> QED BY <1>1, <4>1 DEF GroupInv, MapsOutliveWorkers
    <3> QED BY <1>1, <3>4, <3>6, <3>7 DEF GroupInv, MapsOutliveWorkers
  <2> QED BY <2>1, <2>2
<1> QED BY <1>1, <1>2, <1>3

LEMMA GroupInvStep ==
  ASSUME LifeInv, GroupInv, [ServerNext]_serverVars, TwoWorkers
  PROVE  GroupInv'
<1>0. GroupTypes
  BY DEF GroupInv
<1>1. CASE sls_conf_open
  <2>1. /\ UNCHANGED <<worker_threads, life, m_workers, group>>
        /\ pc # "crashed"
    BY <1>1 DEF sls_conf_open, managerVars
  <2>2. GroupTypes' /\ SameRuns
    BY <1>0, <2>1 DEF GroupTypes, SameRuns
  <2> QED BY <2>1, <2>2, GroupInvKept
<1>2. CASE start_manager
  BY <1>2, GroupInvStart
<1>3. CASE check_invalid
  BY <1>3, GroupInvSweep
<1>4. CASE reload
  <2> DEFINE m == sls_manager
             flagged == [w \in Groups |-> IF group[m][w].run = "none" THEN group[m][w]
                           ELSE [group[m][w] EXCEPT !.m_reload = TRUE]]
  <2>1. /\ UNCHANGED <<worker_threads, m_workers>> /\ pc = "reload"
        /\ group' = [group EXCEPT ![m] = flagged]
        /\ life' = [life EXCEPT ![m] = "retired"]
    BY <1>4, Zenon DEF reload, ReloadFlag
  <2>2. ASSUME m \in ManagerIds, NEW w \in Groups
        PROVE  flagged[w] \in WorkerRecords /\ flagged[w].run = group[m][w].run
    <3>1. group[m][w] \in WorkerRecords
      BY <1>0, <2>2 DEF GroupTypes
    <3> QED BY <3>1 DEF WorkerRecords
  <2>3. m \in ManagerIds => flagged \in [Groups -> WorkerRecords]
    BY <2>2
  <2> HIDE DEF flagged, m
  <2>4. GroupTypes' /\ SameRuns
    BY <1>0, <2>1, <2>2, <2>3 DEF GroupTypes, SameRuns
  <2>5. \A n \in ManagerIds : life[n] \in {"running", "retired"} =>
                              life'[n] \in {"running", "retired"}
    BY <2>1 DEF LifeInv
  <2> QED BY <2>1, <2>4, <2>5, GroupInvKept
<1>5. CASE DestroyManager
  <2>1. /\ UNCHANGED <<worker_threads, m_workers, group, pc>> /\ pc = "stop"
        /\ m_workers[Leaving] = <<>>
        /\ life' = [life EXCEPT ![Leaving] = "destroyed"]
    BY <1>5, Zenon DEF DestroyManager, Joined
  <2>2. ASSUME NEW n \in ManagerIds, NEW w \in Groups, group[n][w].run = "looping"
        PROVE  life'[n] = life[n]
    <3>1. Listed(n, w)
      BY <2>1, <2>2 DEF GroupInv
    <3>2. n # Leaving
      BY <2>1, <3>1 DEF Listed
    <3> QED BY <2>1, <3>2 DEF LifeInv
  <2> QED BY <2>1, <2>2 DEF GroupInv, GroupTypes, MapsOutliveWorkers, Listed
<1>6. CASE LoopTop
  <2>1. /\ UNCHANGED <<worker_threads, life, m_workers>> /\ pc = "loop"
        /\ group' = group \/ handler(sls_manager, 0)
    BY <1>6, Zenon DEF LoopTop
  <2>2. GroupTypes' /\ SameRuns
    <3>1. CASE group' = group
      BY <1>0, <2>1, <3>1 DEF GroupTypes, SameRuns
    <3>2. CASE handler(sls_manager, 0)
      BY <1>0, <2>1, <3>2, HandlerKeepsRuns
    <3> QED BY <2>1, <3>1, <3>2
  <2> QED BY <2>1, <2>2, GroupInvKept
<1>7. CASE Finish
  <2>1. /\ UNCHANGED <<worker_threads, life, m_workers, group>> /\ pc = "stop"
    BY <1>7 DEF Finish, managerVars
  <2>2. GroupTypes' /\ SameRuns
    BY <1>0, <2>1 DEF GroupTypes, SameRuns
  <2> QED BY <2>1, <2>2, GroupInvKept
<1>8. CASE StopWorker
  BY <1>8, GroupInvStop
<1>9. CASE Signal \/ \E m \in ManagerIds : Accept(m)
  <2>1. UNCHANGED <<worker_threads, life, m_workers, group, pc>>
    BY <1>9 DEF Signal, Accept, managerVars, mainVars
  <2>2. GroupTypes' /\ SameRuns
    BY <1>0, <2>1 DEF GroupTypes, SameRuns
  <2> QED BY <2>1, <2>2, GroupInvKept
<1>10. ASSUME NEW m \in ManagerIds, NEW w \in Groups, WorkerPass(m, w)
       PROVE  GroupInv'
  <2>1. UNCHANGED <<worker_threads, life, m_workers, pc>> /\ handler(m, w)
    BY <1>10, Zenon DEF WorkerPass, mainVars
  <2>2. GroupTypes' /\ SameRuns
    BY <1>0, <2>1, HandlerKeepsRuns
  <2> QED BY <2>1, <2>2, GroupInvKept
<1>11. ASSUME NEW m \in ManagerIds, NEW w \in Groups, WorkEnds(m, w)
       PROVE  GroupInv'
  <2> DEFINE r == [Idle EXCEPT !.run = "ended", !.m_exit = TRUE]
  <2>1. /\ UNCHANGED <<worker_threads, life, m_workers, pc>>
        /\ group[m][w].run = "looping" /\ group' = [group EXCEPT ![m][w] = r]
    BY <1>11, Zenon DEF WorkEnds, mainVars
  <2>2. r \in WorkerRecords /\ r.run = "ended"
    BY IdleRecord
  <2> HIDE DEF r
  <2>3. GroupTypes'
    BY <1>0, <2>1, <2>2 DEF GroupTypes
  <2>4. \A n \in ManagerIds, x \in Groups :
          group'[n][x].run = group[n][x].run \/ (n = m /\ x = w /\ group'[n][x].run = "ended")
    BY <1>0, <2>1, <2>2 DEF GroupTypes
  <2> QED BY <2>1, <2>3, <2>4 DEF GroupInv, MapsOutliveWorkers, Listed
<1>12. CASE UNCHANGED serverVars
  <2>1. UNCHANGED <<worker_threads, life, m_workers, group, pc>>
    BY <1>12 DEF serverVars, managerVars, mainVars
  <2>2. GroupTypes' /\ SameRuns
    BY <1>0, <2>1 DEF GroupTypes, SameRuns
  <2> QED BY <2>1, <2>2, GroupInvKept
<1> QED BY <1>1, <1>2, <1>3, <1>4, <1>5, <1>6, <1>7, <1>8, <1>9, <1>10, <1>11, <1>12
        DEF ServerNext, Main, Worker

LEMMA InitGroups == ServerInit => GroupInv
<1> SUFFICES ASSUME ServerInit PROVE GroupInv
  OBVIOUS
<1>1. group = [m \in ManagerIds |-> [w \in Groups |-> Idle]] /\ worker_threads \in Nat
  BY ServerAssumption DEF ServerInit
<1>2. \A m \in ManagerIds, w \in Groups : group[m][w] \in WorkerRecords /\ group[m][w].run = "none"
  BY <1>1, IdleRecord
<1>3. GroupTypes
  BY <1>1, IdleRecord DEF ServerInit, GroupTypes
<1> QED BY <1>1, <1>2, <1>3 DEF GroupInv, MapsOutliveWorkers

(* The vector of a manager never grows past the two workers it began with. *)
TwoInv == worker_threads \in 0..2 /\ TwoWorkers

LEMMA TwoInvStep ==
  ASSUME LifeInv, GroupInv, TwoInv, [ServerNext]_serverVars
  PROVE  TwoInv'
<1>0. m_workers \in [ManagerIds -> Seq(Nat)] /\ worker_threads \in 0..2
      /\ \A n \in ManagerIds : Len(m_workers[n]) <= 2
  BY DEF GroupInv, GroupTypes, TwoInv, TwoWorkers
<1>1. CASE UNCHANGED <<worker_threads, m_workers>>
  BY <1>1 DEF TwoInv, TwoWorkers
<1>2. CASE start_manager
  <2>1. /\ worker_threads' = worker_threads
        /\ \/ m_workers' = m_workers
           \/ \E k \in 0..Len(GroupsOf(worker_threads)) :
                m_workers' = [m_workers EXCEPT ![NextManager] =
                                SubSeq(GroupsOf(worker_threads), 1, k)]
    BY <1>2, Zenon DEF start_manager
  <2>3. Len(GroupsOf(worker_threads)) <= 2 /\ GroupsOf(worker_threads) \in Seq(Nat)
    <3>1. CASE worker_threads = 0
      BY <3>1 DEF GroupsOf
    <3>2. CASE worker_threads # 0
      BY <1>0, <3>2 DEF GroupsOf
    <3> QED BY <3>1, <3>2
  <2>2. \A k \in 0..Len(GroupsOf(worker_threads)) :
          Len(SubSeq(GroupsOf(worker_threads), 1, k)) <= 2
    BY <2>3, SubSeqPrefix
  <2> QED BY <1>0, <2>1, <2>2 DEF TwoInv, TwoWorkers
<1>3. ASSUME check_invalid, NEW m, m = reload_manager_list[at], NEW v, v = m_workers[m]
      PROVE  TwoInv'
  <2> DEFINE s == CheckedWorkers(m)
             left == SubSeq(s.slots, 1, s.size)
  <2>1. /\ worker_threads' = worker_threads
        /\ \/ m_workers' = m_workers
           \/ m_workers' = [m_workers EXCEPT ![m] = left]
    BY <1>3, SweepWorkers, Zenon
  <2>2. ASSUME m \in ManagerIds
        PROVE  Len(left) <= 2
    <3>1. v \in Seq(Nat) /\ Len(v) <= 2 /\ Len(v) \in Nat
      BY <1>0, <1>3, <2>2
    <3>2. WalkInv(v, Len(v), s)
      BY <1>3, <3>1, WalkKeeps
    <3>3. left \in Seq(Nat) /\ Len(left) <= Len(v)
      BY <3>1, <3>2, LeftOver
    <3>4. Len(left) \in Nat
      BY <3>3, LenProperties
    <3> HIDE DEF left
    <3> QED BY <3>1, <3>3, <3>4
  <2> HIDE DEF left
  <2> QED BY <1>0, <2>1, <2>2 DEF TwoInv, TwoWorkers
<1>4. CASE StopWorker
  <2>1. /\ worker_threads' = worker_threads /\ m_workers[Leaving] # <<>>
        /\ \/ m_workers' = m_workers
           \/ m_workers' = [m_workers EXCEPT ![Leaving] = Tail(@)]
    BY <1>4, Zenon DEF StopWorker
  <2>2. ASSUME Leaving \in ManagerIds
        PROVE  Len(Tail(m_workers[Leaving])) <= 2
    <3>1. m_workers[Leaving] \in Seq(Nat) /\ Len(m_workers[Leaving]) <= 2
      BY <1>0, <2>2
    <3> QED BY <2>1, <3>1
  <2> QED BY <1>0, <2>1, <2>2 DEF TwoInv, TwoWorkers
<1>5. CASE sls_conf_open \/ reload \/ DestroyManager \/ Finish
  BY <1>1, <1>5 DEF sls_conf_open, reload, DestroyManager, Finish, managerVars
<1>6. CASE LoopTop \/ Signal \/ \E m \in ManagerIds : Accept(m)
  BY <1>1, <1>6 DEF LoopTop, Signal, Accept, managerVars
<1>7. CASE \E m \in ManagerIds, w \in Groups : Worker(m, w)
  BY <1>1, <1>7 DEF Worker, WorkerPass, WorkEnds
<1>8. CASE UNCHANGED serverVars
  BY <1>1, <1>8 DEF serverVars, managerVars
<1> QED BY <1>2, <1>3, <1>4, <1>5, <1>6, <1>7, <1>8 DEF ServerNext, Main

(* CSLSManager::stop() and check_invalid(): nothing a manager or one of    *)
(* its workers still points at is freed under it, with up to two worker    *)
(* threads, for any number of reloads and sessions, as long as no file     *)
(* fails before its first block or closes a block before it opens one.     *)
(* With three workers the last of the finished ones can be deleted and     *)
(* erased twice, which is undefined, and the manager may then be destroyed *)
(* while another worker still runs.                                        *)
THEOREM NothingFreedByTwo ==
  ASSUME WorkerThreads \subseteq 0..2, {"first", "bare"} \cap FileFaults = {}
  PROVE  ServerSpec => []NothingFreedInUse
<1> DEFINE I == LifeInv /\ ConfInv /\ GroupInv /\ TwoInv
<1>1. ServerInit => I
  <2>1. ServerInit => TwoInv
    BY DEF ServerInit, TwoInv, TwoWorkers
  <2> QED BY <2>1, InitLife, InitGroups
<1>2. I /\ [ServerNext]_serverVars => I'
  <2> SUFFICES ASSUME I, [ServerNext]_serverVars PROVE I'
    OBVIOUS
  <2>1. LifeInv' /\ ConfInv'
    BY LifeInvStep, ConfInvStep
  <2>2. GroupInv'
    BY GroupInvStep DEF TwoInv
  <2>3. TwoInv'
    BY TwoInvStep
  <2> QED BY <2>1, <2>2, <2>3
<1>3. I => NothingFreedInUse
  BY KeptOutlives DEF GroupInv, NothingFreedInUse
<1> QED BY <1>1, <1>2, <1>3, PTL DEF ServerSpec
=============================================================================
