-------------------------- MODULE StreamDataProofs --------------------------
(***************************************************************************)
(* Proofs about what the data of a stream passes through, for any streams, *)
(* sizes, caps, hints, packets and limits: the ring table and its budget   *)
(* (CSLSMapData), the loss counters, the timecode scanner down to the      *)
(* bytes it scans, and the bitrate limiter.  The laws of the sums and of   *)
(* loops are in CountingTheorems.                                          *)
(***************************************************************************)
EXTENDS MapData, StreamStats, Timecode, BitrateLimit, AnnexB, CountingTheorems,
        SequenceTheorems

(* The parts of the state that the theorems are about, together: the count *)
(* is exact only as long as a ring is what cc state and size agree on, and *)
(* the caps hold of the rings because the counters they are tested with    *)
(* are exact.                                                              *)
MapInv == MapTypeOK /\ BudgetExact /\ ParserStateTracksRing

(* A subset of the keys is finite, so the rings can be counted. *)
LEMMA RingsFinite == IsFiniteSet(Rings) /\ Cardinality(Rings) \in Nat
  BY KeysFinite, FS_Subset, FS_CardinalityType DEF Rings

(* What the rings hold is an integer, and moves with the ring of one key.  *)
LEMMA RingBytesType ==
  ASSUME MapTypeOK
  PROVE  RingBytes \in Int
  BY KeysFinite, SumType DEF MapTypeOK, RingBytes, SumFunction

LEMMA RingBytesMove ==
  ASSUME MapTypeOK, NEW k \in Keys, NEW size \in Nat,
         m_map_array' = [m_map_array EXCEPT ![k] = size]
  PROVE  RingBytes' = RingBytes - m_map_array[k] + size
<1>1. m_map_array \in [Keys -> Int]
  BY DEF MapTypeOK
<1>2. SumFunction([m_map_array EXCEPT ![k] = size])
        = SumFunction(m_map_array) - m_map_array[k] + size
  <2>1. size \in Int
    OBVIOUS
  <2> QED BY <1>1, <2>1, KeysFinite, SumExcept
<1> QED BY <1>2 DEF RingBytes

(* No ring holds no bytes.                                                 *)
LEMMA RingBytesEmpty ==
  ASSUME NEW a, a = [k \in Keys |-> 0]
  PROVE  SumFunction(a) = 0
<1>1. DOMAIN a = Keys /\ \A k \in Keys : a[k] = 0
  OBVIOUS
<1> QED BY <1>1, KeysFinite, SumZero DEF SumFunction

(* The per-stream cap bounds what a hint asks for. *)
LEMMA TargetBounded ==
  ASSUME NEW kbps \in Nat, NEW latency \in Nat
  PROVE  /\ TargetBytes(kbps, latency) \in Nat
         /\ TargetBytes(kbps, latency) <= MAX_RING_BYTES
<1> DEFINE seconds == IF latency \div 1000 < 1 THEN 1 ELSE latency \div 1000
           target == kbps * 125 * seconds
<1>1. seconds \in Nat
  OBVIOUS
<1>2. target \in Nat
  <2> HIDE DEF seconds
  <2>1. kbps * 125 \in Nat
    OBVIOUS
  <2>2. \A a, b \in Nat : a * b \in Nat
    OBVIOUS
  <2> QED BY <1>1, <2>1, <2>2
<1>3. TargetBytes(kbps, latency)
        = IF target > MAX_RING_BYTES THEN MAX_RING_BYTES ELSE target
  BY DEF TargetBytes
<1> HIDE DEF target
<1> QED BY <1>2, <1>3, MapAssumption

(* A ring is never smaller than the default, nor larger than the cap       *)
(* unless the default itself is.                                           *)
LEMMA SizeBounded ==
  ASSUME NEW hint \in Hints
  PROVE  /\ IntendedSize(hint) \in Nat \ {0}
         /\ IntendedSize(hint) >= DefaultSize
         /\ \/ IntendedSize(hint) = DefaultSize
            \/ IntendedSize(hint) <= MAX_RING_BYTES
<1>1. hint[1] \in Nat /\ hint[2] \in Nat
  BY MapAssumption
<1>2. /\ TargetBytes(hint[1], hint[2]) \in Nat
      /\ TargetBytes(hint[1], hint[2]) <= MAX_RING_BYTES
  BY <1>1, TargetBounded
<1>3. \/ IntendedSize(hint) = DefaultSize
      \/ /\ IntendedSize(hint) = TargetBytes(hint[1], hint[2])
         /\ TargetBytes(hint[1], hint[2]) > DefaultSize
  BY DEF IntendedSize
<1> QED BY <1>2, <1>3, MapAssumption

(* The empty map satisfies the invariant. *)
LEMMA InitInv == MapInit => MapInv
<1> SUFFICES ASSUME MapInit PROVE MapInv
  OBVIOUS
<1>1. Rings = {}
  BY DEF MapInit, Rings
<1>2. Cardinality(Rings) = 0
  BY <1>1, FS_EmptySet
<1>3. RingBytes = 0
  BY RingBytesEmpty DEF MapInit, RingBytes
<1>4. BudgetExact
  BY <1>2, <1>3, MapAssumption
     DEF MapInit, BudgetExact, StreamCountExact, RingBytesExact,
         StreamCapHolds, ByteCapHolds
<1> QED BY <1>1, <1>4, MapAssumption
        DEF MapInit, MapInv, MapTypeOK, ParserStateTracksRing

(* add() of a new key adds one ring and one to the count, below the cap,   *)
(* and its bytes to the bytes, below theirs.                               *)
LEMMA AddNewInv ==
  ASSUME MapInv, NEW k \in Keys, NEW hint \in Hints, AddNew(k, hint)
  PROVE  MapInv'
<1>1. Rings' = Rings \cup {k}
  BY SizeBounded DEF AddNew, Rings, MapInv, MapTypeOK
<1>2. Cardinality(Rings') = Cardinality(Rings) + 1
  BY <1>1, RingsFinite, FS_AddElement DEF AddNew
<1>3. MapTypeOK'
  BY <1>1, SizeBounded DEF AddNew, Rings, MapInv, MapTypeOK
<1>4. StreamCountExact'
  BY <1>2 DEF AddNew, MapInv, BudgetExact, StreamCountExact
<1>5. StreamCapHolds'
  BY <1>2, RingsFinite, MapAssumption
     DEF AddNew, MapInv, BudgetExact, StreamCountExact, StreamCapHolds,
         StreamCapReached
<1>6. ParserStateTracksRing'
  BY <1>1 DEF AddNew, MapInv, ParserStateTracksRing
<1>7. RingBytes' = RingBytes + IntendedSize(hint) /\ RingBytes \in Int
  <2>1. m_map_array[k] = 0
    BY DEF AddNew, Rings
  <2>2. RingBytes' = RingBytes - m_map_array[k] + IntendedSize(hint)
    BY SizeBounded, RingBytesMove DEF AddNew, MapInv
  <2> QED BY <2>1, <2>2, RingBytesType, SizeBounded DEF MapInv
<1>8. RingBytesExact' /\ ByteCapHolds'
  <2>1. m_total_ring_bytes' = RingBytes'
    BY <1>7 DEF AddNew, MapInv, BudgetExact, RingBytesExact
  <2>2. m_max_total_ring_bytes > 0
          => RingBytes + IntendedSize(hint) <= m_max_total_ring_bytes
    BY <1>7, SizeBounded, MapAssumption
       DEF AddNew, MapInv, BudgetExact, RingBytesExact, BytesCapExceeded
  <2> QED BY <1>7, <2>1, <2>2 DEF RingBytesExact, ByteCapHolds
<1> QED BY <1>3, <1>4, <1>5, <1>6, <1>8 DEF MapInv, BudgetExact

(* remove() takes one from the count exactly when there was a ring, and    *)
(* from the bytes what that ring held.                                     *)
LEMMA RemoveInv ==
  ASSUME MapInv, NEW k \in Keys, Remove(k)
  PROVE  MapInv'
<1>1. Rings' = Rings \ {k}
  BY DEF Remove, Rings, MapInv, MapTypeOK
<1>2. Cardinality(Rings')
        = Cardinality(Rings) - (IF k \in Rings THEN 1 ELSE 0)
  <2>1. CASE k \in Rings
    BY <2>1, <1>1, RingsFinite, FS_RemoveElement
  <2>2. CASE k \notin Rings
    <3>1. Rings' = Rings
      BY <2>2, <1>1
    <3> QED BY <2>2, <3>1, RingsFinite
  <2> QED BY <2>1, <2>2
<1>3. StreamCountExact'
  BY <1>2 DEF Remove, MapInv, BudgetExact, StreamCountExact
<1>4. MapTypeOK'
  <2>1. m_stream_count' \in Nat
    BY <1>3, RingsFinite, <1>1, FS_Subset, FS_CardinalityType
       DEF StreamCountExact
  <2> QED BY <1>1, <2>1 DEF Remove, Rings, MapInv, MapTypeOK
<1>5. StreamCapHolds'
  BY <1>2, RingsFinite, MapAssumption DEF MapInv, BudgetExact, StreamCapHolds
<1>6. ParserStateTracksRing'
  BY <1>1 DEF Remove, MapInv, ParserStateTracksRing
<1>7. RingBytes' = RingBytes - m_map_array[k] /\ RingBytes \in Int
        /\ m_map_array[k] \in Nat
  <2>1. RingBytes' = RingBytes - m_map_array[k] + 0
    BY RingBytesMove DEF Remove, MapInv
  <2>2. RingBytes \in Int /\ m_map_array[k] \in Nat
    BY RingBytesType DEF MapInv, MapTypeOK
  <2> QED BY <2>1, <2>2
<1>8. RingBytesExact' /\ ByteCapHolds'
  BY <1>7, MapAssumption
     DEF Remove, MapInv, BudgetExact, RingBytesExact, ByteCapHolds
<1> QED BY <1>3, <1>4, <1>5, <1>6, <1>8 DEF MapInv, BudgetExact

(* clear() takes from the count as many as there were rings, and from the  *)
(* bytes all that they held.                                               *)
LEMMA ClearInv ==
  ASSUME MapInv, Clear
  PROVE  MapInv'
<1>1. Rings' = {}
  BY DEF Clear, Rings
<1>2. Cardinality(Rings') = 0
  BY <1>1, FS_EmptySet
<1>3. m_stream_count' = 0
  BY RingsFinite DEF Clear, MapInv, BudgetExact, StreamCountExact
<1>4. RingBytes' = 0
  BY RingBytesEmpty DEF Clear, RingBytes
<1>5. m_total_ring_bytes' = 0
  BY RingBytesType DEF Clear, MapInv, BudgetExact, RingBytesExact
<1>6. BudgetExact'
  BY <1>2, <1>3, <1>4, <1>5, MapAssumption
     DEF BudgetExact, StreamCountExact, RingBytesExact, StreamCapHolds,
         ByteCapHolds
<1> QED BY <1>1, <1>3, <1>6, MapAssumption
        DEF Clear, MapInv, MapTypeOK, ParserStateTracksRing

(* The steps that leave the rings and the counters alone.                  *)
LEMMA SameRingsInv ==
  ASSUME MapInv, m_map_tc_state' \subseteq Keys,
         UNCHANGED <<m_map_array, m_map_cc_state, m_stream_count,
                     m_total_ring_bytes>>
  PROVE  MapInv'
  BY DEF MapInv, MapTypeOK, BudgetExact, StreamCountExact, StreamCapHolds,
         RingBytesExact, ByteCapHolds, RingBytes, ParserStateTracksRing, Rings

(* Every operation of CSLSMapData preserves the invariant. *)
LEMMA MapStep == MapInv /\ [MapNext]_mapVars => MapInv'
<1> SUFFICES ASSUME MapInv, [MapNext]_mapVars PROVE MapInv'
  OBVIOUS
<1>1. ASSUME NEW k \in Keys, NEW hint \in Hints, AddNew(k, hint)
      PROVE  MapInv'
  BY <1>1, AddNewInv
<1>2. ASSUME NEW k \in Keys, AddExisting(k) PROVE MapInv'
  BY <1>2, SameRingsInv DEF AddExisting, mapVars, MapInv, MapTypeOK
<1>3. ASSUME NEW k \in Keys, Remove(k) PROVE MapInv'
  BY <1>3, RemoveInv
<1>4. CASE Clear
  BY <1>4, ClearInv
<1>5. ASSUME NEW k \in Keys, NEW enabled \in BOOLEAN,
             SetTimecodeScan(k, enabled)
      PROVE  MapInv'
  BY <1>5, SameRingsInv DEF SetTimecodeScan, MapInv, MapTypeOK
<1>6. CASE UNCHANGED mapVars
  BY <1>6, SameRingsInv DEF mapVars, MapInv, MapTypeOK
<1> QED BY <1>1, <1>2, <1>3, <1>4, <1>5, <1>6 DEF MapNext

(* MapInv is an inductive invariant of CSLSMapData. *)
LEMMA MapInvariant == MapSpec => []MapInv
  BY InitInv, MapStep, PTL DEF MapSpec

(* The map is well typed: whatever the hint, a ring is at least the        *)
(* default and at most MAX_RING_BYTES, and the count never goes negative.  *)
THEOREM MapTypeCorrect == MapSpec => []MapTypeOK
<1>1. MapInv => MapTypeOK
  BY DEF MapInv
<1> QED BY <1>1, MapInvariant, PTL

(* m_stream_count is the number of rings after any sequence of adds,       *)
(* repeated adds, removes, repeated removes and clears.                    *)
THEOREM MapCountExact == MapSpec => []StreamCountExact
<1>1. MapInv => StreamCountExact
  BY DEF MapInv, BudgetExact
<1> QED BY <1>1, MapInvariant, PTL

(* The number of rings never passes max_streams. *)
THEOREM MapStreamCap == MapSpec => []StreamCapHolds
<1>1. MapInv => StreamCapHolds
  BY DEF MapInv, BudgetExact
<1> QED BY <1>1, MapInvariant, PTL

(* Both counters are what the rings really come to, and the rings stay     *)
(* within max_streams and max_total_ring_bytes: the bytes that add() and   *)
(* remove() move one ring at a time are the sum over the rings, whatever   *)
(* the sizes, and clear() brings it to zero.                               *)
THEOREM MapBudgetExact == MapSpec => []BudgetExact
<1>1. MapInv => BudgetExact
  BY DEF MapInv
<1> QED BY <1>1, MapInvariant, PTL

(* A stream has continuity state exactly while it has a ring. *)
THEOREM MapParserState == MapSpec => []ParserStateTracksRing
<1>1. MapInv => ParserStateTracksRing
  BY DEF MapInv
<1> QED BY <1>1, MapInvariant, PTL

-----------------------------------------------------------------------------
(***************************************************************************)
(* The counters of a stream: any number of viewers, HTTP threads and PIDs, *)
(* any modulus, any number of packets lost.                                *)
(***************************************************************************)

(* The encoder's counter is g packets after l, as far as the counter tells. *)
Follows(l, g, c) == g < CcModulus => c = IF l + g < CcModulus THEN l + g ELSE l + g - CcModulus

StatsTypes ==
  /\ counters \in [Counters -> Int] /\ accounted \in [Counters -> Int]
  /\ total \in [Viewers -> Int] /\ m_snd_drops_reported \in [Viewers -> Int]
  /\ sampledGone \in Int /\ hurt \in Int /\ certain \in Int /\ ringUp \in BOOLEAN
  /\ request \in [HttpThreads -> [todo : Seq(Counters), clear : BOOLEAN]]
  /\ cc \in [Pids -> 0..(CcModulus - 1)] /\ gap \in [Pids -> Nat]

(* A continuity state: known PIDs, with a counter each. *)
IsCcState(s) == DOMAIN s \subseteq Pids /\ \A p \in DOMAIN s : s[p] \in 0..(CcModulus - 1)

(* What the parser remembers of a PID, and how far the encoder is ahead. *)
PidOK(s, p, g, c) == IF p \in DOMAIN s THEN Follows(s[p], g, c) ELSE g = 0

ContinuityInv ==
  /\ IsCcState(last_cc)
  /\ ringUp => \A p \in Pids : PidOK(last_cc, p, gap[p], cc[p])
  /\ ~ringUp => \A c \in Counters : counters[c] = 0

StatsInv == StatsTypes /\ ContinuityInv /\ CountedOnce

LEMMA NextCounter ==
  ASSUME NEW x \in 0..(CcModulus - 1)
  PROVE  /\ (x + 1) % CcModulus = IF x + 1 < CcModulus THEN x + 1 ELSE 0
         /\ (x + 1) % CcModulus \in 0..(CcModulus - 1)
<1>1. CcModulus \in Nat /\ CcModulus > 2
  BY StatsAssumption
<1>2. \A a \in Nat : a < CcModulus => a % CcModulus = a
  BY <1>1
<1>3. CcModulus % CcModulus = 0
  BY <1>1
<1> QED  BY <1>1, <1>2, <1>3

-----------------------------------------------------------------------------
(* The continuity check on a read of one packet, and of two. *)
LEMMA ContinuityOne ==
  ASSUME NEW s, NEW a
  PROVE  /\ sls_ts_check_continuity(s, <<a>>).breaks = IF IsBreak(s, a) THEN 1 ELSE 0
         /\ sls_ts_check_continuity(s, <<a>>).state = Tracked(s, a)
<1> DEFINE r0 == [breaks |-> 0, state |-> s]
           next(r, b) == [breaks |-> r.breaks + IF IsBreak(r.state, b) THEN 1 ELSE 0,
                          state  |-> Tracked(r.state, b)]
           Is(f) == f = [k \in 0..1 |-> IF k = 0 THEN r0 ELSE next(f[k - 1], <<a>>[k])]
<1>1. sls_ts_check_continuity(s, <<a>>) = (CHOOSE f : Is(f))[1]
  <2>1. Len(<<a>>) = 1
    OBVIOUS
  <2> QED  BY <2>1, Zenon DEF sls_ts_check_continuity
<1>2. r0.breaks = 0 /\ r0.state = s
  OBVIOUS
<1>3. \A r : /\ next(r, a).breaks = r.breaks + IF IsBreak(r.state, a) THEN 1 ELSE 0
             /\ next(r, a).state = Tracked(r.state, a)
  OBVIOUS
<1> HIDE DEF r0, next
<1>4. \E f : Is(f)
  <2>1. PICK f : f = [k \in 0..1 |-> IF k = 0 THEN r0 ELSE next(r0, a)]
    OBVIOUS
  <2>2. f[0] = r0
    BY <2>1
  <2>3. \A k \in 0..1 : k # 0 => f[k - 1] = r0 /\ <<a>>[k] = a
    BY <2>2
  <2>4. Is(f)
    BY <2>1, <2>3
  <2> QED  BY <2>4
<1>5. PICK f : Is(f) /\ f = (CHOOSE g : Is(g))
  BY <1>4
<1> HIDE DEF Is
<1>6. f[1] = next(r0, a)
  BY <1>5 DEF Is
<1>7. sls_ts_check_continuity(s, <<a>>) = next(r0, a)
  BY <1>1, <1>5, <1>6, Zenon
<1> QED  BY <1>2, <1>3, <1>7

LEMMA ContinuityTwo ==
  ASSUME NEW s, NEW a, NEW b
  PROVE  /\ sls_ts_check_continuity(s, <<a, b>>).breaks =
              (IF IsBreak(s, a) THEN 1 ELSE 0) + (IF IsBreak(Tracked(s, a), b) THEN 1 ELSE 0)
         /\ sls_ts_check_continuity(s, <<a, b>>).state = Tracked(Tracked(s, a), b)
<1> DEFINE r0 == [breaks |-> 0, state |-> s]
           next(r, x) == [breaks |-> r.breaks + IF IsBreak(r.state, x) THEN 1 ELSE 0,
                          state  |-> Tracked(r.state, x)]
           Is(f) == f = [k \in 0..2 |-> IF k = 0 THEN r0 ELSE next(f[k - 1], <<a, b>>[k])]
<1>1. sls_ts_check_continuity(s, <<a, b>>) = (CHOOSE f : Is(f))[2]
  <2>1. Len(<<a, b>>) = 2
    OBVIOUS
  <2> QED  BY <2>1, Zenon DEF sls_ts_check_continuity
<1>2. r0.breaks = 0 /\ r0.state = s
  OBVIOUS
<1>3. \A r, x : /\ next(r, x).breaks = r.breaks + IF IsBreak(r.state, x) THEN 1 ELSE 0
                /\ next(r, x).state = Tracked(r.state, x)
  OBVIOUS
<1> HIDE DEF r0, next
<1>4. \E f : Is(f)
  <2>1. PICK f : f = [k \in 0..2 |-> IF k = 0 THEN r0 ELSE IF k = 1 THEN next(r0, a)
                                     ELSE next(next(r0, a), b)]
    OBVIOUS
  <2>2. f[0] = r0 /\ f[1] = next(r0, a) /\ <<a, b>>[1] = a /\ <<a, b>>[2] = b
    BY <2>1
  <2>3. \A k \in 0..2 : k # 0 => (k = 1 /\ k - 1 = 0) \/ (k = 2 /\ k - 1 = 1)
    OBVIOUS
  <2>4. Is(f)
    BY <2>1, <2>2, <2>3
  <2> QED  BY <2>4
<1>5. PICK f : Is(f) /\ f = (CHOOSE g : Is(g))
  BY <1>4
<1> HIDE DEF Is
<1>6. f[1] = next(r0, a) /\ f[2] = next(f[1], b)
  BY <1>5 DEF Is
<1>7. sls_ts_check_continuity(s, <<a, b>>) = next(next(r0, a), b)
  BY <1>1, <1>5, <1>6, Zenon
<1>8. /\ next(r0, a).breaks = IF IsBreak(s, a) THEN 1 ELSE 0
      /\ next(r0, a).state = Tracked(s, a)
  BY <1>2, <1>3
<1> QED  BY <1>3, <1>7, <1>8

-----------------------------------------------------------------------------
(* One packet, against a state that knows its PID as last_cc does. *)
Lost(a) == a.payload /\ ~a.declared /\ gap[a.pid] > 0 /\ a.pid \in DOMAIN last_cc
Short(a) == Lost(a) /\ gap[a.pid] < CcModulus - 1

SameAt(s, t, p) == (p \in DOMAIN s <=> p \in DOMAIN t) /\ (p \in DOMAIN s => s[p] = t[p])

LEMMA PacketKinds ==
  ASSUME NEW p \in Pids, NEW a \in Packets(p)
  PROVE  /\ a.pid = p
         /\ \/ a.payload /\ ~a.declared /\ a.cc = (cc[p] + 1) % CcModulus
            \/ ~a.payload /\ ~a.declared /\ a.cc = cc[p]
            \/ a.payload /\ a.declared /\ a.cc = 0
            \/ /\ a.payload /\ ~a.declared /\ a.cc = cc[p]
               /\ gap[p] = 0 /\ p \in DOMAIN last_cc
<1>1. \/ a = [pid |-> p, cc |-> (cc[p] + 1) % CcModulus, payload |-> TRUE, declared |-> FALSE]
      \/ a = [pid |-> p, cc |-> cc[p], payload |-> FALSE, declared |-> FALSE]
      \/ a = [pid |-> p, cc |-> 0, payload |-> TRUE, declared |-> TRUE]
      \/ /\ a = [pid |-> p, cc |-> cc[p], payload |-> TRUE, declared |-> FALSE]
         /\ gap[p] = 0 /\ p \in DOMAIN last_cc
  BY Zenon DEF Packets
<1> QED  BY <1>1

(* The break the check finds is a loss; a short loss is found. *)
LEMMA BreakIsLoss ==
  ASSUME StatsTypes, ContinuityInv, ringUp, NEW p \in Pids, NEW a \in Packets(p),
         NEW s, SameAt(s, last_cc, p)
  PROVE  (IsBreak(s, a) => Lost(a)) /\ (Short(a) => IsBreak(s, a))
<1>1. CcModulus \in Nat /\ CcModulus > 2
  BY StatsAssumption
<1>2. cc[p] \in 0..(CcModulus - 1) /\ gap[p] \in Nat /\ PidOK(last_cc, p, gap[p], cc[p])
  BY Zenon DEF StatsTypes, ContinuityInv
<1>3. a.pid = p
  BY PacketKinds
<1>4. CASE p \notin DOMAIN last_cc
  BY <1>3, <1>4, Zenon DEF SameAt, IsBreak, Lost, Short
<1>5. CASE p \in DOMAIN last_cc
  <2>1. PICK l : l = last_cc[p]
    OBVIOUS
  <2>2. l \in 0..(CcModulus - 1) /\ p \in DOMAIN s /\ s[p] = l /\ Follows(l, gap[p], cc[p])
    BY <1>2, <1>5, <2>1 DEF ContinuityInv, IsCcState, SameAt, PidOK
  <2>3. (l + 1) % CcModulus = IF l + 1 < CcModulus THEN l + 1 ELSE 0
    BY <2>2, NextCounter
  <2>4. (cc[p] + 1) % CcModulus = IF cc[p] + 1 < CcModulus THEN cc[p] + 1 ELSE 0
    BY <1>2, NextCounter
  <2>5. IsBreak(s, a) <=> a.payload /\ ~a.declared /\ a.cc # (l + 1) % CcModulus /\ a.cc # l
    BY <1>3, <2>2, Zenon DEF IsBreak
  <2>6. Lost(a) <=> a.payload /\ ~a.declared /\ gap[p] > 0
    BY <1>3, <1>5, Zenon DEF Lost
  <2>7. gap[p] = 0 => cc[p] = l
    BY <1>1, <1>2, <2>2 DEF Follows
  <2>8. gap[p] = 0 => (cc[p] + 1) % CcModulus = (l + 1) % CcModulus
    BY <2>7
  <2>9. 0 < gap[p] /\ gap[p] < CcModulus - 1 =>
          (cc[p] + 1) % CcModulus # (l + 1) % CcModulus /\ (cc[p] + 1) % CcModulus # l
    <3>1. PICK c, g, y, z : /\ c = cc[p] /\ g = gap[p]
                            /\ y = (cc[p] + 1) % CcModulus /\ z = (l + 1) % CcModulus
      OBVIOUS
    <3>2. /\ y = IF c + 1 < CcModulus THEN c + 1 ELSE 0
          /\ z = IF l + 1 < CcModulus THEN l + 1 ELSE 0
          /\ c \in Int /\ g \in Nat /\ l \in 0..(CcModulus - 1)
      BY <1>2, <2>2, <2>3, <2>4, <3>1
    <3>3. g < CcModulus => c = IF l + g < CcModulus THEN l + g ELSE l + g - CcModulus
      BY <2>2, <3>1 DEF Follows
    <3>4. 0 < g /\ g < CcModulus - 1 => y # z /\ y # l
      BY <1>1, <3>2, <3>3
    <3> QED  BY <3>1, <3>4
  <2>10. IsBreak(s, a) => gap[p] > 0
    <3> SUFFICES ASSUME gap[p] = 0
                 PROVE  ~IsBreak(s, a)
      BY <1>2
    <3> QED  BY <2>5, <2>7, <2>8, PacketKinds, Zenon
  <2>11. Short(a) => IsBreak(s, a)
    <3> SUFFICES ASSUME Short(a)
                 PROVE  IsBreak(s, a)
      OBVIOUS
    <3>1. a.payload /\ ~a.declared /\ gap[p] > 0 /\ gap[p] < CcModulus - 1
      BY <1>3, Zenon DEF Short, Lost
    <3>2. gap[p] # 0 /\ 0 < gap[p]
      BY <1>2, <3>1
    <3>3. a.cc = (cc[p] + 1) % CcModulus
      BY <3>1, <3>2, PacketKinds, Zenon
    <3> QED  BY <2>5, <2>9, <3>1, <3>2, <3>3, Zenon
  <2> QED  BY <2>5, <2>6, <2>10, <2>11, Zenon
<1> QED  BY <1>4, <1>5

(* What the parser learns from a packet. *)
LEMMA TrackedKeeps ==
  ASSUME StatsTypes, ContinuityInv, ringUp, NEW p \in Pids, NEW a \in Packets(p),
         NEW s, IsCcState(s), SameAt(s, last_cc, p)
  PROVE  /\ IsCcState(Tracked(s, a))
         /\ \A q \in Pids \ {p} : SameAt(Tracked(s, a), s, q)
         /\ PidOK(Tracked(s, a), p, IF a.payload THEN 0 ELSE gap[p],
                  IF a.payload THEN a.cc ELSE cc[p])
         /\ a.cc \in 0..(CcModulus - 1)
<1>1. CcModulus \in Nat /\ CcModulus > 2
  BY StatsAssumption
<1>2. cc[p] \in 0..(CcModulus - 1) /\ gap[p] \in Nat /\ PidOK(last_cc, p, gap[p], cc[p])
  BY Zenon DEF StatsTypes, ContinuityInv
<1>3. a.pid = p
  BY PacketKinds
<1>4. a.cc \in 0..(CcModulus - 1)
  <2>1. 0 \in 0..(CcModulus - 1) /\ (cc[p] + 1) % CcModulus \in 0..(CcModulus - 1)
    BY <1>1, <1>2, NextCounter
  <2> QED  BY <1>2, <2>1, PacketKinds, Zenon
<1>5. PidOK(s, p, gap[p], cc[p])
  BY <1>2, Zenon DEF PidOK, SameAt
<1>6. ~a.payload => a.cc = cc[p]
  BY PacketKinds, Zenon
<1>7. Follows(a.cc, 0, a.cc)
  BY <1>1, <1>4 DEF Follows
<1>8. PICK t : t = Tracked(s, a)
  OBVIOUS
<1>9. CASE p \in DOMAIN s
  <2>1. t = [s EXCEPT ![p] = IF a.payload THEN a.cc ELSE s[p]]
    BY <1>3, <1>8, <1>9, Zenon DEF Tracked
  <2>2. PICK x : x = IF a.payload THEN a.cc ELSE s[p]
    OBVIOUS
  <2>3. t = [s EXCEPT ![p] = x]
    BY <2>1, <2>2, Zenon
  <2>4. /\ DOMAIN t = DOMAIN s /\ t[p] = x
        /\ \A q \in DOMAIN s : q # p => t[q] = s[q]
    BY <1>9, <2>3
  <2>5. x \in 0..(CcModulus - 1)
    BY <1>4, <1>9, <2>2 DEF IsCcState
  <2>6. IsCcState(t)
    BY <2>4, <2>5 DEF IsCcState
  <2>7. \A q \in Pids \ {p} : SameAt(t, s, q)
    BY <2>4 DEF SameAt
  <2>8. PidOK(t, p, IF a.payload THEN 0 ELSE gap[p], IF a.payload THEN a.cc ELSE cc[p])
    <3>1. CASE a.payload
      BY <1>7, <1>9, <2>2, <2>4, <3>1, Zenon DEF PidOK
    <3>2. CASE ~a.payload
      BY <1>5, <1>9, <2>2, <2>4, <3>2, Zenon DEF PidOK
    <3> QED  BY <3>1, <3>2
  <2> QED  BY <1>4, <1>8, <2>6, <2>7, <2>8, Zenon
<1>10. CASE p \notin DOMAIN s /\ Cardinality(DOMAIN s) < MaxTracked
  <2>1. t = [q \in DOMAIN s \cup {p} |-> IF q = p THEN a.cc ELSE s[q]]
    BY <1>3, <1>8, <1>10, Zenon DEF Tracked
  <2>2. /\ DOMAIN t = DOMAIN s \cup {p} /\ t[p] = a.cc
        /\ \A q \in DOMAIN s : t[q] = s[q]
    BY <1>10, <2>1
  <2>3. IsCcState(t)
    BY <1>4, <2>2 DEF IsCcState
  <2>4. \A q \in Pids \ {p} : SameAt(t, s, q)
    BY <2>2 DEF SameAt
  <2>5. gap[p] = 0
    BY <1>5, <1>10, Zenon DEF PidOK
  <2>6. PidOK(t, p, IF a.payload THEN 0 ELSE gap[p], IF a.payload THEN a.cc ELSE cc[p])
    <3>1. p \in DOMAIN t
      BY <2>2
    <3> QED  BY <1>6, <1>7, <2>2, <2>5, <3>1, Zenon DEF PidOK
  <2> QED  BY <1>4, <1>8, <2>3, <2>4, <2>6, Zenon
<1>11. CASE p \notin DOMAIN s /\ ~(Cardinality(DOMAIN s) < MaxTracked)
  <2>1. t = s
    BY <1>3, <1>8, <1>11, Zenon DEF Tracked
  <2>2. gap[p] = 0
    BY <1>5, <1>11, Zenon DEF PidOK
  <2>3. \A q \in Pids \ {p} : SameAt(t, s, q)
    BY <2>1, Zenon DEF SameAt
  <2>4. PidOK(t, p, IF a.payload THEN 0 ELSE gap[p], IF a.payload THEN a.cc ELSE cc[p])
    BY <1>11, <2>1, <2>2, Zenon DEF PidOK
  <2> QED  BY <1>4, <1>8, <2>1, <2>3, <2>4, Zenon
<1> QED  BY <1>9, <1>10, <1>11, Zenon

-----------------------------------------------------------------------------
(* put(), for a read of one packet and of two. *)

(* What a read does to the counters and to the encoder's ghosts: i, j and k *)
(* say whether it broke, lost packets, lost few of them. *)
PutDone(i, j, k) ==
  /\ counters' = [counters EXCEPT !["breaks"] = @ + i]
  /\ hurt' = hurt + j /\ certain' = certain + k
  /\ ringUp /\ ringUp' = ringUp
  /\ UNCHANGED <<total, m_snd_drops_reported, request, accounted, sampledGone>>

LEMMA OneBreak ==
  ASSUME StatsTypes, CountedOnce, NEW i \in Int, NEW j \in Int, NEW k \in Int,
         PutDone(i, j, k), k <= i, i <= j
  PROVE  CountedOnce' /\ counters' \in [Counters -> Int] /\ hurt' \in Int /\ certain' \in Int
<1>3. /\ counters' = [counters EXCEPT !["breaks"] = @ + i] /\ hurt' = hurt + j
      /\ certain' = certain + k /\ accounted' = accounted /\ sampledGone' = sampledGone
      /\ m_snd_drops_reported' = m_snd_drops_reported
  BY DEF PutDone
<1>4. /\ counters \in [Counters -> Int] /\ accounted \in [Counters -> Int]
      /\ hurt \in Int /\ certain \in Int
  BY Zenon DEF StatsTypes
<1>5. /\ counters'["breaks"] = counters["breaks"] + i /\ counters'["drops"] = counters["drops"]
      /\ counters' \in [Counters -> Int]
  BY <1>3, <1>4 DEF Counters
<1>6. /\ accounted["drops"] + counters["drops"] = sampledGone + SumFunction(m_snd_drops_reported)
      /\ accounted["breaks"] + counters["breaks"] \in certain..hurt
  BY Zenon DEF CountedOnce
<1>7. accounted["breaks"] \in Int /\ counters["breaks"] \in Int
  BY <1>4 DEF Counters
<1>8. accounted'["breaks"] + counters'["breaks"] \in certain'..hurt'
  BY <1>3, <1>4, <1>5, <1>6, <1>7
<1>9. accounted'["drops"] + counters'["drops"]
        = sampledGone' + SumFunction(m_snd_drops_reported)'
  BY <1>3, <1>5, <1>6, Zenon
<1> QED  BY <1>3, <1>4, <1>5, <1>8, <1>9 DEF CountedOnce

(* A read keeps the invariant when it leaves every PID in order. *)
LEMMA ReadKeeps ==
  ASSUME StatsInv, NEW i \in Int, NEW j \in Int, NEW k \in Int,
         PutDone(i, j, k), k <= i, i <= j, IsCcState(last_cc'),
         cc' \in [Pids -> 0..(CcModulus - 1)], gap' \in [Pids -> Nat],
         \A q \in Pids : PidOK(last_cc', q, gap'[q], cc'[q])
  PROVE  StatsInv'
<1>1. StatsTypes /\ ContinuityInv /\ CountedOnce
  BY Zenon DEF StatsInv
<1>2. CountedOnce' /\ counters' \in [Counters -> Int] /\ hurt' \in Int /\ certain' \in Int
  BY <1>1, OneBreak
<1>3. StatsTypes'
  BY <1>1, <1>2 DEF StatsTypes, PutDone
<1>4. ContinuityInv'
  BY Zenon DEF ContinuityInv, PutDone
<1> QED  BY <1>2, <1>3, <1>4, Zenon DEF StatsInv

LEMMA PutOneKeeps ==
  ASSUME StatsInv, PutOne
  PROVE  StatsInv'
<1>1. PICK p \in Pids : \E a \in Packets(p) : put(<<a>>)
  BY Zenon DEF PutOne
<1>2. PICK a \in Packets(p) : put(<<a>>)
  BY <1>1, Zenon
<1>3. PICK s : s = last_cc
  OBVIOUS
<1>4. StatsTypes /\ ContinuityInv /\ CountedOnce /\ ringUp
  BY <1>2, Zenon DEF StatsInv, put
<1>5. IsCcState(s) /\ SameAt(s, last_cc, p) /\ a.pid = p
  BY <1>3, <1>4, PacketKinds DEF ContinuityInv, SameAt
<1>6. (IsBreak(s, a) => Lost(a)) /\ (Short(a) => IsBreak(s, a))
  BY <1>4, <1>5, BreakIsLoss, Zenon
<1>7. /\ IsCcState(Tracked(s, a))
      /\ \A q \in Pids \ {p} : SameAt(Tracked(s, a), s, q)
      /\ PidOK(Tracked(s, a), p, IF a.payload THEN 0 ELSE gap[p],
               IF a.payload THEN a.cc ELSE cc[p])
      /\ a.cc \in 0..(CcModulus - 1)
  BY <1>4, <1>5, TrackedKeeps, Zenon
<1>8. Len(<<a>>) = 1 /\ <<a>>[1] = a /\ 1..1 = {1}
  OBVIOUS
<1>9. /\ (\E k \in 1..Len(<<a>>) : Lost(<<a>>[k])) <=> Lost(a)
      /\ (\E k \in 1..Len(<<a>>) : Short(<<a>>[k])) <=> Short(a)
  BY <1>8
<1>10. PICK i, j, k \in {0, 1} :
         /\ i = (IF IsBreak(s, a) THEN 1 ELSE 0)
         /\ j = (IF Lost(a) THEN 1 ELSE 0)
         /\ k = (IF Short(a) THEN 1 ELSE 0)
  OBVIOUS
<1>11. k <= i /\ i <= j
  BY <1>6, <1>10
<1>12. last_cc' = Tracked(s, a) /\ PutDone(i, j, k)
  <2>1. /\ sls_ts_check_continuity(s, <<a>>).breaks = IF IsBreak(s, a) THEN 1 ELSE 0
        /\ sls_ts_check_continuity(s, <<a>>).state = Tracked(s, a)
    BY ContinuityOne
  <2>2. sls_ts_check_continuity(s, <<a>>).breaks > 0 <=> i = 1
    BY <1>10, <2>1
  <2>3. last_cc' = Tracked(s, a)
    BY <1>2, <1>3, <2>1, Zenon DEF put
  <2>4. counters' = [counters EXCEPT !["breaks"] = @ + i]
    <3>1. counters' = [counters EXCEPT !["breaks"] =
                         @ + IF sls_ts_check_continuity(s, <<a>>).breaks > 0 THEN 1 ELSE 0]
      BY <1>2, <1>3, Zenon DEF put
    <3>2. i = IF sls_ts_check_continuity(s, <<a>>).breaks > 0 THEN 1 ELSE 0
      BY <1>10, <2>2
    <3> QED  BY <3>1, <3>2, Zenon
  <2>5. hurt' = hurt + j
    <3>1. hurt' = hurt + IF \E n \in 1..Len(<<a>>) : Lost(<<a>>[n]) THEN 1 ELSE 0
      BY <1>2, Zenon DEF put, Lost
    <3> QED  BY <1>9, <1>10, <3>1, Zenon
  <2>6. certain' = certain + k
    <3>1. certain' = certain + IF \E n \in 1..Len(<<a>>) : Short(<<a>>[n]) THEN 1 ELSE 0
      BY <1>2, Zenon DEF put, Lost, Short
    <3> QED  BY <1>9, <1>10, <3>1, Zenon
  <2> QED  BY <1>2, <2>3, <2>4, <2>5, <2>6, Zenon DEF put, PutDone
<1>13. /\ cc' = [cc EXCEPT ![p] = IF a.payload THEN a.cc ELSE @]
       /\ gap' = [gap EXCEPT ![p] = IF a.payload THEN 0 ELSE @]
  <2> DEFINE carried(q) == {n \in 1..Len(<<a>>) : <<a>>[n].pid = q /\ <<a>>[n].payload}
  <2>1. /\ cc' = [q \in Pids |-> IF carried(q) = {} THEN cc[q] ELSE <<a>>[Max(carried(q))].cc]
        /\ gap' = [q \in Pids |-> IF carried(q) = {} THEN gap[q] ELSE 0]
    BY <1>2, Zenon DEF put
  <2>2. \A q \in Pids : carried(q) = IF q = p /\ a.payload THEN {1} ELSE {}
    BY <1>5, <1>8
  <2>3. Max({1}) = 1
    BY DEF Max
  <2> HIDE DEF carried
  <2>4. \A q \in Pids : /\ cc'[q] = IF q = p /\ a.payload THEN a.cc ELSE cc[q]
                        /\ gap'[q] = IF q = p /\ a.payload THEN 0 ELSE gap[q]
    <3>1. \A q \in Pids : q = p /\ a.payload => carried(q) = {1} /\ carried(q) # {}
      BY <2>2
    <3>2. \A q \in Pids : ~(q = p /\ a.payload) => carried(q) = {}
      BY <2>2
    <3> QED  BY <1>8, <2>1, <2>3, <3>1, <3>2
  <2>5. cc \in [Pids -> 0..(CcModulus - 1)] /\ gap \in [Pids -> Nat]
    BY <1>4, Zenon DEF StatsTypes
  <2> QED  BY <2>1, <2>4, <2>5
<1>14. cc' \in [Pids -> 0..(CcModulus - 1)] /\ gap' \in [Pids -> Nat]
  BY <1>4, <1>7, <1>13 DEF StatsTypes
<1>15. \A q \in Pids : PidOK(last_cc', q, gap'[q], cc'[q])
  <2> SUFFICES ASSUME NEW q \in Pids
               PROVE  PidOK(last_cc', q, gap'[q], cc'[q])
    OBVIOUS
  <2>1. CASE q = p
    <3>1. gap'[p] = (IF a.payload THEN 0 ELSE gap[p]) /\ cc'[p] = IF a.payload THEN a.cc ELSE cc[p]
      BY <1>4, <1>13 DEF StatsTypes
    <3> QED  BY <1>7, <1>12, <2>1, <3>1, Zenon
  <2>2. CASE q # p
    <3>1. gap'[q] = gap[q] /\ cc'[q] = cc[q]
      BY <1>4, <1>13, <2>2 DEF StatsTypes
    <3>2. PidOK(s, q, gap[q], cc[q]) /\ SameAt(last_cc', s, q)
      BY <1>3, <1>4, <1>7, <1>12, <2>2 DEF ContinuityInv
    <3> QED  BY <3>1, <3>2, Zenon DEF PidOK, SameAt
  <2> QED  BY <2>1, <2>2
<1>16. IsCcState(last_cc')
  BY <1>7, <1>12, Zenon
<1>17. i \in Int /\ j \in Int /\ k \in Int
  OBVIOUS
<1> QED  BY <1>11, <1>12, <1>14, <1>15, <1>16, <1>17, ReadKeeps

LEMMA PutTwoKeeps ==
  ASSUME StatsInv, PutTwo
  PROVE  StatsInv'
<1>1. PICK p \in Pids, q \in Pids : \E a \in Packets(p), b \in Packets(q) : p # q /\ put(<<a, b>>)
  BY Zenon DEF PutTwo
<1>2. PICK a \in Packets(p), b \in Packets(q) : p # q /\ put(<<a, b>>)
  BY <1>1, Zenon
<1>3. PICK s : s = last_cc
  OBVIOUS
<1>4. StatsTypes /\ ContinuityInv /\ CountedOnce /\ ringUp
  BY <1>2, Zenon DEF StatsInv, put
<1>5. IsCcState(s) /\ SameAt(s, last_cc, p) /\ a.pid = p /\ b.pid = q
  BY <1>3, <1>4, PacketKinds DEF ContinuityInv, SameAt
<1>6. /\ IsCcState(Tracked(s, a))
      /\ \A r \in Pids \ {p} : SameAt(Tracked(s, a), s, r)
      /\ PidOK(Tracked(s, a), p, IF a.payload THEN 0 ELSE gap[p],
               IF a.payload THEN a.cc ELSE cc[p])
      /\ a.cc \in 0..(CcModulus - 1)
  BY <1>4, <1>5, TrackedKeeps, Zenon
<1>7. PICK t : t = Tracked(s, a)
  OBVIOUS
<1>8. IsCcState(t) /\ SameAt(t, last_cc, q)
  <2>1. q \in Pids \ {p}
    BY <1>2
  <2> QED  BY <1>3, <1>6, <1>7, <2>1, Zenon
<1>9. /\ IsCcState(Tracked(t, b))
      /\ \A r \in Pids \ {q} : SameAt(Tracked(t, b), t, r)
      /\ PidOK(Tracked(t, b), q, IF b.payload THEN 0 ELSE gap[q],
               IF b.payload THEN b.cc ELSE cc[q])
      /\ b.cc \in 0..(CcModulus - 1)
  BY <1>4, <1>8, TrackedKeeps, Zenon
<1>10. /\ (IsBreak(s, a) => Lost(a)) /\ (Short(a) => IsBreak(s, a))
       /\ (IsBreak(t, b) => Lost(b)) /\ (Short(b) => IsBreak(t, b))
  BY <1>4, <1>5, <1>8, BreakIsLoss, Zenon
<1>11. Len(<<a, b>>) = 2 /\ <<a, b>>[1] = a /\ <<a, b>>[2] = b /\ 1..2 = {1, 2}
  OBVIOUS
<1>12. /\ (\E n \in 1..Len(<<a, b>>) : Lost(<<a, b>>[n])) <=> Lost(a) \/ Lost(b)
       /\ (\E n \in 1..Len(<<a, b>>) : Short(<<a, b>>[n])) <=> Short(a) \/ Short(b)
  BY <1>11
<1>13. PICK i, j, k \in {0, 1} :
         /\ i = (IF IsBreak(s, a) \/ IsBreak(t, b) THEN 1 ELSE 0)
         /\ j = (IF Lost(a) \/ Lost(b) THEN 1 ELSE 0)
         /\ k = (IF Short(a) \/ Short(b) THEN 1 ELSE 0)
  OBVIOUS
<1>14. k <= i /\ i <= j
  BY <1>10, <1>13
<1>15. last_cc' = Tracked(t, b) /\ PutDone(i, j, k)
  <2>1. /\ sls_ts_check_continuity(s, <<a, b>>).breaks =
             (IF IsBreak(s, a) THEN 1 ELSE 0) + (IF IsBreak(t, b) THEN 1 ELSE 0)
        /\ sls_ts_check_continuity(s, <<a, b>>).state = Tracked(t, b)
    BY <1>7, ContinuityTwo
  <2>2. sls_ts_check_continuity(s, <<a, b>>).breaks > 0 <=> i = 1
    BY <1>13, <2>1
  <2>3. last_cc' = Tracked(t, b)
    BY <1>2, <1>3, <2>1, Zenon DEF put
  <2>4. counters' = [counters EXCEPT !["breaks"] = @ + i]
    <3>1. counters' = [counters EXCEPT !["breaks"] =
                         @ + IF sls_ts_check_continuity(s, <<a, b>>).breaks > 0 THEN 1 ELSE 0]
      BY <1>2, <1>3, Zenon DEF put
    <3>2. i = IF sls_ts_check_continuity(s, <<a, b>>).breaks > 0 THEN 1 ELSE 0
      BY <1>13, <2>2
    <3> QED  BY <3>1, <3>2, Zenon
  <2>5. hurt' = hurt + j
    <3>1. hurt' = hurt + IF \E n \in 1..Len(<<a, b>>) : Lost(<<a, b>>[n]) THEN 1 ELSE 0
      BY <1>2, Zenon DEF put, Lost
    <3> QED  BY <1>12, <1>13, <3>1, Zenon
  <2>6. certain' = certain + k
    <3>1. certain' = certain + IF \E n \in 1..Len(<<a, b>>) : Short(<<a, b>>[n]) THEN 1 ELSE 0
      BY <1>2, Zenon DEF put, Lost, Short
    <3> QED  BY <1>12, <1>13, <3>1, Zenon
  <2> QED  BY <1>2, <2>3, <2>4, <2>5, <2>6, Zenon DEF put, PutDone
<1>16. \A r \in Pids :
         /\ cc'[r] = IF r = p /\ a.payload THEN a.cc ELSE IF r = q /\ b.payload THEN b.cc ELSE cc[r]
         /\ gap'[r] = IF (r = p /\ a.payload) \/ (r = q /\ b.payload) THEN 0 ELSE gap[r]
  <2> DEFINE carried(r) == {n \in 1..Len(<<a, b>>) : <<a, b>>[n].pid = r /\ <<a, b>>[n].payload}
  <2>1. /\ cc' = [r \in Pids |-> IF carried(r) = {} THEN cc[r] ELSE <<a, b>>[Max(carried(r))].cc]
        /\ gap' = [r \in Pids |-> IF carried(r) = {} THEN gap[r] ELSE 0]
    BY <1>2, Zenon DEF put
  <2>2. Max({1}) = 1 /\ Max({2}) = 2
    BY DEF Max
  <2>3. \A r \in Pids : r = p /\ a.payload => carried(r) = {1} /\ carried(r) # {}
    BY <1>2, <1>5, <1>11
  <2>4. \A r \in Pids : r = q /\ b.payload => carried(r) = {2} /\ carried(r) # {}
    BY <1>2, <1>5, <1>11
  <2>5. \A r \in Pids : ~(r = p /\ a.payload) /\ ~(r = q /\ b.payload) => carried(r) = {}
    BY <1>5, <1>11
  <2> HIDE DEF carried
  <2> QED  BY <1>11, <2>1, <2>2, <2>3, <2>4, <2>5
<1>17. cc' \in [Pids -> 0..(CcModulus - 1)] /\ gap' \in [Pids -> Nat]
  <2>1. DOMAIN cc' = Pids /\ DOMAIN gap' = Pids
        /\ cc' = [r \in Pids |-> cc'[r]] /\ gap' = [r \in Pids |-> gap'[r]]
    BY <1>2 DEF put
  <2>2. cc \in [Pids -> 0..(CcModulus - 1)] /\ gap \in [Pids -> Nat]
    BY <1>4, Zenon DEF StatsTypes
  <2>3. \A r \in Pids : cc'[r] \in 0..(CcModulus - 1) /\ gap'[r] \in Nat
    BY <1>6, <1>9, <1>16, <2>2
  <2> QED  BY <2>1, <2>3, Zenon
<1>18. \A r \in Pids : PidOK(last_cc', r, gap'[r], cc'[r])
  <2> SUFFICES ASSUME NEW r \in Pids
               PROVE  PidOK(last_cc', r, gap'[r], cc'[r])
    OBVIOUS
  <2>1. CASE r = q
    <3>1. gap'[q] = (IF b.payload THEN 0 ELSE gap[q]) /\ cc'[q] = IF b.payload THEN b.cc ELSE cc[q]
      BY <1>2, <1>16, Zenon
    <3> QED  BY <1>9, <1>15, <2>1, <3>1, Zenon
  <2>2. CASE r = p
    <3>1. gap'[p] = (IF a.payload THEN 0 ELSE gap[p]) /\ cc'[p] = IF a.payload THEN a.cc ELSE cc[p]
      BY <1>2, <1>16, Zenon
    <3>2. p \in Pids \ {q}
      BY <1>2
    <3>3. SameAt(last_cc', t, p) /\ PidOK(t, p, gap'[p], cc'[p])
      BY <1>6, <1>7, <1>9, <1>15, <3>1, <3>2, Zenon
    <3> QED  BY <2>2, <3>3, Zenon DEF PidOK, SameAt
  <2>3. CASE r # p /\ r # q
    <3>1. gap'[r] = gap[r] /\ cc'[r] = cc[r]
      BY <1>16, <2>3, Zenon
    <3>2. r \in Pids \ {p} /\ r \in Pids \ {q}
      BY <2>3
    <3>3. SameAt(last_cc', t, r) /\ SameAt(t, s, r)
      BY <1>6, <1>7, <1>9, <1>15, <3>2, Zenon
    <3>4. PidOK(s, r, gap[r], cc[r])
      BY <1>3, <1>4, Zenon DEF ContinuityInv
    <3> QED  BY <3>1, <3>3, <3>4, Zenon DEF PidOK, SameAt
  <2> QED  BY <2>1, <2>2, <2>3
<1>19. IsCcState(last_cc')
  BY <1>9, <1>15, Zenon
<1>20. i \in Int /\ j \in Int /\ k \in Int
  OBVIOUS
<1> QED  BY <1>14, <1>15, <1>17, <1>18, <1>19, <1>20, ReadKeeps

-----------------------------------------------------------------------------
(* The loss of a packet, and the ring. *)
LEMMA PacketDroppedKeeps ==
  ASSUME StatsInv, NEW p \in Pids, PacketDropped(p)
  PROVE  StatsInv'
<1>1. StatsTypes /\ ContinuityInv /\ CountedOnce
  BY Zenon DEF StatsInv
<1>2. /\ ringUp /\ ringUp' = ringUp /\ last_cc' = last_cc
      /\ gap' = [gap EXCEPT ![p] = IF p \in DOMAIN last_cc THEN gap[p] + 1 ELSE 0]
      /\ cc' = [cc EXCEPT ![p] = (cc[p] + 1) % CcModulus]
  BY Zenon DEF PacketDropped
<1>3. UNCHANGED <<counters, total, m_snd_drops_reported, request, accounted, sampledGone, hurt,
                  certain>>
  BY DEF PacketDropped
<1>4. cc \in [Pids -> 0..(CcModulus - 1)] /\ gap \in [Pids -> Nat] /\ IsCcState(last_cc)
  BY <1>1, Zenon DEF StatsTypes, ContinuityInv
<1>5. PICK c, g, x, y : /\ c = cc[p] /\ g = gap[p] /\ x = (cc[p] + 1) % CcModulus
                        /\ y = IF p \in DOMAIN last_cc THEN gap[p] + 1 ELSE 0
  OBVIOUS
<1>6. /\ c \in 0..(CcModulus - 1) /\ g \in Nat /\ y \in Nat
      /\ x = (IF c + 1 < CcModulus THEN c + 1 ELSE 0) /\ x \in 0..(CcModulus - 1)
  BY <1>4, <1>5, NextCounter
<1>7. cc' \in [Pids -> 0..(CcModulus - 1)] /\ gap' \in [Pids -> Nat]
  BY <1>2, <1>4, <1>5, <1>6
<1>8. StatsTypes'
  BY <1>1, <1>2, <1>3, <1>7, Zenon DEF StatsTypes
<1>9. CountedOnce'
  BY <1>1, <1>3 DEF CountedOnce
<1>10. PidOK(last_cc, p, y, x)
  <2>1. CASE p \notin DOMAIN last_cc
    BY <1>5, <2>1 DEF PidOK
  <2>2. CASE p \in DOMAIN last_cc
    <3>1. PICK l : l = last_cc[p]
      OBVIOUS
    <3>2. l \in 0..(CcModulus - 1) /\ Follows(l, g, c) /\ y = g + 1
      BY <1>1, <1>2, <1>4, <1>5, <2>2, <3>1 DEF ContinuityInv, PidOK, IsCcState
    <3>3. CcModulus \in Nat /\ CcModulus > 2
      BY StatsAssumption
    <3>4. Follows(l, y, x)
      BY <1>6, <3>2, <3>3 DEF Follows
    <3> QED  BY <2>2, <3>1, <3>4, Zenon DEF PidOK
  <2> QED  BY <2>1, <2>2
<1>11. \A q \in Pids : PidOK(last_cc', q, gap'[q], cc'[q])
  <2> SUFFICES ASSUME NEW q \in Pids
               PROVE  PidOK(last_cc', q, gap'[q], cc'[q])
    OBVIOUS
  <2>1. CASE q = p
    <3>1. gap'[p] = y /\ cc'[p] = x
      BY <1>2, <1>4, <1>5
    <3> QED  BY <1>2, <1>10, <2>1, <3>1, Zenon
  <2>2. CASE q # p
    <3>1. gap'[q] = gap[q] /\ cc'[q] = cc[q]
      BY <1>2, <1>4, <2>2
    <3> QED  BY <1>1, <1>2, <3>1, Zenon DEF ContinuityInv
  <2> QED  BY <2>1, <2>2
<1>12. ContinuityInv'
  BY <1>2, <1>4, <1>11, Zenon DEF ContinuityInv
<1> QED  BY <1>8, <1>9, <1>12, Zenon DEF StatsInv

LEMMA ZeroCounts ==
  /\ Zero \in [Counters -> Int] /\ Zero["drops"] = 0 /\ Zero["breaks"] = 0
  /\ \A c \in Counters : Zero[c] = 0
  BY DEF Zero, Counters

(* An empty continuity state. *)
LEMMA NothingTracked ==
  ASSUME NEW s, s = <<>>
  PROVE  IsCcState(s) /\ DOMAIN s = {}
  BY DEF IsCcState

LEMMA RingAddedKeeps ==
  ASSUME StatsInv, RingAdded
  PROVE  StatsInv'
<1>1. StatsTypes /\ ContinuityInv /\ CountedOnce
  BY Zenon DEF StatsInv
<1>2. ~ringUp /\ ringUp' = TRUE /\ counters' = Zero /\ last_cc' = <<>>
  BY Zenon DEF RingAdded
<1>3. UNCHANGED <<total, m_snd_drops_reported, request, accounted, sampledGone, hurt, certain>>
  BY DEF RingAdded
<1>4. PICK c \in {0, 2} : cc' = [p \in Pids |-> c] /\ gap' = [p \in Pids |-> 0]
  BY Zenon DEF RingAdded
<1>5. c \in 0..(CcModulus - 1)
  BY StatsAssumption
<1>6. cc' \in [Pids -> 0..(CcModulus - 1)] /\ gap' \in [Pids -> Nat]
  BY <1>4, <1>5
<1>7. StatsTypes'
  BY <1>1, <1>2, <1>3, <1>6, ZeroCounts DEF StatsTypes
<1>8. \A q \in Pids : gap'[q] = 0
  BY <1>4
<1>9. IsCcState(last_cc') /\ DOMAIN last_cc' = {}
  BY <1>2, NothingTracked
<1>10. ContinuityInv'
  BY <1>2, <1>8, <1>9 DEF ContinuityInv, PidOK
<1>11. counters["drops"] = counters'["drops"] /\ counters["breaks"] = counters'["breaks"]
  BY <1>1, <1>2, ZeroCounts DEF ContinuityInv, Counters
<1>12. CountedOnce'
  BY <1>1, <1>3, <1>11 DEF CountedOnce
<1> QED  BY <1>7, <1>10, <1>12, Zenon DEF StatsInv

LEMMA RingRemovedKeeps ==
  ASSUME StatsInv, RingRemoved
  PROVE  StatsInv'
<1>1. StatsTypes /\ ContinuityInv /\ CountedOnce
  BY Zenon DEF StatsInv
<1>2. /\ ringUp' = FALSE /\ counters' = Zero /\ last_cc' = <<>>
      /\ accounted' = [c \in Counters |-> accounted[c] + counters[c]]
  BY Zenon DEF RingRemoved
<1>3. UNCHANGED <<cc, gap, total, m_snd_drops_reported, request, sampledGone, hurt, certain>>
  BY DEF RingRemoved
<1>4. counters \in [Counters -> Int] /\ accounted \in [Counters -> Int]
  BY <1>1, Zenon DEF StatsTypes
<1>5. accounted' \in [Counters -> Int]
  BY <1>2, <1>4
<1>6. StatsTypes'
  BY <1>1, <1>2, <1>3, <1>5, ZeroCounts DEF StatsTypes
<1>7. IsCcState(last_cc')
  BY <1>2, NothingTracked
<1>8. ContinuityInv'
  BY <1>2, <1>7, ZeroCounts DEF ContinuityInv
<1>9. /\ accounted["drops"] \in Int /\ counters["drops"] \in Int
      /\ accounted["breaks"] \in Int /\ counters["breaks"] \in Int
  BY <1>4 DEF Counters
<1>10. /\ accounted'["drops"] + counters'["drops"] = accounted["drops"] + counters["drops"]
       /\ accounted'["breaks"] + counters'["breaks"] = accounted["breaks"] + counters["breaks"]
  BY <1>2, <1>9, ZeroCounts DEF Counters
<1>11. CountedOnce'
  BY <1>1, <1>3, <1>10 DEF CountedOnce
<1> QED  BY <1>6, <1>8, <1>11, Zenon DEF StatsInv

-----------------------------------------------------------------------------
(* The viewers and their samples. *)

(* What stays of the continuity invariant while the publisher's side rests. *)
LEMMA ContinuityStays ==
  ASSUME ContinuityInv, UNCHANGED <<ringUp, last_cc, cc, gap>>,
         ~ringUp => \A c \in Counters : counters'[c] = counters[c]
  PROVE  ContinuityInv'
  BY Zenon DEF ContinuityInv

LEMMA ViewerDropKeeps ==
  ASSUME StatsInv, NEW v \in Viewers, ViewerDrop(v)
  PROVE  StatsInv'
<1>1. StatsTypes /\ ContinuityInv /\ CountedOnce
  BY Zenon DEF StatsInv
<1>2. UNCHANGED <<ringUp, counters, last_cc, cc, gap, m_snd_drops_reported, request, accounted,
                  sampledGone, hurt, certain>>
  BY DEF ViewerDrop
<1>3. total' \in [Viewers -> Int]
  <2>1. total \in [Viewers -> Int] /\ total' = [total EXCEPT ![v] = total[v] + 1]
    BY <1>1, Zenon DEF StatsTypes, ViewerDrop
  <2> QED  BY <2>1
<1>4. StatsTypes'
  BY <1>1, <1>2, <1>3 DEF StatsTypes
<1>5. ContinuityInv'
  BY <1>1, <1>2, ContinuityStays
<1>6. CountedOnce'
  BY <1>1, <1>2 DEF CountedOnce
<1> QED  BY <1>4, <1>5, <1>6, Zenon DEF StatsInv

(* A sample moves what is reported and what is counted by the same amount, *)
(* into the ring or, without one, into what is lost. *)
LEMMA SampleKeeps ==
  ASSUME StatsInv, NEW v \in Viewers, sample_viewer_snd_drops(v)
  PROVE  StatsInv'
<1>1. StatsTypes /\ ContinuityInv /\ CountedOnce
  BY Zenon DEF StatsInv
<1>2. UNCHANGED <<ringUp, last_cc, cc, gap, total, request, sampledGone, hurt, certain>>
  BY DEF sample_viewer_snd_drops
<1>3. m_snd_drops_reported' = [m_snd_drops_reported EXCEPT ![v] = total[v]]
  BY Zenon DEF sample_viewer_snd_drops
<1>4. /\ counters \in [Counters -> Int] /\ accounted \in [Counters -> Int] /\ sampledGone \in Int
      /\ total \in [Viewers -> Int] /\ m_snd_drops_reported \in [Viewers -> Int]
  BY <1>1, Zenon DEF StatsTypes
<1>5. PICK n, r : n = total[v] /\ r = m_snd_drops_reported[v]
  OBVIOUS
<1>6. n \in Int /\ r \in Int
  BY <1>4, <1>5
<1>7. PICK m : m = m_snd_drops_reported
  OBVIOUS
<1>8. SumFunction(m) \in Int /\ SumFunction([m EXCEPT ![v] = n]) = SumFunction(m) - m[v] + n
  <2>1. m \in [Viewers -> Int] /\ IsFiniteSet(Viewers)
    BY <1>4, <1>7, StatsAssumption
  <2>2. SumFunction(m) \in Int
    BY <2>1, SumType DEF SumFunction
  <2> QED  BY <1>6, <2>1, <2>2, SumExcept
<1>9. SumFunction(m_snd_drops_reported)' = SumFunction(m_snd_drops_reported) - r + n
  <2>1. m_snd_drops_reported' = [m EXCEPT ![v] = n]
    BY <1>3, <1>5, <1>7, Zenon
  <2> QED  BY <1>5, <1>7, <1>8, <2>1, Zenon
<1>10. /\ accounted["drops"] \in Int /\ counters["drops"] \in Int
       /\ accounted["breaks"] \in Int /\ counters["breaks"] \in Int
       /\ SumFunction(m_snd_drops_reported) \in Int
  BY <1>4, <1>7, <1>8 DEF Counters
<1>11. /\ counters' \in [Counters -> Int] /\ accounted' \in [Counters -> Int]
       /\ accounted'["drops"] + counters'["drops"] = accounted["drops"] + counters["drops"] + (n - r)
       /\ accounted'["breaks"] = accounted["breaks"] /\ counters'["breaks"] = counters["breaks"]
       /\ ~ringUp => counters' = counters
  <2>1. Delta(v) = n - r
    BY <1>5 DEF Delta
  <2>2. CASE ringUp
    <3>1. counters' = [counters EXCEPT !["drops"] = counters["drops"] + (n - r)] /\ accounted' = accounted
      BY <2>1, <2>2, Zenon DEF sample_viewer_snd_drops
    <3> QED  BY <1>4, <1>6, <1>10, <2>2, <3>1 DEF Counters
  <2>3. CASE ~ringUp
    <3>1. accounted' = [accounted EXCEPT !["drops"] = accounted["drops"] + (n - r)] /\ counters' = counters
      BY <2>1, <2>3, Zenon DEF sample_viewer_snd_drops
    <3> QED  BY <1>4, <1>6, <1>10, <2>3, <3>1 DEF Counters
  <2> QED  BY <2>2, <2>3
<1>12. m_snd_drops_reported' \in [Viewers -> Int]
  BY <1>3, <1>4
<1>13. StatsTypes'
  BY <1>1, <1>2, <1>11, <1>12 DEF StatsTypes
<1>14. ContinuityInv'
  BY <1>1, <1>2, <1>11, ContinuityStays
<1>15. accounted'["drops"] + counters'["drops"] = sampledGone' + SumFunction(m_snd_drops_reported)'
  <2>1. accounted["drops"] + counters["drops"] = sampledGone + SumFunction(m_snd_drops_reported)
    BY <1>1, Zenon DEF CountedOnce
  <2>2. sampledGone' = sampledGone
    BY <1>2
  <2> QED  BY <1>4, <1>6, <1>9, <1>10, <1>11, <2>1, <2>2
<1>16. accounted'["breaks"] + counters'["breaks"] \in certain'..hurt'
  BY <1>1, <1>2, <1>11 DEF CountedOnce
<1>17. CountedOnce'
  BY <1>15, <1>16, Zenon DEF CountedOnce
<1> QED  BY <1>13, <1>14, <1>17, Zenon DEF StatsInv

LEMMA ViewerLeavesKeeps ==
  ASSUME StatsInv, NEW v \in Viewers, ViewerLeaves(v)
  PROVE  StatsInv'
<1>1. StatsTypes /\ ContinuityInv /\ CountedOnce
  BY Zenon DEF StatsInv
<1>2. UNCHANGED <<ringUp, counters, last_cc, cc, gap, request, accounted, hurt, certain>>
  BY DEF ViewerLeaves
<1>3. /\ m_snd_drops_reported' = [m_snd_drops_reported EXCEPT ![v] = 0]
      /\ total' = [total EXCEPT ![v] = 0]
      /\ sampledGone' = sampledGone + m_snd_drops_reported[v]
  BY Zenon DEF ViewerLeaves
<1>4. /\ sampledGone \in Int
      /\ total \in [Viewers -> Int] /\ m_snd_drops_reported \in [Viewers -> Int]
  BY <1>1, Zenon DEF StatsTypes
<1>5. PICK m : m = m_snd_drops_reported
  OBVIOUS
<1>6. SumFunction(m) \in Int /\ m[v] \in Int
      /\ SumFunction([m EXCEPT ![v] = 0]) = SumFunction(m) - m[v] + 0
  <2>1. m \in [Viewers -> Int] /\ IsFiniteSet(Viewers) /\ 0 \in Int
    BY <1>4, <1>5, StatsAssumption
  <2>2. SumFunction(m) \in Int
    BY <2>1, SumType DEF SumFunction
  <2> QED  BY <2>1, <2>2, SumExcept
<1>7. SumFunction(m_snd_drops_reported)' = SumFunction(m) - m[v] + 0 /\ sampledGone' = sampledGone + m[v]
  BY <1>3, <1>5, <1>6, Zenon
<1>8. total' \in [Viewers -> Int] /\ m_snd_drops_reported' \in [Viewers -> Int] /\ sampledGone' \in Int
  BY <1>3, <1>4
<1>9. StatsTypes'
  BY <1>1, <1>2, <1>8 DEF StatsTypes
<1>10. ContinuityInv'
  BY <1>1, <1>2, ContinuityStays
<1>11. sampledGone' + SumFunction(m_snd_drops_reported)' = sampledGone + SumFunction(m_snd_drops_reported)
  BY <1>4, <1>5, <1>6, <1>7
<1>12. accounted'["drops"] + counters'["drops"] = sampledGone' + SumFunction(m_snd_drops_reported)'
  BY <1>1, <1>2, <1>11 DEF CountedOnce
<1>13. accounted'["breaks"] + counters'["breaks"] \in certain'..hurt'
  BY <1>1, <1>2 DEF CountedOnce
<1>14. CountedOnce'
  BY <1>12, <1>13, Zenon DEF CountedOnce
<1> QED  BY <1>9, <1>10, <1>14, Zenon DEF StatsInv

-----------------------------------------------------------------------------
(* GET /stats. *)
LEMMA StatsRequestKeeps ==
  ASSUME StatsInv, NEW t \in HttpThreads, NEW clear \in BOOLEAN, NEW a \in BOOLEAN,
         NEW n \in BOOLEAN, StatsRequest(t, clear, a, n)
  PROVE  StatsInv'
<1>1. StatsTypes /\ ContinuityInv /\ CountedOnce
  BY Zenon DEF StatsInv
<1>2. UNCHANGED <<ringUp, counters, last_cc, cc, gap, total, m_snd_drops_reported, accounted,
                  sampledGone, hurt, certain>>
  BY DEF StatsRequest
<1>3. request' \in [HttpThreads -> [todo : Seq(Counters), clear : BOOLEAN]]
  <2>1. /\ request \in [HttpThreads -> [todo : Seq(Counters), clear : BOOLEAN]]
        /\ request' = [request EXCEPT ![t] = [todo |-> <<"drops", "breaks">>, clear |-> clear]]
    BY <1>1, Zenon DEF StatsTypes, StatsRequest
  <2>2. [todo |-> <<"drops", "breaks">>, clear |-> clear] \in [todo : Seq(Counters), clear : BOOLEAN]
    BY DEF Counters
  <2> QED  BY <2>1, <2>2
<1>4. StatsTypes'
  BY <1>1, <1>2, <1>3 DEF StatsTypes
<1>5. ContinuityInv'
  BY <1>1, <1>2, ContinuityStays
<1>6. CountedOnce'
  BY <1>1, <1>2 DEF CountedOnce
<1> QED  BY <1>4, <1>5, <1>6, Zenon DEF StatsInv

(* What a read takes out of a counter it accounts for. *)
LEMMA StatsReadKeeps ==
  ASSUME StatsInv, NEW t \in HttpThreads, StatsRead(t)
  PROVE  StatsInv'
<1>1. StatsTypes /\ ContinuityInv /\ CountedOnce
  BY Zenon DEF StatsInv
<1>2. UNCHANGED <<ringUp, last_cc, cc, gap, total, m_snd_drops_reported, sampledGone, hurt, certain>>
  BY DEF StatsRead
<1>3. /\ counters \in [Counters -> Int] /\ accounted \in [Counters -> Int]
      /\ request \in [HttpThreads -> [todo : Seq(Counters), clear : BOOLEAN]]
  BY <1>1, Zenon DEF StatsTypes
<1>4. PICK q, c : q = request[t] /\ c = Head(request[t].todo)
  OBVIOUS
<1>5. q.todo \in Seq(Counters) /\ q.clear \in BOOLEAN /\ q.todo # <<>>
      /\ q \in [todo : Seq(Counters), clear : BOOLEAN]
  BY <1>3, <1>4 DEF StatsRead
<1>6. c \in Counters /\ Tail(q.todo) \in Seq(Counters)
  BY <1>4, <1>5
<1>7. PICK left : left = AfterRead(c, q.clear)
  OBVIOUS
<1>8. left \in Int /\ counters[c] \in Int /\ accounted[c] \in Int
  BY <1>3, <1>6, <1>7 DEF AfterRead
<1>9. ~ringUp => left = counters[c]
  BY <1>7, Zenon DEF AfterRead
<1>10. /\ counters' = [counters EXCEPT ![c] = left]
       /\ accounted' = [accounted EXCEPT ![c] = accounted[c] + counters[c] - left]
  BY <1>4, <1>7, Zenon DEF StatsRead
<1>11. request' = [request EXCEPT ![t] =
                     IF Len(q.todo) = 1 THEN NoRequest ELSE [q EXCEPT !.todo = Tail(q.todo)]]
  BY <1>4, Zenon DEF StatsRead
<1>12. request' \in [HttpThreads -> [todo : Seq(Counters), clear : BOOLEAN]]
  <2>1. NoRequest \in [todo : Seq(Counters), clear : BOOLEAN]
    BY DEF NoRequest
  <2>2. [q EXCEPT !.todo = Tail(q.todo)] \in [todo : Seq(Counters), clear : BOOLEAN]
    BY <1>5, <1>6
  <2> QED  BY <1>3, <1>11, <2>1, <2>2, Zenon
<1>13. counters' \in [Counters -> Int] /\ accounted' \in [Counters -> Int]
  BY <1>3, <1>6, <1>8, <1>10
<1>14. StatsTypes'
  BY <1>1, <1>2, <1>12, <1>13 DEF StatsTypes
<1>15. ~ringUp => \A d \in Counters : counters'[d] = counters[d]
  BY <1>3, <1>6, <1>9, <1>10
<1>16. ContinuityInv'
  BY <1>1, <1>2, <1>15, ContinuityStays
<1>17. \A d \in Counters : accounted'[d] + counters'[d] = accounted[d] + counters[d]
  BY <1>3, <1>6, <1>8, <1>10
<1>18. /\ accounted'["drops"] + counters'["drops"] = accounted["drops"] + counters["drops"]
       /\ accounted'["breaks"] + counters'["breaks"] = accounted["breaks"] + counters["breaks"]
  BY <1>17 DEF Counters
<1>19. CountedOnce'
  BY <1>1, <1>2, <1>18 DEF CountedOnce
<1> QED  BY <1>14, <1>16, <1>19, Zenon DEF StatsInv

-----------------------------------------------------------------------------
LEMMA StatsInitInv ==
  ASSUME StatsInit
  PROVE  StatsInv
<1>1. /\ ringUp = FALSE /\ counters = Zero /\ last_cc = <<>> /\ accounted = Zero
      /\ cc = [p \in Pids |-> 0] /\ gap = [p \in Pids |-> 0]
      /\ total = [v \in Viewers |-> 0] /\ m_snd_drops_reported = [v \in Viewers |-> 0]
      /\ request = [t \in HttpThreads |-> NoRequest]
      /\ sampledGone = 0 /\ hurt = 0 /\ certain = 0
  BY Zenon DEF StatsInit
<1>2. NoRequest \in [todo : Seq(Counters), clear : BOOLEAN]
  BY DEF NoRequest
<1>3. 0 \in 0..(CcModulus - 1)
  BY StatsAssumption
<1>4. /\ cc \in [Pids -> 0..(CcModulus - 1)] /\ gap \in [Pids -> Nat]
      /\ total \in [Viewers -> Int] /\ m_snd_drops_reported \in [Viewers -> Int]
      /\ request \in [HttpThreads -> [todo : Seq(Counters), clear : BOOLEAN]]
  BY <1>1, <1>2, <1>3
<1>5. StatsTypes
  <2>1. counters \in [Counters -> Int] /\ accounted \in [Counters -> Int]
    BY <1>1, ZeroCounts
  <2>2. sampledGone \in Int /\ hurt \in Int /\ certain \in Int
    BY <1>1
  <2> QED  BY <1>1, <1>4, <2>1, <2>2, Zenon DEF StatsTypes
<1>6. ContinuityInv
  BY <1>1, NothingTracked, ZeroCounts DEF ContinuityInv
<1>7. SumFunction(m_snd_drops_reported) = 0
  <2>1. DOMAIN m_snd_drops_reported = Viewers /\ \A v \in Viewers : m_snd_drops_reported[v] = 0
    BY <1>1
  <2> QED  BY <2>1, SumZero, StatsAssumption DEF SumFunction
<1>8. CountedOnce
  BY <1>1, <1>7, ZeroCounts DEF CountedOnce
<1> QED  BY <1>5, <1>6, <1>8, Zenon DEF StatsInv

LEMMA StatsStep ==
  ASSUME StatsInv, [StatsNext]_statsVars
  PROVE  StatsInv'
<1>1. CASE UNCHANGED statsVars
  BY <1>1 DEF statsVars, StatsInv, StatsTypes, ContinuityInv, CountedOnce
<1>2. CASE PutOne
  BY <1>2, PutOneKeeps
<1>3. CASE PutTwo
  BY <1>3, PutTwoKeeps
<1>4. CASE RingAdded
  BY <1>4, RingAddedKeeps
<1>5. CASE RingRemoved
  BY <1>5, RingRemovedKeeps
<1>6. CASE SecondPasses
  <2>1. UNCHANGED <<ringUp, counters, last_cc, cc, gap, total, m_snd_drops_reported, request,
                    accounted, sampledGone, hurt, certain>>
    BY <1>6 DEF SecondPasses
  <2> QED  BY <2>1 DEF StatsInv, StatsTypes, ContinuityInv, CountedOnce
<1>7. ASSUME NEW p \in Pids, PacketDropped(p)
      PROVE  StatsInv'
  BY <1>7, PacketDroppedKeeps
<1>8. ASSUME NEW v \in Viewers, ViewerDrop(v)
      PROVE  StatsInv'
  BY <1>8, ViewerDropKeeps
<1>9. ASSUME NEW v \in Viewers, sample_viewer_snd_drops(v)
      PROVE  StatsInv'
  BY <1>9, SampleKeeps
<1>10. ASSUME NEW v \in Viewers, ViewerLeaves(v)
       PROVE  StatsInv'
  BY <1>10, ViewerLeavesKeeps
<1>11. ASSUME NEW t \in HttpThreads, StatsRead(t)
       PROVE  StatsInv'
  BY <1>11, StatsReadKeeps
<1>12. ASSUME NEW t \in HttpThreads, \E clear, a, n \in BOOLEAN : StatsRequest(t, clear, a, n)
       PROVE  StatsInv'
  BY <1>12, StatsRequestKeeps
<1> QED  BY <1>1, <1>2, <1>3, <1>4, <1>5, <1>6, <1>7, <1>8, <1>9, <1>10, <1>11, <1>12, Zenon
         DEF StatsNext

(* For any viewers, HTTP threads and PIDs, however samples, resets, reads   *)
(* of the publisher and the ring's coming and going interleave:             *)
(* sample_viewer_snd_drops() reports a viewer's drops once, and the         *)
(* continuity breaks CSLSMapData::put() counts lie between the reads that   *)
(* certainly missed packets and the reads that missed any.                  *)
THEOREM StatsCountedOnce == StatsSpec => []CountedOnce
<1>1. StatsInit => StatsInv
  BY StatsInitInv
<1>2. StatsInv /\ [StatsNext]_statsVars => StatsInv'
  BY StatsStep
<1>3. StatsInv => CountedOnce
  BY Zenon DEF StatsInv
<1> QED  BY <1>1, <1>2, <1>3, PTL DEF StatsSpec

-----------------------------------------------------------------------------
(***************************************************************************)
(* The timecode scanner: any programmes, picture layouts and prefix size.  *)
(***************************************************************************)
Kinds == {"sps", "sei", "rest", "stray", "idr", "slice"}
Cells == [kind : Kinds, picture : Nat, prog : Programmes]

ScannerTypes(s) ==
  /\ DOMAIN s = {"pmt_pid", "video_pid", "codec", "sps", "au", "au_open", "au_pts"}
  /\ s.codec \in {"none", "h264", "hevc"}
  /\ s.au \in Seq(Cells) /\ Len(s.au) <= PrefixMax
  /\ \A i \in 1..Len(s.au) : s.au[i].kind = "sps" => i = 1
  /\ s.au_open \in BOOLEAN /\ (s.au # <<>> => s.au_open)
  /\ s.au_pts \in Nat \cup {NoPts}

(* The layout the prefix is read with: of the parameter set that leads it, *)
(* or the one remembered.                                                  *)
Leads(s) == s.au # <<>> /\ s.au[1].kind = "sps"
Ctx(s) == IF Leads(s) THEN parse_sps_h264(s.codec, s.sps, s.au[1]) ELSE s.sps

(* The prefix is of picture n; it is whole data of programme q, whose      *)
(* codec the scanner expects; it is read with the layout of q or none.     *)
Paired(s, n) ==
  /\ \A i \in 1..Len(s.au) : s.au[i].picture = n
  /\ s.au_pts \in {NoPts, n}

Uniform(s, q) ==
  /\ q.codec = s.codec
  /\ \A i \in 1..Len(s.au) : s.au[i].prog = q /\ s.au[i].kind # "stray"

LayoutOK(s, q) ==
  s.codec = "h264" /\ q.codec = "h264" => Ctx(s) \in {NoLayout, q.layout}

Readable(s, q) == Uniform(s, q) /\ LayoutOK(s, q)

(* The scan as a walk. *)
Unscanned(s) == [ctx |-> s.sps, found |-> NoPts]

IsScan(s, n, f) ==
  f = [i \in 0..n |-> IF i = 0 THEN Unscanned(s) ELSE scan_cell(s, i, f[i - 1])]

LEMMA ScanValues ==
  ASSUME NEW s, NEW n \in Nat, NEW f, IsScan(s, n, f)
  PROVE  \A i \in 0..n : f[i] = IF i = 0 THEN Unscanned(s) ELSE scan_cell(s, i, f[i - 1])
<1> DEFINE h == [i \in 0..n |-> IF i = 0 THEN Unscanned(s) ELSE scan_cell(s, i, f[i - 1])]
<1>1. f = h
  BY Zenon DEF IsScan
<1>2. \A i \in 0..n : h[i] = IF i = 0 THEN Unscanned(s) ELSE scan_cell(s, i, f[i - 1])
  OBVIOUS
<1> HIDE DEF h
<1> QED  BY <1>1, <1>2, Zenon

(* The recursion defines a scan of every length. *)
LEMMA ScanExists ==
  ASSUME NEW s, NEW n \in Nat
  PROVE  \E f : IsScan(s, n, f)
<1> DEFINE T == {k \in Nat : \E f : IsScan(s, k, f)}
<1>1. 0 \in T
  <2>1. IsScan(s, 0, [i \in 0..0 |-> Unscanned(s)])
    BY DEF IsScan
  <2> QED BY <2>1
<1>2. ASSUME NEW k \in T
      PROVE  k + 1 \in T
  <2>1. k \in Nat
    OBVIOUS
  <2>2. PICK f : IsScan(s, k, f)
    OBVIOUS
  <2> DEFINE g == [i \in 0..(k + 1) |-> IF i <= k THEN f[i] ELSE scan_cell(s, k + 1, f[k])]
  <2>3. \A i \in 0..k : f[i] = IF i = 0 THEN Unscanned(s) ELSE scan_cell(s, i, f[i - 1])
    BY <2>1, <2>2, ScanValues
  <2>4. ASSUME NEW i \in 0..(k + 1)
        PROVE  g[i] = IF i = 0 THEN Unscanned(s) ELSE scan_cell(s, i, g[i - 1])
    <3>1. CASE i = 0
      BY <2>1, <2>3, <3>1
    <3>2. CASE i # 0 /\ i <= k
      <4>1. i \in 0..k /\ i - 1 \in 0..(k + 1) /\ i - 1 <= k
        BY <2>1, <3>2
      <4>2. g[i] = f[i] /\ g[i - 1] = f[i - 1]
        BY <3>2, <4>1
      <4> HIDE DEF g
      <4> QED BY <2>3, <3>2, <4>1, <4>2
    <3>3. CASE i = k + 1
      <4>1. k \in 0..(k + 1) /\ k + 1 # 0 /\ i - 1 = k /\ ~(i <= k) /\ k <= k
        BY <2>1, <3>3
      <4>2. g[i] = scan_cell(s, k + 1, f[k]) /\ g[k] = f[k]
        BY <4>1
      <4> HIDE DEF g
      <4> QED BY <3>3, <4>1, <4>2
    <3> QED BY <2>1, <3>1, <3>2, <3>3
  <2>5. IsScan(s, k + 1, g)
    BY <2>4 DEF IsScan
  <2> QED BY <2>1, <2>5
<1>3. T = Nat
  <2> HIDE DEF T
  <2>1. T \in SUBSET Nat
    BY DEF T
  <2> QED BY <1>1, <1>2, <2>1, NatSetInduction
<1> QED BY <1>3

LEMMA ScanIsWalk ==
  ASSUME NEW s, Len(s.au) \in Nat
  PROVE  \E f : /\ f[0] = Unscanned(s)
                /\ \A i \in 1..Len(s.au) : f[i] = scan_cell(s, i, f[i - 1])
                /\ ScanPrefix(s) = f[Len(s.au)]
<1> DEFINE f == CHOOSE f : IsScan(s, Len(s.au), f)
<1>1. IsScan(s, Len(s.au), f)
  BY ScanExists
<1>2. ScanPrefix(s) = f[Len(s.au)]
  BY Zenon DEF ScanPrefix, IsScan, Unscanned
<1> HIDE DEF f
<1>3. \A i \in 0..Len(s.au) : f[i] = IF i = 0 THEN Unscanned(s) ELSE scan_cell(s, i, f[i - 1])
  BY <1>1, ScanValues
<1>4. 0 \in 0..Len(s.au) /\ \A i \in 1..Len(s.au) : i \in 0..Len(s.au) /\ i # 0
  OBVIOUS
<1> QED BY <1>2, <1>3, <1>4

(* What has been found up to a cell, and what is in force there. *)
ScanOK(s, i, r) ==
  /\ r.ctx = IF i = 0 THEN s.sps ELSE Ctx(s)
  /\ r.found = NoPts \/ \E j \in 1..Len(s.au) : r.found = Timing(s, j, Ctx(s))

LEMMA ScanCellOK ==
  ASSUME NEW s, ScannerTypes(s), NEW i \in Nat, i + 1 \in 1..Len(s.au),
         NEW r, ScanOK(s, i, r)
  PROVE  ScanOK(s, i + 1, scan_cell(s, i + 1, r))
<1>1. PICK c, x, y : c = s.au[i + 1] /\ x = scan_cell(s, i + 1, r).ctx
                     /\ y = scan_cell(s, i + 1, r).found
  OBVIOUS
<1>2. /\ x = IF c.kind = "sps" THEN parse_sps_h264(s.codec, r.ctx, c) ELSE r.ctx
      /\ y = IF r.found = NoPts THEN Timing(s, i + 1, r.ctx) ELSE r.found
  BY <1>1 DEF scan_cell
<1>3. c.kind = "sps" => i = 0
  BY <1>1 DEF ScannerTypes
<1>4. i = 0 => (Leads(s) <=> c.kind = "sps")
  BY <1>1 DEF Leads, ScannerTypes
<1>5. x = Ctx(s)
  <2>1. CASE i = 0
    BY <1>1, <1>2, <1>4, <2>1 DEF ScanOK, Ctx
  <2>2. CASE i # 0
    BY <1>2, <1>3, <2>2 DEF ScanOK
  <2> QED BY <2>1, <2>2
<1>6. Timing(s, i + 1, r.ctx) \in {NoPts, Timing(s, i + 1, Ctx(s))}
  <2>1. CASE c.kind = "sps"
    BY <1>1, <2>1 DEF Timing
  <2>2. CASE c.kind # "sps"
    <3>1. r.ctx = Ctx(s)
      BY <1>2, <1>5, <2>2
    <3> QED BY <3>1, Zenon
  <2> QED BY <2>1, <2>2
<1>7. y = NoPts \/ \E j \in 1..Len(s.au) : y = Timing(s, j, Ctx(s))
  BY <1>2, <1>6, Zenon DEF ScanOK
<1>8. i + 1 # 0
  OBVIOUS
<1> QED  BY <1>1, <1>5, <1>7, <1>8, Zenon DEF ScanOK

LEMMA ScanResult ==
  ASSUME NEW s, ScannerTypes(s), s.au # <<>>
  PROVE  /\ ScanPrefix(s).ctx = Ctx(s)
         /\ \/ ScanPrefix(s).found = NoPts
            \/ \E j \in 1..Len(s.au) : ScanPrefix(s).found = Timing(s, j, Ctx(s))
<1>1. Len(s.au) \in Nat /\ Len(s.au) # 0
  BY DEF ScannerTypes
<1>2. PICK f : /\ f[0] = Unscanned(s)
               /\ \A i \in 1..Len(s.au) : f[i] = scan_cell(s, i, f[i - 1])
               /\ ScanPrefix(s) = f[Len(s.au)]
  BY <1>1, ScanIsWalk
<1> DEFINE T == {i \in Nat : i <= Len(s.au) => ScanOK(s, i, f[i])}
<1>3. 0 \in T
  <2>1. f[0].found = NoPts /\ f[0].ctx = s.sps
    BY <1>2 DEF Unscanned
  <2>2. ScanOK(s, 0, f[0])
    BY <2>1, Zenon DEF ScanOK
  <2> QED  BY <2>2
<1>4. ASSUME NEW i \in T
      PROVE  i + 1 \in T
  <2> SUFFICES ASSUME i + 1 <= Len(s.au)
               PROVE  ScanOK(s, i + 1, f[i + 1])
    OBVIOUS
  <2>1. i \in Nat /\ i + 1 \in 1..Len(s.au) /\ (i + 1) - 1 = i /\ ScanOK(s, i, f[i])
    BY <1>1
  <2>2. f[i + 1] = scan_cell(s, i + 1, f[i])
    BY <1>2, <2>1
  <2> HIDE DEF T
  <2> QED  BY <2>1, <2>2, ScanCellOK
<1>5. T = Nat
  <2> HIDE DEF T
  <2>1. T \in SUBSET Nat
    BY DEF T
  <2> QED BY <1>3, <1>4, <2>1, NatSetInduction
<1>6. ScanOK(s, Len(s.au), f[Len(s.au)])
  BY <1>1, <1>5
<1> QED  BY <1>1, <1>2, <1>6, Zenon DEF ScanOK

(* A cell yields its picture, nothing or garbage; garbage only when the    *)
(* prefix is not readable.                                                 *)
LEMMA TimingValue ==
  ASSUME NEW s, ScannerTypes(s), NEW j \in 1..Len(s.au), NEW ctx
  PROVE  Timing(s, j, ctx) \in {NoPts, Garbage, s.au[j].picture} /\ s.au[j].picture \in Nat
<1>1. s.au[j] \in Cells
  BY DEF ScannerTypes
<1> QED BY <1>1 DEF Timing, parse_timing, misread_idr, Cells

LEMMA TimingReadable ==
  ASSUME NEW s, ScannerTypes(s), NEW q, Readable(s, q), NEW j \in 1..Len(s.au)
  PROVE  Timing(s, j, Ctx(s)) # Garbage
<1>1. PICK c, x : c = s.au[j] /\ x = Ctx(s)
  OBVIOUS
<1>2. c \in Cells /\ c.prog = q /\ q.codec = s.codec
  BY <1>1 DEF ScannerTypes, Readable, Uniform
<1>3. s.codec \in {"h264", "hevc"}
  BY <1>2, TimecodeAssumption DEF Cells
<1>4. s.codec = "h264" => x \in {NoLayout, q.layout}
  BY <1>1, <1>2 DEF Readable, LayoutOK
<1>5. j < Len(s.au) => s.au[j + 1].kind # "stray"
  <2>1. j < Len(s.au) => j + 1 \in 1..Len(s.au)
    BY DEF ScannerTypes
  <2> QED BY <2>1 DEF Readable, Uniform
<1>6. parse_timing(s.codec, x, c, TRUE) # Garbage /\ misread_idr(s.codec, x, c) # Garbage
  BY <1>2, <1>3, <1>4 DEF parse_timing, misread_idr, CanRead, Cells, Garbage, NoPts
<1>7. \/ Timing(s, j, x) = parse_timing(s.codec, x, c, TRUE)
      \/ Timing(s, j, x) = misread_idr(s.codec, x, c)
      \/ Timing(s, j, x) = NoPts
  BY <1>1, <1>5 DEF Timing
<1>8. Garbage # NoPts
  BY DEF Garbage, NoPts
<1> QED BY <1>1, <1>6, <1>7, <1>8, Zenon

-----------------------------------------------------------------------------
(* What a flush leaves and publishes. *)
OutOK(o) ==
  /\ o.picture = Garbage => o.missed # {}
  /\ o.picture # Garbage /\ o.pts \notin {NoPts, o.picture} => "start" \in o.missed

LEMMA FlushFields ==
  ASSUME NEW s, ScannerTypes(s)
  PROVE  /\ Flushed(s).video_pid = s.video_pid /\ Flushed(s).codec = s.codec
         /\ Flushed(s).au = <<>> /\ Flushed(s).au_open = FALSE /\ Flushed(s).au_pts = s.au_pts
         /\ Flushed(s).sps = Ctx(s)
         /\ ScannerTypes(Flushed(s)) /\ Len(Flushed(s).au) < PrefixMax
<1>1. PICK x : x = IF s.au = <<>> THEN s.sps ELSE ScanPrefix(s).ctx
  OBVIOUS
<1>2. Flushed(s) = [s EXCEPT !.sps = x, !.au_open = FALSE, !.au = <<>>]
  BY <1>1, Zenon DEF Flushed
<1>3. <<>> \in Seq(Cells) /\ Len(<<>>) = 0 /\ Len(<<>>) < PrefixMax /\ Len(<<>>) <= PrefixMax
  BY TimecodeAssumption
<1>4. x = Ctx(s)
  <2>1. CASE s.au = <<>>
    BY <1>1, <2>1, Zenon DEF Ctx, Leads
  <2>2. CASE s.au # <<>>
    BY <1>1, <2>2, ScanResult, Zenon
  <2> QED BY <2>1, <2>2
<1>5. PICK t : t = Flushed(s)
  OBVIOUS
<1>6. /\ t.video_pid = s.video_pid /\ t.codec = s.codec /\ t.au = <<>> /\ t.au_open = FALSE
      /\ t.au_pts = s.au_pts /\ t.sps = x /\ DOMAIN t = DOMAIN s
  BY <1>2, <1>5 DEF ScannerTypes
<1>7. ScannerTypes(t) /\ Len(t.au) < PrefixMax
  <2>1. \A i \in 1..Len(t.au) : FALSE
    BY <1>3, <1>6
  <2> QED BY <1>3, <1>6, <2>1 DEF ScannerTypes
<1> QED  BY <1>4, <1>5, <1>6, <1>7, Zenon

(* The layout in force does not change when nothing is buffered. *)
LEMMA CtxOfEmpty ==
  ASSUME NEW s, s.au = <<>>
  PROVE  Ctx(s) = s.sps
BY Zenon DEF Ctx, Leads

LEMMA PublishOK ==
  ASSUME NEW s, ScannerTypes(s), NEW old, OutOK(old), NEW lacking,
         s.au # <<>> /\ "start" \notin lacking => \E n \in Nat : Paired(s, n),
         s.au # <<>> /\ lacking = {} => \E q \in Programmes : Readable(s, q)
  PROVE  OutOK(Published(s, old, lacking))
<1>1. CASE s.au = <<>>
  BY <1>1, Zenon DEF Published
<1>2. CASE s.au # <<>>
  <2>1. PICK x : x = ScanPrefix(s).found
    OBVIOUS
  <2>2. Published(s, old, lacking) =
          IF x = NoPts THEN old ELSE [picture |-> x, pts |-> s.au_pts, missed |-> lacking]
    BY <1>2, <2>1, Zenon DEF Published
  <2>3. CASE x = NoPts
    BY <2>2, <2>3, Zenon
  <2>4. CASE x # NoPts
    <3>1. PICK o : o = Published(s, old, lacking)
      OBVIOUS
    <3>2. o.picture = x /\ o.pts = s.au_pts /\ o.missed = lacking
      BY <2>2, <2>4, <3>1
    <3>3. PICK j \in 1..Len(s.au) : x = Timing(s, j, Ctx(s))
      BY <1>2, <2>1, <2>4, ScanResult
    <3>4. lacking = {} => x # Garbage
      BY <1>2, <3>3, TimingReadable
    <3>5. "start" \notin lacking /\ x # Garbage => s.au_pts \in {NoPts, x}
      <4> SUFFICES ASSUME "start" \notin lacking, x # Garbage
                   PROVE  s.au_pts \in {NoPts, x}
        OBVIOUS
      <4>1. PICK n \in Nat : Paired(s, n)
        BY <1>2, Zenon
      <4>2. x = s.au[j].picture
        BY <2>4, <3>3, TimingValue
      <4> QED BY <4>1, <4>2 DEF Paired
    <3>6. OutOK(o)
      BY <3>2, <3>4, <3>5, Zenon DEF OutOK
    <3> QED BY <3>1, <3>6, Zenon
  <2> QED  BY <2>3, <2>4
<1> QED  BY <1>1, <1>2

(* What a packet's cells add to the prefix. *)
OfPicture(cells, n, q) == \A j \in 1..Len(cells) : cells[j].picture = n /\ cells[j].prog = q

Extended(y, au, cells) ==
  /\ y \in Seq(Cells) /\ Len(y) <= PrefixMax
  /\ \A i \in 1..Len(y) : \/ (i \in 1..Len(au) /\ y[i] = au[i])
                          \/ \E j \in 1..Len(cells) : y[i] = cells[j] /\ i = j + Len(au)
  /\ au # <<>> => y # <<>> /\ y[1] = au[1]
  /\ au = <<>> /\ cells # <<>> => y # <<>> /\ y[1] = cells[1]

LEMMA AppendCells ==
  ASSUME NEW au \in Seq(Cells), Len(au) < PrefixMax, NEW cells \in Seq(Cells)
  PROVE  Extended(au_append(au, cells), au, cells)
<1>1. PrefixMax \in Nat
  BY TimecodeAssumption
<1>2. PICK m : m = IF Len(cells) < PrefixMax - Len(au) THEN Len(cells) ELSE PrefixMax - Len(au)
  OBVIOUS
<1>3. m \in 0..Len(cells) /\ m <= PrefixMax - Len(au) /\ (cells # <<>> => m >= 1)
  BY <1>1, <1>2
<1>4. PICK x : x = SubSeq(cells, 1, m)
  OBVIOUS
<1>5. x \in Seq(Cells) /\ Len(x) = m /\ \A j \in 1..m : x[j] = cells[j]
  BY <1>3, <1>4
<1>6. au_append(au, cells) = au \o x
  BY <1>2, <1>4, Zenon DEF au_append
<1>7. PICK y : y = au \o x
  OBVIOUS
<1>8. /\ y \in Seq(Cells) /\ Len(y) = Len(au) + m
      /\ \A i \in 1..Len(y) : y[i] = IF i <= Len(au) THEN au[i] ELSE x[i - Len(au)]
  <2>1. /\ au \o x \in Seq(Cells) /\ Len(au \o x) = Len(au) + Len(x)
        /\ \A i \in 1..Len(au) + Len(x) :
             (au \o x)[i] = IF i <= Len(au) THEN au[i] ELSE x[i - Len(au)]
    BY <1>5, ConcatProperties
  <2> QED BY <1>5, <1>7, <2>1, Zenon
<1>9. Len(y) <= PrefixMax
  BY <1>1, <1>3, <1>8
<1>10. \A i \in 1..Len(y) : \/ (i \in 1..Len(au) /\ y[i] = au[i])
                            \/ \E j \in 1..Len(cells) : y[i] = cells[j] /\ i = j + Len(au)
  <2> TAKE i \in 1..Len(y)
  <2>1. CASE i <= Len(au)
    <3>1. i \in 1..Len(au) /\ y[i] = au[i]
      BY <1>8, <2>1
    <3> QED BY <3>1
  <2>2. CASE ~(i <= Len(au))
    <3>1. PICK j : j = i - Len(au)
      OBVIOUS
    <3>2. j \in 1..m /\ j \in 1..Len(cells) /\ i = j + Len(au)
      BY <1>3, <1>8, <2>2, <3>1
    <3>3. y[i] = cells[j]
      BY <1>5, <1>8, <2>2, <3>1, <3>2
    <3> QED BY <3>2, <3>3
  <2> QED BY <2>1, <2>2
<1>11. au # <<>> => y # <<>> /\ y[1] = au[1]
  BY <1>3, <1>8
<1>12. au = <<>> /\ cells # <<>> => y # <<>> /\ y[1] = cells[1]
  BY <1>3, <1>5, <1>8
<1> QED  BY <1>6, <1>7, <1>8, <1>9, <1>10, <1>11, <1>12, Zenon DEF Extended

(* A packet of picture n fed to an open or closed prefix, with M missed. *)
Fed(o, cells) == IF o.au_open THEN [o EXCEPT !.au = au_append(o.au, cells)] ELSE o
Full(o, cells) == Fed(o, cells).au_open /\ Len(Fed(o, cells).au) >= PrefixMax
After(o, cells) == IF Full(o, cells) THEN Flushed(Fed(o, cells)) ELSE Fed(o, cells)

Unbroken(cells) == \A j \in 1..Len(cells) : cells[j].kind # "stray"

Ready(o, cells, n, q, M) ==
  /\ ScannerTypes(o) /\ Len(o.au) < PrefixMax
  /\ cells \in Seq(Cells) /\ OfPicture(cells, n, q)
  /\ \A j \in 1..Len(cells) : cells[j].kind = "sps" => j = 1 /\ o.au = <<>>
  /\ o.au_open /\ "start" \notin M => Paired(o, n)
  /\ o.au_open /\ M = {} => Uniform(o, q) /\ Unbroken(cells)
  /\ "sps" \notin M => LayoutOK(Fed(o, cells), q)

Learned(t, n, q, M) ==
  /\ ScannerTypes(t)
  /\ t.au_open /\ "start" \notin M => Paired(t, n)
  /\ t.au_open /\ M = {} => Uniform(t, q)
  /\ "sps" \notin M => LayoutOK(t, q)

LEMMA FedOK ==
  ASSUME NEW n \in Nat, NEW q \in Programmes, NEW M, NEW o, NEW cells,
         Ready(o, cells, n, q, M), o.au_open
  PROVE  /\ Learned(Fed(o, cells), n, q, M)
         /\ Fed(o, cells).codec = o.codec /\ Fed(o, cells).video_pid = o.video_pid
         /\ Fed(o, cells).au_open
<1>1. /\ o.au \in Seq(Cells) /\ Len(o.au) < PrefixMax /\ cells \in Seq(Cells)
      /\ OfPicture(cells, n, q) /\ ScannerTypes(o) /\ ("sps" \notin M => LayoutOK(Fed(o, cells), q))
  BY Zenon DEF Ready, ScannerTypes
<1>2. PICK y : y = au_append(o.au, cells)
  OBVIOUS
<1>3. /\ y \in Seq(Cells) /\ Len(y) <= PrefixMax
      /\ \A i \in 1..Len(y) : \/ (i \in 1..Len(o.au) /\ y[i] = o.au[i])
                              \/ \E j \in 1..Len(cells) : y[i] = cells[j] /\ i = j + Len(o.au)
  <2>1. Extended(y, o.au, cells)
    BY <1>1, <1>2, AppendCells, Zenon
  <2> QED BY <2>1, Zenon DEF Extended
<1>4. PICK t : t = Fed(o, cells)
  OBVIOUS
<1>5. t = [o EXCEPT !.au = y]
  BY <1>2, <1>4, Zenon DEF Fed
<1>6. /\ t.codec = o.codec /\ t.video_pid = o.video_pid /\ t.au_open = o.au_open /\ t.sps = o.sps
      /\ t.au = y /\ t.au_pts = o.au_pts /\ DOMAIN t = DOMAIN o
  BY <1>1, <1>5 DEF ScannerTypes
<1>7. \A i \in 1..Len(y) : y[i].kind = "sps" => i = 1
  <2> SUFFICES ASSUME NEW i \in 1..Len(y), y[i].kind = "sps" PROVE i = 1
    OBVIOUS
  <2>1. CASE i \in 1..Len(o.au) /\ y[i] = o.au[i]
    BY <1>1, <2>1 DEF ScannerTypes
  <2>2. CASE \E j \in 1..Len(cells) : y[i] = cells[j] /\ i = j + Len(o.au)
    <3>1. PICK j \in 1..Len(cells) : y[i] = cells[j] /\ i = j + Len(o.au)
      BY <2>2
    <3>2. j = 1 /\ o.au = <<>>
      BY <3>1, Zenon DEF Ready
    <3> QED BY <3>1, <3>2
  <2> QED BY <1>3, <2>1, <2>2, Zenon
<1>8. ScannerTypes(t)
  BY <1>1, <1>3, <1>6, <1>7 DEF ScannerTypes
<1>9. "start" \notin M => Paired(t, n)
  <2> SUFFICES ASSUME "start" \notin M PROVE Paired(t, n)
    OBVIOUS
  <2>1. Paired(o, n)
    BY Zenon DEF Ready
  <2>2. ASSUME NEW i \in 1..Len(y) PROVE y[i].picture = n
    BY <1>1, <1>3, <2>1, <2>2, ZenonT(40) DEF Paired, OfPicture
  <2> QED BY <1>6, <2>1, <2>2, Zenon DEF Paired
<1>10. M = {} => Uniform(t, q)
  <2> SUFFICES ASSUME M = {} PROVE Uniform(t, q)
    OBVIOUS
  <2>1. Uniform(o, q) /\ Unbroken(cells)
    BY Zenon DEF Ready
  <2>2. ASSUME NEW i \in 1..Len(y) PROVE y[i].prog = q /\ y[i].kind # "stray"
    BY <1>1, <1>3, <2>1, <2>2, Zenon DEF Uniform, OfPicture, Unbroken
  <2> QED BY <1>6, <2>1, <2>2, Zenon DEF Uniform
<1> QED  BY <1>1, <1>4, <1>6, <1>8, <1>9, <1>10, Zenon DEF Learned

LEMMA FeedKeeps ==
  ASSUME NEW n \in Nat, NEW q \in Programmes, NEW M, NEW o, NEW cells, Ready(o, cells, n, q, M),
         NEW old, OutOK(old)
  PROVE  /\ Learned(After(o, cells), n, q, M) /\ Len(After(o, cells).au) < PrefixMax
         /\ After(o, cells).codec = o.codec /\ After(o, cells).video_pid = o.video_pid
         /\ After(o, cells).au_open => o.au_open
         /\ Full(o, cells) => OutOK(Published(Fed(o, cells), old, M))
<1>1. CASE ~o.au_open
  <2>1. Fed(o, cells) = o
    BY <1>1, Zenon DEF Fed
  <2>2. ~Full(o, cells) /\ After(o, cells) = o
    BY <1>1, <2>1, Zenon DEF Full, After
  <2> QED  BY <1>1, <2>1, <2>2, Zenon DEF Learned, Ready
<1>2. CASE o.au_open
  <2>1. PICK t : t = Fed(o, cells)
    OBVIOUS
  <2>2. Learned(t, n, q, M) /\ t.au_open /\ t.codec = o.codec /\ t.video_pid = o.video_pid
    <3>1. /\ Learned(Fed(o, cells), n, q, M)
          /\ Fed(o, cells).codec = o.codec /\ Fed(o, cells).video_pid = o.video_pid
          /\ Fed(o, cells).au_open
      BY <1>2, FedOK, ZenonT(60)
    <3> QED  BY <2>1, <3>1, ZenonT(60)
  <2>3. ScannerTypes(t)
    BY <2>2, Zenon DEF Learned
  <2>4. CASE ~Full(o, cells)
    <3>1. After(o, cells) = t /\ ~(Len(t.au) >= PrefixMax)
      BY <2>1, <2>2, <2>4, Zenon DEF Full, After
    <3>2. Len(t.au) < PrefixMax
      BY <2>3, <3>1, TimecodeAssumption DEF ScannerTypes
    <3> QED  BY <1>2, <2>2, <2>4, <3>1, <3>2, Zenon
  <2>5. CASE Full(o, cells)
    <3>1. PICK f : f = Flushed(t)
      OBVIOUS
    <3>2. After(o, cells) = f
      BY <2>1, <2>5, <3>1, Zenon DEF After
    <3>3. /\ f.video_pid = t.video_pid /\ f.codec = t.codec /\ f.au_open = FALSE /\ f.au = <<>>
          /\ f.sps = Ctx(t) /\ ScannerTypes(f) /\ Len(f.au) < PrefixMax
      BY <2>3, <3>1, FlushFields, Zenon
    <3>4. Ctx(f) = f.sps
      BY <3>3, CtxOfEmpty
    <3>5. "sps" \notin M => LayoutOK(f, q)
      BY <2>2, <3>3, <3>4, Zenon DEF Learned, LayoutOK
    <3>6. Learned(f, n, q, M)
      BY <3>3, <3>5, Zenon DEF Learned
    <3>7. "start" \notin M => Paired(t, n)
      BY <2>2, Zenon DEF Learned
    <3>8. M = {} => Readable(t, q)
      <4>1. M = {} => "sps" \notin M
        OBVIOUS
      <4> QED BY <2>2, <4>1, Zenon DEF Learned, Readable
    <3>9. OutOK(Published(t, old, M))
      BY <2>3, <3>7, <3>8, PublishOK
    <3> QED  BY <1>2, <2>1, <2>2, <3>2, <3>3, <3>6, <3>9, Zenon
  <2> QED  BY <2>4, <2>5
<1> QED  BY <1>1, <1>2

-----------------------------------------------------------------------------
(* The invariant of scanner and encoder. *)
TsPackets == [start : BOOLEAN, cells : Seq(Cells)]

(* A parameter set is next; a picture has begun to arrive. *)
SpsComes == pending # <<>> /\ HasSps(Head(pending))
Started == pending = <<>> \/ ~Head(pending).start

PacketOK(p, i, n, q, begun) ==
  /\ p.start => i = 1 /\ p.cells # <<>>
  /\ OfPicture(p.cells, n, q)
  /\ \A j \in 1..Len(p.cells) : p.cells[j].kind = "sps" => p.start /\ j = 1
  /\ begun \/ Unbroken(p.cells)

PendingInv ==
  /\ pending \in Seq(TsPackets)
  /\ \A i \in 1..Len(pending) : PacketOK(pending[i], i, picture, programme, Started)

AllUnbroken == \A i \in 1..Len(pending) : Unbroken(pending[i].cells)

TimecodeTypes ==
  /\ programme \in Programmes /\ picture \in Nat /\ header \in {"pts", "none", "bad"}
  /\ ScannerTypes(st) /\ Len(st.au) < PrefixMax

(* What is buffered is of one picture, whole, and read with its layout,    *)
(* but for what was missed; and while the scanner takes the encoder's      *)
(* packets, of the picture and the programme the encoder sends.            *)
BufferInv ==
  /\ st.au # <<>> /\ "start" \notin missed => \E n \in Nat : Paired(st, n)
  /\ st.au # <<>> /\ missed = {} => \E q \in Programmes : Readable(st, q)

TunedInv ==
  /\ Started /\ st.au_open /\ "start" \notin missed => Paired(st, picture)
  /\ Started /\ st.au_open /\ missed = {} => Uniform(st, programme) /\ AllUnbroken
  /\ ~SpsComes /\ "sps" \notin missed => LayoutOK(st, programme)

TimecodeInv ==
  /\ TimecodeTypes /\ PendingInv /\ BufferInv
  /\ Tuned => TunedInv
  /\ TimecodeGenuine

LEMMA GenuineIsOutOK == TimecodeGenuine <=> OutOK(out)
BY Zenon DEF TimecodeGenuine, OutOK

(* The packets behind the first are no starts. *)
LEMMA PendingTail ==
  ASSUME PendingInv, pending # <<>>, pending' = Tail(pending),
         UNCHANGED <<programme, picture>>
  PROVE  PendingInv' /\ ~SpsComes' /\ Started' /\ (AllUnbroken => AllUnbroken')
<1>1. PICK s, n, q : s = pending /\ n = picture /\ q = programme
  OBVIOUS
<1>2. s \in Seq(TsPackets) /\ s # <<>>
  BY <1>1 DEF PendingInv
<1>3. PICK t : t = Tail(s)
  OBVIOUS
<1>4. /\ t \in Seq(TsPackets) /\ Len(t) = Len(s) - 1
      /\ \A i \in 1..Len(t) : i + 1 \in 1..Len(s) /\ i + 1 # 1 /\ t[i] = s[i + 1]
  BY <1>2, <1>3
<1>5. \A i \in 1..Len(t) : ~t[i].start /\ PacketOK(t[i], i, n, q, TRUE)
  <2> SUFFICES ASSUME NEW i \in 1..Len(t)
               PROVE  ~t[i].start /\ PacketOK(t[i], i, n, q, TRUE)
    OBVIOUS
  <2>1. PICK k : k = i + 1
    OBVIOUS
  <2>2. k \in 1..Len(s) /\ t[i] = s[k] /\ k # 1
    BY <1>4, <2>1, Zenon
  <2>3. PacketOK(s[k], k, n, q, Started)
    BY <1>1, <2>2, Zenon DEF PendingInv
  <2> QED  BY <2>2, <2>3, Zenon DEF PacketOK
<1>6. t # <<>> => Head(t) = t[1] /\ 1 \in 1..Len(t)
  BY <1>4
<1>7. pending' = t /\ picture' = n /\ programme' = q
  BY <1>1, <1>3
<1>8. ~SpsComes' /\ Started'
  BY <1>5, <1>6, <1>7, Zenon DEF SpsComes, Started, HasSps
<1>9. PendingInv'
  BY <1>4, <1>5, <1>7, <1>8, Zenon DEF PendingInv, PacketOK
<1>10. AllUnbroken => AllUnbroken'
  <2>1. AllUnbroken => \A i \in 1..Len(t) : Unbroken(t[i].cells)
    BY <1>1, <1>4, Zenon DEF AllUnbroken
  <2> QED BY <1>7, <2>1, Zenon DEF AllUnbroken
<1> QED  BY <1>8, <1>9, <1>10

(* The packet that is next. *)
LEMMA NextPacket ==
  ASSUME PendingInv, pending # <<>>
  PROVE  /\ PacketOK(Head(pending), 1, picture, programme, Started)
         /\ Head(pending).cells \in Seq(Cells) /\ Head(pending).start \in BOOLEAN
         /\ AllUnbroken => Unbroken(Head(pending).cells)
<1>1. PICK p, h : p = pending /\ h = Head(pending)
  OBVIOUS
<1>2. p \in Seq(TsPackets) /\ p # <<>>
  BY <1>1 DEF PendingInv
<1>3. h = p[1] /\ h \in TsPackets /\ 1 \in 1..Len(p)
  BY <1>1, <1>2
<1>4. h.cells \in Seq(Cells) /\ h.start \in BOOLEAN
  BY <1>3 DEF TsPackets
<1>5. PacketOK(p[1], 1, picture, programme, Started)
  BY <1>1, <1>3, Zenon DEF PendingInv
<1>6. AllUnbroken => Unbroken(p[1].cells)
  BY <1>1, <1>3, Zenon DEF AllUnbroken
<1> QED  BY <1>1, <1>3, <1>4, <1>5, <1>6, Zenon

(* The scanner of a start packet, before its cells. *)
LEMMA StartReady ==
  ASSUME TimecodeInv, Tuned, pending # <<>>, Head(pending).start, NEW pts,
         pts = IF header = "pts" THEN picture ELSE NoPts,
         NEW o, o = [Flushed(st) EXCEPT !.au_pts = pts, !.au_open = (header # "bad")]
  PROVE  /\ Ready(o, Head(pending).cells, picture, programme, MissedAtStart(Head(pending)))
         /\ o.codec = st.codec /\ o.video_pid = st.video_pid
<1>1. PICK s, f, h, n, q, M : /\ s = st /\ f = Flushed(s) /\ h = Head(pending) /\ n = picture
                              /\ q = programme /\ M = MissedAtStart(h)
  OBVIOUS
<1>2. ScannerTypes(s) /\ n \in Nat /\ q \in Programmes
  BY <1>1, Zenon DEF TimecodeInv, TimecodeTypes
<1>3. PacketOK(h, 1, n, q, Started) /\ h.cells \in Seq(Cells) /\ h.start
  BY <1>1, NextPacket, Zenon DEF TimecodeInv
<1>4. /\ f.video_pid = s.video_pid /\ f.codec = s.codec /\ f.au = <<>> /\ f.sps = Ctx(s)
      /\ ScannerTypes(f) /\ Len(f.au) < PrefixMax
  BY <1>1, <1>2, FlushFields, Zenon
<1>5. PICK b \in BOOLEAN : b = (header # "bad")
  OBVIOUS
<1>6. o = [f EXCEPT !.au_pts = pts, !.au_open = b]
  BY <1>1, <1>5, Zenon
<1>7. /\ o.au_pts = pts /\ o.au_open = b /\ o.au = <<>> /\ o.sps = f.sps /\ o.codec = s.codec
      /\ o.video_pid = s.video_pid /\ DOMAIN o = DOMAIN f
  BY <1>4, <1>6 DEF ScannerTypes
<1>8. pts \in {NoPts, n} /\ pts \in Nat \cup {NoPts}
  BY <1>1, <1>2
<1>9. Len(o.au) = 0
  BY <1>7
<1>10. ScannerTypes(o) /\ Len(o.au) < PrefixMax
  BY <1>4, <1>7, <1>8, <1>9 DEF ScannerTypes
<1>11. /\ h.cells # <<>> /\ OfPicture(h.cells, n, q) /\ Unbroken(h.cells)
       /\ \A j \in 1..Len(h.cells) : h.cells[j].kind = "sps" => j = 1 /\ o.au = <<>>
  <2>1. ~Started
    BY <1>1, <1>3, Zenon DEF Started
  <2> QED BY <1>3, <1>7, <2>1, Zenon DEF PacketOK
<1>12. Paired(o, n)
  BY <1>7, <1>8, <1>9 DEF Paired
<1>13. M = {} => Uniform(o, q)
  <2>1. M = {} => q.codec = s.codec
    BY <1>1 DEF MissedAtStart
  <2> QED BY <1>7, <1>9, <2>1 DEF Uniform
<1>14. SpsComes <=> h.cells[1].kind = "sps"
  BY <1>1, <1>3, Zenon DEF SpsComes, HasSps
<1>15. "sps" \notin M => IF SpsComes THEN b ELSE "sps" \notin missed
  BY <1>1, <1>5, Zenon DEF MissedAtStart, SpsComes
<1>16. PICK y : y = au_append(o.au, h.cells)
  OBVIOUS
<1>17. y # <<>> /\ y[1] = h.cells[1]
  <2>1. Extended(y, o.au, h.cells)
    BY <1>3, <1>10, <1>16, AppendCells, Zenon DEF ScannerTypes
  <2> QED BY <1>7, <1>11, <2>1, Zenon DEF Extended
<1>18. PICK t : t = Fed(o, h.cells)
  OBVIOUS
<1>19. t.codec = s.codec /\ t.sps = Ctx(s) /\ t.au = IF b THEN y ELSE <<>>
  <2>1. CASE b
    <3>1. t = [o EXCEPT !.au = y]
      BY <1>7, <1>16, <1>18, <2>1, Zenon DEF Fed
    <3> QED BY <1>4, <1>7, <1>10, <2>1, <3>1 DEF ScannerTypes
  <2>2. CASE ~b
    BY <1>4, <1>7, <1>18, <2>2, Zenon DEF Fed
  <2> QED BY <2>1, <2>2
<1>20. "sps" \notin M => LayoutOK(t, q)
  <2> SUFFICES ASSUME "sps" \notin M PROVE LayoutOK(t, q)
    OBVIOUS
  <2>1. CASE SpsComes
    <3>1. b /\ Leads(t) /\ t.au[1] = h.cells[1]
      BY <1>14, <1>15, <1>17, <1>19, <2>1, Zenon DEF Leads
    <3>2. h.cells[1].prog = q
      <4>1. 1 \in 1..Len(h.cells)
        BY <1>3, <1>11
      <4> QED BY <1>11, <4>1, Zenon DEF OfPicture
    <3> QED BY <3>1, <3>2, Zenon DEF LayoutOK, Ctx, parse_sps_h264
  <2>2. CASE ~SpsComes
    <3>1. LayoutOK(s, q)
      BY <1>1, <1>15, <2>2, Zenon DEF TimecodeInv, TunedInv
    <3>2. ~Leads(t)
      BY <1>14, <1>17, <1>19, <2>2, Zenon DEF Leads
    <3> QED BY <1>19, <3>1, <3>2, Zenon DEF LayoutOK, Ctx
  <2> QED BY <2>1, <2>2
<1>21. Ready(o, h.cells, n, q, M)
  BY <1>3, <1>10, <1>11, <1>12, <1>13, <1>18, <1>20, Zenon DEF Ready
<1> QED  BY <1>1, <1>7, <1>21, Zenon

LEMMA MiddleReady ==
  ASSUME TimecodeInv, Tuned, pending # <<>>, ~Head(pending).start
  PROVE  Ready(st, Head(pending).cells, picture, programme, missed)
<1>1. PICK h, s, n, q : h = Head(pending) /\ s = st /\ n = picture /\ q = programme
  OBVIOUS
<1>2. ScannerTypes(s) /\ Len(s.au) < PrefixMax
  BY <1>1, Zenon DEF TimecodeInv, TimecodeTypes
<1>3. /\ PacketOK(h, 1, n, q, Started) /\ h.cells \in Seq(Cells) /\ ~h.start
      /\ AllUnbroken => Unbroken(h.cells)
  BY <1>1, NextPacket, Zenon DEF TimecodeInv
<1>4. ~SpsComes /\ Started
  BY Zenon DEF SpsComes, HasSps, Started
<1>5. /\ s.au_open /\ "start" \notin missed => Paired(s, n)
      /\ s.au_open /\ missed = {} => Uniform(s, q) /\ Unbroken(h.cells)
      /\ "sps" \notin missed => LayoutOK(s, q)
  BY <1>1, <1>3, <1>4, Zenon DEF TimecodeInv, TunedInv
<1>6. OfPicture(h.cells, n, q) /\ \A j \in 1..Len(h.cells) : h.cells[j].kind # "sps"
  BY <1>3, Zenon DEF PacketOK
<1>7. PICK y, t : y = au_append(s.au, h.cells) /\ t = Fed(s, h.cells)
  OBVIOUS
<1>8. /\ y \in Seq(Cells)
      /\ s.au # <<>> => y # <<>> /\ y[1] = s.au[1]
      /\ s.au = <<>> /\ y # <<>> => y[1].kind # "sps"
  <2>1. /\ y \in Seq(Cells)
        /\ \A i \in 1..Len(y) : \/ (i \in 1..Len(s.au) /\ y[i] = s.au[i])
                                \/ \E j \in 1..Len(h.cells) : y[i] = h.cells[j] /\ i = j + Len(s.au)
        /\ s.au # <<>> => y # <<>> /\ y[1] = s.au[1]
    <3>1. Extended(y, s.au, h.cells)
      BY <1>2, <1>3, <1>7, AppendCells, Zenon DEF ScannerTypes
    <3> QED BY <3>1, Zenon DEF Extended
  <2>2. ASSUME s.au = <<>>, y # <<>> PROVE y[1].kind # "sps"
    <3>1. 1 \in 1..Len(y) /\ ~(1 \in 1..Len(s.au))
      BY <2>1, <2>2
    <3> QED BY <1>6, <2>1, <3>1, Zenon
  <2> QED BY <2>1, <2>2
<1>9. Ctx(t) = Ctx(s) /\ t.codec = s.codec
  <2>1. CASE ~s.au_open
    BY <1>7, <2>1, Zenon DEF Fed
  <2>2. CASE s.au_open
    <3>1. t = [s EXCEPT !.au = y]
      BY <1>7, <2>2, Zenon DEF Fed
    <3>2. t.au = y /\ t.sps = s.sps /\ t.codec = s.codec
      BY <1>2, <3>1 DEF ScannerTypes
    <3> QED BY <1>8, <3>2, Zenon DEF Ctx, Leads
  <2> QED BY <2>1, <2>2
<1>10. "sps" \notin missed => LayoutOK(t, q)
  BY <1>5, <1>9, Zenon DEF LayoutOK
<1>11. Ready(s, h.cells, n, q, missed)
  BY <1>2, <1>3, <1>5, <1>6, <1>7, <1>10, Zenon DEF Ready
<1> QED  BY <1>1, <1>11, Zenon

(* A packet the scanner takes: what it leads to. *)
LEMMA FeedIs ==
  ASSUME NEW start \in BOOLEAN, NEW pts, NEW cells, feed_video_packet(start, pts, cells),
         NEW M, missed' = M,
         NEW o, o = (IF start THEN [Flushed(st) EXCEPT !.au_pts = pts, !.au_open = (header # "bad")]
                              ELSE st),
         NEW first, first = IF start THEN Published(st, out, missed) ELSE out
  PROVE  /\ st' = After(o, cells)
         /\ out' = IF Full(o, cells) THEN Published(Fed(o, cells), first, M) ELSE first
<1>1. o = IF start THEN [Flushed(st) EXCEPT !.au_pts = AuPts(pts), !.au_open = (header # "bad")]
                   ELSE st
  BY Zenon DEF AuPts
<1>2. PICK d : d = Fed(o, cells)
  OBVIOUS
<1>3. d = IF o.au_open THEN [o EXCEPT !.au = au_append(o.au, cells)] ELSE o
  BY <1>2, Zenon DEF Fed
<1>4. /\ st' = IF d.au_open /\ Len(d.au) >= PrefixMax THEN Flushed(d) ELSE d
      /\ out' = IF d.au_open /\ Len(d.au) >= PrefixMax THEN Published(d, first, M) ELSE first
  BY <1>1, <1>3 DEF feed_video_packet
<1> QED  BY <1>2, <1>4, Zenon DEF After, Full

LEMMA TsPacketKeeps ==
  ASSUME TimecodeInv, TsPacket
  PROVE  TimecodeInv'
<1>1. /\ pending # <<>> /\ pending' = Tail(pending)
      /\ programme' = programme /\ picture' = picture /\ header' = header
  BY DEF TsPacket
<1>2. TimecodeTypes /\ PendingInv /\ BufferInv /\ OutOK(out)
  BY GenuineIsOutOK, Zenon DEF TimecodeInv
<1>3. PendingInv' /\ ~SpsComes' /\ Started' /\ (AllUnbroken => AllUnbroken')
  BY <1>1, <1>2, PendingTail
<1>4. CASE ~Tuned
  <2>1. st' = st /\ out' = out /\ missed' = missed
    BY <1>4, Zenon DEF TsPacket
  <2>2. ~Tuned'
    BY <1>1, <1>4, <2>1, Zenon DEF Tuned
  <2>3. TimecodeTypes' /\ BufferInv' /\ TimecodeGenuine'
    BY <1>1, <1>2, <2>1, Zenon DEF TimecodeTypes, BufferInv, TimecodeGenuine, OutOK
  <2> QED  BY <1>3, <2>2, <2>3, Zenon DEF TimecodeInv
<1>5. CASE Tuned
  <2>1. PICK n, q, s, p : n = picture /\ q = programme /\ s = st /\ p = Head(pending)
    OBVIOUS
  <2>2. PICK pts, M : /\ pts = IF header = "pts" THEN picture ELSE NoPts
                      /\ M = IF p.start THEN MissedAtStart(p) ELSE missed
    OBVIOUS
  <2>3. feed_video_packet(p.start, pts, p.cells) /\ missed' = M
    BY <1>5, <2>1, <2>2, Zenon DEF TsPacket
  <2>4. p.start \in BOOLEAN
    BY <1>1, <1>2, <2>1, NextPacket, Zenon
  <2>5. PICK o : o = IF p.start THEN [Flushed(st) EXCEPT !.au_pts = pts, !.au_open = (header # "bad")]
                                ELSE st
    OBVIOUS
  <2>6. PICK first : first = IF p.start THEN Published(st, out, missed) ELSE out
    OBVIOUS
  <2>7. /\ st' = After(o, p.cells)
        /\ out' = IF Full(o, p.cells) THEN Published(Fed(o, p.cells), first, M) ELSE first
    <3>1. PICK b, c : b = p.start /\ c = p.cells
      OBVIOUS
    <3>2. /\ b \in BOOLEAN /\ feed_video_packet(b, pts, c) /\ missed' = M
          /\ o = IF b THEN [Flushed(st) EXCEPT !.au_pts = pts, !.au_open = (header # "bad")] ELSE st
          /\ first = IF b THEN Published(st, out, missed) ELSE out
      BY <2>3, <2>4, <2>5, <2>6, <3>1, Zenon
    <3>3. /\ st' = After(o, c)
          /\ out' = IF Full(o, c) THEN Published(Fed(o, c), first, M) ELSE first
      BY <3>2, FeedIs, ZenonT(60)
    <3> QED BY <3>1, <3>3, Zenon
  <2>8. Ready(o, p.cells, n, q, M) /\ o.codec = s.codec /\ o.video_pid = s.video_pid
    <3>1. CASE p.start
      <4>1. /\ o = [Flushed(st) EXCEPT !.au_pts = pts, !.au_open = (header # "bad")]
            /\ M = MissedAtStart(p)
        BY <2>2, <2>5, <3>1, Zenon
      <4>2. /\ Ready(o, Head(pending).cells, picture, programme, MissedAtStart(Head(pending)))
            /\ o.codec = st.codec /\ o.video_pid = st.video_pid
        <5>1. Head(pending).start
          BY <2>1, <3>1, Zenon
        <5> QED BY <1>1, <1>5, <2>2, <4>1, <5>1, StartReady, ZenonT(60)
      <4> QED  BY <2>1, <4>1, <4>2, Zenon
    <3>2. CASE ~p.start
      <4>1. o = st /\ M = missed
        BY <2>2, <2>5, <3>2, Zenon
      <4>2. Ready(st, Head(pending).cells, picture, programme, missed)
        BY <1>1, <1>5, <2>1, <3>2, MiddleReady
      <4> QED  BY <2>1, <4>1, <4>2, Zenon
    <3> QED  BY <3>1, <3>2
  <2>9. n \in Nat /\ q \in Programmes /\ ScannerTypes(s)
    BY <1>2, <2>1, Zenon DEF TimecodeTypes
  <2>10. OutOK(first)
    <3>1. PICK old, L : old = out /\ L = missed
      OBVIOUS
    <3>2. /\ OutOK(old)
          /\ s.au # <<>> /\ "start" \notin L => \E m \in Nat : Paired(s, m)
          /\ s.au # <<>> /\ L = {} => \E r \in Programmes : Readable(s, r)
      BY <1>2, <2>1, <3>1, Zenon DEF BufferInv
    <3>3. OutOK(Published(s, old, L))
      BY <2>9, <3>2, PublishOK
    <3> QED  BY <2>1, <2>6, <3>1, <3>2, <3>3, Zenon
  <2>11. PICK t : t = After(o, p.cells)
    OBVIOUS
  <2>12. /\ Learned(t, n, q, M) /\ t.codec = o.codec /\ t.video_pid = o.video_pid
         /\ Len(t.au) < PrefixMax /\ (t.au_open => o.au_open)
         /\ Full(o, p.cells) => OutOK(Published(Fed(o, p.cells), first, M))
    BY <2>8, <2>9, <2>10, <2>11, FeedKeeps
  <2>13. st' = t /\ picture' = n /\ programme' = q /\ missed' = M
    BY <1>1, <2>1, <2>3, <2>7, <2>11, Zenon
  <2>14. TimecodeGenuine'
    <3>1. OutOK(out')
      BY <2>7, <2>10, <2>12, Zenon
    <3> QED  BY <3>1, Zenon DEF TimecodeGenuine, OutOK
  <2>15. TimecodeTypes'
    BY <1>1, <1>2, <2>12, <2>13, Zenon DEF TimecodeTypes, Learned
  <2>16. M = {} => "sps" \notin M
    OBVIOUS
  <2>17. t.au # <<>> => t.au_open
    BY <2>12, Zenon DEF Learned, ScannerTypes
  <2>18. BufferInv'
    <3>1. t.au # <<>> /\ "start" \notin M => Paired(t, n)
      BY <2>12, <2>17, Zenon DEF Learned
    <3>2. t.au # <<>> /\ M = {} => Readable(t, q)
      BY <2>12, <2>16, <2>17, Zenon DEF Learned, Readable
    <3> QED BY <2>9, <2>13, <3>1, <3>2, Zenon DEF BufferInv
  <2>19. t.au_open /\ M = {} => AllUnbroken'
    <3>1. CASE p.start
      <4>1. ~Started
        BY <2>1, <1>1, <3>1, Zenon DEF Started
      <4>2. AllUnbroken
        BY <1>2, <4>1, Zenon DEF PendingInv, PacketOK, AllUnbroken
      <4> QED BY <1>3, <4>2
    <3>2. CASE ~p.start
      <4>1. Started /\ o = st /\ M = missed
        BY <2>1, <2>2, <2>5, <3>2, Zenon DEF Started
      <4>2. t.au_open /\ M = {} => AllUnbroken
        BY <1>5, <2>12, <4>1, Zenon DEF TimecodeInv, TunedInv
      <4> QED BY <1>3, <4>2
    <3> QED BY <3>1, <3>2
  <2>20. TunedInv'
    <3>1. /\ t.au_open /\ "start" \notin M => Paired(t, n)
          /\ t.au_open /\ M = {} => Uniform(t, q)
          /\ "sps" \notin M => LayoutOK(t, q)
      BY <2>12, Zenon DEF Learned
    <3> QED BY <2>13, <2>19, <3>1, Zenon DEF TunedInv
  <2> QED  BY <1>3, <2>14, <2>15, <2>18, <2>20, Zenon DEF TimecodeInv
<1> QED  BY <1>4, <1>5

(* What is left behind a lost packet is of the same picture and no start. *)
LEMMA StrayTail ==
  ASSUME PendingInv, pending # <<>>, PacketLost
  PROVE  PendingInv' /\ ~SpsComes' /\ Started'
<1>1. PICK s, n, q : s = pending /\ n = picture /\ q = programme
  OBVIOUS
<1>2. s \in Seq(TsPackets) /\ s # <<>>
  BY <1>1 DEF PendingInv
<1>3. PICK t, u : t = Tail(s) /\ u = [i \in 1..Len(t) |-> IF i = 1 THEN Strayed(t[i]) ELSE t[i]]
  OBVIOUS
<1>4. /\ t \in Seq(TsPackets) /\ Len(t) = Len(s) - 1
      /\ \A i \in 1..Len(t) : i + 1 \in 1..Len(s) /\ i + 1 # 1 /\ t[i] = s[i + 1]
  BY <1>2, <1>3
<1>5. \A i \in 1..Len(t) : ~t[i].start /\ t[i] \in TsPackets /\ PacketOK(t[i], i, n, q, TRUE)
  <2> SUFFICES ASSUME NEW i \in 1..Len(t)
               PROVE  ~t[i].start /\ t[i] \in TsPackets /\ PacketOK(t[i], i, n, q, TRUE)
    OBVIOUS
  <2>1. PICK k : k = i + 1
    OBVIOUS
  <2>2. k \in 1..Len(s) /\ t[i] = s[k] /\ k # 1
    BY <1>4, <2>1, Zenon
  <2>3. PacketOK(s[k], k, n, q, Started)
    BY <1>1, <2>2, Zenon DEF PendingInv
  <2>4. t[i] \in TsPackets
    BY <1>4
  <2> QED  BY <2>2, <2>3, <2>4, Zenon DEF PacketOK
<1>6. ASSUME NEW i, NEW p \in TsPackets, ~p.start, PacketOK(p, i, n, q, TRUE)
      PROVE  /\ Strayed(p) \in TsPackets /\ ~Strayed(p).start
             /\ PacketOK(Strayed(p), i, n, q, TRUE)
  <2> DEFINE stray(j) == IF j = 1 /\ p.cells[j].kind = "rest"
                           THEN [p.cells[j] EXCEPT !.kind = "stray"] ELSE p.cells[j]
  <2>1. p.cells \in Seq(Cells) /\ p.start = FALSE
    BY <1>6 DEF TsPackets
  <2>2. ASSUME NEW j \in 1..Len(p.cells)
        PROVE  /\ stray(j) \in Cells
               /\ stray(j).picture = n /\ stray(j).prog = q /\ stray(j).kind # "sps"
    <3>1. PICK c : c = p.cells[j]
      OBVIOUS
    <3>2. c \in Cells /\ c.picture = n /\ c.prog = q /\ c.kind # "sps"
      BY <1>6, <2>1, <2>2, <3>1 DEF PacketOK, OfPicture
    <3>3. stray(j) = c \/ stray(j) = [c EXCEPT !.kind = "stray"]
      BY <3>1
    <3> HIDE DEF stray
    <3> QED BY <3>2, <3>3 DEF Cells, Kinds
  <2>3. PICK x : x = [j \in 1..Len(p.cells) |-> stray(j)]
    OBVIOUS
  <2>4. Strayed(p) = [start |-> p.start, cells |-> x]
    BY <2>3, Zenon DEF Strayed
  <2> HIDE DEF stray
  <2>5. x \in Seq(Cells) /\ Len(x) = Len(p.cells) /\ \A j \in 1..Len(p.cells) : x[j] = stray(j)
    BY <2>1, <2>2, <2>3
  <2>6. PICK w : w = Strayed(p)
    OBVIOUS
  <2>7. w \in TsPackets /\ w.start = FALSE /\ w.cells = x
    BY <2>1, <2>4, <2>5, <2>6 DEF TsPackets
  <2>8. OfPicture(x, n, q) /\ \A j \in 1..Len(x) : x[j].kind # "sps"
    BY <2>2, <2>5, Zenon DEF OfPicture
  <2>9. PacketOK(w, i, n, q, TRUE)
    BY <2>7, <2>8, Zenon DEF PacketOK
  <2> QED BY <2>6, <2>7, <2>9, Zenon
<1>7. PICK v : v = pending'
  OBVIOUS
<1>8. v = u /\ picture' = n /\ programme' = q
  BY <1>1, <1>3, <1>7, Zenon DEF PacketLost
<1>9. /\ \A i \in 1..Len(t) : u[i] = IF i = 1 THEN Strayed(t[i]) ELSE t[i]
      /\ DOMAIN u = 1..Len(t) /\ u = [i \in 1..Len(t) |-> u[i]]
  BY <1>3, Zenon
<1>10. \A i \in 1..Len(t) : u[i] \in TsPackets /\ ~u[i].start /\ PacketOK(u[i], i, n, q, TRUE)
  BY <1>5, <1>6, <1>9, Zenon
<1>11. u \in Seq(TsPackets) /\ Len(u) = Len(t)
  <2>1. PICK m \in Nat : m = Len(t)
    BY <1>4
  <2>2. u \in [1..m -> TsPackets]
    BY <1>9, <1>10, <2>1
  <2> QED BY <2>1, <2>2
<1>12. u # <<>> => Head(u) = u[1] /\ 1 \in 1..Len(t)
  BY <1>11
<1>13. ~SpsComes' /\ Started'
  BY <1>7, <1>8, <1>10, <1>12, Zenon DEF SpsComes, Started, HasSps
<1>14. PendingInv'
  BY <1>7, <1>8, <1>10, <1>11, <1>13, Zenon DEF PendingInv, PacketOK
<1> QED  BY <1>13, <1>14

LEMMA PacketLostKeeps ==
  ASSUME TimecodeInv, PacketLost
  PROVE  TimecodeInv'
<1>1. PICK p : p = Head(pending)
  OBVIOUS
<1>2. /\ pending # <<>> /\ programme' = programme /\ picture' = picture /\ header' = header
      /\ st' = st /\ out' = out
  BY DEF PacketLost
<1>3. missed' = IF ~Tuned THEN missed
                ELSE missed \cup {IF p.start THEN "start" ELSE "part"}
                            \cup {x \in {"sps"} : HasSps(p)}
  BY <1>1, Zenon DEF PacketLost
<1>4. TimecodeTypes /\ PendingInv /\ BufferInv /\ TimecodeGenuine
  BY Zenon DEF TimecodeInv
<1>5. PendingInv' /\ ~SpsComes' /\ Started'
  BY <1>2, <1>4, StrayTail
<1>6. TimecodeTypes' /\ TimecodeGenuine' /\ (Tuned' <=> Tuned)
  BY <1>2, <1>4, Zenon DEF TimecodeTypes, TimecodeGenuine, Tuned
<1>7. /\ "start" \notin missed' => "start" \notin missed
      /\ missed' = {} => missed = {} /\ ~Tuned
      /\ Tuned /\ "start" \notin missed' => ~p.start
      /\ Tuned /\ "sps" \notin missed' => "sps" \notin missed /\ ~HasSps(p)
  BY <1>3
<1>8. BufferInv'
  BY <1>2, <1>4, <1>7, Zenon DEF BufferInv
<1>9. Tuned => TunedInv'
  <2> SUFFICES ASSUME Tuned PROVE TunedInv'
    OBVIOUS
  <2>1. TunedInv
    BY Zenon DEF TimecodeInv
  <2>2. st.au_open /\ "start" \notin missed' => Paired(st, picture)
    BY <1>1, <1>7, <2>1, Zenon DEF TunedInv, Started
  <2>3. "sps" \notin missed' => LayoutOK(st, programme)
    BY <1>1, <1>7, <2>1, Zenon DEF TunedInv, SpsComes
  <2> QED BY <1>2, <1>7, <2>2, <2>3, Zenon DEF TunedInv
<1> QED  BY <1>5, <1>6, <1>8, <1>9, Zenon DEF TimecodeInv

(* A new picture: the programme changes only where a parameter set leads. *)
LEMMA BeginKeeps ==
  ASSUME TimecodeInv, NEW next \in Programmes, NEW packets \in Pictures,
         NEW pes \in {"pts", "none", "bad"}, Begin(next, packets, pes)
  PROVE  TimecodeInv'
<1>1. /\ pending = <<>> /\ programme' = next /\ picture' = picture + 1 /\ header' = pes
      /\ (packets[1][1] # "sps" => next = programme)
      /\ st' = st /\ out' = out /\ missed' = missed
  BY DEF Begin
<1>2. TimecodeTypes /\ BufferInv /\ TimecodeGenuine /\ ~SpsComes
  BY <1>1, Zenon DEF TimecodeInv, SpsComes
<1>3. /\ packets \in Seq(Seq(Kinds)) /\ Len(packets) >= 1 /\ Len(packets[1]) >= 1
      /\ \A i \in 1..Len(packets) : \A j \in 1..Len(packets[i]) :
           packets[i][j] # "stray" /\ (packets[i][j] = "sps" => i = 1 /\ j = 1)
  <2>1. packets \in Seq(Seq({"sps", "sei", "rest", "idr", "slice"}))
    BY TimecodeAssumption, Zenon
  <2>2. packets \in Seq(Seq(Kinds))
    BY <2>1 DEF Kinds
  <2>3. \A i \in 1..Len(packets) : \A j \in 1..Len(packets[i]) : packets[i][j] # "stray"
    BY <2>1
  <2> QED BY <2>2, <2>3, TimecodeAssumption
<1>4. PICK n \in Nat : n = picture'
  BY <1>1, <1>2 DEF TimecodeTypes
<1> DEFINE Cell(i, j) == [kind |-> packets[i][j], picture |-> n, prog |-> next]
           Sent(i) == [start |-> i = 1, cells |-> [j \in 1..Len(packets[i]) |-> Cell(i, j)]]
<1>5. pending' = [i \in 1..Len(packets) |-> Sent(i)]
  BY <1>1, <1>4, Zenon DEF Begin
<1>6. \A i \in 1..Len(packets) : \A j \in 1..Len(packets[i]) : Cell(i, j) \in Cells
  BY <1>3 DEF Cells
<1>7. \A i \in 1..Len(packets) : \A j \in 1..Len(packets[i]) :
        Cell(i, j).picture = n /\ Cell(i, j).prog = next /\ Cell(i, j).kind = packets[i][j]
  OBVIOUS
<1> HIDE DEF Cell
<1>8. \A i \in 1..Len(packets) :
        /\ Sent(i).cells \in Seq(Cells) /\ Len(Sent(i).cells) = Len(packets[i])
        /\ \A j \in 1..Len(packets[i]) : Sent(i).cells[j] = Cell(i, j)
  BY <1>3, <1>6
<1>9. \A i \in 1..Len(packets) : Sent(i) \in TsPackets /\ Sent(i).start = (i = 1)
  BY <1>8 DEF TsPackets
<1> HIDE DEF Sent
<1>10. PICK p : p = pending'
  OBVIOUS
<1>11. /\ p \in Seq(TsPackets) /\ Len(p) = Len(packets) /\ p # <<>> /\ Head(p) = Sent(1)
       /\ \A i \in 1..Len(p) : p[i] = Sent(i)
  BY <1>3, <1>5, <1>9, <1>10
<1>12. Sent(1).start /\ Sent(1).cells # <<>> /\ Sent(1).cells[1].kind = packets[1][1]
  <2>1. 1 \in 1..Len(packets) /\ 1 \in 1..Len(packets[1]) /\ Len(packets[1]) # 0
    BY <1>3
  <2>2. Sent(1).start = (1 = 1) /\ Len(Sent(1).cells) = Len(packets[1])
    BY <1>8, <1>9, <2>1, Zenon
  <2>3. Sent(1).cells[1] = Cell(1, 1) /\ Cell(1, 1).kind = packets[1][1]
    BY <1>7, <1>8, <2>1, Zenon
  <2>4. Sent(1).cells # <<>>
    BY <2>1, <2>2
  <2> QED  BY <2>2, <2>3, <2>4, Zenon
<1>13. SpsComes' <=> packets[1][1] = "sps"
  BY <1>10, <1>11, <1>12, Zenon DEF SpsComes, HasSps
<1>14. ~Started'
  BY <1>10, <1>11, <1>12, Zenon DEF Started
<1>15. \A i \in 1..Len(p) : PacketOK(p[i], i, n, next, FALSE)
  <2> SUFFICES ASSUME NEW i \in 1..Len(p)
               PROVE  PacketOK(p[i], i, n, next, FALSE)
    OBVIOUS
  <2>1. i \in 1..Len(packets) /\ p[i] = Sent(i)
    BY <1>11
  <2>2. p[i].start = (i = 1) /\ Len(p[i].cells) = Len(packets[i])
    BY <1>8, <1>9, <2>1, Zenon
  <2>3. ASSUME NEW j \in 1..Len(p[i].cells)
        PROVE  /\ p[i].cells[j].picture = n /\ p[i].cells[j].prog = next
               /\ p[i].cells[j].kind # "stray" /\ (p[i].cells[j].kind = "sps" => i = 1 /\ j = 1)
    <3>1. j \in 1..Len(packets[i])
      BY <2>2, <2>3, Zenon
    <3>2. p[i].cells[j] = Cell(i, j)
      BY <1>8, <2>1, <3>1, Zenon
    <3>3. Cell(i, j).picture = n /\ Cell(i, j).prog = next /\ Cell(i, j).kind = packets[i][j]
      BY <1>7, <2>1, <3>1, Zenon
    <3> QED BY <1>3, <2>1, <3>1, <3>2, <3>3, Zenon
  <2>4. p[i].start => i = 1 /\ p[i].cells # <<>>
    BY <1>12, <2>1, <2>2, Zenon
  <2> QED  BY <2>2, <2>3, <2>4, Zenon DEF PacketOK, OfPicture, Unbroken
<1>16. PendingInv'
  BY <1>1, <1>4, <1>10, <1>11, <1>15, Zenon DEF PendingInv, PacketOK
<1>17. TimecodeTypes' /\ TimecodeGenuine' /\ BufferInv'
  BY <1>1, <1>2, <1>4, Zenon DEF TimecodeTypes, TimecodeGenuine, BufferInv
<1>18. ~SpsComes' => programme' = programme
  BY <1>1, <1>13, Zenon
<1>19. Tuned' /\ ~SpsComes' /\ "sps" \notin missed' => LayoutOK(st', programme')
  BY <1>1, <1>2, <1>18, Zenon DEF TimecodeInv, TunedInv, Tuned
<1> QED  BY <1>14, <1>16, <1>17, <1>19, Zenon DEF TimecodeInv, TunedInv

-----------------------------------------------------------------------------
(* The tables. *)
LEMMA TableKeeps ==
  ASSUME TimecodeInv, UNCHANGED <<programme, picture, pending, header, missed, out>>,
         NEW s, st' = s, ScannerTypes(s), Len(s.au) < PrefixMax, s.au = <<>>, ~s.au_open,
         s.sps = NoLayout
  PROVE  TimecodeInv'
<1>1. TimecodeTypes /\ PendingInv /\ TimecodeGenuine
  BY Zenon DEF TimecodeInv
<1>2. TimecodeTypes' /\ PendingInv' /\ TimecodeGenuine'
  BY <1>1, Zenon DEF TimecodeTypes, PendingInv, TimecodeGenuine, Started
<1>3. Ctx(s) = NoLayout
  BY CtxOfEmpty
<1>4. LayoutOK(st', programme')
  BY <1>3, Zenon DEF LayoutOK
<1> QED  BY <1>2, <1>4, Zenon DEF TimecodeInv, BufferInv, TunedInv

LEMMA SameTableKeeps ==
  ASSUME TimecodeInv, UNCHANGED <<programme, picture, pending, header, missed, out>>, st' = st
  PROVE  TimecodeInv'
  BY ZenonT(40) DEF TimecodeInv, TimecodeTypes, PendingInv, TimecodeGenuine, SpsComes, Started, Tuned,
               BufferInv, TunedInv, AllUnbroken

LEMMA PatKeeps ==
  ASSUME TimecodeInv, Pat
  PROVE  TimecodeInv'
<1>1. UNCHANGED <<programme, picture, pending, header, missed, out>> /\ st' = parse_pat(programme.pmt)
  BY DEF Pat
<1>2. CASE programme.pmt = st.pmt_pid
  BY <1>1, <1>2, SameTableKeeps DEF parse_pat
<1>3. CASE programme.pmt # st.pmt_pid
  <2>1. PICK x, y : x = programme.pmt /\ y = st.au_pts
    OBVIOUS
  <2>2. PICK s : s = [NothingKnown EXCEPT !.pmt_pid = x, !.au_pts = y]
    OBVIOUS
  <2>3. st' = s
    BY <1>1, <1>3, <2>1, <2>2, Zenon DEF parse_pat
  <2>4. y \in Nat \cup {NoPts}
    BY <2>1, Zenon DEF TimecodeInv, TimecodeTypes, ScannerTypes
  <2>5. /\ s.codec = "none" /\ s.au = <<>> /\ s.au_open = FALSE /\ s.sps = NoLayout /\ s.au_pts = y
        /\ DOMAIN s = {"pmt_pid", "video_pid", "codec", "sps", "au", "au_open", "au_pts"}
    BY <2>2 DEF NothingKnown
  <2>6. <<>> \in Seq(Cells) /\ Len(<<>>) < PrefixMax /\ Len(<<>>) <= PrefixMax
    BY TimecodeAssumption
  <2>7. ScannerTypes(s) /\ Len(s.au) < PrefixMax
    <3>1. \A i \in 1..Len(s.au) : FALSE
      BY <2>5
    <3> QED BY <2>4, <2>5, <2>6, <3>1 DEF ScannerTypes
  <2> QED  BY <1>1, <2>3, <2>5, <2>7, TableKeeps
<1> QED  BY <1>2, <1>3

LEMMA PmtKeeps ==
  ASSUME TimecodeInv, Pmt
  PROVE  TimecodeInv'
<1>1. /\ UNCHANGED <<programme, picture, pending, header, missed, out>>
      /\ st' = parse_pmt(programme.video, programme.codec)
  BY DEF Pmt
<1>2. CASE programme.video = st.video_pid /\ programme.codec = st.codec
  BY <1>1, <1>2, SameTableKeeps DEF parse_pmt
<1>3. CASE ~(programme.video = st.video_pid /\ programme.codec = st.codec)
  <2>1. PICK x, c, y : x = programme.video /\ c = programme.codec /\ y = st
    OBVIOUS
  <2>2. PICK s : s = [y EXCEPT !.video_pid = x, !.codec = c, !.sps = NoLayout,
                               !.au_open = FALSE, !.au = <<>>]
    OBVIOUS
  <2>3. st' = s
    BY <1>1, <1>3, <2>1, <2>2, Zenon DEF parse_pmt, Relearned
  <2>4. ScannerTypes(y)
    BY <2>1, Zenon DEF TimecodeInv, TimecodeTypes
  <2>5. c \in {"h264", "hevc"}
    BY <2>1, TimecodeAssumption DEF TimecodeInv, TimecodeTypes
  <2>6. /\ s.codec = c /\ s.au = <<>> /\ s.au_open = FALSE /\ s.sps = NoLayout /\ s.au_pts = y.au_pts
        /\ DOMAIN s = DOMAIN y
    BY <2>2, <2>4 DEF ScannerTypes
  <2>7. <<>> \in Seq(Cells) /\ Len(<<>>) < PrefixMax /\ Len(<<>>) <= PrefixMax
    BY TimecodeAssumption
  <2>8. ScannerTypes(s) /\ Len(s.au) < PrefixMax
    <3>1. \A i \in 1..Len(s.au) : FALSE
      BY <2>6
    <3> QED BY <2>4, <2>5, <2>6, <2>7, <3>1 DEF ScannerTypes
  <2> QED  BY <1>1, <2>3, <2>6, <2>8, TableKeeps
<1> QED  BY <1>2, <1>3

LEMMA TimecodeInitInv ==
  ASSUME TimecodeInit
  PROVE  TimecodeInv
<1>1. /\ programme \in Programmes /\ picture = 0 /\ pending = <<>> /\ header = "none"
      /\ st = NothingKnown /\ out = [picture |-> NoPts, pts |-> NoPts, missed |-> {}]
  BY DEF TimecodeInit
<1>2. /\ st.codec = "none" /\ st.au = <<>> /\ st.au_open = FALSE /\ st.au_pts = NoPts
      /\ DOMAIN st = {"pmt_pid", "video_pid", "codec", "sps", "au", "au_open", "au_pts"}
  BY <1>1 DEF NothingKnown
<1>3. <<>> \in Seq(Cells) /\ Len(<<>>) < PrefixMax /\ Len(<<>>) <= PrefixMax
  BY TimecodeAssumption
<1>4. TimecodeTypes
  <2>1. \A i \in 1..Len(st.au) : FALSE
    BY <1>2
  <2> QED BY <1>1, <1>2, <1>3, <2>1 DEF TimecodeTypes, ScannerTypes
<1>5. PendingInv
  <2>1. pending \in Seq(TsPackets) /\ Len(pending) = 0
    BY <1>1
  <2> QED  BY <2>1 DEF PendingInv
<1>6. TimecodeGenuine
  BY <1>1 DEF TimecodeGenuine, Garbage, NoPts
<1> QED  BY <1>2, <1>4, <1>5, <1>6, Zenon DEF TimecodeInv, Tuned, BufferInv

(* What the scanner publishes as the timecode of a picture was coded for   *)
(* that picture, beside that picture's PTS or none, but for what never     *)
(* reached the scanner, for any programmes and picture layouts and any     *)
(* size of the buffered prefix: feed_video_packet() flushes before it      *)
(* opens, parse_pat() and parse_pmt() forget what was learned under        *)
(* another table, and only a lost PES header pairs a timecode with the PTS *)
(* of another picture.                                                     *)
THEOREM TimecodesAreGenuine == TimecodeSpec => []TimecodeGenuine
<1>1. TimecodeInit => TimecodeInv
  BY TimecodeInitInv
<1>2. TimecodeInv /\ [TimecodeNext]_timecodeVars => TimecodeInv'
  <2> SUFFICES ASSUME TimecodeInv, [TimecodeNext]_timecodeVars
               PROVE  TimecodeInv'
    OBVIOUS
  <2>1. CASE UNCHANGED timecodeVars
    BY <2>1, SameTableKeeps DEF timecodeVars
  <2>2. ASSUME NEW next \in Programmes, NEW packets \in Pictures,
               NEW pes \in {"pts", "none", "bad"}, Begin(next, packets, pes)
        PROVE  TimecodeInv'
    BY <2>2, BeginKeeps
  <2>3. CASE TsPacket
    BY <2>3, TsPacketKeeps
  <2>4. CASE PacketLost
    BY <2>4, PacketLostKeeps
  <2>5. CASE Pat
    BY <2>5, PatKeeps
  <2>6. CASE Pmt
    BY <2>6, PmtKeeps
  <2> QED  BY <2>1, <2>2, <2>3, <2>4, <2>5, <2>6, Zenon DEF TimecodeNext
<1>3. TimecodeInv => TimecodeGenuine
  BY Zenon DEF TimecodeInv
<1> QED  BY <1>1, <1>2, <1>3, PTL DEF TimecodeSpec

-----------------------------------------------------------------------------
(* The bitrate limiter.                                                    *)

(* What is read is counted at times up to now, in bytes. *)
Counted(points) ==
  /\ DOMAIN points \subseteq 0..now
  /\ points = [t \in DOMAIN points |-> points[t]]
  /\ \A t \in DOMAIN points : points[t] \in Nat

(* Within the window the two queues hold the same: the one that is cleaned *)
(* only now and then differs in what has aged out.                         *)
AgreeRecently(points, others) ==
  \A t \in 0..now : t >= now - Window =>
    /\ t \in DOMAIN points <=> t \in DOMAIN others
    /\ t \in DOMAIN points => points[t] = others[t]

(* The timer has not started before the last read whose cleaned window was *)
(* within the limit, and not after the window was found full.              *)
LimitInv ==
  /\ now \in Nat /\ calmAt \in Nat /\ calmAt <= now
  /\ Counted(window) /\ Counted(arrived) /\ AgreeRecently(window, arrived)
  /\ violation # Never => violation \in calmAt..now
  /\ overSince # Never => overSince \in Nat /\ overSince <= now
  /\ SpikeLimit > 0 /\ overSince # Never => violation # Never /\ violation <= overSince

(* An average over less time, of at least as much, is at least as high. *)
LEMMA QuotientMonotone ==
  ASSUME NEW a \in Nat, NEW b \in Nat, a <= b,
         NEW d \in Nat \ {0}, NEW e \in Nat \ {0}, d <= e, NEW k \in Nat,
         a \div e > k
  PROVE  b \div d > k
<1>1. PICK q \in Nat : q = a \div e
  OBVIOUS
<1>2. PICK r \in Nat : r = b \div d
  OBVIOUS
<1>3. q * e <= a
  BY <1>1
<1>4. b < (r + 1) * d
  BY <1>2
<1>5. SUFFICES ASSUME r <= k
               PROVE  FALSE
  BY <1>2
<1>6. (r + 1) * d <= q * e
  <2>1. r + 1 <= q
    BY <1>1, <1>5
  <2>2. (r + 1) * d <= q * d
    BY <2>1
  <2>3. q * d <= q * e
    OBVIOUS
  <2>4. (r + 1) * d \in Nat /\ q * d \in Nat /\ q * e \in Nat
    OBVIOUS
  <2> QED BY <2>2, <2>3, <2>4
<1>7. (r + 1) * d \in Nat /\ q * e \in Nat
  OBVIOUS
<1> QED BY <1>3, <1>4, <1>6, <1>7

(* What a queue holds is a number of bytes. *)
LEMMA CountedBytes ==
  ASSUME now \in Nat, NEW points, Counted(points)
  PROVE  IsFiniteSet(DOMAIN points) /\ Bytes(points) \in Nat
<1>1. IsFiniteSet(DOMAIN points)
  BY FS_Interval, FS_Subset DEF Counted
<1>2. \A t \in DOMAIN points : points[t] \in Nat
  BY DEF Counted
<1>3. Bytes(points) \in Int
  BY <1>1, <1>2, SumType DEF Bytes, SumFunction
<1>4. SumFunctionOnSet(points, {}) = 0
  BY FS_EmptySet, SumZero
<1>5. SumFunctionOnSet(points, {}) <= SumFunctionOnSet(points, DOMAIN points)
  BY <1>1, <1>2, SumMonotone
<1> QED BY <1>1, <1>3, <1>4, <1>5 DEF Bytes, SumFunction

(* A queue that holds another one holds at least its bytes. *)
LEMMA CountedMore ==
  ASSUME now \in Nat, NEW points, Counted(points), NEW part, Counted(part),
         DOMAIN part \subseteq DOMAIN points,
         \A t \in DOMAIN part : part[t] = points[t]
  PROVE  Bytes(part) <= Bytes(points)
<1>1. IsFiniteSet(DOMAIN points) /\ IsFiniteSet(DOMAIN part)
  BY CountedBytes
<1>2. SumFunctionOnSet(part, DOMAIN part) = SumFunctionOnSet(points, DOMAIN part)
  BY <1>1, SumSame
<1>3. SumFunctionOnSet(points, DOMAIN part) <= SumFunctionOnSet(points, DOMAIN points)
  <2>1. \A t \in DOMAIN points : points[t] \in Nat
    BY DEF Counted
  <2> QED BY <1>1, <2>1, SumMonotone
<1> QED BY <1>2, <1>3, Zenon DEF Bytes, SumFunction

(* The average is taken over a second at least and over the window at most. *)
LEMMA EffectiveWithin ==
  ASSUME now \in Nat, NEW points, Counted(points), DOMAIN points # {}
  PROVE  Effective(points) \in Nat \ {0} /\ Effective(points) <= Window
<1>1. PICK m \in DOMAIN points : \A t \in DOMAIN points : m <= t
  BY NatMin DEF Counted
<1>2. Min(DOMAIN points) \in DOMAIN points
  BY <1>1, Zenon DEF Min
<1>3. PICK age : age = now - Min(DOMAIN points)
  OBVIOUS
<1>4. age \in Nat
  BY <1>2, <1>3 DEF Counted
<1>5. Effective(points) = IF age >= Window THEN Window ELSE IF age > OneSecond THEN age ELSE OneSecond
  BY <1>3, Zenon DEF Effective
<1> QED BY <1>4, <1>5, BitrateAssumption

(* What a read adds, and what cleaning leaves. *)
LEMMA PushCounted ==
  ASSUME now \in Nat, NEW points, Counted(points), NEW bytes \in Nat
  PROVE  /\ Counted(Push(points, bytes))
         /\ DOMAIN Push(points, bytes) = DOMAIN points \cup {now}
         /\ Push(points, bytes)[now] = bytes
         /\ \A t \in DOMAIN points \ {now} : Push(points, bytes)[t] = points[t]
BY DEF Counted, Push

LEMMA RecentCounted ==
  ASSUME now \in Nat, NEW points, Counted(points)
  PROVE  /\ Counted(Recent(points))
         /\ DOMAIN Recent(points) = {t \in DOMAIN points : t >= now - Window}
         /\ \A t \in DOMAIN Recent(points) : Recent(points)[t] = points[t]
BY DEF Counted, Recent, Restrict

(* Queues that agree within the window agree after the same read, and are  *)
(* the same once cleaned.                                                  *)
LEMMA PushAgrees ==
  ASSUME now \in Nat, NEW points, Counted(points), NEW others, Counted(others),
         AgreeRecently(points, others), NEW bytes \in Nat
  PROVE  AgreeRecently(Push(points, bytes), Push(others, bytes))
<1>1. PICK p, o : p = Push(points, bytes) /\ o = Push(others, bytes)
  OBVIOUS
<1>2. /\ DOMAIN p = DOMAIN points \cup {now} /\ DOMAIN o = DOMAIN others \cup {now}
      /\ p[now] = bytes /\ o[now] = bytes
      /\ \A t \in DOMAIN points \ {now} : p[t] = points[t]
      /\ \A t \in DOMAIN others \ {now} : o[t] = others[t]
  BY <1>1, PushCounted
<1>3. AgreeRecently(p, o)
  BY <1>2 DEF AgreeRecently
<1> QED BY <1>1, <1>3

LEMMA RecentAgrees ==
  ASSUME now \in Nat, NEW points, Counted(points), NEW others, Counted(others),
         AgreeRecently(points, others)
  PROVE  /\ Recent(points) = Recent(others)
         /\ AgreeRecently(points, Recent(others))
         /\ AgreeRecently(Recent(points), Recent(others))
         /\ DOMAIN Recent(others) \subseteq DOMAIN points
         /\ \A t \in DOMAIN Recent(others) : Recent(others)[t] = points[t]
<1>1. /\ DOMAIN Recent(points) = {t \in DOMAIN points : t >= now - Window}
      /\ DOMAIN Recent(others) = {t \in DOMAIN others : t >= now - Window}
      /\ \A t \in DOMAIN Recent(points) : Recent(points)[t] = points[t]
      /\ \A t \in DOMAIN Recent(others) : Recent(others)[t] = others[t]
      /\ Counted(Recent(points)) /\ Counted(Recent(others))
  BY RecentCounted
<1>2. DOMAIN points \subseteq 0..now /\ DOMAIN others \subseteq 0..now
  BY DEF Counted
<1>3. DOMAIN Recent(points) = DOMAIN Recent(others)
  BY <1>1, <1>2 DEF AgreeRecently
<1>4. \A t \in DOMAIN Recent(others) : Recent(others)[t] = points[t] /\ t \in DOMAIN points
  BY <1>1, <1>2, <1>3 DEF AgreeRecently
<1>5. Recent(points) = Recent(others)
  <2>1. /\ Recent(points) = [t \in DOMAIN Recent(points) |-> Recent(points)[t]]
        /\ Recent(others) = [t \in DOMAIN Recent(others) |-> Recent(others)[t]]
    BY <1>1 DEF Counted
  <2>2. \A t \in DOMAIN Recent(others) : Recent(points)[t] = Recent(others)[t]
    BY <1>1, <1>3, <1>4
  <2> QED BY <1>3, <2>1, <2>2
<1>6. AgreeRecently(points, Recent(others))
  BY <1>1, <1>2 DEF AgreeRecently
<1>7. AgreeRecently(Recent(others), Recent(others))
  BY DEF AgreeRecently
<1> QED BY <1>4, <1>5, <1>6, <1>7

(* A full window exceeds the limit however the queue has been cleaned: the *)
(* queue holds at least those bytes, averaged over at most that time.      *)
LEMMA FullExceeds ==
  ASSUME now \in Nat, NEW points, Counted(points), NEW others, Counted(others),
         AgreeRecently(points, others), DOMAIN points # {},
         Bytes(Recent(others)) \div Window > SpikeLimit
  PROVE  Exceeds(points)
<1>1. Bytes(Recent(others)) <= Bytes(points)
  BY RecentAgrees, RecentCounted, CountedMore
<1>2. Bytes(Recent(others)) \in Nat /\ Bytes(points) \in Nat
  BY RecentCounted, CountedBytes
<1>3. Effective(points) \in Nat \ {0} /\ Effective(points) <= Window
  BY EffectiveWithin
<1>4. Window \in Nat \ {0} /\ SpikeLimit \in Nat
  BY BitrateAssumption
<1> QED BY <1>1, <1>2, <1>3, <1>4, QuotientMonotone DEF Exceeds

(* The start of the timer after a read, for what the read finds. *)
LEMMA StartBounds ==
  ASSUME LimitInv, NEW x \in BOOLEAN, NEW start, start = ViolationStart(x)
  PROVE  /\ ~x => start = Never
         /\ x => start \in calmAt..now
         /\ x /\ violation # Never => start = violation
BY DEF LimitInv, ViolationStart, Never

(* A read within LimitInv leaves the queues so, and disconnects for cause. *)
LEMMA CheckKeeps ==
  ASSUME LimitInv, NEW bytes \in Bursts, check_data_bitrate(bytes)
  PROVE  LimitInv' /\ LimitEnforced'
<1> DEFINE pushed == Push(window, bytes)
           due == SpikeLimit = 0 \/ now - last_cleanup > OneSecond
           kept == IF due THEN cleanup_old_data(pushed) ELSE pushed
           start == IF SpikeLimit = 0 THEN Never ELSE ViolationStart(Exceeds(kept))
           all == Push(arrived, bytes)
           real == Recent(all)
           full == Bytes(real) \div Window > SpikeLimit
<1>1. /\ window' = kept /\ violation' = start /\ arrived' = real
      /\ disconnected' = (start # Never /\ now - start >= ViolationTime)
      /\ overSince' = IF ~full THEN Never ELSE IF overSince = Never THEN now ELSE overSince
      /\ calmAt' = IF due /\ ~Exceeds(real) THEN now ELSE calmAt
      /\ now' = now
  BY Zenon DEF check_data_bitrate
<1>2. /\ now \in Nat /\ Counted(window) /\ Counted(arrived) /\ AgreeRecently(window, arrived)
      /\ calmAt \in Nat /\ calmAt <= now
  BY DEF LimitInv
<1>3. bytes \in Nat /\ SpikeLimit \in Nat /\ ViolationTime \in Nat \ {0}
  BY BitrateAssumption
<1>4. /\ Counted(pushed) /\ Counted(all) /\ AgreeRecently(pushed, all)
      /\ now \in DOMAIN pushed
  <2> HIDE DEF due, kept, start, real, full
  <2>1. Counted(pushed) /\ Counted(all) /\ DOMAIN pushed = DOMAIN window \cup {now}
    BY <1>2, <1>3, PushCounted
  <2>2. AgreeRecently(pushed, all)
    BY <1>2, <1>3, PushAgrees
  <2> QED BY <2>1, <2>2
<1>5. due => kept = real
  BY <1>2, <1>4, RecentAgrees, Zenon DEF cleanup_old_data
<1> HIDE DEF pushed, all
<1>6. /\ Counted(real) /\ Counted(kept) /\ AgreeRecently(kept, real) /\ now \in DOMAIN kept
  <2>1. Counted(real) /\ AgreeRecently(pushed, real) /\ AgreeRecently(real, real)
    BY <1>2, <1>4, RecentAgrees, RecentCounted, ZenonT(40)
  <2>2. now \in DOMAIN Recent(pushed) /\ Recent(pushed) = real
    <3>1. DOMAIN Recent(pushed) = {t \in DOMAIN pushed : t >= now - Window}
      BY <1>2, <1>4, RecentCounted
    <3>2. now >= now - Window
      BY <1>2, BitrateAssumption
    <3> QED BY <1>2, <1>4, <3>1, <3>2, RecentAgrees
  <2> QED BY <1>4, <1>5, <2>1, <2>2
<1>7. full => Exceeds(kept)
  <2>1. AgreeRecently(kept, all)
    <3>1. CASE due
      <4>1. /\ DOMAIN real = {t \in DOMAIN all : t >= now - Window}
            /\ \A t \in DOMAIN real : real[t] = all[t]
        BY <1>2, <1>4, RecentCounted
      <4> HIDE DEF real
      <4>2. AgreeRecently(real, all)
        BY <4>1 DEF AgreeRecently
      <4> QED BY <1>5, <3>1, <4>2, Zenon
    <3>2. CASE ~due
      BY <1>4, <3>2, Zenon
    <3> QED BY <3>1, <3>2
  <2>2. DOMAIN kept # {}
    BY <1>6
  <2> HIDE DEF kept, real, full
  <2>3. ASSUME full
        PROVE  Bytes(Recent(all)) \div Window > SpikeLimit
    BY <2>3, Zenon DEF full, real
  <2> QED BY <1>2, <1>4, <1>6, <2>1, <2>2, <2>3, FullExceeds
<1>8. due /\ ~Exceeds(real) => start = Never
  BY <1>5, Zenon DEF ViolationStart
<1>9. start # Never => start \in calmAt..now /\ Exceeds(kept)
  <2>1. start # Never => Exceeds(kept) /\ start = IF violation = Never THEN now ELSE violation
    BY Zenon DEF ViolationStart
  <2> HIDE DEF start, kept
  <2> QED BY <1>2, <2>1 DEF LimitInv
<1> DEFINE over == IF ~full THEN Never ELSE IF overSince = Never THEN now ELSE overSince
           calm == IF due /\ ~Exceeds(real) THEN now ELSE calmAt
<1>10. start # Never => start \in calm..now
  BY <1>8, <1>9
<1>11. over # Never => over \in Nat /\ over <= now
  BY <1>2 DEF LimitInv
<1>12. SpikeLimit > 0 /\ over # Never => start # Never /\ start <= over
  <2> SUFFICES ASSUME SpikeLimit > 0, over # Never
               PROVE  start # Never /\ start <= over
    OBVIOUS
  <2>1. full /\ Exceeds(kept) /\ (overSince = Never => over = now) /\ (overSince # Never => over = overSince)
    BY <1>7, Zenon
  <2>2. start = ViolationStart(TRUE)
    <3>1. Exceeds(kept) = TRUE
      BY <2>1 DEF Exceeds
    <3>2. SpikeLimit # 0
      BY <1>3
    <3> QED BY <3>1, <3>2, Zenon
  <2> HIDE DEF start, over, full, kept, real
  <2>3. start \in calmAt..now /\ (violation # Never => start = violation)
    BY <2>2, StartBounds
  <2>4. overSince # Never => violation # Never /\ violation <= overSince
    BY DEF LimitInv
  <2> QED BY <1>2, <2>1, <2>3, <2>4 DEF Never
<1>13. calm \in Nat /\ calm <= now
  BY <1>2
<1> HIDE DEF start, over, full, kept, real, calm, due
<1>14. /\ window' = kept /\ violation' = start /\ arrived' = real /\ overSince' = over
       /\ calmAt' = calm /\ now' = now
       /\ disconnected' => start # Never /\ now - start >= ViolationTime
       /\ ~disconnected' => ~(start # Never /\ now - start >= ViolationTime)
  BY <1>1, Zenon DEF over, calm
<1>15. Counted(window)' /\ Counted(arrived)' /\ AgreeRecently(window, arrived)'
  BY <1>6, <1>14 DEF Counted, AgreeRecently
<1>16. LimitInv'
  BY <1>2, <1>10, <1>11, <1>12, <1>13, <1>14, <1>15 DEF LimitInv
<1>17. LimitEnforced'
  <2>1. DisconnectJustified'
    BY <1>2, <1>3, <1>10, <1>13, <1>14 DEF DisconnectJustified
  <2>2. OverloadEnds'
    BY <1>2, <1>3, <1>10, <1>11, <1>12, <1>13, <1>14 DEF OverloadEnds
  <2> QED BY <2>1, <2>2 DEF LimitEnforced
<1> QED BY <1>16, <1>17

(* Time passes: more of the queues has aged out, and nothing is read. *)
LEMMA TickKeeps ==
  ASSUME LimitInv, BitrateTick
  PROVE  LimitInv' /\ LimitEnforced'
<1>1. /\ now' = now + 1 /\ now \in Nat
      /\ window' = window /\ arrived' = arrived /\ violation' = violation
      /\ overSince' = overSince /\ calmAt' = calmAt
  BY DEF BitrateTick, LimitInv
<1>2. ~disconnected'
  BY DEF BitrateTick
<1>3. Counted(window)' /\ Counted(arrived)' /\ now' \notin DOMAIN arrived'
  BY <1>1 DEF LimitInv, Counted
<1>4. AgreeRecently(window, arrived)'
  <2>1. \A t \in 0..now : t >= now + 1 - Window => t >= now - Window
    BY <1>1, BitrateAssumption
  <2>2. now + 1 \notin DOMAIN window /\ now + 1 \notin DOMAIN arrived
    BY <1>1 DEF LimitInv, Counted
  <2>3. ASSUME NEW t \in 0..now + 1, t >= now + 1 - Window
        PROVE  /\ t \in DOMAIN window <=> t \in DOMAIN arrived
               /\ t \in DOMAIN window => window[t] = arrived[t]
    <3>1. CASE t = now + 1
      BY <2>2, <3>1
    <3>2. CASE t # now + 1
      <4>1. t \in 0..now /\ t >= now - Window
        BY <1>1, <2>1, <2>3, <3>2
      <4> QED BY <4>1 DEF LimitInv, AgreeRecently
    <3> QED BY <3>1, <3>2
  <2> QED BY <1>1, <2>3, BitrateAssumption DEF AgreeRecently
<1>5. LimitInv'
  BY <1>1, <1>3, <1>4 DEF LimitInv
<1> QED BY <1>2, <1>3, <1>5 DEF LimitEnforced, DisconnectJustified, OverloadEnds

(* CSLSBitrateLimit::check_data_bitrate(), for any limit, window, cleaning *)
(* interval and sizes of reads: a publisher is disconnected only after a   *)
(* violation time without a cleaned window within the limit, and one that  *)
(* keeps the full window above it is disconnected by then.                 *)
THEOREM LimitIsEnforced == BitrateSpec => []LimitEnforced
<1>1. BitrateInit => LimitInv /\ LimitEnforced
  BY BitrateAssumption DEF BitrateInit, LimitInv, Counted, AgreeRecently, LimitEnforced,
     DisconnectJustified, OverloadEnds, Never
<1>2. ASSUME LimitInv, LimitEnforced, [BitrateNext]_bitrateVars
      PROVE  LimitInv' /\ LimitEnforced'
  <2>1. CASE BitrateTick
    BY <1>2, <2>1, TickKeeps
  <2>2. ASSUME NEW b \in Bursts, check_data_bitrate(b)
        PROVE  LimitInv' /\ LimitEnforced'
    BY <1>2, <2>2, CheckKeeps
  <2>3. CASE UNCHANGED bitrateVars
    BY <1>2, <2>3 DEF bitrateVars, LimitInv, Counted, AgreeRecently, LimitEnforced,
       DisconnectJustified, OverloadEnds
  <2> QED BY <1>2, <2>1, <2>2, <2>3 DEF BitrateNext
<1> QED BY <1>1, <1>2, PTL DEF BitrateSpec

-----------------------------------------------------------------------------
(* The bytes of an access unit: what is escaped is unescaped to what it    *)
(* was, what is coded is read back, and the walk goes from NAL to NAL.     *)

(* What the escaping and the unescaping hold between two bytes.            *)
EscapeStates == [out : Seq(Nat), zeros : 0..2]
UnescapeStates == [out : Seq(Nat), zeros : Nat]

(* A byte more, escaped or not.                                            *)
LEMMA EscapeByteType ==
  ASSUME NEW acc \in EscapeStates, NEW b \in Nat
  PROVE  EscapeByte(acc, b) \in EscapeStates
<1>1. acc.out \in Seq(Nat) /\ acc.zeros \in 0..2
  BY DEF EscapeStates
<1>2. acc.out \o <<3, b>> \in Seq(Nat) /\ Append(acc.out, b) \in Seq(Nat)
  BY <1>1
<1> QED BY <1>1, <1>2 DEF EscapeByte, EscapeStates

LEMMA UnescapeByteType ==
  ASSUME NEW acc \in UnescapeStates, NEW b \in Nat
  PROVE  UnescapeByte(acc, b) \in UnescapeStates
<1>1. acc.out \in Seq(Nat) /\ acc.zeros \in Nat
  BY DEF UnescapeStates
<1>2. Append(acc.out, b) \in Seq(Nat)
  BY <1>1
<1> QED BY <1>1, <1>2 DEF UnescapeByte, UnescapeStates

(* Both go through the bytes in order.                                     *)
LEMMA EscapedIsLoop ==
  ASSUME NEW s \in Seq(Nat), NEW n \in Nat, n = Len(s)
  PROVE  \E f \in [0..n -> EscapeStates] :
           /\ f[0] = [out |-> <<>>, zeros |-> 0]
           /\ \A i \in 1..n : f[i] = EscapeByte(f[i - 1], s[i])
           /\ Escaped(s) = f[n].out
<1>0. n \in Nat
  OBVIOUS
<1> DEFINE base == [out |-> <<>>, zeros |-> 0]
           step == [i \in 1..n |-> [x \in EscapeStates |-> EscapeByte(x, s[i])]]
           Loop(f) == [i \in 0..Len(s) |-> IF i = 0 THEN [out |-> <<>>, zeros |-> 0] ELSE EscapeByte(f[i - 1], s[i])]
           g == CHOOSE g : g = Loop(g)
<1>1. \A i \in 1..n, x \in EscapeStates : EscapeByte(x, s[i]) \in EscapeStates
  BY EscapeByteType
<1>2. step \in [1..n -> [EscapeStates -> EscapeStates]]
  BY <1>1
<1>3. base \in EscapeStates
  BY DEF EscapeStates
<1> HIDE DEF base
<1>4. PICK f \in [0..n -> EscapeStates] : IsLoop(f, base, step, n)
  <2> HIDE DEF step
  <2> QED BY <1>0, <1>2, <1>3, LoopExists
<1>5. \A i \in 1..n : i - 1 \in 0..n /\ i \in 0..n /\ i # 0
  BY <1>0
<1>6. ASSUME NEW i \in 0..n
      PROVE  f[i] = IF i = 0 THEN base ELSE EscapeByte(f[i - 1], s[i])
  <2>1. f[i] = IF i = 0 THEN base ELSE step[i][f[i - 1]]
    <3> HIDE DEF step
    <3>1. f = [j \in 0..n |-> IF j = 0 THEN base ELSE step[j][f[j - 1]]]
      BY <1>4 DEF IsLoop
    <3> DEFINE h == [j \in 0..n |-> IF j = 0 THEN base ELSE step[j][f[j - 1]]]
    <3>2. h[i] = IF i = 0 THEN base ELSE step[i][f[i - 1]]
      OBVIOUS
    <3>3. f = h
      BY <3>1
    <3> HIDE DEF h
    <3> QED BY <3>2, <3>3
  <2>2. CASE i = 0
    BY <2>1, <2>2
  <2>3. CASE i # 0
    <3>0. i \in 1..n /\ i - 1 \in 0..n
      BY <1>0, <2>3
    <3>1. i \in 1..n /\ f[i - 1] \in EscapeStates
      BY <3>0, Zenon
    <3>2. step[i][f[i - 1]] = EscapeByte(f[i - 1], s[i])
      BY <3>1, Zenon
    <3> HIDE DEF step
    <3> QED BY <2>1, <2>3, <3>2
  <2> QED BY <2>2, <2>3
<1> HIDE DEF step
<1>7. f = Loop(f)
  <2>1. f = [i \in 0..n |-> f[i]]
    OBVIOUS
  <2>2. base = [out |-> <<>>, zeros |-> 0]
    BY Zenon DEF base
  <2> QED BY <1>6, <2>1, <2>2, Zenon
<1>8. g = Loop(g)
  <2> HIDE DEF Loop
  <2> QED BY <1>7, Zenon
<1>9. g[0] = base /\ \A i \in 1..n : g[i] = EscapeByte(g[i - 1], s[i])
  <2> DEFINE h == Loop(g)
  <2>1. 0 \in 0..n
    BY <1>0
  <2>2. h[0] = base /\ \A i \in 1..n : h[i] = EscapeByte(g[i - 1], s[i])
    <3> HIDE DEF g
    <3>1. base = [out |-> <<>>, zeros |-> 0]
      BY Zenon DEF base
    <3> QED BY <1>5, <2>1, <3>1, Zenon
  <2>3. g = h
    BY <1>8
  <2> HIDE DEF g, h
  <2> QED BY <2>2, <2>3
<1>10. f[0] = base /\ \A i \in 1..n : f[i] = EscapeByte(f[i - 1], s[i])
  <2>1. 0 \in 0..n
    BY <1>0
  <2> HIDE DEF g, Loop
  <2>2. f[0] = base
    BY <1>6, <2>1
  <2>3. ASSUME NEW i \in 1..n
        PROVE  f[i] = EscapeByte(f[i - 1], s[i])
    BY <1>5, <1>6, <2>3, Zenon
  <2> QED BY <2>2, <2>3
<1>11. Escaped(s) = g[n].out
  BY Zenon DEF Escaped
<1> HIDE DEF g
<1>12. g[n] = f[n]
  <2> DEFINE P == {i \in 0..n : g[i] = f[i]}
  <2>1. 0 \in P
    BY <1>0, <1>9, <1>10
  <2>2. \A i \in 1..n : i - 1 \in P => i \in P
    BY <1>5, <1>9, <1>10
  <2>3. P = 0..n
    <3>1. P \in SUBSET (0..n)
      OBVIOUS
    <3> HIDE DEF P
    <3> QED BY <1>0, <2>1, <2>2, <3>1, LoopInduction
  <2>4. n \in 0..n
    BY <1>0
  <2>5. n \in P
    BY <2>3, <2>4, Zenon
  <2> QED BY <2>5
<1>13. base = [out |-> <<>>, zeros |-> 0]
  BY Zenon DEF base
<1> QED BY <1>10, <1>11, <1>12, <1>13, Zenon

LEMMA UnescapeIsLoop ==
  ASSUME NEW s \in Seq(Nat), NEW n \in Nat, n = Len(s)
  PROVE  \E f \in [0..n -> UnescapeStates] :
           /\ f[0] = [out |-> <<>>, zeros |-> 0]
           /\ \A i \in 1..n : f[i] = UnescapeByte(f[i - 1], s[i])
           /\ rbsp_unescape(s) = f[n].out
<1>0. n \in Nat
  OBVIOUS
<1> DEFINE base == [out |-> <<>>, zeros |-> 0]
           step == [i \in 1..n |-> [x \in UnescapeStates |-> UnescapeByte(x, s[i])]]
           Loop(f) == [i \in 0..Len(s) |-> IF i = 0 THEN [out |-> <<>>, zeros |-> 0] ELSE UnescapeByte(f[i - 1], s[i])]
           g == CHOOSE g : g = Loop(g)
<1>1. \A i \in 1..n, x \in UnescapeStates : UnescapeByte(x, s[i]) \in UnescapeStates
  BY UnescapeByteType
<1>2. step \in [1..n -> [UnescapeStates -> UnescapeStates]]
  BY <1>1
<1>3. base \in UnescapeStates
  BY DEF UnescapeStates
<1> HIDE DEF base
<1>4. PICK f \in [0..n -> UnescapeStates] : IsLoop(f, base, step, n)
  <2> HIDE DEF step
  <2> QED BY <1>0, <1>2, <1>3, LoopExists
<1>5. \A i \in 1..n : i - 1 \in 0..n /\ i \in 0..n /\ i # 0
  BY <1>0
<1>6. ASSUME NEW i \in 0..n
      PROVE  f[i] = IF i = 0 THEN base ELSE UnescapeByte(f[i - 1], s[i])
  <2>1. f[i] = IF i = 0 THEN base ELSE step[i][f[i - 1]]
    <3> HIDE DEF step
    <3>1. f = [j \in 0..n |-> IF j = 0 THEN base ELSE step[j][f[j - 1]]]
      BY <1>4 DEF IsLoop
    <3> DEFINE h == [j \in 0..n |-> IF j = 0 THEN base ELSE step[j][f[j - 1]]]
    <3>2. h[i] = IF i = 0 THEN base ELSE step[i][f[i - 1]]
      OBVIOUS
    <3>3. f = h
      BY <3>1
    <3> HIDE DEF h
    <3> QED BY <3>2, <3>3
  <2>2. CASE i = 0
    BY <2>1, <2>2
  <2>3. CASE i # 0
    <3>0. i \in 1..n /\ i - 1 \in 0..n
      BY <1>0, <2>3
    <3>1. i \in 1..n /\ f[i - 1] \in UnescapeStates
      BY <3>0, Zenon
    <3>2. step[i][f[i - 1]] = UnescapeByte(f[i - 1], s[i])
      BY <3>1, Zenon
    <3> HIDE DEF step
    <3> QED BY <2>1, <2>3, <3>2
  <2> QED BY <2>2, <2>3
<1> HIDE DEF step
<1>7. f = Loop(f)
  <2>1. f = [i \in 0..n |-> f[i]]
    OBVIOUS
  <2>2. base = [out |-> <<>>, zeros |-> 0]
    BY Zenon DEF base
  <2> QED BY <1>6, <2>1, <2>2, Zenon
<1>8. g = Loop(g)
  <2> HIDE DEF Loop
  <2> QED BY <1>7, Zenon
<1>9. g[0] = base /\ \A i \in 1..n : g[i] = UnescapeByte(g[i - 1], s[i])
  <2> DEFINE h == Loop(g)
  <2>1. 0 \in 0..n
    BY <1>0
  <2>2. h[0] = base /\ \A i \in 1..n : h[i] = UnescapeByte(g[i - 1], s[i])
    <3> HIDE DEF g
    <3>1. base = [out |-> <<>>, zeros |-> 0]
      BY Zenon DEF base
    <3> QED BY <1>5, <2>1, <3>1, Zenon
  <2>3. g = h
    BY <1>8
  <2> HIDE DEF g, h
  <2> QED BY <2>2, <2>3
<1>10. f[0] = base /\ \A i \in 1..n : f[i] = UnescapeByte(f[i - 1], s[i])
  <2>1. 0 \in 0..n
    BY <1>0
  <2> HIDE DEF g, Loop
  <2>2. f[0] = base
    BY <1>6, <2>1
  <2>3. ASSUME NEW i \in 1..n
        PROVE  f[i] = UnescapeByte(f[i - 1], s[i])
    BY <1>5, <1>6, <2>3, Zenon
  <2> QED BY <2>2, <2>3
<1>11. rbsp_unescape(s) = g[n].out
  BY Zenon DEF rbsp_unescape
<1> HIDE DEF g
<1>12. g[n] = f[n]
  <2> DEFINE P == {i \in 0..n : g[i] = f[i]}
  <2>1. 0 \in P
    BY <1>0, <1>9, <1>10
  <2>2. \A i \in 1..n : i - 1 \in P => i \in P
    BY <1>5, <1>9, <1>10
  <2>3. P = 0..n
    <3>1. P \in SUBSET (0..n)
      OBVIOUS
    <3> HIDE DEF P
    <3> QED BY <1>0, <2>1, <2>2, <3>1, LoopInduction
  <2>4. n \in 0..n
    BY <1>0
  <2>5. n \in P
    BY <2>3, <2>4, Zenon
  <2> QED BY <2>5
<1>13. base = [out |-> <<>>, zeros |-> 0]
  BY Zenon DEF base
<1> QED BY <1>10, <1>11, <1>12, <1>13, Zenon

(* Nothing that could be taken for a start code is in escaped bytes.       *)
Clean(o) == \A j \in 1..(Len(o) - 2) : ~(o[j] = 0 /\ o[j + 1] = 0 /\ o[j + 2] <= 2)

(* The counter knows of the zeros at the end.                              *)
EndCounted(acc) ==
  /\ Len(acc.out) >= 1 /\ acc.out[Len(acc.out)] = 0 => acc.zeros >= 1
  /\ Len(acc.out) >= 2 /\ acc.out[Len(acc.out)] = 0 /\ acc.out[Len(acc.out) - 1] = 0
       => acc.zeros = 2

(* A byte more behind clean bytes. *)
LEMMA EscapeByteDoes ==
  ASSUME NEW acc \in EscapeStates, NEW b \in Nat, NEW new, new = EscapeByte(acc, b)
  PROVE  /\ new \in EscapeStates
         /\ Len(new.out) > Len(acc.out)
         /\ \A j \in 1..Len(acc.out) : new.out[j] = acc.out[j]
         /\ new.out[Len(new.out)] = b
         /\ Clean(acc.out) /\ EndCounted(acc) => Clean(new.out) /\ EndCounted(new)
<1>1. new \in EscapeStates
  BY EscapeByteType
<1>2. PICK o \in Seq(Nat), z \in 0..2 : acc.out = o /\ acc.zeros = z
  BY DEF EscapeStates
<1>3. PICK p \in Seq(Nat), y \in 0..2 : new.out = p /\ new.zeros = y
  BY <1>1 DEF EscapeStates
<1>4. CASE z = 2 /\ b <= 3
  <2>1. p = o \o <<3, b>> /\ y = IF b = 0 THEN 1 ELSE 0
    BY <1>2, <1>3, <1>4 DEF EscapeByte
  <2>2. /\ Len(p) = Len(o) + 2 /\ Len(o) \in Nat
        /\ \A j \in 1..Len(o) : p[j] = o[j]
        /\ p[Len(o) + 1] = 3 /\ p[Len(o) + 2] = b
    BY <2>1
  <2>3. Clean(o) => Clean(p)
    <3>1. SUFFICES ASSUME Clean(o), NEW j \in 1..(Len(p) - 2), p[j] = 0, p[j + 1] = 0, p[j + 2] <= 2
                   PROVE  FALSE
      BY DEF Clean
    <3>2. CASE j + 2 <= Len(o)
      <4>1. j \in 1..Len(o) /\ j + 1 \in 1..Len(o) /\ j + 2 \in 1..Len(o) /\ j \in 1..(Len(o) - 2)
        BY <2>2, <3>2
      <4> QED BY <2>2, <3>1, <4>1 DEF Clean
    <3>3. CASE j + 2 = Len(o) + 1
      BY <2>2, <3>1, <3>3, SMTT(30)
    <3>4. CASE j + 2 = Len(o) + 2
      <4>1. j + 1 = Len(o) + 1
        BY <2>2, <3>4
      <4> QED BY <2>2, <3>1, <4>1
    <3>5. j + 2 <= Len(o) \/ j + 2 = Len(o) + 1 \/ j + 2 = Len(o) + 2
      <4>1. j \in Int /\ j <= Len(o) /\ Len(o) \in Nat
        BY <2>2
      <4> QED BY <4>1, SMTT(30)
    <3> QED BY <3>2, <3>3, <3>4, <3>5
  <2>4. EndCounted(new)
    BY <1>3, <2>1, <2>2 DEF EndCounted
  <2> QED BY <1>1, <1>2, <1>3, <2>2, <2>3, <2>4
<1>5. CASE ~(z = 2 /\ b <= 3)
  <2>1. p = Append(o, b) /\ y = IF b = 0 THEN z + 1 ELSE 0
    BY <1>2, <1>3, <1>5 DEF EscapeByte
  <2>2. /\ Len(p) = Len(o) + 1 /\ Len(o) \in Nat
        /\ \A j \in 1..Len(o) : p[j] = o[j]
        /\ p[Len(o) + 1] = b
    BY <2>1
  <2>3. ASSUME Clean(o), EndCounted(acc)
        PROVE  Clean(p)
    <3>1. SUFFICES ASSUME NEW j \in 1..(Len(p) - 2), p[j] = 0, p[j + 1] = 0, p[j + 2] <= 2
                   PROVE  FALSE
      BY DEF Clean
    <3>2. CASE j + 2 <= Len(o)
      <4>1. j \in 1..Len(o) /\ j + 1 \in 1..Len(o) /\ j + 2 \in 1..Len(o) /\ j \in 1..(Len(o) - 2)
        BY <2>2, <3>2
      <4> QED BY <2>2, <2>3, <3>1, <4>1 DEF Clean
    <3>3. CASE j + 2 = Len(o) + 1
      <4>1. j = Len(o) - 1 /\ j + 1 = Len(o) /\ Len(o) >= 2 /\ j \in 1..Len(o) /\ Len(o) \in 1..Len(o)
        BY <2>2, <3>3
      <4>2. o[Len(o)] = 0 /\ o[Len(o) - 1] = 0
        BY <2>2, <3>1, <4>1
      <4>3. z = 2
        BY <1>2, <2>3, <4>1, <4>2 DEF EndCounted
      <4> QED BY <1>5, <2>2, <3>1, <3>3, <4>3
    <3> QED BY <2>2, <3>2, <3>3
  <2>4. ASSUME EndCounted(acc)
        PROVE  EndCounted(new)
    <3>0. /\ Len(o) >= 1 /\ o[Len(o)] = 0 => z >= 1
      BY <1>2, <2>4 DEF EndCounted
    <3>1. Len(o) >= 1 => p[Len(p) - 1] = o[Len(o)]
      <4>1. Len(o) >= 1 => Len(p) - 1 = Len(o) /\ Len(o) \in 1..Len(o)
        BY <2>2
      <4> QED BY <2>2, <4>1
    <3>2. p[Len(p)] = b /\ Len(p) = Len(o) + 1
      BY <2>2
    <3>3. b = 0 => y = z + 1
      BY <2>1
    <3>4. p[Len(p)] = 0 => y >= 1
      BY <3>2, <3>3
    <3>5. Len(p) >= 2 /\ p[Len(p)] = 0 /\ p[Len(p) - 1] = 0 => y = 2
      BY <2>2, <3>0, <3>1, <3>2, <3>3
    <3> QED BY <1>3, <3>4, <3>5 DEF EndCounted
  <2> QED BY <1>1, <1>2, <1>3, <2>2, <2>3, <2>4
<1> QED BY <1>4, <1>5

LEMMA EscapedIsClean ==
  ASSUME NEW s \in Seq(Nat), s # <<>>
  PROVE  /\ Escaped(s) \in Seq(Nat) /\ Clean(Escaped(s)) /\ Len(Escaped(s)) >= Len(s)
         /\ Escaped(s)[Len(Escaped(s))] = s[Len(s)]
<1>0. PICK n \in Nat : n = Len(s) /\ n >= 1
  OBVIOUS
<1>1. PICK e \in [0..n -> EscapeStates] :
        /\ e[0] = [out |-> <<>>, zeros |-> 0]
        /\ \A i \in 1..n : e[i] = EscapeByte(e[i - 1], s[i])
        /\ Escaped(s) = e[n].out
  BY <1>0, EscapedIsLoop
<1> DEFINE Good(i) == /\ Clean(e[i].out) /\ EndCounted(e[i]) /\ Len(e[i].out) >= i
                      /\ i >= 1 => e[i].out[Len(e[i].out)] = s[i]
           P == {i \in 0..n : Good(i)}
<1>2. 0 \in P
  <2>1. e[0].out = <<>> /\ 0 \in 0..n
    BY <1>0, <1>1
  <2>2. Clean(<<>>) /\ Len(<<>>) = 0
    BY DEF Clean
  <2>3. EndCounted(e[0])
    BY <2>1, <2>2 DEF EndCounted
  <2> QED BY <2>1, <2>2, <2>3
<1>3. ASSUME NEW i \in 1..n, i - 1 \in P
      PROVE  i \in P
  <2>1. PICK acc \in EscapeStates, new \in EscapeStates, b \in Nat : acc = e[i - 1] /\ new = e[i] /\ b = s[i]
    <3>1. i - 1 \in 0..n /\ i \in 0..n /\ i \in 1..Len(s)
      BY <1>0
    <3>2. e[i - 1] \in EscapeStates /\ e[i] \in EscapeStates /\ s[i] \in Nat
      BY <3>1
    <3> QED BY <3>2
  <2>2. new = EscapeByte(acc, b)
    BY <1>1, <2>1
  <2>3. Clean(acc.out) /\ EndCounted(acc) /\ Len(acc.out) >= i - 1
    BY <1>3, <2>1
  <2>4. /\ Len(new.out) > Len(acc.out) /\ new.out[Len(new.out)] = b
        /\ Clean(new.out) /\ EndCounted(new)
    BY <2>2, <2>3, EscapeByteDoes
  <2>5. Len(new.out) \in Nat /\ Len(acc.out) \in Nat
    BY DEF EscapeStates
  <2>6. Len(new.out) >= i
    BY <1>0, <2>3, <2>4, <2>5
  <2> QED BY <1>0, <2>1, <2>4, <2>6
<1>4. P = 0..n
  <2>1. P \in SUBSET (0..n)
    OBVIOUS
  <2> HIDE DEF P
  <2> QED BY <1>0, <1>2, <1>3, <2>1, LoopInduction
<1>5. n \in P
  <2>1. n \in 0..n
    BY <1>0
  <2> HIDE DEF P
  <2> QED BY <1>4, <2>1, Zenon
<1>6. e[n].out \in Seq(Nat)
  <2>1. e[n] \in EscapeStates
    BY <1>0
  <2> QED BY <2>1 DEF EscapeStates
<1> QED BY <1>0, <1>1, <1>5, <1>6

(* What unescaping does with the bytes escaping put there. *)
LEMMA UnescapeUndoes ==
  ASSUME NEW s \in Seq(Nat)
  PROVE  rbsp_unescape(Escaped(s)) = s
<1>0. PICK n \in Nat : n = Len(s)
  OBVIOUS
<1>1. PICK e \in [0..n -> EscapeStates] :
        /\ e[0] = [out |-> <<>>, zeros |-> 0]
        /\ \A i \in 1..n : e[i] = EscapeByte(e[i - 1], s[i])
        /\ Escaped(s) = e[n].out
  BY <1>0, EscapedIsLoop
<1>2. PICK w \in Seq(Nat) : w = e[n].out
  <2>1. e[n] \in EscapeStates
    BY <1>0
  <2> QED BY <2>1 DEF EscapeStates
<1>3. PICK m \in Nat : m = Len(w)
  OBVIOUS
<1>4. PICK g \in [0..m -> UnescapeStates] :
        /\ g[0] = [out |-> <<>>, zeros |-> 0]
        /\ \A i \in 1..m : g[i] = UnescapeByte(g[i - 1], w[i])
        /\ rbsp_unescape(w) = g[m].out
  BY <1>3, UnescapeIsLoop
<1>a. ASSUME NEW i \in 0..n
      PROVE  e[i] \in EscapeStates /\ e[i].out \in Seq(Nat) /\ e[i].zeros \in 0..2 /\ Len(e[i].out) \in Nat
  BY DEF EscapeStates
<1>b. ASSUME NEW i \in 1..n
      PROVE  i - 1 \in 0..n /\ i \in 0..n /\ i \in 1..Len(s) /\ s[i] \in Nat
  BY <1>0
(* What has been put out is never taken back. *)
<1> DEFINE Kept(i) == Len(e[i].out) <= m /\ \A j \in 1..Len(e[i].out) : w[j] = e[i].out[j]
<1>5. \A i \in 0..n : Kept(i)
  <2> DEFINE Q == {d \in 0..n : Kept(n - d)}
  <2>1. 0 \in Q
    <3>1. n - 0 = n /\ 0 \in 0..n
      BY <1>0
    <3>2. Kept(n)
      BY <1>2, <1>3
    <3> QED BY <3>1, <3>2
  <2>2. ASSUME NEW d \in 1..n, d - 1 \in Q
        PROVE  d \in Q
    <3>0. n - (d - 1) \in 1..n /\ (n - (d - 1)) - 1 = n - d
      BY <1>0
    <3>1. PICK i \in 1..n : i = n - (d - 1) /\ i - 1 = n - d
      BY <3>0, Zenon
    <3>2. Kept(i)
      BY <2>2, <3>1
    <3>3. PICK acc \in EscapeStates, new \in EscapeStates, b \in Nat : acc = e[i - 1] /\ new = e[i] /\ b = s[i]
      BY <1>a, <1>b
    <3>4. new = EscapeByte(acc, b)
      BY <1>1, <3>3
    <3>5. Len(new.out) > Len(acc.out) /\ \A j \in 1..Len(acc.out) : new.out[j] = acc.out[j]
      BY <3>4, EscapeByteDoes
    <3>6. Len(new.out) \in Nat /\ Len(acc.out) \in Nat
      BY DEF EscapeStates
    <3>7. Len(new.out) <= m /\ \A j \in 1..Len(new.out) : w[j] = new.out[j]
      BY <3>2, <3>3
    <3>8. Len(acc.out) <= m /\ \A j \in 1..Len(acc.out) : w[j] = acc.out[j]
      <4>1. \A j \in 1..Len(acc.out) : j \in 1..Len(new.out)
        BY <3>5, <3>6
      <4> QED BY <1>3, <3>5, <3>6, <3>7, <4>1
    <3>9. Kept(i - 1)
      BY <3>3, <3>8
    <3> HIDE DEF Kept
    <3>10. Kept(n - d) /\ d \in 0..n
      BY <1>0, <3>1, <3>9
    <3> QED BY <3>10
  <2>3. Q = 0..n
    <3>1. Q \in SUBSET (0..n)
      OBVIOUS
    <3> HIDE DEF Q
    <3> QED BY <1>0, <2>1, <2>2, <3>1, LoopInduction
  <2>4. ASSUME NEW i \in 0..n
        PROVE  Kept(i)
    <3>0. n - i \in 0..n /\ n - (n - i) = i
      BY <1>0
    <3>1. PICK d \in 0..n : d = n - i /\ n - d = i
      BY <3>0, Zenon
    <3>2. Kept(n - d)
      BY <2>3, <3>1
    <3> HIDE DEF Kept
    <3> QED BY <3>1, <3>2
  <2> HIDE DEF Kept
  <2> QED BY <2>4
(* Behind them the unescaping has the bytes of s and the same zeros. *)
<1> DEFINE Back(i) == g[Len(e[i].out)] = [out |-> SubSeq(s, 1, i), zeros |-> e[i].zeros]
           P == {i \in 0..n : Back(i)}
<1>6. 0 \in P
  <2>1. e[0].out = <<>> /\ e[0].zeros = 0 /\ 0 \in 0..n
    BY <1>0, <1>1
  <2>2. Len(<<>>) = 0 /\ SubSeq(s, 1, 0) = <<>>
    BY SubSeqEmpty
  <2>3. Len(e[0].out) = 0
    BY <2>1, <2>2
  <2> QED BY <1>4, <2>1, <2>2, <2>3
<1>7. ASSUME NEW i \in 1..n, i - 1 \in P
      PROVE  i \in P
  <2>1. PICK acc \in EscapeStates, new \in EscapeStates, b \in Nat : acc = e[i - 1] /\ new = e[i] /\ b = s[i]
    BY <1>a, <1>b
  <2>2. new = EscapeByte(acc, b)
    BY <1>1, <2>1
  <2>3. PICK o \in Seq(Nat), z \in 0..2 : acc.out = o /\ acc.zeros = z
    BY DEF EscapeStates
  <2>4. PICK p \in Seq(Nat), y \in 0..2 : new.out = p /\ new.zeros = y
    BY DEF EscapeStates
  <2>5. PICK t \in Seq(Nat) : t = SubSeq(s, 1, i - 1) /\ Append(t, b) = SubSeq(s, 1, i)
    <3>1. SubSeq(s, 1, i) = Append(SubSeq(s, 1, i - 1), s[i])
      <4>1. 1 \in 1..(Len(s) + 1) /\ i \in 1..Len(s) /\ 1 <= i
        BY <1>b
      <4> QED BY <1>0, <4>1, SubSeqRecursiveSecond
    <3>2. SubSeq(s, 1, i - 1) \in Seq(Nat)
      BY <1>0
    <3> QED BY <2>1, <3>1, <3>2
  <2>6. g[Len(o)] = [out |-> t, zeros |-> z]
    BY <1>7, <2>1, <2>3, <2>5
  <2>7. Len(p) <= m /\ \A j \in 1..Len(p) : w[j] = p[j]
    <3>1. Kept(i)
      BY <1>5, <1>b
    <3> QED BY <2>1, <2>4, <3>1
  <2>8. g[Len(p)] = [out |-> Append(t, b), zeros |-> y]
    <3>0. \A j \in 1..m : g[j] = UnescapeByte(g[j - 1], w[j])
      BY <1>4
    <3> HIDE DEF Back, Kept, P
    <3>1. CASE z = 2 /\ b <= 3
      <4>1. p = o \o <<3, b>> /\ y = IF b = 0 THEN 1 ELSE 0
        BY <2>2, <2>3, <2>4, <3>1 DEF EscapeByte
      <4>2. /\ Len(p) = Len(o) + 2 /\ Len(o) \in Nat
            /\ p[Len(o) + 1] = 3 /\ p[Len(o) + 2] = b
        BY <4>1
      <4>a. PICK k \in Nat : k = Len(o)
        BY <4>2
      <4>3. /\ k = Len(o) /\ k + 1 \in 1..m /\ k + 2 \in 1..m
            /\ (k + 1) - 1 = k /\ (k + 2) - 1 = k + 1
            /\ k + 1 \in 1..Len(p) /\ k + 2 \in 1..Len(p)
        <5>1. k + 2 <= m /\ m \in Nat /\ Len(p) = k + 2
          BY <1>3, <2>7, <4>2, <4>a
        <5> HIDE <2>7
        <5> QED BY <4>a, <5>1
      <4>4. w[k + 1] = 3 /\ w[k + 2] = b
        BY <2>7, <4>2, <4>3
      <4>5. g[k + 1] = UnescapeByte(g[k], 3) /\ g[k + 2] = UnescapeByte(g[k + 1], b)
        BY <3>0, <4>3, <4>4
      <4>6. g[k] = [out |-> t, zeros |-> z]
        BY <2>6, <4>3
      <4>7. g[k + 1] = [out |-> t, zeros |-> 0]
        <5>1. UnescapeByte([out |-> t, zeros |-> z], 3) = [out |-> t, zeros |-> 0]
          BY <3>1 DEF UnescapeByte
        <5> QED BY <4>5, <4>6, <5>1
      <4>8. g[k + 2] = [out |-> Append(t, b), zeros |-> IF b = 0 THEN 1 ELSE 0]
        <5>1. UnescapeByte([out |-> t, zeros |-> 0], b) = [out |-> Append(t, b), zeros |-> IF b = 0 THEN 1 ELSE 0]
          BY DEF UnescapeByte
        <5> QED BY <4>5, <4>7, <5>1
      <4> QED BY <4>1, <4>2, <4>3, <4>8
    <3>2. CASE ~(z = 2 /\ b <= 3)
      <4>1. p = Append(o, b) /\ y = IF b = 0 THEN z + 1 ELSE 0
        BY <2>2, <2>3, <2>4, <3>2 DEF EscapeByte
      <4>2. Len(p) = Len(o) + 1 /\ Len(o) \in Nat /\ p[Len(o) + 1] = b
        BY <4>1
      <4>3. PICK k \in Nat : k = Len(o) /\ k + 1 \in 1..m /\ (k + 1) - 1 = k /\ k + 1 \in 1..Len(p)
        BY <1>3, <2>7, <4>2
      <4>4. w[k + 1] = b
        BY <2>7, <4>2, <4>3
      <4>5. g[k + 1] = UnescapeByte(g[k], b)
        BY <3>0, <4>3, <4>4
      <4>6. g[k] = [out |-> t, zeros |-> z]
        BY <2>6, <4>3
      <4>7. UnescapeByte([out |-> t, zeros |-> z], b) = [out |-> Append(t, b), zeros |-> y]
        BY <3>2, <4>1 DEF UnescapeByte
      <4> QED BY <4>2, <4>3, <4>5, <4>6, <4>7
    <3> QED BY <3>1, <3>2
  <2>9. Back(i)
    BY <2>1, <2>4, <2>5, <2>8
  <2> QED BY <1>b, <2>9
<1>8. P = 0..n
  <2>1. P \in SUBSET (0..n)
    OBVIOUS
  <2> HIDE DEF P
  <2> QED BY <1>0, <1>6, <1>7, <2>1, LoopInduction
<1>9. g[m] = [out |-> SubSeq(s, 1, n), zeros |-> e[n].zeros]
  <2>1. n \in P
    <3>1. n \in 0..n
      BY <1>0
    <3> HIDE DEF P
    <3> QED BY <1>8, <3>1, Zenon
  <2> QED BY <1>2, <1>3, <2>1
<1>10. SubSeq(s, 1, n) = s
  BY <1>0, SubSeqFull
<1> HIDE DEF P, Back, Kept
<1>11. g[m].out = s
  BY <1>9, <1>10
<1> QED BY <1>1, <1>2, <1>4, <1>11

(* The least number of a set is the one below the others.                  *)
LEMMA LeastIs ==
  ASSUME NEW S \in SUBSET Int, NEW k \in S, \A j \in S : k <= j
  PROVE  Least(S) = k
<1>1. Least(S) \in S /\ \A j \in S : Least(S) <= j
  BY Zenon DEF Least
<1>2. Least(S) <= k /\ k <= Least(S) /\ k \in Int /\ Least(S) \in Int
  BY <1>1
<1> QED BY <1>2

(* A number is so many times FF and a rest. *)
LEMMA FFsDoes ==
  ASSUME NEW n \in Nat
  PROVE  FFs(n) \in 0..n /\ FF * FFs(n) <= n /\ n < FF * FFs(n) + FF
<1>0. FF \in Nat /\ FF > 3
  BY AnnexBAssumption
<1> DEFINE Fits(q, i) == FF * q <= i /\ i < FF * q + FF
           T == {i \in Nat : \E q \in 0..i : Fits(q, i)}
<1>1. 0 \in T
  <2>1. Fits(0, 0) /\ 0 \in 0..0
    BY <1>0
  <2> QED BY <2>1
<1>2. ASSUME NEW i \in T
      PROVE  i + 1 \in T
  <2>1. i \in Nat
    OBVIOUS
  <2>2. PICK q \in 0..i : Fits(q, i)
    OBVIOUS
  <2>3. PICK h \in Nat : h = FF * q
    BY <1>0, <2>1
  <2>4. FF * (q + 1) = h + FF
    BY <1>0, <2>1, <2>3
  <2>5. q \in 0..(i + 1) /\ q + 1 \in 0..(i + 1) /\ i + 1 \in Nat
    BY <2>1
  <2>6. h <= i /\ i < h + FF
    BY <2>2, <2>3
  <2>7. CASE i + 1 < h + FF
    <3>1. Fits(q, i + 1)
      BY <1>0, <2>1, <2>3, <2>6, <2>7
    <3> HIDE DEF Fits
    <3> QED BY <2>5, <3>1
  <2>8. CASE ~(i + 1 < h + FF)
    <3>1. h + FF <= i + 1 /\ i + 1 < h + FF + FF
      BY <1>0, <2>1, <2>6, <2>8
    <3>2. Fits(q + 1, i + 1)
      BY <2>4, <3>1
    <3> HIDE DEF Fits
    <3> QED BY <2>5, <3>2
  <2> QED BY <2>7, <2>8
<1>3. T = Nat
  <2>1. T \in SUBSET Nat
    OBVIOUS
  <2> HIDE DEF T
  <2> QED BY <1>1, <1>2, <2>1, NatSetInduction
<1>4. \E q \in 0..n : Fits(q, n)
  <2>1. n \in T
    BY <1>3
  <2> QED BY <2>1
<1> HIDE DEF T
<1> QED BY <1>4, Zenon DEF FFs

(* The bytes t stand in r from pos on.                                     *)
Stands(r, pos, t) ==
  pos + Len(t) - 1 <= Len(r) /\ \A j \in 1..Len(t) : r[pos + j - 1] = t[j]

LEMMA ByteCodedDoes ==
  ASSUME NEW n \in Nat
  PROVE  /\ ByteCoded(n) \in Seq(Nat)
         /\ Len(ByteCoded(n)) = FFs(n) + 1 /\ FFs(n) \in Nat
         /\ \A k \in 1..FFs(n) : ByteCoded(n)[k] = FF
         /\ ByteCoded(n)[FFs(n) + 1] = n - FF * FFs(n)
         /\ n - FF * FFs(n) \in 0..(FF - 1)
<1>0. FF \in Nat /\ FF > 3
  BY AnnexBAssumption
<1>1. PICK q \in Nat : q = FFs(n)
  BY FFsDoes
<1>2. PICK h \in Nat : h = FF * q
  BY <1>0
<1>3. PICK rest \in Nat : rest = n - h /\ rest <= FF - 1
  BY <1>0, <1>1, <1>2, FFsDoes
<1> DEFINE c == [k \in 1..(q + 1) |-> IF k <= q THEN FF ELSE rest]
<1>4. ByteCoded(n) = c
  BY <1>1, <1>2, <1>3 DEF ByteCoded
<1>5. c \in [1..(q + 1) -> Nat] /\ q + 1 \in Nat
  BY <1>0
<1>6. c \in Seq(Nat) /\ Len(c) = q + 1
  BY <1>5
<1>7. (\A k \in 1..q : c[k] = FF) /\ c[q + 1] = rest
  <2>1. q + 1 \in 1..(q + 1) /\ ~(q + 1 <= q) /\ \A k \in 1..q : k \in 1..(q + 1) /\ k <= q
    OBVIOUS
  <2> QED BY <2>1
<1> HIDE DEF c
<1> QED BY <1>0, <1>1, <1>2, <1>3, <1>4, <1>6, <1>7

(* A byte-coded number is read back. *)
LEMMA ReadCodedDoes ==
  ASSUME NEW r \in Seq(Nat), NEW pos \in Nat \ {0}, NEW n \in Nat, Stands(r, pos, ByteCoded(n))
  PROVE  ReadCoded(r, pos) = [value |-> n, next |-> pos + Len(ByteCoded(n))]
<1>0. FF \in Nat /\ FF > 3
  BY AnnexBAssumption
<1>1. PICK q \in Nat : q = FFs(n)
  BY ByteCodedDoes
<1>2. PICK h \in Nat : h = FF * q
  BY <1>0
<1>3. PICK c \in Seq(Nat) : c = ByteCoded(n)
  BY ByteCodedDoes
<1>4. /\ Len(c) = q + 1
      /\ \A k \in 1..q : c[k] = FF
      /\ c[q + 1] = n - h /\ n - h \in 0..(FF - 1)
  BY <1>1, <1>2, <1>3, ByteCodedDoes
<1>5. pos + q <= Len(r) /\ \A j \in 1..(q + 1) : r[pos + j - 1] = c[j]
  BY <1>3, <1>4 DEF Stands
<1> DEFINE stops == {k \in pos..Len(r) : r[k] # FF}
<1>6. pos + q \in stops /\ r[pos + q] = n - h
  <2>1. q + 1 \in 1..(q + 1) /\ pos + (q + 1) - 1 = pos + q /\ pos + q \in pos..Len(r)
    BY <1>5
  <2>2. r[pos + q] = n - h
    BY <1>4, <1>5, <2>1
  <2>3. n - h # FF
    BY <1>0, <1>4
  <2> QED BY <2>1, <2>2, <2>3
<1>7. ASSUME NEW j \in stops
      PROVE  pos + q <= j
  <2>1. j \in pos..Len(r) /\ r[j] # FF /\ j \in Int
    OBVIOUS
  <2>2. CASE j < pos + q
    <3>1. PICK k \in 1..q : k = j - pos + 1 /\ pos + k - 1 = j /\ k \in 1..(q + 1)
      <4>1. j - pos + 1 \in 1..q /\ pos + (j - pos + 1) - 1 = j /\ j - pos + 1 \in 1..(q + 1)
        BY <2>1, <2>2
      <4> QED BY <4>1, Zenon
    <3>2. r[j] = FF
      BY <1>4, <1>5, <3>1
    <3> QED BY <2>1, <3>2
  <2> QED BY <2>1, <2>2
<1>8. Least(stops) = pos + q
  <2>1. stops \in SUBSET Int
    OBVIOUS
  <2> HIDE DEF stops
  <2> QED BY <1>6, <1>7, <2>1, LeastIs
<1>9. stops # {}
  BY <1>6
<1>10. ReadCoded(r, pos) = [value |-> FF * (Least(stops) - pos) + r[Least(stops)], next |-> Least(stops) + 1]
  BY <1>9 DEF ReadCoded
<1> HIDE DEF stops
<1>11. (pos + q) - pos = q /\ pos + q + 1 = pos + Len(c)
  BY <1>4
<1>12. FF * q + r[pos + q] = n
  BY <1>2, <1>4, <1>6
<1> QED BY <1>3, <1>8, <1>10, <1>11, <1>12

(* What stands somewhere, in two parts; and cut out.                       *)
LEMMA StandsConcat ==
  ASSUME NEW r \in Seq(Nat), NEW pos \in Nat \ {0}, NEW a \in Seq(Nat), NEW b \in Seq(Nat)
  PROVE  Stands(r, pos, a \o b) <=> Stands(r, pos, a) /\ Stands(r, pos + Len(a), b)
<1>1. PICK c \in Seq(Nat) : c = a \o b
  BY ConcatProperties
<1>2. /\ Len(c) = Len(a) + Len(b) /\ Len(a) \in Nat /\ Len(b) \in Nat /\ Len(r) \in Nat
      /\ \A j \in 1..Len(a) : c[j] = a[j]
      /\ \A j \in 1..Len(b) : c[Len(a) + j] = b[j]
  BY <1>1
<1>3. ASSUME Stands(r, pos, c)
      PROVE  Stands(r, pos, a) /\ Stands(r, pos + Len(a), b)
  <2>1. pos + Len(c) - 1 <= Len(r) /\ \A j \in 1..Len(c) : r[pos + j - 1] = c[j]
    BY <1>3 DEF Stands
  <2>2. \A j \in 1..Len(a) : r[pos + j - 1] = a[j]
    <3>1. \A j \in 1..Len(a) : j \in 1..Len(c)
      BY <1>2
    <3> QED BY <1>2, <2>1, <3>1
  <2>3. ASSUME NEW j \in 1..Len(b)
        PROVE  r[(pos + Len(a)) + j - 1] = b[j]
    <3>1. Len(a) + j \in 1..Len(c) /\ pos + (Len(a) + j) - 1 = (pos + Len(a)) + j - 1
      BY <1>2
    <3> QED BY <1>2, <2>1, <3>1
  <2>4. pos + Len(a) - 1 <= Len(r) /\ (pos + Len(a)) + Len(b) - 1 <= Len(r)
    BY <1>2, <2>1
  <2> QED BY <2>2, <2>3, <2>4 DEF Stands
<1>4. ASSUME Stands(r, pos, a), Stands(r, pos + Len(a), b)
      PROVE  Stands(r, pos, c)
  <2>1. /\ (pos + Len(a)) + Len(b) - 1 <= Len(r)
        /\ \A j \in 1..Len(a) : r[pos + j - 1] = a[j]
        /\ \A j \in 1..Len(b) : r[(pos + Len(a)) + j - 1] = b[j]
    BY <1>4 DEF Stands
  <2>2. ASSUME NEW j \in 1..Len(c)
        PROVE  r[pos + j - 1] = c[j]
    <3>1. CASE j <= Len(a)
      <4>1. j \in 1..Len(a)
        BY <1>2, <3>1
      <4> QED BY <1>2, <2>1, <4>1
    <3>2. CASE ~(j <= Len(a))
      <4>0. j - Len(a) \in 1..Len(b) /\ Len(a) + (j - Len(a)) = j /\ (pos + Len(a)) + (j - Len(a)) - 1 = pos + j - 1
        BY <1>2, <3>2
      <4>1. PICK k \in 1..Len(b) : Len(a) + k = j /\ (pos + Len(a)) + k - 1 = pos + j - 1
        BY <4>0, Zenon
      <4> QED BY <1>2, <2>1, <4>1
    <3> QED BY <3>1, <3>2
  <2>3. pos + Len(c) - 1 <= Len(r)
    BY <1>2, <2>1
  <2> QED BY <2>2, <2>3 DEF Stands
<1> QED BY <1>1, <1>3, <1>4

LEMMA StandsSubSeq ==
  ASSUME NEW r \in Seq(Nat), NEW pos \in Nat \ {0}, NEW t \in Seq(Nat), Stands(r, pos, t)
  PROVE  SubSeq(r, pos, pos + Len(t) - 1) = t
<1>1. Len(t) \in Nat /\ Len(r) \in Nat /\ pos + Len(t) - 1 <= Len(r) /\ \A j \in 1..Len(t) : r[pos + j - 1] = t[j]
  BY DEF Stands
<1>2. PICK u \in Seq(Nat) : u = SubSeq(r, pos, pos + Len(t) - 1)
  <2>1. \A i \in pos..(pos + Len(t) - 1) : r[i] \in Nat
    BY <1>1, SMTT(30)
  <2> QED BY <1>1, <2>1, SubSeqProperties
<1>3. Len(u) = Len(t) /\ \A i \in 1..Len(t) : u[i] = r[pos + i - 1]
  <2>1. \A i \in pos..(pos + Len(t) - 1) : i \in 1..Len(r)
    BY <1>1
  <2>2. pos \in Int /\ pos + Len(t) - 1 \in Int /\ (pos + Len(t) - 1) - pos + 1 = Len(t)
    BY <1>1
  <2> QED BY <1>1, <1>2, <2>1, <2>2
<1>4. Len(u) = Len(t) /\ \A i \in 1..Len(t) : u[i] = t[i]
  BY <1>1, <1>3
<1> QED BY <1>2, <1>4, SeqEqual

(* The messages as they are written. *)
LEMMA MessageTypes ==
  ASSUME NEW m \in Messages
  PROVE  m.type \in Nat /\ m.body \in Seq(Nat) /\ Coded(m) \in Seq(Nat) /\ Len(Coded(m)) >= 2
<1>0. FF \in Nat /\ FF > 3
  BY AnnexBAssumption
<1>1. m.type \in Nat /\ m.body \in Seq(0..FF)
  BY AnnexBAssumption DEF Messages
<1>2. m.body \in Seq(Nat) /\ Len(m.body) \in Nat
  <2>1. 0..FF \subseteq Nat
    OBVIOUS
  <2>2. Seq(0..FF) \subseteq Seq(Nat)
    BY <2>1, SeqMonotonic
  <2>3. m.body \in Seq(Nat)
    BY <1>1, <2>2
  <2> QED BY <2>3
<1>a. ASSUME NEW n \in Nat
      PROVE  ByteCoded(n) \in Seq(Nat) /\ Len(ByteCoded(n)) >= 1
  <2>1. PICK q \in Nat : q = FFs(n)
    BY ByteCodedDoes
  <2>2. ByteCoded(n) \in Seq(Nat) /\ Len(ByteCoded(n)) = q + 1
    BY <2>1, ByteCodedDoes
  <2> QED BY <2>2
<1>3. PICK a \in Seq(Nat) : a = ByteCoded(m.type) /\ Len(a) >= 1
  BY <1>1, <1>a, Zenon
<1>4. PICK b \in Seq(Nat) : b = ByteCoded(Len(m.body)) /\ Len(b) >= 1
  BY <1>2, <1>a, Zenon
<1>5. Coded(m) = a \o b \o m.body
  BY <1>3, <1>4 DEF Coded
<1>6. a \o b \o m.body \in Seq(Nat) /\ Len(a \o b \o m.body) >= 2
  <2>1. PICK c \in Seq(Nat) : c = m.body
    BY <1>2
  <2>2. PICK d \in Seq(Nat) : d = a \o b /\ Len(d) = Len(a) + Len(b)
    BY ConcatProperties
  <2>3. d \o c \in Seq(Nat) /\ Len(d \o c) = Len(d) + Len(c)
    BY ConcatProperties
  <2>4. Len(d \o c) >= 2
    <3>1. Len(a) \in Nat /\ Len(b) \in Nat /\ Len(c) \in Nat
      OBVIOUS
    <3> QED BY <1>3, <1>4, <2>2, <2>3, <3>1
  <2> QED BY <2>1, <2>2, <2>3, <2>4
<1> QED BY <1>1, <1>2, <1>5, <1>6

(* A number that is read ends within the bytes.                            *)
LEMMA ReadCodedType ==
  ASSUME NEW r \in Seq(Nat), NEW pos \in Nat \ {0}
  PROVE  /\ ReadCoded(r, pos).value \in Nat
         /\ ReadCoded(r, pos).next \in Nat
         /\ ReadCoded(r, pos).next <= Len(r) + 1
<1>0. FF \in Nat
  BY AnnexBAssumption
<1> DEFINE stops == {k \in pos..Len(r) : r[k] # FF}
<1>1. CASE stops = {}
  <2>1. ReadCoded(r, pos) = [value |-> 0, next |-> 0]
    BY <1>1 DEF ReadCoded
  <2> QED BY <2>1
<1>2. CASE stops # {}
  <2>1. PICK k \in stops : \A j \in stops : k <= j
    <3>1. stops \in SUBSET Nat
      OBVIOUS
    <3> HIDE DEF stops
    <3> QED BY <1>2, <3>1, NatMin
  <2>2. Least(stops) = k
    <3>1. stops \in SUBSET Int
      OBVIOUS
    <3> HIDE DEF stops
    <3> QED BY <2>1, <3>1, LeastIs
  <2>3. ReadCoded(r, pos) = [value |-> FF * (Least(stops) - pos) + r[Least(stops)], next |-> Least(stops) + 1]
    BY <1>2 DEF ReadCoded
  <2>4. k \in pos..Len(r) /\ k \in 1..Len(r) /\ r[k] \in Nat /\ k - pos \in Nat
    OBVIOUS
  <2> HIDE DEF stops
  <2>5. FF * (k - pos) \in Nat
    BY <1>0, <2>4
  <2> QED BY <2>2, <2>3, <2>4, <2>5
<1> QED BY <1>1, <1>2

(* What is read as a message lies within the bytes.                        *)
LEMMA MessageAtType ==
  ASSUME NEW r \in Seq(Nat), NEW pos \in Nat \ {0}
  PROVE  /\ MessageAt(r, pos) \in [type : Nat, from : Nat, size : Nat]
         /\ MessageAt(r, pos).from # 0
              => MessageAt(r, pos).from + MessageAt(r, pos).size <= Len(r) + 1
<1>1. PICK ty : ty = ReadCoded(r, pos)
  OBVIOUS
<1>2. PICK tv \in Nat, tn \in Nat : tv = ty.value /\ tn = ty.next
  BY <1>1, ReadCodedType
<1>3. PICK sz : sz = ReadCoded(r, tn)
  OBVIOUS
<1>4. NoMessage \in [type : Nat, from : Nat, size : Nat] /\ NoMessage.from = 0
  BY DEF NoMessage
<1>5. CASE (r[pos] = Stop /\ pos = Len(r)) \/ tn = 0
  <2>1. MessageAt(r, pos) = NoMessage
    BY <1>1, <1>2, <1>5, Zenon DEF MessageAt
  <2> QED BY <1>4, <2>1
<1>6. CASE ~(r[pos] = Stop /\ pos = Len(r)) /\ tn # 0
  <2>1. PICK v \in Nat, x \in Nat : v = sz.value /\ x = sz.next
    <3>1. tn \in Nat \ {0}
      BY <1>6
    <3> QED BY <1>3, <3>1, ReadCodedType
  <2>2. CASE x = 0 \/ v > Len(r) + 1 - x
    <3>1. MessageAt(r, pos) = NoMessage
      BY <1>1, <1>2, <1>3, <1>6, <2>1, <2>2, Zenon DEF MessageAt
    <3> QED BY <1>4, <3>1
  <2>3. CASE ~(x = 0 \/ v > Len(r) + 1 - x)
    <3>1. MessageAt(r, pos) = [type |-> tv, from |-> x, size |-> v]
      BY <1>1, <1>2, <1>3, <1>6, <2>1, <2>3, Zenon DEF MessageAt
    <3>2. x + v <= Len(r) + 1
      BY <2>3
    <3> QED BY <3>1, <3>2
  <2> QED BY <2>2, <2>3
<1> QED BY <1>5, <1>6

SeiStates == [pos : Nat \ {0}, found : Int]

(* None is a value found like any other.                                   *)
LEMMA NoneType == None \in Int
  BY DEF None

(* A payload is read as a number or refused. *)
LEMMA TimecodeOfType ==
  ASSUME NEW codec \in Codecs, NEW ctx \in Contexts, NEW body
  PROVE  TimecodeOf(codec, ctx, body) \in Int
<1>1. CASE codec = "hevc"
  BY <1>1, AnnexBAssumption, NoneType DEF TimecodeOf
<1>2. CASE codec # "hevc"
  BY <1>2, AnnexBAssumption, NoneType DEF TimecodeOf
<1> QED BY <1>1, <1>2

LEMMA SeiRoundType ==
  ASSUME NEW codec \in Codecs, NEW ctx \in Contexts, NEW r \in Seq(Nat), NEW s \in SeiStates
  PROVE  SeiRound(codec, ctx, r, s) \in SeiStates
<1>1. PICK p \in Nat \ {0} : p = s.pos
  BY DEF SeiStates
<1>2. PICK m \in [type : Nat, from : Nat, size : Nat] : m = MessageAt(r, p)
  BY MessageAtType
<1>3. PICK x \in Nat, v \in Nat : x = m.from /\ v = m.size
  OBVIOUS
<1>4. PICK tc \in Int :
        tc = IF m.type = Want[codec]
               THEN TimecodeOf(codec, ctx, SubSeq(r, m.from, m.from + m.size - 1)) ELSE None
  BY TimecodeOfType, NoneType
<1>5. SeiRound(codec, ctx, r, s) =
        IF p > Len(r) THEN s
        ELSE IF x = 0 THEN [pos |-> Len(r) + 1, found |-> None]
        ELSE IF tc # None THEN [pos |-> Len(r) + 1, found |-> tc]
        ELSE [pos |-> x + v, found |-> None]
  BY <1>1, <1>2, <1>3, <1>4, Zenon DEF SeiRound
<1>6. Len(r) + 1 \in Nat \ {0} /\ (x # 0 => x + v \in Nat \ {0})
  OBVIOUS
<1> QED BY <1>5, <1>6, NoneType DEF SeiStates

(* The message loop. *)
IsSeiLoop(f, n, codec, ctx, b) ==
  /\ f \in [0..n -> SeiStates] /\ f[0] = [pos |-> 1, found |-> None]
  /\ \A i \in 1..n : f[i] = SeiRound(codec, ctx, b, f[i - 1])
  /\ scan_sei_messages(codec, ctx, b) = f[n].found

LEMMA ScanSeiIsLoop ==
  ASSUME NEW codec \in Codecs, NEW ctx \in Contexts,
         NEW b \in Seq(Nat), NEW n \in Nat, n = Len(b)
  PROVE  \E f : IsSeiLoop(f, n, codec, ctx, b)
<1>0. n \in Nat
  OBVIOUS
<1> DEFINE base == [pos |-> 1, found |-> None]
           step == [i \in 1..n |-> [x \in SeiStates |-> SeiRound(codec, ctx, b, x)]]
           Loop(f) == [i \in 0..Len(b) |-> IF i = 0 THEN [pos |-> 1, found |-> None] ELSE SeiRound(codec, ctx, b, f[i - 1])]
           g == CHOOSE g : g = Loop(g)
<1>1. \A i \in 1..n, x \in SeiStates : SeiRound(codec, ctx, b, x) \in SeiStates
  BY SeiRoundType
<1>2. step \in [1..n -> [SeiStates -> SeiStates]]
  BY <1>1
<1>3. base \in SeiStates
  BY NoneType DEF SeiStates
<1> HIDE DEF base
<1>4. PICK f \in [0..n -> SeiStates] : IsLoop(f, base, step, n)
  <2> HIDE DEF step
  <2> QED BY <1>0, <1>2, <1>3, LoopExists
<1>5. \A i \in 1..n : i - 1 \in 0..n /\ i \in 0..n /\ i # 0
  BY <1>0
<1>6. ASSUME NEW i \in 0..n
      PROVE  f[i] = IF i = 0 THEN base ELSE SeiRound(codec, ctx, b, f[i - 1])
  <2>1. f[i] = IF i = 0 THEN base ELSE step[i][f[i - 1]]
    <3> HIDE DEF step
    <3>1. f = [j \in 0..n |-> IF j = 0 THEN base ELSE step[j][f[j - 1]]]
      BY <1>4 DEF IsLoop
    <3> DEFINE h == [j \in 0..n |-> IF j = 0 THEN base ELSE step[j][f[j - 1]]]
    <3>2. h[i] = IF i = 0 THEN base ELSE step[i][f[i - 1]]
      OBVIOUS
    <3>3. f = h
      BY <3>1
    <3> HIDE DEF h
    <3> QED BY <3>2, <3>3
  <2>2. CASE i = 0
    BY <2>1, <2>2
  <2>3. CASE i # 0
    <3>0. i \in 1..n /\ i - 1 \in 0..n
      BY <1>0, <2>3
    <3>1. i \in 1..n /\ f[i - 1] \in SeiStates
      BY <3>0, Zenon
    <3>2. step[i][f[i - 1]] = SeiRound(codec, ctx, b, f[i - 1])
      BY <3>1, Zenon
    <3> HIDE DEF step
    <3> QED BY <2>1, <2>3, <3>2
  <2> QED BY <2>2, <2>3
<1> HIDE DEF step
<1>7. f = Loop(f)
  <2>1. f = [i \in 0..n |-> f[i]]
    OBVIOUS
  <2>2. base = [pos |-> 1, found |-> None]
    BY Zenon DEF base
  <2> QED BY <1>6, <2>1, <2>2, Zenon
<1>8. g = Loop(g)
  <2> HIDE DEF Loop
  <2> QED BY <1>7, Zenon
<1>9. g[0] = base /\ \A i \in 1..n : g[i] = SeiRound(codec, ctx, b, g[i - 1])
  <2> DEFINE h == Loop(g)
  <2>1. 0 \in 0..n
    BY <1>0
  <2>2. h[0] = base /\ \A i \in 1..n : h[i] = SeiRound(codec, ctx, b, g[i - 1])
    <3> HIDE DEF g
    <3>1. base = [pos |-> 1, found |-> None]
      BY Zenon DEF base
    <3> QED BY <1>5, <2>1, <3>1, Zenon
  <2>3. g = h
    BY <1>8
  <2> HIDE DEF g, h
  <2> QED BY <2>2, <2>3
<1>10. f[0] = base /\ \A i \in 1..n : f[i] = SeiRound(codec, ctx, b, f[i - 1])
  <2>1. 0 \in 0..n
    BY <1>0
  <2> HIDE DEF g, Loop
  <2>2. f[0] = base
    BY <1>6, <2>1
  <2>3. ASSUME NEW i \in 1..n
        PROVE  f[i] = SeiRound(codec, ctx, b, f[i - 1])
    BY <1>5, <1>6, <2>3, Zenon
  <2> QED BY <2>2, <2>3
<1>11. scan_sei_messages(codec, ctx, b) = g[n].found
  BY Zenon DEF scan_sei_messages
<1> HIDE DEF g
<1>12. g[n] = f[n]
  <2> DEFINE P == {i \in 0..n : g[i] = f[i]}
  <2>1. 0 \in P
    BY <1>0, <1>9, <1>10
  <2>2. \A i \in 1..n : i - 1 \in P => i \in P
    BY <1>5, <1>9, <1>10
  <2>3. P = 0..n
    <3>1. P \in SUBSET (0..n)
      OBVIOUS
    <3> HIDE DEF P
    <3> QED BY <1>0, <2>1, <2>2, <3>1, LoopInduction
  <2>4. n \in 0..n
    BY <1>0
  <2>5. n \in P
    BY <2>3, <2>4, Zenon
  <2> QED BY <2>5
<1>13. base = [pos |-> 1, found |-> None]
  BY Zenon DEF base
<1>14. IsSeiLoop(f, n, codec, ctx, b)
  BY <1>10, <1>11, <1>12, <1>13, Zenon DEF IsSeiLoop
<1> QED BY <1>14

(* A message is read back where it stands. *)
LEMMA MessageIsRead ==
  ASSUME NEW r \in Seq(Nat), NEW pos \in Nat \ {0}, NEW m \in Messages,
         Stands(r, pos, Coded(m)), pos + Len(Coded(m)) <= Len(r)
  PROVE  \E from \in Nat \ {0} :
           /\ MessageAt(r, pos) = [type |-> m.type, from |-> from, size |-> Len(m.body)]
           /\ from + Len(m.body) = pos + Len(Coded(m))
           /\ SubSeq(r, from, from + Len(m.body) - 1) = m.body
<1>0. m.type \in Nat /\ m.body \in Seq(Nat) /\ Coded(m) \in Seq(Nat) /\ Len(Coded(m)) >= 2
  BY MessageTypes
<1>1. PICK c \in Seq(Nat) : c = m.body
  BY <1>0
<1>2. PICK l \in Nat : l = Len(c)
  OBVIOUS
<1>3. PICK a \in Seq(Nat) : a = ByteCoded(m.type)
  BY <1>0, ByteCodedDoes
<1>4. PICK b \in Seq(Nat) : b = ByteCoded(l)
  BY ByteCodedDoes
<1>5. PICK d \in Seq(Nat) : d = a \o b /\ Len(d) = Len(a) + Len(b)
  BY ConcatProperties
<1>6. Coded(m) = d \o c /\ Len(Coded(m)) = Len(d) + Len(c)
  <2>1. Coded(m) = d \o c
    BY <1>1, <1>2, <1>3, <1>4, <1>5 DEF Coded
  <2> QED BY <2>1, ConcatProperties
<1>7. Stands(r, pos, d) /\ Stands(r, pos + Len(d), c)
  BY <1>6, StandsConcat
<1>8. Stands(r, pos, a) /\ Stands(r, pos + Len(a), b)
  BY <1>5, <1>7, StandsConcat
<1>9. PICK la \in Nat, lb \in Nat : la = Len(a) /\ lb = Len(b)
  OBVIOUS
<1>10. PICK p \in Nat \ {0} : p = pos + la
  OBVIOUS
<1>11. PICK from \in Nat \ {0} : from = pos + Len(d) /\ from = p + lb /\ from + l = pos + Len(Coded(m))
  <2>1. pos + (la + lb) \in Nat \ {0} /\ pos + (la + lb) = (pos + la) + lb /\ (pos + (la + lb)) + l = pos + ((la + lb) + l)
    OBVIOUS
  <2> QED BY <1>2, <1>5, <1>6, <1>9, <1>10, <2>1
<1>12. ReadCoded(r, pos) = [value |-> m.type, next |-> p]
  <2>1. Stands(r, pos, ByteCoded(m.type))
    BY <1>3, <1>8
  <2>2. ReadCoded(r, pos) = [value |-> m.type, next |-> pos + Len(ByteCoded(m.type))]
    BY <1>0, <2>1, ReadCodedDoes
  <2> QED BY <1>3, <1>9, <1>10, <2>2
<1>13. ReadCoded(r, p) = [value |-> l, next |-> from]
  <2>1. Stands(r, p, ByteCoded(l))
    BY <1>4, <1>8, <1>9, <1>10
  <2>2. ReadCoded(r, p) = [value |-> l, next |-> p + Len(ByteCoded(l))]
    BY <2>1, ReadCodedDoes
  <2> QED BY <1>4, <1>9, <1>11, <2>2
<1>14. pos # Len(r) /\ from + l <= Len(r)
  BY <1>0, <1>11
<1>15. ~(l > Len(r) + 1 - from)
  BY <1>14
<1>16. MessageAt(r, pos) = [type |-> m.type, from |-> from, size |-> l]
  <2>1. ReadCoded(r, pos).value = m.type /\ ReadCoded(r, pos).next = p /\ p # 0
    BY <1>12
  <2>2. ReadCoded(r, p).value = l /\ ReadCoded(r, p).next = from /\ from # 0
    BY <1>13
  <2> QED BY <1>14, <1>15, <2>1, <2>2, Zenon DEF MessageAt
<1>17. SubSeq(r, from, from + l - 1) = c
  <2>1. Stands(r, from, c)
    BY <1>7, <1>11
  <2> QED BY <1>2, <2>1, StandsSubSeq
<1> QED BY <1>1, <1>2, <1>11, <1>16, <1>17

(* What the parser makes of a message of the wanted type. *)
Tc(codec, ctx, m) ==
  IF m.type = Want[codec] THEN TimecodeOf(codec, ctx, m.body) ELSE None

LEMMA TcType ==
  ASSUME NEW codec \in Codecs, NEW ctx \in Contexts, NEW m
  PROVE  Tc(codec, ctx, m) \in Int
  BY TimecodeOfType, NoneType DEF Tc

(* The round that meets a message, and the one that meets the stop byte. *)
LEMMA SeiRoundDoes ==
  ASSUME NEW codec \in Codecs, NEW ctx \in Contexts,
         NEW r \in Seq(Nat), NEW pos \in Nat \ {0}, NEW m \in Messages,
         Stands(r, pos, Coded(m)), pos + Len(Coded(m)) <= Len(r)
  PROVE  SeiRound(codec, ctx, r, [pos |-> pos, found |-> None]) =
           IF Tc(codec, ctx, m) # None THEN [pos |-> Len(r) + 1, found |-> Tc(codec, ctx, m)]
           ELSE [pos |-> pos + Len(Coded(m)), found |-> None]
<1>1. PICK from \in Nat \ {0} :
        /\ MessageAt(r, pos) = [type |-> m.type, from |-> from, size |-> Len(m.body)]
        /\ from + Len(m.body) = pos + Len(Coded(m))
        /\ SubSeq(r, from, from + Len(m.body) - 1) = m.body
  BY MessageIsRead
<1>2. ~(pos > Len(r))
  BY MessageTypes
<1>3. PICK s : s = [pos |-> pos, found |-> None]
  OBVIOUS
<1>4. s.pos = pos
  BY <1>3
<1>5. PICK w : w = MessageAt(r, pos)
  OBVIOUS
<1>6. w.type = m.type /\ w.from = from /\ w.size = Len(m.body) /\ w.from # 0
  BY <1>1, <1>5
<1>7. PICK tc : tc = IF w.type = Want[codec]
                       THEN TimecodeOf(codec, ctx, SubSeq(r, w.from, w.from + w.size - 1)) ELSE None
  OBVIOUS
<1>8. tc = Tc(codec, ctx, m)
  BY <1>1, <1>6, <1>7, Zenon DEF Tc
<1>9. SeiRound(codec, ctx, r, s) = IF tc # None THEN [pos |-> Len(r) + 1, found |-> tc]
                                   ELSE [pos |-> w.from + w.size, found |-> None]
  BY <1>2, <1>4, <1>5, <1>6, <1>7, Zenon DEF SeiRound
<1> QED BY <1>1, <1>3, <1>6, <1>8, <1>9, Zenon

LEMMA SeiRoundStops ==
  ASSUME NEW codec \in Codecs, NEW ctx \in Contexts,
         NEW r \in Seq(Nat), r # <<>>, r[Len(r)] = Stop
  PROVE  SeiRound(codec, ctx, r, [pos |-> Len(r), found |-> None]) = [pos |-> Len(r) + 1, found |-> None]
<1>1. PICK l \in Nat \ {0} : l = Len(r) /\ ~(l > Len(r))
  OBVIOUS
<1>2. MessageAt(r, l) = NoMessage
  BY <1>1, Zenon DEF MessageAt
<1>3. MessageAt(r, l).from = 0
  BY <1>2 DEF NoMessage
<1>4. PICK s : s = [pos |-> l, found |-> None]
  OBVIOUS
<1>5. s.pos = l
  BY <1>4
<1>6. SeiRound(codec, ctx, r, s) = [pos |-> l + 1, found |-> None]
  BY <1>1, <1>3, <1>5, Zenon DEF SeiRound
<1> QED BY <1>1, <1>4, <1>6

(* Once the loop is left nothing changes. *)
LEMMA SeiLeft ==
  ASSUME NEW codec \in Codecs, NEW ctx \in Contexts,
         NEW r \in Seq(Nat), NEW f \in [0..Len(r) -> SeiStates],
         \A i \in 1..Len(r) : f[i] = SeiRound(codec, ctx, r, f[i - 1]),
         NEW k \in 0..Len(r), f[k].pos > Len(r)
  PROVE  f[Len(r)] = f[k]
<1>0. PICK n \in Nat : n = Len(r)
  OBVIOUS
<1> DEFINE P == {i \in 0..n : i >= k => f[i] = f[k]}
<1>1. 0 \in P
  BY <1>0
<1>2. ASSUME NEW i \in 1..n, i - 1 \in P
      PROVE  i \in P
  <2>1. CASE i - 1 >= k
    <3>1. f[i - 1] = f[k] /\ i \in 1..Len(r) /\ i \in 0..n
      BY <1>0, <1>2, <2>1
    <3>2. f[i] = SeiRound(codec, ctx, r, f[k])
      BY <3>1
    <3>3. SeiRound(codec, ctx, r, f[k]) = f[k]
      BY Zenon DEF SeiRound
    <3> QED BY <3>1, <3>2, <3>3
  <2>2. CASE ~(i - 1 >= k)
    <3>1. i \in 0..n /\ (i >= k => i = k)
      BY <1>0, <2>2
    <3> QED BY <3>1
  <2> QED BY <2>1, <2>2
<1>3. P = 0..n
  <2>1. P \in SUBSET (0..n)
    OBVIOUS
  <2> HIDE DEF P
  <2> QED BY <1>0, <1>1, <1>2, <2>1, LoopInduction
<1>4. n \in P /\ n >= k
  BY <1>0, <1>3
<1> QED BY <1>0, <1>4

(* The timecode the messages mean, None if none is wanted.                 *)
Found(codec, ctx, msgs) ==
  IF Wanted(codec, ctx, msgs) = {} THEN None ELSE FirstWanted(codec, ctx, msgs)

LEMMA FoundInOne ==
  ASSUME NEW codec \in Codecs, NEW ctx \in Contexts, NEW m \in Messages
  PROVE  /\ Found(codec, ctx, <<m>>) = Tc(codec, ctx, m)
         /\ Wanted(codec, ctx, <<m>>) # {} <=> Tc(codec, ctx, m) # None
<1>1. PICK t : t = <<m>>
  OBVIOUS
<1>2. Len(t) = 1 /\ t[1] = m
  BY <1>1
<1>3. CASE Tc(codec, ctx, m) # None
  <2>0. m.type = Want[codec] /\ TimecodeOf(codec, ctx, m.body) = Tc(codec, ctx, m)
    BY <1>3, Zenon DEF Tc
  <2>1. Wanted(codec, ctx, t) = {1}
    BY <1>2, <1>3, <2>0 DEF Wanted
  <2>2. Least({1}) = 1
    BY LeastIs
  <2>3. FirstWanted(codec, ctx, t) = Tc(codec, ctx, m)
    BY <1>2, <2>0, <2>1, <2>2 DEF FirstWanted
  <2> QED BY <1>1, <1>3, <2>1, <2>3 DEF Found
<1>4. CASE Tc(codec, ctx, m) = None
  <2>0. ~(m.type = Want[codec] /\ TimecodeOf(codec, ctx, m.body) # None)
    BY <1>4, Zenon DEF Tc
  <2>1. Wanted(codec, ctx, t) = {}
    BY <1>2, <2>0 DEF Wanted
  <2> QED BY <1>1, <1>4, <2>1 DEF Found
<1> QED BY <1>3, <1>4

LEMMA FoundInTwo ==
  ASSUME NEW codec \in Codecs, NEW ctx \in Contexts, NEW m \in Messages, NEW o \in Messages
  PROVE  /\ Found(codec, ctx, <<m, o>>) =
              IF Tc(codec, ctx, m) # None THEN Tc(codec, ctx, m) ELSE Tc(codec, ctx, o)
         /\ Wanted(codec, ctx, <<m, o>>) # {}
              <=> Tc(codec, ctx, m) # None \/ Tc(codec, ctx, o) # None
<1>1. PICK t : t = <<m, o>>
  OBVIOUS
<1>2. Len(t) = 2 /\ t[1] = m /\ t[2] = o
  BY <1>1
<1>a. 1 \in 1..2 /\ 2 \in 1..2 /\ \A k \in 1..2 : k = 1 \/ k = 2
  OBVIOUS
<1>b. ASSUME NEW x
      PROVE  /\ Tc(codec, ctx, x) # None
                  <=> x.type = Want[codec] /\ TimecodeOf(codec, ctx, x.body) # None
             /\ Tc(codec, ctx, x) # None => TimecodeOf(codec, ctx, x.body) = Tc(codec, ctx, x)
  BY Zenon DEF Tc
<1>3. CASE Tc(codec, ctx, m) # None
  <2>1. 1 \in Wanted(codec, ctx, t) /\ Wanted(codec, ctx, t) \in SUBSET Int
        /\ \A j \in Wanted(codec, ctx, t) : 1 <= j
    BY <1>2, <1>3, <1>b DEF Wanted
  <2>2. Least(Wanted(codec, ctx, t)) = 1
    BY <2>1, LeastIs
  <2>3. FirstWanted(codec, ctx, t) = Tc(codec, ctx, m)
    BY <1>2, <1>3, <1>b, <2>2 DEF FirstWanted
  <2> QED BY <1>1, <1>3, <2>1, <2>3 DEF Found
<1>4. CASE Tc(codec, ctx, m) = None /\ Tc(codec, ctx, o) # None
  <2>1. Wanted(codec, ctx, t) = {2}
    BY <1>2, <1>4, <1>a, <1>b DEF Wanted
  <2>2. Least({2}) = 2
    BY LeastIs
  <2>3. FirstWanted(codec, ctx, t) = Tc(codec, ctx, o)
    BY <1>2, <1>4, <1>b, <2>1, <2>2 DEF FirstWanted
  <2> QED BY <1>1, <1>4, <2>1, <2>3 DEF Found
<1>5. CASE Tc(codec, ctx, m) = None /\ Tc(codec, ctx, o) = None
  <2>1. Wanted(codec, ctx, t) = {}
    BY <1>2, <1>5, <1>a, <1>b DEF Wanted
  <2> QED BY <1>1, <1>5, <2>1 DEF Found
<1> QED BY <1>3, <1>4, <1>5

(* The bytes with the stop byte behind them. *)
LEMMA StopBehind ==
  ASSUME NEW x \in Seq(Nat)
  PROVE  /\ Append(x, Stop) \in Seq(Nat) /\ Len(Append(x, Stop)) = Len(x) + 1
         /\ Append(x, Stop)[Len(x) + 1] = Stop
         /\ Stands(Append(x, Stop), 1, x)
<1>1. Stop \in Nat
  BY AnnexBAssumption
<1>2. PICK r \in Seq(Nat) : r = Append(x, Stop)
  BY <1>1, AppendProperties
<1>3. Len(r) = Len(x) + 1 /\ r[Len(x) + 1] = Stop /\ \A j \in 1..Len(x) : r[j] = x[j]
  BY <1>1, <1>2
<1>4. Stands(r, 1, x)
  <2>1. \A j \in 1..Len(x) : 1 + j - 1 = j
    OBVIOUS
  <2>2. 1 + Len(x) - 1 <= Len(r)
    BY <1>3
  <2> QED BY <1>3, <2>1, <2>2 DEF Stands
<1> QED BY <1>2, <1>3, <1>4

(* One message and the stop byte are read to the end. *)
LEMMA OneMessageScanned ==
  ASSUME NEW codec \in Codecs, NEW ctx \in Contexts, NEW m \in Messages
  PROVE  scan_sei_messages(codec, ctx, Append(Coded(m), Stop)) =
           Tc(codec, ctx, m)
<1>1. PICK x \in Seq(Nat) : x = Coded(m) /\ Len(x) >= 2
  BY MessageTypes
<1>2. PICK r \in Seq(Nat) : r = Append(x, Stop)
  BY StopBehind
<1>3. Len(r) = Len(x) + 1 /\ r[Len(x) + 1] = Stop /\ Stands(r, 1, x)
  BY <1>2, StopBehind
<1>4. PICK n \in Nat : n = Len(r) /\ n >= 3
  BY <1>1, <1>3
<1>5. PICK f \in [0..n -> SeiStates] :
        /\ f[0] = [pos |-> 1, found |-> None]
        /\ \A i \in 1..n : f[i] = SeiRound(codec, ctx, r, f[i - 1])
        /\ scan_sei_messages(codec, ctx, r) = f[n].found
  <2>1. n = Len(r)
    BY <1>4
  <2>2. PICK g : IsSeiLoop(g, n, codec, ctx, r)
    BY <2>1, ScanSeiIsLoop
  <2> QED BY <2>2 DEF IsSeiLoop
<1>6. f[1] = SeiRound(codec, ctx, r, f[0]) /\ f[2] = SeiRound(codec, ctx, r, f[1])
  <2>1. 1 \in 1..n /\ 2 \in 1..n /\ 1 - 1 = 0 /\ 2 - 1 = 1
    BY <1>4
  <2> QED BY <1>5, <2>1
<1>7. f[1] = IF Tc(codec, ctx, m) # None THEN [pos |-> n + 1, found |-> Tc(codec, ctx, m)]
             ELSE [pos |-> n, found |-> None]
  <2>1. 1 \in Nat \ {0} /\ 1 + Len(x) <= Len(r) /\ 1 + Len(x) = n
    BY <1>3, <1>4
  <2>2. SeiRound(codec, ctx, r, [pos |-> 1, found |-> None]) =
          IF Tc(codec, ctx, m) # None THEN [pos |-> Len(r) + 1, found |-> Tc(codec, ctx, m)]
          ELSE [pos |-> 1 + Len(Coded(m)), found |-> None]
    BY <1>1, <1>3, <2>1, SeiRoundDoes
  <2> QED BY <1>1, <1>4, <1>5, <1>6, <2>1, <2>2
<1>8. ASSUME NEW k \in 0..n, NEW v, f[k] = [pos |-> n + 1, found |-> v]
      PROVE  scan_sei_messages(codec, ctx, r) = v
  <2>1. f[k].pos > Len(r)
    BY <1>4, <1>8
  <2>2. f[Len(r)] = f[k]
    BY <1>4, <1>5, <2>1, SeiLeft
  <2> QED BY <1>4, <1>5, <1>8, <2>2
<1>9. CASE Tc(codec, ctx, m) # None
  <2>1. 1 \in 0..n /\ f[1] = [pos |-> n + 1, found |-> Tc(codec, ctx, m)]
    BY <1>4, <1>7, <1>9
  <2> QED BY <1>1, <1>2, <1>8, <1>9, <2>1
<1>10. CASE Tc(codec, ctx, m) = None
  <2>1. SeiRound(codec, ctx, r, [pos |-> n, found |-> None]) = [pos |-> n + 1, found |-> None]
    <3>1. r # <<>> /\ r[Len(r)] = Stop
      BY <1>3, <1>4
    <3> QED BY <1>4, <3>1, SeiRoundStops
  <2>2. 2 \in 0..n /\ f[2] = [pos |-> n + 1, found |-> None]
    BY <1>4, <1>6, <1>7, <1>10, <2>1
  <2> QED BY <1>1, <1>2, <1>8, <1>10, <2>2
<1> QED BY <1>9, <1>10

LEMMA TwoMessagesScanned ==
  ASSUME NEW codec \in Codecs, NEW ctx \in Contexts, NEW m \in Messages, NEW o \in Messages
  PROVE  scan_sei_messages(codec, ctx, Append(Coded(m) \o Coded(o), Stop)) =
           IF Tc(codec, ctx, m) # None THEN Tc(codec, ctx, m) ELSE Tc(codec, ctx, o)
<1>0. PICK y \in Seq(Nat), z \in Seq(Nat) : y = Coded(m) /\ z = Coded(o) /\ Len(y) >= 2 /\ Len(z) >= 2
  BY MessageTypes
<1>1. PICK x \in Seq(Nat) : x = y \o z /\ Len(x) = Len(y) + Len(z)
  BY ConcatProperties
<1>2. PICK r \in Seq(Nat) : r = Append(x, Stop)
  BY StopBehind
<1>3. Len(r) = Len(x) + 1 /\ r[Len(x) + 1] = Stop /\ Stands(r, 1, x)
  BY <1>2, StopBehind
<1>a. Stands(r, 1, y) /\ Stands(r, 1 + Len(y), z)
  <2>1. 1 \in Nat \ {0}
    OBVIOUS
  <2> QED BY <1>1, <1>3, <2>1, StandsConcat
<1>4. PICK n \in Nat : n = Len(r) /\ n >= 5
  <2>1. Len(y) \in Nat /\ Len(z) \in Nat /\ Len(r) = Len(y) + Len(z) + 1
    BY <1>1, <1>3
  <2>2. Len(r) \in Nat /\ Len(r) >= 5
    BY <1>0, <2>1
  <2> QED BY <2>2
<1>b. PICK p \in Nat \ {0} : p = 1 + Len(y) /\ p + Len(z) = n
  <2>1. 1 + Len(y) \in Nat \ {0} /\ (1 + Len(y)) + Len(z) = n
    BY <1>1, <1>3, <1>4
  <2> QED BY <2>1
<1>5. PICK f \in [0..n -> SeiStates] :
        /\ f[0] = [pos |-> 1, found |-> None]
        /\ \A i \in 1..n : f[i] = SeiRound(codec, ctx, r, f[i - 1])
        /\ scan_sei_messages(codec, ctx, r) = f[n].found
  <2>1. n = Len(r)
    BY <1>4
  <2>2. PICK g : IsSeiLoop(g, n, codec, ctx, r)
    BY <2>1, ScanSeiIsLoop
  <2> QED BY <2>2 DEF IsSeiLoop
<1>6. f[1] = SeiRound(codec, ctx, r, f[0]) /\ f[2] = SeiRound(codec, ctx, r, f[1]) /\ f[3] = SeiRound(codec, ctx, r, f[2])
  <2>1. 1 \in 1..n /\ 2 \in 1..n /\ 3 \in 1..n /\ 1 - 1 = 0 /\ 2 - 1 = 1 /\ 3 - 1 = 2
    BY <1>4
  <2> QED BY <1>5, <2>1
<1>7. f[1] = IF Tc(codec, ctx, m) # None THEN [pos |-> n + 1, found |-> Tc(codec, ctx, m)]
             ELSE [pos |-> p, found |-> None]
  <2>1. 1 \in Nat \ {0} /\ 1 + Len(y) <= Len(r)
    BY <1>1, <1>3
  <2>2. SeiRound(codec, ctx, r, [pos |-> 1, found |-> None]) =
          IF Tc(codec, ctx, m) # None THEN [pos |-> Len(r) + 1, found |-> Tc(codec, ctx, m)]
          ELSE [pos |-> 1 + Len(Coded(m)), found |-> None]
    BY <1>0, <1>a, <2>1, SeiRoundDoes
  <2> QED BY <1>0, <1>4, <1>5, <1>6, <1>b, <2>2
<1>c. SeiRound(codec, ctx, r, [pos |-> p, found |-> None]) =
        IF Tc(codec, ctx, o) # None THEN [pos |-> n + 1, found |-> Tc(codec, ctx, o)] ELSE [pos |-> n, found |-> None]
  <2>1. Stands(r, p, Coded(o)) /\ p + Len(Coded(o)) <= Len(r)
    BY <1>0, <1>4, <1>a, <1>b
  <2>2. SeiRound(codec, ctx, r, [pos |-> p, found |-> None]) =
          IF Tc(codec, ctx, o) # None THEN [pos |-> Len(r) + 1, found |-> Tc(codec, ctx, o)]
          ELSE [pos |-> p + Len(Coded(o)), found |-> None]
    BY <2>1, SeiRoundDoes
  <2> QED BY <1>0, <1>4, <1>b, <2>2
<1>8. ASSUME NEW k \in 0..n, NEW v, f[k] = [pos |-> n + 1, found |-> v]
      PROVE  scan_sei_messages(codec, ctx, r) = v
  <2>1. f[k].pos > Len(r)
    BY <1>4, <1>8
  <2>2. f[Len(r)] = f[k]
    BY <1>4, <1>5, <2>1, SeiLeft
  <2> QED BY <1>4, <1>5, <1>8, <2>2
<1>9. CASE Tc(codec, ctx, m) # None
  <2>1. 1 \in 0..n /\ f[1] = [pos |-> n + 1, found |-> Tc(codec, ctx, m)]
    BY <1>4, <1>7, <1>9
  <2> QED BY <1>0, <1>1, <1>2, <1>8, <1>9, <2>1
<1>10. CASE Tc(codec, ctx, m) = None /\ Tc(codec, ctx, o) # None
  <2>1. 2 \in 0..n /\ f[2] = [pos |-> n + 1, found |-> Tc(codec, ctx, o)]
    BY <1>4, <1>6, <1>7, <1>10, <1>c
  <2> QED BY <1>0, <1>1, <1>2, <1>8, <1>10, <2>1
<1>11. CASE Tc(codec, ctx, m) = None /\ Tc(codec, ctx, o) = None
  <2>1. SeiRound(codec, ctx, r, [pos |-> n, found |-> None]) = [pos |-> n + 1, found |-> None]
    <3>1. r # <<>> /\ r[Len(r)] = Stop
      BY <1>3, <1>4
    <3> QED BY <1>4, <3>1, SeiRoundStops
  <2>2. f[2] = [pos |-> n, found |-> None]
    BY <1>6, <1>7, <1>11, <1>c
  <2>3. 3 \in 0..n /\ f[3] = [pos |-> n + 1, found |-> None]
    BY <1>4, <1>6, <2>1, <2>2
  <2> QED BY <1>0, <1>1, <1>2, <1>8, <1>11, <2>3
<1> QED BY <1>9, <1>10, <1>11

(* What a NAL carries, and what becomes of it. *)
LEMMA PayloadDoes ==
  ASSUME NEW codec \in Codecs, NEW ctx \in Contexts, NEW nal \in Nals(codec)
  PROVE  /\ Payload(nal) \in Seq(Nat)
         /\ nal.header \in Headers[codec]
         /\ IsSei(codec, nal.header)
              => scan_sei_messages(codec, ctx, Append(Payload(nal), Stop)) = Found(codec, ctx, nal.msgs)
         /\ ~IsSei(codec, nal.header) => Found(codec, ctx, nal.msgs) = None /\ Payload(nal) = nal.body
         /\ Found(codec, ctx, nal.msgs) = None <=> Wanted(codec, ctx, nal.msgs) = {}
<1> DEFINE seis == {h \in Headers[codec] : IsSei(codec, h)}
           others == {h \in Headers[codec] : ~IsSei(codec, h)}
<1>1. CASE nal \in [header : seis, msgs : {<<m>> : m \in Messages}, body : {<<>>}]
  <2>1. PICK m \in Messages : nal.msgs = <<m>>
    BY <1>1
  <2>2. Len(<<m>>) = 1 /\ <<m>>[1] = m
    OBVIOUS
  <2>3. Payload(nal) = Coded(m)
    BY <2>1, <2>2 DEF Payload
  <2>4. nal.header \in Headers[codec] /\ IsSei(codec, nal.header)
    BY <1>1
  <2>5. scan_sei_messages(codec, ctx, Append(Coded(m), Stop)) = Found(codec, ctx, <<m>>)
    <3>1. scan_sei_messages(codec, ctx, Append(Coded(m), Stop)) = Tc(codec, ctx, m)
      BY OneMessageScanned, Zenon
    <3>2. Found(codec, ctx, <<m>>) = Tc(codec, ctx, m)
      BY FoundInOne, Zenon
    <3> QED BY <3>1, <3>2, Zenon
  <2>6. Found(codec, ctx, <<m>>) = None <=> Wanted(codec, ctx, <<m>>) = {}
    BY FoundInOne, Zenon
  <2>7. Coded(m) \in Seq(Nat)
    BY MessageTypes
  <2> QED BY <2>1, <2>3, <2>4, <2>5, <2>6, <2>7
<1>2. CASE nal \in [header : seis, msgs : {<<m, n>> : m, n \in Messages}, body : {<<>>}]
  <2>1. PICK m \in Messages, o \in Messages : nal.msgs = <<m, o>>
    BY <1>2
  <2>2. Len(<<m, o>>) = 2 /\ <<m, o>>[1] = m /\ <<m, o>>[2] = o
    OBVIOUS
  <2>3. Payload(nal) = Coded(m) \o Coded(o)
    BY <2>1, <2>2 DEF Payload
  <2>4. nal.header \in Headers[codec] /\ IsSei(codec, nal.header)
    BY <1>2
  <2>5. Coded(m) \o Coded(o) \in Seq(Nat)
    BY MessageTypes, ConcatProperties
  <2>6. scan_sei_messages(codec, ctx, Append(Coded(m) \o Coded(o), Stop)) = Found(codec, ctx, <<m, o>>)
    <3>1. PICK v : v = IF Tc(codec, ctx, m) # None THEN Tc(codec, ctx, m) ELSE Tc(codec, ctx, o)
      OBVIOUS
    <3>2. scan_sei_messages(codec, ctx, Append(Coded(m) \o Coded(o), Stop)) = v
      BY <3>1, TwoMessagesScanned
    <3>3. Found(codec, ctx, <<m, o>>) = v
      BY <3>1, FoundInTwo
    <3> QED BY <3>2, <3>3
  <2>7. Found(codec, ctx, <<m, o>>) = None <=> Wanted(codec, ctx, <<m, o>>) = {}
    BY FoundInTwo
  <2> QED BY <2>1, <2>3, <2>4, <2>5, <2>6, <2>7
<1>3. CASE nal \in [header : others, msgs : {<<>>}, body : Contents]
  <2>1. nal.header \in Headers[codec] /\ ~IsSei(codec, nal.header) /\ nal.msgs = <<>> /\ nal.body \in Contents
    BY <1>3
  <2>2. nal.body \in Seq(Nat)
    <3>1. FF \in Nat /\ nal.body \in Seq(0..FF)
      BY <2>1, AnnexBAssumption
    <3>2. 0..FF \subseteq Nat
      BY <3>1
    <3>3. Seq(0..FF) \subseteq Seq(Nat)
      BY <3>2, SeqMonotonic
    <3> QED BY <3>1, <3>3
  <2>3. Len(<<>>) = 0
    OBVIOUS
  <2>4. Payload(nal) = nal.body
    BY <2>1, <2>3 DEF Payload
  <2>5. Wanted(codec, ctx, <<>>) = {}
    BY <2>3 DEF Wanted
  <2>6. Found(codec, ctx, <<>>) = None
    BY <2>5 DEF Found
  <2> QED BY <2>1, <2>2, <2>4, <2>5, <2>6
<1>4. \/ nal \in [header : seis, msgs : {<<m>> : m \in Messages}, body : {<<>>}]
      \/ nal \in [header : seis, msgs : {<<m, n>> : m, n \in Messages}, body : {<<>>}]
      \/ nal \in [header : others, msgs : {<<>>}, body : Contents]
  BY DEF Nals
<1> HIDE DEF seis, others
<1> QED BY <1>1, <1>2, <1>3, <1>4

(* A NAL starts with its header, ends with the stop byte, has no start     *)
(* code in it, and its payload is read as it was written.                  *)
LEMMA EncodedNalDoes ==
  ASSUME NEW codec \in Codecs, NEW nal \in Nals(codec)
  PROVE  /\ EncodedNal(nal) \in Seq(Nat) /\ Len(EncodedNal(nal)) >= 2
         /\ Len(EncodedNal(nal)) > HeaderLen(codec)
         /\ EncodedNal(nal)[Len(EncodedNal(nal))] # 0
         /\ Clean(EncodedNal(nal))
         /\ EncodedNal(nal)[1] = nal.header[1]
         /\ rbsp_unescape(SubSeq(EncodedNal(nal), HeaderLen(codec) + 1, Len(EncodedNal(nal)))) =
              Append(Payload(nal), Stop)
<1>0. Stop \in Nat /\ Stop # 0 /\ NoContext \in Contexts
  BY AnnexBAssumption
<1>1. PICK h \in Seq(Nat), d \in Nat :
        h = nal.header /\ d = HeaderLen(codec) /\ d \in {1, 2} /\ Len(h) = d /\ h[d] # 0
  <2>1. nal.header \in Headers[codec]
    BY <1>0, PayloadDoes
  <2>2. Headers[codec] \subseteq Seq(0..255)
    BY AnnexBAssumption
  <2>3. Seq(0..255) \subseteq Seq(Nat)
    <3>1. 0..255 \subseteq Nat
      OBVIOUS
    <3> QED BY <3>1, SeqMonotonic
  <2>4. nal.header \in Seq(Nat)
    BY <2>1, <2>2, <2>3
  <2>5. Len(nal.header) = HeaderLen(codec) /\ nal.header[HeaderLen(codec)] # 0
    BY <2>1, AnnexBAssumption, Zenon
  <2>6. HeaderLen(codec) \in {1, 2}
    BY DEF HeaderLen
  <2> QED BY <2>4, <2>5, <2>6
<1>a. Len(h) = d /\ (d = 1 \/ d = 2)
  BY <1>1
<1>b. d >= 1
  BY <1>a
<1>2. PICK p \in Seq(Nat) : p = Payload(nal)
  BY <1>0, PayloadDoes
<1>3. PICK s \in Seq(Nat) : s = Append(p, Stop) /\ Len(s) = Len(p) + 1 /\ s[Len(p) + 1] = Stop
  BY StopBehind
<1>4. Len(s) >= 1 /\ s # <<>> /\ s[Len(s)] = Stop
  <2>1. Len(p) \in Nat
    OBVIOUS
  <2>2. Len(s) >= 1 /\ s[Len(s)] = Stop
    BY <1>3, <2>1
  <2>3. Len(<<>>) = 0
    OBVIOUS
  <2> QED BY <2>2, <2>3
<1>5. PICK x \in Seq(Nat) : x = Escaped(s) /\ Clean(x) /\ Len(x) >= Len(s) /\ x[Len(x)] = Stop
  BY <1>4, EscapedIsClean
<1>6. PICK l \in Nat : l = Len(x) /\ l >= 1
  BY <1>4, <1>5
<1>7. PICK e \in Seq(Nat) : e = h \o x
  BY ConcatProperties
<1>8. /\ Len(e) = d + l
      /\ \A i \in 1..d : e[i] = h[i]
      /\ \A i \in 1..l : e[d + i] = x[i]
  <2>1. Len(e) = Len(h) + Len(x) /\ \A i \in 1..(Len(h) + Len(x)) : e[i] = IF i <= Len(h) THEN h[i] ELSE x[i - Len(h)]
    BY <1>7, ConcatProperties
  <2>2. ASSUME NEW i \in 1..d
        PROVE  e[i] = h[i]
    <3>1. i \in 1..(Len(h) + Len(x)) /\ i <= Len(h)
      BY <1>1
    <3> QED BY <2>1, <3>1
  <2>3. ASSUME NEW i \in 1..l
        PROVE  e[d + i] = x[i]
    <3>1. d + i \in 1..(d + l) /\ ~(d + i <= d) /\ (d + i) - d = i
      OBVIOUS
    <3> QED BY <1>6, <1>a, <2>1, <3>1
  <2> QED BY <1>6, <1>a, <2>1, <2>2, <2>3
<1>9. EncodedNal(nal) = e
  BY <1>1, <1>2, <1>3, <1>5, <1>7 DEF EncodedNal
<1>10. e[1] = h[1]
  <2>1. 1 \in 1..d
    BY <1>1
  <2> QED BY <1>8, <2>1
<1>11. e[Len(e)] = Stop
  <2>1. l \in 1..l
    BY <1>6
  <2> QED BY <1>5, <1>6, <1>8, <2>1
<1>12. Clean(e)
  <2>1. SUFFICES ASSUME NEW j \in 1..(Len(e) - 2), e[j] = 0, e[j + 1] = 0, e[j + 2] <= 2
                 PROVE  FALSE
    BY DEF Clean
  <2>2. e[d] # 0
    <3>1. d \in 1..d
      BY <1>b
    <3> QED BY <1>1, <1>8, <3>1
  <2>3. j # d /\ j + 1 # d
    BY <2>1, <2>2
  <2>4. j > d
    <3>1. CASE d = 1
      BY <2>3, <3>1
    <3>2. CASE d = 2
      BY <2>3, <3>2
    <3> QED BY <1>1, <3>1, <3>2
  <2>5. PICK i \in 1..(l - 2) : j = d + i
    <3>1. j - d \in 1..(l - 2) /\ d + (j - d) = j
      BY <1>6, <1>8, <2>4
    <3> QED BY <3>1, Zenon
  <2>6. i \in 1..l /\ i + 1 \in 1..l /\ i + 2 \in 1..l /\ j + 1 = d + (i + 1) /\ j + 2 = d + (i + 2)
    <3>1. i \in 1..l /\ i + 1 \in 1..l /\ i + 2 \in 1..l
      OBVIOUS
    <3> QED BY <2>5, <3>1
  <2>7. x[i] = 0 /\ x[i + 1] = 0 /\ x[i + 2] <= 2
    BY <1>8, <2>1, <2>5, <2>6
  <2> QED BY <1>5, <1>6, <2>7 DEF Clean
<1>13. SubSeq(e, d + 1, Len(e)) = x
  <2>1. PICK q \in Nat \ {0} : q = d + 1 /\ q + Len(x) - 1 = Len(e)
    <3>1. d + 1 \in Nat \ {0} /\ (d + 1) + l - 1 = d + l
      OBVIOUS
    <3> QED BY <1>6, <1>8, <3>1
  <2>2. \A i \in 1..Len(x) : q + i - 1 = d + i
    BY <2>1
  <2>3. Stands(e, q, x)
    BY <1>6, <1>8, <2>1, <2>2, SMTT(30) DEF Stands
  <2> QED BY <2>1, <2>3, StandsSubSeq
<1>14. rbsp_unescape(x) = s
  BY <1>5, UnescapeUndoes
<1>15. Len(e) >= 2 /\ Len(e) > d
  <2>1. Len(e) = d + l /\ l >= 1
    BY <1>6, <1>8
  <2> QED BY <1>b, <2>1
<1>16. rbsp_unescape(SubSeq(e, HeaderLen(codec) + 1, Len(e))) = Append(Payload(nal), Stop)
  BY <1>1, <1>2, <1>3, <1>13, <1>14
<1> QED BY <1>0, <1>1, <1>9, <1>10, <1>11, <1>12, <1>15, <1>16

(* What is in force behind a NAL.                                          *)
Behind(codec, ctx, nal) ==
  IF IsSps(codec, nal.header) THEN SpsContext(ctx, Rbsp(nal)) ELSE ctx

LEMMA BehindType ==
  ASSUME NEW codec, NEW ctx \in Contexts, NEW nal
  PROVE  Behind(codec, ctx, nal) \in Contexts
  BY AnnexBAssumption DEF Behind, SpsContext

(* scan_nal() finds in a NAL what it means, and leaves in force what it    *)
(* says.                                                                   *)
LEMMA ScanNalDoes ==
  ASSUME NEW codec \in Codecs, NEW ctx \in Contexts, NEW nal \in Nals(codec)
  PROVE  scan_nal(codec, ctx, EncodedNal(nal)) =
           [ctx |-> Behind(codec, ctx, nal), found |-> Found(codec, ctx, nal.msgs)]
<1>1. PICK e \in Seq(Nat) : e = EncodedNal(nal)
  BY EncodedNalDoes
<1>2. PICK s : s = Append(Payload(nal), Stop)
  OBVIOUS
<1>3. /\ Len(e) > HeaderLen(codec) /\ e[1] = nal.header[1]
      /\ rbsp_unescape(SubSeq(e, HeaderLen(codec) + 1, Len(e))) = s
  BY <1>1, <1>2, EncodedNalDoes
<1>4. ~(Len(e) <= HeaderLen(codec))
  <2>1. HeaderLen(codec) \in Int
    BY DEF HeaderLen
  <2> QED BY <1>3, <2>1
<1>5. (IsSei(codec, e) <=> IsSei(codec, nal.header)) /\ (IsSps(codec, e) <=> IsSps(codec, nal.header))
  <2>1. NalType(codec, e) = NalType(codec, nal.header)
    BY <1>3 DEF NalType
  <2> QED BY <2>1, Zenon DEF IsSei, IsSps
<1>6. IsSps(codec, nal.header) => ~IsSei(codec, nal.header)
  BY DEF IsSps, IsSei
<1>7. CASE IsSps(codec, nal.header)
  <2>1. scan_nal(codec, ctx, e) = [ctx |-> SpsContext(ctx, s), found |-> None]
    BY <1>3, <1>4, <1>5, <1>7, Zenon DEF scan_nal
  <2>2. Found(codec, ctx, nal.msgs) = None /\ Payload(nal) = nal.body
    BY <1>6, <1>7, PayloadDoes
  <2>3. s = Rbsp(nal)
    BY <1>2, <2>2 DEF Rbsp
  <2> QED BY <1>1, <1>7, <2>1, <2>2, <2>3 DEF Behind
<1>8. CASE ~IsSps(codec, nal.header) /\ IsSei(codec, nal.header)
  <2>1. scan_nal(codec, ctx, e) = [ctx |-> ctx, found |-> scan_sei_messages(codec, ctx, s)]
    BY <1>3, <1>4, <1>5, <1>8, Zenon DEF scan_nal
  <2>2. scan_sei_messages(codec, ctx, s) = Found(codec, ctx, nal.msgs)
    BY <1>2, <1>8, PayloadDoes
  <2> QED BY <1>1, <1>8, <2>1, <2>2 DEF Behind
<1>9. CASE ~IsSps(codec, nal.header) /\ ~IsSei(codec, nal.header)
  <2>1. scan_nal(codec, ctx, e) = [ctx |-> ctx, found |-> None]
    BY <1>4, <1>5, <1>9, Zenon DEF scan_nal
  <2>2. Found(codec, ctx, nal.msgs) = None
    BY <1>9, PayloadDoes
  <2> QED BY <1>1, <1>9, <2>1, <2>2 DEF Behind
<1> QED BY <1>7, <1>8, <1>9

(* A start code, short or long. *)
LEMMA StartCodeIs ==
  ASSUME NEW l, NEW lg
  PROVE  /\ StartCode(l, lg) \in Seq(Nat)
         /\ \/ /\ Len(StartCode(l, lg)) = 3
               /\ StartCode(l, lg)[1] = 0 /\ StartCode(l, lg)[2] = 0 /\ StartCode(l, lg)[3] = 1
            \/ /\ Len(StartCode(l, lg)) = 4
               /\ StartCode(l, lg)[1] = 0 /\ StartCode(l, lg)[2] = 0 /\ StartCode(l, lg)[3] = 0
               /\ StartCode(l, lg)[4] = 1
<1>1. <<0, 0, 1>> \in Seq(Nat) /\ Len(<<0, 0, 1>>) = 3
      /\ <<0, 0, 1>>[1] = 0 /\ <<0, 0, 1>>[2] = 0 /\ <<0, 0, 1>>[3] = 1
  OBVIOUS
<1>2. /\ <<0, 0, 0, 1>> \in Seq(Nat) /\ Len(<<0, 0, 0, 1>>) = 4
      /\ <<0, 0, 0, 1>>[1] = 0 /\ <<0, 0, 0, 1>>[2] = 0 /\ <<0, 0, 0, 1>>[3] = 0
      /\ <<0, 0, 0, 1>>[4] = 1
  OBVIOUS
<1>3. CASE l \in lg
  <2>1. StartCode(l, lg) = <<0, 0, 0, 1>>
    BY <1>3 DEF StartCode
  <2> QED BY <1>2, <2>1
<1>4. CASE l \notin lg
  <2>1. StartCode(l, lg) = <<0, 0, 1>>
    BY <1>4 DEF StartCode
  <2> QED BY <1>1, <2>1
<1> QED BY <1>3, <1>4

(* The access unit, NAL by NAL. *)
IsEncoding(f, n, ns, lg) ==
  /\ f \in [0..n -> Seq(Nat)] /\ f[0] = <<>>
  /\ \A i \in 1..n : f[i] = AddNal(f[i - 1], i, ns, lg)
  /\ Encode(ns, lg) = f[n]

LEMMA EncodeIsLoop ==
  ASSUME NEW codec \in Codecs, NEW ns \in Seq(Nals(codec)), NEW lg, NEW n \in Nat, n = Len(ns)
  PROVE  \E f : IsEncoding(f, n, ns, lg)
<1>0. n \in Nat
  OBVIOUS
<1> DEFINE base == <<>>
           step == [i \in 1..n |-> [x \in Seq(Nat) |-> AddNal(x, i, ns, lg)]]
           Loop(f) == [i \in 0..Len(ns) |-> IF i = 0 THEN <<>> ELSE AddNal(f[i - 1], i, ns, lg)]
           g == CHOOSE g : g = Loop(g)
<1>1. \A i \in 1..n, x \in Seq(Nat) : AddNal(x, i, ns, lg) \in Seq(Nat)
  <2>1. SUFFICES ASSUME NEW i \in 1..n, NEW x \in Seq(Nat)
                 PROVE  AddNal(x, i, ns, lg) \in Seq(Nat)
    OBVIOUS
  <2>2. PICK c \in Seq(Nat) : c = StartCode(i, lg)
    BY StartCodeIs
  <2>3. ns[i] \in Nals(codec)
    OBVIOUS
  <2>4. PICK e \in Seq(Nat) : e = EncodedNal(ns[i])
    BY <2>3, EncodedNalDoes
  <2>5. x \o c \in Seq(Nat)
    BY ConcatProperties
  <2>6. (x \o c) \o e \in Seq(Nat)
    BY <2>5, ConcatProperties
  <2> QED BY <2>2, <2>4, <2>6 DEF AddNal
<1>2. step \in [1..n -> [Seq(Nat) -> Seq(Nat)]]
  BY <1>1
<1>3. base \in Seq(Nat)
  OBVIOUS
<1> HIDE DEF base
<1>4. PICK f \in [0..n -> Seq(Nat)] : IsLoop(f, base, step, n)
  <2> HIDE DEF step
  <2> QED BY <1>0, <1>2, <1>3, LoopExists
<1>5. \A i \in 1..n : i - 1 \in 0..n /\ i \in 0..n /\ i # 0
  BY <1>0
<1>6. ASSUME NEW i \in 0..n
      PROVE  f[i] = IF i = 0 THEN base ELSE AddNal(f[i - 1], i, ns, lg)
  <2>1. f[i] = IF i = 0 THEN base ELSE step[i][f[i - 1]]
    <3> HIDE DEF step
    <3>1. f = [j \in 0..n |-> IF j = 0 THEN base ELSE step[j][f[j - 1]]]
      BY <1>4 DEF IsLoop
    <3> DEFINE h == [j \in 0..n |-> IF j = 0 THEN base ELSE step[j][f[j - 1]]]
    <3>2. h[i] = IF i = 0 THEN base ELSE step[i][f[i - 1]]
      OBVIOUS
    <3>3. f = h
      BY <3>1
    <3> HIDE DEF h
    <3> QED BY <3>2, <3>3
  <2>2. CASE i = 0
    BY <2>1, <2>2
  <2>3. CASE i # 0
    <3>0. i \in 1..n /\ i - 1 \in 0..n
      BY <1>0, <2>3
    <3>1. i \in 1..n /\ f[i - 1] \in Seq(Nat)
      BY <3>0, Zenon
    <3>2. step[i][f[i - 1]] = AddNal(f[i - 1], i, ns, lg)
      BY <3>1, Zenon
    <3> HIDE DEF step
    <3> QED BY <2>1, <2>3, <3>2
  <2> QED BY <2>2, <2>3
<1> HIDE DEF step
<1>7. f = Loop(f)
  <2>1. f = [i \in 0..n |-> f[i]]
    OBVIOUS
  <2>2. base = <<>>
    BY Zenon DEF base
  <2> QED BY <1>6, <2>1, <2>2, Zenon
<1>8. g = Loop(g)
  <2> HIDE DEF Loop
  <2> QED BY <1>7, Zenon
<1>9. g[0] = base /\ \A i \in 1..n : g[i] = AddNal(g[i - 1], i, ns, lg)
  <2> DEFINE h == Loop(g)
  <2>1. 0 \in 0..n
    BY <1>0
  <2>2. h[0] = base /\ \A i \in 1..n : h[i] = AddNal(g[i - 1], i, ns, lg)
    <3> HIDE DEF g
    <3>1. base = <<>>
      BY Zenon DEF base
    <3> QED BY <1>5, <2>1, <3>1, Zenon
  <2>3. g = h
    BY <1>8
  <2> HIDE DEF g, h
  <2> QED BY <2>2, <2>3
<1>10. f[0] = base /\ \A i \in 1..n : f[i] = AddNal(f[i - 1], i, ns, lg)
  <2>1. 0 \in 0..n
    BY <1>0
  <2> HIDE DEF g, Loop
  <2>2. f[0] = base
    BY <1>6, <2>1
  <2>3. ASSUME NEW i \in 1..n
        PROVE  f[i] = AddNal(f[i - 1], i, ns, lg)
    BY <1>5, <1>6, <2>3, Zenon
  <2> QED BY <2>2, <2>3
<1>11. Encode(ns, lg) = g[n]
  BY Zenon DEF Encode
<1> HIDE DEF g
<1>12. g[n] = f[n]
  <2> DEFINE P == {i \in 0..n : g[i] = f[i]}
  <2>1. 0 \in P
    BY <1>0, <1>9, <1>10
  <2>2. \A i \in 1..n : i - 1 \in P => i \in P
    BY <1>5, <1>9, <1>10
  <2>3. P = 0..n
    <3>1. P \in SUBSET (0..n)
      OBVIOUS
    <3> HIDE DEF P
    <3> QED BY <1>0, <2>1, <2>2, <3>1, LoopInduction
  <2>4. n \in 0..n
    BY <1>0
  <2>5. n \in P
    BY <2>3, <2>4, Zenon
  <2> QED BY <2>5
<1>13. base = <<>>
  BY Zenon DEF base
<1>14. IsEncoding(f, n, ns, lg)
  BY <1>10, <1>11, <1>12, <1>13, Zenon DEF IsEncoding
<1> QED BY <1>14

(* Where the NALs of an access unit b start, their start codes with them.  *)
Layout(b, ns, lg, starts) ==
  /\ starts \in [1..(Len(ns) + 1) -> Nat \ {0}]
  /\ starts[1] = 1 /\ starts[Len(ns) + 1] = Len(b) + 1
  /\ \A k \in 1..Len(ns) :
       /\ Stands(b, starts[k], StartCode(k, lg))
       /\ Stands(b, starts[k] + Len(StartCode(k, lg)), EncodedNal(ns[k]))
       /\ starts[k + 1] = starts[k] + Len(StartCode(k, lg)) + Len(EncodedNal(ns[k]))

LEMMA EncodeLaysOut ==
  ASSUME NEW codec \in Codecs, NEW ns \in Seq(Nals(codec)), NEW lg
  PROVE  Encode(ns, lg) \in Seq(Nat) /\ \E starts : Layout(Encode(ns, lg), ns, lg, starts)
<1>0. PICK n \in Nat : n = Len(ns)
  OBVIOUS
<1>1. PICK f \in [0..n -> Seq(Nat)] :
        /\ f[0] = <<>>
        /\ \A i \in 1..n : f[i] = AddNal(f[i - 1], i, ns, lg)
        /\ Encode(ns, lg) = f[n]
  <2>1. PICK g : IsEncoding(g, n, ns, lg)
    BY <1>0, EncodeIsLoop
  <2> QED BY <2>1 DEF IsEncoding
<1>2. PICK b \in Seq(Nat) : b = f[n]
  <2>1. n \in 0..n
    BY <1>0
  <2> QED BY <2>1
<1>b. ASSUME NEW i \in 1..n
      PROVE  i - 1 \in 0..n /\ i \in 0..n /\ f[i - 1] \in Seq(Nat) /\ ns[i] \in Nals(codec)
  <2>1. i - 1 \in 0..n /\ i \in 0..n /\ i \in 1..Len(ns)
    BY <1>0
  <2>2. f[i - 1] \in Seq(Nat)
    BY <2>1, Zenon
  <2>3. ns[i] \in Nals(codec)
    BY <2>1, ElementOfSeq
  <2> QED BY <2>1, <2>2, <2>3
<1>3. ASSUME NEW i \in 1..n, NEW c, c = StartCode(i, lg), NEW e, e = EncodedNal(ns[i])
      PROVE  /\ c \in Seq(Nat) /\ e \in Seq(Nat)
             /\ Len(f[i]) = Len(f[i - 1]) + Len(c) + Len(e)
             /\ Stands(b, 1, f[i]) => /\ Stands(b, 1, f[i - 1])
                                      /\ Stands(b, 1 + Len(f[i - 1]), c)
                                      /\ Stands(b, 1 + Len(f[i - 1]) + Len(c), e)
  <2>1. c \in Seq(Nat) /\ e \in Seq(Nat)
    BY <1>3, <1>b, StartCodeIs, EncodedNalDoes
  <2>2. PICK x \in Seq(Nat) : x = f[i - 1]
    BY <1>b
  <2>3. PICK y \in Seq(Nat) : y = x \o c /\ Len(y) = Len(x) + Len(c)
    BY <2>1, ConcatProperties
  <2>4. f[i] = y \o e /\ Len(y \o e) = Len(y) + Len(e)
    <3>1. f[i] = y \o e
      BY <1>1, <1>3, <2>2, <2>3 DEF AddNal
    <3> QED BY <2>1, <3>1, ConcatProperties
  <2>5. 1 \in Nat \ {0}
    OBVIOUS
  <2>6. Stands(b, 1, y \o e) => Stands(b, 1, y) /\ Stands(b, 1 + Len(y), e)
    BY <2>1, <2>5, StandsConcat
  <2>7. Stands(b, 1, x \o c) => Stands(b, 1, x) /\ Stands(b, 1 + Len(x), c)
    BY <2>1, <2>5, StandsConcat
  <2>8. 1 + Len(y) = 1 + Len(x) + Len(c)
    BY <2>1, <2>3
  <2> QED BY <2>1, <2>2, <2>3, <2>4, <2>6, <2>7, <2>8
<1>4. \A i \in 0..n : Stands(b, 1, f[i])
  <2> DEFINE Q == {d \in 0..n : Stands(b, 1, f[n - d])}
  <2>1. 0 \in Q
    <3>1. n - 0 = n /\ 0 \in 0..n
      BY <1>0
    <3>2. Stands(b, 1, b)
      <4>1. 1 + Len(b) - 1 <= Len(b) /\ \A j \in 1..Len(b) : 1 + j - 1 = j
        OBVIOUS
      <4> QED BY <4>1 DEF Stands
    <3> QED BY <1>2, <3>1, <3>2
  <2>2. ASSUME NEW d \in 1..n, d - 1 \in Q
        PROVE  d \in Q
    <3>0. n - (d - 1) \in 1..n /\ (n - (d - 1)) - 1 = n - d /\ d \in 0..n
      BY <1>0
    <3>1. PICK i \in 1..n : i = n - (d - 1) /\ i - 1 = n - d
      BY <3>0, Zenon
    <3>2. Stands(b, 1, f[i])
      BY <2>2, <3>1
    <3>3. Stands(b, 1, f[i - 1])
      BY <1>3, <3>2
    <3> QED BY <3>0, <3>1, <3>3
  <2>3. Q = 0..n
    <3>1. Q \in SUBSET (0..n)
      OBVIOUS
    <3> HIDE DEF Q
    <3> QED BY <1>0, <2>1, <2>2, <3>1, LoopInduction
  <2>4. ASSUME NEW i \in 0..n
        PROVE  Stands(b, 1, f[i])
    <3>0. n - i \in 0..n /\ n - (n - i) = i
      BY <1>0
    <3>1. PICK d \in 0..n : n - d = i
      BY <3>0, Zenon
    <3>2. Stands(b, 1, f[n - d])
      BY <2>3
    <3> QED BY <3>1, <3>2
  <2> QED BY <2>4
<1> DEFINE starts == [k \in 1..(n + 1) |-> 1 + Len(f[k - 1])]
<1>5. \A k \in 1..(n + 1) : k - 1 \in 0..n /\ f[k - 1] \in Seq(Nat)
  <2>1. \A k \in 1..(n + 1) : k - 1 \in 0..n
    BY <1>0
  <2> QED BY <2>1, Zenon
<1>6. starts \in [1..(n + 1) -> Nat \ {0}]
  <2>1. \A k \in 1..(n + 1) : 1 + Len(f[k - 1]) \in Nat \ {0}
    BY <1>5
  <2> QED BY <2>1
<1>7. starts[1] = 1 /\ starts[n + 1] = Len(b) + 1
  <2>1. 1 \in 1..(n + 1) /\ n + 1 \in 1..(n + 1) /\ 1 - 1 = 0 /\ (n + 1) - 1 = n
    BY <1>0
  <2>2. starts[1] = 1 + Len(f[0]) /\ starts[n + 1] = 1 + Len(f[n])
    BY <2>1
  <2>3. Len(<<>>) = 0 /\ Len(b) \in Nat
    OBVIOUS
  <2> HIDE DEF starts
  <2> QED BY <1>1, <1>2, <2>2, <2>3
<1>8. ASSUME NEW k \in 1..n
      PROVE  /\ Stands(b, starts[k], StartCode(k, lg))
             /\ Stands(b, starts[k] + Len(StartCode(k, lg)), EncodedNal(ns[k]))
             /\ starts[k + 1] = starts[k] + Len(StartCode(k, lg)) + Len(EncodedNal(ns[k]))
  <2>1. k \in 1..(n + 1) /\ k + 1 \in 1..(n + 1) /\ (k + 1) - 1 = k
    BY <1>0
  <2>2. starts[k] = 1 + Len(f[k - 1]) /\ starts[k + 1] = 1 + Len(f[k])
    BY <2>1
  <2> HIDE DEF starts
  <2>3. PICK c \in Seq(Nat), e \in Seq(Nat) : c = StartCode(k, lg) /\ e = EncodedNal(ns[k])
    BY <1>3
  <2>4. /\ Len(f[k]) = Len(f[k - 1]) + Len(c) + Len(e)
        /\ Stands(b, 1 + Len(f[k - 1]), c) /\ Stands(b, 1 + Len(f[k - 1]) + Len(c), e)
    BY <1>3, <1>4, <1>b, <2>3
  <2>5. PICK h \in Nat : h = Len(f[k - 1])
    BY <1>b
  <2>6. 1 + Len(f[k]) = 1 + h + Len(c) + Len(e)
    BY <2>4, <2>5
  <2> QED BY <2>2, <2>3, <2>4, <2>5, <2>6
<1> HIDE DEF starts
<1>9. Layout(b, ns, lg, starts)
  BY <1>0, <1>6, <1>7, <1>8, Zenon DEF Layout
<1> QED BY <1>1, <1>2, <1>9

(* A start code is recognised where it stands. *)
LEMMA CodeAt ==
  ASSUME NEW b \in Seq(Nat), NEW p \in Nat \ {0}, NEW l, NEW lg, Stands(b, p, StartCode(l, lg))
  PROVE  is_start_code(b, p) = p + Len(StartCode(l, lg)) /\ p + 2 <= Len(b)
<1>1. PICK c \in Seq(Nat) : c = StartCode(l, lg)
  BY StartCodeIs
<1>2. /\ p + Len(c) - 1 <= Len(b)
      /\ \A j \in 1..Len(c) : b[p + j - 1] = c[j]
  BY <1>1 DEF Stands
<1>a. PICK n \in Nat, k \in Nat : n = Len(b) /\ k = Len(c) /\ p + k - 1 <= n
  BY <1>2
<1>b. p \in Nat
  OBVIOUS
<1>c. ASSUME k = 3
      PROVE  p + 2 <= n
  BY <1>a, <1>b, <1>c
<1>d. ASSUME k = 4
      PROVE  p + 2 <= n /\ p + 3 <= n
  BY <1>a, <1>b, <1>d
<1>3. CASE Len(c) = 3 /\ c[1] = 0 /\ c[2] = 0 /\ c[3] = 1
  <2>1. p + 1 - 1 = p /\ p + 2 - 1 = p + 1 /\ p + 3 - 1 = p + 2 /\ 1 \in 1..3 /\ 2 \in 1..3 /\ 3 \in 1..3
    OBVIOUS
  <2>2. b[p] = 0 /\ b[p + 1] = 0 /\ b[p + 2] = 1
    BY <1>2, <1>3, <2>1
  <2>3. p + 2 <= Len(b) /\ ~(p + 2 > Len(b))
    <3>1. p + 2 <= n
      BY <1>3, <1>a, <1>c
    <3>2. ~(p + 2 > n)
      BY <1>b, <3>1
    <3> QED BY <1>a, <3>1, <3>2
  <2> QED BY <1>1, <1>3, <2>2, <2>3 DEF is_start_code
<1>4. CASE Len(c) = 4 /\ c[1] = 0 /\ c[2] = 0 /\ c[3] = 0 /\ c[4] = 1
  <2>1. /\ p + 1 - 1 = p /\ p + 2 - 1 = p + 1 /\ p + 3 - 1 = p + 2 /\ p + 4 - 1 = p + 3
        /\ 1 \in 1..4 /\ 2 \in 1..4 /\ 3 \in 1..4 /\ 4 \in 1..4
    OBVIOUS
  <2>2. b[p] = 0 /\ b[p + 1] = 0 /\ b[p + 2] = 0 /\ b[p + 3] = 1
    BY <1>2, <1>4, <2>1
  <2>3. p + 2 <= Len(b) /\ ~(p + 2 > Len(b)) /\ ~(p + 3 > Len(b))
    <3>1. p + 2 <= n /\ p + 3 <= n
      BY <1>4, <1>a, <1>d
    <3>2. ~(p + 2 > n) /\ ~(p + 3 > n)
      BY <1>b, <3>1
    <3> QED BY <1>a, <3>1, <3>2
  <2> QED BY <1>1, <1>4, <2>2, <2>3 DEF is_start_code
<1> QED BY <1>1, <1>3, <1>4, StartCodeIs

(* The value is a position behind i, within the bytes.                     *)
LEMMA CodeType ==
  ASSUME NEW b \in Seq(Nat), NEW p \in Nat \ {0}
  PROVE  is_start_code(b, p) \in Nat /\ is_start_code(b, p) <= Len(b) + 1
<1>1. PICK n \in Nat : n = Len(b)
  OBVIOUS
<1>2. \/ is_start_code(b, p) = 0
      \/ ~(p + 2 > n) /\ is_start_code(b, p) = p + 3
      \/ ~(p + 3 > n) /\ is_start_code(b, p) = p + 4
  BY <1>1, Zenon DEF is_start_code
<1>3. CASE is_start_code(b, p) = 0
  BY <1>1, <1>3
<1>4. CASE ~(p + 2 > n) /\ is_start_code(b, p) = p + 3
  BY <1>1, <1>4
<1>5. CASE ~(p + 3 > n) /\ is_start_code(b, p) = p + 4
  BY <1>1, <1>5
<1> QED BY <1>2, <1>3, <1>4, <1>5

(* A clean NAL ends where the next start code is, or with the bytes. *)
LEMMA NalEndsThere ==
  ASSUME NEW b \in Seq(Nat), NEW p \in Nat \ {0}, NEW e \in Seq(Nat), Stands(b, p, e),
         Len(e) >= 2, e[Len(e)] # 0, Clean(e), NEW q \in Nat, q = p + Len(e),
         q = Len(b) + 1 \/ (is_start_code(b, q) # 0 /\ q + 2 <= Len(b))
  PROVE  NalEnd(b, p) = q
<1>0. PICK l \in Nat : l = Len(e)
  OBVIOUS
<1>1. p + l - 1 <= Len(b) /\ \A j \in 1..l : b[p + j - 1] = e[j]
  BY <1>0 DEF Stands
<1>2. ASSUME NEW k \in p..(Len(b) - 2), k < q
      PROVE  is_start_code(b, k) = 0
  <2>0. is_start_code(b, k) # 0 => b[k] = 0 /\ b[k + 1] = 0 /\ (b[k + 2] = 0 \/ b[k + 2] = 1)
    BY DEF is_start_code
  <2>1. SUFFICES ASSUME b[k] = 0, b[k + 1] = 0, b[k + 2] = 0 \/ b[k + 2] = 1
                 PROVE  FALSE
    BY <2>0
  <2>2. PICK i \in 1..l : k = p + i - 1
    <3>1. k - p + 1 \in 1..l /\ k = p + (k - p + 1) - 1
      BY <1>0, <1>2
    <3> QED BY <3>1, Zenon
  <2>3. e[i] = 0
    BY <1>1, <2>1, <2>2
  <2>4. i # l
    BY <1>0, <2>3
  <2>5. i + 1 \in 1..l /\ k + 1 = p + (i + 1) - 1
    BY <1>0, <2>2, <2>4
  <2>6. e[i + 1] = 0
    BY <1>1, <2>1, <2>5
  <2>7. i + 1 # l
    BY <1>0, <2>6
  <2>8. i + 2 \in 1..l /\ k + 2 = p + (i + 2) - 1 /\ i \in 1..(Len(e) - 2)
    BY <1>0, <2>2, <2>5, <2>7
  <2>9. e[i + 2] <= 2
    <3>1. e[i + 2] = b[k + 2]
      BY <1>1, <2>8
    <3>2. CASE b[k + 2] = 0
      BY <3>1, <3>2
    <3>3. CASE b[k + 2] = 1
      BY <3>1, <3>3
    <3> QED BY <2>1, <3>2, <3>3
  <2> QED BY <2>3, <2>6, <2>8, <2>9 DEF Clean
<1> DEFINE ends == {k \in p..(Len(b) - 2) : is_start_code(b, k) # 0}
<1>3. NalEnd(b, p) = IF ends = {} THEN Len(b) + 1 ELSE Least(ends)
  BY DEF NalEnd
<1>4. ASSUME NEW k \in ends
      PROVE  q <= k
  BY <1>0, <1>2
<1>5. CASE q = Len(b) + 1
  <2>1. ends = {}
    <3>1. \A k \in ends : k <= Len(b) - 2 /\ k \in Int
      OBVIOUS
    <3> HIDE DEF ends
    <3>2. Len(b) \in Nat
      OBVIOUS
    <3> QED BY <1>4, <1>5, <3>1, <3>2
  <2> QED BY <1>3, <1>5, <2>1
<1>6. CASE is_start_code(b, q) # 0 /\ q + 2 <= Len(b)
  <2>1. q \in ends
    <3>1. q \in p..(Len(b) - 2)
      BY <1>0, <1>6
    <3> QED BY <1>6, <3>1
  <2>2. ends \in SUBSET Int
    OBVIOUS
  <2> HIDE DEF ends
  <2>3. Least(ends) = q
    BY <1>4, <2>1, <2>2, LeastIs
  <2> QED BY <1>3, <2>1, <2>3
<1> QED BY <1>5, <1>6

(* The walk stays within the bytes. *)
LEMMA NalEndType ==
  ASSUME NEW b \in Seq(Nat), NEW p \in Nat \ {0}
  PROVE  NalEnd(b, p) \in Nat \ {0} /\ NalEnd(b, p) <= Len(b) + 1
<1> DEFINE ends == {k \in p..(Len(b) - 2) : is_start_code(b, k) # 0}
<1>1. NalEnd(b, p) = IF ends = {} THEN Len(b) + 1 ELSE Least(ends)
  BY DEF NalEnd
<1>2. CASE ends = {}
  BY <1>1, <1>2
<1>3. CASE ends # {}
  <2>1. ends \in SUBSET Nat /\ ends \in SUBSET Int /\ \A k \in ends : k # 0 /\ k <= Len(b) + 1
    OBVIOUS
  <2> HIDE DEF ends
  <2>2. PICK k \in ends : \A j \in ends : k <= j
    BY <1>3, <2>1, NatMin
  <2>3. Least(ends) = k
    BY <2>1, <2>2, LeastIs
  <2> QED BY <1>1, <1>3, <2>1, <2>2, <2>3
<1> QED BY <1>2, <1>3

NalStates == [pos : Nat \ {0}, ctx : Contexts, found : Int]

LEMMA ScanNalType ==
  ASSUME NEW codec \in Codecs, NEW ctx \in Contexts, NEW x \in Seq(Nat)
  PROVE  scan_nal(codec, ctx, x) \in [ctx : Contexts, found : Int]
<1>0. PICK d \in Nat \ {0} : d = HeaderLen(codec) + 1
  BY DEF HeaderLen
<1>1. PICK t \in Seq(Nat) : t = SubSeq(x, d, Len(x))
  <2>1. \A i \in d..Len(x) : i \in 1..Len(x)
    OBVIOUS
  <2>2. \A i \in d..Len(x) : x[i] \in Nat
    BY <2>1
  <2>3. SubSeq(x, d, Len(x)) \in Seq(Nat)
    BY <2>2, SubSeqProperties
  <2> QED BY <2>3
<1>2. PICK n \in Nat : n = Len(t)
  OBVIOUS
<1>3. PICK f \in [0..n -> UnescapeStates] : rbsp_unescape(t) = f[n].out
  BY <1>2, UnescapeIsLoop
<1>4. PICK r \in Seq(Nat) : r = rbsp_unescape(t)
  <2>1. f[n] \in UnescapeStates
    BY <1>2
  <2> QED BY <1>3, <2>1 DEF UnescapeStates
<1>5. PICK v \in Int : v = scan_sei_messages(codec, ctx, r)
  <2>1. PICK m \in Nat : m = Len(r)
    OBVIOUS
  <2>2. PICK g : IsSeiLoop(g, m, codec, ctx, r)
    BY <2>1, ScanSeiIsLoop
  <2>3. scan_sei_messages(codec, ctx, r) = g[m].found /\ g \in [0..m -> SeiStates]
    BY <2>2 DEF IsSeiLoop
  <2>4. m \in 0..m
    OBVIOUS
  <2>5. g[m] \in SeiStates
    BY <2>3, <2>4, Zenon
  <2>6. g[m].found \in Int
    BY <2>5 DEF SeiStates
  <2> QED BY <2>3, <2>6
<1>6. PICK c \in Contexts : c = SpsContext(ctx, r)
  BY AnnexBAssumption DEF SpsContext
<1>7. \/ scan_nal(codec, ctx, x) = [ctx |-> ctx, found |-> None]
      \/ scan_nal(codec, ctx, x) = [ctx |-> c, found |-> None]
      \/ scan_nal(codec, ctx, x) = [ctx |-> ctx, found |-> v]
  BY <1>0, <1>1, <1>4, <1>5, <1>6, Zenon DEF scan_nal
<1> QED BY <1>7, NoneType

LEMMA NalRoundType ==
  ASSUME NEW codec \in Codecs, NEW b \in Seq(Nat), NEW s \in NalStates
  PROVE  NalRound(codec, b, s) \in NalStates
<1>1. PICK p \in Nat \ {0}, ctx \in Contexts, v \in Int : p = s.pos /\ ctx = s.ctx /\ v = s.found
  BY DEF NalStates
<1>2. PICK begin \in Nat : begin = is_start_code(b, p) /\ begin <= Len(b) + 1
  BY CodeType
<1>3. CASE p + 2 > Len(b)
  BY <1>1, <1>3 DEF NalRound
<1>4. CASE ~(p + 2 > Len(b)) /\ begin = 0
  <2>1. NalRound(codec, b, s) = [s EXCEPT !.pos = p + 1]
    BY <1>1, <1>2, <1>4, Zenon DEF NalRound
  <2> QED BY <2>1 DEF NalStates
<1>5. CASE ~(p + 2 > Len(b)) /\ begin # 0
  <2>1. PICK end \in Nat \ {0} : end = NalEnd(b, begin) /\ end <= Len(b) + 1
    BY <1>5, NalEndType
  <2>2. PICK here \in [ctx : Contexts, found : Int] :
          here = IF end > begin THEN scan_nal(codec, ctx, SubSeq(b, begin, end - 1))
                                ELSE [ctx |-> ctx, found |-> None]
    <3>0. \A i \in begin..(end - 1) : i \in 1..Len(b)
      BY <1>5, <2>1
    <3>1. \A i \in begin..(end - 1) : b[i] \in Nat
      BY <3>0
    <3>2. SubSeq(b, begin, end - 1) \in Seq(Nat)
      BY <3>1, SubSeqProperties
    <3>3. scan_nal(codec, ctx, SubSeq(b, begin, end - 1)) \in [ctx : Contexts, found : Int]
      BY <3>2, ScanNalType
    <3>4. [ctx |-> ctx, found |-> None] \in [ctx : Contexts, found : Int]
      BY NoneType
    <3> QED BY <3>3, <3>4
  <2>3. NalRound(codec, b, s) =
          [pos |-> end, ctx |-> here.ctx, found |-> IF v = None THEN here.found ELSE v]
    BY <1>1, <1>2, <1>5, <2>1, <2>2, Zenon DEF NalRound
  <2> QED BY <2>3 DEF NalStates
<1> QED BY <1>3, <1>4, <1>5

(* The walk over the access unit. *)
IsAuLoop(f, n, codec, ctx, b) ==
  /\ f \in [0..n -> NalStates] /\ f[0] = [pos |-> 1, ctx |-> ctx, found |-> None]
  /\ \A i \in 1..n : f[i] = NalRound(codec, b, f[i - 1])
  /\ scan_au_prefix(codec, ctx, b) = [ctx |-> f[n].ctx, found |-> f[n].found]

LEMMA ScanAuIsLoop ==
  ASSUME NEW codec \in Codecs, NEW ctx \in Contexts, NEW b \in Seq(Nat), NEW n \in Nat, n = Len(b)
  PROVE  \E f : IsAuLoop(f, n, codec, ctx, b)
<1>0. n \in Nat
  OBVIOUS
<1> DEFINE base == [pos |-> 1, ctx |-> ctx, found |-> None]
           step == [i \in 1..n |-> [x \in NalStates |-> NalRound(codec, b, x)]]
           Loop(f) == [i \in 0..Len(b) |-> IF i = 0 THEN [pos |-> 1, ctx |-> ctx, found |-> None]
                                           ELSE NalRound(codec, b, f[i - 1])]
           g == CHOOSE g : g = Loop(g)
<1>1. \A i \in 1..n, x \in NalStates : NalRound(codec, b, x) \in NalStates
  BY NalRoundType
<1>2. step \in [1..n -> [NalStates -> NalStates]]
  BY <1>1
<1>3. base \in NalStates
  BY NoneType DEF NalStates
<1> HIDE DEF base
<1>4. PICK f \in [0..n -> NalStates] : IsLoop(f, base, step, n)
  <2> HIDE DEF step
  <2> QED BY <1>0, <1>2, <1>3, LoopExists
<1>5. \A i \in 1..n : i - 1 \in 0..n /\ i \in 0..n /\ i # 0
  BY <1>0
<1>6. ASSUME NEW i \in 0..n
      PROVE  f[i] = IF i = 0 THEN base ELSE NalRound(codec, b, f[i - 1])
  <2>1. f[i] = IF i = 0 THEN base ELSE step[i][f[i - 1]]
    <3> HIDE DEF step
    <3>1. f = [j \in 0..n |-> IF j = 0 THEN base ELSE step[j][f[j - 1]]]
      BY <1>4 DEF IsLoop
    <3> DEFINE h == [j \in 0..n |-> IF j = 0 THEN base ELSE step[j][f[j - 1]]]
    <3>2. h[i] = IF i = 0 THEN base ELSE step[i][f[i - 1]]
      OBVIOUS
    <3>3. f = h
      BY <3>1
    <3> HIDE DEF h
    <3> QED BY <3>2, <3>3
  <2>2. CASE i = 0
    BY <2>1, <2>2
  <2>3. CASE i # 0
    <3>0. i \in 1..n /\ i - 1 \in 0..n
      BY <1>0, <2>3
    <3>1. i \in 1..n /\ f[i - 1] \in NalStates
      BY <3>0, Zenon
    <3>2. step[i][f[i - 1]] = NalRound(codec, b, f[i - 1])
      BY <3>1, Zenon
    <3> HIDE DEF step
    <3> QED BY <2>1, <2>3, <3>2
  <2> QED BY <2>2, <2>3
<1> HIDE DEF step
<1>7. f = Loop(f)
  <2>1. f = [i \in 0..n |-> f[i]]
    OBVIOUS
  <2>2. base = [pos |-> 1, ctx |-> ctx, found |-> None]
    BY Zenon DEF base
  <2> QED BY <1>6, <2>1, <2>2, Zenon
<1>8. g = Loop(g)
  <2> HIDE DEF Loop
  <2> QED BY <1>7, Zenon
<1>9. g[0] = base /\ \A i \in 1..n : g[i] = NalRound(codec, b, g[i - 1])
  <2> DEFINE h == Loop(g)
  <2>1. 0 \in 0..n
    BY <1>0
  <2>2. h[0] = base /\ \A i \in 1..n : h[i] = NalRound(codec, b, g[i - 1])
    <3> HIDE DEF g
    <3>1. base = [pos |-> 1, ctx |-> ctx, found |-> None]
      BY Zenon DEF base
    <3> QED BY <1>5, <2>1, <3>1, Zenon
  <2>3. g = h
    BY <1>8
  <2> HIDE DEF g, h
  <2> QED BY <2>2, <2>3
<1>10. f[0] = base /\ \A i \in 1..n : f[i] = NalRound(codec, b, f[i - 1])
  <2>1. 0 \in 0..n
    BY <1>0
  <2> HIDE DEF g, Loop
  <2>2. f[0] = base
    BY <1>6, <2>1
  <2>3. ASSUME NEW i \in 1..n
        PROVE  f[i] = NalRound(codec, b, f[i - 1])
    BY <1>5, <1>6, <2>3, Zenon
  <2> QED BY <2>2, <2>3
<1>11. scan_au_prefix(codec, ctx, b) = [ctx |-> g[n].ctx, found |-> g[n].found]
  BY Zenon DEF scan_au_prefix
<1> HIDE DEF g
<1>12. g[n] = f[n]
  <2> DEFINE P == {i \in 0..n : g[i] = f[i]}
  <2>1. 0 \in P
    BY <1>0, <1>9, <1>10
  <2>2. \A i \in 1..n : i - 1 \in P => i \in P
    BY <1>5, <1>9, <1>10
  <2>3. P = 0..n
    <3>1. P \in SUBSET (0..n)
      OBVIOUS
    <3> HIDE DEF P
    <3> QED BY <1>0, <2>1, <2>2, <3>1, LoopInduction
  <2>4. n \in 0..n
    BY <1>0
  <2>5. n \in P
    BY <2>3, <2>4, Zenon
  <2> QED BY <2>5
<1>13. base = [pos |-> 1, ctx |-> ctx, found |-> None]
  BY Zenon DEF base
<1>14. IsAuLoop(f, n, codec, ctx, b)
  BY <1>10, <1>11, <1>12, <1>13, Zenon DEF IsAuLoop
<1> QED BY <1>14

(* One round of the walk takes one NAL. *)
TakesNal(codec, ctx, b, ns, starts, k, v) ==
  NalRound(codec, b, [pos |-> starts[k], ctx |-> ctx, found |-> v]) =
    [pos |-> starts[k + 1], ctx |-> Behind(codec, ctx, ns[k]),
     found |-> IF v = None THEN Found(codec, ctx, ns[k].msgs) ELSE v]

LEMMA NalRoundDoes ==
  ASSUME NEW codec \in Codecs, NEW ctx \in Contexts, NEW ns \in Seq(Nals(codec)), NEW lg,
         NEW b \in Seq(Nat), NEW starts, Layout(b, ns, lg, starts),
         NEW k \in 1..Len(ns), NEW v
  PROVE  TakesNal(codec, ctx, b, ns, starts, k, v)
<1>0. PICK n \in Nat : n = Len(ns)
  OBVIOUS
<1>1. k \in 1..n /\ k \in 1..(n + 1) /\ k + 1 \in 1..(n + 1) /\ k \in Nat
  BY <1>0
<1>2. /\ starts \in [1..(n + 1) -> Nat \ {0}] /\ starts[n + 1] = Len(b) + 1
      /\ \A i \in 1..n :
           /\ Stands(b, starts[i], StartCode(i, lg))
           /\ Stands(b, starts[i] + Len(StartCode(i, lg)), EncodedNal(ns[i]))
           /\ starts[i + 1] = starts[i] + Len(StartCode(i, lg)) + Len(EncodedNal(ns[i]))
  BY <1>0, Zenon DEF Layout
<1>3. PICK p \in Nat \ {0}, q \in Nat \ {0} : p = starts[k] /\ q = starts[k + 1]
  BY <1>1, <1>2
<1>4. PICK c \in Seq(Nat) : c = StartCode(k, lg)
  BY StartCodeIs
<1>5. PICK nal \in Nals(codec) : nal = ns[k]
  BY <1>0, <1>1
<1>6. PICK e \in Seq(Nat) : e = EncodedNal(nal)
  BY EncodedNalDoes
<1>7. /\ Len(e) >= 2 /\ e[Len(e)] # 0 /\ Clean(e)
      /\ scan_nal(codec, ctx, e) = [ctx |-> Behind(codec, ctx, nal), found |-> Found(codec, ctx, nal.msgs)]
  BY <1>6, EncodedNalDoes, ScanNalDoes
<1>8. Stands(b, p, c) /\ Stands(b, p + Len(c), e) /\ q = p + Len(c) + Len(e)
  BY <1>1, <1>2, <1>3, <1>4, <1>5, <1>6
<1>9. PICK begin \in Nat \ {0} : begin = p + Len(c) /\ q = begin + Len(e)
  <2>1. p + Len(c) \in Nat \ {0} /\ q = (p + Len(c)) + Len(e)
    BY <1>8
  <2> QED BY <2>1
<1>10. is_start_code(b, p) = begin /\ ~(p + 2 > Len(b))
  <2>1. is_start_code(b, p) = p + Len(c) /\ p + 2 <= Len(b)
    BY <1>4, <1>8, CodeAt
  <2> QED BY <1>9, <2>1
<1>11. NalEnd(b, begin) = q
  <2>1. q = Len(b) + 1 \/ (is_start_code(b, q) # 0 /\ q + 2 <= Len(b))
    <3>1. CASE k = n
      BY <1>2, <1>3, <3>1
    <3>2. CASE k # n
      <4>1. k + 1 \in 1..n
        BY <1>1, <3>2
      <4>2. PICK d \in Seq(Nat) : d = StartCode(k + 1, lg) /\ Len(d) \in {3, 4}
        BY StartCodeIs
      <4>3. Stands(b, q, StartCode(k + 1, lg))
        BY <1>2, <1>3, <4>1
      <4>4. is_start_code(b, q) = q + Len(d) /\ q + 2 <= Len(b)
        <5>1. PICK i : i = k + 1
          OBVIOUS
        <5>2. Stands(b, q, StartCode(i, lg))
          BY <4>3, <5>1
        <5>3. is_start_code(b, q) = q + Len(StartCode(i, lg)) /\ q + 2 <= Len(b)
          BY <5>2, CodeAt
        <5> QED BY <4>2, <5>1, <5>3
      <4> QED BY <4>2, <4>4
    <3> QED BY <3>1, <3>2
  <2>2. Stands(b, begin, e) /\ q \in Nat
    BY <1>8, <1>9
  <2> QED BY <1>7, <1>9, <2>1, <2>2, NalEndsThere
<1>12. SubSeq(b, begin, q - 1) = e
  <2>1. SubSeq(b, begin, begin + Len(e) - 1) = e
    BY <1>8, <1>9, StandsSubSeq
  <2>2. q - 1 = begin + Len(e) - 1
    BY <1>9
  <2> QED BY <2>1, <2>2
<1>13. q > begin /\ begin # 0
  BY <1>7, <1>9
<1>14. PICK s : s = [pos |-> p, ctx |-> ctx, found |-> v]
  OBVIOUS
<1>15. s.pos = p /\ s.ctx = ctx /\ s.found = v
  BY <1>14
<1>16. PICK here : here = IF q > begin THEN scan_nal(codec, ctx, SubSeq(b, begin, q - 1))
                                       ELSE [ctx |-> ctx, found |-> None]
  OBVIOUS
<1>17. here.ctx = Behind(codec, ctx, nal) /\ here.found = Found(codec, ctx, nal.msgs)
  <2>1. here = [ctx |-> Behind(codec, ctx, nal), found |-> Found(codec, ctx, nal.msgs)]
    BY <1>7, <1>12, <1>13, <1>16
  <2> QED BY <2>1
<1>18. NalRound(codec, b, s) =
         [pos |-> q, ctx |-> here.ctx, found |-> IF v = None THEN here.found ELSE v]
  BY <1>10, <1>11, <1>13, <1>15, <1>16, Zenon DEF NalRound
<1> QED BY <1>3, <1>5, <1>14, <1>17, <1>18 DEF TakesNal

(* What is in force, NAL by NAL. *)
LEMMA InForceNext ==
  ASSUME NEW codec \in Codecs, NEW ctx \in Contexts, NEW ns \in Seq(Nals(codec)), NEW k \in 1..Len(ns)
  PROVE  InForce(codec, ctx, ns, k + 1) = Behind(codec, InForce(codec, ctx, ns, k), ns[k])
<1>0. k \in Nat /\ k >= 1 /\ (k + 1) - 1 = k /\ \A i \in Int : i \in 1..k <=> i \in 1..(k - 1) \/ i = k
  OBVIOUS
<1>1. PICK S, T : S = SetsBefore(codec, ns, k) /\ T = SetsBefore(codec, ns, k + 1)
  OBVIOUS
<1>2. PICK c : c = InForce(codec, ctx, ns, k)
  OBVIOUS
<1>3. CASE IsSps(codec, ns[k].header) /\ Rbsp(ns[k]) \in DOMAIN SpsOf
  <2>1. k \in T /\ \A i \in T : i \in Int /\ i <= k
    BY <1>0, <1>1, <1>3 DEF SetsBefore
  <2>2. PICK last : last = CHOOSE j \in T : \A i \in T : i <= j
    OBVIOUS
  <2>3. last \in T /\ \A i \in T : i <= last
    BY <2>1, <2>2, Zenon
  <2>4. last = k
    BY <1>0, <2>1, <2>3
  <2>5. T # {}
    BY <2>1
  <2>6. InForce(codec, ctx, ns, k + 1) = SpsOf[Rbsp(ns[last])]
    BY <1>1, <2>2, <2>5, Zenon DEF InForce
  <2>7. Behind(codec, c, ns[k]) = SpsOf[Rbsp(ns[k])]
    BY <1>3, Zenon DEF Behind, SpsContext
  <2> QED BY <1>2, <2>4, <2>6, <2>7
<1>4. CASE ~(IsSps(codec, ns[k].header) /\ Rbsp(ns[k]) \in DOMAIN SpsOf)
  <2>1. \A i \in 1..((k + 1) - 1) : i \in 1..(k - 1) \/ i = k
    BY <1>0
  <2>2. \A i \in 1..(k - 1) : i \in 1..((k + 1) - 1)
    BY <1>0
  <2>3. S = T
    BY <1>1, <1>4, <2>1, <2>2, Zenon DEF SetsBefore
  <2>4. InForce(codec, ctx, ns, k + 1) = c
    BY <1>1, <1>2, <2>3 DEF InForce
  <2>5. Behind(codec, c, ns[k]) = c
    BY <1>4, Zenon DEF Behind, SpsContext
  <2> QED BY <1>2, <2>4, <2>5
<1> QED BY <1>3, <1>4

LEMMA InForceType ==
  ASSUME NEW codec \in Codecs, NEW ctx \in Contexts, NEW ns \in Seq(Nals(codec)),
         NEW k \in 1..(Len(ns) + 1)
  PROVE  InForce(codec, ctx, ns, k) \in Contexts /\ InForce(codec, ctx, ns, 1) = ctx
<1>0. PICK n \in Nat : n = Len(ns)
  OBVIOUS
<1>1. InForce(codec, ctx, ns, 1) = ctx
  <2>1. 1..(1 - 1) = {}
    OBVIOUS
  <2>2. SetsBefore(codec, ns, 1) = {}
    BY <2>1, Zenon DEF SetsBefore
  <2> QED BY <2>2, Zenon DEF InForce
<1> DEFINE P == {i \in 0..n : InForce(codec, ctx, ns, i + 1) \in Contexts}
<1>2. 0 \in P
  <2>1. 0 \in 0..n /\ 0 + 1 = 1
    BY <1>0
  <2> QED BY <1>1, <2>1
<1>3. ASSUME NEW i \in 1..n, i - 1 \in P
      PROVE  i \in P
  <2>1. i \in 0..n /\ (i - 1) + 1 = i /\ i \in 1..Len(ns)
    BY <1>0
  <2>2. PICK c \in Contexts : c = InForce(codec, ctx, ns, i)
    BY <1>3, <2>1
  <2>3. InForce(codec, ctx, ns, i + 1) = Behind(codec, c, ns[i])
    BY <2>1, <2>2, InForceNext
  <2> QED BY <2>1, <2>3, BehindType
<1>4. P = 0..n
  <2>1. P \in SUBSET (0..n)
    OBVIOUS
  <2> HIDE DEF P
  <2> QED BY <1>0, <1>2, <1>3, <2>1, LoopInduction
<1>5. k - 1 \in 0..n /\ (k - 1) + 1 = k
  BY <1>0
<1>6. k - 1 \in P
  <2> HIDE DEF P
  <2> QED BY <1>4, <1>5, Zenon
<1>7. InForce(codec, ctx, ns, (k - 1) + 1) \in Contexts
  BY <1>6
<1> HIDE DEF P
<1> QED BY <1>1, <1>5, <1>7

(* What one NAL means, and the first k NALs.                               *)
Here(codec, ctx, ns, k) == Found(codec, InForce(codec, ctx, ns, k), ns[k].msgs)

MeantBy(codec, ctx, ns, k) ==
  IF \E c \in Carriers(codec, ctx, ns) : c <= k
    THEN Here(codec, ctx, ns, Least(Carriers(codec, ctx, ns))) ELSE None

LEMMA HereIs ==
  ASSUME NEW codec \in Codecs, NEW ctx \in Contexts, NEW ns \in Seq(Nals(codec)), NEW k \in 1..Len(ns)
  PROVE  /\ k \in Carriers(codec, ctx, ns) <=> Here(codec, ctx, ns, k) # None
         /\ k \in Carriers(codec, ctx, ns) =>
              Here(codec, ctx, ns, k) = FirstWanted(codec, InForce(codec, ctx, ns, k), ns[k].msgs)
<1>1. PICK nal \in Nals(codec) : nal = ns[k]
  OBVIOUS
<1>2. PICK c \in Contexts : c = InForce(codec, ctx, ns, k)
  <2>1. k \in 1..(Len(ns) + 1)
    OBVIOUS
  <2> QED BY <2>1, InForceType
<1>3. k \in Carriers(codec, ctx, ns) <=> Wanted(codec, c, nal.msgs) # {}
  BY <1>1, <1>2, Zenon DEF Carriers
<1>4. Found(codec, c, nal.msgs) = None <=> Wanted(codec, c, nal.msgs) = {}
  BY PayloadDoes
<1>5. Wanted(codec, c, nal.msgs) # {} => Found(codec, c, nal.msgs) = FirstWanted(codec, c, nal.msgs)
  BY Zenon DEF Found
<1>6. Here(codec, ctx, ns, k) = Found(codec, c, nal.msgs)
  BY <1>1, <1>2 DEF Here
<1> QED BY <1>1, <1>2, <1>3, <1>4, <1>5, <1>6

(* A NAL more: it counts if nothing was found before it. *)
LEMMA MeantByNext ==
  ASSUME NEW codec \in Codecs, NEW ctx \in Contexts, NEW ns \in Seq(Nals(codec)), NEW k \in 1..Len(ns)
  PROVE  MeantBy(codec, ctx, ns, k) =
           IF MeantBy(codec, ctx, ns, k - 1) = None THEN Here(codec, ctx, ns, k)
           ELSE MeantBy(codec, ctx, ns, k - 1)
<1>0. PICK C \in SUBSET Nat : C = Carriers(codec, ctx, ns) /\ \A c \in C : c \in 1..Len(ns)
  <2>1. Carriers(codec, ctx, ns) \in SUBSET Nat /\ \A c \in Carriers(codec, ctx, ns) : c \in 1..Len(ns)
    BY DEF Carriers
  <2> QED BY <2>1, Zenon
<1>1. \A i \in 1..Len(ns) : i \in C <=> Here(codec, ctx, ns, i) # None
  BY <1>0, HereIs
<1>2. CASE \E c \in C : c <= k - 1
  <2>1. PICK a \in C : \A j \in C : a <= j
    BY <1>2, NatMin
  <2>2. Least(C) = a
    <3>1. C \in SUBSET Int
      OBVIOUS
    <3> QED BY <2>1, <3>1, LeastIs
  <2>3. \E c \in C : c <= k
    BY <1>2
  <2>4. MeantBy(codec, ctx, ns, k - 1) = Here(codec, ctx, ns, a)
    BY <1>0, <1>2, <2>2 DEF MeantBy
  <2>5. MeantBy(codec, ctx, ns, k) = Here(codec, ctx, ns, a)
    BY <1>0, <2>2, <2>3 DEF MeantBy
  <2>6. Here(codec, ctx, ns, a) # None
    BY <1>0, <1>1, <2>1
  <2> QED BY <2>4, <2>5, <2>6
<1>3. CASE ~(\E c \in C : c <= k - 1) /\ k \in C
  <2>1. MeantBy(codec, ctx, ns, k - 1) = None
    BY <1>0, <1>3 DEF MeantBy
  <2>2. Least(C) = k
    <3>1. \A j \in C : k <= j
      BY <1>3
    <3>2. C \in SUBSET Int
      OBVIOUS
    <3> QED BY <1>3, <3>1, <3>2, LeastIs
  <2>3. MeantBy(codec, ctx, ns, k) = Here(codec, ctx, ns, k)
    <3>1. k <= k
      OBVIOUS
    <3> QED BY <1>0, <1>3, <2>2, <3>1 DEF MeantBy
  <2> QED BY <2>1, <2>3
<1>4. CASE ~(\E c \in C : c <= k - 1) /\ k \notin C
  <2>1. MeantBy(codec, ctx, ns, k - 1) = None
    BY <1>0, <1>4 DEF MeantBy
  <2>2. ~(\E c \in C : c <= k)
    <3>1. SUFFICES ASSUME NEW c \in C, c <= k
                   PROVE  FALSE
      OBVIOUS
    <3>2. c \in Nat /\ k \in Nat /\ c # k /\ ~(c <= k - 1)
      BY <1>4
    <3> QED BY <3>1, <3>2
  <2>3. MeantBy(codec, ctx, ns, k) = None
    BY <1>0, <2>2 DEF MeantBy
  <2>4. Here(codec, ctx, ns, k) = None
    BY <1>1, <1>4
  <2> QED BY <2>1, <2>3, <2>4
<1> QED BY <1>2, <1>3, <1>4

(* Whatever is encoded is found, for every access unit. *)
LEMMA EncodedIsFound ==
  ASSUME NEW codec \in Codecs, NEW ctx \in Contexts, NEW ns \in Seq(Nals(codec)), NEW lg
  PROVE  scan_au_prefix(codec, ctx, Encode(ns, lg)) =
           [ctx |-> InForce(codec, ctx, ns, Len(ns) + 1), found |-> Meant(codec, ctx, ns)]
<1>0. PICK n \in Nat : n = Len(ns)
  OBVIOUS
<1>1. PICK b \in Seq(Nat) : b = Encode(ns, lg)
  BY EncodeLaysOut
<1>2. PICK starts : Layout(b, ns, lg, starts)
  BY <1>1, EncodeLaysOut
<1>3. PICK l \in Nat : l = Len(b)
  OBVIOUS
<1>4. PICK f \in [0..l -> NalStates] :
        /\ f[0] = [pos |-> 1, ctx |-> ctx, found |-> None]
        /\ \A i \in 1..l : f[i] = NalRound(codec, b, f[i - 1])
        /\ scan_au_prefix(codec, ctx, b) = [ctx |-> f[l].ctx, found |-> f[l].found]
  <2>1. PICK g : IsAuLoop(g, l, codec, ctx, b)
    BY <1>3, ScanAuIsLoop
  <2> QED BY <2>1 DEF IsAuLoop
<1>5. /\ starts \in [1..(n + 1) -> Nat \ {0}] /\ starts[1] = 1 /\ starts[n + 1] = l + 1
      /\ \A k \in 1..n : starts[k + 1] = starts[k] + Len(StartCode(k, lg)) + Len(EncodedNal(ns[k]))
  BY <1>0, <1>2, <1>3, Zenon DEF Layout
<1>6. n <= l
  <2> DEFINE T == {i \in 0..n : starts[i + 1] > i}
  <2>1. 0 \in T
    BY <1>5
  <2>2. ASSUME NEW i \in 1..n, i - 1 \in T
        PROVE  i \in T
    <3>1. i \in 1..(n + 1) /\ i + 1 \in 1..(n + 1) /\ (i - 1) + 1 = i /\ i \in 0..n /\ i \in 1..Len(ns)
      BY <1>0
    <3>2. PICK p \in Nat, q \in Nat : p = starts[i] /\ q = starts[i + 1]
      BY <1>5, <3>1
    <3>3. p > i - 1
      BY <2>2, <3>1, <3>2
    <3>4. PICK c \in Nat : c = Len(StartCode(i, lg)) /\ c >= 3
      <4>1. Len(StartCode(i, lg)) = 3 \/ Len(StartCode(i, lg)) = 4
        BY StartCodeIs
      <4>2. CASE Len(StartCode(i, lg)) = 3
        BY <4>2
      <4>3. CASE Len(StartCode(i, lg)) = 4
        BY <4>3
      <4> QED BY <4>1, <4>2, <4>3
    <3>5. PICK e \in Nat : e = Len(EncodedNal(ns[i]))
      <4>1. PICK nal \in Nals(codec) : nal = ns[i]
        BY <3>1
      <4>2. PICK x \in Seq(Nat) : x = EncodedNal(nal)
        BY EncodedNalDoes
      <4>3. Len(x) \in Nat
        OBVIOUS
      <4> QED BY <4>1, <4>2, <4>3
    <3>6. q = p + c + e
      BY <1>5, <3>2, <3>4, <3>5
    <3>7. q > i
      BY <3>3, <3>4, <3>6
    <3> QED BY <3>1, <3>2, <3>7
  <2>3. T = 0..n
    <3>1. T \in SUBSET (0..n)
      OBVIOUS
    <3> HIDE DEF T
    <3> QED BY <1>0, <2>1, <2>2, <3>1, LoopInduction
  <2>4. n \in T
    <3>1. n \in 0..n
      BY <1>0
    <3> HIDE DEF T
    <3> QED BY <2>3, <3>1, Zenon
  <2>5. starts[n + 1] > n
    BY <2>4
  <2> QED BY <1>0, <1>3, <1>5, <2>5
<1> DEFINE At(k) == [pos |-> starts[k + 1], ctx |-> InForce(codec, ctx, ns, k + 1),
                     found |-> MeantBy(codec, ctx, ns, k)]
           P == {k \in 0..n : f[k] = At(k)}
<1>7. 0 \in P
  <2>1. MeantBy(codec, ctx, ns, 0) = None
    <3>1. \A c \in Carriers(codec, ctx, ns) : c \in Nat /\ c >= 1
      BY DEF Carriers
    <3>2. ~(\E c \in Carriers(codec, ctx, ns) : c <= 0)
      BY <3>1
    <3> QED BY <3>2 DEF MeantBy
  <2>2. 0 \in 0..n /\ 0 + 1 = 1
    BY <1>0
  <2>3. InForce(codec, ctx, ns, 1) = ctx
    <3>1. 1 \in 1..(Len(ns) + 1)
      BY <1>0
    <3> QED BY <3>1, InForceType
  <2> QED BY <1>4, <1>5, <2>1, <2>2, <2>3
<1>8. ASSUME NEW k \in 1..n, k - 1 \in P
      PROVE  k \in P
  <2>1. k \in 1..Len(ns) /\ k \in 1..l /\ (k - 1) + 1 = k /\ k \in 0..n
    BY <1>0, <1>6
  <2>2. PICK v : v = MeantBy(codec, ctx, ns, k - 1)
    OBVIOUS
  <2>3. PICK c \in Contexts : c = InForce(codec, ctx, ns, k)
    <3>1. k \in 1..(Len(ns) + 1)
      BY <2>1
    <3> QED BY <3>1, InForceType
  <2>4. f[k - 1] = [pos |-> starts[k], ctx |-> c, found |-> v]
    BY <1>8, <2>1, <2>2, <2>3
  <2>5. f[k] = NalRound(codec, b, f[k - 1])
    BY <1>4, <2>1
  <2>6. NalRound(codec, b, [pos |-> starts[k], ctx |-> c, found |-> v]) =
          [pos |-> starts[k + 1], ctx |-> Behind(codec, c, ns[k]),
           found |-> IF v = None THEN Found(codec, c, ns[k].msgs) ELSE v]
    <3>1. TakesNal(codec, c, b, ns, starts, k, v)
      BY <1>2, <2>1, NalRoundDoes
    <3> QED BY <3>1, Zenon DEF TakesNal
  <2>7. MeantBy(codec, ctx, ns, k) = IF v = None THEN Found(codec, c, ns[k].msgs) ELSE v
    <3>1. Here(codec, ctx, ns, k) = Found(codec, c, ns[k].msgs)
      BY <2>3 DEF Here
    <3> QED BY <2>1, <2>2, <3>1, MeantByNext
  <2>8. InForce(codec, ctx, ns, k + 1) = Behind(codec, c, ns[k])
    BY <2>1, <2>3, InForceNext
  <2>9. f[k] = At(k)
    BY <2>4, <2>5, <2>6, <2>7, <2>8, Zenon
  <2> QED BY <2>1, <2>9
<1>9. P = 0..n
  <2>1. P \in SUBSET (0..n)
    OBVIOUS
  <2> HIDE DEF P
  <2> QED BY <1>0, <1>7, <1>8, <2>1, LoopInduction
<1>10. f[n] = [pos |-> l + 1, ctx |-> InForce(codec, ctx, ns, n + 1), found |-> MeantBy(codec, ctx, ns, n)]
  <2>1. n \in P
    <3>1. n \in 0..n
      BY <1>0
    <3> HIDE DEF P
    <3> QED BY <1>9, <3>1, Zenon
  <2> QED BY <1>5, <2>1
<1> HIDE DEF P
(* At the end the walk stays where it is. *)
<1>11. f[l] = f[n]
  <2> DEFINE R == {i \in 0..l : i >= n => f[i] = f[n]}
  <2>1. 0 \in R
    BY <1>0
  <2>2. ASSUME NEW i \in 1..l, i - 1 \in R
        PROVE  i \in R
    <3>1. CASE i - 1 >= n
      <4>1. f[i - 1] = f[n] /\ i \in 0..l
        BY <1>3, <2>2, <3>1
      <4>2. f[i] = NalRound(codec, b, f[n])
        BY <1>4, <4>1
      <4>3. f[n].pos + 2 > Len(b)
        BY <1>3, <1>10
      <4>4. NalRound(codec, b, f[n]) = f[n]
        BY <4>3, Zenon DEF NalRound
      <4> QED BY <4>1, <4>2, <4>4
    <3>2. CASE ~(i - 1 >= n)
      <4>1. i \in 0..l /\ (i >= n => i = n)
        BY <1>0, <1>3, <3>2
      <4> QED BY <4>1
    <3> QED BY <3>1, <3>2
  <2>3. R = 0..l
    <3>1. R \in SUBSET (0..l)
      OBVIOUS
    <3> HIDE DEF R
    <3> QED BY <1>3, <2>1, <2>2, <3>1, LoopInduction
  <2>4. l \in R /\ l >= n
    BY <1>0, <1>3, <1>6, <2>3, SMTT(30)
  <2> QED BY <2>4
<1>12. MeantBy(codec, ctx, ns, n) = Meant(codec, ctx, ns)
  <2>1. \A c \in Carriers(codec, ctx, ns) : c <= n
    BY <1>0 DEF Carriers
  <2>2. (\E c \in Carriers(codec, ctx, ns) : c <= n) <=> Carriers(codec, ctx, ns) # {}
    BY <2>1
  <2>3. CASE Carriers(codec, ctx, ns) = {}
    BY <2>2, <2>3 DEF MeantBy, Meant
  <2>4. CASE Carriers(codec, ctx, ns) # {}
    <3>1. PICK k \in Carriers(codec, ctx, ns) : k = Least(Carriers(codec, ctx, ns))
      <4>1. Carriers(codec, ctx, ns) \in SUBSET Nat
        BY DEF Carriers
      <4>2. PICK k \in Carriers(codec, ctx, ns) : \A j \in Carriers(codec, ctx, ns) : k <= j
        BY <2>4, <4>1, NatMin
      <4>3. Carriers(codec, ctx, ns) \in SUBSET Int
        BY <4>1
      <4> QED BY <4>2, <4>3, LeastIs
    <3>2. k \in 1..Len(ns)
      BY <3>1 DEF Carriers
    <3>3. Here(codec, ctx, ns, k) = FirstWanted(codec, InForce(codec, ctx, ns, k), ns[k].msgs)
      BY <3>1, <3>2, HereIs
    <3>4. MeantBy(codec, ctx, ns, n) = Here(codec, ctx, ns, k)
      BY <2>2, <2>4, <3>1 DEF MeantBy
    <3>5. Meant(codec, ctx, ns) = FirstWanted(codec, InForce(codec, ctx, ns, k), ns[k].msgs)
      BY <2>4, <3>1 DEF Meant
    <3> QED BY <3>3, <3>4, <3>5
  <2> QED BY <2>3, <2>4
<1>13. f[l].ctx = InForce(codec, ctx, ns, n + 1) /\ f[l].found = Meant(codec, ctx, ns)
  BY <1>10, <1>11, <1>12
<1> QED BY <1>0, <1>1, <1>4, <1>13

(* scan_au_prefix() finds the first timecode that can be read in every     *)
(* access unit, and leaves the last parameter set in force, in H.264 and   *)
(* in HEVC: for every coding of byte values, every set of headers,         *)
(* payloads and types, whatever the parsers accept, any number of NALs,    *)
(* and start codes of either length in front of each.                      *)
THEOREM FirstTimecodeIsFound == AnnexBSpec => []FirstTimecodeFound
<1> DEFINE Inv == coding \in Codecs /\ known \in Contexts /\ nals \in Seq(Nals(coding))
<1>1. AnnexBInit => Inv
  BY DEF AnnexBInit
<1>2. Inv /\ [AnnexBNext]_auVars => Inv'
  <2>1. SUFFICES ASSUME Inv, [AnnexBNext]_auVars
                 PROVE  Inv'
    OBVIOUS
  <2>2. CASE AnnexBNext
    <3>1. PICK nal \in Nals(coding) : nals' = Append(nals, nal) /\ UNCHANGED <<coding, known>>
      BY <2>2 DEF AnnexBNext, NextNal
    <3>2. nals' \in Seq(Nals(coding))
      BY <2>1, <3>1, AppendProperties
    <3>3. Nals(coding') = Nals(coding)
      BY <3>1
    <3> QED BY <2>1, <3>1, <3>2, <3>3
  <2>3. CASE UNCHANGED auVars
    BY <2>1, <2>3 DEF auVars
  <2> QED BY <2>1, <2>2, <2>3
<1>3. Inv => FirstTimecodeFound
  BY EncodedIsFound DEF FirstTimecodeFound
<1> QED BY <1>1, <1>2, <1>3, PTL DEF AnnexBSpec
=============================================================================
