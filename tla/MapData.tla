------------------------------ MODULE MapData ------------------------------
(***************************************************************************)
(* CSLSMapData (src/src/core/SLSMapData.cpp): the rings of one server, by  *)
(* stream key, with the parser states that hang off each key and the two   *)
(* budget counters every allocation is charged to.  add(), remove(),       *)
(* clear() and set_timecode_scan() each run under the write lock of        *)
(* m_rwclock from their first test to their last assignment, so each is    *)
(* one action.  put() and get() change the ring of a key and not the map:  *)
(* they are in RecycleArray.                                               *)
(*                                                                         *)
(* The refusing branch of add() is a condition of its own (AddRefused) so  *)
(* that the callers, in StreamOwnership, can take it.                      *)
(***************************************************************************)
EXTENDS Integers, FiniteSets, Functions

CONSTANTS
  Keys,              \* the stream keys, "app/stream"
  DefaultSize,       \* DEFAULT_MAX_DATA_SIZE
  MAX_RING_BYTES,
  m_max_streams,     \* 0 is unlimited
  m_max_total_ring_bytes,
  Hints              \* the <<max_bitrate_kbps, latency_ms>> add() may get

ASSUME MapAssumption ==
  /\ DefaultSize \in Nat \ {0}
  /\ MAX_RING_BYTES \in Nat
  /\ m_max_streams \in Nat
  /\ m_max_total_ring_bytes \in Nat
  /\ Hints \subseteq Nat \X Nat

ASSUME KeysFinite == IsFiniteSet(Keys)

VARIABLES
  m_map_array,       \* [Keys -> the size of the key's ring, 0 for no ring]
  m_map_cc_state,    \* the keys that have a continuity parser state
  m_map_tc_state,    \* the keys that have a timecode scanner
  m_stream_count,
  m_total_ring_bytes

mapVars == <<m_map_array, m_map_cc_state, m_map_tc_state, m_stream_count,
             m_total_ring_bytes>>

-----------------------------------------------------------------------------
Rings == {k \in Keys : m_map_array[k] # 0}

MapInit ==
  /\ m_map_array = [k \in Keys |-> 0]
  /\ m_map_cc_state = {}
  /\ m_map_tc_state = {}
  /\ m_stream_count = 0
  /\ m_total_ring_bytes = 0

(* One latency window of data, of at least a second, up to the cap of one  *)
(* stream; kbps * 1000 / 8 is kbps * 125.                                  *)
TargetBytes(kbps, latency) ==
  LET window == IF latency \div 1000 < 1 THEN 1 ELSE latency \div 1000
      target == kbps * 125 * window
  IN  IF target > MAX_RING_BYTES THEN MAX_RING_BYTES ELSE target

(* The size add() gives a ring: the default is the floor, and without a    *)
(* hint (hint[1] bitrate, hint[2] latency) also the answer.                *)
IntendedSize(hint) ==
  IF hint[1] > 0 /\ hint[2] > 0 /\ TargetBytes(hint[1], hint[2]) > DefaultSize
  THEN TargetBytes(hint[1], hint[2]) ELSE DefaultSize

-----------------------------------------------------------------------------
(* add(key, max_bitrate_kbps, latency_ms).                                 *)

(* Mutant: the stream that reaches the cap is let in. *)
StreamCapReached_OffByOne ==
  /\ m_max_streams > 0
  /\ m_stream_count > m_max_streams

StreamCapReached ==
  /\ m_max_streams > 0
  /\ m_stream_count >= m_max_streams

(* Mutant: only what is already allocated is compared with the cap. *)
BytesCapExceeded_Before(hint) ==
  /\ m_max_total_ring_bytes > 0
  /\ m_total_ring_bytes > m_max_total_ring_bytes

BytesCapExceeded(hint) ==
  /\ m_max_total_ring_bytes > 0
  /\ m_total_ring_bytes + IntendedSize(hint) > m_max_total_ring_bytes

(* add() returns SLS_ERROR, and nothing has changed. *)
AddRefused(k, hint) ==
  /\ k \notin Rings
  /\ StreamCapReached \/ BytesCapExceeded(hint)

(* Mutant: an idempotent re-add is charged to the budget again. *)
AddExisting_Charged(k) ==
  /\ k \in Rings
  /\ m_stream_count' = m_stream_count + 1
  /\ UNCHANGED <<m_map_array, m_map_cc_state, m_map_tc_state,
                 m_total_ring_bytes>>

(* add() of a key that has its ring: SLS_OK, the ring is left as it is. *)
AddExisting(k) ==
  /\ k \in Rings
  /\ UNCHANGED mapVars

AddNew(k, hint) ==
  /\ k \notin Rings
  /\ ~StreamCapReached
  /\ ~BytesCapExceeded(hint)
  /\ m_map_array' = [m_map_array EXCEPT ![k] = IntendedSize(hint)]
  /\ m_stream_count' = m_stream_count + 1
  /\ m_total_ring_bytes' = m_total_ring_bytes + IntendedSize(hint)
  /\ m_map_cc_state' = m_map_cc_state \cup {k}
  /\ UNCHANGED m_map_tc_state

(* add() returns SLS_OK. *)
Add(k, hint) == AddExisting(k) \/ AddNew(k, hint)

-----------------------------------------------------------------------------
(* Mutant: the budget is released at the default size. *)
Remove_DefaultSize(k) ==
  /\ m_map_cc_state' = m_map_cc_state \ {k}
  /\ m_map_tc_state' = m_map_tc_state \ {k}
  /\ m_map_array' = [m_map_array EXCEPT ![k] = 0]
  /\ m_stream_count' = m_stream_count - (IF k \in Rings THEN 1 ELSE 0)
  /\ m_total_ring_bytes' = m_total_ring_bytes
                             - (IF k \in Rings THEN DefaultSize ELSE 0)

(* Mutant: the early return of a missing ring leaves the parser states,    *)
(* and a present one drops only the ring.                                  *)
Remove_RingOnly(k) ==
  /\ m_map_array' = [m_map_array EXCEPT ![k] = 0]
  /\ m_stream_count' = m_stream_count - (IF k \in Rings THEN 1 ELSE 0)
  /\ m_total_ring_bytes' = m_total_ring_bytes - m_map_array[k]
  /\ UNCHANGED <<m_map_cc_state, m_map_tc_state>>

(* remove(key): the parser states go whether or not there is a ring; the   *)
(* counters move only when there is one (an absent ring has size 0).       *)
Remove(k) ==
  /\ m_map_cc_state' = m_map_cc_state \ {k}
  /\ m_map_tc_state' = m_map_tc_state \ {k}
  /\ m_map_array' = [m_map_array EXCEPT ![k] = 0]
  /\ m_stream_count' = m_stream_count - (IF k \in Rings THEN 1 ELSE 0)
  /\ m_total_ring_bytes' = m_total_ring_bytes - m_map_array[k]

(* What the rings really hold, in bytes. *)
RingBytes == SumFunction(m_map_array)

(* clear(): every ring is released one by one, each with its own size.     *)
Clear ==
  /\ m_map_array' = [k \in Keys |-> 0]
  /\ m_stream_count' = m_stream_count - Cardinality(Rings)
  /\ m_total_ring_bytes' = m_total_ring_bytes - RingBytes
  /\ m_map_cc_state' = {}
  /\ m_map_tc_state' = {}

(* set_timecode_scan(key, enabled). *)
SetTimecodeScan(k, enabled) ==
  /\ m_map_tc_state' = IF enabled THEN m_map_tc_state \cup {k}
                                  ELSE m_map_tc_state \ {k}
  /\ UNCHANGED <<m_map_array, m_map_cc_state, m_stream_count,
                 m_total_ring_bytes>>

MapNext ==
  \/ \E k \in Keys, hint \in Hints : AddNew(k, hint)
  \/ \E k \in Keys : AddExisting(k)
  \/ \E k \in Keys : Remove(k)
  \/ Clear
  \/ \E k \in Keys, enabled \in BOOLEAN : SetTimecodeScan(k, enabled)

MapSpec == MapInit /\ [][MapNext]_mapVars

-----------------------------------------------------------------------------
(* Properties.                                                             *)

(* The state of CSLSMapData is well typed.  Every ring is at least the     *)
(* default size (the floor of add()), and no hint takes one past the       *)
(* larger of the default and MAX_RING_BYTES, so the (int) cast that        *)
(* setSize() is called with loses nothing.                                 *)
MapTypeOK ==
  /\ m_map_array \in [Keys -> Nat]
  /\ \A k \in Rings : /\ m_map_array[k] >= DefaultSize
                      /\ \/ m_map_array[k] = DefaultSize
                         \/ m_map_array[k] <= MAX_RING_BYTES
  /\ m_map_cc_state \subseteq Keys
  /\ m_map_tc_state \subseteq Keys
  /\ m_stream_count \in Nat

(* The stream counter is what it counts, whatever was added twice,         *)
(* removed twice or cleared: a counter that drifted up would refuse        *)
(* publishers for ever, one that drifted down would let the cap be passed. *)
StreamCountExact == m_stream_count = Cardinality(Rings)

(* The byte counter is what the rings really hold.                         *)
RingBytesExact == m_total_ring_bytes = RingBytes

(* The streams themselves, not only their counter, stay within the cap.    *)
StreamCapHolds == m_max_streams > 0 => Cardinality(Rings) <= m_max_streams

(* The memory the rings really hold stays within the cap.                  *)
ByteCapHolds ==
  m_max_total_ring_bytes > 0 => RingBytes <= m_max_total_ring_bytes

(* CSLSMapData::add(), remove(), clear(): after any sequence of them the   *)
(* two counters are what the rings really come to, and the rings stay      *)
(* within both caps.                                                       *)
BudgetExact == StreamCountExact /\ RingBytesExact /\ StreamCapHolds /\ ByteCapHolds

(* A stream has its continuity state exactly while it has its ring: put()  *)
(* never has to add one under its read lock, and a session never inherits  *)
(* the state of the one before it.                                         *)
ParserStateTracksRing == m_map_cc_state = Rings
=============================================================================
