---------------------------- MODULE RecycleArray ----------------------------
(***************************************************************************)
(* CSLSRecycleArray (src/src/core/SLSRecycleArray.cpp): the ring of one    *)
(* stream, written by its publisher and read by every player and pusher    *)
(* of that stream, each with an SLSRecycleArrayID of its own.  The ring    *)
(* is created and deleted under the write lock of CSLSMapData, which       *)
(* CSLSMapData::put and get hold for reading, so a ring never goes away    *)
(* in the middle of a put or of a get.                                     *)
(*                                                                         *)
(* put() is two steps: the copy and the advance of m_nWritePos under the   *)
(* ring's write lock, then the increment of m_nDataCount after the lock is *)
(* released.  With worker_threads 0 or 1 every role runs on one thread and *)
(* no get() falls between the two (SharedWorker); with more workers one    *)
(* can.                                                                    *)
(*                                                                         *)
(* A byte is represented by its index in the session's byte stream (1, 2,  *)
(* ...); 0 is the zero a fresh allocation holds.  The diagnostic gauges    *)
(* (m_max_reader_backlog, m_last_read_time, the backpressure and drop      *)
(* counters) are left out: nothing below reads them.                       *)
(***************************************************************************)
EXTENDS Integers, Sequences

CONSTANTS
  Readers,       \* the SLSRecycleArrayIDs: one per player or pusher role
  DefaultSize,   \* DEFAULT_MAX_DATA_SIZE
  Sizes,         \* the ring sizes CSLSMapData::add may ask for
  MaxPut,        \* the longest block one put() is called with
  BuffSize,      \* the size argument of get(): DATA_BUFF_SIZE
  Aligned,       \* the aligned argument of get(): TS_UDP_LEN
  SharedWorker,  \* TRUE when the writer and the readers run on one worker
  MaxBytes,      \* bound: bytes written in one session
  MaxGeneration  \* bound: generations handed out

ASSUME RingAssumption ==
  /\ DefaultSize \in Nat \ {0}
  /\ Sizes \subseteq {n \in Nat : n >= DefaultSize}
  /\ MaxPut \in Nat \ {0}
  /\ BuffSize \in Nat \ {0}
  /\ Aligned \in Nat
  /\ SharedWorker \in BOOLEAN
  /\ MaxBytes \in Nat
  /\ MaxGeneration \in Nat

VARIABLES
  live,            \* is the ring in CSLSMapData::m_map_array
  m_nDataSize,
  m_nWritePos,
  m_nDataCount,
  m_nGeneration,   \* of the live ring, or the last one handed out
  m_arrayData,
  m_overrun_count,
  inflight,        \* bytes a put() has copied and not yet counted
  read_id,         \* [Readers -> SLSRecycleArrayID]
  out,             \* [Readers -> what the last get() copied out]
  cursor           \* history: the stream index each reader stands at

ringVars == <<live, m_nDataSize, m_nWritePos, m_nDataCount, m_nGeneration,
              m_arrayData, inflight>>
vars == <<ringVars, m_overrun_count, read_id, out, cursor>>

-----------------------------------------------------------------------------
(* State of a reader, and of the writer.                                   *)

NewReader == [nReadPos |-> 0, nDataCount |-> 0, bFirst |-> TRUE,
              nGeneration |-> 0]

(* The bytes really in the ring, counted or not. *)
Produced == m_nDataCount + inflight

(* A position moved n <= size slots forward; size itself wraps to 0. *)
Forward(pos, n, size) == IF pos + n < size THEN pos + n ELSE pos + n - size

(* The slot n slots behind pos. *)
Back(pos, n, size) == IF n <= pos THEN pos - n ELSE pos - n + size

Init ==
  /\ live = FALSE
  /\ m_nDataSize = DefaultSize
  /\ m_nWritePos = 0
  /\ m_nDataCount = 0
  /\ m_nGeneration = 0
  /\ m_arrayData = [i \in 0 .. DefaultSize - 1 |-> 0]
  /\ m_overrun_count = 0
  /\ inflight = 0
  /\ read_id = [r \in Readers |-> NewReader]
  /\ out = [r \in Readers |-> << >>]
  /\ cursor = [r \in Readers |-> 0]

-----------------------------------------------------------------------------
(* The ring's lifetime, driven by CSLSMapData.                             *)

(* Mutant: the recreated ring keeps its identity. *)
GenerationsTaken_None(n) == 0

(* The constructor takes one generation, and setSize() another one when    *)
(* the ring is grown beyond the default.                                   *)
GenerationsTaken(n) == IF n > DefaultSize THEN 2 ELSE 1

(* CSLSMapData::add: a new zero-filled ring, and setSize(n) before anyone  *)
(* can see it.                                                             *)
Create(n) ==
  /\ ~live
  /\ m_nGeneration + GenerationsTaken(n) <= MaxGeneration
  /\ live' = TRUE
  /\ m_nDataSize' = n
  /\ m_nWritePos' = 0
  /\ m_nDataCount' = 0
  /\ m_nGeneration' = m_nGeneration + GenerationsTaken(n)
  /\ m_arrayData' = [i \in 0 .. n - 1 |-> 0]
  /\ m_overrun_count' = 0
  /\ inflight' = 0
  /\ UNCHANGED <<read_id, out, cursor>>

(* CSLSMapData::remove. *)
Delete ==
  /\ live
  /\ inflight = 0
  /\ live' = FALSE
  /\ UNCHANGED <<m_nDataSize, m_nWritePos, m_nDataCount, m_nGeneration,
                 m_arrayData, inflight, m_overrun_count, read_id, out, cursor>>

-----------------------------------------------------------------------------
(* put(data, len): one writer per ring, so one put() at a time.            *)

(* Mutant: the second memcpy of put() is forgotten. *)
Written_OneCopy(len) ==
  [i \in 0 .. m_nDataSize - 1 |->
     IF i >= m_nWritePos /\ i - m_nWritePos < len
     THEN Produced + i - m_nWritePos + 1 ELSE m_arrayData[i]]

(* What the slots hold after len bytes were copied in at the write head. *)
Written(len) ==
  [i \in 0 .. m_nDataSize - 1 |->
     LET off == IF i >= m_nWritePos THEN i - m_nWritePos
                                    ELSE i - m_nWritePos + m_nDataSize
     IN IF off < len THEN Produced + off + 1 ELSE m_arrayData[i]]

(* The section under the write lock. *)
PutCopy(len) ==
  /\ live
  /\ inflight = 0
  /\ len <= m_nDataSize
  /\ Produced + len <= MaxBytes
  /\ m_arrayData' = Written(len)
  /\ m_nWritePos' = Forward(m_nWritePos, len, m_nDataSize)
  /\ inflight' = len
  /\ UNCHANGED <<live, m_nDataSize, m_nDataCount, m_nGeneration,
                 m_overrun_count, read_id, out, cursor>>

(* m_nDataCount.fetch_add(len), after the lock is released. *)
PutCount ==
  /\ inflight > 0
  /\ m_nDataCount' = m_nDataCount + inflight
  /\ inflight' = 0
  /\ UNCHANGED <<live, m_nDataSize, m_nWritePos, m_nGeneration, m_arrayData,
                 m_overrun_count, read_id, out, cursor>>

-----------------------------------------------------------------------------
(* get(data, size, read_id, aligned): whole under the read lock.           *)

CanGet == live /\ (SharedWorker => inflight = 0)

(* Mutant: the rejoin moves the position and not the byte count. *)
Anchor_KeepCount(r) ==
  /\ read_id' = [read_id EXCEPT ![r] =
                   [nReadPos |-> m_nWritePos,
                    nDataCount |-> read_id[r].nDataCount,
                    bFirst |-> FALSE, nGeneration |-> m_nGeneration]]
  /\ cursor' = [cursor EXCEPT ![r] = Produced]
  /\ out' = [out EXCEPT ![r] = << >>]

(* The reader is placed at the write head: a first anchor, or a rejoin. *)
Anchor(r) ==
  /\ read_id' = [read_id EXCEPT ![r] =
                   [nReadPos |-> m_nWritePos, nDataCount |-> m_nDataCount,
                    bFirst |-> FALSE, nGeneration |-> m_nGeneration]]
  /\ cursor' = [cursor EXCEPT ![r] = Produced]
  /\ out' = [out EXCEPT ![r] = << >>]

Stale(r) == read_id[r].nGeneration # m_nGeneration

GetFirst(r) ==
  /\ CanGet
  /\ read_id[r].bFirst
  /\ Anchor(r)
  /\ UNCHANGED <<ringVars, m_overrun_count>>

GetReanchor(r) ==
  /\ CanGet
  /\ ~read_id[r].bFirst
  /\ Stale(r)
  /\ Anchor(r)
  /\ UNCHANGED <<ringVars, m_overrun_count>>

Behind(r) == m_nDataCount - read_id[r].nDataCount

(* Mutant: "no new data" looks at the positions alone. *)
NoNewData_PosOnly(r) == read_id[r].nReadPos = m_nWritePos

NoNewData(r) == read_id[r].nReadPos = m_nWritePos /\ Behind(r) = 0

GetNothing(r) ==
  /\ CanGet
  /\ ~read_id[r].bFirst
  /\ ~Stale(r)
  /\ NoNewData(r)
  /\ out' = [out EXCEPT ![r] = << >>]
  /\ UNCHANGED <<ringVars, m_overrun_count, read_id, cursor>>

(* Mutant: only the backstop for another incarnation is left. *)
Overrun_NegativeOnly(r) == Behind(r) < 0

(* bytes_since_last_read >= m_nDataSize || bytes_since_last_read < 0 *)
Overrun(r) == Behind(r) >= m_nDataSize \/ Behind(r) < 0

(* Mutant: the reader is moved forward and nobody is told. *)
GetOverrun_Uncounted(r) ==
  /\ CanGet
  /\ ~read_id[r].bFirst
  /\ ~Stale(r)
  /\ ~NoNewData(r)
  /\ Overrun(r)
  /\ Anchor(r)
  /\ UNCHANGED <<ringVars, m_overrun_count>>

GetOverrun(r) ==
  /\ CanGet
  /\ ~read_id[r].bFirst
  /\ ~Stale(r)
  /\ ~NoNewData(r)
  /\ Overrun(r)
  /\ m_overrun_count' = m_overrun_count + 1
  /\ Anchor(r)
  /\ UNCHANGED ringVars

Ready(r) ==
  LET pos == read_id[r].nReadPos
  IN IF pos < m_nWritePos THEN m_nWritePos - pos
                          ELSE m_nDataSize - pos + m_nWritePos

CopyLen(ready) ==
  LET n == IF ready <= BuffSize THEN ready ELSE BuffSize
  IN IF Aligned > 0 THEN (n \div Aligned) * Aligned ELSE n

(* The n bytes from slot pos on, around the end of the ring. *)
Slice(pos, n) ==
  [i \in 1 .. n |-> m_arrayData[Forward(pos, i - 1, m_nDataSize)]]

(* Mutant: the reader's count snaps to the writer's, forgiving the backlog. *)
Consumed_Snap(r, n) == m_nDataCount

(* The reader's count advances by what was really copied. *)
Consumed(r, n) == read_id[r].nDataCount + n

(* A copy of nothing (less than one aligned block is ready) changes no     *)
(* reader state, and is part of this action too.                           *)
GetCopy(r) ==
  /\ CanGet
  /\ ~read_id[r].bFirst
  /\ ~Stale(r)
  /\ ~NoNewData(r)
  /\ ~Overrun(r)
  /\ LET n == CopyLen(Ready(r))
         pos == read_id[r].nReadPos
     IN /\ out' = [out EXCEPT ![r] = Slice(pos, n)]
        /\ read_id' = [read_id EXCEPT ![r] =
                         [@ EXCEPT !.nReadPos = Forward(pos, n, m_nDataSize),
                                   !.nDataCount = Consumed(r, n)]]
        /\ cursor' = [cursor EXCEPT ![r] = @ + n]
  /\ UNCHANGED <<ringVars, m_overrun_count>>

(* CSLSMapData::get without a ring for the key: SLS_ERROR, nothing read. *)
GetMissing(r) ==
  /\ ~live
  /\ out' = [out EXCEPT ![r] = << >>]
  /\ UNCHANGED <<ringVars, m_overrun_count, read_id, cursor>>

Get(r) == \/ GetFirst(r) \/ GetReanchor(r) \/ GetNothing(r)
          \/ GetOverrun(r) \/ GetCopy(r) \/ GetMissing(r)

(* A player leaves and another one takes its place: a new role, a new      *)
(* SLSRecycleArrayID (CSLSRole::CSLSRole, CSLSRole::init).                 *)
Rejoin(r) ==
  /\ read_id' = [read_id EXCEPT ![r] = NewReader]
  /\ out' = [out EXCEPT ![r] = << >>]
  /\ cursor' = [cursor EXCEPT ![r] = 0]
  /\ UNCHANGED <<ringVars, m_overrun_count>>

Next ==
  \/ \E n \in Sizes : Create(n)
  \/ Delete
  \/ \E len \in 1 .. MaxPut : PutCopy(len)
  \/ PutCount
  \/ \E r \in Readers : Get(r) \/ Rejoin(r)

Spec == Init /\ [][Next]_vars
-----------------------------------------------------------------------------
(* Properties.                                                             *)

(* Every index the memcpy calls of put() and get() are given is a slot of  *)
(* the ring, and get() returns at most the bytes it was asked for: the     *)
(* asserts at the end of get().                                            *)
TypeOK ==
  /\ live \in BOOLEAN
  /\ m_nDataSize \in Nat \ {0}
  /\ m_nWritePos \in 0 .. m_nDataSize - 1
  /\ m_nDataCount \in Nat
  /\ inflight \in Nat
  /\ m_nGeneration \in Nat
  /\ live => m_nGeneration > 0
  /\ inflight > 0 => live
  /\ m_arrayData \in [0 .. m_nDataSize - 1 -> Nat]
  /\ m_overrun_count \in Nat
  /\ read_id \in [Readers -> [nReadPos : Nat, nDataCount : Nat,
                              bFirst : BOOLEAN, nGeneration : Nat]]
  /\ \A r \in Readers :
       /\ read_id[r].nGeneration <= m_nGeneration
       /\ ~read_id[r].bFirst /\ ~Stale(r) => read_id[r].nReadPos < m_nDataSize
       /\ Len(out[r]) <= BuffSize
  /\ out \in [Readers -> Seq(Nat)]
  /\ cursor \in [Readers -> Nat]

(* A reader that has anchored on the ring as it is now. *)
Following(r) == ~read_id[r].bFirst /\ ~Stale(r)

(* "Snapshot the write head and byte counter under the read lock so a      *)
(* concurrent put() can't tear the pair" (get()): the position and the     *)
(* byte count a reader holds name the same place of the stream, so the     *)
(* byte at nReadPos is the one after nDataCount, as long as the reader has *)
(* not been lapped.                                                        *)
PairConsistent ==
  \A r \in Readers : Following(r) =>
    LET lag == Produced - read_id[r].nDataCount
    IN /\ lag >= 0
       /\ lag < m_nDataSize =>
            read_id[r].nReadPos = Back(m_nWritePos, lag, m_nDataSize)

(* put() and its two memcpy calls around the end of the buffer: the slots  *)
(* behind the write head hold the latest bytes of the session, in order.   *)
ContentConsistent ==
  \A d \in 1 .. m_nDataSize :
    d <= Produced =>
      m_arrayData[Back(m_nWritePos, d, m_nDataSize)] = Produced - d + 1

(* A viewer's bytes: what get() copies out is the stretch of the current   *)
(* session that follows the viewer's place in the stream, never bytes of   *)
(* another place ("corrupt TS / out-of-order delivery") and never bytes    *)
(* that no publisher wrote ("a replay of the previous session").           *)
InOrder ==
  \A r \in Readers : \A i \in 1 .. Len(out[r]) :
    out[r][i] = cursor[r] - Len(out[r]) + i

(* The place a reader's count names is the place it really stands at: a    *)
(* conjunct of the inductive invariant the proofs use.                     *)
CursorExact ==
  \A r \in Readers : Following(r) => cursor[r] = read_id[r].nDataCount

(* What makes in-order delivery inductive on one worker. *)
FeedInv == PairConsistent /\ CursorExact /\ InOrder

(* A step moves reader r of this session past bytes it was not given. *)
Skipped(r) ==
  /\ Following(r) /\ live
  /\ read_id'[r].nGeneration = read_id[r].nGeneration
  /\ ~read_id'[r].bFirst
  /\ cursor'[r] - cursor[r] > Len(out'[r])

SkipCounted ==
  \A r \in Readers : Skipped(r) =>
    /\ m_overrun_count' = m_overrun_count + 1
    /\ m_nDataCount - cursor[r] >= m_nDataSize

(* No viewer loses bytes silently: within a session, a step that moves a   *)
(* viewer past bytes it was not given counts an overrun, and only a viewer *)
(* that was lapped is moved.                                               *)
NoSilentSkip == [][SkipCounted]_vars

(* The ring implements the feed a viewer is promised. *)
Feed == INSTANCE StreamFeed WITH
  session <- m_nGeneration,
  capacity <- m_nDataSize,
  head <- m_nDataCount,
  skips <- m_overrun_count,
  joined <- [r \in Readers |-> IF read_id[r].bFirst THEN 0
                              ELSE read_id[r].nGeneration]

(* Every behaviour of the ring on one worker is a behaviour of StreamFeed: *)
(* contiguous deliveries, and a jump forward only on a join, a new session *)
(* or a whole ring of lag.                                                 *)
FeedSpec == Feed!Spec

-----------------------------------------------------------------------------
(* The egress pass of the worker loop calls get() for every player and     *)
(* pusher role on each turn (CSLSGroup::handler), and a put() that has     *)
(* released the lock goes on to count.                                     *)
FairSpec ==
  /\ Spec
  /\ WF_vars(PutCount)
  /\ \A r \in Readers : WF_vars(Get(r))

(* A viewer that keeps calling get() does not stay behind a publisher that *)
(* pauses: it is left with less than one aligned block unread.             *)
Drains ==
  \A r \in Readers :
    []<>(live => ~Following(r) \/ m_nDataCount - cursor[r] <
                   IF Aligned > 0 THEN Aligned ELSE 1)
=============================================================================
