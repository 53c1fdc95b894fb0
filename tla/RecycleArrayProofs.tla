------------------------- MODULE RecycleArrayProofs -------------------------
(***************************************************************************)
(* Proofs about RecycleArray for every number of readers, ring size, put   *)
(* length, read length and alignment.                                      *)
(***************************************************************************)
EXTENDS RecycleArray, TLAPS

(* get() copies no more than is ready, no more than its caller's buffer.   *)
LEMMA CopyLenBounds ==
  ASSUME NEW k \in Nat
  PROVE  CopyLen(k) \in Nat /\ CopyLen(k) <= k /\ CopyLen(k) <= BuffSize
<1> DEFINE n == IF k <= BuffSize THEN k ELSE BuffSize
<1>1. n \in Nat /\ n <= k /\ n <= BuffSize
  BY RingAssumption
<1>2. ASSUME Aligned > 0
      PROVE  (n \div Aligned) * Aligned \in Nat /\ (n \div Aligned) * Aligned <= n
  <2> HIDE DEF n
  <2> Aligned \in Nat \ {0}
    BY <1>2, RingAssumption
  <2> QED BY <1>1
<1>3. QED BY <1>1, <1>2, RingAssumption DEF CopyLen

(* A block built slot by slot is a sequence of that length. *)
LEMMA SliceIsSeq ==
  ASSUME NEW n \in Nat, NEW f \in [1 .. n -> Nat]
  PROVE  f \in Seq(Nat) /\ Len(f) = n
OBVIOUS

-----------------------------------------------------------------------------
(* Type correctness, for one worker and for many: whatever the             *)
(* interleaving of put() and get(), every slot index stays inside the      *)
(* ring and every copy inside the caller's buffer.                         *)

(* The result of a get() that returns 0. *)
LEMMA EmptyOut == << >> \in Seq(Nat) /\ Len(<< >>) = 0
OBVIOUS

(* A wrapped position is a slot of the ring. *)
LEMMA ForwardInRange ==
  ASSUME NEW size \in Nat \ {0}, NEW pos \in 0 .. size - 1, NEW n \in 0 .. size
  PROVE  Forward(pos, n, size) \in 0 .. size - 1
BY DEF Forward

(* What is ready for a reader is at least a byte, at most the ring. *)
LEMMA ReadyBounds ==
  ASSUME TypeOK, NEW r \in Readers, Following(r)
  PROVE  Ready(r) \in 1 .. m_nDataSize
<1>1. read_id[r].nReadPos \in 0 .. m_nDataSize - 1
  BY DEF TypeOK, Following
<1>2. m_nDataSize \in Nat \ {0} /\ m_nWritePos \in 0 .. m_nDataSize - 1
  BY DEF TypeOK
<1>3. QED BY <1>1, <1>2 DEF Ready

(* The initial state is well typed. *)
LEMMA TypeInit == Init => TypeOK
<1> SUFFICES ASSUME Init PROVE TypeOK
  OBVIOUS
<1>1. NewReader \in [nReadPos : Nat, nDataCount : Nat, bFirst : BOOLEAN,
                     nGeneration : Nat]
  BY DEF NewReader
<1>2. \A r \in Readers : out[r] = << >>
  BY DEF Init
<1>3. \A r \in Readers : Len(out[r]) <= BuffSize
  <2>1. 0 <= BuffSize
    BY RingAssumption
  <2>2. \A r \in Readers : Len(out[r]) = 0
    BY <1>2, EmptyOut, Zenon
  <2>3. QED BY <2>1, <2>2, Zenon
<1>4. \A r \in Readers : read_id[r].bFirst /\ read_id[r].nGeneration = 0
  BY DEF Init, NewReader
<1>5. out \in [Readers -> Seq(Nat)]
  BY EmptyOut DEF Init
<1>6. /\ read_id \in [Readers -> [nReadPos : Nat, nDataCount : Nat,
                                 bFirst : BOOLEAN, nGeneration : Nat]]
      /\ cursor \in [Readers -> Nat]
  BY <1>1 DEF Init
<1>7. /\ m_nDataSize \in Nat \ {0} /\ m_nWritePos \in 0 .. m_nDataSize - 1
      /\ m_arrayData \in [0 .. m_nDataSize - 1 -> Nat]
  BY RingAssumption DEF Init
<1>8. QED BY <1>3, <1>4, <1>5, <1>6, <1>7 DEF Init, TypeOK

(* An action that places a reader at the write head keeps the types. *)
LEMMA AnchorType ==
  ASSUME TypeOK, NEW r \in Readers, Anchor(r), UNCHANGED ringVars,
         m_overrun_count' \in Nat
  PROVE  TypeOK'
<1> USE DEF TypeOK, Anchor, ringVars
<1>1. read_id'[r] = [nReadPos |-> m_nWritePos, nDataCount |-> m_nDataCount,
                     bFirst |-> FALSE, nGeneration |-> m_nGeneration]
  OBVIOUS
<1>2. \A s \in Readers : s # r => read_id'[s] = read_id[s] /\ out'[s] = out[s]
  OBVIOUS
<1>3. out'[r] = << >> /\ Len(out'[r]) <= BuffSize
  BY RingAssumption
<1>4. \A s \in Readers :
        /\ read_id'[s].nGeneration <= m_nGeneration'
        /\ ~read_id'[s].bFirst /\ ~Stale(s)' => read_id'[s].nReadPos < m_nDataSize'
        /\ Len(out'[s]) <= BuffSize
  BY <1>1, <1>2, <1>3 DEF Stale
<1>5. Produced \in Nat
  BY DEF Produced
<1>6. read_id' \in [Readers -> [nReadPos : Nat, nDataCount : Nat,
                               bFirst : BOOLEAN, nGeneration : Nat]]
  OBVIOUS
<1>7. out' \in [Readers -> Seq(Nat)] /\ cursor' \in [Readers -> Nat]
  BY <1>5
<1>8. QED BY <1>4, <1>6, <1>7

(* A get() that returns nothing and moves nobody keeps the types. *)
LEMMA NothingType ==
  ASSUME TypeOK, NEW r \in Readers, out' = [out EXCEPT ![r] = << >>],
         UNCHANGED <<ringVars, m_overrun_count, read_id, cursor>>
  PROVE  TypeOK'
<1> USE DEF TypeOK, ringVars
<1>1. \A s \in Readers : Len(out'[s]) <= BuffSize
  BY RingAssumption
<1>2. out' \in [Readers -> Seq(Nat)]
  OBVIOUS
<1>3. QED BY <1>1, <1>2 DEF Stale

(* The copying branch of get(): the read position wraps with the ring. *)
LEMMA CopyType ==
  ASSUME TypeOK, NEW r \in Readers, GetCopy(r)
  PROVE  TypeOK'
<1> DEFINE n == CopyLen(Ready(r))
           pos == read_id[r].nReadPos
<1>1. Following(r)
  BY DEF GetCopy, Following
<1>2. Ready(r) \in 1 .. m_nDataSize
  BY <1>1, ReadyBounds
<1>3. n \in Nat /\ n <= m_nDataSize /\ n <= BuffSize
  BY <1>2, CopyLenBounds, SMTT(30) DEF TypeOK
<1>4. pos \in 0 .. m_nDataSize - 1 /\ m_nDataSize \in Nat \ {0}
  BY <1>1 DEF TypeOK, Following
<1>5. Forward(pos, n, m_nDataSize) \in 0 .. m_nDataSize - 1
  <2> HIDE DEF n, pos
  <2>1. n \in 0 .. m_nDataSize
    BY <1>3, <1>4
  <2>2. QED BY <2>1, <1>4, ForwardInRange
<1>6. Slice(pos, n) \in [1 .. n -> Nat]
  <2>1. \A i \in 1 .. n : Forward(pos, i - 1, m_nDataSize) \in 0 .. m_nDataSize - 1
    BY <1>3, <1>4 DEF Forward
  <2>2. QED BY <2>1 DEF Slice, TypeOK
<1>7. Slice(pos, n) \in Seq(Nat) /\ Len(Slice(pos, n)) <= BuffSize
  BY <1>3, <1>6, SliceIsSeq
<1> HIDE DEF n, pos
<1>8. /\ out' = [out EXCEPT ![r] = Slice(pos, n)]
      /\ read_id' = [read_id EXCEPT ![r] =
                       [@ EXCEPT !.nReadPos = Forward(pos, n, m_nDataSize),
                                 !.nDataCount = Consumed(r, n)]]
      /\ cursor' = [cursor EXCEPT ![r] = @ + n]
      /\ UNCHANGED <<ringVars, m_overrun_count>>
  BY DEF GetCopy, n, pos
<1>9. Consumed(r, n) \in Nat
  BY <1>3 DEF Consumed, TypeOK
<1>10. /\ read_id' \in [Readers -> [nReadPos : Nat, nDataCount : Nat,
                                   bFirst : BOOLEAN, nGeneration : Nat]]
       /\ read_id'[r].nReadPos = Forward(pos, n, m_nDataSize)
       /\ read_id'[r].nGeneration = read_id[r].nGeneration
       /\ \A s \in Readers : s # r => read_id'[s] = read_id[s]
  <2>1. Forward(pos, n, m_nDataSize) \in Nat
    BY <1>5
  <2>2. read_id[r] \in [nReadPos : Nat, nDataCount : Nat,
                        bFirst : BOOLEAN, nGeneration : Nat]
    BY DEF TypeOK
  <2>3. [read_id[r] EXCEPT !.nReadPos = Forward(pos, n, m_nDataSize),
                           !.nDataCount = Consumed(r, n)]
          \in [nReadPos : Nat, nDataCount : Nat,
               bFirst : BOOLEAN, nGeneration : Nat]
    BY <1>9, <2>1, <2>2
  <2>4. QED BY <1>8, <2>2, <2>3 DEF TypeOK
<1>11. out' \in [Readers -> Seq(Nat)] /\ \A s \in Readers : Len(out'[s]) <= BuffSize
  BY <1>7, <1>8 DEF TypeOK
<1>12. cursor' \in [Readers -> Nat]
  BY <1>3, <1>8 DEF TypeOK
<1>13. \A s \in Readers :
         /\ read_id'[s].nGeneration <= m_nGeneration'
         /\ ~read_id'[s].bFirst /\ ~Stale(s)' => read_id'[s].nReadPos < m_nDataSize'
  BY <1>5, <1>8, <1>10 DEF TypeOK, Stale, ringVars
<1>14. QED BY <1>8, <1>10, <1>11, <1>12, <1>13 DEF TypeOK, ringVars

(* A fresh reader is well typed. *)
LEMMA RejoinType ==
  ASSUME TypeOK, NEW r \in Readers, Rejoin(r)
  PROVE  TypeOK'
<1>1. /\ read_id' \in [Readers -> [nReadPos : Nat, nDataCount : Nat,
                                  bFirst : BOOLEAN, nGeneration : Nat]]
      /\ read_id'[r].bFirst /\ read_id'[r].nGeneration = 0
      /\ \A s \in Readers : s # r => read_id'[s] = read_id[s]
  BY DEF Rejoin, NewReader, TypeOK
<1>2. out' \in [Readers -> Seq(Nat)] /\ \A s \in Readers : Len(out'[s]) <= BuffSize
  <2>1. Len(<< >>) <= BuffSize
    BY EmptyOut, RingAssumption
  <2>2. QED BY <2>1, EmptyOut DEF Rejoin, TypeOK
<1>3. \A s \in Readers :
        /\ read_id'[s].nGeneration <= m_nGeneration'
        /\ ~read_id'[s].bFirst /\ ~Stale(s)' => read_id'[s].nReadPos < m_nDataSize'
  BY <1>1 DEF TypeOK, Stale, Rejoin, ringVars
<1>4. cursor' \in [Readers -> Nat]
  BY DEF Rejoin, TypeOK
<1>5. QED BY <1>1, <1>2, <1>3, <1>4 DEF TypeOK, Rejoin, ringVars

(* Under every interleaving of put() and get(), on one worker or several,  *)
(* no slot index of the ring and no copy length leaves its range.          *)
THEOREM RingTypeCorrect == Spec => []TypeOK
<1>1. TypeOK /\ [Next]_vars => TypeOK'
  <2> SUFFICES ASSUME TypeOK, [Next]_vars
               PROVE  TypeOK'
    OBVIOUS
  <2>1. ASSUME NEW n \in Sizes, Create(n)
        PROVE  TypeOK'
    <3>1. n \in Nat \ {0}
      BY RingAssumption
    <3>2. \A r \in Readers : read_id'[r] = read_id[r] /\ out'[r] = out[r]
      BY <2>1 DEF Create
    <3>3. GenerationsTaken(n) \in {1, 2}
      BY <3>1, RingAssumption DEF GenerationsTaken
    <3>4. m_nGeneration' > m_nGeneration /\ m_nGeneration' \in Nat
      BY <2>1, <3>3 DEF Create, TypeOK
    <3>5. \A r \in Readers :
            Stale(r)' /\ read_id'[r].nGeneration <= m_nGeneration'
      BY <3>2, <3>4 DEF TypeOK, Stale
    <3>6. m_arrayData' \in [0 .. m_nDataSize' - 1 -> Nat]
      BY <2>1 DEF Create
    <3>7. QED BY <2>1, <3>1, <3>2, <3>4, <3>5, <3>6 DEF Create, TypeOK
  <2>2. CASE Delete
    <3>1. ~(inflight' > 0)
      BY <2>2 DEF Delete, TypeOK
    <3>2. QED BY <2>2, <3>1 DEF Delete, TypeOK, Stale
  <2>3. ASSUME NEW len \in 1 .. MaxPut, PutCopy(len)
        PROVE  TypeOK'
    <3>1. len \in 1 .. m_nDataSize
      BY <2>3, RingAssumption DEF PutCopy, TypeOK
    <3>2. m_nWritePos' \in 0 .. m_nDataSize - 1
      BY <2>3, <3>1, ForwardInRange DEF PutCopy, TypeOK
    <3>3. m_arrayData' \in [0 .. m_nDataSize - 1 -> Nat]
      BY <2>3, <3>1 DEF PutCopy, TypeOK, Written, Produced
    <3>4. QED BY <2>3, <3>1, <3>2, <3>3 DEF PutCopy, TypeOK, Stale
  <2>4. CASE PutCount
    BY <2>4 DEF PutCount, TypeOK, Stale
  <2>5. ASSUME NEW r \in Readers, Get(r)
        PROVE  TypeOK'
    <3>1. CASE GetFirst(r)
      BY <3>1, AnchorType DEF GetFirst, TypeOK
    <3>2. CASE GetReanchor(r)
      BY <3>2, AnchorType DEF GetReanchor, TypeOK
    <3>3. CASE GetNothing(r)
      BY <3>3, NothingType DEF GetNothing
    <3>4. CASE GetOverrun(r)
      <4>1. m_overrun_count' \in Nat
        BY <3>4 DEF GetOverrun, TypeOK
      <4>2. QED BY <3>4, <4>1, AnchorType DEF GetOverrun
    <3>5. CASE GetCopy(r)
      BY <3>5, CopyType
    <3>6. CASE GetMissing(r)
      BY <3>6, NothingType DEF GetMissing
    <3>7. QED BY <2>5, <3>1, <3>2, <3>3, <3>4, <3>5, <3>6 DEF Get
  <2>6. ASSUME NEW r \in Readers, Rejoin(r)
        PROVE  TypeOK'
    BY <2>6, RejoinType
  <2>7. CASE UNCHANGED vars
    BY <2>7 DEF vars, ringVars, TypeOK, Stale
  <2>8. QED BY <2>1, <2>2, <2>3, <2>4, <2>5, <2>6, <2>7 DEF Next
<1>2. QED BY TypeInit, <1>1, PTL DEF Spec

-----------------------------------------------------------------------------
(* The content of the ring, for one worker and for many.                   *)

(* put() overwrites the oldest bytes with the newest ones. *)
LEMMA PutCopyContent ==
  ASSUME TypeOK, ContentConsistent, NEW len \in 1 .. MaxPut, PutCopy(len)
  PROVE  ContentConsistent'
<1> DEFINE W == m_nWritePos
           S == m_nDataSize
           V == Forward(W, len, S)
<1>1. /\ S \in Nat \ {0} /\ W \in 0 .. S - 1 /\ len \in 1 .. S
      /\ Produced \in Nat /\ Produced' = Produced + len
      /\ m_nWritePos' = V /\ m_nDataSize' = S /\ m_arrayData' = Written(len)
  BY RingAssumption DEF TypeOK, PutCopy, Produced
<1> HIDE DEF W, S, V
<1>2. SUFFICES ASSUME NEW d \in 1 .. S, d <= Produced + len
               PROVE  Written(len)[Back(V, d, S)] = Produced + len - d + 1
  BY <1>1 DEF ContentConsistent
<1>3. V \in 0 .. S - 1 /\ V = IF W + len < S THEN W + len ELSE W + len - S
  BY <1>1, ForwardInRange DEF Forward, V
<1>4. CASE d <= len
  <2>1. /\ Back(V, d, S) \in 0 .. S - 1
        /\ Back(V, d, S) >= W => Back(V, d, S) - W = len - d
        /\ Back(V, d, S) < W => Back(V, d, S) - W + S = len - d
    BY <1>1, <1>3, <1>4 DEF Back
  <2> DEFINE p == Back(V, d, S)
             off == IF p >= W THEN p - W ELSE p - W + S
  <2>2. off = len - d /\ off < len
    BY <1>1, <1>4, <2>1
  <2>3. Written(len)[p] = IF off < len THEN Produced + off + 1 ELSE m_arrayData[p]
    BY <2>1 DEF Written, W, S
  <2> HIDE DEF p, off
  <2>4. Written(len)[p] = Produced + len - d + 1
    BY <1>1, <2>2, <2>3
  <2>5. QED BY <2>4 DEF p
<1>5. CASE d > len
  <2> DEFINE e == d - len
  <2>1. e \in 1 .. S /\ e <= Produced
    BY <1>1, <1>2, <1>5
  <2>2. /\ Back(V, d, S) = Back(W, e, S)
        /\ Back(W, e, S) \in 0 .. S - 1
        /\ Back(W, e, S) >= W => Back(W, e, S) - W >= len
        /\ Back(W, e, S) < W => Back(W, e, S) - W + S >= len
    BY <1>1, <1>3, <1>5 DEF Back
  <2>3. m_arrayData[Back(W, e, S)] = Produced - e + 1
    BY <2>1 DEF ContentConsistent, W, S
  <2> HIDE DEF e
  <2>4. Written(len)[Back(W, e, S)] = m_arrayData[Back(W, e, S)]
    BY <1>1, <2>2 DEF Written, W, S
  <2>5. Produced - e + 1 = Produced + len - d + 1
    BY <1>1 DEF e
  <2>6. QED BY <2>2, <2>3, <2>4, <2>5
<1>6. QED BY <1>1, <1>4, <1>5

(* No step but a put() or a new ring changes what the slots hold. *)
LEMMA ContentStep ==
  ASSUME TypeOK, ContentConsistent, [Next]_vars
  PROVE  ContentConsistent'
<1>1. ASSUME NEW n \in Sizes, Create(n)
      PROVE  ContentConsistent'
  <2>1. Produced' = 0
    BY <1>1 DEF Create, Produced
  <2>2. QED BY <2>1 DEF ContentConsistent
<1>2. ASSUME NEW len \in 1 .. MaxPut, PutCopy(len)
      PROVE  ContentConsistent'
  BY <1>2, PutCopyContent
<1>3. CASE Delete
  BY <1>3 DEF Delete, ContentConsistent, Produced
<1>4. CASE PutCount
  <2>1. Produced' = Produced
    BY <1>4 DEF PutCount, Produced, TypeOK
  <2>2. QED BY <1>4, <2>1 DEF PutCount, ContentConsistent
<1>5. ASSUME UNCHANGED ringVars
      PROVE  ContentConsistent'
  BY <1>5 DEF ringVars, ContentConsistent, Produced
<1>6. ASSUME NEW r \in Readers, Get(r) \/ Rejoin(r)
      PROVE  UNCHANGED ringVars
  BY <1>6 DEF Get, GetFirst, GetReanchor, GetNothing, GetOverrun, GetCopy,
              GetMissing, Rejoin
<1>7. CASE UNCHANGED vars
  BY <1>5, <1>7 DEF vars
<1>8. QED BY <1>1, <1>2, <1>3, <1>4, <1>5, <1>6, <1>7 DEF Next

(* Under every interleaving the slots behind the write head hold the       *)
(* latest bytes of the session, in order, across the wrap of put().        *)
THEOREM RingContent == Spec => []ContentConsistent
<1>1. Init => ContentConsistent
  <2>1. ASSUME Init PROVE Produced = 0
    BY <2>1 DEF Init, Produced
  <2>2. QED BY <2>1 DEF ContentConsistent
<1>2. TypeOK /\ ContentConsistent /\ [Next]_vars => ContentConsistent'
  BY ContentStep
<1>3. QED BY <1>1, <1>2, RingTypeCorrect, PTL DEF Spec

-----------------------------------------------------------------------------
(* One worker: a get() never falls between the two halves of a put().      *)

(* A reader outside the step keeps its part of the invariant when the ring *)
(* is untouched.                                                           *)
LEMMA OthersKeep ==
  ASSUME FeedInv, UNCHANGED ringVars, NEW r \in Readers,
         \A s \in Readers : s # r => /\ read_id'[s] = read_id[s]
                                    /\ out'[s] = out[s]
                                    /\ cursor'[s] = cursor[s],
         Following(r)' =>
           /\ Produced - read_id'[r].nDataCount >= 0
           /\ Produced - read_id'[r].nDataCount < m_nDataSize =>
                read_id'[r].nReadPos =
                  Back(m_nWritePos, Produced - read_id'[r].nDataCount, m_nDataSize)
           /\ cursor'[r] = read_id'[r].nDataCount,
         \A i \in 1 .. Len(out'[r]) : out'[r][i] = cursor'[r] - Len(out'[r]) + i
  PROVE  FeedInv'
<1>1. /\ Produced' = Produced /\ m_nDataSize' = m_nDataSize
      /\ m_nWritePos' = m_nWritePos /\ m_nGeneration' = m_nGeneration
  BY DEF ringVars, Produced
<1>2. \A s \in Readers : s # r => (Following(s)' <=> Following(s))
  BY <1>1 DEF Following, Stale
<1>3. PairConsistent'
  BY <1>1, <1>2 DEF PairConsistent, FeedInv
<1>4. CursorExact'
  BY <1>1, <1>2 DEF CursorExact, FeedInv
<1>5. InOrder'
  BY DEF InOrder, FeedInv
<1>6. QED BY <1>3, <1>4, <1>5 DEF FeedInv

(* A reader placed at the live end is in step with the stream. *)
LEMMA AnchorFeed ==
  ASSUME TypeOK, FeedInv, inflight = 0, NEW r \in Readers, Anchor(r),
         UNCHANGED ringVars
  PROVE  FeedInv'
<1>1. \A s \in Readers : s # r => /\ read_id'[s] = read_id[s]
                                 /\ out'[s] = out[s]
                                 /\ cursor'[s] = cursor[s]
  BY DEF Anchor, TypeOK
<1>2. /\ read_id'[r].nReadPos = m_nWritePos
      /\ read_id'[r].nDataCount = m_nDataCount
      /\ cursor'[r] = Produced /\ out'[r] = << >>
  BY DEF Anchor, TypeOK
<1>3. Produced = m_nDataCount /\ m_nDataCount \in Nat
  BY DEF Produced, TypeOK
<1>4. Back(m_nWritePos, 0, m_nDataSize) = m_nWritePos
  BY DEF Back, TypeOK
<1>5. Produced - read_id'[r].nDataCount = 0
  BY <1>2, <1>3
<1>6. \A i \in 1 .. Len(out'[r]) : out'[r][i] = cursor'[r] - Len(out'[r]) + i
  <2>1. Len(out'[r]) = 0
    BY <1>2, EmptyOut
  <2>2. QED BY <2>1
<1>7. cursor'[r] = read_id'[r].nDataCount
  BY <1>2, <1>3
<1>8. read_id'[r].nReadPos =
        Back(m_nWritePos, Produced - read_id'[r].nDataCount, m_nDataSize)
  BY <1>2, <1>4, <1>5
<1>9. QED BY <1>1, <1>5, <1>6, <1>7, <1>8, OthersKeep

(* A get() that returns nothing and leaves every reader where it is. *)
LEMMA NothingFeed ==
  ASSUME TypeOK, FeedInv, NEW r \in Readers, out' = [out EXCEPT ![r] = << >>],
         UNCHANGED <<ringVars, read_id, cursor>>
  PROVE  FeedInv'
<1>1. Len(out'[r]) = 0
  BY EmptyOut DEF TypeOK
<1>2. PairConsistent' /\ CursorExact'
  BY DEF FeedInv, PairConsistent, CursorExact, Following, Stale, Produced, ringVars
<1>3. InOrder'
  BY <1>1 DEF FeedInv, InOrder, TypeOK
<1>4. QED BY <1>2, <1>3 DEF FeedInv

(* What a get() that finds data copies out. *)
LEMMA CopyDelivers ==
  ASSUME TypeOK, ContentConsistent, FeedInv, inflight = 0,
         NEW r \in Readers, GetCopy(r)
  PROVE  LET lag == m_nDataCount - read_id[r].nDataCount
             n == CopyLen(Ready(r))
         IN /\ lag \in 1 .. m_nDataSize - 1
            /\ Ready(r) = lag
            /\ n \in 0 .. lag
            /\ n <= BuffSize
            /\ Forward(read_id[r].nReadPos, n, m_nDataSize) =
                 Back(m_nWritePos, lag - n, m_nDataSize)
            /\ Slice(read_id[r].nReadPos, n) =
                 [i \in 1 .. n |-> cursor[r] + i]
<1> DEFINE lag == m_nDataCount - read_id[r].nDataCount
           pos == read_id[r].nReadPos
           W == m_nWritePos
           S == m_nDataSize
           n == CopyLen(Ready(r))
<1>1. /\ S \in Nat \ {0} /\ W \in 0 .. S - 1
      /\ m_nDataCount \in Nat /\ read_id[r].nDataCount \in Nat
      /\ Produced = m_nDataCount
  BY DEF TypeOK, Produced
<1>2. Following(r)
  BY DEF GetCopy, Following
<1>3. pos \in 0 .. S - 1
  BY <1>2 DEF TypeOK, Following
<1>4. lag \in 0 .. S - 1 /\ pos = Back(W, lag, S)
  <2>1. lag >= 0 /\ (lag < S => pos = Back(W, lag, S))
    BY <1>1, <1>2 DEF FeedInv, PairConsistent
  <2>2. lag < S
    BY <1>1 DEF GetCopy, Overrun, Behind
  <2>3. QED BY <1>1, <2>1, <2>2
<1>5. ~(pos = W /\ lag = 0)
  BY DEF GetCopy, NoNewData, Behind
<1>6. cursor[r] = read_id[r].nDataCount
  BY <1>2 DEF FeedInv, CursorExact
<1>7. Ready(r) = IF pos < W THEN W - pos ELSE S - pos + W
  BY DEF Ready
<1> HIDE DEF lag, pos, W, S, n
<1>8. lag \in 1 .. S - 1 /\ Ready(r) = lag
  BY <1>1, <1>3, <1>4, <1>5, <1>7 DEF Back
<1>9. n \in 0 .. lag /\ n <= BuffSize
  BY <1>8, CopyLenBounds DEF n
<1>10. Forward(pos, n, S) = Back(W, lag - n, S)
  BY <1>1, <1>3, <1>4, <1>8, <1>9 DEF Forward, Back
<1>11. ASSUME NEW i \in 1 .. n
       PROVE  m_arrayData[Forward(pos, i - 1, S)] = cursor[r] + i
  <2> DEFINE d == lag - i + 1
  <2>1. d \in 1 .. S /\ d <= m_nDataCount
    BY <1>1, <1>8, <1>9 DEF lag
  <2>2. Forward(pos, i - 1, S) = Back(W, d, S)
    BY <1>1, <1>3, <1>4, <1>8, <1>9 DEF Forward, Back
  <2>3. m_arrayData[Back(W, d, S)] = m_nDataCount - d + 1
    BY <1>1, <2>1 DEF ContentConsistent, W, S
  <2>4. m_nDataCount - d + 1 = cursor[r] + i
    BY <1>1, <1>6, <1>8, <1>9 DEF lag
  <2>5. QED BY <2>2, <2>3, <2>4
<1>12. Slice(pos, n) = [i \in 1 .. n |-> cursor[r] + i]
  BY <1>11 DEF Slice, S
<1>13. QED BY <1>8, <1>9, <1>10, <1>12 DEF lag, pos, W, S, n

(* On one worker no get() sees a put() that is not counted. *)
LEMMA CopyInflight ==
  ASSUME SharedWorker, NEW r \in Readers, GetCopy(r)
  PROVE  inflight = 0
BY DEF GetCopy, CanGet

(* A copy hands out the next bytes and moves both cursors by them. *)
LEMMA CopyFeed ==
  ASSUME TypeOK, ContentConsistent, FeedInv, inflight = 0,
         NEW r \in Readers, GetCopy(r)
  PROVE  FeedInv'
<1> DEFINE lag == m_nDataCount - read_id[r].nDataCount
           n == CopyLen(Ready(r))
<1>1. /\ lag \in 1 .. m_nDataSize - 1 /\ n \in 0 .. lag
      /\ Forward(read_id[r].nReadPos, n, m_nDataSize) =
           Back(m_nWritePos, lag - n, m_nDataSize)
      /\ Slice(read_id[r].nReadPos, n) = [i \in 1 .. n |-> cursor[r] + i]
  BY CopyDelivers
<1>2. /\ out' = [out EXCEPT ![r] = Slice(read_id[r].nReadPos, n)]
      /\ read_id' = [read_id EXCEPT ![r] =
           [@ EXCEPT !.nReadPos = Forward(read_id[r].nReadPos, n, m_nDataSize),
                     !.nDataCount = Consumed(r, n)]]
      /\ cursor' = [cursor EXCEPT ![r] = @ + n]
      /\ UNCHANGED ringVars
  BY DEF GetCopy
<1>3. /\ m_nDataCount \in Nat /\ read_id[r].nDataCount \in Nat
      /\ cursor[r] \in Nat /\ Produced = m_nDataCount
      /\ cursor[r] = read_id[r].nDataCount
  BY DEF TypeOK, Produced, GetCopy, FeedInv, CursorExact, Following
<1> HIDE DEF n
<1>4. \A s \in Readers : s # r => /\ read_id'[s] = read_id[s]
                                 /\ out'[s] = out[s]
                                 /\ cursor'[s] = cursor[s]
  BY <1>2 DEF TypeOK
<1>5. /\ read_id'[r].nReadPos = Back(m_nWritePos, lag - n, m_nDataSize)
      /\ read_id'[r].nDataCount = read_id[r].nDataCount + n
      /\ cursor'[r] = cursor[r] + n
      /\ out'[r] = [i \in 1 .. n |-> cursor[r] + i]
  BY <1>1, <1>2 DEF TypeOK, Consumed
<1>6. Produced - read_id'[r].nDataCount = lag - n /\ lag - n >= 0
  BY <1>1, <1>3, <1>5
<1>7. n \in Nat /\ out'[r] \in [1 .. n -> Nat]
  BY <1>1, <1>3, <1>5
<1>8. Len(out'[r]) = n
  BY <1>7, SliceIsSeq
<1>9. \A i \in 1 .. Len(out'[r]) : out'[r][i] = cursor'[r] - Len(out'[r]) + i
  BY <1>3, <1>5, <1>7, <1>8
<1>10. cursor'[r] = read_id'[r].nDataCount
  BY <1>3, <1>5
<1>11. read_id'[r].nReadPos =
         Back(m_nWritePos, Produced - read_id'[r].nDataCount, m_nDataSize)
  BY <1>5, <1>6
<1>12. Produced - read_id'[r].nDataCount >= 0
  BY <1>6
<1> HIDE DEF lag
<1>13. QED BY <1>2, <1>4, <1>9, <1>10, <1>11, <1>12, OthersKeep

(* A fresh reader claims nothing about the stream. *)
LEMMA RejoinFeed ==
  ASSUME TypeOK, FeedInv, NEW r \in Readers, Rejoin(r)
  PROVE  FeedInv'
<1>1. \A s \in Readers : s # r => /\ read_id'[s] = read_id[s]
                                 /\ out'[s] = out[s]
                                 /\ cursor'[s] = cursor[s]
  BY DEF Rejoin, TypeOK
<1>2. read_id'[r].bFirst /\ out'[r] = << >>
  BY DEF Rejoin, NewReader, TypeOK
<1>3. ~Following(r)'
  BY <1>2 DEF Following
<1>4. \A i \in 1 .. Len(out'[r]) : out'[r][i] = cursor'[r] - Len(out'[r]) + i
  <2>1. Len(out'[r]) = 0
    BY <1>2, EmptyOut
  <2>2. QED BY <2>1
<1>5. QED BY <1>1, <1>3, <1>4, OthersKeep DEF Rejoin

(* The write head moves away from a reader as far as its lag grows. *)
LEMMA PutCopyFeed ==
  ASSUME TypeOK, FeedInv, NEW len \in 1 .. MaxPut, PutCopy(len)
  PROVE  FeedInv'
<1>1. /\ m_nDataSize \in Nat \ {0} /\ m_nWritePos \in 0 .. m_nDataSize - 1
      /\ len \in 1 .. m_nDataSize
      /\ Produced \in Nat /\ Produced' = Produced + len
      /\ m_nWritePos' = Forward(m_nWritePos, len, m_nDataSize)
      /\ UNCHANGED <<m_nDataSize, m_nGeneration, read_id, out, cursor>>
  BY RingAssumption DEF TypeOK, PutCopy, Produced
<1>2. \A r \in Readers : Following(r)' <=> Following(r)
  BY <1>1 DEF Following, Stale
<1>3. PairConsistent'
  <2> DEFINE V == Forward(m_nWritePos, len, m_nDataSize)
  <2>1. ASSUME NEW r \in Readers, Following(r)
        PROVE  /\ Produced + len - read_id[r].nDataCount >= 0
               /\ Produced + len - read_id[r].nDataCount < m_nDataSize =>
                    read_id[r].nReadPos =
                      Back(V, Produced + len - read_id[r].nDataCount, m_nDataSize)
    <3> DEFINE lag == Produced - read_id[r].nDataCount
    <3>1. read_id[r].nDataCount \in Nat
      BY DEF TypeOK
    <3>2. lag >= 0 /\ (lag < m_nDataSize =>
                         read_id[r].nReadPos = Back(m_nWritePos, lag, m_nDataSize))
      BY <2>1 DEF FeedInv, PairConsistent
    <3>3. QED BY <1>1, <3>1, <3>2 DEF Forward, Back
  <2> HIDE DEF V
  <2>2. m_nWritePos' = V
    BY <1>1 DEF V
  <2>3. SUFFICES ASSUME NEW r \in Readers, Following(r)'
                 PROVE  /\ Produced' - read_id'[r].nDataCount >= 0
                        /\ Produced' - read_id'[r].nDataCount < m_nDataSize' =>
                             read_id'[r].nReadPos =
                               Back(m_nWritePos', Produced' - read_id'[r].nDataCount,
                                    m_nDataSize')
    BY Zenon DEF PairConsistent
  <2>4. /\ Produced' = Produced + len /\ read_id' = read_id
        /\ m_nDataSize' = m_nDataSize /\ Following(r)
    BY <1>1, <1>2, <2>3
  <2> DEFINE lag == Produced + len - read_id[r].nDataCount
  <2>5. /\ lag >= 0
        /\ lag < m_nDataSize => read_id[r].nReadPos = Back(V, lag, m_nDataSize)
    BY <2>1, <2>4
  <2>6. Produced' - read_id'[r].nDataCount = lag
    <3>1. read_id[r].nDataCount \in Nat
      BY DEF TypeOK
    <3>2. QED BY <1>1, <2>4, <3>1
  <2> HIDE DEF lag
  <2>7. QED BY <2>2, <2>4, <2>5, <2>6
<1>4. CursorExact' /\ InOrder'
  BY <1>1, <1>2 DEF FeedInv, CursorExact, InOrder
<1>5. QED BY <1>3, <1>4 DEF FeedInv

(* A new ring is followed by nobody: every reader's generation is older. *)
LEMMA CreateFeed ==
  ASSUME TypeOK, FeedInv, NEW n \in Sizes, Create(n)
  PROVE  FeedInv'
<1>1. GenerationsTaken(n) \in {1, 2}
  BY RingAssumption DEF GenerationsTaken
<1>2. \A r \in Readers : ~Following(r)'
  BY <1>1 DEF Create, TypeOK, Following, Stale
<1>3. QED BY <1>2 DEF FeedInv, PairConsistent, CursorExact, InOrder, Create

(* Every step keeps the readers in step with the stream. *)
LEMMA FeedStep ==
  ASSUME SharedWorker, TypeOK, ContentConsistent, FeedInv, [Next]_vars
  PROVE  FeedInv'
<1>1. ASSUME NEW n \in Sizes, Create(n)
      PROVE  FeedInv'
  BY <1>1, CreateFeed
<1>2. CASE Delete
  BY <1>2 DEF Delete, FeedInv, PairConsistent, CursorExact, InOrder,
              Following, Stale, Produced
<1>3. ASSUME NEW len \in 1 .. MaxPut, PutCopy(len)
      PROVE  FeedInv'
  BY <1>3, PutCopyFeed
<1>4. CASE PutCount
  <2>1. Produced' = Produced
    BY <1>4 DEF PutCount, Produced, TypeOK
  <2>2. QED BY <1>4, <2>1 DEF PutCount, FeedInv, PairConsistent, CursorExact,
                             InOrder, Following, Stale
<1>5. ASSUME NEW r \in Readers, Get(r)
      PROVE  FeedInv'
  <2>1. CASE GetFirst(r)
    BY <2>1, AnchorFeed DEF GetFirst, CanGet
  <2>2. CASE GetReanchor(r)
    BY <2>2, AnchorFeed DEF GetReanchor, CanGet
  <2>3. CASE GetNothing(r)
    BY <2>3, NothingFeed DEF GetNothing
  <2>4. CASE GetOverrun(r)
    BY <2>4, AnchorFeed DEF GetOverrun, CanGet
  <2>5. CASE GetCopy(r)
    BY <2>5, CopyFeed DEF GetCopy, CanGet
  <2>6. CASE GetMissing(r)
    BY <2>6, NothingFeed DEF GetMissing
  <2>7. QED BY <1>5, <2>1, <2>2, <2>3, <2>4, <2>5, <2>6 DEF Get
<1>6. ASSUME NEW r \in Readers, Rejoin(r)
      PROVE  FeedInv'
  BY <1>6, RejoinFeed
<1>7. CASE UNCHANGED vars
  BY <1>7 DEF vars, ringVars, FeedInv, PairConsistent, CursorExact, InOrder,
              Following, Stale, Produced
<1>8. QED BY <1>1, <1>2, <1>3, <1>4, <1>5, <1>6, <1>7 DEF Next

(* Initially no reader is anchored. *)
LEMMA FeedInit == Init => FeedInv
<1> SUFFICES ASSUME Init PROVE FeedInv
  OBVIOUS
<1>1. \A r \in Readers : read_id[r].bFirst /\ out[r] = << >>
  BY DEF Init, NewReader
<1>2. \A r \in Readers : ~Following(r)
  BY <1>1 DEF Following
<1>3. \A r \in Readers : Len(out[r]) = 0
  BY <1>1, EmptyOut, Zenon
<1>4. InOrder
  <2>1. \A r \in Readers : 1 .. Len(out[r]) = {}
    <3>1. 1 .. 0 = {}
      OBVIOUS
    <3>2. QED BY <1>3, <3>1, Zenon
  <2>2. QED BY <2>1, Zenon DEF InOrder
<1>5. QED BY <1>2, <1>4 DEF FeedInv, PairConsistent, CursorExact

(* With worker_threads 0 or 1: a reader's position and count always agree, *)
(* and every viewer is given the bytes that follow the ones it has, for    *)
(* every ring size, put length, read length, alignment and number of       *)
(* readers.                                                                *)
THEOREM RingInOrder ==
  ASSUME SharedWorker
  PROVE  Spec => [](PairConsistent /\ InOrder)
<1>1. Init => FeedInv
  BY FeedInit
<1>2. TypeOK /\ ContentConsistent /\ FeedInv /\ [Next]_vars => FeedInv'
  BY FeedStep
<1>3. FeedInv => PairConsistent /\ InOrder
  BY DEF FeedInv
<1>4. QED BY <1>1, <1>2, <1>3, RingTypeCorrect, RingContent, PTL DEF Spec

-----------------------------------------------------------------------------
(* The ring implements the feed.                                           *)

Joined == [r \in Readers |-> IF read_id[r].bFirst THEN 0
                             ELSE read_id[r].nGeneration]

(* A slice of no bytes is the empty sequence. *)
LEMMA EmptySlice ==
  ASSUME NEW f \in [1 .. 0 -> Nat]
  PROVE  f = << >>
OBVIOUS

(* The anchoring branches of get() put the cursor at the live end. *)
LEMMA AnchorToLiveEnd ==
  ASSUME TypeOK, inflight = 0, NEW r \in Readers, Anchor(r), UNCHANGED ringVars
  PROVE  Feed!ToLiveEnd(r)
<1>1. Joined' = [Joined EXCEPT ![r] = m_nGeneration]
  BY DEF Joined, Anchor, TypeOK
<1>2. Produced = m_nDataCount
  BY DEF Produced, TypeOK
<1>3. QED BY <1>1, <1>2 DEF Joined, Anchor, Feed!ToLiveEnd, ringVars

(* Every step of the ring is a step or a stutter of the feed. *)
LEMMA FeedNextStep ==
  ASSUME SharedWorker, TypeOK, ContentConsistent, FeedInv, [Next]_vars
  PROVE  [Feed!Next]_(Feed!feedVars)
<1>1. ASSUME NEW n \in Sizes, Create(n)
      PROVE  Feed!Start
  <2>1. GenerationsTaken(n) \in {1, 2}
    BY RingAssumption DEF GenerationsTaken
  <2>2. m_nGeneration' > m_nGeneration /\ n \in Nat \ {0}
    BY <1>1, <2>1, RingAssumption DEF Create, TypeOK
  <2>3. QED BY <1>1, <2>2 DEF Create, Feed!Start
<1>2. ASSUME Delete PROVE Feed!Stop
  BY <1>2 DEF Delete, Feed!Stop
<1>3. ASSUME NEW len \in 1 .. MaxPut, PutCopy(len)
      PROVE  UNCHANGED Feed!feedVars
  BY <1>3 DEF PutCopy, Feed!feedVars
<1>4. ASSUME PutCount PROVE Feed!Publish
  BY <1>4 DEF PutCount, Feed!Publish, TypeOK
<1>5. ASSUME NEW r \in Readers, GetFirst(r)
      PROVE  Feed!Join(r)
  <2>1. Joined[r] # m_nGeneration /\ live
    BY <1>5 DEF Joined, GetFirst, CanGet, TypeOK
  <2>2. Feed!ToLiveEnd(r)
    BY <1>5, AnchorToLiveEnd DEF GetFirst, CanGet
  <2>3. QED BY <1>5, <2>1, <2>2 DEF Joined, Feed!Join, GetFirst
<1>6. ASSUME NEW r \in Readers, GetReanchor(r)
      PROVE  Feed!Join(r)
  <2>1. Joined[r] # m_nGeneration /\ live
    BY <1>6 DEF Joined, GetReanchor, CanGet, Stale
  <2>2. Feed!ToLiveEnd(r)
    BY <1>6, AnchorToLiveEnd DEF GetReanchor, CanGet
  <2>3. QED BY <1>6, <2>1, <2>2 DEF Joined, Feed!Join, GetReanchor
<1>7. ASSUME NEW r \in Readers, GetNothing(r) \/ GetMissing(r)
      PROVE  Feed!Nothing(r)
  BY <1>7 DEF GetNothing, GetMissing, ringVars, Feed!Nothing
<1>8. ASSUME NEW r \in Readers, GetOverrun(r)
      PROVE  Feed!Skip(r)
  <2>1. Joined[r] = m_nGeneration /\ live /\ Following(r) /\ inflight = 0
    BY <1>8 DEF Joined, GetOverrun, CanGet, Stale, Following
  <2>2. m_nDataCount - cursor[r] >= m_nDataSize
    <3>1. Behind(r) >= 0 /\ cursor[r] = read_id[r].nDataCount
      BY <2>1 DEF FeedInv, PairConsistent, CursorExact, Behind, Produced, TypeOK
    <3>2. QED BY <1>8, <3>1 DEF GetOverrun, Overrun, Behind, TypeOK
  <2>3. Feed!ToLiveEnd(r)
    BY <1>8, <2>1, AnchorToLiveEnd DEF GetOverrun
  <2>4. QED BY <1>8, <2>1, <2>2, <2>3 DEF Joined, Feed!Skip, GetOverrun
<1>9. ASSUME NEW r \in Readers, GetCopy(r)
      PROVE  Feed!Deliver(r) \/ Feed!Nothing(r)
  <2> DEFINE lag == m_nDataCount - read_id[r].nDataCount
             n == CopyLen(Ready(r))
  <2>1. inflight = 0 /\ live /\ Following(r)
    BY <1>9 DEF GetCopy, CanGet, Following
  <2>2. /\ lag \in 1 .. m_nDataSize - 1 /\ n \in 0 .. lag
        /\ Slice(read_id[r].nReadPos, n) = [i \in 1 .. n |-> cursor[r] + i]
    BY <1>9, <2>1, CopyDelivers
  <2>3. cursor[r] = read_id[r].nDataCount /\ cursor[r] \in Nat
    BY <2>1 DEF FeedInv, CursorExact, TypeOK
  <2>4. /\ out' = [out EXCEPT ![r] = Slice(read_id[r].nReadPos, n)]
        /\ cursor' = [cursor EXCEPT ![r] = @ + n]
        /\ UNCHANGED <<ringVars, m_overrun_count>>
    BY <1>9 DEF GetCopy
  <2>5. Joined' = Joined
    BY <1>9 DEF GetCopy, Joined, TypeOK
  <2>6. Joined[r] = m_nGeneration
    BY <2>1 DEF Joined, Following, Stale
  <2> HIDE DEF n, lag
  <2>7. CASE n = 0
    <3>1. Slice(read_id[r].nReadPos, n) = << >>
      <4>1. Slice(read_id[r].nReadPos, n) \in [1 .. 0 -> Nat]
        BY <2>2, <2>3, <2>7
      <4>2. QED BY <4>1, EmptySlice
    <3>2. cursor' = cursor
      BY <2>3, <2>4, <2>7 DEF TypeOK
    <3>3. QED BY <2>4, <2>5, <3>1, <3>2 DEF Joined, ringVars, Feed!Nothing
  <2>8. CASE n # 0
    <3>1. n \in 1 .. m_nDataCount - cursor[r] /\ m_nDataCount - cursor[r] < m_nDataSize
      BY <2>2, <2>3, <2>8 DEF lag, TypeOK
    <3>2. QED BY <2>1, <2>2, <2>4, <2>5, <2>6, <3>1
             DEF Joined, ringVars, Feed!Deliver
  <2>9. QED BY <2>7, <2>8
<1>10. ASSUME NEW r \in Readers, Rejoin(r)
       PROVE  Feed!Leave(r)
  <2>1. Joined' = [Joined EXCEPT ![r] = 0]
    BY <1>10 DEF Joined, Rejoin, NewReader, TypeOK
  <2>2. QED BY <1>10, <2>1 DEF Joined, Rejoin, ringVars, Feed!Leave
<1>11. ASSUME UNCHANGED vars PROVE UNCHANGED Feed!feedVars
  BY <1>11 DEF vars, ringVars, Feed!feedVars
<1>12. QED BY <1>1, <1>2, <1>3, <1>4, <1>5, <1>6, <1>7, <1>8, <1>9, <1>10, <1>11
          DEF Next, Get, Feed!Next

(* With worker_threads 0 or 1 every behaviour of the ring is one of the    *)
(* feed: deliveries are contiguous, and a viewer is moved to the live end  *)
(* only on a join, on a new session or a whole ring behind (and then it is *)
(* counted).                                                               *)
THEOREM RingImplementsFeed ==
  ASSUME SharedWorker
  PROVE  Spec => FeedSpec
<1>1. Init => Feed!Init
  <2> SUFFICES ASSUME Init PROVE Feed!Init
    OBVIOUS
  <2>1. Joined = [r \in Readers |-> 0]
    BY DEF Init, Joined, NewReader
  <2>2. QED BY <2>1, RingAssumption DEF Init, Joined, Feed!Init
<1>2. Init => FeedInv
  BY FeedInit
<1>3. TypeOK /\ ContentConsistent /\ FeedInv /\ [Next]_vars => FeedInv'
  BY FeedStep
<1>4. TypeOK /\ ContentConsistent /\ FeedInv /\ [Next]_vars
        => [Feed!Next]_(Feed!feedVars)
  BY FeedNextStep
<1>5. QED
  BY <1>1, <1>2, <1>3, <1>4, RingTypeCorrect, RingContent, PTL
  DEF Spec, FeedSpec, Feed!Spec

(* With worker_threads 0 or 1 a step that takes bytes away from a viewer   *)
(* unread counts an overrun, and the viewer really was a whole ring        *)
(* behind.                                                                 *)
THEOREM RingNoSilentSkip ==
  ASSUME SharedWorker
  PROVE  Spec => NoSilentSkip
<1>1. ASSUME TypeOK, TypeOK', ContentConsistent, FeedInv, Next,
             NEW r \in Readers, Skipped(r)
      PROVE  /\ m_overrun_count' = m_overrun_count + 1
             /\ m_nDataCount - cursor[r] >= m_nDataSize
  <2>1. cursor[r] \in Nat /\ cursor'[r] \in Nat /\ Len(out'[r]) \in Nat
    BY <1>1 DEF TypeOK
  <2>2. cursor'[r] # cursor[r]
    BY <1>1, <2>1 DEF Skipped
  <2>3. ~\E n \in Sizes : Create(n)
    BY <2>2 DEF Create
  <2>4. ~Delete /\ ~PutCount /\ ~\E len \in 1 .. MaxPut : PutCopy(len)
    BY <2>2 DEF Delete, PutCount, PutCopy
  <2>5. ASSUME NEW s \in Readers, Get(s) \/ Rejoin(s), s # r
        PROVE  FALSE
    BY <1>1, <2>2, <2>5 DEF Get, GetFirst, GetReanchor, GetNothing, GetOverrun,
         GetCopy, GetMissing, Rejoin, Anchor, TypeOK
  <2>6. ~Rejoin(r)
    BY <1>1 DEF Rejoin, NewReader, TypeOK, Skipped
  <2>7. ~GetFirst(r) /\ ~GetReanchor(r) /\ ~GetNothing(r) /\ ~GetMissing(r)
    BY <1>1, <2>2 DEF GetFirst, GetReanchor, GetNothing, GetMissing, Following,
                      Skipped
  <2>8. ~GetCopy(r)
    <3> SUFFICES ASSUME GetCopy(r) PROVE FALSE
      OBVIOUS
    <3> DEFINE n == CopyLen(Ready(r))
    <3>1. /\ n \in Nat
          /\ Slice(read_id[r].nReadPos, n) = [i \in 1 .. n |-> cursor[r] + i]
      <4>1. inflight = 0
        BY CopyInflight
      <4>2. LET lag == m_nDataCount - read_id[r].nDataCount
            IN lag \in 1 .. m_nDataSize - 1 /\ n \in 0 .. lag
        BY <1>1, <4>1, CopyDelivers
      <4>3. QED BY <1>1, <4>1, <4>2, CopyDelivers
    <3>2. out'[r] = Slice(read_id[r].nReadPos, n) /\ cursor'[r] = cursor[r] + n
      BY <1>1 DEF GetCopy, TypeOK
    <3> HIDE DEF n
    <3>3. out'[r] \in [1 .. n -> Nat]
      BY <2>1, <3>1, <3>2
    <3>4. Len(out'[r]) = n
      BY <3>1, <3>3, SliceIsSeq
    <3>5. QED BY <1>1, <2>1, <3>1, <3>2, <3>4 DEF Skipped
  <2>9. GetOverrun(r)
    BY <1>1, <2>3, <2>4, <2>5, <2>6, <2>7, <2>8 DEF Next, Get
  <2>10. Behind(r) >= 0 /\ cursor[r] = read_id[r].nDataCount
    BY <1>1, <2>9 DEF FeedInv, PairConsistent, CursorExact, Behind, Produced,
                      GetOverrun, CanGet, TypeOK, Skipped
  <2>11. m_nDataCount - cursor[r] >= m_nDataSize
    <3>1. Behind(r) >= m_nDataSize \/ Behind(r) < 0
      BY <2>9 DEF GetOverrun, Overrun
    <3>2. m_nDataCount \in Nat /\ m_nDataSize \in Nat /\ read_id[r].nDataCount \in Nat
      BY <1>1 DEF TypeOK
    <3>3. QED BY <2>10, <3>1, <3>2 DEF Behind
  <2>12. QED BY <2>9, <2>11 DEF GetOverrun
<1>2. TypeOK /\ TypeOK' /\ ContentConsistent /\ FeedInv /\ [Next]_vars
        => [SkipCounted]_vars
  BY <1>1 DEF SkipCounted
<1>3. TypeOK /\ ContentConsistent /\ FeedInv /\ [Next]_vars => FeedInv'
  BY FeedStep
<1>4. QED
  BY <1>2, <1>3, FeedInit, RingTypeCorrect, RingContent, PTL DEF Spec, NoSilentSkip
=============================================================================
