--------------------------- MODULE AdmissionProofs ---------------------------
(***************************************************************************)
(* Proofs about the tests a connection has to pass: the two gates that a   *)
(* webhook decides, the player limit, the rate limit on key validations,   *)
(* the allow and deny rules, and the caps of all gates together.           *)
(*                                                                         *)
(* The publisher gate, for any number of listeners, callers and streamids, *)
(* any deadline and any TTL.  The invariant is GateInv; the proof takes it *)
(* apart into what it says of one connection (ConnInv) and of the reject   *)
(* cache (CacheInv).                                                       *)
(*                                                                         *)
(* The player-key gate, for any number of players and keys and any times.  *)
(* The invariant is that the cache never says more than the webhook did    *)
(* (CachedPermission); everything but the answer of the webhook only takes *)
(* entries away or lets them run down.                                     *)
(*                                                                         *)
(* PlayerLimit: for any number of players, any limits and any life of a    *)
(* key.  Types and refusals hold for any number of workers and listeners;  *)
(* the limit itself is proved for one listener on one worker, and without  *)
(* either AdmitWithinLimit fails.                                          *)
(***************************************************************************)
EXTENDS MCAdmission, CountingTheorems, SequenceTheorems

ConnInv(c) ==
  /\ pub[c] \in Publisher
  /\ RequestInv(c)
  /\ Gated(c) /\ At(c) = "admitted"
       => pub[c].verdict = "ok" /\ pub[c].age < AuthorizationDeadline

CacheInv ==
  /\ m_blocked \in [Sids -> NoTime..m_ttl]
  /\ swept \in BOOLEAN
  /\ deniedLeft \in [Sids -> NoTime..(m_ttl + AuthorizationDeadline)]
  /\ BlockInv

SocketInv == m_srt \in [Listeners -> {"open", "freed", "reaped"}]

(* The parts are the whole. *)
LEMMA Parts ==
  GateInv <=> /\ pub = [c \in Conns |-> pub[c]]
              /\ \A c \in Conns : ConnInv(c)
              /\ CacheInv
              /\ SocketInv
  BY DEF GateInv, GateTypeOK, AdmittedAuthorized, ConnInv, CacheInv, SocketInv

(* The sums that the code's countdowns are bounded by are naturals. *)
LEMMA Times ==
  /\ AuthorizationDeadline \in Nat /\ AuthorizationDeadline > 0
  /\ m_ttl \in Nat /\ m_ttl > 0
  /\ m_ttl + AuthorizationDeadline \in Nat
  /\ NoTime = -1
  /\ NoTime \in NoTime..AuthorizationDeadline
  BY GateAssumption DEF NoTime

(* A closed connection has no request and is not admitted. *)
LEMMA ClosedInv ==
  ASSUME NEW c \in Conns, pub'[c] = Closed
  PROVE  ConnInv(c)'
<1>1. Closed \in Publisher
  BY Times DEF Closed, Publisher, Places, Answers
<1> QED BY <1>1 DEF ConnInv, RequestInv, At, Closed, Gated

(* A connection that a step does not touch keeps its invariant, as long as *)
(* the history of its streamid has not run down.                           *)
LEMMA FrameInv ==
  ASSUME NEW c \in Conns, ConnInv(c), pub'[c] = pub[c],
         SidOf[c] \in Sids, deniedLeft' = deniedLeft
  PROVE  ConnInv(c)'
  BY DEF ConnInv, RequestInv, At, Gated

(* So a step that replaces one connection is right if it is right there. *)
LEMMA OneConn ==
  ASSUME GateInv, NEW c \in Conns, NEW p,
         pub' = [pub EXCEPT ![c] = p], deniedLeft' = deniedLeft,
         ConnInv(c)'
  PROVE  /\ pub' = [d \in Conns |-> pub'[d]]
         /\ \A d \in Conns : ConnInv(d)'
<1>1. ASSUME NEW d \in Conns PROVE ConnInv(d)'
  <2>1. ConnInv(d) /\ SidOf[d] \in Sids
    BY Parts, GateAssumption
  <2>2. CASE d = c
    BY <2>2
  <2>3. CASE d # c
    <3>1. pub'[d] = pub[d]
      BY <2>3, Parts
    <3> QED BY <2>1, <3>1, FrameInv
  <2> QED BY <2>2, <2>3
<1>2. pub' = [d \in Conns |-> pub'[d]]
  BY Parts
<1> QED BY <1>1, <1>2

(* record_failure keeps the cache in order when the denial it records is   *)
(* recent enough; an eviction only removes.                                *)
LEMMA RecordInv ==
  ASSUME CacheInv, NEW s \in Sids, record_failure(s), deniedLeft[s] >= m_ttl,
         deniedLeft' = deniedLeft
  PROVE  CacheInv'
<1>1. /\ m_blocked \in [Sids -> NoTime..m_ttl]
      /\ deniedLeft \in [Sids -> NoTime..(m_ttl + AuthorizationDeadline)]
      /\ \A t \in Sids : m_blocked[t] > 0 => deniedLeft[t] >= m_blocked[t]
  BY DEF CacheInv, BlockInv
<1>2. /\ Sweep \in [Sids -> NoTime..m_ttl]
      /\ \A t \in Sids : Sweep[t] = m_blocked[t] \/ Sweep[t] = NoTime
  BY <1>1, Times DEF Sweep
<1>3. /\ m_blocked' \in [Sids -> NoTime..m_ttl]
      /\ m_blocked'[s] = m_ttl
      /\ \A t \in Sids : t # s =>
           m_blocked'[t] = m_blocked[t] \/ m_blocked'[t] = NoTime
  <2>1. CASE m_blocked' = [Sweep EXCEPT ![s] = m_ttl]
    BY <1>2, <2>1, Times
  <2>2. CASE \E v \in Victims(Sweep, s) :
               m_blocked' = [Sweep EXCEPT ![v] = NoTime,
                                          ![s] = m_ttl]
    <3>1. PICK v \in Victims(Sweep, s) :
            m_blocked' = [Sweep EXCEPT ![v] = NoTime,
                                       ![s] = m_ttl]
      BY <2>2
    <3>2. v \in Sids
      BY DEF Victims, Entries
    <3> QED BY <1>2, <3>1, <3>2, Times
  <2> QED BY <2>1, <2>2 DEF record_failure
<1>4. swept' \in BOOLEAN
  BY DEF record_failure
<1>5. BlockInv'
  BY <1>1, <1>3, Times DEF BlockInv
<1> QED BY <1>1, <1>3, <1>4, <1>5 DEF CacheInv

(* One check_http_passed(): what admits is a fresh 200, what is recorded   *)
(* is a fresh denial.                                                      *)
LEMMA PollInv ==
  ASSUME GateInv, NEW c \in Conns, At(c) \in {"accepting", "pending"},
         Poll(c), UNCHANGED <<m_srt, deniedLeft>>
  PROVE  GateInv'
<1> USE Times
<1>1. ConnInv(c) /\ CacheInv /\ SocketInv /\ pub = [d \in Conns |-> pub[d]]
  BY Parts
<1>2. SidOf[c] \in Sids
  BY GateAssumption
<1>3. SocketInv'
  BY <1>1 DEF SocketInv
<1>4. pub[c] \in Publisher
  BY <1>1 DEF ConnInv
<1>5. SUFFICES /\ \A d \in Conns : ConnInv(d)'
               /\ pub' = [d \in Conns |-> pub'[d]]
               /\ CacheInv'
  BY <1>3 DEF GateInv, GateTypeOK, AdmittedAuthorized, ConnInv, CacheInv, SocketInv
<1>6. CASE m_blocked' = m_blocked /\ swept' = swept /\ Close(c)
  <2>1. pub'[c] = Closed
    BY <1>1, <1>6 DEF Close
  <2>2. CacheInv'
    BY <1>1, <1>6 DEF CacheInv, BlockInv
  <2> QED BY <1>6, <2>1, <2>2, ClosedInv, OneConn DEF Close
<1>7. CASE /\ check_http_passed(c) = "passed"
           /\ m_blocked' = m_blocked /\ swept' = swept
           /\ pub' = [pub EXCEPT ![c].at = "admitted", ![c].passed = TRUE,
                                 ![c].future = "none", ![c].deadline = NoTime]
  <2> DEFINE p == [pub[c] EXCEPT !.at = "admitted", !.passed = TRUE,
                                 !.future = "none", !.deadline = NoTime]
  <2>1. pub' = [pub EXCEPT ![c] = p] /\ pub'[c] = p
    BY <1>1, <1>7
  <2>2. p \in Publisher
    BY <1>4 DEF Publisher, Places
  <2>3. Gated(c) => p.verdict = "ok" /\ p.age < AuthorizationDeadline
    <3>1. ASSUME Gated(c)
          PROVE  /\ pub[c].future = "ok" /\ pub[c].deadline # 0
                 /\ pub[c].verdict = "ok"
                 /\ pub[c].deadline = AuthorizationDeadline - pub[c].age
      BY <1>1, <1>7, <3>1 DEF ConnInv, RequestInv, check_http_passed, Answers
    <3>2. pub[c].age \in 0..AuthorizationDeadline
      BY <1>4 DEF Publisher
    <3>3. p.verdict = pub[c].verdict /\ p.age = pub[c].age
      BY <1>4 DEF Publisher
    <3> QED BY <3>1, <3>2, <3>3
  <2>4. ConnInv(c)'
    <3>1. p.at = "admitted" /\ p.future = "none"
      BY <1>4 DEF Publisher
    <3> HIDE DEF p
    <3> QED BY <2>1, <2>2, <2>3, <3>1 DEF ConnInv, RequestInv, At, Gated
  <2>5. CacheInv'
    BY <1>1, <1>7 DEF CacheInv, BlockInv
  <2> HIDE DEF p
  <2> QED BY <2>1, <2>4, <2>5, OneConn
<1>8. CASE /\ check_http_passed(c) = "wait"
           /\ m_blocked' = m_blocked /\ swept' = swept
           /\ pub' = [pub EXCEPT ![c].at = "pending"]
  <2> DEFINE p == [pub[c] EXCEPT !.at = "pending"]
  <2>1. pub' = [pub EXCEPT ![c] = p] /\ pub'[c] = p
    BY <1>1, <1>8
  <2>2. /\ p \in Publisher /\ p.at = "pending" /\ p.passed = pub[c].passed
        /\ p.future = pub[c].future /\ p.deadline = pub[c].deadline
        /\ p.age = pub[c].age /\ p.verdict = pub[c].verdict
    BY <1>4 DEF Publisher, Places
  <2>3. ConnInv(c)'
    <3> HIDE DEF p
    <3> QED BY <1>1, <2>1, <2>2 DEF ConnInv, RequestInv, At, Gated
  <2>4. CacheInv'
    BY <1>1, <1>8 DEF CacheInv, BlockInv
  <2> HIDE DEF p
  <2> QED BY <2>1, <2>3, <2>4, OneConn
<1>9. CASE /\ check_http_passed(c) = "refused"
           /\ pub' = [pub EXCEPT ![c].at = "pending", ![c].future = on_close(c),
                                 ![c].deadline = NoTime]
           /\ IF pub[c].future \in CachedAnswers THEN record_failure(SidOf[c])
              ELSE UNCHANGED <<m_blocked, swept>>
  <2> DEFINE p == [pub[c] EXCEPT !.at = "pending", !.future = on_close(c),
                                 !.deadline = NoTime]
  <2>1. pub' = [pub EXCEPT ![c] = p] /\ pub'[c] = p
    BY <1>1, <1>9
  <2>2. ~pub[c].passed /\ pub[c].deadline # 0 /\ pub[c].future # "none"
    BY <1>9 DEF check_http_passed
  <2>3. on_close(c) = "none"
    BY <2>2 DEF on_close
  <2>4. /\ p \in Publisher /\ p.at = "pending" /\ p.future = "none"
        /\ p.passed = pub[c].passed
    BY <1>4, <2>3 DEF Publisher, Places
  <2>5. ConnInv(c)'
    <3> HIDE DEF p
    <3> QED BY <2>1, <2>2, <2>4 DEF ConnInv, RequestInv, At, Gated
  <2>6. CacheInv'
    <3>1. CASE pub[c].future \in CachedAnswers
      <4>1. pub[c].future = "denied"
        BY <3>1 DEF CachedAnswers
      <4>2. /\ pub[c].deadline = AuthorizationDeadline - pub[c].age
            /\ pub[c].deadline > 0
                 => deniedLeft[SidOf[c]] >= m_ttl + pub[c].deadline
        BY <1>1, <4>1 DEF ConnInv, RequestInv
      <4>3. pub[c].age \in 0..AuthorizationDeadline
        BY <1>4 DEF Publisher
      <4>4. deniedLeft[SidOf[c]] \in Int
        BY <1>1, <1>2 DEF CacheInv
      <4>5. deniedLeft[SidOf[c]] >= m_ttl
        BY <2>2, <4>2, <4>3, <4>4
      <4>6. record_failure(SidOf[c])
        BY <1>9, <3>1
      <4> QED BY <1>1, <1>2, <4>5, <4>6, RecordInv
    <3>2. CASE pub[c].future \notin CachedAnswers
      BY <1>1, <1>9, <3>2 DEF CacheInv, BlockInv
    <3> QED BY <3>1, <3>2
  <2> HIDE DEF p
  <2> QED BY <2>1, <2>5, <2>6, OneConn
<1> QED BY <1>6, <1>7, <1>8, <1>9 DEF Poll

-----------------------------------------------------------------------------
(* Nothing has been asked or recorded at the start. *)
LEMMA GateInitInv == GateInit => GateInv
<1> SUFFICES ASSUME GateInit PROVE GateInv
  OBVIOUS
<1> USE Times
<1>1. \A c \in Conns : pub[c] = Closed
  BY DEF GateInit
<1>2. Closed \in Publisher
  BY DEF Closed, Publisher, Places, Answers
<1>3. ASSUME NEW c \in Conns PROVE ConnInv(c)
  BY <1>1, <1>2 DEF ConnInv, RequestInv, At, Closed, Gated
<1>4. NoTime \in NoTime..m_ttl
      /\ NoTime \in NoTime..(m_ttl + AuthorizationDeadline)
  OBVIOUS
<1>5. CacheInv
  <2>1. ~(NoTime > 0)
    OBVIOUS
  <2>2. \A s \in Sids : m_blocked[s] = NoTime
    BY DEF GateInit
  <2>3. BlockInv
    BY <2>1, <2>2 DEF BlockInv
  <2>4. /\ m_blocked \in [Sids -> NoTime..m_ttl]
        /\ deniedLeft \in [Sids -> NoTime..(m_ttl + AuthorizationDeadline)]
    <3> HIDE DEF NoTime
    <3> QED BY <1>4 DEF GateInit
  <2> QED BY <2>3, <2>4 DEF GateInit, CacheInv
<1>6. SocketInv /\ pub = [c \in Conns |-> pub[c]]
  BY DEF GateInit, SocketInv
<1> QED BY <1>3, <1>5, <1>6, Parts

(* The answer of the webhook starts the history that justifies a block. *)
LEMMA AnswerInv ==
  ASSUME GateInv, NEW c \in Conns, NEW r \in Answers, Answer(c, r)
  PROVE  GateInv'
<1> USE Times
<1>1. /\ \A d \in Conns : ConnInv(d)
      /\ CacheInv /\ SocketInv /\ pub = [d \in Conns |-> pub[d]]
  BY Parts
<1>2. \A d \in Conns : SidOf[d] \in Sids
  BY GateAssumption
<1>3. pub[c] \in Publisher /\ pub[c].future = "waiting"
  BY <1>1 DEF ConnInv, Answer
<1>4. pub[c].verdict = "none"
  BY <1>1, <1>3 DEF ConnInv, RequestInv
<1> DEFINE p == [pub[c] EXCEPT !.future = r, !.verdict = r]
<1>5. pub' = [pub EXCEPT ![c] = p] /\ pub'[c] = p
  BY <1>1, <1>4 DEF Answer
<1>6. /\ p \in Publisher /\ p.at = pub[c].at /\ p.passed = pub[c].passed
      /\ p.future = r /\ p.deadline = pub[c].deadline
      /\ p.age = pub[c].age /\ p.verdict = r
  BY <1>3 DEF Publisher, Answers
<1>7. /\ deniedLeft \in [Sids -> NoTime..(m_ttl + AuthorizationDeadline)]
      /\ deniedLeft' = [deniedLeft EXCEPT ![SidOf[c]] =
           IF r = "denied" THEN m_ttl + AuthorizationDeadline ELSE @]
  BY <1>1, <1>4 DEF CacheInv, Answer
<1>8. /\ deniedLeft' \in [Sids -> NoTime..(m_ttl + AuthorizationDeadline)]
      /\ \A s \in Sids : deniedLeft'[s] >= deniedLeft[s]
      /\ r = "denied" => deniedLeft'[SidOf[c]] = m_ttl + AuthorizationDeadline
  <2>1. \A s \in Sids : deniedLeft[s] \in NoTime..(m_ttl + AuthorizationDeadline)
    BY <1>7
  <2>2. CASE r = "denied"
    BY <1>2, <1>7, <2>1, <2>2
  <2>3. CASE r # "denied"
    BY <1>2, <1>7, <2>1, <2>3
  <2> QED BY <2>2, <2>3
<1>9. CacheInv'
  <2>1. m_blocked' = m_blocked /\ swept' = swept
    BY DEF Answer
  <2>2. \A s \in Sids : m_blocked[s] \in Int /\ deniedLeft[s] \in Int
                           /\ deniedLeft'[s] \in Int
    BY <1>1, <1>8 DEF CacheInv
  <2> QED BY <1>1, <1>8, <2>1, <2>2 DEF CacheInv, BlockInv
<1>10. ASSUME NEW d \in Conns PROVE ConnInv(d)'
  <2>1. CASE d = c
    <3>1. p.deadline \in NoTime..AuthorizationDeadline
      BY <1>6 DEF Publisher
    <3>2. r = "denied" => deniedLeft'[SidOf[c]] >= m_ttl + p.deadline
      <4> HIDE DEF p
      <4> QED BY <1>8, <3>1
    <3> HIDE DEF p
    <3> QED BY <1>1, <1>3, <1>5, <1>6, <2>1, <3>2
            DEF ConnInv, RequestInv, At, Gated, Answers
  <2>2. CASE d # c
    <3>1. pub'[d] = pub[d] /\ ConnInv(d)
      BY <1>1, <1>5, <2>2
    <3>2. /\ pub[d].deadline \in Int /\ deniedLeft[SidOf[d]] \in Int
          /\ deniedLeft'[SidOf[d]] \in Int
          /\ deniedLeft'[SidOf[d]] >= deniedLeft[SidOf[d]]
      BY <1>2, <1>7, <1>8, <3>1 DEF ConnInv, Publisher
    <3> QED BY <3>1, <3>2 DEF ConnInv, RequestInv, At, Gated
  <2> QED BY <2>1, <2>2
<1>11. SocketInv' /\ pub' = [d \in Conns |-> pub'[d]]
  BY <1>1, <1>5 DEF SocketInv, Answer
<1> QED BY <1>9, <1>10, <1>11
        DEF GateInv, GateTypeOK, AdmittedAuthorized, ConnInv, CacheInv, SocketInv

(* Time runs down for a request, for a block and for its justification     *)
(* alike.                                                                  *)
LEMMA TickInv ==
  ASSUME GateInv, Tick
  PROVE  GateInv'
<1> USE Times
<1>1. /\ \A c \in Conns : ConnInv(c)
      /\ CacheInv /\ SocketInv
  BY Parts
<1>2. /\ m_blocked \in [Sids -> NoTime..m_ttl]
      /\ deniedLeft \in [Sids -> NoTime..(m_ttl + AuthorizationDeadline)]
      /\ \A s \in Sids : m_blocked[s] > 0 => deniedLeft[s] >= m_blocked[s]
  BY <1>1 DEF CacheInv, BlockInv
<1>3. /\ m_blocked' = [s \in Sids |-> Left(m_blocked[s])]
      /\ deniedLeft' = [s \in Sids |-> Left(deniedLeft[s])]
      /\ swept' = FALSE /\ m_srt' = m_srt
      /\ pub' = [c \in Conns |-> Older(c)]
  BY DEF Tick
<1>4. CacheInv'
  <2>1. m_blocked' \in [Sids -> NoTime..m_ttl]
    BY <1>2, <1>3 DEF Left
  <2>2. deniedLeft' \in [Sids -> NoTime..(m_ttl + AuthorizationDeadline)]
    BY <1>2, <1>3 DEF Left
  <2>3. BlockInv'
    BY <1>2, <1>3 DEF Left, BlockInv
  <2> QED BY <1>3, <2>1, <2>2, <2>3 DEF CacheInv
<1>5. ASSUME NEW c \in Conns PROVE ConnInv(c)'
  <2>1. ConnInv(c) /\ pub[c] \in Publisher /\ pub'[c] = Older(c)
        /\ SidOf[c] \in Sids
    BY <1>1, <1>3, GateAssumption DEF ConnInv
  <2>2. CASE At(c) \notin {"accepting", "pending"}
    <3>1. pub'[c] = pub[c] /\ pub[c].future = "none"
      BY <2>1, <2>2 DEF Older, ConnInv, RequestInv
    <3> QED BY <2>1, <2>2, <3>1 DEF ConnInv, RequestInv, At, Gated
  <2>3. CASE At(c) \in {"accepting", "pending"}
    <3> DEFINE a == pub[c].age
               t == pub[c].deadline
               b == IF a < AuthorizationDeadline THEN a + 1 ELSE a
               p == [pub[c] EXCEPT !.deadline = Left(t), !.age = b]
    <3>1. a \in 0..AuthorizationDeadline /\ t \in NoTime..AuthorizationDeadline
      BY <2>1 DEF Publisher
    <3>2. b \in 0..AuthorizationDeadline /\ Left(t) \in NoTime..AuthorizationDeadline
      <4> HIDE DEF a, t
      <4> QED BY <3>1 DEF Left
    <3>3. pub'[c] = p
      BY <2>1, <2>3 DEF Older
    <3>4. /\ p \in Publisher /\ p.at = pub[c].at /\ p.passed = pub[c].passed
          /\ p.future = pub[c].future /\ p.deadline = Left(t)
          /\ p.age = b /\ p.verdict = pub[c].verdict
      <4> HIDE DEF b
      <4> QED BY <2>1, <3>2 DEF Publisher
    <3>5. ASSUME t = AuthorizationDeadline - a
          PROVE  Left(t) = AuthorizationDeadline - b
      <4> HIDE DEF a, t
      <4> QED BY <3>1, <3>5 DEF Left
    <3>6. ASSUME t > 0 => deniedLeft[SidOf[c]] >= m_ttl + t, Left(t) > 0
          PROVE  deniedLeft'[SidOf[c]] >= m_ttl + Left(t)
      <4>1. deniedLeft[SidOf[c]] \in Int
        BY <1>2, <2>1
      <4>2. deniedLeft'[SidOf[c]] = Left(deniedLeft[SidOf[c]])
        BY <1>3, <2>1
      <4> HIDE DEF a, t
      <4> QED BY <3>1, <3>6, <4>1, <4>2 DEF Left
    <3>7. At(c)' = At(c)
      BY <3>3, <3>4 DEF At
    <3>8. RequestInv(c)'
      <4>1. At(c)' \in {"accepting", "pending"} /\ Gated(c)' => ~pub'[c].passed
        BY <2>1, <3>3, <3>4, <3>7 DEF ConnInv, RequestInv, Gated
      <4>2. ASSUME pub'[c].future # "none"
            PROVE  /\ At(c)' \in {"accepting", "pending"} /\ ~pub'[c].passed
                   /\ pub'[c].deadline = AuthorizationDeadline - pub'[c].age
                   /\ pub'[c].future = "waiting" => pub'[c].verdict = "none"
                   /\ pub'[c].future \in Answers
                        => pub'[c].verdict = pub'[c].future
                   /\ pub'[c].future = "denied" /\ pub'[c].deadline > 0
                        => deniedLeft'[SidOf[c]] >= m_ttl + pub'[c].deadline
        <5>1. /\ ~pub[c].passed /\ t = AuthorizationDeadline - a
              /\ pub[c].future = "waiting" => pub[c].verdict = "none"
              /\ pub[c].future \in Answers => pub[c].verdict = pub[c].future
              /\ pub[c].future = "denied" /\ t > 0
                   => deniedLeft[SidOf[c]] >= m_ttl + t
          BY <2>1, <3>3, <3>4, <4>2 DEF ConnInv, RequestInv
        <5> HIDE DEF a, b, t, p
        <5> QED BY <2>3, <3>3, <3>4, <3>5, <3>6, <3>7, <5>1
      <4> HIDE DEF a, b, t, p
      <4> QED BY <4>1, <4>2 DEF RequestInv
    <3> HIDE DEF p
    <3> QED BY <2>3, <3>3, <3>4, <3>7, <3>8 DEF ConnInv
  <2> QED BY <2>2, <2>3
<1>6. SocketInv' /\ pub' = [c \in Conns |-> pub'[c]]
  BY <1>1, <1>3 DEF SocketInv
<1> QED BY <1>4, <1>5, <1>6
        DEF GateInv, GateTypeOK, AdmittedAuthorized, ConnInv, CacheInv, SocketInv

(* The steps of a listener: they close connections, or move one that has   *)
(* no answer to read.                                                      *)
LEMMA ListenerInv ==
  ASSUME GateInv,
         \/ \E c \in Conns : Handshake(c) \/ Accept(c) \/ Leave(c)
         \/ \E l \in Listeners : Uninit(l) \/ Reap(l)
  PROVE  GateInv'
<1> USE Times
<1>1. /\ \A c \in Conns : ConnInv(c) /\ SidOf[c] \in Sids
      /\ CacheInv /\ SocketInv /\ pub = [c \in Conns |-> pub[c]]
  BY Parts, GateAssumption
<1>2. m_blocked' = m_blocked /\ swept' = swept /\ deniedLeft' = deniedLeft
  BY DEF Handshake, Accept, Leave, Uninit, Reap
<1>3. CacheInv'
  BY <1>1, <1>2 DEF CacheInv, BlockInv
<1>4. SocketInv'
  BY <1>1 DEF SocketInv, Handshake, Accept, Leave, Uninit, Reap
<1>5. SUFFICES /\ \A c \in Conns : ConnInv(c)'
               /\ pub' = [c \in Conns |-> pub'[c]]
  BY <1>3, <1>4
     DEF GateInv, GateTypeOK, AdmittedAuthorized, ConnInv, CacheInv, SocketInv
<1>6. CASE \E c \in Conns : Close(c)
  <2>1. PICK c \in Conns : Close(c)
    BY <1>6
  <2>2. pub'[c] = Closed
    BY <1>1, <2>1 DEF Close
  <2> QED BY <1>2, <2>1, <2>2, ClosedInv, OneConn DEF Close
<1>7. CASE \E c \in Conns : Handshake(c)
  <2>1. PICK c \in Conns : Handshake(c)
    BY <1>7
  <2> DEFINE p == [pub[c] EXCEPT !.at = "backlog"]
  <2>2. pub' = [pub EXCEPT ![c] = p] /\ pub'[c] = p
    BY <1>1, <2>1 DEF Handshake
  <2>3. pub[c] \in Publisher /\ pub[c].future = "none"
    BY <1>1, <2>1 DEF ConnInv, RequestInv, Handshake
  <2>4. p \in Publisher /\ p.at = "backlog" /\ p.future = "none"
    BY <2>3 DEF Publisher, Places
  <2> HIDE DEF p
  <2>5. ConnInv(c)'
    BY <2>2, <2>4 DEF ConnInv, RequestInv, At, Gated
  <2> QED BY <1>2, <2>2, <2>5, OneConn
<1>8. CASE \E c \in Conns : Accept(c) /\ ~Close(c)
  <2>1. PICK c \in Conns : Accept(c) /\ ~Close(c)
    BY <1>8
  <2> DEFINE p == [Closed EXCEPT
                     !.at = "accepting", !.passed = ~Gated(c),
                     !.future = IF Gated(c) THEN "waiting" ELSE "none",
                     !.deadline = IF Gated(c) THEN AuthorizationDeadline
                                  ELSE NoTime]
  <2>2. pub' = [pub EXCEPT ![c] = p] /\ pub'[c] = p
    BY <1>1, <2>1 DEF Accept
  <2>3. /\ p \in Publisher /\ p.at = "accepting" /\ p.age = 0
        /\ p.verdict = "none"
        /\ IF Gated(c)
           THEN /\ p.passed = FALSE /\ p.future = "waiting"
                /\ p.deadline = AuthorizationDeadline
           ELSE p.future = "none"
    <3>1. Closed \in Publisher /\ Closed.age = 0 /\ Closed.verdict = "none"
      BY DEF Closed, Publisher, Places, Answers
    <3>2. CASE Gated(c)
      <4>1. p = [Closed EXCEPT !.at = "accepting", !.passed = FALSE,
                               !.future = "waiting",
                               !.deadline = AuthorizationDeadline]
        BY <3>2
      <4>2. AuthorizationDeadline \in NoTime..AuthorizationDeadline
        OBVIOUS
      <4> QED BY <3>1, <3>2, <4>1, <4>2 DEF Publisher, Places
    <3>3. CASE ~Gated(c)
      <4>1. p = [Closed EXCEPT !.at = "accepting", !.passed = TRUE,
                               !.future = "none", !.deadline = NoTime]
        BY <3>3
      <4> QED BY <3>1, <3>3, <4>1 DEF Publisher, Places
    <3> QED BY <3>2, <3>3
  <2> HIDE DEF p
  <2>4. ConnInv(c)'
    <3>1. CASE Gated(c)
      BY <2>2, <2>3, <3>1 DEF ConnInv, RequestInv, At, Gated, Answers
    <3>2. CASE ~Gated(c)
      BY <2>2, <2>3, <3>2 DEF ConnInv, RequestInv, At, Gated
    <3> QED BY <3>1, <3>2
  <2> QED BY <1>2, <2>2, <2>4, OneConn
<1>9. CASE \E l \in Listeners : Uninit(l) \/ Reap(l)
  <2>1. /\ pub' = [c \in Conns |-> pub'[c]]
        /\ \A c \in Conns : pub'[c] = Closed \/ pub'[c] = pub[c]
    BY <1>9 DEF Uninit, Reap
  <2> QED BY <1>1, <1>2, <2>1, ClosedInv, FrameInv
<1> QED BY <1>6, <1>7, <1>8, <1>9 DEF Leave

(* The invariant holds in every reachable state. *)
THEOREM GateInvariant == GateSpec => []GateInv
<1>1. GateInv /\ [GateNext]_gateVars => GateInv'
  <2> SUFFICES ASSUME GateInv, [GateNext]_gateVars PROVE GateInv'
    OBVIOUS
  <2>1. CASE \E c \in Conns : FirstPoll(c) \/ DrivePending(c)
    BY <2>1, PollInv DEF FirstPoll, DrivePending
  <2>2. CASE \E c \in Conns : \E r \in Answers : Answer(c, r)
    BY <2>2, AnswerInv
  <2>3. CASE Tick
    BY <2>3, TickInv
  <2>4. CASE \/ \E c \in Conns : Handshake(c) \/ Accept(c) \/ Leave(c)
             \/ \E l \in Listeners : Uninit(l) \/ Reap(l)
    BY <2>4, ListenerInv
  <2>5. CASE UNCHANGED gateVars
    BY <2>5 DEF gateVars, GateInv, GateTypeOK, RequestInv, AdmittedAuthorized,
                BlockInv, At, Gated
  <2> QED BY <2>1, <2>2, <2>3, <2>4, <2>5 DEF GateNext
<1> QED BY <1>1, GateInitInv, PTL DEF GateSpec

(* Whatever the deadline, the TTL and the number of callers: the variables *)
(* of the gate stay in their types.                                        *)
THEOREM GateTypeCorrect == GateSpec => []GateTypeOK
<1>1. GateInv => GateTypeOK
  BY DEF GateInv
<1> QED BY <1>1, GateInvariant, PTL

(* check_http_passed() fails closed: no publisher of a gated listener gets *)
(* to the publisher map without a 200 that was read before the deadline.   *)
THEOREM GateFailsClosed == GateSpec => []AdmittedAuthorized
<1>1. GateInv => AdmittedAuthorized
  BY DEF GateInv
<1> QED BY <1>1, GateInvariant, PTL

(* The handshake callback turns a streamid away only on the webhook's own  *)
(* recent 401 or 403.                                                      *)
THEOREM BlocksAreJustified == GateSpec => []BlockJustified
<1>1. GateInv => BlockJustified
  BY Times DEF GateInv, GateTypeOK, BlockInv, BlockJustified, is_blocked
<1> QED BY <1>1, GateInvariant, PTL

-----------------------------------------------------------------------------
(* The caps.                                                               *)

(* The publishers a listener waits for, the one in handler() included: the *)
(* test of the cap and the insertion are two steps, and what makes them    *)
(* one is that handler() does not start twice on a listener.               *)
Waiting == {"accepting", "pending"}
Holding(l) == {c \in Conns : At(c) \in Waiting /\ ListenerOf[c] = l}

HoldInv(l) ==
  /\ Within(Holding(l), MAX_PENDING_PUBLISHER_CONNECTIONS)
  /\ \A c, d \in Holding(l) : StreamOf[c] = StreamOf[d] => c = d

GateCapInv ==
  /\ \A l \in GatedListeners : HoldInv(l)
  /\ Within(Entries(m_blocked), MAX_AUTH_REJECT_ENTRIES)

(* A step that starts no wait keeps the caps of the listeners. *)
LEMMA NoNewWait ==
  ASSUME NEW l \in GatedListeners, HoldInv(l),
         \A c \in Conns : At(c)' \in Waiting => At(c) \in Waiting
  PROVE  HoldInv(l)'
<1>1. Holding(l)' \subseteq Holding(l)
  BY DEF Holding
<1>2. Within(Holding(l)', MAX_PENDING_PUBLISHER_CONNECTIONS)
  BY <1>1, GateAssumption, WithinSubset DEF HoldInv
<1> QED BY <1>1, <1>2 DEF HoldInv

(* A poll, an answer, an end, a teardown and the clock start none. *)
LEMMA WaitEnds ==
  ASSUME GateInv,
         \/ \E c \in Conns : \/ FirstPoll(c) \/ DrivePending(c)
                             \/ Handshake(c) \/ Leave(c)
                             \/ \E r \in Answers : Answer(c, r)
         \/ \E l \in Listeners : Uninit(l) \/ Reap(l)
         \/ Tick
  PROVE  \A c \in Conns : At(c)' \in Waiting => At(c) \in Waiting
<1>1. /\ pub = [c \in Conns |-> pub[c]]
      /\ \A c \in Conns : pub[c] \in Publisher
  BY Parts DEF ConnInv
<1>2. CASE \E c \in Conns : FirstPoll(c) \/ DrivePending(c)
  <2>1. PICK c \in Conns : FirstPoll(c) \/ DrivePending(c)
    BY <1>2
  <2>2. At(c) \in Waiting /\ \A d \in Conns : d # c => pub'[d] = pub[d]
    BY <1>1, <2>1 DEF FirstPoll, DrivePending, Poll, Close, Waiting
  <2> QED BY <2>2 DEF At
<1>3. CASE \E c \in Conns : Handshake(c)
  BY <1>1, <1>3 DEF Handshake, At, Waiting, Publisher
<1>4. CASE \E c \in Conns : Leave(c)
  BY <1>1, <1>4 DEF Leave, Close, Closed, At, Waiting
<1>5. CASE \E c \in Conns : \E r \in Answers : Answer(c, r)
  <2>1. PICK c \in Conns, r \in Answers : Answer(c, r)
    BY <1>5
  <2>2. pub'[c].at = pub[c].at /\ \A d \in Conns : d # c => pub'[d] = pub[d]
    BY <1>1, <2>1 DEF Answer, Publisher
  <2> QED BY <2>2 DEF At
<1>6. CASE \E l \in Listeners : Uninit(l) \/ Reap(l)
  <2>1. \A c \in Conns : pub'[c] = Closed \/ pub'[c] = pub[c]
    BY <1>6 DEF Uninit, Reap
  <2> QED BY <2>1 DEF At, Waiting, Closed
<1>7. CASE Tick
  <2>1. \A c \in Conns : Older(c).at = pub[c].at
    BY <1>1 DEF Older, Publisher
  <2> QED BY <1>7, <2>1 DEF Tick, At
<1> QED BY <1>2, <1>3, <1>4, <1>5, <1>6, <1>7

(* handler() puts one more into the list only where it has seen room and   *)
(* no other request for the stream.                                        *)
LEMMA AcceptHold ==
  ASSUME GateInv, NEW c \in Conns, Accept(c), NEW l \in GatedListeners,
         HoldInv(l)
  PROVE  HoldInv(l)'
<1>1. /\ pub = [d \in Conns |-> pub[d]]
      /\ \A d \in Conns : pub[d] \in Publisher
  BY Parts DEF ConnInv
<1>2. CASE Close(c)
  <2>1. \A d \in Conns : At(d)' \in Waiting => At(d) \in Waiting
    BY <1>1, <1>2 DEF Close, Closed, At, Waiting
  <2> QED BY <2>1, NoNewWait
<1>3. CASE ~Close(c)
  <2>1. /\ MayHold(c) /\ ~InHandler(ListenerOf[c])
        /\ \A d \in Conns : d # c => pub'[d] = pub[d]
    BY <1>1, <1>3 DEF Accept
  <2>2. CASE ListenerOf[c] # l
    <3>1. Holding(l)' = Holding(l)
      BY <2>1, <2>2 DEF Holding, At
    <3> QED BY <3>1 DEF HoldInv
  <2>3. CASE ListenerOf[c] = l
    <3>1. Holding(l) = Pending(l)
      BY <2>1, <2>3 DEF Holding, Pending, InHandler, Waiting
    <3>2. /\ Cardinality(Holding(l)) < MAX_PENDING_PUBLISHER_CONNECTIONS
          /\ \A d \in Holding(l) : StreamOf[d] # StreamOf[c]
      BY <2>1, <2>3, <3>1 DEF MayHold, Gated
    <3>3. Holding(l)' \subseteq Holding(l) \cup {c}
      BY <2>1 DEF Holding, At
    <3>4. Within(Holding(l)', MAX_PENDING_PUBLISHER_CONNECTIONS)
      BY <3>2, <3>3, GateAssumption, WithinAdd DEF HoldInv, Within
    <3>5. \A d, e \in Holding(l)' : StreamOf[d] = StreamOf[e] => d = e
      BY <3>2, <3>3 DEF HoldInv
    <3> QED BY <3>4, <3>5 DEF HoldInv
  <2> QED BY <2>2, <2>3
<1> QED BY <1>2, <1>3

(* The reject cache: a full map gives up an entry for the new one, since a *)
(* map that is full has one closest to expiring.                           *)
LEMMA RecordCap ==
  ASSUME CacheInv, Within(Entries(m_blocked), MAX_AUTH_REJECT_ENTRIES),
         NEW s \in Sids, record_failure(s)
  PROVE  Within(Entries(m_blocked)', MAX_AUTH_REJECT_ENTRIES)
<1> DEFINE b == Sweep
           cap == MAX_AUTH_REJECT_ENTRIES
<1>1. cap \in Nat /\ cap > 0
  BY GateAssumption
<1>2. /\ b \in [Sids -> NoTime..m_ttl]
      /\ \A t \in Sids : b[t] = m_blocked[t] \/ b[t] = NoTime
  BY Times DEF Sweep, CacheInv
<1>3. Within(Entries(b), cap)
  <2>1. Entries(b) \subseteq Entries(m_blocked)
    BY <1>2 DEF Entries
  <2> QED BY <1>1, <2>1, WithinSubset
<1>4. CASE /\ Victims(b, s) = {}
           /\ m_blocked' = [b EXCEPT ![s] = m_ttl]
  <2>1. Entries(m_blocked)' \subseteq Entries(b) \cup {s}
    BY <1>2, <1>4 DEF Entries
  <2>2. s \in Entries(b) \/ Cardinality(Entries(b)) < cap
    <3> SUFFICES ASSUME s \notin Entries(b), ~(Cardinality(Entries(b)) < cap)
                 PROVE  FALSE
      OBVIOUS
    <3>1. Entries(b) # {}
      BY <1>1, FS_EmptySet
    <3>2. \A v \in Entries(b) : b[v] \in Int /\ NoTime <= b[v]
      BY <1>2, Times DEF Entries
    <3>3. \E v \in Entries(b) : \A w \in Entries(b) : b[v] <= b[w]
      <4> HIDE DEF b
      <4> QED BY <3>1, <3>2, Times, LeastExists
    <3> QED BY <1>4, <3>3 DEF Victims
  <2> HIDE DEF b, cap
  <2>3. IsFiniteSet(Entries(b)) /\ Cardinality(Entries(b)) <= cap
    BY <1>3 DEF Within
  <2>4. Within(Entries(m_blocked)', cap)
    BY <1>1, <2>1, <2>2, <2>3, WithinAdd
  <2> QED BY <2>4 DEF cap
<1>5. CASE \E v \in Victims(b, s) :
             m_blocked' = [b EXCEPT ![v] = NoTime, ![s] = m_ttl]
  <2>1. PICK v \in Victims(b, s) :
          m_blocked' = [b EXCEPT ![v] = NoTime, ![s] = m_ttl]
    BY <1>5
  <2>2. v \in Entries(b)
    BY DEF Victims
  <2>3. Entries(m_blocked)' \subseteq (Entries(b) \ {v}) \cup {s}
    BY <1>2, <2>1, <2>2 DEF Entries
  <2> HIDE DEF b, cap
  <2>4. Within(Entries(m_blocked)', cap)
    BY <1>1, <1>3, <2>2, <2>3, WithinReplace
  <2> QED BY <2>4 DEF cap
<1> QED BY <1>4, <1>5 DEF record_failure

(* Every step keeps the caps. *)
LEMMA GateCapStep == GateInv /\ GateCapInv /\ [GateNext]_gateVars => GateCapInv'
<1> SUFFICES ASSUME GateInv, GateCapInv, [GateNext]_gateVars PROVE GateCapInv'
  OBVIOUS
<1>1. ASSUME NEW l \in GatedListeners PROVE HoldInv(l)'
  <2>1. HoldInv(l)
    BY DEF GateCapInv
  <2>2. CASE \E c \in Conns : Accept(c)
    BY <2>1, <2>2, AcceptHold
  <2>3. CASE UNCHANGED gateVars
    BY <2>1, <2>3 DEF gateVars, HoldInv, Holding, At
  <2>4. CASE GateNext /\ ~\E c \in Conns : Accept(c)
    <3>1. \A c \in Conns : At(c)' \in Waiting => At(c) \in Waiting
      BY <2>4, WaitEnds DEF GateNext
    <3> QED BY <2>1, <3>1, NoNewWait
  <2> QED BY <2>2, <2>3, <2>4
<1>2. Within(Entries(m_blocked)', MAX_AUTH_REJECT_ENTRIES)
  <2>1. CacheInv /\ Within(Entries(m_blocked), MAX_AUTH_REJECT_ENTRIES)
    BY Parts DEF GateCapInv
  <2>2. CASE m_blocked' = m_blocked
    BY <2>1, <2>2
  <2>3. CASE \E s \in Sids : record_failure(s)
    BY <2>1, <2>3, RecordCap
  <2>4. CASE Tick
    <3>1. Entries(m_blocked)' \subseteq Entries(m_blocked)
      BY <2>1, <2>4, Times DEF Tick, Entries, Left, CacheInv
    <3> QED BY <2>1, <3>1, GateAssumption, WithinSubset
  <2>5. CASE \E c \in Conns : FirstPoll(c) \/ DrivePending(c)
    <3>1. PICK c \in Conns : Poll(c)
      BY <2>5 DEF FirstPoll, DrivePending
    <3>2. m_blocked' = m_blocked \/ record_failure(SidOf[c])
      BY <3>1 DEF Poll
    <3> QED BY <2>2, <2>3, <3>2, GateAssumption
  <2> QED BY <2>2, <2>4, <2>5
          DEF GateNext, gateVars, Handshake, Accept, Answer, Leave, Uninit, Reap
<1> QED BY <1>1, <1>2 DEF GateCapInv

(* What unauthorised callers can take up is bounded, for any caps and any  *)
(* number of callers: a listener holds no more than its cap and one        *)
(* request per stream, although the cap is tested before the insertion,    *)
(* and the reject cache stays within its own.                              *)
THEOREM GateCapsHold == GateSpec => []GateBounded
<1>1. GateInit => GateCapInv
  <2> SUFFICES ASSUME GateInit PROVE GateCapInv
    OBVIOUS
  <2>1. Entries(m_blocked) = {} /\ \A l \in GatedListeners : Holding(l) = {}
    BY DEF GateInit, Entries, Holding, Waiting, At, Closed
  <2> QED BY <2>1, WithinEmpty, GateAssumption DEF GateCapInv, HoldInv
<1>2. GateCapInv => GateBounded
  <2> SUFFICES ASSUME GateCapInv PROVE GateBounded
    OBVIOUS
  <2>1. ASSUME NEW l \in GatedListeners
        PROVE  /\ Cardinality(Pending(l)) <= MAX_PENDING_PUBLISHER_CONNECTIONS
               /\ \A c, d \in Pending(l) : StreamOf[c] = StreamOf[d] => c = d
    <3>1. HoldInv(l) /\ Pending(l) \subseteq Holding(l)
      BY DEF GateCapInv, Pending, Holding, Waiting
    <3>2. Within(Pending(l), MAX_PENDING_PUBLISHER_CONNECTIONS)
      BY <3>1, GateAssumption, WithinSubset DEF HoldInv
    <3> QED BY <3>1, <3>2 DEF HoldInv, Within
  <2> QED BY <2>1 DEF GateCapInv, GateBounded, Within
<1> QED BY <1>1, <1>2, GateInvariant, GateCapStep, PTL DEF GateSpec

-----------------------------------------------------------------------------
(* The player-key gate.                                                     *)

KeyInv == KeyTypeOK /\ CachedPermission /\ DrainInFlight

(* The times of the module. *)
LEMMA KeyTimes ==
  /\ NoKeyTime = -1
  /\ m_player_key_cache_duration \in Nat /\ m_player_key_cache_duration > 0
  /\ HoldTime \in Nat /\ HoldTime > 0
  /\ Absent \in KeyEntry /\ Absent.is_valid = FALSE
<1>1. /\ NoKeyTime = -1
      /\ m_player_key_cache_duration \in Nat /\ m_player_key_cache_duration > 0
      /\ HoldTime \in Nat /\ HoldTime > 0
  BY KeyAssumption DEF NoKeyTime
<1>2. NoKeyTime \in NoKeyTime..m_player_key_cache_duration
  BY <1>1
<1> QED BY <1>1, <1>2 DEF Absent, KeyEntry

(* A map that has lost some entries of another one. *)
Fewer(n, m) ==
  /\ n \in [PlayerKeys -> KeyEntry]
  /\ \A k \in PlayerKeys : n[k] = m[k] \/ n[k] = Absent

(* Losing entries does not hurt. *)
LEMMA FewerPermission ==
  ASSUME KeyInv, Fewer(m_player_key_cache', m_player_key_cache), okLeft' = okLeft
  PROVE  /\ m_player_key_cache' \in [PlayerKeys -> KeyEntry]
         /\ CachedPermission'
  BY KeyTimes DEF KeyInv, CachedPermission, Fewer

(* A sweep loses entries. *)
LEMMA SweptFewer ==
  ASSUME NEW m \in [PlayerKeys -> KeyEntry]
  PROVE  Fewer(Swept(m), m)
  BY KeyTimes DEF Fewer, Swept

(* What the webhook's answer becomes. *)
LEMMA EntryForType ==
  ASSUME NEW r \in {"ok", "refused"}
  PROVE  /\ EntryFor(r) \in KeyEntry
         /\ EntryFor(r).is_valid <=> r = "ok"
         /\ r = "ok" => EntryFor(r).left = m_player_key_cache_duration
<1>1. m_player_key_cache_duration \div 4 \in 0..m_player_key_cache_duration
  BY KeyTimes
<1>2. CASE r = "ok"
  <2>1. EntryFor(r) = [is_valid |-> TRUE, left |-> m_player_key_cache_duration]
    BY <1>2 DEF EntryFor
  <2>2. m_player_key_cache_duration \in NoKeyTime..m_player_key_cache_duration
    BY KeyTimes
  <2>3. EntryFor(r) \in KeyEntry
    BY <2>1, <2>2 DEF KeyEntry
  <2>4. /\ EntryFor(r).is_valid
        /\ EntryFor(r).left = m_player_key_cache_duration
    BY <2>1
  <2> QED BY <1>2, <2>3, <2>4
<1>3. CASE r # "ok"
  BY <1>1, <1>3, KeyTimes DEF EntryFor, KeyEntry
<1> QED BY <1>2, <1>3

(* An insertion puts the new entry in and loses others at most. *)
LEMMA InsertedFewer ==
  ASSUME NEW m \in [PlayerKeys -> KeyEntry], NEW k \in PlayerKeys, NEW e \in KeyEntry,
         NEW n \in Inserted(m, k, e)
  PROVE  /\ n \in [PlayerKeys -> KeyEntry] /\ n[k] = e
         /\ \A j \in PlayerKeys : j # k => n[j] = m[j] \/ n[j] = Absent
<1>1. /\ Swept(m) \in [PlayerKeys -> KeyEntry]
      /\ \A j \in PlayerKeys : Swept(m)[j] = m[j] \/ Swept(m)[j] = Absent
  BY SweptFewer DEF Fewer
<1>2. CASE n = [m EXCEPT ![k] = e]
  BY <1>2
<1>3. CASE n = [Swept(m) EXCEPT ![k] = e]
  BY <1>1, <1>3
<1>4. CASE \E v \in Soonest(Swept(m)) :
             n = [Swept(m) EXCEPT ![v] = Absent, ![k] = e]
  <2>1. PICK v \in Soonest(Swept(m)) :
          n = [Swept(m) EXCEPT ![v] = Absent, ![k] = e]
    BY <1>4
  <2>2. v \in PlayerKeys
    BY DEF Soonest, KeyEntries
  <2> QED BY <1>1, <2>1, <2>2, KeyTimes
<1> QED BY <1>2, <1>3, <1>4 DEF Inserted

(* The gate starts empty. *)
LEMMA KeyInitInv == KeyInit => KeyInv
<1> SUFFICES ASSUME KeyInit PROVE KeyInv
  OBVIOUS
<1>1. /\ NoKeyTime \in NoKeyTime..HoldTime
      /\ NoKeyTime \in NoKeyTime..m_player_key_cache_duration
  BY KeyTimes
<1>2. KeyTypeOK
  BY <1>1, KeyTimes DEF KeyInit, KeyTypeOK
<1>3. CachedPermission
  BY KeyTimes DEF KeyInit, CachedPermission
<1>4. DrainInFlight
  BY DEF KeyInit, DrainInFlight
<1> QED BY <1>2, <1>3, <1>4 DEF KeyInv

(* The drain is where a permission comes from. *)
LEMMA DrainInv ==
  ASSUME KeyInv, NEW k \in PlayerKeys, DrainOne(k)
  PROVE  KeyInv'
<1> USE KeyTimes
<1>1. KeyTypeOK /\ CachedPermission /\ DrainInFlight
  BY DEF KeyInv
<1>2. todo' \subseteq PlayerKeys
  BY <1>1 DEF KeyTypeOK, DrainOne
<1>3. CASE validation[k] = "waiting"
  BY <1>1, <1>2, <1>3 DEF KeyInv, KeyTypeOK, CachedPermission, DrainInFlight,
                          InFlight, DrainOne
<1>4. CASE validation[k] \in {"ok", "refused"}
  <2> DEFINE m == m_player_key_cache
             e == EntryFor(validation[k])
  <2>1. /\ e \in KeyEntry /\ (e.is_valid <=> validation[k] = "ok")
        /\ validation[k] = "ok" => e.left = m_player_key_cache_duration
    BY <1>4, EntryForType
  <2>2. m' \in Inserted(m, k, e)
    BY <1>4 DEF DrainOne
  <2>3. m \in [PlayerKeys -> KeyEntry]
    BY <1>1 DEF KeyTypeOK
  <2>4. /\ m' \in [PlayerKeys -> KeyEntry] /\ m'[k] = e
        /\ \A j \in PlayerKeys : j # k => m'[j] = m[j] \/ m'[j] = Absent
    <3> HIDE DEF m, e
    <3> QED BY <2>1, <2>2, <2>3, InsertedFewer
  <2>5. /\ okLeft \in [PlayerKeys -> NoKeyTime..m_player_key_cache_duration]
        /\ okLeft' = [okLeft EXCEPT ![k] =
             IF validation[k] = "ok" THEN m_player_key_cache_duration
             ELSE NoKeyTime]
    BY <1>1, <1>4 DEF KeyTypeOK, DrainOne
  <2>6. okLeft' \in [PlayerKeys -> NoKeyTime..m_player_key_cache_duration]
    BY <2>5
  <2>7. CachedPermission'
    <3> SUFFICES ASSUME NEW j \in PlayerKeys, m'[j].is_valid, m'[j].left > 0
                 PROVE  okLeft'[j] >= m'[j].left
      BY DEF CachedPermission
    <3>1. CASE j = k
      <4>1. validation[k] = "ok" /\ m'[j].left = m_player_key_cache_duration
        BY <2>1, <2>4, <3>1
      <4>2. okLeft'[j] = m_player_key_cache_duration
        BY <2>5, <3>1, <4>1
      <4> QED BY <4>1, <4>2
    <3>2. CASE j # k
      <4>1. m'[j] = m[j] /\ okLeft'[j] = okLeft[j]
        BY <2>4, <2>5, <3>2
      <4> QED BY <1>1, <4>1 DEF CachedPermission
    <3> QED BY <3>1, <3>2
  <2>8. KeyTypeOK'
    BY <1>1, <1>2, <1>4, <2>4, <2>6 DEF KeyTypeOK, DrainOne
  <2>9. DrainInFlight'
    BY <1>1, <1>4 DEF KeyTypeOK, DrainInFlight, InFlight, DrainOne
  <2> QED BY <2>7, <2>8, <2>9 DEF KeyInv
<1>5. validation[k] \in {"waiting", "ok", "refused"}
  BY <1>1 DEF KeyTypeOK, DrainInFlight, InFlight, DrainOne
<1> QED BY <1>3, <1>4, <1>5

(* Time takes from the entry what it takes from the permission. *)
LEMMA ClockInv ==
  ASSUME KeyInv, KeyTick
  PROVE  KeyInv'
<1> USE KeyTimes
<1>1. KeyTypeOK /\ CachedPermission /\ DrainInFlight
  BY DEF KeyInv
<1>2. /\ m_player_key_cache \in [PlayerKeys -> KeyEntry]
      /\ okLeft \in [PlayerKeys -> NoKeyTime..m_player_key_cache_duration]
      /\ deadline \in [PlayerConns -> NoKeyTime..HoldTime]
  BY <1>1 DEF KeyTypeOK
<1>3. /\ deadline' \in [PlayerConns -> NoKeyTime..HoldTime]
      /\ okLeft' \in [PlayerKeys -> NoKeyTime..m_player_key_cache_duration]
  BY <1>2 DEF KeyTick, PlayerLeft
<1>4. ASSUME NEW k \in PlayerKeys
      PROVE  /\ m_player_key_cache'[k] \in KeyEntry
             /\ m_player_key_cache'[k].is_valid = m_player_key_cache[k].is_valid
             /\ m_player_key_cache'[k].left = PlayerLeft(m_player_key_cache[k].left)
             /\ okLeft'[k] = PlayerLeft(okLeft[k])
             /\ m_player_key_cache[k].left \in NoKeyTime..m_player_key_cache_duration
             /\ okLeft[k] \in NoKeyTime..m_player_key_cache_duration
  <2>1. m_player_key_cache[k] \in KeyEntry
    BY <1>2
  <2>2. m_player_key_cache[k].left \in NoKeyTime..m_player_key_cache_duration
    BY <2>1 DEF KeyEntry
  <2>3. PlayerLeft(m_player_key_cache[k].left) \in NoKeyTime..m_player_key_cache_duration
    BY <2>2 DEF PlayerLeft
  <2>4. m_player_key_cache'[k] = [m_player_key_cache[k] EXCEPT
                                    !.left = PlayerLeft(m_player_key_cache[k].left)]
    BY DEF KeyTick
  <2> QED BY <1>2, <2>1, <2>2, <2>3, <2>4 DEF KeyTick, KeyEntry
<1>5. m_player_key_cache' \in [PlayerKeys -> KeyEntry]
  BY <1>4 DEF KeyTick
<1>6. CachedPermission'
  BY <1>1, <1>4 DEF CachedPermission, PlayerLeft
<1>7. KeyTypeOK'
  BY <1>1, <1>3, <1>5 DEF KeyTypeOK, KeyTick
<1>8. DrainInFlight'
  BY <1>1 DEF DrainInFlight, InFlight, KeyTick
<1> QED BY <1>6, <1>7, <1>8 DEF KeyInv

(* handler() only erases, and the webhook's answers wait for the drain. *)
LEMMA HandlerInv ==
  ASSUME KeyInv,
         \/ \E c \in PlayerConns : Refuse(c) \/ CacheHit(c) \/ CacheMiss(c) \/ LeavePlayer(c)
         \/ \E k \in PlayerKeys : \E r \in {"ok", "refused"} : KeyAnswer(k, r)
  PROVE  KeyInv'
<1> USE KeyTimes
<1>1. KeyTypeOK /\ CachedPermission /\ DrainInFlight
  BY DEF KeyInv
<1>2. CASE \E c \in PlayerConns : Refuse(c) \/ CacheHit(c) \/ LeavePlayer(c)
  BY <1>1, <1>2 DEF KeyInv, KeyTypeOK, CachedPermission, DrainInFlight,
                    InFlight, Refuse, CacheHit, LeavePlayer
<1>3. CASE \E c \in PlayerConns : CacheMiss(c)
  <2>1. PICK c \in PlayerConns : CacheMiss(c)
    BY <1>3
  <2>2. KeyOf[c] \in PlayerKeys
    BY KeyAssumption
  <2>3. Fewer(m_player_key_cache', m_player_key_cache)
    BY <1>1, <2>1, <2>2 DEF Fewer, KeyTypeOK, CacheMiss
  <2>4. m_player_key_cache' \in [PlayerKeys -> KeyEntry] /\ CachedPermission'
    BY <2>1, <2>3, FewerPermission DEF CacheMiss
  <2>5. KeyTypeOK'
    <3>1. HoldTime \in NoKeyTime..HoldTime
      OBVIOUS
    <3> QED BY <1>1, <2>1, <2>4, <3>1 DEF KeyTypeOK, CacheMiss
  <2>6. DrainInFlight'
    BY <1>1, <2>1 DEF DrainInFlight, CacheMiss, WorkerFree
  <2> QED BY <2>4, <2>5, <2>6 DEF KeyInv
<1>4. CASE \E k \in PlayerKeys : \E r \in {"ok", "refused"} : KeyAnswer(k, r)
  BY <1>1, <1>4 DEF KeyInv, KeyTypeOK, CachedPermission, DrainInFlight,
                    InFlight, KeyAnswer
<1> QED BY <1>2, <1>3, <1>4

(* The other steps of the worker and the teardown. *)
LEMMA WorkerInv ==
  ASSUME KeyInv, TickBegin \/ Drive \/ ReloadListener \/ DropHeld
  PROVE  KeyInv'
<1> USE KeyTimes
<1>1. KeyTypeOK /\ CachedPermission /\ DrainInFlight
  BY DEF KeyInv
<1>2. CASE TickBegin
  <2>1. Fewer(m_player_key_cache', m_player_key_cache)
    BY <1>1, <1>2, SweptFewer DEF Fewer, KeyTypeOK, TickBegin
  <2>2. m_player_key_cache' \in [PlayerKeys -> KeyEntry] /\ CachedPermission'
    BY <1>2, <2>1, FewerPermission DEF TickBegin
  <2>3. KeyTypeOK'
    BY <1>1, <1>2, <2>2 DEF KeyTypeOK, TickBegin, InFlight
  <2>4. DrainInFlight'
    BY <1>1, <1>2 DEF DrainInFlight, InFlight, TickBegin, WorkerFree
  <2> QED BY <2>2, <2>3, <2>4 DEF KeyInv
<1>3. CASE Drive
  <2>1. conn' \in [PlayerConns -> {"none", "held", "admitted", "timedout"}]
    BY <1>1, <1>3 DEF KeyTypeOK, Drive
  <2>2. deadline' \in [PlayerConns -> NoKeyTime..HoldTime]
    <3>1. NoKeyTime \in NoKeyTime..HoldTime
      OBVIOUS
    <3> QED BY <1>1, <1>3, <3>1 DEF KeyTypeOK, Drive
  <2> QED BY <1>1, <1>3, <2>1, <2>2
          DEF KeyInv, KeyTypeOK, CachedPermission, DrainInFlight, InFlight, Drive
<1>4. CASE ReloadListener
  BY <1>1, <1>4 DEF KeyInv, KeyTypeOK, CachedPermission, DrainInFlight,
                    InFlight, ReloadListener
<1>5. CASE DropHeld
  <2>1. Fewer(m_player_key_cache', m_player_key_cache)
    BY <1>5 DEF Fewer, DropHeld
  <2>2. m_player_key_cache' \in [PlayerKeys -> KeyEntry] /\ CachedPermission'
    BY <1>5, <2>1, FewerPermission DEF DropHeld
  <2>3. KeyTypeOK'
    BY <1>1, <1>5, <2>2 DEF KeyTypeOK, DropHeld
  <2>4. DrainInFlight'
    BY <1>1, <1>5 DEF DrainInFlight, DropHeld
  <2> QED BY <2>2, <2>3, <2>4 DEF KeyInv
<1> QED BY <1>2, <1>3, <1>4, <1>5

(* Every step keeps the invariant. *)
LEMMA KeyStepInv == KeyInv /\ [KeyNext]_keyVars => KeyInv'
<1> SUFFICES ASSUME KeyInv, [KeyNext]_keyVars PROVE KeyInv'
  OBVIOUS
<1>1. CASE \E k \in PlayerKeys : DrainOne(k)
  BY <1>1, DrainInv
<1>2. CASE KeyTick
  BY <1>2, ClockInv
<1>3. CASE \/ \E c \in PlayerConns :
                Refuse(c) \/ CacheHit(c) \/ CacheMiss(c) \/ LeavePlayer(c)
           \/ \E k \in PlayerKeys : \E r \in {"ok", "refused"} : KeyAnswer(k, r)
  BY <1>3, HandlerInv
<1>4. CASE TickBegin \/ Drive \/ ReloadListener \/ DropHeld
  BY <1>4, WorkerInv
<1>5. CASE UNCHANGED keyVars
  BY <1>5 DEF keyVars, KeyInv, KeyTypeOK, CachedPermission, DrainInFlight,
              InFlight
<1> QED BY <1>1, <1>2, <1>3, <1>4, <1>5 DEF KeyNext

(* Only a cache hit and the drive admit, and both look for a live entry. *)
LEMMA AdmitStep == KeyInv /\ [KeyNext]_keyVars => [Permitted]_keyVars
<1> SUFFICES ASSUME KeyInv, KeyNext, NEW c \in PlayerConns,
                    conn[c] # "admitted", conn'[c] = "admitted"
             PROVE  okLeft[KeyOf[c]] > 0
  BY DEF Permitted
<1>1. KeyTypeOK /\ CachedPermission /\ KeyOf[c] \in PlayerKeys
  BY KeyAssumption DEF KeyInv
<1>2. Live(KeyOf[c]) /\ m_player_key_cache[KeyOf[c]].is_valid
  <2>1. CASE \E d \in PlayerConns : CacheHit(d)
    BY <1>1, <2>1 DEF KeyTypeOK, CacheHit
  <2>2. CASE Drive
    <3>1. PICK to \in [Held -> {"none", "held", "admitted", "timedout"}] :
            /\ \A d \in Held : to[d] \in Driven(d)
            /\ conn' = [d \in PlayerConns |-> IF d \in Held THEN to[d] ELSE conn[d]]
      BY <2>2 DEF Drive
    <3>2. c \in Held /\ "admitted" \in Driven(c)
      BY <3>1
    <3> QED BY <3>2 DEF Driven
  <2>3. ~(\E d \in PlayerConns : Refuse(d) \/ CacheMiss(d) \/ LeavePlayer(d))
    BY <1>1 DEF KeyTypeOK, Refuse, CacheMiss, LeavePlayer
  <2>4. conn' # conn
    OBVIOUS
  <2> QED BY <2>1, <2>2, <2>3, <2>4
          DEF KeyNext, KeyAnswer, DrainOne, TickBegin, ReloadListener, DropHeld, KeyTick
<1>3. /\ m_player_key_cache[KeyOf[c]].left \in Int
      /\ okLeft[KeyOf[c]] \in Int
  BY <1>1, KeyTimes DEF KeyTypeOK, KeyEntry
<1> QED BY <1>1, <1>2, <1>3 DEF Live, CachedPermission

(* The invariant holds in every reachable state. *)
THEOREM KeyInvariant == KeySpec => []KeyInv
  BY KeyInitInv, KeyStepInv, PTL DEF KeySpec

(* The variables of the gate stay in their types. *)
THEOREM KeyTypeCorrect == KeySpec => []KeyTypeOK
<1>1. KeyInv => KeyTypeOK
  BY DEF KeyInv
<1> QED BY <1>1, KeyInvariant, PTL

(* A cached permission never outlives the answer it was made from,         *)
(* whatever is evicted, swept or overwritten meanwhile.                    *)
THEOREM CacheNeverExceeds == KeySpec => []CachedPermission
<1>1. KeyInv => CachedPermission
  BY DEF KeyInv
<1> QED BY <1>1, KeyInvariant, PTL

(* No player is admitted without a permission of the webhook that is still *)
(* in force, for any times and any number of players and keys.             *)
THEOREM AdmissionPermitted == KeySpec => AdmittedPermitted
  BY KeyInvariant, AdmitStep, PTL DEF KeySpec, AdmittedPermitted

-----------------------------------------------------------------------------
(* No time-out over a permission.                                          *)

(* The other direction of CachedPermission: an entry for a key whose last  *)
(* answer is still in force is that answer, with the time it has left.     *)
PermissionCached ==
  \A k \in PlayerKeys :
    okLeft[k] > 0 /\ k \in KeyEntries(m_player_key_cache)
      => m_player_key_cache[k].is_valid /\ m_player_key_cache[k].left = okLeft[k]

(* Losing entries keeps it. *)
LEMMA FewerCached ==
  ASSUME PermissionCached, Fewer(m_player_key_cache', m_player_key_cache),
         okLeft' = okLeft
  PROVE  PermissionCached'
  BY DEF PermissionCached, Fewer, KeyEntries, Absent

(* Every step keeps it: the drain writes both, the clock runs both down.   *)
LEMMA CachedStep ==
  KeyInv /\ PermissionCached /\ [KeyNext]_keyVars => PermissionCached'
<1> SUFFICES ASSUME KeyInv, PermissionCached, [KeyNext]_keyVars
             PROVE  PermissionCached'
  OBVIOUS
<1> USE KeyTimes
<1>1. KeyTypeOK /\ m_player_key_cache \in [PlayerKeys -> KeyEntry]
      /\ okLeft \in [PlayerKeys -> NoKeyTime..m_player_key_cache_duration]
  BY DEF KeyInv, KeyTypeOK
<1>2. CASE m_player_key_cache' = m_player_key_cache /\ okLeft' = okLeft
  BY <1>2 DEF PermissionCached, KeyEntries
<1>3. ASSUME NEW k \in PlayerKeys, DrainOne(k), validation[k] # "waiting"
      PROVE  PermissionCached'
  <2> DEFINE m == m_player_key_cache
             e == EntryFor(validation[k])
  <2>1. validation[k] \in {"ok", "refused"}
    BY <1>1, <1>3 DEF KeyInv, KeyTypeOK, DrainInFlight, InFlight, DrainOne
  <2>2. /\ e \in KeyEntry /\ (e.is_valid <=> validation[k] = "ok")
        /\ validation[k] = "ok" => e.left = m_player_key_cache_duration
    BY <2>1, EntryForType
  <2>3. /\ m' \in [PlayerKeys -> KeyEntry] /\ m'[k] = e
        /\ \A j \in PlayerKeys : j # k => m'[j] = m[j] \/ m'[j] = Absent
    <3>1. m' \in Inserted(m, k, e)
      BY <1>3 DEF DrainOne
    <3> HIDE DEF m, e
    <3>2. m \in [PlayerKeys -> KeyEntry]
      BY <1>1 DEF m
    <3> QED BY <2>2, <3>1, <3>2, InsertedFewer
  <2>4. okLeft' = [okLeft EXCEPT ![k] =
             IF validation[k] = "ok" THEN m_player_key_cache_duration
             ELSE NoKeyTime]
    BY <1>3 DEF DrainOne
  <2> SUFFICES ASSUME NEW j \in PlayerKeys, okLeft'[j] > 0, m'[j].left # NoKeyTime
               PROVE  m'[j].is_valid /\ m'[j].left = okLeft'[j]
    BY DEF PermissionCached, KeyEntries
  <2>5. CASE j = k
    BY <1>1, <2>2, <2>3, <2>4, <2>5
  <2>6. CASE j # k
    <3>1. m'[j] = m[j] /\ okLeft'[j] = okLeft[j]
      BY <1>1, <2>3, <2>4, <2>6 DEF Absent
    <3> QED BY <3>1 DEF PermissionCached, KeyEntries
  <2> QED BY <2>5, <2>6
<1>4. CASE \E c \in PlayerConns : CacheMiss(c)
  <2>1. PICK c \in PlayerConns : CacheMiss(c)
    BY <1>4
  <2>2. Fewer(m_player_key_cache', m_player_key_cache) /\ okLeft' = okLeft
    BY <1>1, <2>1, KeyAssumption DEF Fewer, CacheMiss
  <2> QED BY <2>2, FewerCached
<1>5. CASE TickBegin
  <2>1. Fewer(m_player_key_cache', m_player_key_cache) /\ okLeft' = okLeft
    BY <1>1, <1>5, SweptFewer DEF Fewer, TickBegin
  <2> QED BY <2>1, FewerCached
<1>6. CASE DropHeld
  <2>1. Fewer(m_player_key_cache', m_player_key_cache) /\ okLeft' = okLeft
    BY <1>6 DEF Fewer, DropHeld
  <2> QED BY <2>1, FewerCached
<1>7. CASE KeyTick
  <2> SUFFICES ASSUME NEW k \in PlayerKeys, okLeft'[k] > 0,
                      m_player_key_cache'[k].left # NoKeyTime
               PROVE  /\ m_player_key_cache'[k].is_valid
                      /\ m_player_key_cache'[k].left = okLeft'[k]
    BY DEF PermissionCached, KeyEntries
  <2>1. m_player_key_cache[k] \in KeyEntry
        /\ okLeft[k] \in NoKeyTime..m_player_key_cache_duration
    BY <1>1
  <2>2. m_player_key_cache'[k] = [m_player_key_cache[k] EXCEPT
                                    !.left = PlayerLeft(m_player_key_cache[k].left)]
        /\ okLeft'[k] = PlayerLeft(okLeft[k])
    BY <1>7 DEF KeyTick
  <2>3. /\ m_player_key_cache'[k].is_valid = m_player_key_cache[k].is_valid
        /\ m_player_key_cache'[k].left = PlayerLeft(m_player_key_cache[k].left)
        /\ m_player_key_cache[k].left \in NoKeyTime..m_player_key_cache_duration
    BY <2>1, <2>2 DEF KeyEntry
  <2>4. okLeft[k] > 0 /\ m_player_key_cache[k].left # NoKeyTime
    BY <2>1, <2>2, <2>3 DEF PlayerLeft
  <2>5. m_player_key_cache[k].is_valid /\ m_player_key_cache[k].left = okLeft[k]
    BY <2>4 DEF PermissionCached, KeyEntries
  <2> QED BY <2>2, <2>3, <2>5
<1>8. ASSUME NEW k \in PlayerKeys, DrainOne(k) PROVE PermissionCached'
  <2>1. CASE validation[k] = "waiting"
    BY <1>2, <1>8, <2>1 DEF DrainOne
  <2> QED BY <1>3, <1>8, <2>1
<1> QED BY <1>2, <1>4, <1>5, <1>6, <1>7, <1>8
        DEF KeyNext, keyVars, Refuse, CacheHit, LeavePlayer, KeyAnswer, Drive,
            ReloadListener

(* Only the drive times a player out, and it has looked for a live entry.  *)
(* A permission in force is read before the deadline is, since the drain   *)
(* comes first: no held player is timed out over one.                      *)
THEOREM NoTimeoutOverPermission == KeySpec => TimedOutUnanswered
<1> DEFINE Unanswered ==
      \A c \in PlayerConns :
        conn[c] = "held" /\ conn'[c] = "timedout"
          => ~ /\ okLeft[KeyOf[c]] > 0
               /\ KeyOf[c] \in KeyEntries(m_player_key_cache)
<1>1. KeyInit => PermissionCached
  BY KeyTimes DEF KeyInit, PermissionCached
<1>2. KeyInv /\ PermissionCached /\ [KeyNext]_keyVars => [Unanswered]_keyVars
  <2> SUFFICES ASSUME KeyInv, PermissionCached, KeyNext, NEW c \in PlayerConns,
                      conn[c] = "held", conn'[c] = "timedout",
                      okLeft[KeyOf[c]] > 0,
                      KeyOf[c] \in KeyEntries(m_player_key_cache)
               PROVE  FALSE
    OBVIOUS
  <2>1. KeyTypeOK /\ KeyOf[c] \in PlayerKeys
    BY KeyAssumption DEF KeyInv
  <2>2. Live(KeyOf[c])
    BY <2>1 DEF Live, PermissionCached
  <2>3. ~Drive
    <3> SUFFICES ASSUME Drive PROVE FALSE
      OBVIOUS
    <3>1. PICK to \in [Held -> {"none", "held", "admitted", "timedout"}] :
            /\ \A d \in Held : to[d] \in Driven(d)
            /\ conn' = [d \in PlayerConns |-> IF d \in Held THEN to[d] ELSE conn[d]]
      BY DEF Drive
    <3>2. c \in Held /\ to[c] = "timedout" /\ to[c] \in Driven(c)
      BY <3>1 DEF Held
    <3> QED BY <2>2, <3>2 DEF Driven
  <2>4. ~(\E d \in PlayerConns : Refuse(d) \/ CacheHit(d) \/ CacheMiss(d) \/ LeavePlayer(d))
    BY <2>1 DEF KeyTypeOK, Refuse, CacheHit, CacheMiss, LeavePlayer
  <2>5. conn' # conn
    OBVIOUS
  <2> QED BY <2>3, <2>4, <2>5
          DEF KeyNext, KeyAnswer, DrainOne, TickBegin, ReloadListener, DropHeld, KeyTick
<1> QED BY <1>1, <1>2, CachedStep, KeyInvariant, PTL DEF KeySpec, TimedOutUnanswered

-----------------------------------------------------------------------------
(* The caps.                                                               *)

KeyCapInv ==
  /\ Within(Held, MAX_PENDING_PLAYER_CONNECTIONS)
  /\ Within(InFlight, MAX_PENDING_PLAYER_KEY_VALIDATIONS)
  /\ Within(KeyEntries(m_player_key_cache), MAX_PLAYER_KEY_CACHE_ENTRIES)

(* A cache that loses entries stays within its cap. *)
LEMMA FewerWithin ==
  ASSUME NEW m, NEW n, Fewer(n, m),
         Within(KeyEntries(m), MAX_PLAYER_KEY_CACHE_ENTRIES)
  PROVE  Within(KeyEntries(n), MAX_PLAYER_KEY_CACHE_ENTRIES)
<1>1. KeyEntries(n) \subseteq KeyEntries(m)
  BY DEF KeyEntries, Fewer, Absent
<1> QED BY <1>1, KeyAssumption, WithinSubset

(* insert_player_key_cache_locked makes room before it inserts. *)
LEMMA InsertedWithin ==
  ASSUME NEW m \in [PlayerKeys -> KeyEntry], NEW k \in PlayerKeys, NEW e \in KeyEntry,
         NEW n \in Inserted(m, k, e),
         Within(KeyEntries(m), MAX_PLAYER_KEY_CACHE_ENTRIES)
  PROVE  Within(KeyEntries(n), MAX_PLAYER_KEY_CACHE_ENTRIES)
<1> DEFINE s == Swept(m)
           cap == MAX_PLAYER_KEY_CACHE_ENTRIES
<1>1. cap \in Nat
  BY KeyAssumption
<1>2. s \in [PlayerKeys -> KeyEntry] /\ Within(KeyEntries(s), cap)
  BY SweptFewer, FewerWithin DEF Fewer
<1>3. CASE /\ k \in KeyEntries(m) \/ Cardinality(KeyEntries(m)) < cap
           /\ n = [m EXCEPT ![k] = e]
  <2>1. KeyEntries(n) \subseteq KeyEntries(m) \cup {k}
    BY <1>3 DEF KeyEntries
  <2> QED BY <1>1, <1>3, <2>1, WithinAdd DEF Within
<1>4. CASE /\ Cardinality(KeyEntries(s)) < cap
           /\ n = [s EXCEPT ![k] = e]
  <2>1. KeyEntries(n) \subseteq KeyEntries(s) \cup {k}
    BY <1>2, <1>4 DEF KeyEntries
  <2> HIDE DEF s
  <2> QED BY <1>1, <1>2, <1>4, <2>1, WithinAdd DEF Within
<1>5. CASE \E v \in Soonest(s) : n = [s EXCEPT ![v] = Absent, ![k] = e]
  <2>1. PICK v \in Soonest(s) : n = [s EXCEPT ![v] = Absent, ![k] = e]
    BY <1>5
  <2>2. v \in KeyEntries(s)
    BY DEF Soonest
  <2>3. KeyEntries(n) \subseteq (KeyEntries(s) \ {v}) \cup {k}
    BY <1>2, <2>1, <2>2 DEF KeyEntries, Absent
  <2> HIDE DEF s
  <2> QED BY <1>1, <1>2, <2>2, <2>3, WithinReplace
<1> QED BY <1>3, <1>4, <1>5 DEF Inserted

(* Every step keeps the cache within its cap. *)
LEMMA CacheCapStep ==
  ASSUME KeyInv, [KeyNext]_keyVars,
         Within(KeyEntries(m_player_key_cache), MAX_PLAYER_KEY_CACHE_ENTRIES)
  PROVE  Within(KeyEntries(m_player_key_cache)', MAX_PLAYER_KEY_CACHE_ENTRIES)
<1> USE KeyTimes
<1>1. KeyTypeOK /\ m_player_key_cache \in [PlayerKeys -> KeyEntry]
  BY DEF KeyInv, KeyTypeOK
<1>2. CASE m_player_key_cache' = m_player_key_cache
  BY <1>2 DEF KeyEntries
<1>3. CASE Fewer(m_player_key_cache', m_player_key_cache)
  BY <1>3, FewerWithin
<1>4. CASE \E c \in PlayerConns : CacheMiss(c)
  BY <1>1, <1>3, <1>4, KeyAssumption DEF Fewer, CacheMiss
<1>5. CASE TickBegin
  BY <1>1, <1>3, <1>5, SweptFewer DEF Fewer, TickBegin
<1>6. CASE DropHeld
  BY <1>3, <1>6 DEF Fewer, DropHeld
<1>7. CASE KeyTick
  <2>1. ASSUME NEW k \in PlayerKeys
        PROVE  m_player_key_cache'[k].left = NoKeyTime
                 <=> m_player_key_cache[k].left = NoKeyTime
    <3>1. m_player_key_cache[k] \in KeyEntry
      BY <1>1
    <3>2. m_player_key_cache[k].left \in NoKeyTime..m_player_key_cache_duration
      BY <3>1 DEF KeyEntry
    <3>3. m_player_key_cache'[k].left = PlayerLeft(m_player_key_cache[k].left)
      BY <1>7, <3>1 DEF KeyTick, KeyEntry
    <3> QED BY <3>2, <3>3 DEF PlayerLeft
  <2>2. KeyEntries(m_player_key_cache)' = KeyEntries(m_player_key_cache)
    BY <2>1 DEF KeyEntries
  <2> QED BY <2>2
<1>8. ASSUME NEW k \in PlayerKeys, DrainOne(k), validation[k] # "waiting"
      PROVE  Within(KeyEntries(m_player_key_cache)', MAX_PLAYER_KEY_CACHE_ENTRIES)
  <2>1. validation[k] \in {"ok", "refused"}
    BY <1>1, <1>8 DEF KeyInv, KeyTypeOK, DrainInFlight, InFlight, DrainOne
  <2>2. EntryFor(validation[k]) \in KeyEntry
    BY <2>1, EntryForType
  <2>3. m_player_key_cache' \in
          Inserted(m_player_key_cache, k, EntryFor(validation[k]))
    BY <1>8 DEF DrainOne
  <2>4. Within(KeyEntries(m_player_key_cache'), MAX_PLAYER_KEY_CACHE_ENTRIES)
    BY <1>1, <2>2, <2>3, InsertedWithin
  <2> QED BY <2>4 DEF KeyEntries
<1>9. ASSUME NEW k \in PlayerKeys, DrainOne(k), validation[k] = "waiting"
      PROVE  m_player_key_cache' = m_player_key_cache
  BY <1>9 DEF DrainOne
<1> QED BY <1>2, <1>4, <1>5, <1>6, <1>7, <1>8, <1>9
        DEF KeyNext, keyVars, Refuse, CacheHit, LeavePlayer, KeyAnswer, Drive,
            ReloadListener

(* Every step keeps the held sockets within their cap. *)
LEMMA HeldCapStep ==
  ASSUME KeyInv, [KeyNext]_keyVars, Within(Held, MAX_PENDING_PLAYER_CONNECTIONS)
  PROVE  Within(Held', MAX_PENDING_PLAYER_CONNECTIONS)
<1>1. KeyTypeOK /\ conn \in [PlayerConns -> {"none", "held", "admitted", "timedout"}]
  BY DEF KeyInv, KeyTypeOK
<1>2. CASE Held' \subseteq Held
  BY <1>2, KeyAssumption, WithinSubset
<1>3. CASE \E c \in PlayerConns : CacheMiss(c)
  <2>1. PICK c \in PlayerConns : CacheMiss(c)
    BY <1>3
  <2>2. CASE MayHoldPlayer
    <3>1. Held' \subseteq Held \cup {c}
      BY <1>1, <2>1 DEF CacheMiss, Held
    <3> QED BY <2>2, <3>1, KeyAssumption, WithinAdd DEF Within, MayHoldPlayer
  <2>3. CASE ~MayHoldPlayer
    <3>1. Held' \subseteq Held
      BY <1>1, <2>1, <2>3 DEF CacheMiss, Held
    <3> QED BY <1>2, <3>1
  <2> QED BY <2>2, <2>3
<1>4. CASE \E c \in PlayerConns : Refuse(c) \/ CacheHit(c) \/ LeavePlayer(c)
  <2>1. Held' \subseteq Held
    BY <1>1, <1>4 DEF Held, Refuse, CacheHit, LeavePlayer
  <2> QED BY <1>2, <2>1
<1>5. CASE Drive
  <2>1. Held' \subseteq Held
    BY <1>1, <1>5 DEF Held, Drive
  <2> QED BY <1>2, <2>1
<1>6. CASE conn' = conn
  BY <1>6 DEF Held
<1> QED BY <1>3, <1>4, <1>5, <1>6
        DEF KeyNext, keyVars, KeyAnswer, DrainOne, TickBegin, ReloadListener,
            DropHeld, KeyTick

(* Every step keeps the requests in flight within their cap. *)
LEMMA FlightCapStep ==
  ASSUME KeyInv, [KeyNext]_keyVars, Within(InFlight, MAX_PENDING_PLAYER_KEY_VALIDATIONS)
  PROVE  Within(InFlight', MAX_PENDING_PLAYER_KEY_VALIDATIONS)
<1>1. KeyTypeOK /\ validation \in [PlayerKeys -> {"none", "waiting", "ok", "refused"}]
  BY DEF KeyInv, KeyTypeOK
<1>2. CASE InFlight' \subseteq InFlight
  BY <1>2, KeyAssumption, WithinSubset
<1>3. CASE \E c \in PlayerConns : CacheMiss(c)
  <2>1. PICK c \in PlayerConns : CacheMiss(c)
    BY <1>3
  <2>2. CASE MayStart(KeyOf[c])
    <3>1. InFlight' \subseteq InFlight \cup {KeyOf[c]}
      BY <1>1, <2>1 DEF CacheMiss, InFlight
    <3> QED BY <2>2, <3>1, KeyAssumption, WithinAdd DEF Within, MayStart
  <2>3. CASE ~MayStart(KeyOf[c])
    <3>1. InFlight' \subseteq InFlight
      BY <1>1, <2>1, <2>3 DEF CacheMiss, InFlight
    <3> QED BY <1>2, <3>1
  <2> QED BY <2>2, <2>3
<1>4. CASE \E k \in PlayerKeys : \/ \E r \in {"ok", "refused"} : KeyAnswer(k, r)
                                \/ DrainOne(k)
  <2>1. InFlight' \subseteq InFlight
    BY <1>1, <1>4 DEF InFlight, KeyAnswer, DrainOne
  <2> QED BY <1>2, <2>1
<1>5. CASE DropHeld
  <2>1. InFlight' \subseteq InFlight
    BY <1>5 DEF InFlight, DropHeld
  <2> QED BY <1>2, <2>1
<1>6. CASE validation' = validation
  BY <1>6 DEF InFlight
<1> QED BY <1>3, <1>4, <1>5, <1>6
        DEF KeyNext, keyVars, Refuse, CacheHit, LeavePlayer, TickBegin, Drive,
            ReloadListener, KeyTick

(* Sockets held, requests in flight and cached entries stay within their   *)
(* three caps, for any caps, players and keys and in whatever order        *)
(* callers, answers, sweeps and the teardown come.                         *)
THEOREM KeyCapsHold == KeySpec => []KeyGateBounded
<1>1. KeyInit => KeyCapInv
  <2> SUFFICES ASSUME KeyInit PROVE KeyCapInv
    OBVIOUS
  <2>1. Held = {} /\ InFlight = {} /\ KeyEntries(m_player_key_cache) = {}
    BY DEF KeyInit, Held, InFlight, KeyEntries, Absent
  <2> QED BY <2>1, WithinEmpty, KeyAssumption DEF KeyCapInv
<1>2. KeyInv /\ KeyCapInv /\ [KeyNext]_keyVars => KeyCapInv'
  BY CacheCapStep, HeldCapStep, FlightCapStep DEF KeyCapInv
<1>3. KeyCapInv => KeyGateBounded
  BY DEF KeyCapInv, KeyGateBounded, Within
<1> QED BY <1>1, <1>2, <1>3, KeyInvariant, PTL DEF KeySpec

-----------------------------------------------------------------------------
(* The limit on the players of a stream.                                   *)
OneListener == SharedWorker /\ \A k, l \in Ports : k = l

LimitInv == LimitTypeOK /\ AcceptInv

(* The players of any description are finitely many, and a part of them is *)
(* not more than the whole.                                                *)
LEMMA PlayersFinite ==
  ASSUME NEW S, NEW T, S \subseteq T, T \subseteq Players
  PROVE  /\ IsFiniteSet(S) /\ IsFiniteSet(T)
         /\ Cardinality(S) \in Nat /\ Cardinality(T) \in Nat
         /\ Cardinality(S) <= Cardinality(T)
  <1>1. IsFiniteSet(T)
    BY LimitAssumption, FS_Subset
  <1>2. IsFiniteSet(S) /\ Cardinality(S) <= Cardinality(T)
    BY <1>1, FS_Subset
  <1> QED BY <1>1, <1>2, FS_CardinalityType

(* What an accept stores for the stream is an entry of the table. *)
LEMMA StoredEntry ==
  ASSUME LimitTypeOK, NEW p \in Players, NEW t \in 1..KeyTime
  PROVE  /\ Stored(p, t) \in LimitEntry
         /\ Effective(Stored(p, t)) \in Int
  <1>0. PortOf[p] \in Ports /\ OverrideOf[p] \in Int
        /\ KeyTime \in Nat /\ max_players_per_stream \in Int
    BY LimitAssumption
  <1>1. Stored(p, t) \in LimitEntry
    <2>1. CASE OverrideOf[p] = NoOverride
      BY <2>1, <1>0 DEF Stored, LimitTypeOK
    <2>2. CASE OverrideOf[p] # NoOverride
      <3>1. t \in 0..KeyTime
        BY <1>0
      <3> QED BY <2>2, <3>1, <1>0 DEF Stored, LimitEntry
    <2> QED BY <2>1, <2>2
  <1> QED BY <1>0, <1>1 DEF Effective, LimitEntry

LEMMA InitLimitType == LimitInit => LimitTypeOK
  <1> SUFFICES ASSUME LimitInit PROVE LimitTypeOK
    OBVIOUS
  <1>1. NoEntry \in LimitEntry
    BY LimitAssumption DEF NoEntry, LimitEntry, NoOverride
  <1> QED BY <1>1 DEF LimitInit, LimitTypeOK, PlayerPlaces

LEMMA NextLimitType == LimitTypeOK /\ [LimitNext]_limitVars => LimitTypeOK'
  <1> SUFFICES ASSUME LimitTypeOK, [LimitNext]_limitVars PROVE LimitTypeOK'
    OBVIOUS
  <1> USE DEF LimitTypeOK
  <1>1. ASSUME NEW p \in Players, Check(p) PROVE LimitTypeOK'
    <2>1. PICK t \in 1..KeyTime :
            LET e == Stored(p, t)
            IN  /\ m_stream_player_limit_map' =
                     [m_stream_player_limit_map EXCEPT ![PortOf[p]] = e]
                /\ lastStored' = IF OverrideOf[p] = NoOverride THEN lastStored ELSE e
                /\ \/ /\ player' = [player EXCEPT ![p] = "none"]
                      /\ UNCHANGED m_players
                   \/ /\ player' = [player EXCEPT ![p] =
                           IF HasRoom(Effective(e)) THEN "checked" ELSE "refused"]
                      /\ m_players' = IF Effective(e) > 0 THEN Pruned ELSE m_players
      BY <1>1 DEF Check
    <2>2. Stored(p, t) \in LimitEntry
      BY StoredEntry
    <2>3. m_players' \subseteq Players
      BY <2>1 DEF Pruned
    <2>4. player' \in [Players -> PlayerPlaces]
      BY <2>1 DEF PlayerPlaces
    <2> QED BY <2>1, <2>2, <2>3, <2>4
  <1>2. ASSUME NEW p \in Players, Register(p) PROVE LimitTypeOK'
    BY <1>2 DEF Register, PlayerPlaces, Pruned
  <1>3. ASSUME NEW p \in Players, CloseSocket(p) PROVE LimitTypeOK'
    BY <1>3 DEF CloseSocket, PlayerPlaces
  <1>4. ASSUME NEW p \in Players, Destroy(p) PROVE LimitTypeOK'
    BY <1>4 DEF Destroy, PlayerPlaces
  <1>5. CASE List
    BY <1>5 DEF List, Pruned
  <1>6. CASE LimitTick
    <2>1. ASSUME NEW e \in LimitEntry
          PROVE  [e EXCEPT !.left = ViewerLeft(@)] \in LimitEntry
      BY LimitAssumption DEF LimitEntry, ViewerLeft
    <2> QED BY <1>6, <2>1 DEF LimitTick
  <1>7. CASE UNCHANGED limitVars
    BY <1>7 DEF limitVars
  <1> QED BY <1>1, <1>2, <1>3, <1>4, <1>5, <1>6, <1>7 DEF LimitNext

(* Every variable keeps its type, for any number of workers and listeners: *)
(* no limit stored by finish_player_accept outlives its key.               *)
THEOREM LimitTypeCorrect == LimitSpec => []LimitTypeOK
  BY InitLimitType, NextLimitType, PTL DEF LimitSpec

(* The registry never counts a player that has gone, so finish_player_     *)
(* accept refuses for the limit only if that many players are open, for    *)
(* any number of workers and listeners.                                    *)
THEOREM RefusalsAreReal == LimitSpec => RefusedOnlyWhenFull
  <1> DEFINE Refusal ==
        \A p \in Players :
          player[p] # "refused" /\ player'[p] = "refused"
            => Cardinality(Open)
                 >= Effective(m_stream_player_limit_map'[PortOf[p]])
  <1>1. LimitTypeOK /\ [LimitNext]_limitVars => [Refusal]_limitVars
    <2> SUFFICES ASSUME LimitTypeOK, LimitNext, NEW p \in Players,
                        player[p] # "refused", player'[p] = "refused"
                 PROVE  Cardinality(Open)
                          >= Effective(m_stream_player_limit_map'[PortOf[p]])
      BY DEF limitVars
    <2>1. Check(p)
      BY DEF LimitTypeOK, LimitNext, Check, Register, CloseSocket, Destroy, List, LimitTick
    <2>2. PICK t \in 1..KeyTime :
            LET e == Stored(p, t)
            IN  /\ m_stream_player_limit_map' =
                     [m_stream_player_limit_map EXCEPT ![PortOf[p]] = e]
                /\ \/ player' = [player EXCEPT ![p] = "none"]
                   \/ player' = [player EXCEPT ![p] =
                        IF HasRoom(Effective(e)) THEN "checked" ELSE "refused"]
      BY <2>1 DEF Check
    <2>3. ~HasRoom(Effective(Stored(p, t)))
      BY <2>2 DEF LimitTypeOK
    <2>4. Pruned \subseteq Open /\ Open \subseteq Players
      BY DEF Pruned, Open, LimitTypeOK
    <2>5. /\ Cardinality(Pruned) \in Nat /\ Cardinality(Open) \in Nat
          /\ Cardinality(Pruned) <= Cardinality(Open)
      BY <2>4, PlayersFinite
    <2>6. m_stream_player_limit_map'[PortOf[p]] = Stored(p, t)
      BY <2>2, LimitAssumption DEF LimitTypeOK
    <2>7. Effective(Stored(p, t)) \in Int
      BY StoredEntry
    <2> QED BY <2>3, <2>5, <2>6, <2>7 DEF HasRoom
  <1> QED BY <1>1, LimitTypeCorrect, PTL DEF LimitSpec, RefusedOnlyWhenFull

-----------------------------------------------------------------------------
LEMMA InitAccept == LimitInit => AcceptInv
  BY DEF LimitInit, AcceptInv, Open, InAccept

(* While every open player is registered, pruning leaves just those. *)
LEMMA PrunedIsOpen ==
  ASSUME LimitTypeOK, AcceptInv PROVE Pruned = Open
  BY DEF LimitTypeOK, AcceptInv, Pruned, Open

(* With one listener an accept leaves the server's limit in its table. *)
LEMMA CheckStores ==
  ASSUME OneListener, LimitTypeOK, AcceptInv, NEW p \in Players, Check(p)
  PROVE  /\ InAccept = {}
         /\ Open' = Open
         /\ Open \subseteq m_players'
         /\ \A l \in Ports : m_stream_player_limit_map'[l] = lastStored'
         /\ InAccept' \subseteq {p}
         /\ InAccept' # {} => HasRoom(Effective(lastStored'))
  <1>1. PICK t \in 1..KeyTime :
          LET e == Stored(p, t)
          IN  /\ m_stream_player_limit_map' =
                   [m_stream_player_limit_map EXCEPT ![PortOf[p]] = e]
              /\ lastStored' = IF OverrideOf[p] = NoOverride THEN lastStored ELSE e
              /\ \/ /\ player' = [player EXCEPT ![p] = "none"]
                    /\ UNCHANGED m_players
                 \/ /\ player' = [player EXCEPT ![p] =
                         IF HasRoom(Effective(e)) THEN "checked" ELSE "refused"]
                    /\ m_players' = IF Effective(e) > 0 THEN Pruned ELSE m_players
    BY DEF Check
  <1>2. InAccept = {}
    BY DEF Check, OneListener
  <1>3. Open' = Open
    BY <1>1 DEF Open, Check, LimitTypeOK
  <1>4. Open \subseteq m_players'
    BY <1>1, PrunedIsOpen DEF AcceptInv
  <1>5. PortOf[p] \in Ports
    BY LimitAssumption
  <1>6. lastStored' = Stored(p, t)
    BY <1>1, <1>5 DEF Stored, AcceptInv
  <1>7. \A l \in Ports : m_stream_player_limit_map'[l] = lastStored'
    BY <1>1, <1>5, <1>6 DEF OneListener, LimitTypeOK
  <1>8. InAccept' \subseteq {p}
    BY <1>1, <1>2 DEF InAccept, LimitTypeOK
  <1>9. InAccept' # {} => player'[p] = "checked"
    BY <1>8 DEF InAccept
  <1>10. player'[p] = "checked" => HasRoom(Effective(Stored(p, t)))
    BY <1>1 DEF LimitTypeOK
  <1> QED BY <1>2, <1>3, <1>4, <1>6, <1>7, <1>8, <1>9, <1>10

LEMMA NextAccept ==
  ASSUME OneListener
  PROVE  LimitTypeOK /\ AcceptInv /\ [LimitNext]_limitVars => AcceptInv'
  <1> SUFFICES ASSUME LimitTypeOK, AcceptInv, [LimitNext]_limitVars
               PROVE  AcceptInv'
    OBVIOUS
  <1> USE DEF AcceptInv
  <1>1. ASSUME NEW p \in Players, Check(p) PROVE AcceptInv'
    <2>1. InAccept' # {} => HasRoom(Effective(lastStored'))
      BY <1>1, CheckStores
    <2>2. Pruned = Open /\ Open' = Open
      BY <1>1, PrunedIsOpen, CheckStores
    <2>3. Effective(lastStored') > 0 /\ InAccept' # {}
            => Cardinality(Open') < Effective(lastStored')
      BY <2>1, <2>2 DEF HasRoom
    <2>4. Effective(lastStored)' = Effective(lastStored')
      BY DEF Effective
    <2> QED BY <1>1, <2>2, <2>3, <2>4, CheckStores
  <1>2. ASSUME NEW p \in Players, Register(p) PROVE AcceptInv'
    <2>1. InAccept' = {}
      BY <1>2 DEF Register, InAccept, LimitTypeOK
    <2>2. Open' \subseteq m_players'
      BY <1>2 DEF Register, Open, Pruned, LimitTypeOK
    <2> QED BY <1>2, <2>1, <2>2 DEF Register
  <1>3. ASSUME NEW p \in Players, CloseSocket(p) PROVE AcceptInv'
    <2>1. InAccept' = {} /\ Open' \subseteq Open
      BY <1>3 DEF CloseSocket, OneListener, InAccept, Open, LimitTypeOK
    <2> QED BY <1>3, <2>1 DEF CloseSocket
  <1>4. ASSUME NEW p \in Players, Destroy(p) PROVE AcceptInv'
    <2>1. InAccept' = {} /\ Open' \subseteq Open
      BY <1>4 DEF Destroy, OneListener, InAccept, Open, LimitTypeOK
    <2> QED BY <1>4, <2>1 DEF Destroy
  <1>5. CASE List
    <2>1. Open' = Open /\ InAccept' = InAccept /\ m_players' = Open
      BY <1>5, PrunedIsOpen DEF List, Open, InAccept
    <2> QED BY <1>5, <2>1 DEF List, Effective
  <1>6. CASE LimitTick
    <2>1. Open' = Open /\ InAccept' = {} /\ m_players' = m_players
      BY <1>6 DEF LimitTick, Open, InAccept
    <2>2. \A l \in Ports : m_stream_player_limit_map'[l] = lastStored'
      BY <1>6 DEF LimitTick
    <2> QED BY <2>1, <2>2
  <1>7. CASE UNCHANGED limitVars
    BY <1>7 DEF limitVars, Open, InAccept, Effective
  <1> QED BY <1>1, <1>2, <1>3, <1>4, <1>5, <1>6, <1>7 DEF LimitNext

(* Every open player is counted, and a test that passed still stands when  *)
(* the player is registered, with one listener on one worker.              *)
THEOREM AcceptIsAtomic ==
  ASSUME OneListener PROVE LimitSpec => []AcceptInv
  <1>1. LimitInit => LimitInv
    BY InitLimitType, InitAccept DEF LimitInv
  <1>2. LimitInv /\ [LimitNext]_limitVars => LimitInv'
    BY NextLimitType, NextAccept DEF LimitInv
  <1>3. LimitInv => AcceptInv
    BY DEF LimitInv
  <1> QED BY <1>1, <1>2, <1>3, PTL DEF LimitSpec

(* The limit of a stream: with one listener on one worker, a player that   *)
(* finish_player_accept lets in leaves the stream within the limit that is *)
(* in force, the key's or the app's.                                       *)
THEOREM LimitHolds ==
  ASSUME OneListener PROVE LimitSpec => AdmitWithinLimit
  <1>1. LimitTypeOK /\ AcceptInv /\ [LimitNext]_limitVars
          => [WithinLimit]_limitVars
    <2> SUFFICES ASSUME LimitTypeOK, AcceptInv, LimitNext, NEW p \in Players,
                        player[p] = "checked", player'[p] = "open",
                        Effective(lastStored) > 0
                 PROVE  Cardinality(Open') <= Effective(lastStored)
      BY DEF WithinLimit, limitVars
    <2>1. Register(p)
      BY DEF LimitTypeOK, LimitNext, Check, Register, CloseSocket, Destroy, List, LimitTick
    <2>2. Open' = Open \cup {p} /\ p \notin Open
      BY <2>1 DEF Register, Open, LimitTypeOK
    <2>3. Open \subseteq Players
      BY DEF Open
    <2>4. IsFiniteSet(Open) /\ Cardinality(Open) \in Nat
      BY <2>3, PlayersFinite
    <2>5. Cardinality(Open') = Cardinality(Open) + 1
      BY <2>2, <2>4, FS_AddElement
    <2>6. Cardinality(Open) < Effective(lastStored)
      BY DEF AcceptInv, InAccept
    <2>7. Effective(lastStored) \in Int
      BY LimitAssumption DEF Effective, LimitTypeOK, LimitEntry
    <2> QED BY <2>4, <2>5, <2>6, <2>7
  <1> QED
    BY <1>1, LimitTypeCorrect, AcceptIsAtomic, PTL DEF LimitSpec, AdmitWithinLimit
-----------------------------------------------------------------------------
(* PeerAcl: why the first line of the file decides.                        *)

AclEntries == {AclEntry(r) : r \in Rules}
Callers == [target : Targets, sockaddr : SocketAddresses, known : BOOLEAN]

(* f gives each entry of the target t its line of the file, in order, and  *)
(* leaves out no line that is for t.                                       *)
Traces(f, t, rules, entries) ==
  /\ f \in [1..Len(entries) -> 1..Len(rules)]
  /\ \A i, j \in 1..Len(entries) : i < j => f[i] < f[j]
  /\ \A i \in 1..Len(entries) :
       /\ rules[f[i]].target = t
       /\ rules[f[i]].address # NotAnAddress
       /\ entries[i] = AclEntry(rules[f[i]])
  /\ \A k \in 1..Len(rules) :
       rules[k].target = t => \E i \in 1..Len(entries) : f[i] = k

AclInv ==
  /\ written \in Seq(Rules)
  /\ ip_actions \in [Targets -> Seq(AclEntries)]
  /\ load \in {"reading", "ok", "failed"}
  /\ load # "failed" => \A t \in Targets : \E f : Traces(f, t, written, ip_actions[t])
  /\ peer = NoConn \/ (peer \in Callers /\ load = "ok")
  /\ peer = NoConn => verdict = "none"
  /\ FirstRuleDecides

(* A nonempty set of naturals has its minimum. *)
LEMMA MinIsLeast ==
  ASSUME NEW S \in SUBSET Nat, S # {}
  PROVE  Min(S) \in S /\ \A y \in S : Min(S) <= y
<1>1. \E x \in S : \A y \in S : x <= y
  BY NatMin
<1> QED BY <1>1 DEF Min

(* An entry matches the address of a peer just when its line names the     *)
(* peer: mapped forms meet on neither side.                                *)
LEMMA MatchIsNaming ==
  ASSUME NEW r \in Rules, NEW p \in Callers, r.target = p.target,
         r.address # NotAnAddress
  PROVE  AclEntry(r).address \in {Anyone, libsrt_getpeeraddr_raw(p.sockaddr)}
           <=> Names(r, p)
<1>1. PICK a \in Literals : r.address = a /\ a # NotAnAddress
  BY DEF Rules
<1>2. PICK b \in SocketAddresses : p.sockaddr = b
  BY DEF Callers
<1> DEFINE e == IF a.family = "MAPPED" THEN [a EXCEPT !.family = "V6"] ELSE a
           q == libsrt_getpeeraddr_raw(b)
<1>3. AclEntry(r).address = e
  BY <1>1 DEF AclEntry
<1>4. Names(r, p) <=> a = Anyone \/ (a.family # "MAPPED" /\ a.host = b.host)
  BY <1>1, <1>2 DEF Names
<1>5. \/ b.host \in V4Hosts /\ q = [family |-> "V4", host |-> b.host]
      \/ b.host \in V6Hosts /\ q = [family |-> "V6", host |-> b.host]
  <2>1. /\ b = [family |-> b.family, host |-> b.host]
        /\ \/ b.family \in {"V4", "MAPPED"} /\ b.host \in V4Hosts
           \/ b.family = "V6" /\ b.host \in V6Hosts
    BY DEF SocketAddresses, Address
  <2> QED BY <2>1 DEF libsrt_getpeeraddr_raw
<1>6. CASE a = Anyone
  BY <1>6, <1>3, <1>4 DEF Anyone
<1>7. CASE a # Anyone
  <2>1. a \in SocketAddresses
    BY <1>1, <1>7 DEF Literals
  <2>2. \/ a.family = "V4" /\ a.host \in V4Hosts /\ e = a
           /\ a = [family |-> "V4", host |-> a.host]
        \/ a.family = "V6" /\ a.host \in V6Hosts /\ e = a
           /\ a = [family |-> "V6", host |-> a.host]
        \/ a.family = "MAPPED" /\ a.host \in V4Hosts
           /\ e = [family |-> "V6", host |-> a.host]
    BY <2>1 DEF SocketAddresses, Address
  <2>3. e # Anyone
    <3>1. e.family \in {"V4", "V6"}
      BY <2>2
    <3> QED BY <3>1 DEF Anyone
  <2>4. e = q <=> e.family = q.family /\ e.host = q.host
    BY <1>5, <2>2
  <2>5. e = q <=> a.family # "MAPPED" /\ a.host = b.host
    BY <1>5, <2>2, <2>4, AclAssumption
  <2> QED BY <1>2, <1>3, <1>4, <1>7, <2>3, <2>5
<1> QED BY <1>6, <1>7

(* So the first entry that matches is the first line that names the peer.  *)
LEMMA FirstHitIsFirstLine ==
  ASSUME NEW p \in Callers, NEW rules \in Seq(Rules), NEW entries \in Seq(AclEntries),
         NEW f, Traces(f, p.target, rules, entries)
  PROVE  LET naming == {k \in 1..Len(rules) : Names(rules[k], p)}
         IN  sls_check_ip_acl(entries, libsrt_getpeeraddr_raw(p.sockaddr))
               = IF naming = {} THEN "NO_MATCH" ELSE rules[Min(naming)].action
<1> DEFINE naming == {k \in 1..Len(rules) : Names(rules[k], p)}
           a == libsrt_getpeeraddr_raw(p.sockaddr)
           hits == {i \in 1..Len(entries) : entries[i].address \in {Anyone, a}}
<1>0. Len(rules) \in Nat /\ Len(entries) \in Nat
      /\ (\A k \in 1..Len(rules) : rules[k] \in Rules)
      /\ naming \subseteq Nat /\ hits \subseteq Nat
  OBVIOUS
<1>1. ASSUME NEW i \in 1..Len(entries) PROVE i \in hits <=> f[i] \in naming
  <2>1. f[i] \in 1..Len(rules) /\ rules[f[i]] \in Rules
        /\ rules[f[i]].target = p.target /\ rules[f[i]].address # NotAnAddress
        /\ entries[i] = AclEntry(rules[f[i]])
    BY <1>0 DEF Traces
  <2>2. entries[i].address \in {Anyone, a} <=> Names(rules[f[i]], p)
    BY <2>1, MatchIsNaming
  <2> QED BY <2>1, <2>2
<1>2. ASSUME NEW k \in naming PROVE \E i \in hits : f[i] = k
  <2>1. rules[k].target = p.target
    BY DEF Names
  <2> QED BY <1>1, <2>1 DEF Traces
<1>3. CASE naming = {}
  <2>1. hits = {}
    BY <1>1, <1>3
  <2> QED BY <1>3, <2>1 DEF sls_check_ip_acl
<1>4. CASE naming # {}
  <2>1. hits # {}
    BY <1>2, <1>4
  <2> DEFINE i == Min(hits)
             k == Min(naming)
  <2>2. i \in hits /\ (\A j \in hits : i <= j)
    BY <1>0, <2>1, MinIsLeast
  <2>3. k \in naming /\ (\A j \in naming : k <= j)
    BY <1>0, <1>4, MinIsLeast
  <2> HIDE DEF i, k
  <2>4. PICK j \in hits : f[j] = k
    BY <1>2, <2>3
  <2>5. f[i] \in naming /\ k <= f[i]
    BY <1>1, <2>2, <2>3
  <2>6. i = j
    <3>1. i <= j /\ i \in Nat /\ j \in Nat
      BY <1>0, <2>2
    <3>2. ~(i < j)
      <4>1. i < j => f[i] < f[j]
        BY <2>2 DEF Traces
      <4>2. f[i] \in Nat /\ k \in Nat
        BY <1>0, <2>3, <2>5
      <4> QED BY <2>4, <2>5, <4>1, <4>2
    <3> QED BY <3>1, <3>2
  <2>7. entries[i] = AclEntry(rules[k])
    BY <2>2, <2>4, <2>6 DEF Traces
  <2>8. entries[i].action = rules[k].action
    BY <2>7 DEF AclEntry
  <2> QED BY <1>4, <2>1, <2>8 DEF sls_check_ip_acl, i, k
<1> QED BY <1>3, <1>4

(* A rule of the target is one entry more; one of another target none.     *)
LEMMA TracesAppend ==
  ASSUME NEW t, NEW rules \in Seq(Rules), NEW entries \in Seq(AclEntries), NEW f,
         Traces(f, t, rules, entries), NEW r \in Rules, r.address # NotAnAddress
  PROVE  /\ r.target # t => Traces(f, t, Append(rules, r), entries)
         /\ r.target = t =>
              \E g : Traces(g, t, Append(rules, r), Append(entries, AclEntry(r)))
<1> DEFINE n == Len(entries)
           m == Len(rules)
           R == Append(rules, r)
           E == Append(entries, AclEntry(r))
<1>0. n \in Nat /\ m \in Nat
  OBVIOUS
<1>1. Len(R) = m + 1 /\ R[m + 1] = r /\ (\A k \in 1..m : R[k] = rules[k])
  OBVIOUS
<1>2. AclEntry(r) \in AclEntries
  BY DEF AclEntries
<1>3. Len(E) = n + 1 /\ E[n + 1] = AclEntry(r) /\ (\A k \in 1..n : E[k] = entries[k])
  BY <1>2
<1> HIDE DEF n, m, R, E
<1>4. /\ f \in [1..n -> 1..m]
      /\ \A i, j \in 1..n : i < j => f[i] < f[j]
      /\ \A i \in 1..n : /\ rules[f[i]].target = t
                         /\ rules[f[i]].address # NotAnAddress
                         /\ entries[i] = AclEntry(rules[f[i]])
      /\ \A k \in 1..m : rules[k].target = t => \E i \in 1..n : f[i] = k
  BY DEF Traces, n, m
<1>5. ASSUME r.target # t PROVE Traces(f, t, R, entries)
  <2>1. f \in [1..n -> 1..m + 1]
    BY <1>0, <1>4
  <2>2. \A k \in 1..m + 1 : R[k].target = t => \E i \in 1..n : f[i] = k
    BY <1>0, <1>1, <1>4, <1>5, SMTT(30)
  <2> QED BY <1>1, <1>4, <2>1, <2>2 DEF Traces, n
<1>6. ASSUME r.target = t PROVE \E g : Traces(g, t, R, E)
  <2> DEFINE g == [i \in 1..n + 1 |-> IF i = n + 1 THEN m + 1 ELSE f[i]]
  <2>1. g \in [1..n + 1 -> 1..m + 1] /\ g[n + 1] = m + 1
        /\ (\A i \in 1..n : g[i] = f[i] /\ g[i] \in 1..m)
    <3>1. \A i \in 1..n : i \in 1..n + 1 /\ i # n + 1 /\ f[i] \in 1..m
      BY <1>0, <1>4, SMTT(30)
    <3>2. \A i \in 1..n + 1 : i = n + 1 \/ i \in 1..n
      BY <1>0
    <3>3. n + 1 \in 1..n + 1 /\ m + 1 \in 1..m + 1 /\ \A k \in 1..m : k \in 1..m + 1
      BY <1>0
    <3> QED BY <3>1, <3>2, <3>3
  <2> HIDE DEF g
  <2>2. \A i, j \in 1..n + 1 : i < j => g[i] < g[j]
    <3> TAKE i, j \in 1..n + 1
    <3> HAVE i < j
    <3>1. i \in 1..n
      BY <1>0
    <3>2. CASE j = n + 1
      BY <1>0, <2>1, <3>1, <3>2
    <3>3. CASE j # n + 1
      BY <1>0, <1>4, <2>1, <3>1, <3>3
    <3> QED BY <3>2, <3>3
  <2>3. \A i \in 1..n + 1 : /\ R[g[i]].target = t
                            /\ R[g[i]].address # NotAnAddress
                            /\ E[i] = AclEntry(R[g[i]])
    <3> TAKE i \in 1..n + 1
    <3>1. CASE i = n + 1
      BY <1>1, <1>3, <1>6, <2>1, <3>1
    <3>2. CASE i \in 1..n
      BY <1>1, <1>3, <1>4, <2>1, <3>2
    <3> QED BY <1>0, <3>1, <3>2
  <2>4. \A k \in 1..m + 1 : R[k].target = t => \E i \in 1..n + 1 : g[i] = k
    <3> TAKE k \in 1..m + 1
    <3>1. CASE k = m + 1
      BY <1>0, <2>1, <3>1
    <3>2. CASE k \in 1..m
      <4>1. \A i \in 1..n : i \in 1..n + 1
        BY <1>0
      <4> QED BY <1>1, <1>4, <2>1, <3>2, <4>1
    <3> QED BY <1>0, <3>1, <3>2
  <2>5. Traces(g, t, R, E)
    BY <1>1, <1>3, <2>1, <2>2, <2>3, <2>4 DEF Traces
  <2> QED BY <2>5
<1>7. (r.target # t => Traces(f, t, R, entries)) /\ (r.target = t => \E g : Traces(g, t, R, E))
  BY <1>5, <1>6
<1> QED BY <1>7, Zenon DEF R, E

(* The parser's step, for a rule it takes. *)
LEMMA TakenRule ==
  ASSUME AclInv, load = "reading", NEW r \in Rules, r.target \in Targets,
         r.address # NotAnAddress,
         written' = Append(written, r),
         ip_actions' = [ip_actions EXCEPT ![r.target] = Append(@, AclEntry(r))]
  PROVE  /\ ip_actions' \in [Targets -> Seq(AclEntries)]
         /\ \A t \in Targets : \E f : Traces(f, t, written', ip_actions'[t])
<1>0. AclEntry(r) \in AclEntries
  BY DEF AclEntries
<1>1. written \in Seq(Rules) /\ ip_actions \in [Targets -> Seq(AclEntries)]
  BY DEF AclInv
<1>2. ip_actions' \in [Targets -> Seq(AclEntries)]
  BY <1>0, <1>1
<1>3. ASSUME NEW t \in Targets PROVE \E f : Traces(f, t, written', ip_actions'[t])
  <2>1. PICK f : Traces(f, t, written, ip_actions[t])
    BY DEF AclInv
  <2>2. ip_actions[t] \in Seq(AclEntries)
    BY <1>1
  <2>3. CASE r.target = t
    <3>1. ip_actions'[t] = Append(ip_actions[t], AclEntry(r))
      BY <1>1, <2>3
    <3>2. \E g : Traces(g, t, Append(written, r), Append(ip_actions[t], AclEntry(r)))
      BY <1>1, <2>1, <2>2, <2>3, TracesAppend
    <3> QED BY <3>1, <3>2
  <2>4. CASE r.target # t
    <3>1. ip_actions'[t] = ip_actions[t]
      BY <1>1, <2>4
    <3>2. Traces(f, t, Append(written, r), ip_actions[t])
      BY <1>1, <2>1, <2>2, <2>4, TracesAppend
    <3> QED BY <3>1, <3>2
  <2> QED BY <2>3, <2>4
<1> QED BY <1>2, <1>3

LEMMA InitAcl == AclInit => AclInv
<1> SUFFICES ASSUME AclInit PROVE AclInv
  OBVIOUS
<1>1. written = <<>> /\ ip_actions = [t \in Targets |-> <<>>]
      /\ load = "reading" /\ peer = NoConn /\ verdict = "none"
  BY DEF AclInit
<1>2. \A t \in Targets : Traces([i \in 1..0 |-> 0], t, <<>>, <<>>)
  BY DEF Traces
<1>3. \A t \in Targets : \E f : Traces(f, t, written, ip_actions[t])
  BY <1>1, <1>2
<1>4. written \in Seq(Rules) /\ ip_actions \in [Targets -> Seq(AclEntries)]
  BY <1>1
<1> QED BY <1>1, <1>3, <1>4 DEF AclInv, FirstRuleDecides

LEMMA NextAcl == AclInv /\ [AclNext]_aclVars => AclInv'
<1> SUFFICES ASSUME AclInv, [AclNext]_aclVars PROVE AclInv'
  OBVIOUS
<1>1. ASSUME NEW r \in Rules, sls_conf_set_ipset(r) PROVE AclInv'
  <2>1. peer = NoConn /\ verdict = "none" /\ peer' = NoConn /\ verdict' = "none"
    BY <1>1 DEF sls_conf_set_ipset, AclInv
  <2>2. written' \in Seq(Rules)
    BY <1>1 DEF sls_conf_set_ipset, AclInv
  <2>3. CASE r.target \in Targets /\ r.address # NotAnAddress
    <3>1. load = "reading" /\ load' = load /\ written' = Append(written, r)
          /\ ip_actions' = [ip_actions EXCEPT ![r.target] = Append(@, AclEntry(r))]
      BY <1>1, <2>3 DEF sls_conf_set_ipset
    <3>2. /\ ip_actions' \in [Targets -> Seq(AclEntries)]
          /\ \A t \in Targets : \E f : Traces(f, t, written', ip_actions'[t])
      BY <2>3, <3>1, TakenRule
    <3> QED BY <2>1, <2>2, <3>1, <3>2 DEF AclInv, FirstRuleDecides
  <2>4. CASE ~(r.target \in Targets /\ r.address # NotAnAddress)
    <3>1. load' = "failed" /\ ip_actions' = ip_actions
      BY <1>1, <2>4 DEF sls_conf_set_ipset
    <3> QED BY <2>1, <2>2, <3>1 DEF AclInv, FirstRuleDecides
  <2> QED BY <2>3, <2>4
<1>2. CASE Loaded
  <2>1. peer = NoConn /\ verdict = "none"
    BY <1>2 DEF Loaded, AclInv
  <2> QED BY <1>2, <2>1 DEF Loaded, AclInv, FirstRuleDecides
<1>3. ASSUME NEW t \in Targets, NEW a \in SocketAddresses, NEW known \in BOOLEAN,
             PeerConnects(t, a, known)
      PROVE  AclInv'
  <2>1. verdict' = "none" /\ peer' \in Callers /\ load' = "ok"
    BY <1>3 DEF PeerConnects, AclInv, Callers
  <2>2. FirstRuleDecides'
    BY <2>1 DEF FirstRuleDecides
  <2> QED BY <1>3, <2>1, <2>2 DEF PeerConnects, AclInv
<1>4. CASE CheckAcl
  <2>1. peer \in Callers /\ load = "ok" /\ peer # NoConn
    BY <1>4 DEF CheckAcl, AclInv
  <2>2. FirstRuleDecides'
    <3> SUFFICES ASSUME peer.known PROVE FirstRuleDecides'
      BY <1>4 DEF CheckAcl, FirstRuleDecides
    <3> DEFINE naming == {k \in 1..Len(written) : Names(written[k], peer)}
               d == sls_check_ip_acl(ip_actions[peer.target],
                                     libsrt_getpeeraddr_raw(peer.sockaddr))
    <3>1. peer.target \in Targets
      BY <2>1 DEF Callers
    <3>2. PICK f : Traces(f, peer.target, written, ip_actions[peer.target])
      BY <2>1, <3>1 DEF AclInv
    <3>3. written \in Seq(Rules) /\ ip_actions[peer.target] \in Seq(AclEntries)
      BY <3>1 DEF AclInv
    <3>4. d = IF naming = {} THEN "NO_MATCH" ELSE written[Min(naming)].action
      BY <2>1, <3>2, <3>3, FirstHitIsFirstLine
    <3>5. verdict' = IF d = "DENY" THEN "refused" ELSE "admitted"
      BY <1>4 DEF CheckAcl
    <3> HIDE DEF d
    <3>6. verdict' = IF naming # {} /\ written[Min(naming)].action = "DENY"
                     THEN "refused" ELSE "admitted"
      BY <3>4, <3>5
    <3>7. written' = written /\ peer' = peer
      BY <1>4 DEF CheckAcl
    <3> QED BY <3>6, <3>7 DEF FirstRuleDecides, Min, Names
  <2> QED BY <1>4, <2>1, <2>2 DEF CheckAcl, AclInv
<1>5. CASE UNCHANGED aclVars
  BY <1>5 DEF aclVars, AclInv, FirstRuleDecides, Names, Min
<1> QED BY <1>1, <1>2, <1>3, <1>4, <1>5 DEF AclNext

(* The verdict on a peer whose address is known is that of the first line  *)
(* of the file that names its host for its role, whatever the rules, their *)
(* number and their order, and in whichever form the dual-stack socket     *)
(* shows the host: storing the rules per role keeps the order of the lines *)
(* (sls_conf_set_ipset), and reading the address unwraps a mapped one      *)
(* (libsrt_getpeeraddr_raw).                                               *)
THEOREM AclFirstRule == AclSpec => []FirstRuleDecides
<1>1. AclInv => FirstRuleDecides
  BY DEF AclInv
<1> QED BY <1>1, InitAcl, NextAcl, PTL DEF AclSpec

-----------------------------------------------------------------------------
(* KeyRateLimit: why the window of an address is exact.                    *)

Ages == 0..MaxAge
RateMaps == UNION {[S -> Seq(Ages)] : S \in SUBSET IPs}

Ordered(s) == \A i, j \in 1..Len(s) : i < j => s[j] <= s[i]

(* s is what of t lies in the window: the last Len(s) of its requests.     *)
Recent(t, s) ==
  /\ Len(s) <= Len(t)
  /\ \A i \in 1..Len(s) : s[i] = t[Len(t) - Len(s) + i] /\ s[i] <= Window
  /\ \A i \in 1..(Len(t) - Len(s)) : t[i] > Window

(* The history a is what the map m knows of the window, address by address. *)
Agrees(m, a) ==
  \A ip \in IPs : IF ip \in Tracked(m) THEN Recent(m[ip], a[ip]) ELSE a[ip] = <<>>

RateInv ==
  /\ m_rate_limit_map \in RateMaps
  /\ asked \in [IPs -> Seq(Ages)]
  /\ refused \subseteq IPs
  /\ \A ip \in IPs : Ordered(asked[ip])
  /\ Agrees(m_rate_limit_map, asked)
  /\ Limit = -1 => Tracked(m_rate_limit_map) = {}
  /\ Limit >= 0 => \A ip \in IPs : Len(asked[ip]) <= IF Limit = 0 THEN 1 ELSE Limit
  /\ RefusedOverBudget

LEMMA MapType ==
  ASSUME NEW m \in RateMaps
  PROVE  /\ Tracked(m) \subseteq IPs
         /\ m \in [Tracked(m) -> Seq(Ages)]
         /\ \A ip \in Tracked(m) : m[ip] \in Seq(Ages)
  BY DEF RateMaps, Tracked

LEMMA RateConstants ==
  /\ Limit \in Nat \cup {-1} /\ Window \in Nat \ {0} /\ MaxAge \in Nat
  /\ MaxAge = 2 * Window + 1 /\ Window < MaxAge /\ 2 * Window \in Nat
  /\ Window <= 2 * Window /\ 0 \in Ages /\ Ages \subseteq Nat
  BY RateAssumption DEF Limit, Window, MaxAge, Ages

(* The loop of pop_front stops somewhere, and takes a prefix that is all   *)
(* old up to a request that is not.                                        *)
LEMMA TrimStops ==
  ASSUME NEW t \in Seq(Ages), NEW age \in Nat
  PROVE  \E k \in 0..Len(t) :
           /\ Trim(t, age) = SubSeq(t, k + 1, Len(t))
           /\ \A i \in 1..k : t[i] > age
           /\ k < Len(t) => t[k + 1] <= age
<1> DEFINE n == Len(t)
           Stop(k) == (\A i \in 1..k : t[i] > age) /\ (k < n => t[k + 1] <= age)
           A == {k \in 0..n : k < n => t[k + 1] <= age}
<1>0. n \in Nat /\ \A i \in 1..n : t[i] \in Nat
  <2>1. n \in Nat /\ \A i \in 1..n : t[i] \in Ages
    OBVIOUS
  <2> QED BY <2>1, RateConstants
<1>1. A \in SUBSET Nat /\ n \in A
  BY <1>0
<1>2. PICK k \in A : \A l \in A : k <= l
  BY <1>1, NatMin
<1>3. ASSUME NEW i \in 1..k PROVE t[i] > age
  <2>0. k \in 0..n /\ i \in Nat /\ 1 <= i /\ i <= k
    OBVIOUS
  <2>1. i - 1 \in 0..n /\ i - 1 < n /\ ~(k <= i - 1) /\ i \in 1..n
    BY <1>0, <2>0
  <2>3. i - 1 \notin A
    BY <1>2, <2>1
  <2>2. ~(t[(i - 1) + 1] <= age)
    BY <2>1, <2>3
  <2> QED BY <1>0, <2>1, <2>2
<1>4. \E l \in 0..n : Stop(l)
  BY <1>2, <1>3
<1>5. PICK l \in 0..n : Stop(l) /\ l = CHOOSE x \in 0..n : Stop(x)
  BY <1>4
<1>6. Trim(t, age) = SubSeq(t, l + 1, n)
  BY <1>5 DEF Trim
<1> QED BY <1>5, <1>6

(* Dropping the first k requests of t. *)
LEMMA Suffix ==
  ASSUME NEW t \in Seq(Ages), NEW k \in 0..Len(t)
  PROVE  LET u == SubSeq(t, k + 1, Len(t))
         IN  /\ u \in Seq(Ages)
             /\ Len(u) = Len(t) - k
             /\ \A i \in 1..(Len(t) - k) : u[i] = t[k + i]
<1> DEFINE u == SubSeq(t, k + 1, Len(t))
<1>1. Len(t) \in Nat /\ k \in Nat /\ k <= Len(t)
  OBVIOUS
<1>2. u \in Seq(Ages) /\ Len(u) = IF k + 1 <= Len(t) THEN Len(t) - (k + 1) + 1 ELSE 0
  BY <1>1, SubSeqProperties
<1>3. Len(u) = Len(t) - k
  BY <1>1, <1>2
<1>4. \A i \in 1..Len(u) : u[i] = t[(k + 1) + i - 1]
  BY <1>1, <1>2, SubSeqProperties
<1>5. \A i \in 1..(Len(t) - k) : u[i] = t[k + i]
  <2> TAKE i \in 1..(Len(t) - k)
  <2>1. (k + 1) + i - 1 = k + i
    BY <1>1
  <2> QED BY <1>3, <1>4, <2>1
<1> QED BY <1>2, <1>3, <1>5

(* A trim that keeps the window keeps all of it, and one that keeps no     *)
(* more leaves just the window.                                            *)
LEMMA TrimRecent ==
  ASSUME NEW t \in Seq(Ages), NEW s \in Seq(Ages), Recent(t, s),
         NEW age \in Nat, Window <= age
  PROVE  /\ Trim(t, age) \in Seq(Ages)
         /\ Recent(Trim(t, age), s)
         /\ age = Window => Len(Trim(t, age)) = Len(s)
<1> DEFINE n == Len(t)
           d == Len(t) - Len(s)
           u == Trim(t, age)
<1>0. n \in Nat /\ Len(s) \in Nat /\ d \in 0..n /\ Window \in Nat
      /\ (\A i \in 1..n : t[i] \in Ages) /\ Ages \subseteq Nat
  <2>1. n \in Nat /\ Len(s) \in Nat /\ (\A i \in 1..n : t[i] \in Ages)
    OBVIOUS
  <2> QED BY <2>1, RateConstants DEF Recent
<1>1. PICK k \in 0..n : /\ u = SubSeq(t, k + 1, n)
                        /\ \A i \in 1..k : t[i] > age
                        /\ k < n => t[k + 1] <= age
  BY TrimStops
<1>2. u \in Seq(Ages) /\ Len(u) = n - k /\ (\A i \in 1..(n - k) : u[i] = t[k + i])
  BY <1>1, Suffix
<1> HIDE DEF u
<1>3. /\ Len(s) = n - d
      /\ \A i \in 1..(n - d) : s[i] = t[d + i] /\ s[i] <= Window
      /\ \A i \in 1..d : t[i] > Window
  BY <1>0 DEF Recent
<1> HIDE DEF d, n
<1>4. k <= d
  <2> SUFFICES ASSUME d < k PROVE FALSE
    BY <1>0
  <2>1. 1 \in 1..(n - d) /\ d + 1 \in 1..k /\ d + 1 \in 1..n
    BY <1>0
  <2>2. t[d + 1] <= Window /\ t[d + 1] > age /\ t[d + 1] \in Nat
    BY <1>0, <1>1, <1>3, <2>1
  <2> QED BY <1>0, <2>2
<1>5. Recent(u, s)
  <2>1. Len(u) - Len(s) = d - k /\ Len(s) <= Len(u)
    BY <1>0, <1>2, <1>3, <1>4
  <2>2. ASSUME NEW i \in 1..Len(s) PROVE s[i] = u[(d - k) + i] /\ s[i] <= Window
    <3>1. i \in 1..(n - d) /\ (d - k) + i \in 1..(n - k) /\ k + ((d - k) + i) = d + i
      BY <1>0, <1>3, <1>4
    <3>2. u[(d - k) + i] = t[d + i]
      BY <1>2, <3>1
    <3> QED BY <1>3, <3>1, <3>2
  <2>3. ASSUME NEW i \in 1..(d - k) PROVE u[i] > Window
    <3>1. i \in 1..(n - k) /\ k + i \in 1..d
      BY <1>0, <1>4
    <3> QED BY <1>2, <1>3, <3>1
  <2> QED BY <2>1, <2>2, <2>3 DEF Recent
<1>6. ASSUME age = Window PROVE Len(u) = Len(s)
  <2>1. ~(k < d)
    <3> SUFFICES ASSUME k < d PROVE FALSE
      OBVIOUS
    <3>1. k + 1 \in 1..d /\ k < n /\ k + 1 \in 1..n
      BY <1>0
    <3>2. t[k + 1] <= age /\ t[k + 1] > Window /\ t[k + 1] \in Nat
      BY <1>0, <1>1, <1>3, <3>1
    <3> QED BY <1>0, <1>6, <3>2
  <2> QED BY <1>0, <1>2, <1>3, <1>4, <2>1
<1> QED BY <1>2, <1>5, <1>6 DEF u

(* The sweep of the whole map loses nothing of a window. *)
LEMMA CollectedKeeps ==
  ASSUME NEW m \in RateMaps, NEW a \in [IPs -> Seq(Ages)], Agrees(m, a)
  PROVE  /\ Collected(m) \in RateMaps
         /\ Agrees(Collected(m), a)
         /\ Tracked(Collected(m)) \subseteq Tracked(m)
<1> DEFINE kept == [ip \in Tracked(m) |-> Trim(m[ip], 2 * Window)]
           S == {i \in Tracked(m) : kept[i] # <<>>}
<1>1. Collected(m) = [ip \in S |-> kept[ip]]
  BY DEF Collected
<1>2. ASSUME NEW ip \in Tracked(m)
      PROVE  kept[ip] \in Seq(Ages) /\ Recent(kept[ip], a[ip]) /\ ip \in IPs
  <2>1. ip \in IPs /\ m[ip] \in Seq(Ages)
    BY MapType
  <2>2. Recent(m[ip], a[ip]) /\ a[ip] \in Seq(Ages)
    BY <2>1 DEF Agrees
  <2> QED BY <2>1, <2>2, TrimRecent, RateConstants
<1> HIDE DEF kept
<1>3. S \subseteq Tracked(m) /\ S \subseteq IPs /\ Tracked(Collected(m)) = S
  BY <1>1, <1>2 DEF Tracked
<1>4. Collected(m) \in RateMaps
  <2>1. Collected(m) \in [S -> Seq(Ages)]
    BY <1>1, <1>2, <1>3
  <2> HIDE DEF S
  <2> QED BY <1>3, <2>1 DEF RateMaps
<1>5. ASSUME NEW ip \in IPs
      PROVE  IF ip \in S THEN Recent(Collected(m)[ip], a[ip]) ELSE a[ip] = <<>>
  <2>1. CASE ip \in S
    BY <1>1, <1>2, <2>1
  <2>2. CASE ip \notin Tracked(m)
    BY <1>3, <2>2 DEF Agrees
  <2>3. CASE ip \in Tracked(m) /\ ip \notin S
    <3>1. Len(a[ip]) <= Len(kept[ip]) /\ kept[ip] = <<>> /\ a[ip] \in Seq(Ages)
      BY <1>2, <2>3 DEF Recent
    <3>2. Len(a[ip]) = 0
      BY <3>1
    <3> QED BY <2>3, <3>1, <3>2, EmptySeq
  <2> QED BY <2>1, <2>2, <2>3
<1> QED BY <1>3, <1>4, <1>5 DEF Agrees

(* What is_rate_limited counts for the address is the window. *)
LEMMA LookedKeeps ==
  ASSUME NEW m \in RateMaps, NEW a \in [IPs -> Seq(Ages)], Agrees(m, a),
         NEW ip \in IPs
  PROVE  /\ Looked(m, ip) \in RateMaps
         /\ Agrees(Looked(m, ip), a)
         /\ Tracked(Looked(m, ip)) = Tracked(m)
         /\ ip \in Tracked(m) => Len(Looked(m, ip)[ip]) = Len(a[ip])
<1>1. CASE ip \notin Tracked(m)
  BY <1>1 DEF Looked
<1>2. CASE ip \in Tracked(m)
  <2> DEFINE u == Trim(m[ip], Window)
  <2>1. /\ m[ip] \in Seq(Ages) /\ Recent(m[ip], a[ip]) /\ a[ip] \in Seq(Ages)
        /\ m \in [Tracked(m) -> Seq(Ages)] /\ Tracked(m) \subseteq IPs
    BY <1>2, MapType DEF Agrees
  <2>2. u \in Seq(Ages) /\ Recent(u, a[ip]) /\ Len(u) = Len(a[ip])
    BY <2>1, TrimRecent, RateConstants
  <2>3. Looked(m, ip) = [m EXCEPT ![ip] = u]
    BY <1>2 DEF Looked
  <2> HIDE DEF u
  <2>4. /\ Looked(m, ip) \in [Tracked(m) -> Seq(Ages)]
        /\ Looked(m, ip)[ip] = u
        /\ \A i \in Tracked(m) : i # ip => Looked(m, ip)[i] = m[i]
    BY <1>2, <2>1, <2>2, <2>3
  <2>5. Looked(m, ip) \in RateMaps /\ Tracked(Looked(m, ip)) = Tracked(m)
    BY <2>1, <2>4 DEF RateMaps, Tracked
  <2>6. Agrees(Looked(m, ip), a)
    BY <2>2, <2>4, <2>5 DEF Agrees
  <2> QED BY <2>2, <2>4, <2>5, <2>6
<1> QED BY <1>1, <1>2

(* The history a with one webhook more for ip. *)
Counted(a, ip) == [a EXCEPT ![ip] = Append(@, 0)]

(* A request appended now lies in the window; no other address is touched. *)
LEMMA WithKeeps ==
  ASSUME NEW m \in RateMaps, NEW a \in [IPs -> Seq(Ages)], Agrees(m, a),
         NEW ip \in IPs
  PROVE  /\ With(m, ip) \in RateMaps
         /\ Tracked(With(m, ip)) = Tracked(m) \cup {ip}
         /\ Agrees(With(m, ip), Counted(a, ip))
<1> DEFINE w == With(m, ip)
           S == Tracked(m) \cup {ip}
           b == Counted(a, ip)
           t == IF ip \in Tracked(m) THEN m[ip] ELSE <<>>
<1>0. 0 \in Ages /\ Tracked(m) \subseteq IPs /\ S \subseteq IPs
  BY MapType, RateConstants
<1>1. t \in Seq(Ages) /\ a[ip] \in Seq(Ages)
  BY MapType
<1>2. Recent(t, a[ip])
  <2>1. CASE ip \in Tracked(m)
    BY <2>1 DEF Agrees
  <2>2. CASE ip \notin Tracked(m)
    <3>1. t = <<>> /\ a[ip] = <<>>
      BY <2>2 DEF Agrees
    <3>2. Recent(<<>>, <<>>)
      BY DEF Recent
    <3> QED BY <3>1, <3>2
  <2> QED BY <2>1, <2>2
<1>3. w[ip] = Append(t, 0) /\ (\A i \in Tracked(m) : i # ip => w[i] = m[i])
      /\ w = [i \in S |-> w[i]]
  <2>1. Append(<<>>, 0) = <<0>>
    OBVIOUS
  <2> QED BY <2>1 DEF With
<1>4. b[ip] = Append(a[ip], 0) /\ \A i \in IPs : i # ip => b[i] = a[i]
  BY DEF Counted
<1> HIDE DEF w, b, t
<1>5. Recent(Append(t, 0), Append(a[ip], 0))
  <2> DEFINE s == a[ip]
             T == Append(t, 0)
             A == Append(s, 0)
  <2>1. /\ Len(t) \in Nat /\ Len(s) \in Nat
        /\ Len(T) = Len(t) + 1 /\ T[Len(t) + 1] = 0 /\ (\A i \in 1..Len(t) : T[i] = t[i])
        /\ Len(A) = Len(s) + 1 /\ A[Len(s) + 1] = 0 /\ (\A i \in 1..Len(s) : A[i] = s[i])
    BY <1>0, <1>1
  <2> HIDE DEF T, A, s
  <2>2. /\ Len(s) <= Len(t)
        /\ \A i \in 1..Len(s) : s[i] = t[Len(t) - Len(s) + i] /\ s[i] <= Window
        /\ \A i \in 1..(Len(t) - Len(s)) : t[i] > Window
    BY <1>2 DEF Recent, s
  <2>3. Len(T) - Len(A) = Len(t) - Len(s) /\ Len(A) <= Len(T)
    BY <2>1, <2>2
  <2>4. ASSUME NEW i \in 1..Len(A)
        PROVE  A[i] = T[(Len(t) - Len(s)) + i] /\ A[i] <= Window
    <3>1. CASE i = Len(s) + 1
      <4>1. (Len(t) - Len(s)) + i = Len(t) + 1
        BY <2>1, <3>1
      <4> QED BY <2>1, <3>1, <4>1, RateConstants
    <3>2. CASE i \in 1..Len(s)
      <4>1. (Len(t) - Len(s)) + i \in 1..Len(t)
        BY <2>1, <2>2, <3>2
      <4> QED BY <2>1, <2>2, <3>2, <4>1
    <3> QED BY <2>1, <3>1, <3>2
  <2>5. ASSUME NEW i \in 1..(Len(t) - Len(s)) PROVE T[i] > Window
    <3>1. i \in 1..Len(t)
      BY <2>1, <2>2
    <3> QED BY <2>1, <2>2, <3>1
  <2>6. Recent(T, A)
    BY <2>3, <2>4, <2>5 DEF Recent
  <2> QED BY <2>6 DEF T, A, s
<1>6. w \in [S -> Seq(Ages)] /\ Tracked(w) = S
  <2>1. ASSUME NEW i \in S PROVE w[i] \in Seq(Ages)
    <3>0. Append(t, 0) \in Seq(Ages)
      BY <1>0, <1>1
    <3>1. CASE i = ip
      BY <1>3, <3>0, <3>1
    <3>2. CASE i # ip
      BY <1>3, <3>2, MapType
    <3> QED BY <3>1, <3>2
  <2> HIDE DEF S
  <2> QED BY <1>3, <2>1 DEF Tracked
<1>7. w \in RateMaps
  <2> HIDE DEF S
  <2> QED BY <1>0, <1>6 DEF RateMaps
<1>8. Agrees(w, b)
  BY <1>3, <1>4, <1>5, <1>6 DEF Agrees
<1> QED BY <1>6, <1>7, <1>8 DEF w, b

(* An age one tick later. *)
OneOlder(a) == IF a < MaxAge THEN a + 1 ELSE a

LEMMA OlderAge ==
  ASSUME NEW a \in Ages
  PROVE  /\ OneOlder(a) \in Ages
         /\ a > Window => OneOlder(a) > Window
         /\ \A b \in Ages : a <= b => OneOlder(a) <= OneOlder(b)
  BY RateConstants DEF OneOlder, Ages

(* One tick on the requests of a sequence: it stays in order and in type.  *)
LEMMA OlderKeeps ==
  ASSUME NEW t \in Seq(Ages)
  PROVE  /\ OlderRequests(t) \in Seq(Ages)
         /\ Len(OlderRequests(t)) = Len(t)
         /\ \A i \in 1..Len(t) : OlderRequests(t)[i] = OneOlder(t[i])
         /\ Ordered(t) => Ordered(OlderRequests(t))
<1> DEFINE u == OlderRequests(t)
<1>1. Len(t) \in Nat /\ DOMAIN t = 1..Len(t) /\ \A i \in 1..Len(t) : t[i] \in Ages
  OBVIOUS
<1>2. u = [i \in 1..Len(t) |-> OneOlder(t[i])]
  BY <1>1 DEF OlderRequests, OneOlder
<1>3. u \in [1..Len(t) -> Ages]
  BY <1>1, <1>2, OlderAge
<1>4. u \in Seq(Ages) /\ Len(u) = Len(t)
  BY <1>1, <1>3
<1>5. \A i \in 1..Len(t) : u[i] = OneOlder(t[i])
  BY <1>2
<1> HIDE DEF u
<1>6. ASSUME Ordered(t) PROVE Ordered(u)
  <2> SUFFICES ASSUME NEW i \in 1..Len(t), NEW j \in 1..Len(t), i < j
               PROVE  u[j] <= u[i]
    BY <1>4 DEF Ordered
  <2>1. t[j] <= t[i] /\ t[i] \in Ages /\ t[j] \in Ages
    BY <1>1, <1>6 DEF Ordered
  <2>2. OneOlder(t[j]) <= OneOlder(t[i])
    BY <2>1, OlderAge
  <2> QED BY <1>5, <2>2
<1> QED BY <1>4, <1>5, <1>6 DEF u

(* The window of an ordered history is a suffix of it. *)
LEMMA WindowIsSuffix ==
  ASSUME NEW s \in Seq(Ages), Ordered(s)
  PROVE  \E k \in 0..Len(s) : /\ InWindow(s) = SubSeq(s, k + 1, Len(s))
                              /\ \A i \in 1..Len(s) : i <= k <=> s[i] > Window
<1> DEFINE n == Len(s)
           Split(k) == \A i \in 1..n : i <= k <=> s[i] > Window
           A == {k \in 0..n : k < n => s[k + 1] <= Window}
<1>0. n \in Nat /\ (\A i \in 1..n : s[i] \in Nat) /\ Window \in Nat
  <2>1. n \in Nat /\ \A i \in 1..n : s[i] \in Ages
    OBVIOUS
  <2> QED BY <2>1, RateConstants
<1>1. A \in SUBSET Nat /\ n \in A
  BY <1>0
<1>2. PICK k \in A : \A l \in A : k <= l
  BY <1>1, NatMin
<1>3. ASSUME NEW i \in 1..n PROVE i <= k <=> s[i] > Window
  <2>0. k \in 0..n /\ i \in Nat /\ 1 <= i /\ i <= n /\ (k < n => s[k + 1] <= Window)
    OBVIOUS
  <2>1. CASE i <= k
    <3>1. i - 1 \in 0..n /\ ~(k <= i - 1) /\ i - 1 < n
      BY <1>0, <2>0, <2>1
    <3>2. ~(s[(i - 1) + 1] <= Window)
      BY <1>2, <3>1
    <3> QED BY <1>0, <2>0, <2>1, <3>2
  <2>2. CASE k < i
    <3>1. k + 1 \in 1..n /\ s[k + 1] <= Window
      BY <1>0, <2>0, <2>2
    <3>2. k + 1 = i \/ k + 1 < i
      BY <1>0, <2>0, <2>2
    <3>3. s[i] <= s[k + 1]
      BY <1>0, <3>1, <3>2 DEF Ordered
    <3> QED BY <1>0, <2>0, <2>2, <3>1, <3>3
  <2> QED BY <1>0, <2>0, <2>1, <2>2
<1>4. \E l \in 0..n : Split(l)
  BY <1>3
<1>5. PICK l \in 0..n : Split(l) /\ l = CHOOSE x \in 0..n : Split(x)
  BY <1>4
<1>6. InWindow(s) = SubSeq(s, l + 1, n)
  BY <1>5 DEF InWindow
<1> QED BY <1>5, <1>6

(* A tick on the map and on the history. *)
LEMMA TickKeeps ==
  ASSUME NEW t \in Seq(Ages), NEW s \in Seq(Ages), Recent(t, s), Ordered(s)
  PROVE  LET v == InWindow(OlderRequests(s))
         IN  Recent(OlderRequests(t), v)
<1> DEFINE T == OlderRequests(t)
           S == OlderRequests(s)
           v == InWindow(S)
<1>1. /\ T \in Seq(Ages) /\ Len(T) = Len(t) /\ S \in Seq(Ages) /\ Len(S) = Len(s)
      /\ Ordered(S)
      /\ \A i \in 1..Len(t) : T[i] = OneOlder(t[i])
      /\ \A i \in 1..Len(s) : S[i] = OneOlder(s[i])
  BY OlderKeeps
<1>2. PICK k \in 0..Len(S) : /\ v = SubSeq(S, k + 1, Len(S))
                             /\ \A i \in 1..Len(S) : i <= k <=> S[i] > Window
  BY <1>1, WindowIsSuffix
<1>3. v \in Seq(Ages) /\ Len(v) = Len(s) - k /\ \A i \in 1..(Len(s) - k) : v[i] = S[k + i]
  BY <1>1, <1>2, Suffix
<1>4. Len(t) \in Nat /\ Len(s) \in Nat /\ k \in 0..Len(s)
      /\ (\A i \in 1..Len(s) : S[i] \in Nat) /\ Window \in Nat
  <2>1. \A i \in 1..Len(s) : S[i] \in Ages
    BY <1>1
  <2>2. Len(t) \in Nat /\ Len(s) \in Nat
    OBVIOUS
  <2> QED BY <1>1, <2>1, <2>2, RateConstants
<1> HIDE DEF v, T, S
<1>5. /\ Len(s) <= Len(t)
      /\ \A i \in 1..Len(s) : s[i] = t[Len(t) - Len(s) + i]
      /\ \A i \in 1..(Len(t) - Len(s)) : t[i] > Window
  BY DEF Recent
<1>6. ASSUME NEW i \in 1..Len(s) PROVE S[i] = T[(Len(t) - Len(s)) + i]
  <2>1. (Len(t) - Len(s)) + i \in 1..Len(t)
    BY <1>4, <1>5
  <2> QED BY <1>1, <1>5, <2>1
<1>7. Len(v) <= Len(T) /\ Len(T) - Len(v) = (Len(t) - Len(s)) + k
  BY <1>1, <1>3, <1>4, <1>5
<1>8. ASSUME NEW i \in 1..Len(v)
      PROVE  v[i] = T[((Len(t) - Len(s)) + k) + i] /\ v[i] <= Window
  <2>1. /\ i \in 1..(Len(s) - k) /\ k + i \in 1..Len(s) /\ ~(k + i <= k)
        /\ (Len(t) - Len(s)) + (k + i) = ((Len(t) - Len(s)) + k) + i
    BY <1>3, <1>4, <1>5
  <2>2. v[i] = S[k + i] /\ ~(S[k + i] > Window) /\ S[k + i] \in Nat
    BY <1>1, <1>2, <1>3, <1>4, <2>1
  <2>3. S[k + i] = T[((Len(t) - Len(s)) + k) + i]
    BY <1>6, <2>1
  <2> QED BY <1>4, <2>2, <2>3
<1>9. ASSUME NEW i \in 1..((Len(t) - Len(s)) + k) PROVE T[i] > Window
  <2>1. CASE i <= Len(t) - Len(s)
    <3>1. i \in 1..(Len(t) - Len(s)) /\ i \in 1..Len(t)
      BY <1>4, <1>5, <2>1
    <3>2. t[i] > Window /\ t[i] \in Ages
      BY <1>5, <3>1
    <3> QED BY <1>1, <3>1, <3>2, OlderAge
  <2>2. CASE i > Len(t) - Len(s)
    <3> DEFINE j == i - (Len(t) - Len(s))
    <3>1. j \in 1..Len(s) /\ j <= k /\ (Len(t) - Len(s)) + j = i
      BY <1>4, <1>5, <2>2
    <3> HIDE DEF j
    <3>2. S[j] > Window
      BY <1>1, <1>2, <3>1
    <3> QED BY <1>6, <3>1, <3>2
  <2> QED BY <1>4, <1>5, <2>1, <2>2
<1>10. Recent(T, v)
  BY <1>7, <1>8, <1>9 DEF Recent
<1> QED BY <1>10 DEF v, T, S

(* Whatever sweep is_rate_limited makes first, it counts the window. *)
LEMMA LookedUpKeeps ==
  ASSUME RateInv, NEW ip \in IPs, NEW m \in LookedUp(ip)
  PROVE  /\ m \in RateMaps
         /\ Agrees(m, asked)
         /\ Tracked(m) \subseteq Tracked(m_rate_limit_map)
         /\ Limit # -1 /\ ip \in Tracked(m) => Len(m[ip]) = Len(asked[ip])
<1>1. /\ m_rate_limit_map \in RateMaps /\ asked \in [IPs -> Seq(Ages)]
      /\ Agrees(m_rate_limit_map, asked)
  BY DEF RateInv
<1>2. CASE Limit = -1
  BY <1>1, <1>2 DEF LookedUp
<1>3. CASE Limit # -1
  <2>1. PICK l \in {m_rate_limit_map, Collected(m_rate_limit_map)} : m = Looked(l, ip)
    BY <1>3 DEF LookedUp
  <2>2. /\ l \in RateMaps /\ Agrees(l, asked)
        /\ Tracked(l) \subseteq Tracked(m_rate_limit_map)
    BY <1>1, <2>1, CollectedKeeps
  <2> QED BY <1>1, <2>1, <2>2, LookedKeeps
<1> QED BY <1>2, <1>3

(* update_rate_limit counts the request just when it tracks the address. *)
LEMMA UpdateKeeps ==
  ASSUME Limit # -1, NEW m \in RateMaps, NEW a \in [IPs -> Seq(Ages)], Agrees(m, a),
         NEW ip \in IPs
  PROVE  LET u == update_rate_limit(m, ip)
         IN  /\ u \in RateMaps
             /\ IF ip \in Tracked(u)
                THEN Agrees(u, Counted(a, ip))
                ELSE Agrees(u, a)
             /\ ip \in Tracked(m) => ip \in Tracked(u)
<1> DEFINE c == Collected(m)
           u == update_rate_limit(m, ip)
<1>1. c \in RateMaps /\ Agrees(c, a) /\ Tracked(c) \subseteq Tracked(m)
  BY CollectedKeeps
<1>2. \/ u = With(m, ip)
      \/ ip \notin Tracked(m) /\ u = With(c, ip)
      \/ ip \notin Tracked(m) /\ u = c
  BY DEF update_rate_limit
<1> HIDE DEF u, c
<1>3. /\ With(m, ip) \in RateMaps /\ ip \in Tracked(With(m, ip))
      /\ Agrees(With(m, ip), Counted(a, ip))
  BY WithKeeps
<1>4. /\ With(c, ip) \in RateMaps /\ ip \in Tracked(With(c, ip))
      /\ Agrees(With(c, ip), Counted(a, ip))
  BY <1>1, WithKeeps
<1>5. /\ u \in RateMaps
      /\ IF ip \in Tracked(u) THEN Agrees(u, Counted(a, ip)) ELSE Agrees(u, a)
      /\ ip \in Tracked(m) => ip \in Tracked(u)
  BY <1>1, <1>2, <1>3, <1>4
<1> QED BY <1>5 DEF u

LEMMA InitRate == RateInit => RateInv
<1> SUFFICES ASSUME RateInit PROVE RateInv
  OBVIOUS
<1>1. /\ m_rate_limit_map = [ip \in {} |-> <<>>] /\ asked = [ip \in IPs |-> <<>>]
      /\ refused = {}
  BY DEF RateInit
<1>2. m_rate_limit_map \in RateMaps /\ Tracked(m_rate_limit_map) = {}
  <2>1. m_rate_limit_map \in [{} -> Seq(Ages)] /\ {} \in SUBSET IPs
    BY <1>1
  <2> QED BY <1>1, <2>1 DEF RateMaps, Tracked
<1>3. asked \in [IPs -> Seq(Ages)] /\ \A ip \in IPs : asked[ip] = <<>>
  BY <1>1
<1>4. \A ip \in IPs : Ordered(asked[ip]) /\ Len(asked[ip]) = 0
  BY <1>3 DEF Ordered
<1> QED BY <1>1, <1>2, <1>3, <1>4 DEF RateInv, Agrees, RefusedOverBudget

(* A step that sends no webhook and lets no time pass. *)
LEMMA QuietStep ==
  ASSUME RateInv, NEW ip \in IPs, NEW m \in LookedUp(ip), m_rate_limit_map' = m,
         asked' = asked, refused' = {} \/ (refused' = {ip} /\ Len(asked[ip]) >= Limit)
  PROVE  RateInv'
<1>1. /\ m \in RateMaps /\ Agrees(m, asked)
      /\ Tracked(m) \subseteq Tracked(m_rate_limit_map)
  BY LookedUpKeeps
<1>2. Agrees(m_rate_limit_map, asked)'
  BY <1>1 DEF Agrees, Tracked
<1>3. Limit = -1 => Tracked(m_rate_limit_map)' = {}
  BY <1>1 DEF RateInv, Tracked
<1>4. RefusedOverBudget' /\ refused' \subseteq IPs
  BY DEF RefusedOverBudget
<1> QED BY <1>1, <1>2, <1>3, <1>4 DEF RateInv

(* A webhook goes out only below the limit. *)
LEMMA AskStep ==
  ASSUME RateInv, NEW ip \in IPs, Ask(ip)
  PROVE  RateInv'
<1>1. PICK m \in LookedUp(ip) :
        /\ ~is_rate_limited(m, ip)
        /\ m_rate_limit_map' = update_rate_limit(m, ip)
        /\ asked' = IF ip \in Tracked(m_rate_limit_map')
                    THEN [asked EXCEPT ![ip] = Remembered(Append(@, 0))] ELSE asked
        /\ refused' = {}
  BY DEF Ask
<1>2. /\ m \in RateMaps /\ Agrees(m, asked)
      /\ Tracked(m) \subseteq Tracked(m_rate_limit_map)
      /\ Limit # -1 /\ ip \in Tracked(m) => Len(m[ip]) = Len(asked[ip])
  BY LookedUpKeeps
<1>3. asked \in [IPs -> Seq(Ages)] /\ \A i \in IPs : Ordered(asked[i])
  BY DEF RateInv
<1>4. CASE Limit = -1
  <2>1. m_rate_limit_map' = m /\ Tracked(m) = {}
    BY <1>1, <1>2, <1>4 DEF update_rate_limit, RateInv
  <2>2. asked' = asked
    BY <1>1, <2>1
  <2> QED BY <1>1, <2>1, <2>2, QuietStep
<1>5. CASE Limit # -1
  <2> DEFINE s == asked[ip]
             u == update_rate_limit(m, ip)
  <2>0. Limit \in Nat
    BY <1>5, RateConstants
  <2>1. /\ u \in RateMaps
        /\ IF ip \in Tracked(u) THEN Agrees(u, Counted(asked, ip))
           ELSE Agrees(u, asked)
    BY <1>2, <1>3, <1>5, UpdateKeeps
  <2>2. s \in Seq(Ages) /\ Append(s, 0) \in Seq(Ages) /\ Len(s) \in Nat
        /\ Len(Append(s, 0)) = Len(s) + 1
    BY <1>3, RateConstants
  <2>3. Len(s) + 1 <= IF Limit = 0 THEN 1 ELSE Limit
    <3>1. CASE ip \in Tracked(m)
      BY <1>1, <1>2, <1>5, <2>0, <2>2, <3>1 DEF is_rate_limited
    <3>2. CASE ip \notin Tracked(m)
      <4>1. s = <<>>
        BY <1>2, <3>2 DEF Agrees
      <4> QED BY <2>0, <4>1
    <3> QED BY <3>1, <3>2
  <2>4. Remembered(Append(s, 0)) = Append(s, 0)
    BY <2>0, <2>2, <2>3 DEF Remembered
  <2>5. Ordered(Append(s, 0))
    <3>1. Ordered(s) /\ (\A i \in 1..Len(s) : s[i] \in Nat /\ Append(s, 0)[i] = s[i])
          /\ Append(s, 0)[Len(s) + 1] = 0
      <4>1. \A i \in 1..Len(s) : s[i] \in Ages /\ Append(s, 0)[i] = s[i]
        BY <2>2
      <4>2. Append(s, 0)[Len(s) + 1] = 0
        BY <2>2
      <4> QED BY <1>3, <4>1, <4>2, RateConstants
    <3> DEFINE A == Append(s, 0)
    <3>2. Len(A) = Len(s) + 1
      BY <2>2
    <3>3. A[Len(s) + 1] = 0 /\ (\A i \in 1..Len(s) : A[i] = s[i])
      BY <3>1
    <3> HIDE DEF A
    <3>4. Ordered(A)
      <4> SUFFICES ASSUME NEW i \in 1..(Len(s) + 1), NEW j \in 1..(Len(s) + 1), i < j
                   PROVE  A[j] <= A[i]
        BY <3>2 DEF Ordered
      <4>1. i \in 1..Len(s)
        BY <2>2
      <4>2. CASE j = Len(s) + 1
        BY <3>1, <3>3, <4>1, <4>2
      <4>3. CASE j \in 1..Len(s)
        BY <3>1, <3>3, <4>1, <4>3 DEF Ordered
      <4> QED BY <2>2, <4>2, <4>3
    <3> QED BY <3>4 DEF A
  <2> HIDE DEF u
  <2>6. CASE ip \in Tracked(u)
    <3> DEFINE b == Counted(asked, ip)
    <3>1. asked' = b /\ m_rate_limit_map' = u
      BY <1>1, <2>4, <2>6 DEF u, Counted
    <3>2. b \in [IPs -> Seq(Ages)] /\ b[ip] = Append(s, 0)
          /\ (\A i \in IPs : i # ip => b[i] = asked[i])
      BY <1>3, <2>2 DEF Counted
    <3>3. Agrees(u, b)
      BY <2>1, <2>6
    <3> HIDE DEF b, s
    <3>4. \A i \in IPs : Ordered(b[i])
      BY <1>3, <2>5, <3>2
    <3>5. ASSUME NEW i \in IPs PROVE Len(b[i]) <= IF Limit = 0 THEN 1 ELSE Limit
      <4>1. CASE i = ip
        BY <2>2, <2>3, <3>2, <4>1
      <4>2. CASE i # ip
        BY <2>0, <3>2, <4>2 DEF RateInv
      <4> QED BY <4>1, <4>2
    <3>6. Agrees(m_rate_limit_map, asked)'
      BY <3>1, <3>3 DEF Agrees, Tracked
    <3> QED
      BY <1>1, <1>5, <2>1, <3>1, <3>2, <3>4, <3>5, <3>6 DEF RateInv, RefusedOverBudget
  <2>7. CASE ip \notin Tracked(u)
    <3>1. asked' = asked /\ m_rate_limit_map' = u
      BY <1>1, <2>7 DEF u
    <3>2. Agrees(m_rate_limit_map, asked)'
      BY <2>1, <2>7, <3>1 DEF Agrees, Tracked
    <3> QED BY <1>1, <1>5, <2>1, <3>1, <3>2 DEF RateInv, RefusedOverBudget
  <2> QED BY <2>6, <2>7
<1> QED BY <1>4, <1>5

LEMMA RateTickStep ==
  ASSUME RateInv, RateTick
  PROVE  RateInv'
<1> DEFINE m == m_rate_limit_map
<1>1. m \in RateMaps /\ asked \in [IPs -> Seq(Ages)] /\ Agrees(m, asked)
      /\ (\A ip \in IPs : Ordered(asked[ip]))
  BY DEF RateInv
<1>2. m' = [ip \in Tracked(m) |-> OlderRequests(m[ip])]
      /\ asked' = [ip \in IPs |-> InWindow(OlderRequests(asked[ip]))] /\ refused' = {}
  BY DEF RateTick
<1>3. m' \in RateMaps /\ Tracked(m)' = Tracked(m) /\ Tracked(m) \subseteq IPs
  <2>1. Tracked(m) \subseteq IPs /\ \A ip \in Tracked(m) : m[ip] \in Seq(Ages)
    BY <1>1, MapType
  <2>2. m' \in [Tracked(m) -> Seq(Ages)]
    BY <1>2, <2>1, OlderKeeps
  <2>3. DOMAIN m' = Tracked(m)
    BY <1>2
  <2> QED BY <2>1, <2>2, <2>3 DEF RateMaps, Tracked
<1>4. ASSUME NEW ip \in IPs
      PROVE  /\ asked'[ip] \in Seq(Ages) /\ Ordered(asked'[ip])
             /\ Len(asked'[ip]) <= Len(asked[ip])
             /\ IF ip \in Tracked(m) THEN Recent(m'[ip], asked'[ip])
                ELSE asked'[ip] = <<>>
  <2> DEFINE s == asked[ip]
             S == OlderRequests(s)
             v == InWindow(S)
  <2>1. s \in Seq(Ages) /\ Ordered(s) /\ asked'[ip] = v
    BY <1>1, <1>2
  <2>2. S \in Seq(Ages) /\ Ordered(S) /\ Len(S) = Len(s)
    BY <2>1, OlderKeeps
  <2>3. PICK k \in 0..Len(S) : v = SubSeq(S, k + 1, Len(S))
    BY <2>2, WindowIsSuffix
  <2>4. v \in Seq(Ages) /\ Len(v) = Len(S) - k /\ \A i \in 1..(Len(S) - k) : v[i] = S[k + i]
    BY <2>2, <2>3, Suffix
  <2> HIDE DEF v, S, s
  <2>5. Len(S) \in Nat /\ Len(v) \in Nat /\ Len(v) <= Len(s)
    BY <2>2, <2>3, <2>4
  <2>6. Ordered(v)
    <3> SUFFICES ASSUME NEW i \in 1..(Len(S) - k), NEW j \in 1..(Len(S) - k), i < j
                 PROVE  v[j] <= v[i]
      BY <2>4 DEF Ordered
    <3>1. k + i \in 1..Len(S) /\ k + j \in 1..Len(S) /\ k + i < k + j
      BY <2>5
    <3>2. S[k + j] <= S[k + i]
      BY <2>2, <3>1 DEF Ordered
    <3> QED BY <2>4, <3>2
  <2>7. CASE ip \in Tracked(m)
    <3>1. m[ip] \in Seq(Ages) /\ Recent(m[ip], s) /\ m'[ip] = OlderRequests(m[ip])
      BY <1>1, <1>2, <2>7, MapType DEF Agrees, s
    <3>2. Recent(m'[ip], v)
      BY <2>1, <3>1, TickKeeps DEF v, S
    <3> QED BY <2>1, <2>4, <2>5, <2>6, <2>7, <3>2 DEF s
  <2>8. CASE ip \notin Tracked(m)
    <3>1. s = <<>>
      BY <1>1, <2>8 DEF Agrees, s
    <3>2. Len(v) = 0
      BY <2>5, <3>1
    <3>3. v = <<>>
      BY <2>4, <3>2, EmptySeq
    <3> QED BY <2>1, <2>4, <2>5, <2>6, <2>8, <3>3 DEF s
  <2> QED BY <2>7, <2>8
<1>5. asked' \in [IPs -> Seq(Ages)]
  BY <1>2, <1>4
<1>6. Agrees(m, asked)'
  BY <1>3, <1>4 DEF Agrees
<1>7. Limit >= 0 => \A ip \in IPs : Len(asked'[ip]) <= IF Limit = 0 THEN 1 ELSE Limit
  <2> SUFFICES ASSUME Limit >= 0, NEW ip \in IPs
               PROVE  Len(asked'[ip]) <= IF Limit = 0 THEN 1 ELSE Limit
    OBVIOUS
  <2>1. Len(asked[ip]) <= IF Limit = 0 THEN 1 ELSE Limit
    BY DEF RateInv
  <2>2. Len(asked[ip]) \in Nat /\ Len(asked'[ip]) \in Nat /\ Limit \in Int
    BY <1>1, <1>4, RateConstants
  <2> QED BY <1>4, <2>1, <2>2
<1>8. Limit = -1 => Tracked(m)' = {}
  BY <1>3 DEF RateInv
<1> QED BY <1>2, <1>3, <1>4, <1>5, <1>6, <1>7, <1>8 DEF RateInv, RefusedOverBudget

LEMMA NextRate == RateInv /\ [RateNext]_rateVars => RateInv'
<1> SUFFICES ASSUME RateInv, [RateNext]_rateVars PROVE RateInv'
  OBVIOUS
<1>1. ASSUME NEW ip \in IPs, OverLimit(ip) PROVE RateInv'
  <2>1. PICK m \in LookedUp(ip) : /\ is_rate_limited(m, ip)
                                  /\ m_rate_limit_map' = m
                                  /\ refused' = {ip} /\ asked' = asked
    BY <1>1 DEF OverLimit, Refused
  <2>2. Len(asked[ip]) >= Limit
    BY <2>1, LookedUpKeeps DEF is_rate_limited
  <2> QED BY <2>1, <2>2, QuietStep
<1>2. ASSUME NEW ip \in IPs, NotAsked(ip) PROVE RateInv'
  BY <1>2, QuietStep DEF NotAsked
<1>3. ASSUME NEW ip \in IPs, Ask(ip) PROVE RateInv'
  BY <1>3, AskStep
<1>4. CASE RateTick
  BY <1>4, RateTickStep
<1>5. CASE UNCHANGED rateVars
  BY <1>5 DEF rateVars, RateInv, Agrees, Tracked, RefusedOverBudget
<1> QED BY <1>1, <1>2, <1>3, <1>4, <1>5 DEF RateNext

(* For any limit, window and number of addresses: no window of a tracked   *)
(* address holds more webhooks than the limit, and no address is refused   *)
(* with fewer, whichever sweeps of the map happen when.                    *)
THEOREM RateIsExact == RateSpec => []RateLimitExact
<1>1. RateInv => RateLimitExact
  <2> SUFFICES ASSUME RateInv PROVE RateLimitExact
    OBVIOUS
  <2>1. ASSUME Limit > 0, NEW ip \in IPs PROVE Len(asked[ip]) <= Limit
    BY <2>1, RateConstants DEF RateInv
  <2> QED BY <2>1 DEF RateInv, RateLimitExact, WebhookBudget
<1> QED BY <1>1, InitRate, NextRate, PTL DEF RateSpec

-----------------------------------------------------------------------------
(* The caps.                                                               *)

RateCapInv == Within(Tracked(m_rate_limit_map), MAX_RATE_LIMIT_ENTRIES)

(* A full map takes no new address, even after its sweep. *)
LEMMA UpdateCap ==
  ASSUME NEW m \in RateMaps, NEW a \in [IPs -> Seq(Ages)], Agrees(m, a), NEW ip \in IPs,
         Within(Tracked(m), MAX_RATE_LIMIT_ENTRIES)
  PROVE  Within(Tracked(update_rate_limit(m, ip)), MAX_RATE_LIMIT_ENTRIES)
<1> DEFINE c == Collected(m)
           u == update_rate_limit(m, ip)
<1>1. c \in RateMaps /\ Agrees(c, a) /\ Tracked(c) \subseteq Tracked(m)
  BY CollectedKeeps
<1>2. MAX_RATE_LIMIT_ENTRIES \in Nat
  BY RateAssumption
<1>3. Within(Tracked(c), MAX_RATE_LIMIT_ENTRIES)
  BY <1>1, <1>2, WithinSubset
<1>4. /\ Tracked(With(m, ip)) = Tracked(m) \cup {ip}
      /\ Tracked(With(c, ip)) = Tracked(c) \cup {ip}
  BY <1>1, WithKeeps
<1>5. CASE u = m \/ u = c
  BY <1>3, <1>5
<1>6. CASE /\ u = With(m, ip)
           /\ ip \in Tracked(m) \/ Cardinality(Tracked(m)) < MAX_RATE_LIMIT_ENTRIES
  BY <1>2, <1>4, <1>6, WithinAdd DEF Within
<1>7. CASE u = With(c, ip) /\ Cardinality(Tracked(c)) < MAX_RATE_LIMIT_ENTRIES
  BY <1>2, <1>3, <1>4, <1>7, WithinAdd DEF Within
<1> QED BY <1>5, <1>6, <1>7 DEF update_rate_limit

LEMMA RateCapStep ==
  ASSUME RateInv, RateCapInv, [RateNext]_rateVars
  PROVE  RateCapInv'
<1> DEFINE m0 == m_rate_limit_map
<1>0. MAX_RATE_LIMIT_ENTRIES \in Nat
  BY RateAssumption
<1>1. CASE Tracked(m0)' \subseteq Tracked(m0)
  BY <1>0, <1>1, WithinSubset DEF RateCapInv
<1>2. ASSUME NEW ip \in IPs, OverLimit(ip) \/ NotAsked(ip) PROVE RateCapInv'
  <2>1. PICK m \in LookedUp(ip) : m0' = m
    BY <1>2 DEF OverLimit, NotAsked, Refused
  <2>2. Tracked(m) \subseteq Tracked(m0)
    BY LookedUpKeeps
  <2> QED BY <1>1, <2>1, <2>2 DEF Tracked
<1>3. ASSUME NEW ip \in IPs, Ask(ip) PROVE RateCapInv'
  <2>1. PICK m \in LookedUp(ip) : m0' = update_rate_limit(m, ip)
    BY <1>3 DEF Ask
  <2>2. m \in RateMaps /\ Agrees(m, asked) /\ Tracked(m) \subseteq Tracked(m0)
    BY LookedUpKeeps
  <2>3. Within(Tracked(m), MAX_RATE_LIMIT_ENTRIES)
    BY <1>0, <2>2, WithinSubset DEF RateCapInv
  <2>4. Within(Tracked(update_rate_limit(m, ip)), MAX_RATE_LIMIT_ENTRIES)
    BY <2>2, <2>3, UpdateCap DEF RateInv
  <2>5. Tracked(m0)' = Tracked(update_rate_limit(m, ip))
    BY <2>1 DEF Tracked
  <2> QED BY <2>4, <2>5 DEF RateCapInv
<1>4. CASE RateTick
  BY <1>1, <1>4 DEF RateTick, Tracked
<1>5. CASE UNCHANGED rateVars
  BY <1>1, <1>5 DEF rateVars, Tracked
<1> QED BY <1>2, <1>3, <1>4, <1>5 DEF RateNext

(* The map of rate-limited addresses never grows past its cap. *)
THEOREM RateMapBounded ==
  RateSpec => [](Cardinality(Tracked(m_rate_limit_map)) <= MAX_RATE_LIMIT_ENTRIES)
<1>1. RateInit => RateCapInv
  <2>1. RateInit => Tracked(m_rate_limit_map) = {}
    BY DEF RateInit, Tracked
  <2> QED BY <2>1, WithinEmpty, RateAssumption DEF RateCapInv
<1>2. RateInv /\ RateCapInv /\ [RateNext]_rateVars => RateCapInv'
  BY RateCapStep
<1>3. RateCapInv => Cardinality(Tracked(m_rate_limit_map)) <= MAX_RATE_LIMIT_ENTRIES
  BY DEF RateCapInv, Within
<1> QED BY <1>1, <1>2, <1>3, InitRate, NextRate, PTL DEF RateSpec

(* The tests do not touch one another's state: the listener with all of    *)
(* them behaves as each of them alone, so that every theorem about one     *)
(* holds of the whole.                                                     *)
THEOREM AdmissionImplements ==
  AdmissionSpec => MapSpec /\ GateSpec /\ KeySpec /\ RateSpec /\ LimitSpec /\ AclSpec
<1>1. AdmissionInit
        => MapInit /\ GateInit /\ KeyInit /\ RateInit /\ LimitInit /\ AclInit
  BY DEF AdmissionInit
<1>2. [AdmissionNext]_admissionVars
        => /\ [MapNext]_mapVars /\ [GateNext]_gateVars /\ [KeyNext]_keyVars
           /\ [RateNext]_rateVars /\ [LimitNext]_limitVars /\ [AclNext]_aclVars
  BY DEF AdmissionNext, admissionVars
<1> QED
  BY <1>1, <1>2, PTL
     DEF AdmissionSpec, MapSpec, GateSpec, KeySpec, RateSpec, LimitSpec, AclSpec

(* The caps on held sockets, requests in flight, rejected and cached keys  *)
(* and tracked addresses hold together, for any values of them, in         *)
(* whatever order callers, answers, sweeps and teardowns come.             *)
THEOREM AdmissionCaps == AdmissionSpec => []AdmissionBounded
  BY AdmissionImplements, GateCapsHold, KeyCapsHold, RateMapBounded, PTL
     DEF AdmissionBounded
=============================================================================
