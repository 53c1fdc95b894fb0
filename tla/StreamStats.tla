---------------------------- MODULE StreamStats ----------------------------
(***************************************************************************)
(* The per-stream counters behind /stats: continuity breaks found in what  *)
(* the publisher sends (sls_ts_check_continuity, called by                 *)
(* CSLSMapData::put) and packets dropped towards viewers                   *)
(* (CSLSRole::sample_viewer_snd_drops).  They live in the ring; publisher  *)
(* and viewers update them from their workers, HTTP threads read them one  *)
(* after the other and may reset each as they read it, and the ring itself *)
(* comes and goes.  The ghosts count what really happened.                 *)
(***************************************************************************)
EXTENDS Integers, Sequences, FiniteSets, FiniteSetsExt, Functions

CONSTANTS
  Viewers,
  HttpThreads,
  Pids,
  CcModulus,       \* 16
  MaxTracked,      \* TS_CC_MAX_PIDS
  MaxGap,          \* bound: packets of a PID lost in a row
  MaxEvents        \* bound: what is counted, in all

ASSUME StatsAssumption ==
  /\ IsFiniteSet(Viewers)
  /\ CcModulus \in Nat /\ CcModulus > 2
  /\ MaxTracked \in Nat /\ MaxGap \in Nat /\ MaxEvents \in Nat

Counters == {"drops", "breaks"}
Zero == [c \in Counters |-> 0]

VARIABLES
  ringUp,          \* the stream has a ring
  counters,        \* m_viewer_snd_drops and m_ingest_discontinuities
  last_cc,         \* ts_cc_state: [tracked PIDs -> last counter]
  cc,              \* [Pids -> the encoder's counter]
  gap,             \* ghost: [Pids -> packets of a tracked PID lost since its last one]
  total,           \* [Viewers -> pktSndDropTotal of the socket]
  m_snd_drops_reported,
  sampleDue,       \* [Viewers -> a second has passed since the last sample]
  request,         \* [HttpThreads -> the counters still to be read, and reset]
  accounted,       \* ghost: returned by resetting reads, lost with a ring, or reported without one
  sampledGone,     \* ghost: drops sampled from viewers that have left
  hurt, certain    \* ghosts: reads of the publisher with any loss; with a short one

statsVars == <<ringUp, counters, last_cc, cc, gap, total, m_snd_drops_reported, sampleDue,
               request, accounted, sampledGone, hurt, certain>>

NoRequest == [todo |-> <<>>, clear |-> FALSE]

Happened == hurt + sampledGone + SumFunction(total)

StatsInit ==
  /\ ringUp = FALSE /\ counters = Zero /\ last_cc = <<>>
  /\ cc = [p \in Pids |-> 0] /\ gap = [p \in Pids |-> 0]
  /\ total = [v \in Viewers |-> 0] /\ m_snd_drops_reported = [v \in Viewers |-> 0]
  /\ sampleDue = [v \in Viewers |-> FALSE]
  /\ request = [t \in HttpThreads |-> NoRequest]
  /\ accounted = Zero /\ sampledGone = 0 /\ hurt = 0 /\ certain = 0

-----------------------------------------------------------------------------
(* A packet: [pid, cc, payload, declared].                                 *)
IsBreak(state, pkt) ==
  /\ pkt.pid \in DOMAIN state /\ pkt.payload /\ ~pkt.declared
  /\ pkt.cc # (state[pkt.pid] + 1) % CcModulus /\ pkt.cc # state[pkt.pid]

(* A new PID would be expected to start from zero.                         *)
Tracked_FromZero(state, pkt) ==
  IF pkt.pid \in DOMAIN state THEN [state EXCEPT ![pkt.pid] = IF pkt.payload THEN pkt.cc ELSE @]
  ELSE IF Cardinality(DOMAIN state) < MaxTracked
    THEN [p \in DOMAIN state \cup {pkt.pid} |-> IF p = pkt.pid THEN 0 ELSE state[p]]
    ELSE state

Tracked(state, pkt) ==
  IF pkt.pid \in DOMAIN state THEN [state EXCEPT ![pkt.pid] = IF pkt.payload THEN pkt.cc ELSE @]
  ELSE IF Cardinality(DOMAIN state) < MaxTracked
    THEN [p \in DOMAIN state \cup {pkt.pid} |-> IF p = pkt.pid THEN pkt.cc ELSE state[p]]
    ELSE state

(* The packets of a read, one after the other.                             *)
sls_ts_check_continuity(state, pkts) ==
  LET seen[k \in 0..Len(pkts)] ==
        IF k = 0 THEN [breaks |-> 0, state |-> state]
        ELSE [breaks |-> seen[k - 1].breaks + IF IsBreak(seen[k - 1].state, pkts[k]) THEN 1 ELSE 0,
              state  |-> Tracked(seen[k - 1].state, pkts[k])]
  IN  seen[Len(pkts)]

(* What the encoder may put into its next packet of a PID.                 *)
Packets(p) ==
  {[pid |-> p, cc |-> (cc[p] + 1) % CcModulus, payload |-> TRUE, declared |-> FALSE],
   [pid |-> p, cc |-> cc[p], payload |-> FALSE, declared |-> FALSE]}
    \cup {[pid |-> p, cc |-> 0, payload |-> TRUE, declared |-> TRUE]}
    \cup IF gap[p] = 0 /\ p \in DOMAIN last_cc
         THEN {[pid |-> p, cc |-> cc[p], payload |-> TRUE, declared |-> FALSE]} ELSE {}

(* CSLSMapData::put(): one read of the publisher, whose breaks count once. *)
put(pkts) ==
  LET seen == sls_ts_check_continuity(last_cc, pkts)
      lost(pkt) == pkt.payload /\ ~pkt.declared /\ gap[pkt.pid] > 0
                     /\ pkt.pid \in DOMAIN last_cc
      carried(p) == {k \in 1..Len(pkts) : pkts[k].pid = p /\ pkts[k].payload}
  IN  /\ ringUp
      /\ last_cc' = seen.state
      /\ counters' = [counters EXCEPT !["breaks"] = @ + IF seen.breaks > 0 THEN 1 ELSE 0]
      /\ cc' = [p \in Pids |-> IF carried(p) = {} THEN cc[p] ELSE pkts[Max(carried(p))].cc]
      /\ gap' = [p \in Pids |-> IF carried(p) = {} THEN gap[p] ELSE 0]
      /\ hurt' = hurt + IF \E k \in 1..Len(pkts) : lost(pkts[k]) THEN 1 ELSE 0
      /\ certain' = certain + IF \E k \in 1..Len(pkts) :
                                   lost(pkts[k]) /\ gap[pkts[k].pid] < CcModulus - 1 THEN 1 ELSE 0
      /\ UNCHANGED <<ringUp, total, m_snd_drops_reported, sampleDue, request, accounted, sampledGone>>

PutOne == \E p \in Pids : \E pkt \in Packets(p) : put(<<pkt>>)
PutTwo == \E p, q \in Pids : \E a \in Packets(p), b \in Packets(q) : p # q /\ put(<<a, b>>)

(* TLPKTDROP: a packet with payload does not reach the server.             *)
PacketDropped(p) ==
  /\ ringUp /\ gap[p] < MaxGap /\ Happened < MaxEvents
  /\ gap' = [gap EXCEPT ![p] = IF p \in DOMAIN last_cc THEN @ + 1 ELSE 0]
  /\ cc' = [cc EXCEPT ![p] = (@ + 1) % CcModulus]
  /\ UNCHANGED <<ringUp, counters, last_cc, total, m_snd_drops_reported, sampleDue, request,
                 accounted, sampledGone, hurt, certain>>

(* CSLSMapData::add() for a new publisher, and remove().                   *)
RingAdded ==
  /\ ~ringUp /\ ringUp' = TRUE /\ counters' = Zero /\ last_cc' = <<>>
  /\ \E c \in {0, 2} : cc' = [p \in Pids |-> c] /\ gap' = [p \in Pids |-> 0]
  /\ UNCHANGED <<total, m_snd_drops_reported, sampleDue, request, accounted, sampledGone,
                 hurt, certain>>

RingRemoved ==
  /\ ringUp /\ ringUp' = FALSE /\ counters' = Zero /\ last_cc' = <<>>
  /\ accounted' = [c \in Counters |-> accounted[c] + counters[c]]
  /\ UNCHANGED <<cc, gap, total, m_snd_drops_reported, sampleDue, request, sampledGone,
                 hurt, certain>>

-----------------------------------------------------------------------------
ViewerDrop(v) ==
  /\ Happened < MaxEvents
  /\ total' = [total EXCEPT ![v] = @ + 1]
  /\ UNCHANGED <<ringUp, counters, last_cc, cc, gap, m_snd_drops_reported, sampleDue, request,
                 accounted, sampledGone, hurt, certain>>

SecondPasses ==
  /\ \E v \in Viewers : ~sampleDue[v]
  /\ sampleDue' = [v \in Viewers |-> TRUE]
  /\ UNCHANGED <<ringUp, counters, last_cc, cc, gap, total, m_snd_drops_reported, request,
                 accounted, sampledGone, hurt, certain>>

(* The socket's whole total would be reported at every sample.             *)
Delta_Total(v) == total[v]
Delta(v) == total[v] - m_snd_drops_reported[v]

(* A report for a key without a ring is dropped.                           *)
sample_viewer_snd_drops(v) ==
  /\ sampleDue[v]
  /\ sampleDue' = [sampleDue EXCEPT ![v] = FALSE]
  /\ m_snd_drops_reported' = [m_snd_drops_reported EXCEPT ![v] = total[v]]
  /\ IF ringUp THEN counters' = [counters EXCEPT !["drops"] = @ + Delta(v)] /\ UNCHANGED accounted
               ELSE accounted' = [accounted EXCEPT !["drops"] = @ + Delta(v)] /\ UNCHANGED counters
  /\ UNCHANGED <<ringUp, last_cc, cc, gap, total, request, sampledGone, hurt, certain>>

(* A viewer leaves without a last sample; another takes its place.         *)
ViewerLeaves(v) ==
  /\ total[v] > 0
  /\ sampledGone' = sampledGone + m_snd_drops_reported[v]
  /\ total' = [total EXCEPT ![v] = 0]
  /\ m_snd_drops_reported' = [m_snd_drops_reported EXCEPT ![v] = 0]
  /\ sampleDue' = [sampleDue EXCEPT ![v] = TRUE]
  /\ UNCHANGED <<ringUp, counters, last_cc, cc, gap, request, accounted, hurt, certain>>

-----------------------------------------------------------------------------
(* GET /stats: a reset needs an API key, a list of all publishers too.     *)
StatsRequest(t, clear, authorized, named) ==
  /\ request[t] = NoRequest
  /\ clear \/ ~named => authorized
  /\ request' = [request EXCEPT ![t] = [todo |-> <<"drops", "breaks">>, clear |-> clear]]
  /\ UNCHANGED <<ringUp, counters, last_cc, cc, gap, total, m_snd_drops_reported, sampleDue,
                 accounted, sampledGone, hurt, certain>>

(* The getters of CSLSMapData: with a reset the counter is exchanged.      *)
AfterRead(c, clear) == IF clear /\ ringUp THEN 0 ELSE counters[c]

(* create_json_stats_for_publisher() reads one counter after the other; a  *)
(* reset is part of the read.                                              *)
StatsRead(t) ==
  LET c == Head(request[t].todo)
      left == AfterRead(c, request[t].clear)
  IN  /\ request[t].todo # <<>>
      /\ counters' = [counters EXCEPT ![c] = left]
      /\ accounted' = [accounted EXCEPT ![c] = @ + counters[c] - left]
      /\ request' = [request EXCEPT ![t] =
           IF Len(@.todo) = 1 THEN NoRequest ELSE [@ EXCEPT !.todo = Tail(request[t].todo)]]
      /\ UNCHANGED <<ringUp, last_cc, cc, gap, total, m_snd_drops_reported, sampleDue,
                     sampledGone, hurt, certain>>

StatsNext ==
  \/ PutOne \/ PutTwo \/ RingAdded \/ RingRemoved \/ SecondPasses
  \/ \E p \in Pids : PacketDropped(p)
  \/ \E v \in Viewers : ViewerDrop(v) \/ sample_viewer_snd_drops(v) \/ ViewerLeaves(v)
  \/ \E t \in HttpThreads : StatsRead(t) \/ \E clear, a, n \in BOOLEAN : StatsRequest(t, clear, a, n)

StatsSpec == StatsInit /\ [][StatsNext]_statsVars

-----------------------------------------------------------------------------
(* What a client that resets has been told, with what the ring holds and   *)
(* what went with an earlier ring, is what was counted: a viewer's drop is *)
(* reported once however samples, resets and rings interleave; a           *)
(* continuity break is counted for no read of the publisher in which       *)
(* nothing was missing, and for every one that misses fewer packets than   *)
(* the counter can tell apart.                                             *)
CountedOnce ==
  LET all(c) == accounted[c] + counters[c]
      sampled == SumFunction(m_snd_drops_reported)
  IN  /\ all("drops") = sampledGone + sampled
      /\ all("breaks") \in certain..hurt
=============================================================================
