------------------------------- MODULE Egress -------------------------------
(***************************************************************************)
(* The sending side of one player or pusher: CSLSRole::handler_write_data  *)
(* as a worker's egress pass drives it, with the publisher filling the     *)
(* ring and libsrt draining the send buffer at the same time.  A byte is   *)
(* named by its offset in the stream.  The ring is its write head and the  *)
(* reader's position: RecycleArray has its details.  Times are ages.       *)
(***************************************************************************)
EXTENDS Integers, FiniteSets

CONSTANTS
  TS_UDP_LEN,           \* bytes of a packet
  DATA_BUFF_SIZE,       \* bytes of m_data
  MAX_EGRESS_BATCHES,
  RingBytes,
  SndBuf,               \* packets the send buffer of the socket holds
  StuckTimeout,         \* backpressure_stuck_timeout_ms()
  IdleTimeouts,         \* configured idle timeouts, -1: unlimited
  MaxPublished,         \* bound: bytes the publisher puts
  MaxShortWrites        \* bound: writes that report less than a packet

ASSUME EgressAssumption ==
  /\ {TS_UDP_LEN, MAX_EGRESS_BATCHES, SndBuf, StuckTimeout} \subseteq Nat \ {0}
  /\ DATA_BUFF_SIZE \in Nat /\ DATA_BUFF_SIZE >= TS_UDP_LEN
  /\ DATA_BUFF_SIZE % TS_UDP_LEN = 0
  /\ IdleTimeouts \subseteq Nat \cup {-1}
  /\ RingBytes \in Nat /\ MaxPublished \in Nat /\ MaxShortWrites \in Nat

VARIABLES
  published, hasRing,   \* write head of the ring; does the ring exist
  readPos,              \* m_map_data_id
  staged,               \* offset of the first byte of m_data
  m_data_pos, m_data_len,
  room,                 \* packets that still fit into the send buffer
  m_epoll_out_armed,
  m_backpressure_stuck_since_ms,   \* age, -1 when no streak is running
  m_idle_streams_timeout,
  inactive,             \* age of m_invalid_begin_tm
  epc, batch,           \* where handler_write_data is
  peer,                 \* "up" or "gone"
  shortWrites,
  ended,                \* why the role was invalidated, "no" while it lives
  expected,             \* history: the offset the viewer needs next
  sinceSent             \* history: age of the last packet that was sent

egressVars == <<published, hasRing, readPos, staged, m_data_pos, m_data_len, room,
                m_epoll_out_armed, m_backpressure_stuck_since_ms,
                m_idle_streams_timeout, inactive, epc, batch, peer, shortWrites, ended, expected, sinceSent>>
ringSide == <<published, hasRing, m_idle_streams_timeout, shortWrites>>
clocks == <<m_backpressure_stuck_since_ms, inactive, sinceSent>>
buffer == <<staged, m_data_pos, m_data_len>>

EgressInit ==
  /\ published = 0 /\ hasRing = TRUE /\ readPos = 0
  /\ staged = 0 /\ m_data_pos = 0 /\ m_data_len = 0
  /\ room = SndBuf /\ m_idle_streams_timeout \in IdleTimeouts
  /\ m_epoll_out_armed = FALSE
  /\ m_backpressure_stuck_since_ms = -1 /\ inactive = 0 /\ sinceSent = 0
  /\ epc = "parked" /\ batch = 0 /\ peer = "up" /\ shortWrites = 0
  /\ ended = "no" /\ expected = 0

-----------------------------------------------------------------------------
(* m_map_data->get(): nothing when there is no ring or no whole packet; a  *)
(* reader that was lapped is taken to the live end and gets nothing.       *)
Lapped == published - readPos > RingBytes

Available ==
  LET whole == ((published - readPos) \div TS_UDP_LEN) * TS_UDP_LEN
  IN  IF whole < DATA_BUFF_SIZE THEN whole ELSE DATA_BUFF_SIZE

EgressPass ==
  /\ epc = "parked" /\ ended = "no"
  /\ epc' = "fetch" /\ batch' = 0
  /\ UNCHANGED <<ringSide, readPos, buffer, room, m_epoll_out_armed, clocks, peer,
                 ended, expected>>

(* A batch that is not sent yet is never fetched over.                     *)
MayFetch_Always == TRUE
MayFetch == m_data_len < TS_UDP_LEN

Fetch ==
  /\ epc = "fetch"
  /\ CASE ~MayFetch ->
            /\ epc' = "send"
            /\ UNCHANGED <<readPos, buffer, inactive, expected>>
       [] MayFetch /\ hasRing /\ Lapped ->
            /\ epc' = "arm" /\ readPos' = published /\ expected' = published
            /\ UNCHANGED <<buffer, inactive>>
       [] MayFetch /\ hasRing /\ ~Lapped /\ Available > 0 ->
            /\ epc' = "send"
            /\ staged' = readPos /\ m_data_pos' = 0 /\ m_data_len' = Available
            /\ readPos' = readPos + Available
            /\ inactive' = 0
            /\ UNCHANGED expected
       [] OTHER ->
            epc' = "arm" /\ UNCHANGED <<readPos, buffer, inactive, expected>>
  /\ UNCHANGED <<ringSide, room, m_epoll_out_armed, m_backpressure_stuck_since_ms,
                 batch, peer, ended, sinceSent>>

(* A packet that is accepted does not end the streak of refusals.          *)
StreakAfterSend_Kept == m_backpressure_stuck_since_ms
StreakAfterSend == -1

(* srt_sendmsg() of one packet: taken, refused for now, or failed.         *)
libsrt_write ==
  IF peer = "gone" THEN "failed" ELSE IF room = 0 THEN "EASYNCSND" ELSE "ok"

(* write() of one packet, while a whole one is left.                       *)
Send ==
  /\ epc = "send" /\ m_data_len - m_data_pos >= TS_UDP_LEN /\ libsrt_write = "ok"
  /\ room' = room - 1
  /\ m_data_pos' = m_data_pos + TS_UDP_LEN
  /\ m_backpressure_stuck_since_ms' = StreakAfterSend
  /\ sinceSent' = 0 /\ expected' = expected + TS_UDP_LEN
  /\ UNCHANGED <<ringSide, readPos, staged, m_data_len, m_epoll_out_armed, inactive,
                 epc, batch, peer, ended>>

(* invalid_srt(): the socket is taken off the epoll and closed.            *)
Invalidated(why) ==
  /\ ended' = why /\ epc' = "parked" /\ m_epoll_out_armed' = FALSE

(* The timer restarts with every refused packet.                           *)
Streak_Restarted(age) == 0
Streak(age) == IF age = -1 THEN 0 ELSE age

(* SRT_EASYNCSND: the send buffer is full.                                 *)
Backpressured ==
  /\ epc = "send" /\ m_data_len - m_data_pos >= TS_UDP_LEN /\ libsrt_write = "EASYNCSND"
  /\ IF m_backpressure_stuck_since_ms > StuckTimeout
       THEN Invalidated("stuck") /\ UNCHANGED m_backpressure_stuck_since_ms
       ELSE /\ m_backpressure_stuck_since_ms' = Streak(m_backpressure_stuck_since_ms)
            /\ epc' = "arm" /\ UNCHANGED <<ended, m_epoll_out_armed>>
  /\ UNCHANGED <<ringSide, readPos, buffer, room, inactive, batch, peer, expected,
                 sinceSent>>

SendFails ==
  /\ epc = "send" /\ m_data_len - m_data_pos >= TS_UDP_LEN /\ libsrt_write = "failed"
  /\ Invalidated("send")
  /\ UNCHANGED <<ringSide, readPos, buffer, room, clocks, batch, peer, expected>>

(* A write that reports less than a packet, which the message API of SRT   *)
(* should never do: the pass ends and the packet is tried again.           *)
ShortWrite ==
  /\ epc = "send" /\ m_data_len - m_data_pos >= TS_UDP_LEN /\ libsrt_write = "ok"
  /\ shortWrites < MaxShortWrites /\ shortWrites' = shortWrites + 1
  /\ epc' = "arm"
  /\ UNCHANGED <<published, hasRing, m_idle_streams_timeout, readPos, buffer, room,
                 m_epoll_out_armed, clocks, batch, peer, ended, expected>>

(* Nothing whole is left: the buffer is free again, unless a rest of it    *)
(* that no packet can carry is still there.                                *)
BatchDone ==
  LET rest == m_data_pos < m_data_len
  IN  /\ epc = "send" /\ m_data_len - m_data_pos < TS_UDP_LEN
      /\ m_data_pos' = IF rest THEN m_data_pos ELSE 0
      /\ m_data_len' = IF rest THEN m_data_len ELSE 0
      /\ batch' = batch + 1
      /\ epc' = IF rest \/ batch' = MAX_EGRESS_BATCHES THEN "arm" ELSE "fetch"
      /\ UNCHANGED <<ringSide, readPos, staged, room, m_epoll_out_armed, clocks, peer,
                     ended, expected>>

(* The call into libsrt may fail, and the flag is left as it was for the   *)
(* next pass to put right.                                                 *)
libsrt_arm_epoll_out(enable) == m_epoll_out_armed' \in {enable, m_epoll_out_armed}

(* After a pass that did not fail.                                         *)
update_egress_arming ==
  /\ epc = "arm" /\ epc' = "parked"
  /\ libsrt_arm_epoll_out(m_data_pos < m_data_len)
  /\ UNCHANGED <<ringSide, readPos, buffer, room, clocks, batch, peer, ended, expected>>

-----------------------------------------------------------------------------
(* get_state() in the worker's housekeeping, and the world outside.        *)
get_state ==
  /\ epc = "parked" /\ ended = "no"
  /\ \/ m_idle_streams_timeout # -1 /\ inactive >= m_idle_streams_timeout
        /\ Invalidated("idle")
     \/ peer = "gone" /\ Invalidated("broken")
  /\ UNCHANGED <<ringSide, readPos, buffer, room, clocks, batch, peer, expected>>

Publish(n) ==
  /\ hasRing /\ published + n <= MaxPublished
  /\ published' = published + n
  /\ UNCHANGED <<hasRing, m_idle_streams_timeout, shortWrites, readPos, buffer, room, m_epoll_out_armed, clocks, epc, batch,
                 peer, ended, expected>>

PublisherGone ==
  /\ hasRing /\ hasRing' = FALSE
  /\ UNCHANGED <<published, m_idle_streams_timeout, shortWrites, readPos, buffer, room, m_epoll_out_armed, clocks, epc, batch,
                 peer, ended, expected>>

Acknowledged ==
  /\ room < SndBuf /\ ended = "no" /\ room' = room + 1
  /\ UNCHANGED <<ringSide, readPos, buffer, m_epoll_out_armed, clocks, epc, batch, peer,
                 ended, expected>>

PeerGone ==
  /\ peer = "up" /\ ended = "no" /\ peer' = "gone"
  /\ UNCHANGED <<ringSide, readPos, buffer, room, m_epoll_out_armed, clocks, epc, batch,
                 ended, expected>>

AgeCap == CHOOSE n \in IdleTimeouts \cup {StuckTimeout + 1} :
            \A t \in IdleTimeouts \cup {StuckTimeout + 1} : t <= n

Aged(age) == IF age = -1 \/ age = AgeCap THEN age ELSE age + 1

EgressTick ==
  /\ ended = "no"
  /\ m_backpressure_stuck_since_ms' = Aged(m_backpressure_stuck_since_ms)
  /\ inactive' = Aged(inactive) /\ sinceSent' = Aged(sinceSent)
  /\ clocks' # clocks
  /\ UNCHANGED <<ringSide, readPos, buffer, room, m_epoll_out_armed, epc, batch, peer,
                 ended, expected>>

handler_write_data ==
  EgressPass \/ Fetch \/ Send \/ Backpressured \/ SendFails \/ ShortWrite
    \/ BatchDone \/ update_egress_arming

EgressNext ==
  \/ handler_write_data
  \/ get_state
  \/ \E n \in 1..TS_UDP_LEN : Publish(n)
  \/ PublisherGone \/ Acknowledged \/ PeerGone
  \/ EgressTick

(* The worker runs its egress pass on every turn of its loop, at the       *)
(* latest after POLLING_TIME, and time passes.  Nothing is asked of the    *)
(* viewer: it may stop acknowledging for ever.                             *)
EgressFairness == WF_egressVars(handler_write_data) /\ WF_egressVars(EgressTick)

EgressSpec == EgressInit /\ [][EgressNext]_egressVars /\ EgressFairness

-----------------------------------------------------------------------------
(* Backpressure loses and repeats nothing: the next byte handed to libsrt  *)
(* is the one after the last it accepted, over refused packets, batches    *)
(* and passes, and the reader skips only when the ring has lapped it.      *)
SentInOrder ==
  expected = IF m_data_pos < m_data_len THEN staged + m_data_pos ELSE readPos

(* A viewer is disconnected as stuck only after a whole timeout without a  *)
(* single packet accepted, however slowly it drains.                       *)
StuckJustified == ended = "stuck" => sinceSent > StuckTimeout

(* A player with data it could not send is never parked for ever: its      *)
(* batch is flushed or it is torn down, though nobody wakes the worker and *)
(* arming OUT may have failed.                                             *)
StagedResolves == (m_data_pos < m_data_len) ~> (m_data_pos >= m_data_len \/ ended # "no")

=============================================================================
