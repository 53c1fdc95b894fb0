---------------------------- MODULE BitrateLimit ----------------------------
(***************************************************************************)
(* The bitrate limiter of a publisher (CSLSBitrateLimit): a queue of what  *)
(* was received, cleaned of entries older than the window only every       *)
(* second, and a timer that runs while the average stays above the limit.  *)
(* Time and bytes are scaled down.  The queue is in the order of time and  *)
(* the reads of one tick count as one, so it is a function of the time.    *)
(* The ghosts hold what was really received and since when that is over,   *)
(* or not over, the limit.                                                 *)
(***************************************************************************)
EXTENDS Integers, Functions, FiniteSetsExt

CONSTANTS
  Window,          \* m_window_ms
  OneSecond,       \* the cleaning interval, and the shortest window
  SpikeLimit,      \* limit times tolerance, in bytes per tick; 0: no limiter
  ViolationTime,   \* m_violation_threshold_ms
  Bursts,          \* sizes of a read
  MaxTicks         \* bound on time

ASSUME BitrateAssumption ==
  /\ Window \in Nat /\ OneSecond \in 1..Window /\ SpikeLimit \in Nat
  /\ ViolationTime \in Nat \ {0} /\ Bursts \subseteq Nat \ {0} /\ MaxTicks \in Nat

Never == -1

VARIABLES
  now,
  window,          \* m_data_window: the bytes read at each time
  last_cleanup,    \* m_last_cleanup_time
  violation,       \* m_violation_start_time, Never when m_in_violation is false
  disconnected,
  arrived,         \* ghost: everything received that is not older than the window
  overSince,       \* ghost: since when every read found the window full, or Never
  calmAt           \* ghost: the last read that found the average within the limit

bitrateVars == <<now, window, last_cleanup, violation, disconnected, arrived, overSince, calmAt>>

BitrateInit ==
  /\ now = OneSecond + 1 /\ window = <<>> /\ last_cleanup = 0
  /\ violation = Never /\ disconnected = FALSE
  /\ arrived = <<>> /\ overSince = Never /\ calmAt = now

Bytes(points) == SumFunction(points)

Push(points, bytes) ==
  [t \in DOMAIN points \cup {now} |-> IF t = now THEN bytes ELSE points[t]]

Recent(points) == Restrict(points, {t \in DOMAIN points : t >= now - Window})

(* Never less than a second, never more than the window.                   *)
Effective(points) ==
  LET age == now - Min(DOMAIN points)
  IN  IF age >= Window THEN Window ELSE IF age > OneSecond THEN age ELSE OneSecond

Exceeds(points) == Bytes(points) \div Effective(points) > SpikeLimit

-----------------------------------------------------------------------------
(* The window would be emptied as a whole when it is cleaned.              *)
cleanup_old_data_All(points) == Restrict(points, {now})
cleanup_old_data(points) == Recent(points)

(* A read within the limit would leave the timer running.                  *)
ViolationStart_Kept(exceeds) == IF exceeds /\ violation = Never THEN now ELSE violation
ViolationStart(exceeds) ==
  IF ~exceeds THEN Never ELSE IF violation = Never THEN now ELSE violation

(* check_data_bitrate(), and what CSLSRole::handler_read_data() does with  *)
(* the answer.                                                             *)
check_data_bitrate(bytes) ==
  LET pushed == Push(window, bytes)
      due == SpikeLimit = 0 \/ now - last_cleanup > OneSecond
      kept == IF due THEN cleanup_old_data(pushed) ELSE pushed
      start == IF SpikeLimit = 0 THEN Never ELSE ViolationStart(Exceeds(kept))
      real == Recent(Push(arrived, bytes))
      full == Bytes(real) \div Window > SpikeLimit
  IN  /\ ~disconnected /\ now \notin DOMAIN window
      /\ window' = kept
      /\ last_cleanup' = IF due /\ SpikeLimit > 0 THEN now ELSE last_cleanup
      /\ violation' = start
      /\ disconnected' = (start # Never /\ now - start >= ViolationTime)
      /\ arrived' = real
      /\ overSince' = IF ~full THEN Never ELSE IF overSince = Never THEN now ELSE overSince
      /\ calmAt' = IF due /\ ~Exceeds(real) THEN now ELSE calmAt
      /\ UNCHANGED now

BitrateTick ==
  /\ now < MaxTicks /\ ~disconnected
  /\ now' = now + 1
  /\ UNCHANGED <<window, last_cleanup, violation, disconnected, arrived, overSince, calmAt>>

BitrateNext == BitrateTick \/ \E b \in Bursts : check_data_bitrate(b)

BitrateSpec == BitrateInit /\ [][BitrateNext]_bitrateVars

-----------------------------------------------------------------------------
(* A publisher is disconnected only after a whole violation time in which  *)
(* no cleaned window was within the limit: data that has aged out but not  *)
(* been cleaned yet may start the timer, never carry it to the end.        *)
DisconnectJustified ==
  disconnected /\ SpikeLimit > 0 => now - calmAt >= ViolationTime

(* And a publisher that keeps the full window above the limit is           *)
(* disconnected at the latest after that time, whatever its pattern of     *)
(* bursts.                                                                 *)
OverloadEnds ==
  SpikeLimit > 0 /\ overSince # Never /\ now \in DOMAIN arrived /\ ~disconnected
    => now - overSince < ViolationTime

(* check_data_bitrate(): the limit is enforced, and only the limit.        *)
LimitEnforced == DisconnectJustified /\ OverloadEnds
=============================================================================
