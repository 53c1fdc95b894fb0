---------------------------- MODULE RoleTimeouts ----------------------------
(***************************************************************************)
(* When a worker gives up on a role that moves no data: get_state() with   *)
(* the probation of a publisher's first packet, the ordinary idle timeout  *)
(* and the webhook gate, which suspends the first and not the second.      *)
(* Times are ages.                                                         *)
(***************************************************************************)
EXTENDS Integers

CONSTANTS
  FirstDataTimeouts,   \* m_first_data_timeout_ms; 0 switches probation off
  RoleIdleTimeouts     \* m_idle_streams_timeout; -1 is unlimited

ASSUME TimeoutAssumption ==
  FirstDataTimeouts \subseteq Nat /\ RoleIdleTimeouts \subseteq Nat \cup {-1}

VARIABLES
  role,                \* "publisher" or "player"
  limits,              \* its two timeouts
  passed,              \* m_http_passed
  received,            \* m_last_recv_data_tm # 0
  m_invalid_begin_tm,  \* age
  m_kick,              \* m_kick_requested
  sock,                \* "up" or "broken"
  reaped,              \* why get_state() invalidated the role, "no" before
  silent,              \* history: age of the last packet, or of the accept
  permitted            \* history: age of the permission to move data

timeoutVars == <<role, limits, passed, received, m_invalid_begin_tm, m_kick, sock, reaped, silent, permitted>>

Longest == CHOOSE n \in FirstDataTimeouts \cup RoleIdleTimeouts :
             \A t \in FirstDataTimeouts \cup RoleIdleTimeouts : t <= n

(* Only publishers are given a probation as they are accepted; a role      *)
(* without a webhook has passed from the start.                            *)
TimeoutInit ==
  /\ role \in {"publisher", "player"}
  /\ limits \in [first : FirstDataTimeouts, idle : RoleIdleTimeouts]
  /\ role = "player" => limits.first = 0
  /\ passed \in BOOLEAN
  /\ received = FALSE /\ m_invalid_begin_tm = 0 /\ silent = 0 /\ permitted = 0
  /\ m_kick = FALSE /\ sock = "up" /\ reaped = "no"

(* check_http_passed() without restarting the activity marker.             *)
ActivityAfterAuth_Kept == m_invalid_begin_tm
ActivityAfterAuth == 0

Authorized ==
  /\ reaped = "no" /\ ~passed /\ passed' = TRUE
  /\ m_invalid_begin_tm' = ActivityAfterAuth
  /\ permitted' = 0
  /\ UNCHANGED <<role, limits, received, m_kick, sock, reaped, silent>>

(* srt_recvmsg(): a packet, or an error once the connection is lost.       *)
libsrt_read == IF sock = "up" THEN "packet" ELSE "error"

(* handler_read_data(): nothing is read before the webhook has answered.   *)
PacketRead ==
  /\ role = "publisher" /\ reaped = "no" /\ passed /\ libsrt_read = "packet"
  /\ received' = TRUE /\ m_invalid_begin_tm' = 0 /\ silent' = 0
  /\ UNCHANGED <<role, limits, passed, m_kick, sock, reaped, permitted>>

(* handler_write_data(): a batch taken from the ring restarts the marker,  *)
(* and m_last_recv_data_tm stays 0.                                        *)
BatchTaken ==
  /\ role = "player" /\ reaped = "no" /\ passed
  /\ m_invalid_begin_tm' = 0 /\ silent' = 0
  /\ UNCHANGED <<role, limits, passed, received, m_kick, sock, reaped, permitted>>

OnProbation == limits.first > 0 /\ ~received

sls_should_reap_role(activity) ==
  IF OnProbation
    THEN passed /\ activity >= limits.first
    ELSE limits.idle # -1 /\ activity >= limits.idle

GetState ==
  /\ reaped = "no"
  /\ reaped' = CASE m_kick -> "kick"
                 [] ~m_kick /\ sls_should_reap_role(m_invalid_begin_tm) -> "idle"
                 [] OTHER -> IF sock = "broken" THEN "broken" ELSE "no"
  /\ reaped' # "no"
  /\ UNCHANGED <<role, limits, passed, received, m_invalid_begin_tm, m_kick, sock, silent, permitted>>

KickOrBreak ==
  /\ reaped = "no"
  /\ \/ ~m_kick /\ m_kick' = TRUE /\ UNCHANGED sock
     \/ sock = "up" /\ sock' = "broken" /\ UNCHANGED m_kick
  /\ UNCHANGED <<role, limits, passed, received, m_invalid_begin_tm, reaped, silent, permitted>>

TimeoutTick ==
  LET older(age) == IF age = Longest THEN age ELSE age + 1
  IN  /\ reaped = "no"
      /\ m_invalid_begin_tm' = older(m_invalid_begin_tm) /\ silent' = older(silent)
      /\ permitted' = IF passed THEN older(permitted) ELSE 0
      /\ UNCHANGED <<role, limits, passed, received, m_kick, sock, reaped>>

TimeoutNext == Authorized \/ PacketRead \/ BatchTaken \/ GetState \/ KickOrBreak \/ TimeoutTick

TimeoutSpec == TimeoutInit /\ [][TimeoutNext]_timeoutVars

-----------------------------------------------------------------------------
(* A role is reaped as idle only after a whole timeout without a packet.   *)
(* The time before its permission is left out of that timeout once it has  *)
(* the permission, and a publisher on probation is not reaped before.  A   *)
(* role without probation can be: the idle timeout runs during its wait.   *)
IdleReapJustified ==
  reaped = "idle" =>
    LET timeout == IF OnProbation THEN limits.first ELSE limits.idle
    IN  /\ timeout # -1 /\ silent >= timeout
        /\ OnProbation => passed
        /\ passed => permitted >= timeout
=============================================================================
