------------------------------ MODULE MCSafety ------------------------------
(***************************************************************************)
(* The parts whose properties need no fairness, one at a time: a behaviour *)
(* is one of the component's own, the others rest.                         *)
(*                                                                         *)
(*   owner      two publishers and a puller on one key, one more publisher *)
(*              on another that competes for the stream cap, one worker    *)
(*   pidfile    two instances, two paths, one of them for root only        *)
(*   file       files of up to six lines; see MCConfFile                   *)
(*   listeners  one or two server blocks; see MCListeners                  *)
(*   timeouts   one role, with and without probation and idle timeout      *)
(*   bitrate    bursts below and above the limit, for fourteen ticks       *)
(*   annexb     up to two NAL units; see MCAnnexB                          *)
(*   timecode   three pictures of changing programmes; see MCTimecode      *)
(*   stats      two PIDs, one of them tracked, a viewer, an HTTP thread    *)
(*   push       replies with up to three entries; see MCPushTargets        *)
(***************************************************************************)
EXTENDS MCStreamOwnership, PidFile, MCConfFile, MCListeners, MCRoleTimeouts, BitrateLimit,
        MCAnnexB, MCTimecode, StreamStats, MCPushTargets

VARIABLE part

safetyVars == <<part, ownVars, pidVars, fileVars, listenVars, timeoutVars, bitrateVars,
                 auVars, timecodeVars, statsVars, pushVars>>

(* A part that rests has one initial state.                                *)
One(S) == CHOOSE x \in S : TRUE

SafetyInit ==
  /\ part \in {"owner", "pidfile", "file", "listeners", "timeouts", "bitrate", "annexb",
               "timecode", "stats", "push"}
  /\ OwnInit
  /\ PidInit /\ (part # "pidfile" => privileged = [i \in Instances |-> TRUE])
  /\ ConfInit
  /\ ListenInit /\ (part # "listeners" => lconf = One(Confs) /\ taken = {})
  /\ TimeoutInit /\ (part # "timeouts" => role = "publisher" /\ limits.first = 0 /\ limits.idle = -1 /\ passed)
  /\ BitrateInit
  /\ AnnexBInit /\ (part # "annexb" => coding = "h264" /\ known = NoContext)
  /\ TimecodeInit /\ (part # "timecode" => programme = One(Programmes))
  /\ StatsInit
  /\ PushInit /\ (part # "push" => pconf = One(PushConfs) /\ reply = One(WebhookReplies))

(* The rest of the system, as seen from one part of it.                   *)
Rest(p, v) == part # p => UNCHANGED v

SafetyNext ==
  /\ \/ part = "owner" /\ OwnNext
     \/ part = "pidfile" /\ PidNext
     \/ part = "file" /\ ConfNext
     \/ part = "listeners" /\ ListenNext
     \/ part = "timeouts" /\ TimeoutNext
     \/ part = "bitrate" /\ BitrateNext
     \/ part = "annexb" /\ AnnexBNext
     \/ part = "timecode" /\ TimecodeNext
     \/ part = "stats" /\ StatsNext
     \/ part = "push" /\ PushNext
  /\ Rest("owner", ownVars) /\ Rest("pidfile", pidVars) /\ Rest("file", fileVars)
  /\ Rest("listeners", listenVars) /\ Rest("timeouts", timeoutVars)
  /\ Rest("bitrate", bitrateVars) /\ Rest("annexb", auVars) /\ Rest("timecode", timecodeVars)
  /\ Rest("stats", statsVars) /\ Rest("push", pushVars)
  /\ UNCHANGED part

SafetySpec == SafetyInit /\ [][SafetyNext]_safetyVars
=============================================================================
