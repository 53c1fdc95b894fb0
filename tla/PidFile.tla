------------------------------- MODULE PidFile -------------------------------
(***************************************************************************)
(* The PID files of the server instances on one host: written at start-up, *)
(* moved on a reload, removed at the end, and read by "-c reload" and      *)
(* "-c stop" (common.cpp).  An instance is its PID.  Instances start with  *)
(* configurations of their own, crash, and share directories that only     *)
(* root may write to; an instance that drops its privileges is no longer   *)
(* root.                                                                   *)
(***************************************************************************)
EXTENDS Integers

CONSTANTS
  Instances,
  PidPaths,        \* the paths a pidfile directive names
  DefaultPath,     \* the compiled-in pid_file_name
  RootOnly,        \* paths in directories only root may write to
  MaxPidReloads    \* bound: reloads of an instance

Unset == "unset"   \* no pidfile directive
Nobody == "nobody" \* no such file
Empty == "empty"   \* a file without a PID, which sls_read_pid() reads as 0

ASSUME PidAssumption ==
  /\ DefaultPath \in PidPaths /\ RootOnly \subseteq PidPaths
  /\ Unset \notin PidPaths /\ {Nobody, Empty} \cap Instances = {}
  /\ MaxPidReloads \in Nat

VARIABLES
  file,            \* [PidPaths -> the PID in it, Empty or Nobody]
  pid_file_name,   \* [Instances -> PidPaths]
  pidpc,           \* [Instances -> where main() is]
  privileged,      \* [Instances -> BOOLEAN], still privileged
  sig,             \* [Instances -> the signal that is pending]
  reloads

pidVars == <<file, pid_file_name, pidpc, privileged, sig, reloads>>

PidInit ==
  /\ file = [p \in PidPaths |-> Nobody]
  /\ pid_file_name = [i \in Instances |-> DefaultPath]
  /\ pidpc = [i \in Instances |-> "off"]
  /\ privileged \in [Instances -> BOOLEAN]
  /\ sig = [i \in Instances |-> "none"]
  /\ reloads = [i \in Instances |-> 0]

MayWrite(i) == privileged[i] \/ pid_file_name[i] \notin RootOnly

At(i, place) == pidpc' = [pidpc EXCEPT ![i] = place]

-----------------------------------------------------------------------------
(* sls_load_pid_filename().                                                *)
Launch(i, configured) ==
  /\ pidpc[i] = "off" /\ At(i, "probe")
  /\ pid_file_name' = [pid_file_name EXCEPT ![i] =
       IF configured = Unset THEN @ ELSE configured]
  /\ UNCHANGED <<file, privileged, sig, reloads>>

(* sls_write_pid(): the probe, and the exclusive create that closes the    *)
(* race after it.  Failing at start-up and on a reload both end main().    *)
ProbePid(i) ==
  /\ pidpc[i] = "probe"
  /\ At(i, IF file[pid_file_name[i]] # Nobody \/ ~MayWrite(i) THEN "leave" ELSE "create")
  /\ UNCHANGED <<file, pid_file_name, privileged, sig, reloads>>

(* The create would replace a file that has appeared since.                *)
MayCreate_Replace(p) == TRUE
MayCreate(p) == file[p] = Nobody       \* O_EXCL

CreatePid(i) ==
  LET p == pid_file_name[i]
  IN  /\ pidpc[i] = "create"
      /\ \/ MayCreate(p) /\ file' = [file EXCEPT ![p] = Empty] /\ At(i, "write")
         \/ ~MayCreate(p) /\ At(i, "leave") /\ UNCHANGED file
      /\ UNCHANGED <<pid_file_name, privileged, sig, reloads>>

(* write(), whose result nobody looks at: on a full disk the file stays    *)
(* empty.                                                                  *)
WritePid(i) ==
  /\ pidpc[i] = "write" /\ At(i, "running")
  /\ file' \in {file, [file EXCEPT ![pid_file_name[i]] = i]}
  /\ UNCHANGED <<pid_file_name, privileged, sig, reloads>>

(* sls_drop_privileges(), once the listeners are bound: it drops them, has *)
(* nothing to drop, or fails and ends main().                              *)
sls_drop_privileges(i) ==
  /\ pidpc[i] = "running" /\ privileged[i] /\ reloads[i] = 0
  /\ privileged' = [privileged EXCEPT ![i] = FALSE]
  /\ \/ UNCHANGED pidpc
     \/ At(i, "leave")
  /\ UNCHANGED <<file, pid_file_name, sig, reloads>>

-----------------------------------------------------------------------------
(* sls_remove_pid(): only the owner of the file removes it.                *)
Owned_Any(i) == file[pid_file_name[i]] \in Instances
Owned(i) == file[pid_file_name[i]] = i

Removed(i) == Owned(i) /\ MayWrite(i)

Unlinked(i) == file' = [file EXCEPT ![pid_file_name[i]] = Nobody]

(* sls_reload_pid(): a location that differs, also because none is         *)
(* configured, makes it remove the file and write it again, under the name *)
(* it had: pid_file_name is not loaded again.                              *)
sls_reload_pid(i, configured) ==
  /\ pidpc[i] = "running" /\ sig[i] = "SIGHUP" /\ reloads[i] < MaxPidReloads
  /\ sig' = [sig EXCEPT ![i] = "none"]
  /\ reloads' = [reloads EXCEPT ![i] = @ + 1]
  /\ IF configured = pid_file_name[i]
       THEN UNCHANGED <<file, pidpc>>
       ELSE IF Removed(i) THEN Unlinked(i) /\ At(i, "probe")
                          ELSE At(i, "leave") /\ UNCHANGED file
  /\ UNCHANGED <<pid_file_name, privileged>>

StopMain(i) ==
  /\ pidpc[i] = "running" /\ sig[i] = "SIGINT"
  /\ At(i, "leave")
  /\ UNCHANGED <<file, pid_file_name, privileged, sig, reloads>>

(* The end of main(), whatever brought it there.                           *)
LeaveMain(i) ==
  /\ pidpc[i] = "leave" /\ At(i, "gone")
  /\ IF Removed(i) THEN Unlinked(i) ELSE UNCHANGED file
  /\ UNCHANGED <<pid_file_name, privileged, sig, reloads>>

Killed(i) ==
  /\ pidpc[i] \notin {"off", "gone"} /\ At(i, "gone")
  /\ UNCHANGED <<file, pid_file_name, privileged, sig, reloads>>

(* sls_send_cmd() reads the file and signals whoever it names.             *)
sls_send_cmd(p, s) ==
  /\ file[p] \in Instances /\ sig[file[p]] # s
  /\ sig' = [sig EXCEPT ![file[p]] = s]
  /\ UNCHANGED <<file, pid_file_name, pidpc, privileged, reloads>>

(* A server that has created its file and not ended. *)
Holds(i, p) == pid_file_name[i] = p /\ pidpc[i] \in {"write", "running"}

(* The operator removes what a crash or a failed write has left.           *)
Tidy(p) ==
  /\ \/ file[p] \in Instances /\ pidpc[file[p]] = "gone"
     \/ file[p] = Empty /\ \A i \in Instances : ~Holds(i, p)
  /\ file' = [file EXCEPT ![p] = Nobody]
  /\ UNCHANGED <<pid_file_name, pidpc, privileged, sig, reloads>>

PidNext ==
  \/ \E i \in Instances :
       \/ ProbePid(i) \/ CreatePid(i) \/ WritePid(i) \/ sls_drop_privileges(i)
       \/ StopMain(i) \/ LeaveMain(i) \/ Killed(i)
       \/ \E c \in PidPaths \cup {Unset} : Launch(i, c) \/ sls_reload_pid(i, c)
  \/ \E p \in PidPaths : Tidy(p) \/ \E s \in {"SIGHUP", "SIGINT"} : sls_send_cmd(p, s)

PidSpec == PidInit /\ [][PidNext]_pidVars

-----------------------------------------------------------------------------
(* sls_remove_pid(), sls_write_pid(): while a server runs its PID file     *)
(* names it, or is the empty file its own failed write left, whatever      *)
(* other instances start, are refused, reload, crash and leave: no other   *)
(* server runs on the path, and "-c stop" never reaches a wrong one.       *)
PidFileKept ==
  \A i \in Instances : pidpc[i] = "running" =>
    /\ file[pid_file_name[i]] \in {i, Empty}
    /\ \A j \in Instances \ {i} : ~Holds(j, pid_file_name[i])
=============================================================================
