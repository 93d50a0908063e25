---------------------------- MODULE ShellAdmission ----------------------------
(***************************************************************************)
(* From a host to a running shell command: what the local workstation      *)
(* finds out about the host when it is constructed, what it advertises,    *)
(* what prepare accepts, and what execute starts, while other programs     *)
(* move the working directory (adapters/local_workstation.rs and its       *)
(* execution.rs, ports/workstation_preparation.rs, the launcher binary).   *)
(*                                                                         *)
(* Between prepare and execute the caller commits the prepared directory   *)
(* durably; the two calls may be far apart.                                *)
(***************************************************************************)
EXTENDS Integers, FiniteSets

CONSTANTS
  Platforms,   \* subset of {"linux", "macos"}
  Places,      \* absolute directory paths
  MaxMoves     \* bound: changes other programs make to directories

VARIABLES
  host,        \* what the probes will find
  station,     \* the constructed LocalWorkstation, or how construction ended
  link,        \* place the requested path resolves to
  dirs,        \* directory object at each place, or NoPlace
  moves,       \* changes made so far; also the newest directory object's number
  job,         \* one run_shell request from preparation to process
  process      \* the started process, or NoProcess

admissionVars == <<host, station, link, dirs, moves, job, process>>

(* No directory, and no place. *)
NoPlace == -1

Hosts ==
  {h \in [platform : Platforms, shell : BOOLEAN, cgroup : BOOLEAN,
          launcher : {"absent", "rejected", "works"}, credentialFree : BOOLEAN,
          adminEnabled : BOOLEAN, sudo : BOOLEAN] :
     h.platform = "macos" => ~h.cgroup /\ h.launcher = "absent"}

Unbuilt == [state |-> "unbuilt", foreground |-> FALSE, administrative |-> FALSE,
            launcher |-> FALSE, cgroup |-> FALSE]

NoJob == [at |-> "none", privilege |-> "user", resolved |-> NoPlace, prepared |-> NoPlace,
          committedPlace |-> NoPlace, cwd |-> NoPlace, error |-> "none"]

NoProcess == [cwd |-> NoPlace, user |-> "none", via |-> "none"]

AdmissionInit ==
  /\ host \in Hosts
  /\ station = Unbuilt
  /\ link \in Places
  /\ dirs = [p \in Places |-> 0]
  /\ moves = 0
  /\ job = NoJob
  /\ process = NoProcess

-----------------------------------------------------------------------------
(* Probes. *)

(* probe_cgroup_root: none off Linux; otherwise a scratch group can be made, *)
(* has the control files, is empty and can be removed.                       *)
ProbeCgroupRoot == host.platform = "linux" /\ host.cgroup

(* probe_user_switch_launcher: installed, accepted by its metadata, and a    *)
(* trial shell inside a trial group answers; without a group it is refused.  *)
ProbeUserSwitchLauncher ==
  host.platform = "linux" /\ host.launcher = "works" /\ ProbeCgroupRoot

(* probe_admin: a trial sudo command inside a trial group succeeds. *)
ProbeAdmin == host.platform = "linux" /\ host.adminEnabled /\ host.sudo /\ ProbeCgroupRoot

ObserveExecutionSupport ==
  LET launcher == ProbeUserSwitchLauncher
      foreground == /\ host.shell
                    /\ \/ host.platform = "macos"
                       \/ ProbeCgroupRoot /\ (launcher \/ host.credentialFree)
  IN [state |-> "built",
      foreground |-> foreground,
      administrative |-> foreground /\ ~launcher /\ host.credentialFree /\ ProbeAdmin,
      launcher |-> launcher,
      cgroup |-> ProbeCgroupRoot]

(* LocalWorkstation::new: on Linux a server that holds credentials needs the *)
(* launcher, or there is no workstation at all.                              *)
New ==
  /\ station.state = "unbuilt"
  /\ station' = IF /\ host.platform = "linux"
                   /\ ~host.credentialFree
                   /\ ~ObserveExecutionSupport.launcher
                  THEN [Unbuilt EXCEPT !.state = "refused"]
                  ELSE ObserveExecutionSupport
  /\ UNCHANGED <<host, link, dirs, moves, job, process>>

-----------------------------------------------------------------------------
(* Other programs. *)

Moving == /\ station.state = "built"
          /\ process = NoProcess
          /\ moves < MaxMoves
          /\ moves' = moves + 1
          /\ UNCHANGED <<host, station, job, process>>

Relink(p) == Moving /\ link' = p /\ UNCHANGED dirs
Recreate(p) == Moving /\ dirs' = [dirs EXCEPT ![p] = moves + 1] /\ UNCHANGED link

RemoveDir(p) == /\ Moving
                /\ dirs[p] # NoPlace
                /\ dirs' = [dirs EXCEPT ![p] = NoPlace]
                /\ UNCHANGED link

-----------------------------------------------------------------------------
(* One request. *)

Keep == UNCHANGED <<host, station, link, dirs, moves>>

Refuse(kind) == job' = [job EXCEPT !.at = "refused", !.error = kind] /\ UNCHANGED process

(* prepare: the advertised flags decide. *)
CapabilityAvailable(privilege) ==
  station.foreground /\ (privilege = "administrative" => station.administrative)

Prepare(privilege) ==
  /\ station.state = "built"
  /\ job.at = "none"
  /\ job' = IF CapabilityAvailable(privilege)
              THEN [job EXCEPT !.at = "resolve", !.privilege = privilege]
              ELSE [job EXCEPT !.at = "refused", !.error = "unsupported_at_prepare"]
  /\ UNCHANGED process
  /\ Keep

(* prepare_execution_cwd: resolve the path ... *)
PrepareResolve ==
  /\ job.at = "resolve"
  /\ IF dirs[link] = NoPlace THEN Refuse("not_found")
     ELSE job' = [job EXCEPT !.at = "open", !.resolved = link] /\ UNCHANGED process
  /\ Keep

(* ... and open what is there; its identity becomes the evidence. *)
PrepareOpen ==
  /\ job.at = "open"
  /\ IF dirs[job.resolved] = NoPlace THEN Refuse("not_found")
     ELSE /\ job' = [job EXCEPT !.at = "prepared", !.prepared = dirs[job.resolved],
                                !.committedPlace = job.resolved]
          /\ UNCHANGED process
  /\ Keep

(* execute, prepare_committed_execution_cwd: the path must still resolve to  *)
(* the committed place ...                                                   *)
ExecuteResolve ==
  /\ job.at = "prepared"
  /\ IF dirs[link] = NoPlace THEN Refuse("not_found")
     ELSE IF link # job.committedPlace THEN Refuse("invalid_path")
     ELSE job' = [job EXCEPT !.at = "reopen"] /\ UNCHANGED process
  /\ Keep

(* The opened object's identity is not compared. *)
ExecuteOpenAny ==
  /\ job.at = "reopen"
  /\ IF dirs[job.committedPlace] = NoPlace THEN Refuse("not_found")
     ELSE job' = [job EXCEPT !.at = "validate", !.cwd = dirs[job.committedPlace]]
          /\ UNCHANGED process
  /\ Keep

(* ... and the object opened there must be the prepared one.  The open       *)
(* descriptor travels with the request from here.                            *)
ExecuteOpen ==
  /\ job.at = "reopen"
  /\ IF dirs[job.committedPlace] = NoPlace THEN Refuse("not_found")
     ELSE IF dirs[job.committedPlace] # job.prepared THEN Refuse("invalid_path")
     ELSE job' = [job EXCEPT !.at = "validate", !.cwd = dirs[job.committedPlace]]
          /\ UNCHANGED process
  /\ Keep

(* ExecutionRuntime's own view of its capabilities. *)
ForegroundCapable == host.platform = "macos" \/ station.cgroup

AdministrativeCapable == station.administrative

ValidateRequest ==
  /\ job.at = "validate"
  /\ IF ~ForegroundCapable \/ (job.privilege = "administrative" /\ ~AdministrativeCapable)
       THEN Refuse("unsupported_at_execute")
       ELSE job' = [job EXCEPT !.at = "spawn"] /\ UNCHANGED process
  /\ Keep

(* The user a launcher's child has after the identity drop. *)
DropToWorkstation == "craxii"

(* build_command, and the user the command ends up running as. *)
BuildCommand ==
  IF station.launcher THEN [via |-> "launcher", user |-> DropToWorkstation]
  ELSE IF job.privilege = "administrative" THEN [via |-> "sudo", user |-> "root"]
  ELSE [via |-> "shell", user |-> "server"]

(* The child enters the descriptor's directory, its own session and the     *)
(* execution's group before it runs the command.  A launcher that finds the  *)
(* directory closed to its user, or a failed exec, ends without a process.   *)
Spawn ==
  /\ job.at = "spawn"
  /\ \/ /\ process' = [cwd |-> job.cwd, user |-> BuildCommand.user, via |-> BuildCommand.via]
        /\ job' = [job EXCEPT !.at = "running"]
     \/ Refuse("spawn_failed")
  /\ Keep

AdmissionOver == /\ \/ job.at \in {"running", "refused"}
                    \/ station.state = "refused"
                 /\ UNCHANGED admissionVars

AdmissionNext ==
  \/ New
  \/ \E p \in Places : Relink(p) \/ Recreate(p) \/ RemoveDir(p)
  \/ \E privilege \in {"user", "administrative"} : Prepare(privilege)
  \/ PrepareResolve \/ PrepareOpen \/ ExecuteResolve \/ ExecuteOpen
  \/ ValidateRequest \/ Spawn
  \/ AdmissionOver

AdmissionSpec == AdmissionInit /\ [][AdmissionNext]_admissionVars

-----------------------------------------------------------------------------
Steps == {"none", "resolve", "open", "prepared", "reopen", "validate", "spawn", "running",
          "refused"}

(* How a request can be refused, except for the one way that would show flags *)
(* and runtime to disagree.                                                   *)
Refusals == {"none", "unsupported_at_prepare", "not_found", "invalid_path", "spawn_failed"}

(* A command starts in the very directory object that was prepared and      *)
(* committed for it, although the path is resolved twice, opened twice and   *)
(* others rename, remove and recreate directories in between.                *)
CwdIsPrepared ==
  process # NoProcess => process.cwd = job.prepared /\ process.cwd # NoPlace

(* A request the advertised capabilities let through prepare is never        *)
(* refused by execute for a missing capability: flags and runtime agree on   *)
(* every host.                                                               *)
PreparedIsRunnable == job.error # "unsupported_at_execute"

(* The privilege recorded with the request is the one the command has: an    *)
(* administrative request runs as root and never quietly as the user, a user *)
(* request never as root.                                                    *)
PrivilegeHonoured ==
  process # NoProcess => ((process.user = "root") <=> (job.privilege = "administrative"))

(* On Linux, a server that holds credentials starts commands only through    *)
(* the launcher, and in a group that cleanup can kill.                       *)
CredentialsKeptApart ==
  (process # NoProcess /\ host.platform = "linux")
    => station.cgroup /\ (host.credentialFree \/ process.via = "launcher")

(* What prepare and the workstation's construction decided holds of the      *)
(* command that runs: its directory, its runnability, its privilege and its  *)
(* separation from the server's credentials.                                 *)
AdmissionSafe ==
  /\ CwdIsPrepared
  /\ PreparedIsRunnable
  /\ PrivilegeHonoured
  /\ CredentialsKeptApart

(* The inductive form of AdmissionSafe: the station is what the probes found *)
(* and has the launcher where it must; a request past prepare has the        *)
(* capability it asked for; the object it carries is the one it prepared;    *)
(* and a process is the one build_command makes of its request.              *)
AdmissionInvariant ==
  /\ host \in Hosts
  /\ link \in Places
  /\ dirs \in [Places -> Nat \cup {NoPlace}]
  /\ moves \in Nat
  /\ \/ station \in {Unbuilt, [Unbuilt EXCEPT !.state = "refused"]}
     \/ /\ station = ObserveExecutionSupport
        /\ host.platform = "linux" => host.credentialFree \/ station.launcher
  /\ job \in [at : Steps, privilege : {"user", "administrative"}, resolved : Places \cup {NoPlace},
              prepared : Nat \cup {NoPlace}, committedPlace : Places \cup {NoPlace},
              cwd : Nat \cup {NoPlace}, error : Refusals]
  /\ job.at \notin {"none", "refused"}
       => station.state = "built" /\ CapabilityAvailable(job.privilege)
  /\ job.at = "open" => job.resolved \in Places
  /\ job.at \in {"prepared", "reopen"} => job.committedPlace \in Places
  /\ job.at \in {"prepared", "reopen", "validate", "spawn", "running"} => job.prepared # NoPlace
  /\ job.at \in {"validate", "spawn", "running"} => job.cwd = job.prepared
  /\ \/ process = NoProcess
     \/ /\ job.at = "running"
        /\ process = [cwd |-> job.cwd, user |-> BuildCommand.user, via |-> BuildCommand.via]
=============================================================================
