----------------------------- MODULE MCWorkstation ----------------------------
(*****************************************************************************)
(* The local workstation: the execution of processes, the reading of files,  *)
(* the admission of shell commands, the shaping of their output and the      *)
(* store of the artifacts they leave, in one run. Every behaviour is a       *)
(* behaviour of one instance, which `part` names:                            *)
(*   "linux"      one execution under cgroups, with every fault;             *)
(*   "macos"      one execution under process groups, with every fault;      *)
(*   "calm"       one execution without faults, with two descendants;        *)
(*   "file"       one file of at most four chunks, two writes during the     *)
(*                call;                                                      *)
(*   "admission"  every host, two directories, three moves of the link;      *)
(*   "output"     five bytes of standard output and one of standard error;   *)
(*   "artifacts"  two captures of the same bytes, I/O errors and crashes;    *)
(*   "power"      two captures of different bytes, with losses of power.     *)
(*****************************************************************************)
EXTENDS FileRead, ShellAdmission, TLC

CONSTANTS e1

VARIABLES
    part,  \* the component that moves in this behaviour
    admission_open, registry, lifecycle, permit, terminal, sup, os, overdue,
    shutdown_deadline, shutdown_cleanup_failed, manager, caller, canceller,
    stopper, owned, written, first, tail, captured, ended, outcome, worker,
    pc, observed, file, places, created, shard, rows, events, crashes

\* The value of a variable that the component has not.
Off == "off"

EveryFault == {"capture", "cgroup", "spawn", "observe", "rmdir", "stream", "panic"}
OutputBytes == {"a", "c", "l", "t"}
FourEach == [stdout |-> 4, stderr |-> 4]
FiveAndOne == [stdout |-> 5, stderr |-> 1]
SameByte == <<1, 1>>
OwnByte == <<1, 2>>

OnLinux == INSTANCE Execution WITH
    Execs <- {e1}, late <- overdue, Linux <- TRUE, Faults <- EveryFault, MaxKids <- 1
MacOS == INSTANCE Execution WITH
    Execs <- {e1}, late <- overdue, Linux <- FALSE, Faults <- EveryFault, MaxKids <- 1
Calm == INSTANCE Execution WITH
    Execs <- {e1}, late <- overdue, Linux <- TRUE, Faults <- {}, MaxKids <- 2
Output == INSTANCE ShellResult WITH
    Bytes <- OutputBytes, ReadBuffer <- 3, HeadBytes <- 2, TailBytes <- 2,
    CaptureLimit <- FourEach, PerStream <- 4, Inline <- 8, ChunkBytes <- 3,
    FixedJson <- 4, KeyJson <- 2, MaxJson <- 16, MaxWritten <- FiveAndOne
Artifacts == INSTANCE ArtifactStore WITH
    Captures <- {1, 2}, process <- worker, Byte <- SameByte, Limit <- 2, Chunks <- {1, 2},
    MaxBytes <- 3, MinBytes <- 0, MaxCrash <- 2, PowerLoss <- FALSE,
    IoErrors <- TRUE
Power == INSTANCE ArtifactStore WITH
    Captures <- {1, 2}, process <- worker, Byte <- OwnByte, Limit <- 1, Chunks <- {1}, MaxBytes <- 2,
    MinBytes <- 1, MaxCrash <- 2, PowerLoss <- TRUE, IoErrors <- TRUE

ASSUME BoundsOK ==
    OnLinux!ExecutionConstants /\ MacOS!ExecutionConstants /\ Calm!ExecutionConstants
    /\ Output!ValidLimits

\* The variables of a component that is an instance.
executionVars == <<admission_open, registry, lifecycle, permit, terminal, sup,
                   os, overdue, shutdown_deadline, shutdown_cleanup_failed,
                   manager, caller, canceller, stopper, owned>>
outputVars == <<written, first, tail, captured, ended, outcome>>
artifactVars == <<worker, pc, observed, file, places, created, shard, rows,
                  events, crashes>>

\* A component that does not move: its variables have no value, or the values of
\* one of its initial states.
NoExecution ==
    admission_open = Off /\ registry = Off /\ lifecycle = Off /\ permit = Off
    /\ terminal = Off /\ sup = Off /\ os = Off /\ overdue = Off
    /\ shutdown_deadline = Off /\ shutdown_cleanup_failed = Off
    /\ manager = Off /\ caller = Off /\ canceller = Off /\ stopper = Off
    /\ owned = Off
NoOutput ==
    written = Off /\ first = Off /\ tail = Off /\ captured = Off
    /\ ended = Off /\ outcome = Off
NoArtifacts ==
    worker = Off /\ pc = Off /\ observed = Off /\ file = Off /\ places = Off
    /\ created = Off /\ shard = Off /\ rows = Off /\ events = Off
    /\ crashes = Off
NoRead == Init /\ mode = "direct" /\ inodes[1].kind = "text"
NoCommand == AdmissionInit /\ link = 1 /\ host = CHOOSE h \in Hosts : TRUE

stationVars == <<part, executionVars, vars, admissionVars, outputVars, artifactVars>>

StationInit ==
    \/ part = "linux" /\ OnLinux!Init /\ NoRead /\ NoCommand /\ NoOutput /\ NoArtifacts
    \/ part = "macos" /\ MacOS!Init /\ NoRead /\ NoCommand /\ NoOutput /\ NoArtifacts
    \/ part = "calm" /\ Calm!Init /\ NoRead /\ NoCommand /\ NoOutput /\ NoArtifacts
    \/ part = "file" /\ Init /\ NoExecution /\ NoCommand /\ NoOutput /\ NoArtifacts
    \/ part = "admission" /\ AdmissionInit /\ NoExecution /\ NoRead /\ NoOutput /\ NoArtifacts
    \/ part = "output" /\ Output!Init /\ NoExecution /\ NoRead /\ NoCommand /\ NoArtifacts
    \/ part = "artifacts" /\ Artifacts!Init /\ NoExecution /\ NoRead /\ NoCommand /\ NoOutput
    \/ part = "power" /\ Power!Init /\ NoExecution /\ NoRead /\ NoCommand /\ NoOutput

StationNext ==
    /\ UNCHANGED part
    /\ \/ /\ \/ part = "linux" /\ OnLinux!Next
             \/ part = "macos" /\ MacOS!Next
             \/ part = "calm" /\ Calm!Next
          /\ UNCHANGED <<vars, admissionVars, outputVars, artifactVars>>
       \/ /\ part = "file" /\ Next
          /\ UNCHANGED <<executionVars, admissionVars, outputVars, artifactVars>>
       \/ /\ part = "admission" /\ AdmissionNext
          /\ UNCHANGED <<executionVars, vars, outputVars, artifactVars>>
       \/ /\ part = "output" /\ Output!Next
          /\ UNCHANGED <<executionVars, vars, admissionVars, artifactVars>>
       \/ /\ \/ part = "artifacts" /\ Artifacts!Next
             \/ part = "power" /\ Power!Next
          /\ UNCHANGED <<executionVars, vars, admissionVars, outputVars>>

StationSpec == StationInit /\ [][StationNext]_stationVars

-------------------------------------------------------------------------------

(* What no step does: spawn a process after a cause was latched while its    *)
(* entry was reserved (claim_spawn returns the cause and the phase goes      *)
(* straight to terminal), or replace, remove or rewrite the published file   *)
(* of a digest (publish_no_replace).                                         *)
WorkstationSteps ==
    [][/\ (part = "linux") => OnLinux!NoSpawnAfterCause
       /\ (part = "artifacts") => Artifacts!KeepsPublished]_stationVars

(* The output of a command, however the pipe cuts it into reads: the         *)
(* projection is the whole output when that fits and its head and tail when  *)
(* not; the definite outcome of text output is committed; and a text result  *)
(* not marked truncated shows every byte that was written.                   *)
OutputSafe ==
    part = "output" =>
        /\ Output!TypeOK
        /\ Output!ProjectionFaithful
        /\ Output!TextOutcomeCommits
        /\ Output!TruncationIsTold

===============================================================================
