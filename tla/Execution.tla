----------------------------- MODULE Execution -----------------------------
(***************************************************************************)
(* The foreground executions of the local workstation                      *)
(* (adapters/local_workstation/execution.rs): the registry of executions,  *)
(* the manager task that owns one supervisor per execution, the supervisor *)
(* from the claim of the spawn to the last join, the callers that wait for *)
(* a result, cancellation, and the shutdown that closes admission and      *)
(* waits until nothing is owned any more.                                  *)
(*                                                                         *)
(* The operating system is the environment: a leader and its descendants   *)
(* run, fork and exit as they like, and SIGTERM obliges nobody.  On Linux  *)
(* every process of an execution is in its cgroup; on macOS a descendant   *)
(* can leave the process group.  Deadlines pass at any moment.  Output     *)
(* bytes, digests, the working directory and the command line are not part *)
(* of this module.                                                         *)
(***************************************************************************)
EXTENDS Naturals, FiniteSets

CONSTANTS
    Execs,      \* execution ids
    Linux,      \* TRUE: descendants are tracked by a cgroup
    Faults,     \* the faults of the host that may happen, see FaultKinds
    MaxKids     \* bound on the live descendants of one execution

FaultKinds == {"capture", "cgroup", "spawn", "observe", "rmdir", "stream", "panic"}

ExecutionConstants ==
    Linux \in BOOLEAN /\ Faults \subseteq FaultKinds /\ MaxKids \in Nat

VARIABLES
    admission_open,          \* ExecutionRegistry.admission_open
    registry,                \* the keys of ExecutionRegistry.entries
    lifecycle,               \* per execution: phase and latched terminal cause
    permit,                  \* the permit of the entry's cause_changed
    terminal,                \* the entry's result, or NoResult
    sup,                     \* the supervisor of each execution
    os,                      \* what the kernel holds of each execution
    late,                    \* the request deadline has passed
    shutdown_deadline,       \* "none", "installed", "expired"
    shutdown_cleanup_failed,
    manager,                 \* the manager task
    caller,                  \* who called execute
    canceller,               \* who called cancel, with the result of its latch
    stopper,                 \* who called shutdown_before
    owned                    \* the entries when admission closed, and who had a result

vars == <<admission_open, registry, lifecycle, permit, terminal, sup, os, late,
          shutdown_deadline, shutdown_cleanup_failed, manager, caller, canceller,
          stopper, owned>>

-----------------------------------------------------------------------------
(* Entries and results. *)

Phases == {"reserved", "spawning", "running", "terminating", "terminal"}
Causes == {"none", "natural", "cancellation", "timeout", "shutdown"}
Streams == {"stdout", "stderr"}

Kinds == {"exited", "timed_out", "cancelled", "spawn_failed", "cleanup_failed"}

NoResult == [kind |-> "none"]

\* ExecutionCleanupEvidence, the cgroup's two answers in one: nothing to say of
\* a cgroup, empty and removed, or neither.
Evidence == [reaped : BOOLEAN, joined : SUBSET Streams, group : BOOLEAN,
             cgroup : {"na", "removed", "left"}]


Confirmed(ev) ==
    /\ ev.reaped /\ ev.joined = Streams /\ ev.group
    /\ ev.cgroup # "left"

\* What spawn_failure_result and pre_spawn_terminal_result claim: there never
\* was a process.
NeverStarted == [reaped |-> TRUE, joined |-> Streams, group |-> TRUE, cgroup |-> "na"]

ResultOf(kind, started, ev, certain) ==
    [kind |-> kind, started |-> started, confirmed |-> Confirmed(ev), definite |-> certain]

Results == [kind : Kinds, started : BOOLEAN, confirmed : BOOLEAN, definite : BOOLEAN]

\* ExecutionEntry::latch: the first cause stays.
Latched(l, cause) == IF l.cause = "none" THEN [l EXCEPT !.cause = cause] ELSE l

LatchSilently(e, cause) ==
    /\ lifecycle' = [lifecycle EXCEPT ![e] = Latched(@, cause)]
    /\ UNCHANGED permit

\* latch also leaves a permit for the supervisor, when it won.
Latch(e, cause) ==
    /\ lifecycle' = [lifecycle EXCEPT ![e] = Latched(@, cause)]
    /\ permit' = [permit EXCEPT ![e] = @ \/ lifecycle[e].cause = "none"]

LatchResult(e, cause) ==
    CASE lifecycle[e].cause = "none" -> "won"
      [] lifecycle[e].cause = cause  -> "same"
      [] OTHER                       -> "lost"

-----------------------------------------------------------------------------
(* What the supervisor can see of its processes. *)

NoProcess == [leader |-> "none", kids |-> 0, escaped |-> 0, cgroup |-> FALSE, killed |-> FALSE]

\* cgroup.events says populated 0, or the process group holds its leader only.
Emptied(o) == o.kids = 0 /\ (Linux => o.leader # "live")

\* owned_descendants_quiescent
Quiescent(s, o) == s.seen /\ Emptied(o)

\* refresh_leader_observation through waitid with WNOWAIT: what the observer
\* may leave in (terminal observed, identity stable).
Observations(s, o) ==
    IF s.seen \/ ~s.stable THEN {<<s.seen, s.stable>>}
    ELSE (IF o.leader = "zombie" THEN {<<TRUE, TRUE>>} ELSE {<<FALSE, TRUE>>})
         \cup (IF "observe" \in Faults THEN {<<FALSE, FALSE>>} ELSE {})

\* effective_cleanup_remaining is None: the request's deadline or the one of
\* the shutdown has passed.
Expired(e) == late[e] \/ shutdown_deadline = "expired"

Gone(o) == o.leader \in {"none", "reaped"} /\ o.kids = 0

Init ==
    /\ admission_open = TRUE
    /\ registry = {}
    /\ lifecycle = [e \in Execs |-> [phase |-> "reserved", cause |-> "none"]]
    /\ permit = [e \in Execs |-> FALSE]
    /\ terminal = [e \in Execs |-> NoResult]
    /\ sup = [e \in Execs |-> [pc |-> "none", seen |-> FALSE, stable |-> TRUE,
                               quiet |-> FALSE, ev |-> NeverStarted,
                               result |-> NoResult]]
    /\ os = [e \in Execs |-> NoProcess]
    /\ late = [e \in Execs |-> FALSE]
    /\ shutdown_deadline = "none"
    /\ shutdown_cleanup_failed = FALSE
    /\ manager = "none"
    /\ caller = [e \in Execs |-> "idle"]
    /\ canceller = [e \in Execs |-> <<"idle">>]
    /\ stopper = "idle"
    /\ owned = {}

runtimeVars == <<admission_open, shutdown_deadline, shutdown_cleanup_failed, manager,
                 stopper, owned>>

-----------------------------------------------------------------------------
(* execute *)

\* validate_request and the reservation under the registry's lock.
Reserve(e) ==
    /\ caller[e] = "idle"
    /\ IF late[e] \/ ~admission_open
       THEN /\ caller' = [caller EXCEPT ![e] = "refused"]
            /\ UNCHANGED registry
       ELSE /\ registry' = registry \cup {e}
            /\ caller' = [caller EXCEPT ![e] = "reserved"]
    /\ UNCHANGED <<lifecycle, permit, terminal, sup, os, late, canceller, runtimeVars>>

\* ensure_manager starts the manager task when there is none; then the launch
\* is sent and the caller waits.
SendLaunch(e) ==
    /\ caller[e] = "reserved"
    /\ manager' = IF manager = "none" THEN "running" ELSE manager
    /\ sup' = [sup EXCEPT ![e].pc = "sent"]
    /\ caller' = [caller EXCEPT ![e] = "waiting"]
    /\ UNCHANGED <<admission_open, registry, lifecycle, permit, terminal, os, late,
                   shutdown_deadline, shutdown_cleanup_failed, canceller, stopper, owned>>

\* ExecutionEntry::result
CallerAnswered(e) ==
    /\ caller[e] = "waiting" /\ terminal[e] # NoResult
    /\ caller' = [caller EXCEPT ![e] = "answered"]
    /\ UNCHANGED <<registry, lifecycle, permit, terminal, sup, os, late, canceller, runtimeVars>>

-----------------------------------------------------------------------------
(* The supervisor: supervise_inner. *)

callVars == <<registry, terminal, late, caller, canceller, admission_open,
              shutdown_deadline, manager, stopper, owned>>

Done(e, r) == [sup EXCEPT ![e].pc = "done", ![e].result = r]

ClaimAnyway(e) ==
    /\ sup[e].pc = "sent" /\ manager = "running"
    /\ lifecycle' = [lifecycle EXCEPT ![e].phase = "spawning"]
    /\ sup' = [sup EXCEPT ![e].pc = "spawning"]
    /\ UNCHANGED <<permit, os, shutdown_cleanup_failed, callVars>>

\* claim_spawn: a cause latched before the claim wins and nothing is spawned.
ClaimSpawn(e) ==
    /\ sup[e].pc = "sent" /\ manager = "running"
    /\ LET cause == lifecycle[e].cause
           kind  == IF cause = "timeout" THEN "timed_out" ELSE "cancelled"
       IN IF cause # "none"
          THEN /\ sup' = Done(e, ResultOf(kind, FALSE, NeverStarted, TRUE))
               /\ UNCHANGED lifecycle
          ELSE /\ lifecycle' = [lifecycle EXCEPT ![e].phase = "spawning"]
               /\ sup' = [sup EXCEPT ![e].pc = "spawning"]
    /\ UNCHANGED <<permit, os, shutdown_cleanup_failed, callVars>>

\* No capture or no cgroup: spawn_failure_result, with nothing to clean up.
PrepareFails(e) ==
    /\ sup[e].pc = "spawning" /\ Faults \cap {"capture", "cgroup"} # {}
    /\ sup' = Done(e, ResultOf("spawn_failed", FALSE, NeverStarted, TRUE))
    /\ UNCHANGED <<lifecycle, permit, os, shutdown_cleanup_failed, callVars>>

\* spawn fails: cleanup_after_spawn_failure looks at the cgroup once.  The
\* child that failed before exec may still be in it.
SpawnFails(e) ==
    /\ sup[e].pc = "spawning" /\ "spawn" \in Faults
    /\ \E left \in IF Linux THEN BOOLEAN ELSE {FALSE} :
          LET ev == [NeverStarted EXCEPT !.cgroup = IF ~Linux THEN "na"
                                                    ELSE IF left THEN "left" ELSE "removed"]
          IN /\ sup' = Done(e, ResultOf(IF left THEN "cleanup_failed" ELSE "spawn_failed",
                                        FALSE, ev, ~left))
             /\ os' = [os EXCEPT ![e].cgroup = left]
    /\ UNCHANGED <<lifecycle, permit, shutdown_cleanup_failed, callVars>>

\* spawn succeeds: set_running, and the two drains start.
Spawn(e) ==
    /\ sup[e].pc = "spawning"
    /\ os' = [os EXCEPT ![e].leader = "live", ![e].cgroup = Linux]
    /\ lifecycle' = [lifecycle EXCEPT ![e].phase = "running"]
    /\ sup' = [sup EXCEPT ![e].pc = "watch",
                          ![e].ev = [NeverStarted EXCEPT !.reaped = FALSE, !.joined = {}]]
    /\ UNCHANGED <<permit, shutdown_cleanup_failed, callVars>>

\* The watch loop observes the leader's end and latches Natural ...
SeeExit(e) ==
    /\ sup[e].pc = "watch" /\ os[e].leader = "zombie"
    /\ Latch(e, "natural")
    /\ sup' = [sup EXCEPT ![e].pc = "terminate", ![e].seen = TRUE]
    /\ UNCHANGED <<os, shutdown_cleanup_failed, callVars>>

\* ... or loses the leader's identity, with no cause of its own ...
LoseLeader(e) ==
    /\ sup[e].pc = "watch" /\ "observe" \in Faults
    /\ sup' = [sup EXCEPT ![e].pc = "terminate", ![e].stable = FALSE]
    /\ UNCHANGED <<lifecycle, permit, os, shutdown_cleanup_failed, callVars>>

\* ... or one of the two budgets ends ...
BudgetEnds(e) ==
    /\ sup[e].pc = "watch"
    /\ Latch(e, "timeout")
    /\ sup' = [sup EXCEPT ![e].pc = "terminate"]
    /\ UNCHANGED <<os, shutdown_cleanup_failed, callVars>>

\* ... or it takes the permit of a cause latched by someone else.
TakePermit(e) ==
    /\ sup[e].pc = "watch" /\ permit[e]
    /\ permit' = [permit EXCEPT ![e] = FALSE]
    /\ sup' = [sup EXCEPT ![e].pc = "terminate"]
    /\ UNCHANGED <<lifecycle, os, shutdown_cleanup_failed, callVars>>

\* set_terminating and the head of finish_owned_process_tree: SIGTERM unless the
\* leader ended by itself and left nobody behind.  (SIGTERM obliges nobody, so
\* it is not a step of os.)
BeginTermination(e) ==
    /\ sup[e].pc = "terminate"
    /\ lifecycle' = [lifecycle EXCEPT ![e].phase = "terminating"]
    /\ sup' = [sup EXCEPT ![e].pc = "grace",
                          ![e].quiet = sup[e].stable /\ Quiescent(sup[e], os[e])]
    /\ UNCHANGED <<permit, os, shutdown_cleanup_failed, callVars>>

TreeDone(s) == s.seen /\ s.quiet

\* One tick of either loop: the leader is observed again, then its descendants.
PollTree(e) ==
    /\ sup[e].pc \in {"grace", "killed"}
    /\ sup[e].stable /\ ~TreeDone(sup[e]) /\ ~Expired(e)
    /\ \E ob \in Observations(sup[e], os[e]) :
          LET s == [sup[e] EXCEPT !.seen = ob[1], !.stable = ob[2]]
          IN sup' = [sup EXCEPT ![e] = [s EXCEPT !.quiet = s.stable /\ Quiescent(s, os[e])]]
    /\ UNCHANGED <<lifecycle, permit, os, shutdown_cleanup_failed, callVars>>

\* The grace has ended (or a deadline cut it) and the tree is still there:
\* SIGKILL to the group and cgroup.kill.
KillTree(e) ==
    /\ sup[e].pc = "grace" /\ sup[e].stable /\ ~TreeDone(sup[e])
    /\ os' = [os EXCEPT ![e].killed = TRUE]
    /\ sup' = [sup EXCEPT ![e].pc = "killed"]
    /\ UNCHANGED <<lifecycle, permit, shutdown_cleanup_failed, callVars>>

\* Leaving the loops.  Past the shutdown's deadline with a tree still there, the
\* failure is flagged and everything is killed once more.
LeaveTree(e) ==
    LET over == shutdown_deadline = "expired" /\ ~TreeDone(sup[e])
    IN /\ \/ sup[e].pc = "grace" /\ (~sup[e].stable \/ TreeDone(sup[e]))
          \/ sup[e].pc = "killed" /\ (~sup[e].stable \/ TreeDone(sup[e]) \/ Expired(e))
       /\ shutdown_cleanup_failed' = (shutdown_cleanup_failed \/ over)
       /\ os' = [os EXCEPT ![e].killed = @ \/ over]
       /\ sup' = [sup EXCEPT ![e].pc = "cgroup"]
       /\ UNCHANGED <<lifecycle, permit, callVars>>

\* ExecutionCgroup::finish_cleanup kills what is left, then waits for the cgroup
\* to be empty or for a deadline, and removes it.  Without a cgroup the group is
\* looked at once more.
FinishCgroup(e) ==
    /\ sup[e].pc = "cgroup"
    /\ Linux => Emptied(os[e]) \/ Expired(e)
    /\ \E rm \in IF ~Linux THEN {"na"}
                 ELSE IF ~Emptied(os[e]) THEN {"left"}
                 ELSE IF "rmdir" \in Faults THEN {"removed", "left"} ELSE {"removed"} :
          LET quiet == IF ~sup[e].stable THEN sup[e].quiet
                       ELSE IF Linux THEN Emptied(os[e])
                       ELSE Quiescent(sup[e], os[e])
          IN /\ sup' = [sup EXCEPT ![e].pc = "reap", ![e].quiet = quiet,
                                   ![e].ev.cgroup = rm,
                                   ![e].ev.group = sup[e].stable /\ quiet]
             /\ os' = [os EXCEPT ![e].cgroup = @ /\ rm # "removed",
                                 ![e].killed = @ \/ (Linux /\ ~Emptied(os[e]))]
    /\ UNCHANGED <<lifecycle, permit, shutdown_cleanup_failed, callVars>>

\* The identity is released and the leader is reaped, if it has ended.
ReapLeader(e) ==
    /\ sup[e].pc = "reap"
    /\ LET ended == os[e].leader = "zombie"
       IN /\ os' = [os EXCEPT ![e].leader = IF ended THEN "reaped" ELSE @]
          /\ sup' = [sup EXCEPT ![e].pc = "drain", ![e].ev.reaped = ended]
    /\ UNCHANGED <<lifecycle, permit, shutdown_cleanup_failed, callVars>>

\* A drain ends: at the end of its stream, or with an error of the capture.
JoinDrain(e) ==
    /\ sup[e].pc = "drain" /\ ~Expired(e)
    /\ \E s \in Streams \ sup[e].ev.joined :
          sup' = [sup EXCEPT ![e].ev.joined = @ \cup {s}]
    /\ UNCHANGED <<lifecycle, permit, os, shutdown_cleanup_failed, callVars>>

\* What the supervisor returns: the latched cause names the outcome, and an
\* unconfirmed cleanup overrides it.
FinalResult(e) ==
    LET ev    == sup[e].ev
        cause == lifecycle[e].cause
        named == CASE cause = "timeout"                     -> "timed_out"
                   [] cause \in {"cancellation", "shutdown"} -> "cancelled"
                   [] OTHER                                 -> "exited"
    IN ResultOf(IF Confirmed(ev) THEN named ELSE "cleanup_failed", TRUE, ev, Confirmed(ev))

\* Both drains are joined, or a deadline aborts the rest.
FinishSupervisor(e) ==
    /\ sup[e].pc = "drain"
    /\ sup[e].ev.joined = Streams \/ Expired(e) \/ "stream" \in Faults
    /\ sup' = Done(e, FinalResult(e))
    /\ UNCHANGED <<lifecycle, permit, os, shutdown_cleanup_failed, callVars>>

\* The supervisor task panics: the child is killed on drop, its cgroup is not
\* touched, and the join reports an error.
Panic(e) ==
    /\ "panic" \in Faults
    /\ sup[e].pc \in {"spawning", "watch", "grace", "killed", "cgroup", "drain"}
    /\ os' = [os EXCEPT ![e].killed = @ \/ os[e].leader = "live"]
    /\ sup' = [sup EXCEPT ![e].pc = "panicked"]
    /\ UNCHANGED <<lifecycle, permit, shutdown_cleanup_failed, callVars>>

-----------------------------------------------------------------------------
(* The manager: join, complete, remove. *)

\* A supervisor's end: an unconfirmed cleanup counts against a shutdown that has
\* begun; the entry gets its result (panic_failure_result for a panic).
JoinSupervisor(e) ==
    /\ sup[e].pc \in {"done", "panicked"} /\ manager \in {"running", "stopping"}
    /\ LET r == IF sup[e].pc = "done" THEN sup[e].result
                ELSE ResultOf("cleanup_failed", FALSE,
                              [NeverStarted EXCEPT !.group = FALSE], FALSE)
       IN /\ terminal' = [terminal EXCEPT ![e] = r]
          /\ lifecycle' = [lifecycle EXCEPT ![e].phase = "terminal"]
          /\ shutdown_cleanup_failed' =
                (shutdown_cleanup_failed \/ (shutdown_deadline # "none" /\ ~r.confirmed))
    /\ sup' = [sup EXCEPT ![e].pc = "joined"]
    /\ UNCHANGED <<registry, permit, os, late, caller, canceller, admission_open,
                   shutdown_deadline, manager, stopper, owned>>

\* After a yield the entry leaves the registry.
Remove(e) ==
    /\ sup[e].pc = "joined"
    /\ registry' = registry \ {e}
    /\ sup' = [sup EXCEPT ![e].pc = "gone"]
    /\ UNCHANGED <<lifecycle, permit, terminal, os, late, caller, canceller, runtimeVars>>

-----------------------------------------------------------------------------
(* cancel: look the entry up, see whether it is terminal, latch, wait. *)

CancelLookup(e) ==
    /\ canceller[e] = <<"idle">> /\ caller[e] # "idle"
    /\ canceller' = [canceller EXCEPT ![e] = IF e \in registry THEN <<"found">>
                                             ELSE <<"answer", "not_found">>]
    /\ UNCHANGED <<registry, lifecycle, permit, terminal, sup, os, late, caller, runtimeVars>>

CancelCheck(e) ==
    /\ canceller[e] = <<"found">>
    /\ canceller' = [canceller EXCEPT ![e] =
                        IF lifecycle[e].phase = "terminal" THEN <<"answer", "already_terminal">>
                        ELSE <<"latching">>]
    /\ UNCHANGED <<registry, lifecycle, permit, terminal, sup, os, late, caller, runtimeVars>>

CancelLatch(e) ==
    /\ canceller[e] = <<"latching">>
    /\ Latch(e, "cancellation")
    /\ canceller' = [canceller EXCEPT ![e] = <<"waiting", LatchResult(e, "cancellation")>>]
    /\ UNCHANGED <<registry, terminal, sup, os, late, caller, runtimeVars>>

CancelAnswer(e) ==
    /\ canceller[e][1] = "waiting" /\ terminal[e] # NoResult
    /\ canceller' = [canceller EXCEPT ![e] =
                        <<"answer", IF ~terminal[e].confirmed THEN "cleanup_unconfirmed"
                                    ELSE IF canceller[e][2] = "lost" THEN "already_terminal"
                                    ELSE "confirmed">>]
    /\ UNCHANGED <<registry, lifecycle, permit, terminal, sup, os, late, caller, runtimeVars>>

-----------------------------------------------------------------------------
(* shutdown_before *)

\* begin_shutdown installs the deadline ...
InstallDeadline ==
    /\ stopper = "idle"
    /\ shutdown_deadline' = "installed"
    /\ stopper' = "closing"
    /\ UNCHANGED <<admission_open, registry, lifecycle, permit, terminal, sup, os, late,
                   shutdown_cleanup_failed, manager, caller, canceller, owned>>

\* ... then, under the registry's lock, closes admission and latches every entry.
CloseAdmission ==
    /\ stopper = "closing"
    /\ admission_open' = FALSE
    /\ lifecycle' = [e \in Execs |-> IF e \in registry THEN Latched(lifecycle[e], "shutdown")
                                     ELSE lifecycle[e]]
    /\ permit' = [e \in Execs |-> permit[e] \/ (e \in registry /\ lifecycle[e].cause = "none")]
    /\ owned' = {<<e, terminal[e] # NoResult>> : e \in registry}
    /\ stopper' = "draining"
    /\ UNCHANGED <<registry, terminal, sup, os, late, shutdown_deadline,
                   shutdown_cleanup_failed, manager, caller, canceller>>

Verdict == IF shutdown_cleanup_failed THEN "failed" ELSE "ok"

\* The registry is empty: the manager is taken and told to stop.
TakeManager ==
    /\ stopper = "draining" /\ registry = {}
    /\ IF manager = "none" THEN stopper' = Verdict /\ UNCHANGED manager
       ELSE stopper' = "stopping" /\ manager' = "stopping"
    /\ UNCHANGED <<admission_open, registry, lifecycle, permit, terminal, sup, os, late,
                   shutdown_deadline, shutdown_cleanup_failed, caller, canceller, owned>>

\* The manager returns once every supervisor is joined.
ManagerStops ==
    /\ stopper = "stopping"
    /\ \A e \in Execs : sup[e].pc \in {"none", "joined", "gone"}
    /\ manager' = "stopped"
    /\ stopper' = Verdict
    /\ UNCHANGED <<admission_open, registry, lifecycle, permit, terminal, sup, os, late,
                   shutdown_deadline, shutdown_cleanup_failed, caller, canceller, owned>>

-----------------------------------------------------------------------------
(* The host: time passes and processes live. *)

hostRest == <<registry, lifecycle, permit, terminal, sup, caller, canceller,
              admission_open, shutdown_cleanup_failed, manager, stopper, owned>>

RequestExpires(e) ==
    /\ ~late[e] /\ late' = [late EXCEPT ![e] = TRUE]
    /\ UNCHANGED <<os, shutdown_deadline, hostRest>>

ShutdownExpires ==
    /\ shutdown_deadline = "installed" /\ shutdown_deadline' = "expired"
    /\ UNCHANGED <<os, late, hostRest>>

LeaderEnds(e) ==
    /\ os[e].leader = "live"
    /\ os' = [os EXCEPT ![e].leader = "zombie"]
    /\ UNCHANGED <<late, shutdown_deadline, hostRest>>

KidStarts(e) ==
    /\ os[e].leader = "live" \/ os[e].kids > 0
    /\ ~os[e].killed /\ os[e].kids < MaxKids
    /\ os' = [os EXCEPT ![e].kids = @ + 1]
    /\ UNCHANGED <<late, shutdown_deadline, hostRest>>

KidEnds(e) ==
    /\ os[e].kids > 0
    /\ os' = [os EXCEPT ![e].kids = @ - 1]
    /\ UNCHANGED <<late, shutdown_deadline, hostRest>>

\* Without a cgroup a descendant can start a session of its own.
KidEscapes(e) ==
    /\ ~Linux /\ os[e].kids > 0 /\ os[e].escaped < MaxKids
    /\ os' = [os EXCEPT ![e].kids = @ - 1, ![e].escaped = @ + 1]
    /\ UNCHANGED <<late, shutdown_deadline, hostRest>>

-----------------------------------------------------------------------------
Supervise(e) ==
    \/ ClaimSpawn(e) \/ PrepareFails(e) \/ SpawnFails(e) \/ Spawn(e)
    \/ SeeExit(e) \/ LoseLeader(e) \/ BudgetEnds(e) \/ TakePermit(e)
    \/ BeginTermination(e) \/ PollTree(e) \/ KillTree(e) \/ LeaveTree(e)
    \/ FinishCgroup(e) \/ ReapLeader(e) \/ JoinDrain(e) \/ FinishSupervisor(e)
    \/ Panic(e)

Host(e) ==
    \/ RequestExpires(e) \/ LeaderEnds(e) \/ KidStarts(e) \/ KidEnds(e) \/ KidEscapes(e)

Shutdown == InstallDeadline \/ CloseAdmission \/ TakeManager \/ ManagerStops

Next ==
    \/ \E e \in Execs :
          \/ Reserve(e) \/ SendLaunch(e) \/ CallerAnswered(e)
          \/ Supervise(e)
          \/ JoinSupervisor(e) \/ Remove(e)
          \/ CancelLookup(e) \/ CancelCheck(e) \/ CancelLatch(e) \/ CancelAnswer(e)
          \/ Host(e)
    \/ Shutdown
    \/ ShutdownExpires

Spec == Init /\ [][Next]_vars

\* The tasks run: supervisors, the manager, the callers and the shutdown take the
\* steps they can take.  BudgetEnds is a timer and is not among them.
Tasks ==
    /\ \A e \in Execs :
          /\ WF_vars(ClaimSpawn(e) \/ Spawn(e) \/ BeginTermination(e))
          /\ WF_vars(SeeExit(e) \/ TakePermit(e))
          /\ WF_vars(PollTree(e)) /\ WF_vars(KillTree(e)) /\ WF_vars(LeaveTree(e))
          /\ WF_vars(FinishCgroup(e) \/ ReapLeader(e)) /\ WF_vars(FinishSupervisor(e))
          /\ WF_vars(JoinSupervisor(e) \/ Remove(e))
          /\ WF_vars(SendLaunch(e)) /\ WF_vars(CallerAnswered(e))
          /\ WF_vars(CancelCheck(e) \/ CancelLatch(e) \/ CancelAnswer(e))
    /\ WF_vars(CloseAdmission \/ TakeManager \/ ManagerStops)

\* Time passes: a request's deadline comes, and the timer on it fires.
Time == \A e \in Execs : WF_vars(RequestExpires(e)) /\ WF_vars(late[e] /\ BudgetEnds(e))

PromptSpec == Spec /\ Tasks
FairSpec == Spec /\ Tasks /\ Time

-----------------------------------------------------------------------------
(* Properties *)

SupPcs == {"none", "sent", "spawning", "watch", "terminate", "grace", "killed", "cgroup",
           "reap", "drain", "done", "panicked", "joined", "gone"}

\* Type correctness of the runtime's state.
TypeOK ==
    /\ admission_open \in BOOLEAN /\ registry \subseteq Execs
    /\ \A e \in Execs :
          /\ lifecycle[e] \in [phase : Phases, cause : Causes]
          /\ permit[e] \in BOOLEAN /\ late[e] \in BOOLEAN
          /\ terminal[e] \in Results \cup {NoResult}
          /\ sup[e].pc \in SupPcs /\ sup[e].ev \in Evidence
          /\ sup[e].result \in Results \cup {NoResult}
          /\ os[e].leader \in {"none", "live", "zombie", "reaped"}
          /\ os[e].kids \in 0..MaxKids /\ os[e].escaped \in 0..MaxKids
          /\ caller[e] \in {"idle", "refused", "reserved", "waiting", "answered"}
    /\ shutdown_deadline \in {"none", "installed", "expired"}
    /\ manager \in {"none", "running", "stopping", "stopped"}
    /\ stopper \in {"idle", "closing", "draining", "stopping", "ok", "failed"}

\* A result with confirmed cleanup is the truth about the host: the leader is
\* reaped or never started, no descendant is left in the group, and the cgroup is
\* removed.  It must hold whatever exited, forked, was cancelled or timed out
\* between the supervisor's last look and its result.
ConfirmedMeansGone ==
    \A e \in Execs : terminal[e] # NoResult /\ terminal[e].confirmed
                      => Gone(os[e]) /\ ~os[e].cgroup

\* On a host without faults the supervisor gives up on a process tree only when a
\* deadline has passed: no race of exits, signals and observations makes it report
\* an unconfirmed cleanup early.
GivesUpOnlyLate ==
    (Faults = {}) => \A e \in Execs :
        terminal[e] # NoResult /\ ~terminal[e].confirmed => Expired(e)

\* The result names the cause that was latched first, although the supervisor reads
\* the cause again after its last await: an execution that was cancelled, timed out or
\* shut down first is never reported as exited, and one reported as exited had seen
\* its leader end before anyone asked it to stop.
OutcomeNamesCause ==
    \A e \in Execs : terminal[e] # NoResult =>
        LET cause == lifecycle[e].cause
        IN CASE terminal[e].kind = "exited"    -> cause = "natural"
             [] terminal[e].kind = "timed_out" -> cause = "timeout"
             [] terminal[e].kind = "cancelled" -> cause \in {"cancellation", "shutdown"}
             [] OTHER                          -> TRUE

\* A cancellation answered "confirmed" ended the execution: nothing of it runs, and its
\* caller is not told that the command exited by itself.
CancelMeansOver ==
    \A e \in Execs : canceller[e] = <<"answer", "confirmed">> =>
        Gone(os[e]) /\ terminal[e].kind \in {"cancelled", "spawn_failed"}

\* shutdown_before returns Ok only when every execution that was still without a
\* result when admission closed has ended with confirmed cleanup, and no execution
\* is registered, supervised or spawned after it returned.
ShutdownCovers ==
    /\ stopper = "ok" => \A e \in Execs : <<e, FALSE>> \in owned =>
                            terminal[e].confirmed /\ Gone(os[e])
    /\ stopper \in {"ok", "failed"} =>
          registry = {} /\ \A e \in Execs : sup[e].pc \in {"none", "gone"}

\* A cause latched while the entry is still reserved forbids the spawn: claim_spawn
\* returns the cause and the phase goes straight to terminal.
NoSpawnAfterCause ==
    \A e \in Execs : lifecycle[e].phase = "reserved" /\ lifecycle[e].cause # "none"
        => lifecycle'[e].phase \in {"reserved", "terminal"}
CausePrecedesSpawn == [][NoSpawnAfterCause]_vars

\* The documentation of shutdown_executions_before, taken at its word: Ok means that
\* every entry registered when admission closed was verified.
ShutdownVerifies ==
    stopper = "ok" => \A e \in Execs : <<e, TRUE>> \in owned => Gone(os[e])

\* Every admitted caller gets its result, even if no signal ever kills anything: the
\* loops and the drains end with the request's deadline.
CallersAnswered == \A e \in Execs : []<>(caller[e] # "waiting")

\* shutdown_before returns.
ShutdownReturns == []<>(stopper \in {"idle", "ok", "failed"})

\* A latched cause ends the watch without waiting for any timer: the permit of
\* cause_changed cannot be lost, also when the cause was latched before the
\* supervisor began to wait.
CauseEndsWatch ==
    \A e \in Execs : []<>~(sup[e].pc = "watch" /\ lifecycle[e].cause # "none")
=============================================================================
