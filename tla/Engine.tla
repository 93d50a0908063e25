-------------------------------- MODULE Engine --------------------------------
(***************************************************************************)
(* The running service: clients, the scheduler, its runner and the process *)
(* that boots, recovers, serves, shuts down and crashes, all on one        *)
(* durable store.  A crash or an exit loses the process state (`proc`,     *)
(* `sched`, `runner`) and keeps the store.  The store never lets anybody   *)
(* but its callers decide; whether they call it in an order that settles   *)
(* every work is what this module is about.                                *)
(***************************************************************************)
EXTENDS Scheduler

CONSTANT MaxFaults   \* store calls that fail in a behaviour

MaxFaultsOK == MaxFaults \in Nat

VARIABLES
    proc,    \* where the main task is, and finish's ownership_accounted
    faults   \* store faults so far

engineVars == <<work, model, tool, runtime, answered, runner, sent, handed,
                sched, me, proc, faults>>

Down == [pc |-> "down", accounted |-> TRUE]

KeepVolatile == UNCHANGED <<runner, sent, handed, sched, me>>
ProcGoto(pc) == proc' = [proc EXCEPT !.pc = pc]

(* The process is gone: its tasks, channels and flags with it.               *)
Halt ==
    /\ proc' = Down
    /\ sched' = NoScheduler
    /\ runner' = NoRunner
    /\ me' = NoRuntime
    /\ UNCHANGED <<sent, handed>>

Spare == \E r \in Runtimes : runtime[r] = "absent"

Fault ==
    /\ faults < MaxFaults /\ Spare
    /\ faults' = faults + 1

(* Runtimes an earlier process left open.                                    *)
StaleRuntime(r) == r # me /\ runtime[r] \in {"running", "stopping"}
OwnsWork(r) == \E w \in Works : IsActive(work[w]) /\ work[w].owner = r

EngineInit ==
    /\ Init
    /\ runner = NoRunner /\ sent = {} /\ handed = {}
    /\ sched = NoScheduler /\ me = NoRuntime
    /\ proc = Down /\ faults = 0

-----------------------------------------------------------------------------
(* bootstrap_runtime: a new runtime row, then every stale runtime is         *)
(* recovered one work at a time and closed.  An error marks the new runtime  *)
(* as failed at startup and ends the process.                                *)
Boot(r) ==
    /\ proc.pc = "down"
    /\ CreateRuntime(r)
    /\ me' = r
    /\ ProcGoto("recover")
    /\ UNCHANGED <<runner, sent, handed, sched, faults>>

RecoverStaleRuntime ==
    /\ proc.pc = "recover"
    /\ \E r \in Runtimes :
           /\ StaleRuntime(r)
           /\ \/ \E w \in Works : RecoverWorkUnit(w, r)
              \/ CloseStaleRuntime(r)
    /\ KeepVolatile /\ UNCHANGED <<proc, faults>>

RecoveryFails ==
    /\ proc.pc = "recover"
    /\ Fault
    /\ MarkRuntimeStartupFailure(me)
    /\ Halt

(* Clients are admitted while stale runtimes are still open.                 *)
FaultyServe ==
    /\ proc.pc = "recover"
    /\ ProcGoto("serving")
    /\ sched' = StartScheduler
    /\ KeepStore /\ KeepRunner /\ UNCHANGED <<me, faults>>

(* Recovery is complete: the scheduler is started and clients are admitted.  *)
Serve ==
    /\ proc.pc = "recover"
    /\ \A r \in Runtimes : ~StaleRuntime(r)
    /\ ProcGoto("serving")
    /\ sched' = StartScheduler
    /\ KeepStore /\ KeepRunner /\ UNCHANGED <<me, faults>>

(* A message or a cancel command, admitted until mutation admission closes.  *)
ClientCommand ==
    /\ proc.pc = "serving"
    /\ \E w \in Works : AdmitMessage(w) \/ CancelCommand(w)
    /\ KeepVolatile /\ UNCHANGED <<proc, faults>>

-----------------------------------------------------------------------------
(* ShutdownController::request.  stop_claiming_and_wait lowers `claiming`    *)
(* and then waits for the claim gate.                                        *)
StopClaiming ==
    /\ proc.pc = "serving"
    /\ sched' = [sched EXCEPT !.claiming = FALSE]
    /\ ProcGoto("quiesce")
    /\ KeepStore /\ KeepRunner /\ UNCHANGED <<me, faults>>

(* A signal, or the fatal channel the scheduler wrote to.                    *)
SignalShutdown == StopClaiming
FatalShutdown == sched.fatal /\ StopClaiming

WaitForClaimGate ==
    /\ proc.pc = "quiesce"
    /\ sched.pc \notin {"gate", "claim"}
    /\ ProcGoto("stopping")
    /\ KeepStore /\ KeepVolatile /\ UNCHANGED faults

(* begin_runtime_stopping; its error is recorded and the sequence goes on.   *)
StopRuntime ==
    /\ proc.pc = "stopping"
    /\ \/ BeginRuntimeStopping(me) /\ UNCHANGED faults
       \/ Fault /\ KeepStore
    /\ ProcGoto("cancel_owned")
    /\ KeepVolatile

(* request_owned_cancellation; the scheduler is told to shut down only when  *)
(* it succeeded.                                                             *)
CancelOwned ==
    /\ proc.pc = "cancel_owned"
    /\ \/ /\ \/ RequestOwnedCancellation(me)
             \/ OwnedCancellable(me) = {} /\ KeepStore
          /\ sched' = [sched EXCEPT !.mail = IF sched.pc = "exited" THEN "none" ELSE "begin"]
          /\ UNCHANGED faults
       \/ /\ Fault /\ KeepStore
          /\ UNCHANGED sched
    /\ ProcGoto("join")
    /\ KeepRunner /\ UNCHANGED me

-----------------------------------------------------------------------------
(* ShutdownController::finish.  The scheduler ends before the deadline ...   *)
JoinScheduler ==
    /\ proc.pc = "join"
    /\ sched.pc = "exited"
    /\ ProcGoto("account")
    /\ KeepStore /\ KeepVolatile /\ UNCHANGED faults

(* The deadline is only enforced on a registered runner.                     *)
FaultyFreezeAtDeadline ==
    /\ proc.pc = "join"
    /\ sched.pc = "idle" /\ sched.mail # "begin" /\ sched.reg # 0
    /\ sched' = [sched EXCEPT !.frozen = TRUE]
    /\ ProcGoto("classify")
    /\ KeepStore /\ KeepRunner /\ UNCHANGED <<me, faults>>

(* ... or it is frozen at the deadline: no join is observed and nothing is   *)
(* claimed any more, while the runner itself goes on.                        *)
FreezeAtDeadline ==
    /\ proc.pc = "join"
    /\ sched.pc = "idle" /\ sched.mail # "begin"
    /\ sched' = [sched EXCEPT !.frozen = TRUE]
    /\ ProcGoto("classify")
    /\ KeepStore /\ KeepRunner /\ UNCHANGED <<me, faults>>

(* classify_unresolved_shutdown_work: every work the runtime still owns is   *)
(* recovered, under a frozen scheduler ("classify") or after it has ended.   *)
ClassifyShutdownWork ==
    /\ proc.pc \in {"classify", "account"}
    /\ \E w \in Works : RecoverWorkUnit(w, me)
    /\ KeepVolatile /\ UNCHANGED <<proc, faults>>

Classified ==
    /\ proc.pc \in {"classify", "account"}
    /\ ~OwnsWork(me)
    /\ ProcGoto(IF proc.pc = "classify" THEN "abort"
                ELSE IF proc.accounted THEN "close" ELSE "exit")
    /\ KeepStore /\ KeepVolatile /\ UNCHANGED faults

(* An error of the classification under the freeze drops the scheduler's     *)
(* handle and tries once more; either error leaves the runtime row open.     *)
ClassifyFails ==
    /\ proc.pc \in {"classify", "account"}
    /\ Fault
    /\ proc' = [pc |-> IF proc.pc = "classify" THEN "account" ELSE "exit",
                accounted |-> FALSE]
    /\ sched' = [sched EXCEPT !.mail = IF sched.pc = "exited" THEN "none" ELSE "closed"]
    /\ KeepStore /\ KeepRunner /\ UNCHANGED me

(* AbortDurablyClassified: the runners are aborted, nothing is recorded.     *)
AbortRunners ==
    /\ proc.pc = "abort"
    /\ sched' = NoScheduler
    /\ runner' = NoRunner
    /\ ProcGoto("close")
    /\ KeepStore /\ UNCHANGED <<sent, handed, me, faults>>

(* finish_runtime_graceful, refused when begin_runtime_stopping had failed;  *)
(* then the process exits.                                                   *)
CloseRuntime ==
    /\ \/ proc.pc = "close" /\ FinishRuntimeGraceful(me) /\ UNCHANGED faults
       \/ proc.pc = "close" /\ runtime[me] = "running" /\ KeepStore /\ UNCHANGED faults
       \/ proc.pc = "close" /\ Fault /\ KeepStore
       \/ proc.pc = "exit" /\ KeepStore /\ UNCHANGED faults
    /\ Halt

(* The process dies between any two steps.                                   *)
Crash ==
    /\ proc.pc # "down" /\ Spare
    /\ Halt
    /\ KeepStore /\ UNCHANGED faults

-----------------------------------------------------------------------------
RunnerTask == RunnerStep /\ UNCHANGED schedVars /\ UNCHANGED <<proc, faults>>
SchedulerTask == SchedulerStep /\ UNCHANGED <<proc, faults>>
TaskStep == RunnerTask \/ SchedulerTask

StoreFault ==
    /\ \/ RunnerStoreFault /\ UNCHANGED schedVars
       \/ SchedulerStoreFault
    /\ Fault
    /\ UNCHANGED proc

MainStep ==
    \/ RecoverStaleRuntime \/ Serve
    \/ FatalShutdown \/ WaitForClaimGate \/ StopRuntime \/ CancelOwned
    \/ JoinScheduler \/ FreezeAtDeadline \/ ClassifyShutdownWork \/ Classified
    \/ AbortRunners \/ CloseRuntime

EngineNext ==
    \/ \E r \in Runtimes : Boot(r)
    \/ RecoveryFails \/ ClientCommand \/ SignalShutdown \/ ClassifyFails \/ Crash
    \/ StoreFault
    \/ (RunnerPanics /\ UNCHANGED schedVars /\ UNCHANGED <<proc, faults>>)
    \/ TaskStep
    \/ MainStep

EngineSafety == EngineInit /\ [][EngineNext]_engineVars

(* Fairness.  Tasks of the runtime are polled, and every external wait of    *)
(* the runner has a deadline (provider and tool timeouts), so each task that *)
(* can step does.  The claim gate and the command channel are first-in       *)
(* first-out, so the controller gets them although the loop keeps coming     *)
(* back.  A process that leaves a runtime row open has died or exits with an *)
(* error, and the service manager restarts it (Restart=on-failure).          *)
RestartOnFailure == \E r, s \in Runtimes : StaleRuntime(s) /\ Boot(r)

Fairness ==
    /\ WF_engineVars(RunnerTask)
    /\ WF_engineVars(SchedulerTask)
    /\ WF_engineVars(MainStep)
    /\ SF_engineVars(WaitForClaimGate)
    /\ SF_engineVars(FreezeAtDeadline)
    /\ WF_engineVars(RestartOnFailure)

EngineSpec == EngineSafety /\ Fairness

-----------------------------------------------------------------------------
RunnerPcs == {"none", "exited", "top", "invoke", "send", "open", "streaming", "finish",
              "answer", "fail", "batch", "call"} \cup Executing

RunnerStates ==
    [pc : RunnerPcs, w : Works \cup {0}, k : Attempts \cup {NoAttempt},
     snap : WorkLifecycleSnapshot, flag : BOOLEAN, notice : WorkLifecycleSnapshot,
     evidence : ModelEvidence \cup {"none", "panicked"}, cleanup : CleanupStatus,
     exit : Exits \cup {"none"}]

Settling == {"finish", "cancel", "inspect", "interrupt"}

SchedulerStates ==
    [pc : {"exited", "idle", "gate", "claim"} \cup Settling, claiming : BOOLEAN,
     shutting : BOOLEAN, frozen : BOOLEAN, fatal : BOOLEAN, reg : Works \cup {0},
     target : Works \cup {0}, mail : {"none", "begin", "closed"}]

ProcessStates ==
    [pc : {"down", "recover", "serving", "quiesce", "stopping", "cancel_owned", "join",
           "classify", "account", "abort", "close", "exit"},
     accounted : BOOLEAN]

(* The types, and how the parts of the process state fit: the registry holds *)
(* exactly the spawned runner, and a two-transaction settlement names its    *)
(* work.                                                                     *)
EngineTypeOK ==
    /\ TypeOK
    /\ runner \in RunnerStates
    /\ sent \subseteq Works \X Attempts /\ handed \subseteq Works \X Attempts
    /\ sched \in SchedulerStates
    /\ me \in Runtimes \cup {NoRuntime}
    /\ proc \in ProcessStates
    /\ faults \in 0 .. MaxFaults
    /\ runner.w = sched.reg
    /\ runner.pc = "none" <=> sched.reg = 0
    /\ sched.target # 0 <=> sched.pc \in Settling
    /\ me = NoRuntime <=> proc.pc = "down"

(* The engine only ever does to the store what WorkStore allows: stale       *)
(* snapshots, late flags, crashes and the deadline never produce another     *)
(* step, so everything proved of WorkStore holds of the running service.     *)
StoreStep == UNCHANGED storeVars \/ Next
ImplementsStore == Init /\ [][StoreStep]_storeVars

(* Durable intent before the external effect, and no effect denied later: a  *)
(* request that reached the provider is never recorded as cancelled locally, *)
(* and a tool handler that was started is never recorded as not dispatched,  *)
(* not even by recovery or by the shutdown classification that runs beside   *)
(* the live runner.                                                          *)
NoEffectDenied ==
    /\ \A e \in sent : model[e[1]][e[2]].state \notin {"absent", "cancelled_locally"}
    /\ \A e \in handed : tool[e[1]][e[2]].state \in
           {"dispatching", "completed", "outcome_unknown"}

(* A work is reported cancelled only once its provider call and its tool     *)
(* handler have ended (architecture review, "A turn becomes cancelled only   *)
(* after").                                                                  *)
CancelledMeansQuiet ==
    runner.pc \in {"open", "streaming", "handling"} => work[runner.w].state # "cancelled"

(* The cancellation flag never precedes the durable record: a runner that    *)
(* sees it finds its work asked to stop, or already settled.                 *)
FlagMeansDurable ==
    runner.flag => work[runner.w].state \in {"cancel_requested"} \cup TerminalStates

(* Shutdown "accounts for owned work, and only then records a graceful       *)
(* runtime stop" (ops/stage27/adversarial-audit.md), and startup closes a    *)
(* stale runtime only when it owns nothing: the owner of an active work is   *)
(* never stopped, so the next startup finds the work.                        *)
OwnersOpen ==
    \A w \in Works : IsActive(work[w]) => runtime[work[w].owner] \in {"running", "stopping"}

(* While the service runs, somebody is responsible for every active work:    *)
(* its registered runner, a settlement of the scheduler in progress, the     *)
(* next scan, or the shutdown a fatal scheduler has asked for.               *)
SomeoneResponsible ==
    proc.pc = "serving" =>
        \A w \in Works : IsActive(work[w]) =>
            /\ work[w].owner = me
            /\ w \in {sched.reg, sched.target} \/ Orphan(w) \/ sched.fatal

(* What the store says of effects is true of the runner and the tools.       *)
EffectsTold == NoEffectDenied /\ CancelledMeansQuiet /\ FlagMeansDurable

(* No active work is left behind, by a live process or by a dead one.        *)
WorkTended == EngineTypeOK /\ OwnersOpen /\ SomeoneResponsible

(* Once stop_claiming_and_wait has returned no work starts any more, so      *)
(* request_owned_cancellation reaches every work the runtime owns.           *)
ClaimBeforeQuiesce ==
    \A w \in Works : work[w].state = "queued" /\ work'[w].state = "running"
        => proc.pc \in {"serving", "quiesce"}
NoClaimAfterQuiesce == [][ClaimBeforeQuiesce]_engineVars

(* The store calls with which the scheduler claims and settles are never     *)
(* refused: what the registry, the scan or the inspecting transaction saw    *)
(* still holds when the next one commits, although clients, the shutdown     *)
(* controller and the runner write in between.  Only the inspection of an    *)
(* abnormally ended runner's work may be refused.                            *)
SchedulerNeverRefused ==
    /\ sched.pc = "claim" => runtime[me] = "running"
    /\ sched.pc = "finish" => CancellationFinishable(sched.target, me)
    /\ sched.pc \in {"cancel", "interrupt"} => Accepted(sched.target)

(* Without a store fault, only one thing brings the scheduler down: it       *)
(* inspects the work of a runner that ended abnormally and finds its attempt *)
(* still live.  A cancellation that committed while the attempt was being    *)
(* finished against the older snapshot, an outcome the store refused as      *)
(* unstorable, and a panic of the runner all end there; no claim, no         *)
(* settlement and no other inspection does.                                  *)
FatalFromLiveAttempt ==
    ~sched.fatal /\ sched'.fatal /\ faults' = 0 =>
        sched.pc = "inspect" /\ ~NoCurrentAttempt(work[sched.target])

(* What no step of the process does: claim a work once                       *)
(* stop_claiming_and_wait has returned, or bring the scheduler down for any  *)
(* other reason than an attempt left live by its runner.                     *)
SchedulerSteps == [][ClaimBeforeQuiesce /\ FatalFromLiveAttempt]_engineVars

(* Every work that starts is settled, whatever crashes, faults, shutdowns    *)
(* and cancellations come between: it does not stay active, and only a       *)
(* terminal state follows an active one (ImplementsStore).                   *)
WorkSettles == \A w \in Works : []<>~IsActive(work[w])

(* A shutdown, once requested, ends the process.                             *)
ShuttingDown == proc.pc \notin {"down", "recover", "serving"}
ShutdownEnds == []<>~ShuttingDown

(* A queued work does not wait for ever in a service that keeps serving.     *)
Waits(w) == proc.pc = "serving" /\ work[w].state = "queued"
QueueServed == \A w \in Works : []<>~Waits(w)

-----------------------------------------------------------------------------
(* The inductive invariant.  What the properties above rest on, part by      *)
(* part: where the scheduler can be while the main task is where it is ...   *)
ProcessFits ==
    /\ proc.pc \in {"down", "recover"} => sched = NoScheduler
    /\ sched.pc = "exited" => sched.reg = 0
    /\ sched.target = 0 \/ sched.target # sched.reg
    /\ sched.claiming => proc.pc = "serving"
    /\ sched.pc = "claim" => proc.pc \in {"serving", "quiesce"}
    /\ sched.mail # "none" => proc.pc \notin {"down", "recover", "serving", "quiesce"}
    /\ sched.mail = "begin" => OwnedCancellable(me) = {}
    /\ proc.pc \in {"recover", "abort", "close"} => ~OwnsWork(me)

(* ... a work the scheduler is about to settle has no attempt any more ...   *)
SettlementFits ==
    sched.pc \in {"cancel", "interrupt"} /\ IsActive(work[sched.target])
        => NoCurrentAttempt(work[sched.target])

(* ... a snapshot is what the row was at its version: a row that matches is  *)
(* equal, in the fields the store does not compare too ...                   *)
Honest(e) ==
    /\ e.version <= work[runner.w].version
    /\ e.version = work[runner.w].version => e = work[runner.w]

(* ... and the runner's work is in an attempt, or has been interrupted under *)
(* it, for as long as the runner is in one.                                  *)
InAttempt(kind) ==
    /\ runner.k \in Attempts
    /\ \/ IsActive(work[runner.w]) /\ HasAttempt(work[runner.w], kind, runner.k)
       \/ work[runner.w].state = "interrupted"

ModelPhase == {"send", "open", "streaming", "finish"}
ToolPhase == {"requested", "dispatched", "handling", "toolfinish"}
HandedStates == {"dispatching", "completed", "outcome_unknown"}

ModelFits ==
    runner.pc \in ModelPhase =>
        LET state == model[runner.w][runner.k].state
            unsent == <<runner.w, runner.k>> \notin sent
        IN
        /\ InAttempt("model")
        /\ state # "absent"
        /\ runner.pc = "send" => unsent /\ state # "cancelled_locally"
        /\ runner.pc = "finish" =>
               /\ runner.evidence \in ModelEvidence
               /\ runner.evidence = "cancelled" => unsent

ToolFits ==
    runner.pc \in ToolPhase =>
        LET begun == tool[runner.w][runner.k].state \in HandedStates IN
        /\ InAttempt("tool")
        /\ tool[runner.w][runner.k].state # "absent"
        /\ runner.pc \in {"dispatched", "handling"} => begun
        /\ runner.pc = "toolfinish" =>
               \/ runner.evidence = "completed" /\ runner.cleanup = "not_required"
               \/ runner.evidence = "completed" /\ runner.cleanup = "confirmed" /\ begun
               \/ runner.evidence \in {"unknown", "panicked"}
                  /\ runner.cleanup = "unconfirmed"

RunnerFits ==
    LET s == work[runner.w] IN
    /\ runner.pc = "none" => runner = NoRunner
    /\ runner.pc # "none" =>
           /\ s.state \notin {"absent", "queued"}
           /\ IsActive(s) => s.owner = me
    /\ runner.pc \notin {"none", "exited"} =>
           /\ Honest(runner.snap)
           /\ runner.notice # Absent => Honest(runner.notice) /\ runner.flag
    /\ runner.pc = "returned" => NoCurrentAttempt(s)
    /\ runner.pc = "exited" =>
           /\ runner.exit \in Exits
           /\ runner.exit = "terminal_committed" /\ IsActive(s)
                  => s.state = "cancel_requested" /\ NoCurrentAttempt(s)

EngineInvariant ==
    /\ StoreInvariant
    /\ EffectsTold
    /\ WorkTended
    /\ ProcessFits
    /\ SettlementFits
    /\ RunnerFits
    /\ ModelFits
    /\ ToolFits

-----------------------------------------------------------------------------
(* What comments and documents of the repository say and the code does not   *)
(* do.                                                                       *)

(* domain/lifecycle.rs calls DispatchTool one of the "Progression actions    *)
(* explicitly blocked after cancellation has won"; dispatch_tool does not    *)
(* look at the work row.                                                     *)
NoDispatchAfterCancel ==
    [][\A w \in Works, k \in Attempts :
           tool[w][k].state = "requested" /\ tool'[w][k].state = "dispatching"
           => DispatchAllowed(work[w])]_engineVars

(* ops/stage27/adversarial-audit.md, "cancellation before dispatch": the     *)
(* tool ends completed or interrupted_before_dispatch and the outcome is     *)
(* "definite; work cancelled".  recover_work_unit interrupts such a work.    *)
CancelBeforeDispatchCancels ==
    [][\A w \in Works :
           /\ work[w].state = "cancel_requested" /\ work[w].cancel = "user_request"
           /\ CurrentRow(w) = "requested"
           /\ IsTerminal(work'[w])
           => work'[w].state = "cancelled"]_engineVars

(* failpoint_semantic_expectation: after a crash behind the commit of a      *)
(* cancellation request, recovery is expected to interrupt the work.         *)
RecoveryInterruptsCancelRequested ==
    [][\A w \in Works :
           proc.pc = "recover" /\ work[w].state = "cancel_requested" /\ work'[w] # work[w]
           => work'[w].state = "interrupted"]_engineVars
=============================================================================
