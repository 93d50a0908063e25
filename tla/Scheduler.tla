------------------------------ MODULE Scheduler ------------------------------
(***************************************************************************)
(* The scheduler task of application/scheduler.rs: one loop that takes     *)
(* commands from the shutdown controller, observes the runner's end, scans *)
(* for work asked to stop and claims the next work.  The loop handles one  *)
(* event at a time; while it awaits a store call (any pc but "idle") it    *)
(* takes no other event, and the runner, the clients and the shutdown      *)
(* controller go on.                                                       *)
(***************************************************************************)
EXTENDS AgentRunner

VARIABLES
    sched,   \* the scheduler's state
    me       \* the runtime instance of the running process, or NoRuntime

schedVars == <<sched, me>>

(* `reg` is the registry (at most one work), `target` the work a two-        *)
(* transaction operation is about, `mail` the next command in the channel;   *)
(* "closed" is the channel of a dropped handle.                              *)
NoScheduler ==
    [pc |-> "exited", claiming |-> FALSE, shutting |-> FALSE, frozen |-> FALSE,
     fatal |-> FALSE, reg |-> 0, target |-> 0, mail |-> "none"]

StartScheduler == [NoScheduler EXCEPT !.pc = "idle", !.claiming = TRUE]

SchedGoto(pc) == sched' = [sched EXCEPT !.pc = pc]
SchedIdle == sched' = [sched EXCEPT !.pc = "idle", !.target = 0]
SchedAbout(pc, w) == sched' = [sched EXCEPT !.pc = pc, !.target = w]
KeepStore == UNCHANGED storeVars
KeepRunner == UNCHANGED runnerVars

(* Any error of a scan or of an observed join is fatal: no further claims,   *)
(* and the process is told to shut down.                                     *)
SchedFail == sched' = [sched EXCEPT !.pc = "idle", !.target = 0, !.claiming = FALSE,
                                    !.fatal = TRUE]

RaiseFlag == runner' = [runner EXCEPT !.flag = sched.reg # 0 \/ runner.flag]

-----------------------------------------------------------------------------
(* BeginShutdown: every registered runner is cancelled.                      *)
TakeBeginShutdown ==
    /\ sched.pc = "idle" /\ sched.mail = "begin"
    /\ sched' = [sched EXCEPT !.mail = "none", !.shutting = TRUE]
    /\ RaiseFlag
    /\ UNCHANGED <<sent, handed, me>> /\ KeepStore

(* The controller dropped its handle after freezing the loop: the task ends  *)
(* (no branch of its select is left) and its JoinSet aborts the runner.      *)
TakeClosed ==
    /\ sched.pc = "idle" /\ sched.mail = "closed"
    /\ sched' = NoScheduler
    /\ runner' = NoRunner
    /\ UNCHANGED <<sent, handed, me>> /\ KeepStore

(* scan_once, first half: list_current_runtime_cancel_requested.  A          *)
(* registered runner gets the flag; a work without runner and without        *)
(* attempt is interrupted; one whose attempt is still live is left alone.    *)
CancelRequested(w) == work[w].state = "cancel_requested" /\ work[w].owner = me
Orphan(w) == CancelRequested(w) /\ sched.reg # w /\ NoCurrentAttempt(work[w])

(* The select is biased: commands, then joins, then scans.                   *)
Ending == sched.shutting /\ sched.reg = 0
CanJoin ==
    /\ sched.pc = "idle" /\ sched.mail = "none" /\ ~sched.frozen
    /\ sched.reg # 0 /\ runner.pc = "exited"
CanScan ==
    /\ sched.pc = "idle" /\ sched.mail = "none" /\ ~sched.frozen
    /\ ~Ending /\ ~CanJoin /\ ~sched.fatal

ScanFlag ==
    /\ CanScan
    /\ sched.reg # 0 /\ CancelRequested(sched.reg)
    /\ ~runner.flag
    /\ RaiseFlag
    /\ UNCHANGED <<sent, handed>> /\ UNCHANGED schedVars /\ KeepStore

ScanOrphan ==
    /\ CanScan
    /\ \E w \in Works : Orphan(w) /\ SchedAbout("inspect", w)
    /\ UNCHANGED me /\ KeepStore /\ KeepRunner

(* Second half: with an empty registry the claim gate is taken ...           *)
TakeClaimGate ==
    /\ CanScan
    /\ sched.reg = 0
    /\ \A w \in Works : ~Orphan(w)
    /\ SchedGoto("gate")
    /\ UNCHANGED me /\ KeepStore /\ KeepRunner

(* ... and, while it is held, `claiming` is read and the claim committed.    *)
CheckClaiming ==
    /\ sched.pc = "gate"
    /\ SchedGoto(IF sched.claiming THEN "claim" ELSE "idle")
    /\ UNCHANGED me /\ KeepStore /\ KeepRunner

Claim ==
    /\ sched.pc = "claim"
    /\ IF runtime[me] # "running" \/ \A w \in Works : ~Claimable(w)
       THEN /\ IF runtime[me] = "running" THEN SchedIdle ELSE SchedFail
            /\ KeepStore /\ KeepRunner
       ELSE \E w \in Works :
            /\ ClaimNext(me, w)
            /\ sched' = [sched EXCEPT !.pc = "idle", !.reg = w]
            /\ runner' = StartRunner(w, NextSnapshot(work[w], Start(me)))
            /\ UNCHANGED <<sent, handed>>
    /\ UNCHANGED me

(* observe_join: the registry entry goes first, then the work is settled     *)
(* according to how the runner ended.                                        *)
(* An abnormal end is settled like a confirmed cancellation.                 *)
FaultyAfterJoin(exit) == IF exit = "terminal_committed" THEN "idle" ELSE "finish"

(* The work of a runner that ended abnormally is left as it is.              *)
ForgetfulAfterJoin(exit) == IF exit = "cancellation_confirmed" THEN "finish" ELSE "idle"

AfterJoin(exit) ==
    CASE exit = "terminal_committed"     -> "idle"
      [] exit = "cancellation_confirmed" -> "finish"
      [] exit = "abnormal"               -> "inspect"

(* The registry entry of an ended runner is kept.                            *)
FaultyObserveJoin ==
    /\ CanJoin
    /\ sched' = [sched EXCEPT !.pc = AfterJoin(runner.exit),
                              !.target = IF AfterJoin(runner.exit) = "idle"
                                         THEN 0 ELSE runner.w]
    /\ runner' = NoRunner
    /\ UNCHANGED <<sent, handed, me>> /\ KeepStore

ObserveJoin ==
    /\ CanJoin
    /\ sched' = [sched EXCEPT !.pc = AfterJoin(runner.exit), !.reg = 0,
                              !.target = IF AfterJoin(runner.exit) = "idle"
                                         THEN 0 ELSE runner.w]
    /\ runner' = NoRunner
    /\ UNCHANGED <<sent, handed, me>> /\ KeepStore

-----------------------------------------------------------------------------
(* finish_cancellation and interrupt_owned_work: the first transaction only  *)
(* inspects, the second decides again on the row it finds.                   *)
InspectCancellation ==
    /\ sched.pc = "finish"
    /\ IF CancellationFinishable(sched.target, me) THEN SchedGoto("cancel") ELSE SchedFail
    /\ UNCHANGED me /\ KeepStore /\ KeepRunner

(* A live attempt is not looked for before the work is interrupted.          *)
FaultyInspectAbnormal ==
    /\ sched.pc = "inspect"
    /\ IF IsTerminal(work[sched.target]) THEN SchedIdle ELSE SchedGoto("interrupt")
    /\ UNCHANGED me /\ KeepStore /\ KeepRunner

(* A work that is already settled is an error.                               *)
StrictInspectAbnormal ==
    /\ sched.pc = "inspect"
    /\ IF Interruptible(sched.target, me) THEN SchedGoto("interrupt") ELSE SchedFail
    /\ UNCHANGED me /\ KeepStore /\ KeepRunner

InspectAbnormal ==
    LET w == sched.target IN
    /\ sched.pc = "inspect"
    /\ \/ IsTerminal(work[w]) /\ SchedIdle
       \/ Interruptible(w, me) /\ SchedGoto("interrupt")
       \/ ~IsTerminal(work[w]) /\ ~Interruptible(w, me) /\ SchedFail
    /\ UNCHANGED me /\ KeepStore /\ KeepRunner

Settlement(w) ==
    IF sched.pc = "cancel" THEN Cancel(work[w].cancel, "not_required")
                           ELSE Interrupt("runtime_ownership_lost")

Accepted(w) ==
    work[w].owner = me /\ DecideWorkTransition(work[w], Settlement(w))

Settle ==
    /\ sched.pc \in {"cancel", "interrupt"}
    /\ IF Accepted(sched.target)
       THEN TerminalizeWork(sched.target, me, Settlement(sched.target)) /\ SchedIdle
       ELSE SchedFail /\ KeepStore
    /\ UNCHANGED me /\ KeepRunner

(* A store call of the loop that fails.                                      *)
SchedulerStoreFault ==
    /\ \/ CanScan
       \/ sched.pc \in {"claim", "finish", "cancel", "inspect", "interrupt"}
    /\ SchedFail
    /\ UNCHANGED me /\ KeepStore /\ KeepRunner

(* The loop ends once it is shutting down and no task is left.               *)
SchedulerExit ==
    /\ sched.pc = "idle" /\ Ending
    /\ SchedGoto("exited")
    /\ UNCHANGED me /\ KeepStore /\ KeepRunner

SchedulerStep ==
    \/ TakeBeginShutdown \/ TakeClosed
    \/ ScanFlag \/ ScanOrphan \/ TakeClaimGate \/ CheckClaiming \/ Claim
    \/ ObserveJoin \/ InspectCancellation \/ InspectAbnormal \/ Settle
    \/ SchedulerExit
=============================================================================
