----------------------------- MODULE EngineProofs -----------------------------
(***************************************************************************)
(* The running service keeps its invariant, whatever crashes, store        *)
(* faults, cancellations and shutdowns come between, and does to the store *)
(* only what WorkStore allows.  One lemma per group of steps: the steps of *)
(* the runner (EngineRunnerProofs), of the scheduler, of the main task and *)
(* the ends of the process.                                                *)
(***************************************************************************)
EXTENDS EngineRunnerProofs, WorkContractProofs

-----------------------------------------------------------------------------
(* The runner's tasks.                                                       *)
LEMMA RunnerExists ==
    ASSUME RunnerStep \/ RunnerStoreFault \/ RunnerPanics
    PROVE  runner.pc # "none"
  BY ZenonT(60) DEF RunnerStoreFault, RunnerPanics, RunnerStep, LoopTop, InvokeModel, SendRequest,
     FirstEvent,
     ProviderEnds, FinishAttempt, CommitAnswer, FailWork, StartBatch, StartCall,
     ExpireBeforeIntent, ForwardCancellation, PredispatchResult, CancelBeforeDispatch,
     CommitDispatch, CancelBeforeHandoff, RefuseHandoff, Handoff, HandlerEnds, FinishCall,
     CallReturned, Executing

(* Every step of a runner, or of a store call of it that fails, and a panic  *)
(* of it are sound.                                                          *)
LEMMA RunnerSound ==
    ASSUME EngineInvariant, RunnerStep \/ RunnerStoreFault \/ RunnerPanics,
           UNCHANGED <<sched, me, proc>>, faults' \in 0 .. MaxFaults
    PROVE  Sound
  <1>1. Carries
    BY ZenonT(60), RunnerCarries
  <1>2. runner.pc # "none"
    BY ZenonT(60), RunnerExists
  <1>3. /\ [Next]_storeVars /\ runtime' = runtime /\ RunnerGood'
        /\ \A v \in Works : Tame(v)
        /\ \A v \in Works : v # runner.w => Outside(v)
        /\ runner'.w = runner.w /\ runner'.pc # "none"
    BY ZenonT(60), <1>1 DEF Carries
  <1>4. StoreInvariant'
    BY ZenonT(60), <1>3, NextInvariant DEF EngineInvariant
  <1>5. EngineInvariant'
    BY ZenonT(60), <1>2, <1>3, <1>4, RestUndisturbed
  <1>6. ClaimBeforeQuiesce
    BY ZenonT(60), <1>3 DEF ClaimBeforeQuiesce, Tame, IsActive, ActiveStates
  <1> QED
    BY ZenonT(60), <1>3, <1>5, <1>6 DEF Sound, StoreStep

(* Recovery is complete: an active work would have an open owner, which is   *)
(* neither another runtime nor, yet, this one.                               *)
LEMMA ServeSound ==
    ASSUME EngineInvariant, Serve
    PROVE  Sound
  <1>1. /\ OwnersOpen /\ ProcessFits /\ EngineTypeOK /\ proc \in ProcessStates
        /\ sched \in SchedulerStates /\ faults \in 0 .. MaxFaults /\ StoreInvariant
        /\ work' = work
    BY ZenonT(60), StoreAtRest DEF Serve, EngineInvariant
  <1>2. /\ proc.pc = "recover" /\ proc' = [proc EXCEPT !.pc = "serving"]
        /\ proc'.pc = "serving" /\ proc' \in ProcessStates
    BY ZenonT(60), <1>1 DEF Serve, ProcGoto, ProcessStates
  <1>3. ASSUME NEW w \in Works, IsActive(work[w]) PROVE FALSE
    <2>1. ~OwnsWork(me) /\ work[w].owner # me
      BY ZenonT(60), <1>1, <1>2, <1>3 DEF ProcessFits, OwnsWork
    <2>2. work[w].owner \in Runtimes
      BY <1>1, <1>3 DEF StoreInvariant, WorkShapes, ValidWorkShape, Absent,
         IsActive,
         ActiveStates
    <2>3. StaleRuntime(work[w].owner)
      BY ZenonT(60), <1>1, <1>3, <2>1 DEF OwnersOpen, StaleRuntime
    <2> QED
      BY ZenonT(60), <2>2, <2>3 DEF Serve
  <1>4. /\ sched' \in SchedulerStates /\ sched'.pc = "idle" /\ sched'.claiming
        /\ sched'.reg = 0 /\ sched'.target = 0 /\ sched'.mail = "none"
    BY ZenonT(60) DEF Serve, StartScheduler, NoScheduler, SchedulerStates
  <1>5. sched.reg = 0
    BY <1>1, <1>2 DEF ProcessFits, NoScheduler
  <1>6. SomeoneResponsible' /\ SettlementFits'
    BY ZenonT(60), <1>1, <1>3, <1>4 DEF SomeoneResponsible, SettlementFits
  <1>7. ProcessFits'
    BY ZenonT(60), <1>2, <1>4 DEF ProcessFits
  <1>8. KeepStore /\ UNCHANGED <<runner, sent, handed, me>> /\ faults' = faults
    BY ZenonT(60) DEF Serve, KeepRunner, runnerVars
  <1>9. sched'.target # 0 <=> sched'.pc \in Settling
    BY ZenonT(60), <1>4 DEF Settling
  <1>10. me = NoRuntime <=> proc'.pc = "down"
    BY ZenonT(60), <1>1, <1>2 DEF EngineTypeOK
  <1> QED
    BY ZenonT(60), <1>1, <1>2, <1>4, <1>5, <1>6, <1>7, <1>8, <1>9, <1>10, TasksMove

(* The steps of ShutdownController that leave the store alone are sound.     *)
LEMMA ShutdownQuietSound ==
    ASSUME MaxFaultsOK, EngineInvariant,
           \/ StopClaiming \/ WaitForClaimGate \/ JoinScheduler \/ FreezeAtDeadline
           \/ Classified \/ ClassifyFails
           \/ StopRuntime /\ KeepStore
           \/ CancelOwned /\ KeepStore
    PROVE  Sound
  <1>1. /\ KeepStore /\ UNCHANGED <<runner, sent, handed, me>>
    BY ZenonT(60) DEF StopClaiming, WaitForClaimGate, JoinScheduler, FreezeAtDeadline,
       Classified,
       ClassifyFails, StopRuntime, CancelOwned, KeepRunner, runnerVars, KeepVolatile
  <1>2. /\ ProcessFits /\ sched \in SchedulerStates /\ proc \in ProcessStates
        /\ faults \in 0 .. MaxFaults
    BY ZenonT(60), <1>1, StoreAtRest
  <1>3. faults' \in 0 .. MaxFaults
    BY ZenonT(60), <1>2, FaultCounted DEF StopClaiming, WaitForClaimGate, JoinScheduler,
       FreezeAtDeadline, Classified, ClassifyFails, StopRuntime, CancelOwned
  <1>4. CASE StopClaiming
    <2>1. /\ proc.pc = "serving" /\ proc' = [proc EXCEPT !.pc = "quiesce"]
          /\ sched' = [sched EXCEPT !.claiming = FALSE]
      BY ZenonT(60), <1>4 DEF StopClaiming, ProcGoto
    <2>2. /\ proc' \in ProcessStates /\ proc'.pc = "quiesce"
      BY ZenonT(60), <1>2, <2>1 DEF ProcessStates
    <2>3. /\ sched' \in SchedulerStates /\ sched'.pc = sched.pc /\ sched'.reg = sched.reg
          /\ sched'.target = sched.target /\ sched'.mail = sched.mail /\ ~sched'.claiming
      BY ZenonT(60), <1>2, <2>1 DEF SchedulerStates
    <2>4. sched.mail = "none"
      BY ZenonT(60), <1>2, <2>1 DEF ProcessFits
    <2> QED
      BY ZenonT(60), <1>1, <1>3, <2>1, <2>2, <2>3, <2>4, ShutdownMoves
  <1>5. CASE WaitForClaimGate \/ JoinScheduler \/ Classified \/ StopRuntime
    <2>1. /\ sched' = sched
          /\ \/ proc.pc = "quiesce" /\ proc' = [proc EXCEPT !.pc = "stopping"]
                /\ sched.pc # "claim"
             \/ proc.pc = "join" /\ proc' = [proc EXCEPT !.pc = "account"]
             \/ proc.pc = "stopping" /\ proc' = [proc EXCEPT !.pc = "cancel_owned"]
             \/ /\ proc.pc \in {"classify", "account"} /\ ~OwnsWork(me)
                /\ \E pc \in {"abort", "close", "exit"} : proc' = [proc EXCEPT !.pc = pc]
      BY ZenonT(60), <1>5 DEF WaitForClaimGate, JoinScheduler, Classified, StopRuntime,
         ProcGoto,
         KeepVolatile
    <2>2. /\ proc.pc \in {"quiesce", "join", "stopping", "classify", "account"}
          /\ proc'.pc \in {"stopping", "account", "cancel_owned", "abort", "close", "exit"}
          /\ proc'.pc \in {"abort", "close"} => ~OwnsWork(me)
          /\ proc' \in ProcessStates
      BY ZenonT(60), <1>2, <2>1 DEF ProcessStates
    <2>3. sched.pc # "claim" /\ ~sched.claiming
      BY ZenonT(60), <1>2, <2>1, <2>2 DEF ProcessFits
    <2>4. sched.mail = "begin" => OwnedCancellable(me) = {}
      BY ZenonT(60), <1>2 DEF ProcessFits
    <2> QED
      BY ZenonT(60), <1>1, <1>2, <1>3, <2>1, <2>2, <2>3, <2>4, ShutdownMoves
  <1>6. CASE FreezeAtDeadline \/ ClassifyFails \/ CancelOwned
    <2>1. /\ proc.pc \in {"join", "classify", "account", "cancel_owned"}
          /\ proc'.pc \in {"classify", "account", "exit", "join"}
          /\ proc' \in ProcessStates
      <3>1. /\ proc.pc \in {"join", "classify", "account", "cancel_owned"}
            /\ \/ \E pc \in {"classify", "join"} : proc' = [proc EXCEPT !.pc = pc]
               \/ \E pc \in {"account", "exit"} : proc' = [pc |-> pc, accounted |-> FALSE]
        BY ZenonT(60), <1>6 DEF FreezeAtDeadline, ClassifyFails, CancelOwned, ProcGoto
      <3>2. CASE \E pc \in {"classify", "join"} : proc' = [proc EXCEPT !.pc = pc]
        BY ZenonT(60), <1>2, <3>1, <3>2 DEF ProcessStates
      <3>3. CASE \E pc \in {"account", "exit"} : proc' = [pc |-> pc, accounted |-> FALSE]
        BY <3>1, <3>3 DEF ProcessStates
      <3> QED
        BY ZenonT(60), <3>1, <3>2, <3>3
    <2>2. \/ sched' = [sched EXCEPT !.frozen = TRUE]
          \/ \E mail \in {"none", "closed"} : sched' = [sched EXCEPT !.mail = mail]
          \/ \E mail \in {"none", "begin"} :
                 sched' = [sched EXCEPT !.mail = mail] /\ OwnedCancellable(me) = {}
          \/ sched' = sched
      <3>1. CASE FreezeAtDeadline
        BY ZenonT(60), <3>1 DEF FreezeAtDeadline
      <3>2. CASE ClassifyFails
        BY ZenonT(60), <3>2 DEF ClassifyFails
      <3>3. CASE CancelOwned
        <4>1. ~RequestOwnedCancellation(me)
          <5> SUFFICES ASSUME RequestOwnedCancellation(me) PROVE FALSE
            BY ZenonT(60)
          <5>1. PICK w \in Works : /\ IsActive(work[w]) /\ work[w].owner = me
                                   /\ work[w].state # "cancel_requested"
            BY ZenonT(60) DEF RequestOwnedCancellation, OwnedCancellable
          <5>2. ~(IsActive(work'[w]) /\ work'[w].owner = me
                  /\ work'[w].state # "cancel_requested")
            BY ZenonT(60), OwnedCancellationEffect DEF EngineInvariant
          <5> QED
            BY ZenonT(60), <1>1, <5>1, <5>2 DEF KeepStore, storeVars
        <4> QED
          BY ZenonT(60), <3>3, <4>1 DEF CancelOwned
      <3> QED
        BY ZenonT(60), <1>6, <3>1, <3>2, <3>3
    <2>3. /\ sched' \in SchedulerStates /\ sched'.pc = sched.pc /\ sched'.reg = sched.reg
          /\ sched'.target = sched.target /\ sched'.claiming = sched.claiming
          /\ sched'.mail = sched.mail \/ sched'.mail \in {"none", "closed"}
             \/ OwnedCancellable(me) = {}
      BY ZenonT(60), <1>2, <2>2 DEF SchedulerStates
    <2>4. /\ ~sched.claiming /\ sched.pc # "claim"
          /\ sched'.mail = "begin" => OwnedCancellable(me) = {}
      BY ZenonT(60), <1>2, <2>1, <2>3 DEF ProcessFits
    <2> QED
      BY ZenonT(60), <1>1, <1>3, <2>1, <2>3, <2>4, ShutdownMoves
  <1> QED
    BY ZenonT(60), <1>4, <1>5, <1>6

(* It changes its place, or the work it is about, or both.                   *)
LEMMA SchedulerQuietSound ==
    ASSUME EngineInvariant, UNCHANGED <<proc, faults>>, KeepStore,
           \/ ScanOrphan \/ TakeClaimGate \/ CheckClaiming \/ SchedulerExit
           \/ InspectCancellation \/ InspectAbnormal
           \/ Claim /\ KeepRunner
           \/ Settle
    PROVE  Sound
  <1>1. /\ EngineTypeOK /\ sched \in SchedulerStates /\ ProcessFits /\ SettlementFits
        /\ faults' \in 0 .. MaxFaults /\ StoreInvariant
    BY ZenonT(60), StoreAtRest DEF EngineInvariant
  <1>2. /\ KeepRunner /\ UNCHANGED me
        /\ sched.pc \in {"idle", "gate", "claim"} \cup Settling /\ sched.pc # "exited"
    BY ZenonT(60) DEF ScanOrphan, TakeClaimGate, CheckClaiming, SchedulerExit,
       InspectCancellation,
       InspectAbnormal, Claim, Settle, CanScan, Settling
  <1>3. CASE SchedFail
    BY ZenonT(60), <1>1, <1>2, <1>3, SchedulerFails
  <1>4. CASE SchedIdle /\ (sched.target = 0 \/ ~IsActive(work[sched.target]))
    <2>1. /\ sched' \in SchedulerStates /\ sched'.reg = sched.reg /\ sched'.mail = sched.mail
          /\ sched'.claiming = sched.claiming /\ sched'.fatal = sched.fatal
          /\ sched'.target = 0 /\ sched'.pc = "idle"
      BY ZenonT(60), <1>1, <1>4 DEF SchedIdle, SchedulerStates
    <2>2. sched'.target # 0 <=> sched'.pc \in Settling
      BY ZenonT(60), <2>1 DEF Settling
    <2> QED
      BY ZenonT(60), <1>1, <1>2, <1>4, <2>1, <2>2, SchedulerMoves
  <1>5. ASSUME NEW pc \in {"idle", "gate", "claim", "exited", "cancel", "interrupt"},
               SchedGoto(pc),
               pc \in {"cancel", "interrupt"} <=> sched.pc \in Settling,
               pc = "exited" => sched.reg = 0,
               pc = "claim" => sched.claiming,
               pc \in {"cancel", "interrupt"} => NoCurrentAttempt(work[sched.target])
        PROVE  Sound
    <2>1. /\ sched' \in SchedulerStates /\ sched'.reg = sched.reg /\ sched'.mail = sched.mail
          /\ sched'.claiming = sched.claiming /\ sched'.fatal = sched.fatal
          /\ sched'.target = sched.target /\ sched'.pc = pc
      BY ZenonT(60), <1>1, <1>5 DEF SchedGoto, SchedulerStates, Settling
    <2>2. sched'.target # 0 <=> sched'.pc \in Settling
      BY ZenonT(60), <1>1, <1>5, <2>1 DEF EngineTypeOK, Settling
    <2>3. /\ sched.target = 0 \/ sched.target # sched.reg
          /\ pc = "claim" => proc.pc \in {"serving", "quiesce"}
      BY ZenonT(60), <1>1, <1>5 DEF ProcessFits
    <2> QED
      BY ZenonT(60), <1>1, <1>2, <1>5, <2>1, <2>2, <2>3, SchedulerMoves
  <1>6. CASE ScanOrphan
    <2>1. PICK w \in Works : Orphan(w) /\ SchedAbout("inspect", w)
      BY ZenonT(60), <1>6 DEF ScanOrphan
    <2>2. /\ sched' \in SchedulerStates /\ sched'.reg = sched.reg /\ sched'.mail = sched.mail
          /\ sched'.claiming = sched.claiming /\ sched'.fatal = sched.fatal
          /\ sched'.target = w /\ sched'.pc = "inspect"
      BY ZenonT(60), <1>1, <2>1 DEF SchedAbout, SchedulerStates, Settling
    <2>3. w # sched.reg /\ w # 0 /\ "inspect" \in Settling
      BY ZenonT(60), <2>1, NoWorkZero DEF Settling, Orphan
    <2>4. sched.target = 0
      BY ZenonT(60), <1>1, <1>6 DEF EngineTypeOK, ScanOrphan, CanScan, Settling
    <2> QED
      BY ZenonT(60), <1>1, <1>2, <2>2, <2>3, <2>4, SchedulerMoves
  <1>7. CASE TakeClaimGate \/ CheckClaiming \/ SchedulerExit
    <2>1. \/ sched.pc = "idle" /\ SchedGoto("gate")
          \/ sched.pc = "gate" /\ sched.claiming /\ SchedGoto("claim")
          \/ sched.pc = "gate" /\ SchedGoto("idle")
          \/ sched.pc = "idle" /\ sched.reg = 0 /\ SchedGoto("exited")
      BY ZenonT(60), <1>7 DEF TakeClaimGate, CheckClaiming, SchedulerExit, CanScan, Ending
    <2>2. "idle" \notin Settling /\ "gate" \notin Settling
      BY DEF Settling
    <2> QED
      BY ZenonT(60), <1>5, <2>1, <2>2
  <1>8. CASE InspectCancellation
    <2>1. sched.pc = "finish" /\ "finish" \in Settling
      BY ZenonT(60), <1>8 DEF InspectCancellation, Settling
    <2>2. \/ SchedFail
          \/ NoCurrentAttempt(work[sched.target]) /\ SchedGoto("cancel")
      BY ZenonT(60), <1>8 DEF InspectCancellation, CancellationFinishable
    <2> QED
      BY ZenonT(60), <1>3, <1>5, <2>1, <2>2
  <1>9. CASE InspectAbnormal
    <2>1. sched.pc = "inspect" /\ "inspect" \in Settling
      BY ZenonT(60), <1>9 DEF InspectAbnormal, Settling
    <2>2. \/ SchedFail
          \/ NoCurrentAttempt(work[sched.target]) /\ SchedGoto("interrupt")
          \/ ~IsActive(work[sched.target]) /\ SchedIdle
      BY ZenonT(60), <1>9 DEF InspectAbnormal, Interruptible, IsTerminal, TerminalStates,
         IsActive,
         ActiveStates
    <2> QED
      BY ZenonT(60), <1>3, <1>4, <1>5, <2>1, <2>2
  <1>10. CASE Claim /\ KeepRunner
    <2>1. sched.pc = "claim" /\ sched.target = 0 /\ me \in Runtimes
      <3>1. sched.pc = "claim" /\ sched.pc \notin Settling
        BY ZenonT(60), <1>10 DEF Claim, Settling
      <3> QED
        BY ZenonT(60), <1>1, <3>1 DEF EngineTypeOK, ProcessFits
    <2>2. SchedFail \/ SchedIdle
      <3> SUFFICES ASSUME NEW w \in Works, ClaimNext(me, w) PROVE FALSE
        BY ZenonT(60), <1>10 DEF Claim
      <3>1. /\ ~IsActive(work[w]) /\ work'[w].state = "running"
        BY ZenonT(60), <1>1, ClaimEffect
      <3> QED
        BY ZenonT(60), <3>1 DEF KeepStore, storeVars, IsActive, ActiveStates
    <2> QED
      BY ZenonT(60), <1>3, <1>4, <2>1, <2>2
  <1>11. CASE Settle
    <2>1. sched.pc \in {"cancel", "interrupt"} /\ sched.target \in Works
      BY ZenonT(60), <1>1, <1>11 DEF Settle, EngineTypeOK, SchedulerStates, Settling
    <2>2. \/ SchedFail
          \/ /\ SchedIdle
             /\ TerminalizeWork(sched.target, me, Settlement(sched.target))
      BY ZenonT(60), <1>11 DEF Settle
    <2>3. TerminalizeWork(sched.target, me, Settlement(sched.target))
              => ~IsActive(work[sched.target])
      <3> SUFFICES ASSUME TerminalizeWork(sched.target, me, Settlement(sched.target))
                   PROVE  ~IsActive(work[sched.target])
        BY ZenonT(60)
      <3>1. IsTerminal(work'[sched.target])
        BY ZenonT(60), <1>1, <2>1, SettlementEffect DEF Settlement
      <3> QED
        BY ZenonT(60), <3>1 DEF KeepStore, storeVars, IsTerminal, TerminalStates, IsActive,
           ActiveStates
    <2> QED
      BY ZenonT(60), <1>3, <1>4, <2>2, <2>3
  <1> QED
    BY ZenonT(60), <1>6, <1>7, <1>8, <1>9, <1>10, <1>11

(* Telling a runner to stop is sound: the durable request is already there.  *)
LEMMA FlagSound ==
    ASSUME EngineInvariant, ScanFlag \/ TakeBeginShutdown, UNCHANGED <<proc, faults>>
    PROVE  Sound
  <1>1. KeepStore /\ RaiseFlag /\ UNCHANGED <<sent, handed, me>>
    BY ZenonT(60) DEF ScanFlag, TakeBeginShutdown, schedVars
  <1>2. /\ work' = work /\ [Next]_storeVars /\ OwnersOpen'
        /\ \A v \in Works : Tame(v) /\ Outside(v)
        /\ EngineTypeOK /\ SomeoneResponsible /\ ProcessFits /\ SettlementFits
        /\ sched \in SchedulerStates /\ proc \in ProcessStates /\ faults \in 0 .. MaxFaults
    BY ZenonT(60), <1>1, StoreAtRest
  <1>3. sched.reg # 0 => work[runner.w].state \in {"cancel_requested"} \cup TerminalStates
    <2> SUFFICES ASSUME sched.reg # 0
                 PROVE  work[runner.w].state \in {"cancel_requested"} \cup TerminalStates
      OBVIOUS
    <2>1. /\ runner.w = sched.reg /\ runner.w \in Works
          /\ work[runner.w].state \notin {"absent", "queued"}
          /\ work[runner.w].state \in WorkStates
          /\ IsActive(work[runner.w]) => work[runner.w].owner = me
      BY ZenonT(60), <1>2, RunnerWork DEF EngineTypeOK, ValidWorkShape
    <2>2. CASE ScanFlag
      BY ZenonT(60), <2>1, <2>2 DEF ScanFlag, CancelRequested
    <2>3. CASE TakeBeginShutdown
      <3>1. OwnedCancellable(me) = {}
        BY ZenonT(60), <1>2, <2>3 DEF TakeBeginShutdown, ProcessFits
      <3>2. IsActive(work[runner.w]) => work[runner.w].state = "cancel_requested"
        BY ZenonT(60), <2>1, <3>1 DEF OwnedCancellable
      <3> QED
        BY ZenonT(60), <2>1, <3>2 DEF WorkStates, IsActive
    <2> QED
      BY ZenonT(60), <2>2, <2>3
  <1>4. RunnerGood' /\ runner'.w = runner.w /\ runner'.pc = runner.pc
    BY ZenonT(60), <1>1, <1>3, FlagRaised
  <1>5. /\ sched' \in SchedulerStates /\ sched'.pc = sched.pc /\ sched'.reg = sched.reg
        /\ sched'.target = sched.target /\ sched'.claiming = sched.claiming
        /\ sched'.fatal = sched.fatal
        /\ sched'.mail = "none" \/ sched'.mail = sched.mail
        /\ sched' = sched \/ sched.pc = "idle"
    BY ZenonT(60), <1>2 DEF ScanFlag, TakeBeginShutdown, schedVars, SchedulerStates
  <1>6. proc.pc \notin {"down", "recover"}
    BY <1>2 DEF ScanFlag, TakeBeginShutdown, CanScan, ProcessFits, NoScheduler
  <1>7. SomeoneResponsible'
    BY ZenonT(60), <1>1, <1>2, <1>5 DEF SomeoneResponsible, Orphan, CancelRequested
  <1>8. OwnedCancellable(me)' = OwnedCancellable(me) /\ OwnsWork(me)' = OwnsWork(me)
    BY ZenonT(60), <1>1, <1>2 DEF OwnedCancellable, OwnsWork
  <1>9. ProcessFits'
    BY ZenonT(60), <1>1, <1>2, <1>5, <1>6, <1>8 DEF ProcessFits
  <1>10. SettlementFits'
    BY ZenonT(60), <1>2, <1>5 DEF SettlementFits
  <1>11. Assembled
    BY ZenonT(60), <1>1, <1>2, <1>4, <1>5, <1>7, <1>9, <1>10 DEF Assembled, EngineTypeOK
  <1> QED
    BY ZenonT(60), <1>11, Assembles

(* Every way the tasks of a process end.                                     *)
LEMMA EndsSound ==
    ASSUME MaxFaultsOK, EngineInvariant,
           \/ Crash \/ CloseRuntime \/ RecoveryFails \/ AbortRunners
           \/ TakeClosed /\ UNCHANGED <<proc, faults>>
    PROVE  Sound
  <1>1. /\ EngineTypeOK /\ ProcessFits /\ OwnersOpen /\ proc \in ProcessStates
        /\ faults \in 0 .. MaxFaults
    BY ZenonT(60) DEF EngineInvariant, WorkTended, EngineTypeOK
  <1>2. Down \in ProcessStates /\ Down.pc = "down"
    BY ZenonT(60) DEF Down, ProcessStates
  <1>3. CASE Crash \/ CloseRuntime \/ RecoveryFails
    <2>1. /\ runner' = NoRunner /\ sched' = NoScheduler /\ proc' = Down /\ me' = NoRuntime
          /\ UNCHANGED <<sent, handed>>
      BY ZenonT(60), <1>3 DEF Crash, CloseRuntime, RecoveryFails, Halt
    <2>2. faults' \in 0 .. MaxFaults
      BY ZenonT(60), <1>1, <1>3, FaultCounted DEF Crash, CloseRuntime, RecoveryFails
    <2>3. /\ proc.pc # "down" => me \in Runtimes
          /\ proc.pc \in {"recover", "close"} => ~OwnsWork(me)
      BY ZenonT(60), <1>1 DEF EngineTypeOK, ProcessFits
    <2>4. CASE KeepStore
      <3>1. UNCHANGED <<work, model, tool>> /\ [Next]_storeVars /\ OwnersOpen'
        BY ZenonT(60), <2>4, StoreAtRest
      <3> QED
        BY ZenonT(60), <1>2, <2>1, <2>2, <3>1, TasksEnd
    <2>5. CASE proc.pc \in {"recover", "close"}
               /\ (MarkRuntimeStartupFailure(me) \/ FinishRuntimeGraceful(me))
      <3>1. me \in Runtimes /\ ~OwnsWork(me)
        BY ZenonT(60), <2>3, <2>5
      <3>2. /\ UNCHANGED <<work, model, tool>> /\ runtime' = [runtime EXCEPT ![me] = "stopped"]
        BY ZenonT(60), <2>5 DEF MarkRuntimeStartupFailure, FinishRuntimeGraceful, SetRuntime
      <3>3. OwnersOpen'
        BY ZenonT(60), <3>1, <3>2, RuntimeRowWritten
      <3>4. [Next]_storeVars
        BY ZenonT(60), <2>5, <3>1 DEF Next, RuntimeStep
      <3> QED
        BY ZenonT(60), <1>2, <2>1, <2>2, <3>2, <3>3, <3>4, TasksEnd
    <2> QED
      BY ZenonT(60), <1>3, <2>4, <2>5 DEF Crash, CloseRuntime, RecoveryFails
  <1>4. CASE AbortRunners
    <2>1. /\ KeepStore /\ UNCHANGED <<sent, handed, me, faults>> /\ proc.pc = "abort"
          /\ runner' = NoRunner /\ sched' = NoScheduler
      BY ZenonT(60), <1>4 DEF AbortRunners
    <2>2. proc' \in ProcessStates /\ proc'.pc = "close"
      BY ZenonT(60), <1>1, <1>4 DEF AbortRunners, ProcGoto, ProcessStates
    <2>3. UNCHANGED <<work, model, tool>> /\ [Next]_storeVars /\ OwnersOpen'
      BY ZenonT(60), <2>1, StoreAtRest
    <2>4. ~OwnsWork(me) /\ me \in Runtimes
      BY ZenonT(60), <1>1, <2>1 DEF ProcessFits, EngineTypeOK
    <2>5. ~OwnsWork(me') /\ me' # NoRuntime /\ me' \in Runtimes
      BY ZenonT(60), <2>1, <2>3, <2>4, ConstantsOK DEF OwnsWork
    <2> QED
      BY ZenonT(60), <1>1, <2>1, <2>2, <2>3, <2>5, TasksEnd
  <1>5. CASE TakeClosed /\ UNCHANGED <<proc, faults>>
    <2>1. /\ KeepStore /\ UNCHANGED <<sent, handed, me>> /\ sched.mail = "closed"
          /\ runner' = NoRunner /\ sched' = NoScheduler
      BY ZenonT(60), <1>5 DEF TakeClosed
    <2>2. proc.pc \notin {"down", "recover", "serving"}
      BY ZenonT(60), <1>1, <2>1 DEF ProcessFits
    <2>3. UNCHANGED <<work, model, tool>> /\ [Next]_storeVars /\ OwnersOpen'
      BY ZenonT(60), <2>1, StoreAtRest
    <2>4. /\ proc.pc \in {"recover", "abort", "close"} => ~OwnsWork(me)
          /\ me = NoRuntime <=> proc.pc = "down"
          /\ me \in Runtimes \cup {NoRuntime}
      BY ZenonT(60), <1>1, <2>1 DEF ProcessFits, EngineTypeOK
    <2>5. OwnsWork(me') <=> OwnsWork(me)
      BY ZenonT(60), <2>1, <2>3
    <2> QED
      BY ZenonT(60), <1>1, <1>5, <2>1, <2>2, <2>3, <2>4, <2>5, TasksEnd
  <1> QED
    BY ZenonT(60), <1>3, <1>4, <1>5

(* A process begins.  Its runtime is new: no work has it for an owner.       *)
LEMMA BootSound ==
    ASSUME EngineInvariant, NEW r \in Runtimes, Boot(r)
    PROVE  Sound
  <1>1. /\ EngineTypeOK /\ ProcessFits /\ OwnersOpen /\ proc \in ProcessStates
        /\ faults \in 0 .. MaxFaults /\ sched = NoScheduler /\ RunnerFits
        /\ runtime \in [Runtimes -> RuntimeStates] /\ runtime[r] = "absent"
    BY ZenonT(60) DEF EngineInvariant, WorkTended, EngineTypeOK, Boot, ProcessFits, TypeOK,
       CreateRuntime
  <1>2. /\ UNCHANGED <<work, model, tool, sent, handed, runner, sched, faults>>
        /\ runtime' = [runtime EXCEPT ![r] = "running"] /\ me' = r
    BY ZenonT(60) DEF Boot, CreateRuntime, SetRuntime
  <1>3. runner' = NoRunner /\ sched' = NoScheduler
    BY ZenonT(60), <1>1, <1>2 DEF EngineTypeOK, RunnerFits, NoScheduler
  <1>4. proc' \in ProcessStates /\ proc'.pc = "recover"
    BY ZenonT(60), <1>1 DEF Boot, ProcGoto, ProcessStates
  <1>5. ~OwnsWork(r)
    BY ZenonT(60), <1>1 DEF OwnsWork, OwnersOpen
  <1>6. ~OwnsWork(me')
    BY ZenonT(60), <1>2, <1>5
  <1>7. OwnersOpen'
    BY ZenonT(60), <1>2, RuntimeRowWritten
  <1>8. [Next]_storeVars
    BY ZenonT(60) DEF Boot, Next, RuntimeStep
  <1>9. me' # NoRuntime /\ me' \in Runtimes
    BY ZenonT(60), <1>2, ConstantsOK
  <1> QED
    BY ZenonT(60), <1>1, <1>2, <1>3, <1>4, <1>6, <1>7, <1>8, <1>9, TasksEnd

-----------------------------------------------------------------------------
(* The scheduler observes the end of its runner: the work becomes its own to *)
(* settle, unless it is settled or left to the next scan.                    *)
LEMMA ObserveJoinSound ==
    ASSUME EngineInvariant, ObserveJoin, UNCHANGED <<proc, faults>>
    PROVE  Sound
  <1> DEFINE w == runner.w
             next == AfterJoin(runner.exit)
  <1>1. /\ KeepStore /\ UNCHANGED <<sent, handed, me>> /\ runner' = NoRunner
        /\ sched.pc = "idle" /\ sched.mail = "none" /\ sched.reg # 0 /\ runner.pc = "exited"
        /\ sched' = [sched EXCEPT !.pc = next, !.reg = 0,
                                  !.target = IF next = "idle" THEN 0 ELSE w]
    BY ZenonT(60) DEF ObserveJoin, CanJoin
  <1>2. /\ UNCHANGED <<work, model, tool>> /\ [Next]_storeVars /\ OwnersOpen'
        /\ \A v \in Works : Tame(v)
        /\ EngineTypeOK /\ SomeoneResponsible /\ ProcessFits /\ RunnerFits
        /\ sched \in SchedulerStates /\ proc \in ProcessStates /\ faults \in 0 .. MaxFaults
    BY ZenonT(60), <1>1, StoreAtRest DEF EngineInvariant
  <1>3. /\ w = sched.reg /\ w \in Works /\ w # 0 /\ sched.target = 0
        /\ IsActive(work[w]) => work[w].owner = me
    BY ZenonT(60), <1>1, <1>2, RunnerWork, NoWorkZero DEF EngineTypeOK, Settling
  <1>4. \/ next = "idle" /\ (IsActive(work[w]) => work[w].state = "cancel_requested"
                                                  /\ NoCurrentAttempt(work[w]))
        \/ next \in {"finish", "inspect"}
    BY ZenonT(60), <1>1, <1>2 DEF RunnerFits, AfterJoin, Exits
  <1> HIDE DEF next
  <1>5. /\ sched' \in SchedulerStates /\ sched'.pc = next /\ sched'.reg = 0
        /\ sched'.claiming = sched.claiming /\ sched'.fatal = sched.fatal
        /\ sched'.mail = "none"
        /\ sched'.target = IF next = "idle" THEN 0 ELSE w
    BY ZenonT(60), <1>1, <1>2, <1>3, <1>4 DEF SchedulerStates, Settling
  <1>6. /\ sched'.target # 0 <=> sched'.pc \in Settling
        /\ next \notin {"exited", "claim", "cancel", "interrupt"}
        /\ next = "idle" \/ sched'.target = w
    BY ZenonT(60), <1>3, <1>4, <1>5 DEF Settling
  <1>7. RunnerGood' /\ runner'.w = 0 /\ runner'.pc = "none"
    BY ZenonT(60), <1>1, <1>2, RunnerGone
  <1>8. SomeoneResponsible'
    <2> SUFFICES ASSUME proc.pc = "serving", NEW v \in Works, IsActive(work[v])
                 PROVE  /\ work[v].owner = me
                        /\ v \in {sched'.reg, sched'.target} \/ Orphan(v)' \/ sched'.fatal
      BY ZenonT(60), <1>1, <1>2 DEF SomeoneResponsible
    <2>1. work[v].owner = me /\ (v = w \/ Orphan(v) \/ sched.fatal)
      BY ZenonT(60), <1>2, <1>3, NoWorkZero DEF SomeoneResponsible
    <2>2. Orphan(v) => Orphan(v)'
      BY ZenonT(60), <1>1, <1>2, <1>5, NoWorkZero DEF Orphan, CancelRequested
    <2>3. v = w => sched'.target = w \/ Orphan(v)'
      BY ZenonT(60), <1>1, <1>2, <1>3, <1>4, <1>5, <1>6 DEF Orphan, CancelRequested
    <2> QED
      BY ZenonT(60), <1>5, <2>1, <2>2, <2>3
  <1>9. proc.pc \notin {"down", "recover"}
    BY <1>1, <1>2 DEF ProcessFits, NoScheduler
  <1>10. ProcessFits'
    <2>1. OwnsWork(me)' = OwnsWork(me)
      BY ZenonT(60), <1>1, <1>2 DEF OwnsWork
    <2> QED
      BY ZenonT(60), <1>2, <1>3, <1>5, <1>6, <1>9, <2>1 DEF ProcessFits
  <1>11. SettlementFits'
    BY ZenonT(60), <1>5, <1>6 DEF SettlementFits
  <1>12. Assembled
    BY ZenonT(60), <1>1, <1>2, <1>5, <1>6, <1>7, <1>8, <1>10, <1>11 DEF Assembled,
       EngineTypeOK
  <1> QED
    BY ZenonT(60), <1>12, Assembles

(* A claim commits: no work was active, and the new runner has the one that  *)
(* is.                                                                       *)
LEMMA ClaimSound ==
    ASSUME EngineInvariant, NEW w \in Works, ClaimNext(me, w), sched.pc = "claim",
           sched' = [sched EXCEPT !.pc = "idle", !.reg = w],
           runner' = StartRunner(w, NextSnapshot(work[w], Start(me))),
           UNCHANGED <<sent, handed, me, proc, faults>>
    PROVE  Sound
  <1>1. /\ EngineTypeOK /\ ProcessFits /\ OwnersOpen /\ EffectsTold /\ StoreInvariant
        /\ sched \in SchedulerStates /\ proc \in ProcessStates /\ faults \in 0 .. MaxFaults
        /\ sent \subseteq Works \X Attempts /\ handed \subseteq Works \X Attempts
        /\ w # 0
    BY ZenonT(60), NoWorkZero DEF EngineInvariant, WorkTended, EngineTypeOK
  <1>2. /\ \A v \in Works : ~IsActive(work[v])
        /\ \A v \in Works : v # w => work'[v] = work[v]
        /\ work'[w] = NextSnapshot(work[w], Start(me))
        /\ work'[w].state = "running" /\ work'[w].owner = me
        /\ UNCHANGED <<model, tool, runtime>> /\ runtime[me] = "running"
    BY ZenonT(60), <1>1, ClaimEffect
  <1>3. /\ proc.pc \in {"serving", "quiesce"} /\ me \in Runtimes /\ sched.mail = "none"
    BY ZenonT(60), <1>1 DEF ProcessFits, EngineTypeOK
  <1>4. [Next]_storeVars
    BY ZenonT(60), <1>3 DEF Next, OwnerStep
  <1>5. StoreInvariant' /\ work'[w] \in WorkLifecycleSnapshot
    BY ZenonT(60), <1>1, <1>4, NextInvariant DEF StoreInvariant, TypeOK
  <1>6. \A v \in Works : IsActive(work'[v]) => v = w
    BY ZenonT(60), <1>2
  <1>7. /\ sched' \in SchedulerStates /\ sched'.pc = "idle" /\ sched'.reg = w
        /\ sched'.target = sched.target /\ sched'.mail = sched.mail
        /\ sched'.claiming = sched.claiming
    BY ZenonT(60), <1>1 DEF SchedulerStates
  <1>8. sched.target = 0 /\ "idle" \notin Settling
    BY ZenonT(60), <1>1 DEF EngineTypeOK, Settling
  <1>9. /\ runner' = [NoRunner EXCEPT !.pc = "top", !.w = w, !.snap = work'[w]]
        /\ runner'.pc = "top" /\ runner'.w = w /\ runner'.snap = work'[w]
        /\ runner'.notice = Absent /\ ~runner'.flag
    BY ZenonT(60), <1>2 DEF StartRunner, NoRunner
  <1>10. RunnerGood'
    <2>1. Absent \in WorkLifecycleSnapshot
      BY ZenonT(60), AbsentTyped
    <2>2. runner' \in RunnerStates
      BY ZenonT(60), <1>5, <1>9, <2>1 DEF RunnerStates, RunnerPcs, NoRunner, CleanupStatus
    <2>3. EffectsTold'
      BY ZenonT(60), <1>1, <1>2, <1>9 DEF EffectsTold, NoEffectDenied, CancelledMeansQuiet,
         FlagMeansDurable
    <2>4. Honest(runner.snap)'
      BY <1>5, <1>9 DEF Honest, WorkLifecycleSnapshot
    <2>5. RunnerFits'
      BY ZenonT(60), <1>2, <1>9, <2>4 DEF RunnerFits
    <2>6. ModelFits' /\ ToolFits'
      BY ZenonT(60), <1>9 DEF ModelFits, ModelPhase, ToolFits, ToolPhase
    <2> QED
      BY ZenonT(60), <1>1, <2>2, <2>3, <2>5, <2>6 DEF RunnerGood
  <1>11. OwnersOpen' /\ SomeoneResponsible' /\ SettlementFits'
    BY ZenonT(60), <1>2, <1>6, <1>7, <1>8 DEF OwnersOpen, SomeoneResponsible, SettlementFits
  <1>12. ProcessFits'
    BY ZenonT(60), <1>1, <1>3, <1>7, <1>8 DEF ProcessFits
  <1>13. EngineTypeOK'
    BY ZenonT(60), <1>1, <1>3, <1>5, <1>7, <1>8, <1>9, <1>10 DEF EngineTypeOK, RunnerGood,
       StoreInvariant
  <1>14. EngineInvariant'
    BY ZenonT(60), <1>5, <1>10, <1>11, <1>12, <1>13 DEF EngineInvariant, WorkTended,
       RunnerGood
  <1> QED
    BY ZenonT(60), <1>3, <1>4, <1>14 DEF Sound, StoreStep, ClaimBeforeQuiesce

(* The second transaction of a settlement commits.  That the work still has  *)
(* no attempt, and is still asked to stop, makes it a step of the store.     *)
LEMMA SettleSound ==
    ASSUME EngineInvariant, sched.pc \in {"cancel", "interrupt"},
           TerminalizeWork(sched.target, me, Settlement(sched.target)), SchedIdle, KeepRunner,
           UNCHANGED <<me, proc, faults>>
    PROVE  Sound
  <1> DEFINE w == sched.target
             q == Settlement(w)
  <1>1. /\ EngineTypeOK /\ ProcessFits /\ OwnersOpen /\ StoreInvariant /\ SomeoneResponsible
        /\ SettlementFits /\ sched \in SchedulerStates /\ proc \in ProcessStates
        /\ faults \in 0 .. MaxFaults
    BY ZenonT(60) DEF EngineInvariant, WorkTended, EngineTypeOK
  <1>2. /\ w \in Works /\ w # 0 /\ w # sched.reg /\ me \in Runtimes
        /\ proc.pc \notin {"down", "recover"}
    BY <1>1, NoWorkZero DEF EngineTypeOK, SchedulerStates, Settling, ProcessFits,
       NoScheduler
  <1>3. /\ work[w].owner = me /\ DecideWorkTransition(work[w], q)
    BY ZenonT(60) DEF TerminalizeWork, GuardedWorkUpdate
  <1>4. IsActive(work[w]) /\ NoCurrentAttempt(work[w])
    BY ZenonT(60), <1>1, <1>2, <1>3 DEF DecideWorkTransition, ValidWorkShape, SettlementFits
  <1>5. /\ \A v \in Works : Tame(v)
        /\ \A v \in Works : v # w => RowsKept(v)
        /\ IsTerminal(work'[w])
        /\ model' = model /\ tool' = tool /\ runtime' = runtime
    BY ZenonT(60), <1>1, <1>2, SettlementEffect DEF Settlement
  <1>6. Next
    <2>1. CASE sched.pc = "interrupt"
      BY ZenonT(60), <1>2, <1>3, <1>4, <2>1 DEF Settlement, Next, OwnerStep, Interruptible
    <2>2. CASE sched.pc = "cancel"
      <3>1. q = Cancel(work[w].cancel, "not_required") /\ TargetState(q) = "cancelled"
        BY ZenonT(60), <2>2, Targets, RequestOps DEF Settlement
      <3>2. work[w].state = "cancel_requested"
        BY ZenonT(60), <1>3, <1>4, <3>1, LegalWorkPairs DEF DecideWorkTransition, IsActive,
           ActiveStates
      <3> QED
        BY ZenonT(60), <1>2, <1>3, <1>4, <3>1, <3>2 DEF Next, OwnerStep,
           CancellationFinishable
    <2> QED
      BY ZenonT(60), <2>1, <2>2
  <1>7. RunnerGood'
    <2>1. \A v \in Works : v # w => Outside(v)
      BY ZenonT(60), <1>5 DEF Outside, RowsKept, AttemptsKept
    <2>2. NoCurrentAttempt(work'[w])
      <3>1. StoreInvariant'
        BY ZenonT(60), <1>1, <1>6, NextInvariant
      <3>2. ValidWorkShape(work'[w])
        BY <1>2, <1>5, <3>1 DEF StoreInvariant, WorkShapes, Absent, IsTerminal,
           TerminalStates
      <3> QED
        BY ZenonT(60), <1>5, <3>2 DEF ValidWorkShape, IsTerminal, TerminalStates
    <2>3. Outside(w)
      BY ZenonT(60), <1>4, <1>5, <2>2 DEF Outside, AttemptsKept, Recovered, NoCurrentAttempt
    <2>4. UNCHANGED <<runner, sent, handed, me>>
      BY ZenonT(60) DEF KeepRunner, runnerVars
    <2> QED
      BY ZenonT(60), <1>5, <2>1, <2>3, <2>4, RunnerUndisturbed
  <1>8. ASSUME NEW v \in Works, IsActive(work'[v])
        PROVE  v # w /\ work'[v] = work[v]
    BY ZenonT(60), <1>5, <1>8 DEF RowsKept, IsTerminal, TerminalStates, IsActive,
       ActiveStates
  <1>9. /\ sched' \in SchedulerStates /\ sched'.pc = "idle" /\ sched'.reg = sched.reg
        /\ sched'.target = 0 /\ sched'.mail = sched.mail
        /\ sched'.claiming = sched.claiming /\ sched'.fatal = sched.fatal
    BY ZenonT(60), <1>1 DEF SchedIdle, SchedulerStates
  <1>10. OwnersOpen'
    BY ZenonT(60), <1>1, <1>5, <1>8 DEF OwnersOpen
  <1>11. SomeoneResponsible'
    <2> SUFFICES ASSUME proc.pc = "serving", NEW v \in Works, IsActive(work'[v])
                 PROVE  /\ work'[v].owner = me
                        /\ v \in {sched'.reg, sched'.target} \/ Orphan(v)' \/ sched'.fatal
      BY ZenonT(60) DEF SomeoneResponsible
    <2>1. v # w /\ work'[v] = work[v]
      BY ZenonT(60), <1>8
    <2>2. work[v].owner = me /\ (v = sched.reg \/ Orphan(v) \/ sched.fatal)
      BY ZenonT(60), <1>1, <2>1 DEF SomeoneResponsible
    <2>3. Orphan(v) => Orphan(v)'
      BY ZenonT(60), <1>9, <2>1 DEF Orphan, CancelRequested
    <2> QED
      BY ZenonT(60), <1>9, <2>1, <2>2, <2>3
  <1>12. ProcessFits'
    <2>1. OwnedCancellable(me) = {} => OwnedCancellable(me)' = {}
      BY ZenonT(60), <1>8 DEF OwnedCancellable
    <2>2. ~OwnsWork(me) => ~OwnsWork(me)'
      BY ZenonT(60), <1>8 DEF OwnsWork
    <2> QED
      BY ZenonT(60), <1>1, <1>2, <1>9, <2>1, <2>2 DEF ProcessFits
  <1>13. SettlementFits' /\ "idle" \notin Settling
    BY ZenonT(60), <1>9 DEF SettlementFits, Settling
  <1>14. /\ runner'.w = sched'.reg /\ (runner'.pc = "none" <=> sched'.reg = 0)
         /\ me' \in Runtimes \cup {NoRuntime} /\ (me' = NoRuntime <=> proc'.pc = "down")
    BY ZenonT(60), <1>1, <1>9 DEF EngineTypeOK, KeepRunner, runnerVars
  <1>15. Assembled
    BY ZenonT(60), <1>1, <1>5, <1>6, <1>7, <1>9, <1>10, <1>11, <1>12, <1>13,
       <1>14 DEF Assembled
  <1> QED
    BY ZenonT(60), <1>15, Assembles

(* request_owned_cancellation: afterwards every active work of this process  *)
(* is asked to stop, which is what the flag of BeginShutdown relies on.      *)
LEMMA CancelOwnedSound ==
    ASSUME EngineInvariant, CancelOwned, RequestOwnedCancellation(me)
    PROVE  Sound
  <1>1. /\ EngineTypeOK /\ ProcessFits /\ SettlementFits /\ OwnersOpen /\ StoreInvariant
        /\ sched \in SchedulerStates /\ proc \in ProcessStates /\ faults \in 0 .. MaxFaults
    BY ZenonT(60) DEF EngineInvariant, WorkTended, EngineTypeOK
  <1>2. /\ proc.pc = "cancel_owned" /\ ProcGoto("join")
        /\ UNCHANGED <<runner, sent, handed, me>>
    BY ZenonT(60) DEF CancelOwned, KeepRunner, runnerVars
  <1>3. /\ \A v \in Works : Tame(v) /\ Outside(v)
        /\ \A v \in Works : ~(IsActive(work'[v]) /\ work'[v].owner = me
                              /\ work'[v].state # "cancel_requested")
        /\ runtime' = runtime
    BY ZenonT(60), <1>1, OwnedCancellationEffect
  <1>4. Next
    <2>1. me \in Runtimes
      BY ZenonT(60), <1>1, <1>2 DEF EngineTypeOK
    <2> QED
      BY ZenonT(60), <2>1 DEF Next, RuntimeStep
  <1>5. RunnerGood'
    BY ZenonT(60), <1>2, <1>3, RunnerUndisturbed
  <1>6. \/ \E mail \in {"none", "begin"} :
              sched' = [sched EXCEPT !.mail = mail] /\ UNCHANGED faults
        \/ KeepStore
    BY ZenonT(60) DEF CancelOwned
  <1>7. ~KeepStore
    <2> SUFFICES ASSUME KeepStore PROVE FALSE
      BY ZenonT(60)
    <2>1. PICK w \in Works : /\ IsActive(work[w]) /\ work[w].owner = me
                             /\ work[w].state # "cancel_requested"
      BY ZenonT(60) DEF RequestOwnedCancellation, OwnedCancellable
    <2> QED
      BY ZenonT(60), <1>3, <2>1 DEF KeepStore, storeVars
  <1>8. /\ sched' \in SchedulerStates /\ sched'.pc = sched.pc /\ sched'.reg = sched.reg
        /\ sched'.target = sched.target /\ sched'.claiming = sched.claiming
        /\ faults' = faults
    BY ZenonT(60), <1>1, <1>6, <1>7 DEF SchedulerStates
  <1>9. proc' \in ProcessStates /\ proc'.pc = "join"
    BY ZenonT(60), <1>1, <1>2 DEF ProcGoto, ProcessStates
  <1>10. OwnersOpen'
    BY ZenonT(60), <1>1, <1>3 DEF OwnersOpen, Tame
  <1>11. SomeoneResponsible'
    BY ZenonT(60), <1>9 DEF SomeoneResponsible
  <1>12. OwnedCancellable(me)' = {}
    BY ZenonT(60), <1>2, <1>3 DEF OwnedCancellable
  <1>13. ProcessFits'
    BY ZenonT(60), <1>1, <1>2, <1>8, <1>9, <1>12 DEF ProcessFits
  <1>14. SettlementFits'
    <2> SUFFICES ASSUME sched.pc \in {"cancel", "interrupt"}, IsActive(work'[sched.target])
                 PROVE  NoCurrentAttempt(work'[sched.target])
      BY ZenonT(60), <1>8 DEF SettlementFits
    <2>1. sched.target \in Works
      BY ZenonT(60), <1>1 DEF EngineTypeOK, SchedulerStates, Settling
    <2>2. Tame(sched.target) /\ Outside(sched.target) /\ IsActive(work[sched.target])
      BY ZenonT(60), <1>3, <2>1 DEF Tame
    <2>3. NoCurrentAttempt(work[sched.target])
      BY ZenonT(60), <1>1, <2>2 DEF SettlementFits
    <2> QED
      BY ZenonT(60), <2>2, <2>3 DEF Outside, RowsKept, AskedToStop, Recovered,
         NoCurrentAttempt, IsActive,
         ActiveStates
  <1>15. Assembled
    BY ZenonT(60), <1>1, <1>2, <1>3, <1>4, <1>5, <1>8, <1>9, <1>10, <1>11, <1>13, <1>14
       DEF Assembled, EngineTypeOK
  <1> QED
    BY ZenonT(60), <1>15, Assembles

(* The steps of the main task that write to the store.                       *)
LEMMA MainStoreSound ==
    ASSUME MaxFaultsOK, EngineInvariant,
           \/ RecoverStaleRuntime \/ ClientCommand \/ ClassifyShutdownWork
           \/ StopRuntime \/ CancelOwned
    PROVE  Sound
  <1>1. StoreInvariant /\ (proc.pc # "down" => me \in Runtimes)
    BY ZenonT(60) DEF EngineInvariant, WorkTended, EngineTypeOK
  <1>2. CASE ClientCommand
    <2>1. PICK w \in Works : AdmitMessage(w) \/ CancelCommand(w)
      BY ZenonT(60), <1>2 DEF ClientCommand
    <2>2. Next
      BY ZenonT(60), <2>1 DEF Next, WorkStep
    <2>3. runtime' = runtime /\ \A v \in Works : Tame(v) /\ Outside(v)
      BY ZenonT(60), <1>1, <2>1, AdmitEffect, CancelCommandEffect
    <2> QED
      BY ZenonT(60), <1>2, <2>2, <2>3, RowsWritten DEF ClientCommand
  <1>3. ASSUME NEW w \in Works, NEW r \in Runtimes, RecoverWorkUnit(w, r), KeepVolatile,
               UNCHANGED <<proc, faults>>
        PROVE  Sound
    <2>1. Next
      BY ZenonT(60), <1>3 DEF Next, OwnerStep
    <2>2. runtime' = runtime /\ \A v \in Works : Tame(v) /\ Outside(v)
      BY ZenonT(60), <1>1, <1>3, RecoverEffect
    <2> QED
      BY ZenonT(60), <1>3, <2>1, <2>2, RowsWritten
  <1>4. CASE ClassifyShutdownWork
    BY ZenonT(60), <1>1, <1>3, <1>4 DEF ClassifyShutdownWork
  <1>5. CASE RecoverStaleRuntime
    <2>1. KeepVolatile /\ UNCHANGED <<proc, faults>>
      BY ZenonT(60), <1>5 DEF RecoverStaleRuntime
    <2>2. PICK r \in Runtimes : (\E w \in Works : RecoverWorkUnit(w, r)) \/ CloseStaleRuntime(r)
      BY ZenonT(60), <1>5 DEF RecoverStaleRuntime
    <2>3. CASE CloseStaleRuntime(r)
      <3>1. /\ UNCHANGED <<work, model, tool>> /\ runtime' = [runtime EXCEPT ![r] = "stopped"]
            /\ ~OwnsWork(r)
        BY <2>3 DEF CloseStaleRuntime, SetRuntime, OwnsWork
      <3>2. OwnersOpen'
        BY ZenonT(60), <3>1, RuntimeRowWritten
      <3>3. Next
        BY ZenonT(60), <2>3 DEF Next, RuntimeStep
      <3> QED
        BY ZenonT(60), <2>1, <3>1, <3>2, <3>3, RuntimeWritten
    <2> QED
      BY ZenonT(60), <1>3, <2>1, <2>2, <2>3
  <1>6. CASE StopRuntime
    <2>1. CASE KeepStore
      BY ZenonT(60), <1>6, <2>1, ShutdownQuietSound
    <2>2. CASE BeginRuntimeStopping(me) /\ UNCHANGED faults
      <3>1. /\ me \in Runtimes /\ proc.pc = "stopping" /\ ProcGoto("cancel_owned")
            /\ KeepVolatile
        BY ZenonT(60), <1>1, <1>6 DEF StopRuntime
      <3>2. UNCHANGED <<work, model, tool>> /\ runtime' = [runtime EXCEPT ![me] = "stopping"]
        BY ZenonT(60), <2>2 DEF BeginRuntimeStopping, SetRuntime
      <3>3. OwnersOpen'
        BY ZenonT(60), <3>1, <3>2, RuntimeRowWritten
      <3>4. Next
        BY ZenonT(60), <2>2, <3>1 DEF Next, RuntimeStep
      <3> QED
        BY ZenonT(60), <2>2, <3>1, <3>2, <3>3, <3>4, RuntimeWritten
    <2> QED
      BY ZenonT(60), <1>6, <2>1, <2>2 DEF StopRuntime
  <1>7. CASE CancelOwned
    <2>1. RequestOwnedCancellation(me) \/ KeepStore
      BY ZenonT(60), <1>7 DEF CancelOwned
    <2> QED
      BY ZenonT(60), <1>7, <2>1, CancelOwnedSound, ShutdownQuietSound
  <1> QED
    BY ZenonT(60), <1>2, <1>4, <1>5, <1>6, <1>7

-----------------------------------------------------------------------------
(* Every step of the service.                                                *)
LEMMA SchedulerSound ==
    ASSUME MaxFaultsOK, EngineInvariant, SchedulerStep, UNCHANGED <<proc, faults>>
    PROVE  Sound
  <1>1. CASE TakeBeginShutdown \/ ScanFlag
    BY ZenonT(60), <1>1, FlagSound
  <1>2. CASE TakeClosed
    BY ZenonT(60), <1>2, EndsSound
  <1>3. CASE ScanOrphan \/ TakeClaimGate \/ CheckClaiming \/ SchedulerExit
             \/ InspectCancellation \/ InspectAbnormal
    <2>1. KeepStore
      BY ZenonT(60), <1>3 DEF ScanOrphan, TakeClaimGate, CheckClaiming, SchedulerExit,
         InspectCancellation, InspectAbnormal
    <2> QED
      BY ZenonT(60), <1>3, <2>1, SchedulerQuietSound
  <1>4. CASE Claim
    <2>1. CASE KeepStore /\ KeepRunner
      BY ZenonT(60), <1>4, <2>1, SchedulerQuietSound
    <2>2. CASE \E w \in Works :
                   /\ ClaimNext(me, w)
                   /\ sched' = [sched EXCEPT !.pc = "idle", !.reg = w]
                   /\ runner' = StartRunner(w, NextSnapshot(work[w], Start(me)))
                   /\ UNCHANGED <<sent, handed>>
      BY ZenonT(60), <1>4, <2>2, ClaimSound DEF Claim
    <2> QED
      BY ZenonT(60), <1>4, <2>1, <2>2 DEF Claim
  <1>5. CASE ObserveJoin
    BY ZenonT(60), <1>5, ObserveJoinSound
  <1>6. CASE Settle
    <2>1. CASE KeepStore
      BY ZenonT(60), <1>6, <2>1, SchedulerQuietSound
    <2>2. CASE TerminalizeWork(sched.target, me, Settlement(sched.target)) /\ SchedIdle
      BY ZenonT(60), <1>6, <2>2, SettleSound DEF Settle
    <2> QED
      BY ZenonT(60), <1>6, <2>1, <2>2 DEF Settle
  <1> QED
    BY ZenonT(60), <1>1, <1>2, <1>3, <1>4, <1>5, <1>6 DEF SchedulerStep

(* Every step of the engine is sound.                                        *)
LEMMA StepSound ==
    ASSUME MaxFaultsOK, EngineInvariant, EngineNext
    PROVE  Sound
  <1>1. CASE \E r \in Runtimes : Boot(r)
    BY ZenonT(60), <1>1, BootSound
  <1>2. CASE RecoveryFails \/ Crash \/ AbortRunners \/ CloseRuntime
    BY ZenonT(60), <1>2, EndsSound
  <1>3. CASE ClientCommand \/ RecoverStaleRuntime \/ ClassifyShutdownWork \/ StopRuntime
             \/ CancelOwned
    BY ZenonT(60), <1>3, MainStoreSound
  <1>4. CASE SignalShutdown \/ FatalShutdown \/ ClassifyFails \/ WaitForClaimGate
             \/ JoinScheduler \/ FreezeAtDeadline \/ Classified
    BY ZenonT(60), <1>4, ShutdownQuietSound DEF SignalShutdown, FatalShutdown
  <1>5. CASE Serve
    BY ZenonT(60), <1>5, ServeSound
  <1>6. CASE RunnerTask \/ (RunnerPanics /\ UNCHANGED schedVars /\ UNCHANGED <<proc, faults>>)
    <2>1. /\ RunnerStep \/ RunnerPanics
          /\ UNCHANGED <<sched, me, proc>> /\ faults' = faults
      BY ZenonT(60), <1>6 DEF RunnerTask, schedVars
    <2>2. faults' \in 0 .. MaxFaults
      BY ZenonT(60), <2>1 DEF EngineInvariant, WorkTended, EngineTypeOK
    <2> QED
      BY ZenonT(60), <2>1, <2>2, RunnerSound
  <1>7. CASE SchedulerTask
    BY ZenonT(60), <1>7, SchedulerSound DEF SchedulerTask
  <1>8. CASE StoreFault
    <2>1. faults' \in 0 .. MaxFaults /\ proc' = proc
      BY ZenonT(60), <1>8, FaultCounted DEF StoreFault
    <2>2. CASE RunnerStoreFault /\ UNCHANGED schedVars
      BY ZenonT(60), <2>1, <2>2, RunnerSound DEF schedVars
    <2>3. CASE SchedulerStoreFault
      <3>1. KeepStore /\ KeepRunner /\ me' = me /\ SchedFail /\ sched.pc # "exited"
        BY ZenonT(60), <2>3 DEF SchedulerStoreFault, CanScan
      <3> QED
        BY ZenonT(60), <2>1, <3>1, SchedulerFails
    <2> QED
      BY ZenonT(60), <1>8, <2>2, <2>3 DEF StoreFault
  <1> QED
    BY ZenonT(60), <1>1, <1>2, <1>3, <1>4, <1>5, <1>6, <1>7, <1>8 DEF EngineNext, TaskStep,
       MainStep

-----------------------------------------------------------------------------
(* Before the first boot nothing runs and nothing is stored.                 *)
LEMMA EngineStarts ==
    ASSUME MaxFaultsOK, EngineInit
    PROVE  EngineInvariant
  <1>1. StoreInvariant
    BY ZenonT(60), InitInvariant DEF EngineInit
  <1>2. /\ runner = NoRunner /\ sent = {} /\ handed = {} /\ sched = NoScheduler
        /\ me = NoRuntime /\ proc = Down /\ faults = 0
        /\ \A w \in Works : work[w] = Absent
    BY ZenonT(60) DEF EngineInit, Init
  <1>3. runner \in RunnerStates /\ runner.w = 0 /\ runner.pc = "none" /\ ~runner.flag
    <2>1. Absent \in WorkLifecycleSnapshot
      BY ZenonT(60), AbsentTyped
    <2> QED
      BY ZenonT(60), <1>2, <2>1 DEF NoRunner, RunnerStates, RunnerPcs, CleanupStatus
  <1>4. /\ sched \in SchedulerStates /\ sched.pc = "exited" /\ sched.reg = 0
        /\ sched.target = 0 /\ ~sched.claiming /\ sched.mail = "none"
    BY ZenonT(60), <1>2 DEF NoScheduler, SchedulerStates
  <1>5. proc \in ProcessStates /\ proc.pc = "down"
    BY ZenonT(60), <1>2 DEF Down, ProcessStates
  <1>6. EngineTypeOK
    BY <1>1, <1>2, <1>3, <1>4, <1>5 DEF EngineTypeOK, StoreInvariant, Settling,
       MaxFaultsOK
  <1>7. EffectsTold
    BY ZenonT(60), <1>2, <1>3 DEF EffectsTold, NoEffectDenied, CancelledMeansQuiet,
       FlagMeansDurable
  <1>8. OwnersOpen /\ SomeoneResponsible
    BY <1>2, <1>5 DEF OwnersOpen, SomeoneResponsible, Absent, IsActive,
       ActiveStates
  <1>9. ProcessFits /\ SettlementFits
    BY ZenonT(60), <1>2, <1>4, <1>5 DEF ProcessFits, SettlementFits
  <1>10. RunnerFits /\ ModelFits /\ ToolFits
    BY ZenonT(60), <1>2, <1>3 DEF RunnerFits, ModelFits, ModelPhase, ToolFits, ToolPhase
  <1> QED
    BY ZenonT(60), <1>1, <1>6, <1>7, <1>8, <1>9, <1>10 DEF EngineInvariant, WorkTended

(* A step or a stutter of the engine keeps the invariant, is a step or a     *)
(* stutter of the store and claims nothing after the quiesce.                *)
LEMMA EngineStepKeeps ==
    ASSUME MaxFaultsOK, EngineInvariant, [EngineNext]_engineVars
    PROVE  /\ EngineInvariant' /\ [StoreStep]_storeVars
           /\ [ClaimBeforeQuiesce]_engineVars
  <1>1. CASE EngineNext
    BY ZenonT(60), <1>1, StepSound DEF Sound
  <1>2. CASE UNCHANGED engineVars
    <2>1. /\ KeepStore /\ UNCHANGED <<runner, sent, handed, sched, me, proc, faults>>
          /\ UNCHANGED storeVars
      BY ZenonT(60), <1>2 DEF engineVars, KeepStore, storeVars
    <2>2. /\ sched \in SchedulerStates /\ proc \in ProcessStates /\ faults \in 0 .. MaxFaults
          /\ EngineTypeOK /\ SomeoneResponsible /\ ProcessFits /\ SettlementFits
          /\ work' = work
      BY ZenonT(60), <2>1, StoreAtRest
    <2>3. SomeoneResponsible' /\ ProcessFits' /\ SettlementFits'
      BY ZenonT(60), <2>1, <2>2 DEF SomeoneResponsible, Orphan, CancelRequested,
         ProcessFits,
         OwnedCancellable, OwnsWork, SettlementFits
    <2>4. Sound
      BY ZenonT(60), <2>1, <2>2, <2>3, TasksMove DEF EngineTypeOK
    <2> QED
      BY ZenonT(60), <1>2, <2>1, <2>4 DEF Sound
  <1> QED
    BY ZenonT(60), <1>1, <1>2

(* The service keeps its invariant: types, registry, snapshots, attempts,    *)
(* flags and responsibilities fit each other in every reachable state,       *)
(* through crashes, store faults, cancellations and shutdowns.               *)
THEOREM EngineKeepsInvariant ==
    ASSUME MaxFaultsOK
    PROVE  EngineSafety => []EngineInvariant
  <1>1. EngineInit => EngineInvariant
    BY ZenonT(60), EngineStarts
  <1>2. EngineInvariant /\ [EngineNext]_engineVars => EngineInvariant'
    BY ZenonT(60), EngineStepKeeps
  <1> QED
    BY <1>1, <1>2, PTL DEF EngineSafety

(* What the rows say of effects is true: a request that was sent is never    *)
(* recorded as cancelled locally, a started handler never as not dispatched, *)
(* a work is cancelled only once its calls have ended, and the flag follows  *)
(* the durable request (agent_loop.rs, tool_service.rs, scheduler.rs).       *)
THEOREM EngineTellsEffects ==
    ASSUME MaxFaultsOK
    PROVE  EngineSafety => []EffectsTold
  <1>1. EngineInvariant => EffectsTold
    BY ZenonT(60) DEF EngineInvariant
  <1> QED
    BY <1>1, EngineKeepsInvariant, PTL

(* No active work is left behind: its owner's runtime row is open, and while *)
(* the service serves its runner, the scheduler or a fatal shutdown is       *)
(* responsible for it (scheduler.rs, runtime_shutdown.rs, startup).          *)
THEOREM EngineTendsWork ==
    ASSUME MaxFaultsOK
    PROVE  EngineSafety => []WorkTended
  <1>1. EngineInvariant => WorkTended
    BY ZenonT(60) DEF EngineInvariant
  <1> QED
    BY <1>1, EngineKeepsInvariant, PTL

(* The engine implements WorkStore: stale snapshots, late flags, crashes and *)
(* the deadline never do to the rows what the store does not allow.          *)
THEOREM EngineImplementsStore ==
    ASSUME MaxFaultsOK
    PROVE  EngineSafety => ImplementsStore
  <1>1. EngineInit => Init
    BY ZenonT(60) DEF EngineInit
  <1>2. EngineInvariant /\ [EngineNext]_engineVars => [StoreStep]_storeVars
    BY ZenonT(60), EngineStepKeeps
  <1> QED
    BY <1>1, <1>2, EngineKeepsInvariant, PTL DEF EngineSafety, ImplementsStore

(* Once stop_claiming_and_wait has returned no work starts any more, so      *)
(* request_owned_cancellation reaches every work of the runtime.             *)
THEOREM NoLateClaim ==
    ASSUME MaxFaultsOK
    PROVE  EngineSafety => NoClaimAfterQuiesce
  <1>1. EngineInvariant /\ [EngineNext]_engineVars => [ClaimBeforeQuiesce]_engineVars
    BY ZenonT(60), EngineStepKeeps
  <1> QED
    BY <1>1, EngineKeepsInvariant, PTL DEF EngineSafety, NoClaimAfterQuiesce

-----------------------------------------------------------------------------
(* So what is proved of the store holds of the running service.              *)
LEMMA EngineRefinesStore ==
    ASSUME MaxFaultsOK
    PROVE  EngineSafety => Spec
  <1>1. [StoreStep]_storeVars => [Next]_storeVars
    BY ZenonT(60) DEF StoreStep
  <1> QED
    BY <1>1, EngineImplementsStore, PTL DEF ImplementsStore, Spec

(* A work the running service reports as cancelled is settled                *)
(* (docs/protocol.md:51): none of its attempts is live or of unknown outcome *)
(* and no cleanup of its tools is unconfirmed.                               *)
THEOREM EngineCancelsSettled ==
    ASSUME MaxFaultsOK
    PROVE  EngineSafety => []CancelledMeansSettled
  BY EngineRefinesStore, CancellationSettled, PTL

(* Clients of the running service see works go through the public statuses   *)
(* of the protocol only.                                                     *)
THEOREM EngineKeepsContract ==
    ASSUME MaxFaultsOK
    PROVE  EngineSafety => ImplementsContract
  BY EngineRefinesStore, StoreImplementsContract, PTL

(* In the running service an active work never changes hands, and versions   *)
(* count its changes.                                                        *)
THEOREM EngineKeepsOwnership ==
    ASSUME MaxFaultsOK
    PROVE  EngineSafety => OwnershipNeverTransferred
  BY EngineRefinesStore, OwnershipSafe, PTL

(* The scheduler, its runners, cancellation and recovery together leave the  *)
(* queue in order: claim_next never starts a work while one                  *)
(* admitted before it is queued.                                             *)
THEOREM EngineKeepsOrder ==
    ASSUME MaxFaultsOK
    PROVE  EngineSafety => FirstComeFirstServed
  BY EngineRefinesStore, QueueOrder, PTL

(* Whatever the runner was doing when its runtime was lost, startup recovery *)
(* settles the work as the domain's recovery policy says.                    *)
THEOREM EngineRecoversByPolicy ==
    ASSUME MaxFaultsOK
    PROVE  EngineSafety => []RecoveryAgreesWithPolicy
  BY EngineRefinesStore, RecoveryFollowsPolicy, PTL
=============================================================================
