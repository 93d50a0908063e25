-------------------------- MODULE MCEngineLiveness --------------------------
(***************************************************************************)
(* Two small instances of Engine under its fairness.  A behaviour is a     *)
(* behaviour of one of them, which `instance` names:                       *)
(*   "settle"  one work of one attempt, two processes, a store fault;      *)
(*   "queue"   two works without attempts, two processes, a store fault.   *)
(***************************************************************************)
EXTENDS Integers, Sequences

CONSTANTS r1, r2, NoRuntime

VARIABLES instance, work, model, tool, runtime, answered, runner, sent, handed, sched, me,
          proc, faults

engine == <<work, model, tool, runtime, answered, runner, sent, handed, sched, me, proc, faults>>
vars == <<instance, engine>>

TwoProcesses == {r1, r2}
MaxVersion == 20

Settle == INSTANCE Engine WITH
    MaxWork <- 1, Runtimes <- TwoProcesses, MaxAttempts <- 1, MaxFaults <- 1
Queue == INSTANCE Engine WITH
    MaxWork <- 2, Runtimes <- TwoProcesses, MaxAttempts <- 0, MaxFaults <- 1

Init ==
    \/ instance = "settle" /\ Settle!EngineInit
    \/ instance = "queue" /\ Queue!EngineInit

Step ==
    \/ instance = "settle" /\ Settle!EngineNext
    \/ instance = "queue" /\ Queue!EngineNext

Next == Step /\ UNCHANGED instance

(* The actions that Engine's Fairness names, of the instance that runs.      *)
RunnerTask ==
    /\ \/ instance = "settle" /\ Settle!RunnerTask
       \/ instance = "queue" /\ Queue!RunnerTask
    /\ UNCHANGED instance
SchedulerTask ==
    /\ \/ instance = "settle" /\ Settle!SchedulerTask
       \/ instance = "queue" /\ Queue!SchedulerTask
    /\ UNCHANGED instance
MainStep ==
    /\ \/ instance = "settle" /\ Settle!MainStep
       \/ instance = "queue" /\ Queue!MainStep
    /\ UNCHANGED instance
ClaimGate ==
    /\ \/ instance = "settle" /\ Settle!WaitForClaimGate
       \/ instance = "queue" /\ Queue!WaitForClaimGate
    /\ UNCHANGED instance
Freeze ==
    /\ \/ instance = "settle" /\ Settle!FreezeAtDeadline
       \/ instance = "queue" /\ Queue!FreezeAtDeadline
    /\ UNCHANGED instance
RestartOnFailure ==
    /\ \/ instance = "settle" /\ Settle!RestartOnFailure
       \/ instance = "queue" /\ Queue!RestartOnFailure
    /\ UNCHANGED instance

Fairness ==
    /\ WF_vars(RunnerTask) /\ WF_vars(SchedulerTask) /\ WF_vars(MainStep)
    /\ SF_vars(ClaimGate) /\ SF_vars(Freeze) /\ WF_vars(RestartOnFailure)

FairSpec == Init /\ [][Next]_vars /\ Fairness

-----------------------------------------------------------------------------
(* A work that starts is settled, whatever crashes, store faults, shutdowns  *)
(* and cancellations come between.                                           *)
WorkSettles == []<>(instance = "settle" => ~Settle!IsActive(work[1]))

(* A shutdown, once requested, ends the process.                             *)
ShutdownEnds == []<>~Settle!ShuttingDown

(* A queued work does not wait for ever in a service that keeps serving,     *)
(* also when another work is before it.                                      *)
QueueServed == \A w \in 1 .. 2 : []<>(instance = "queue" => ~Queue!Waits(w))
=============================================================================
