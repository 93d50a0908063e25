------------------------------- MODULE MCJournal ------------------------------
(*****************************************************************************)
(* The journal and the verification of it at startup, in one run. Every      *)
(* behaviour is a behaviour of one instance, which `part` names:             *)
(*   "attempts"  one work with a model and a tool attempt, two processes;    *)
(*   "restarts"  two works without attempts, three processes;                *)
(*   "clock"     no work, three processes, two readings of the wall clock.   *)
(*****************************************************************************)
EXTENDS Integers, Sequences, TLC

CONSTANTS r1, r2, q1, q2, q3, NoRuntime

VARIABLES
    part,  \* the component that moves in this behaviour
    work, model, tool, runtime, answered, journal, conversation, inputs, exposed,
    instance, clock, proc, tally

\* The value of a variable that the component has not.
Off == "off"

TwoRuntimes == {r1, r2}
ThreeRuntimes == {q1, q2, q3}
Symmetry == Permutations(TwoRuntimes) \cup Permutations(ThreeRuntimes)

Attempted == INSTANCE JournalStore WITH
    NoRuntime <- NoRuntime, MaxVersion <- 20, RootVersion <- 2, MaxClock <- 0,
    ClockSteps <- "forward", MaxWork <- 1, Runtimes <- TwoRuntimes,
    MaxAttempts <- 1, CancelOrigins <- {"native"}, MaxLog <- 14
Restarts == INSTANCE JournalStore WITH
    NoRuntime <- NoRuntime, MaxVersion <- 20, RootVersion <- 2, MaxClock <- 0,
    ClockSteps <- "forward", MaxWork <- 2, Runtimes <- ThreeRuntimes,
    MaxAttempts <- 0, CancelOrigins <- {"native", "channel"}, MaxLog <- 9
Clock == INSTANCE JournalStore WITH
    NoRuntime <- NoRuntime, MaxVersion <- 20, RootVersion <- 2, MaxClock <- 1,
    ClockSteps <- "forward", MaxWork <- 0, Runtimes <- ThreeRuntimes,
    MaxAttempts <- 0, CancelOrigins <- {}, MaxLog <- 14

\* The variables that are not of the component.

vars == <<part, work, model, tool, runtime, answered, journal, conversation, inputs,
          exposed, instance, clock, proc, tally>>

Init ==
    \/ part = "attempts" /\ Attempted!JournalInit
    \/ part = "restarts" /\ Restarts!JournalInit
    \/ part = "clock" /\ Clock!JournalInit

Next ==
    \/ part = "attempts" /\ Attempted!JournalNext /\ UNCHANGED part
    \/ part = "restarts" /\ Restarts!JournalNext /\ UNCHANGED part
    \/ part = "clock" /\ Clock!JournalNext /\ UNCHANGED part

Spec == Init /\ [][Next]_vars

-------------------------------------------------------------------------------
(* The journal that commands, recoveries and crashes leave, in any order:    *)
(* ProductProjector::project accepts it, nothing follows the terminal event  *)
(* of a work, and after every transaction the rows are what it replays to.   *)
RowsMatchJournal ==
    /\ part = "attempts" =>
          /\ Attempted!JournalTypeOK
          /\ Attempted!TerminalIsLast
          /\ Attempted!JournalReplays
          /\ Attempted!RowsMatchJournal
    /\ part = "restarts" => Restarts!JournalTypeOK /\ Restarts!RowsMatchJournal

(* The runtime rows and every recovery summary pass                          *)
(* verify_stage10_consistency: the summary counts exactly the events of its  *)
(* recovery, and the works it found queued, even when the recovery itself    *)
(* was cut short by a crash and done again by the next process.              *)
RecoveriesAddUp ==
    CASE part = "attempts" -> Attempted!RecoveriesAddUp
      [] part = "restarts" -> Restarts!RecoveriesAddUp
      [] part = "clock" -> Clock!RecoveriesAddUp
===============================================================================
