------------------------------ MODULE WorkStore ------------------------------
(***************************************************************************)
(* The durable work state of the SQLite store: work rows, model            *)
(* invocation rows, tool execution rows, runtime rows and the assistant    *)
(* messages works have produced.  Every write runs in one BEGIN IMMEDIATE  *)
(* transaction under one write mutex, so each is one atomic action here.   *)
(*                                                                         *)
(* The store's callers pass the snapshot they believe in; an operator that *)
(* takes `e` compares it with the row (compare-and-swap) and is enabled    *)
(* only when the transaction commits.  A refused transaction changes       *)
(* nothing.  Next lets the application's services call their operations in *)
(* any order, on any work, from any runtime: what is proved of it holds    *)
(* whatever the scheduler, the runner and the shutdown sequence do.        *)
(***************************************************************************)
EXTENDS Lifecycle

VARIABLES
    work,       \* work_items: one lifecycle snapshot per work
    model,      \* model_invocations: state and runtime per work and attempt
    tool,       \* tool_executions: state, runtime and cleanup_confirmed
    runtime,    \* runtime_instances.state
    answered    \* works that produced their assistant message

storeVars == <<work, model, tool, runtime, answered>>

ModelRow == [state : ModelStates \cup {"absent"}, runtime : Runtimes \cup {NoRuntime}]
ToolRow == [state : ToolStates \cup {"absent"}, runtime : Runtimes \cup {NoRuntime},
            cleanup : CleanupStatus]
RuntimeStates == {"absent", "running", "stopping", "stopped"}

NoModelRow == [state |-> "absent", runtime |-> NoRuntime]
NoToolRow == [state |-> "absent", runtime |-> NoRuntime, cleanup |-> "not_required"]

TypeOK ==
    /\ work \in [Works -> WorkLifecycleSnapshot]
    /\ model \in [Works -> [Attempts -> ModelRow]]
    /\ tool \in [Works -> [Attempts -> ToolRow]]
    /\ runtime \in [Runtimes -> RuntimeStates]
    /\ answered \in SUBSET Works

Init ==
    /\ work = [w \in Works |-> Absent]
    /\ model = [w \in Works |-> [k \in Attempts |-> NoModelRow]]
    /\ tool = [w \in Works |-> [k \in Attempts |-> NoToolRow]]
    /\ runtime = [r \in Runtimes |-> "absent"]
    /\ answered = {}

-----------------------------------------------------------------------------
SetModel(w, k, row) == model' = [model EXCEPT ![w] = [model[w] EXCEPT ![k] = row]]
SetTool(w, k, row) == tool' = [tool EXCEPT ![w] = [tool[w] EXCEPT ![k] = row]]
SetRuntime(r, state) == runtime' = [runtime EXCEPT ![r] = state]

(* Operators named Faulty... are broken variants of the definition that      *)
(* follows them, one plausible bug each.  No specification uses them; they   *)
(* show which property would notice the bug.                                 *)

(* The version is not raised.                                                *)
FaultyGuardedWorkUpdate(w, e, q) ==
    /\ Matches(e, work[w])
    /\ DecideWorkTransition(e, q)
    /\ work' = [work EXCEPT ![w] = [NextSnapshot(e, q) EXCEPT !.version = e.version]]

(* guarded_work_update after decide_work_transition: the caller's            *)
(* expectation still matches the row, and the decided snapshot replaces it.  *)
GuardedWorkUpdate(w, e, q) ==
    /\ Matches(e, work[w])
    /\ DecideWorkTransition(e, q)
    /\ work' = [work EXCEPT ![w] = NextSnapshot(e, q)]

(* A cancelled work is queued again.                                         *)
FaultyAdmitMessage(w) ==
    /\ work[w].state \in {"absent", "cancelled"}
    /\ \A v \in Works : v < w => work[v].state # "absent"
    /\ work' = [work EXCEPT ![w] = InitialSnapshot]
    /\ UNCHANGED <<model, tool, runtime, answered>>

(* admit_canonical_message: the next work is queued.  Numbers follow the     *)
(* journal order of the work.queued events.                                  *)
AdmitMessage(w) ==
    /\ work[w].state = "absent"
    /\ \A v \in Works : v < w => work[v].state # "absent"
    /\ work' = [work EXCEPT ![w] = InitialSnapshot]
    /\ UNCHANGED <<model, tool, runtime, answered>>

(* A client's cancel command (cancellation_inner): decided on the row it     *)
(* reads in the same transaction.                                            *)
CancelCommand(w) ==
    /\ CancellationEffective(work[w])
    /\ GuardedWorkUpdate(w, work[w], DecideCancellation(work[w], "user_request"))
    /\ UNCHANGED <<model, tool, runtime, answered>>

(* request_owned_cancellation at shutdown: every running work the runtime    *)
(* owns is asked to stop, in one transaction.                                *)
OwnedCancellable(r) == {w \in Works : IsActive(work[w]) /\ work[w].owner = r
                                      /\ work[w].state # "cancel_requested"}

RequestOwnedCancellation(r) ==
    LET q == RequestCancellation("graceful_shutdown") IN
    /\ OwnedCancellable(r) # {}
    /\ \A w \in OwnedCancellable(r) : DecideWorkTransition(work[w], q)
    /\ work' = [w \in Works |-> IF w \in OwnedCancellable(r)
                                THEN NextSnapshot(work[w], q) ELSE work[w]]
    /\ UNCHANGED <<model, tool, runtime, answered>>

(* Any queued work is taken.                                                 *)
FaultyClaimable(w) ==
    /\ \A v \in Works : ~IsActive(work[v])
    /\ work[w].state = "queued"

(* claim_next: refused unless the runtime is running; nothing while any work *)
(* is active; otherwise the oldest of the conversations' queue heads.        *)
Claimable(w) ==
    /\ \A v \in Works : ~IsActive(work[v])
    /\ work[w].state = "queued"
    /\ \A v \in Works : v < w => work[v].state # "queued"

ClaimNext(r, w) ==
    /\ runtime[r] = "running"
    /\ Claimable(w)
    /\ GuardedWorkUpdate(w, work[w], Start(r))
    /\ UNCHANGED <<model, tool, runtime, answered>>

-----------------------------------------------------------------------------
(* begin_model: the attempt row and the work's wait are written together.    *)
BeginModel(w, e, k) ==
    /\ e.state = "running" /\ NoCurrentAttempt(e)
    /\ model[w][k].state = "absent"
    /\ GuardedWorkUpdate(w, e, WaitForModel(k))
    /\ SetModel(w, k, [state |-> "requesting", runtime |-> e.owner])
    /\ UNCHANGED <<tool, runtime, answered>>

(* mark_model_streaming touches the attempt row only.                        *)
MarkModelStreaming(w, k) ==
    /\ model[w][k].state = "requesting"
    /\ SetModel(w, k, [model[w][k] EXCEPT !.state = "streaming"])
    /\ UNCHANGED <<work, tool, runtime, answered>>

(* finish_model with validate_model_terminal: the attempt's outcome and the  *)
(* work's next state commit together.  Nothing ties the outcome to the next  *)
(* state except that a work asked to stop ends cancelled or interrupted.  An *)
(* outcome whose evidence contradicts it is not taken.                       *)
FinishModel(w, e, k, from, outcome, q) ==
    /\ e.state \in {"waiting_on_model", "cancel_requested"}
    /\ HasAttempt(e, "model", k)
    /\ outcome \in ModelTerminal /\ IsLegalModelPair(from, outcome)
    /\ NoCurrentAttempt(NextSnapshot(e, q))
    /\ e.state = "cancel_requested" => TargetState(q) \in {"cancelled", "interrupted"}
    /\ model[w][k] = [state |-> from, runtime |-> e.owner]
    /\ GuardedWorkUpdate(w, e, q)
    /\ SetModel(w, k, [state |-> outcome, runtime |-> e.owner])
    /\ UNCHANGED <<tool, runtime, answered>>

(* request_tool: the call comes from a completed model invocation of the     *)
(* same work and runtime.                                                    *)
RequestTool(w, e, k) ==
    /\ e.state = "running" /\ NoCurrentAttempt(e)
    /\ tool[w][k].state = "absent"
    /\ \E m \in Attempts : model[w][m] = [state |-> "completed", runtime |-> e.owner]
    /\ GuardedWorkUpdate(w, e, WaitForTool(k))
    /\ SetTool(w, k, [state |-> "requested", runtime |-> e.owner,
                       cleanup |-> "not_required"])
    /\ UNCHANGED <<model, runtime, answered>>

(* dispatch_tool compares the expectation with the tool row only; the work   *)
(* row is neither read nor updated.                                          *)
DispatchTool(w, e, k) ==
    /\ e.state = "waiting_on_tool" /\ HasAttempt(e, "tool", k)
    /\ tool[w][k].state = "requested" /\ tool[w][k].runtime = e.owner
    /\ SetTool(w, k, [tool[w][k] EXCEPT !.state = "dispatching"])
    /\ UNCHANGED <<work, model, runtime, answered>>

(* finish_tool.  decide_tool_transition must accept the observation; its     *)
(* decision is not compared with the outcome that is stored.                 *)
FinishTool(w, e, k, from, outcome, cleanup, q) ==
    /\ e.state \in {"waiting_on_tool", "cancel_requested"}
    /\ HasAttempt(e, "tool", k)
    /\ NoCurrentAttempt(NextSnapshot(e, q))
    /\ e.state = "waiting_on_tool" => TargetState(q) \in {"running", "interrupted"}
    /\ e.state = "cancel_requested" => TargetState(q) \in {"cancelled", "interrupted"}
    /\ outcome # "completed" => TargetState(q) = "interrupted"
    /\ DecideToolTerminal(from, outcome, cleanup)
    /\ outcome = "interrupted_before_dispatch" => cleanup = "not_required"
    /\ outcome = "outcome_unknown" => cleanup = "unconfirmed"
    /\ tool[w][k].state = from /\ tool[w][k].runtime = e.owner
    /\ GuardedWorkUpdate(w, e, q)
    /\ SetTool(w, k, [state |-> outcome, runtime |-> e.owner, cleanup |-> cleanup])
    /\ UNCHANGED <<model, runtime, answered>>

(* commit_assistant_completion: the answer and the terminal work state       *)
(* commit together, from a completed model invocation.                       *)
CommitAssistantCompletion(w, e) ==
    /\ e.state = "running" /\ NoCurrentAttempt(e)
    /\ \E m \in Attempts : model[w][m] = [state |-> "completed", runtime |-> e.owner]
    /\ w \notin answered
    /\ GuardedWorkUpdate(w, e, Complete)
    /\ answered' = answered \cup {w}
    /\ UNCHANGED <<model, tool, runtime>>

(* terminalize_owned_work, as fail_snapshot calls it: a running work fails.  *)
TerminalizeOwnedWork(w, e) ==
    /\ e.state = "running"
    /\ GuardedWorkUpdate(w, e, Fail)
    /\ UNCHANGED <<model, tool, runtime, answered>>

(* terminalize_work: decided on the row as it is now, for its owner.         *)
TerminalizeWork(w, r, q) ==
    /\ work[w].owner = r
    /\ GuardedWorkUpdate(w, work[w], q)
    /\ UNCHANGED <<model, tool, runtime, answered>>

(* The first transactions of finish_cancellation and interrupt_owned_work:   *)
(* what they require before terminalize_work runs in a second one.           *)
CancellationFinishable(w, r) ==
    /\ work[w].owner = r
    /\ work[w].state = "cancel_requested"
    /\ NoCurrentAttempt(work[w])

Interruptible(w, r) ==
    /\ IsActive(work[w])
    /\ work[w].owner = r
    /\ NoCurrentAttempt(work[w])

-----------------------------------------------------------------------------
(* What the services ask finish_model and finish_tool to record.             *)

(* finish_completed_attempt and finish_failed_attempt: an ambiguous outcome  *)
(* interrupts; a confirmed one cancels a work asked to stop.  Two outcomes   *)
(* are built that validate_model_terminal refuses (unstorable): a completed  *)
(* response without an output item has no first_output_at, and a connection  *)
(* lost after output is provider_outcome_unknown with another certainty.     *)
ModelEvidence == {"completed", "failed", "cancelled", "unknown", "unstorable"}

ModelOutcome(evidence) ==
    CASE evidence = "completed" -> "completed"
      [] evidence = "failed"    -> "failed"
      [] evidence = "cancelled" -> "cancelled_locally"
      [] evidence = "unknown"   -> "provider_outcome_unknown"
      [] OTHER                  -> "unstorable"

(* An ambiguous provider outcome is treated like a failed attempt.           *)
FaultyModelWorkNext(e, k, evidence) ==
    IF e.state = "cancel_requested" THEN Cancel(e.cancel, "confirmed")
    ELSE ResumeFromModel(k)

(* A cancellation is granted before the provider's outcome is looked at.     *)
EagerModelWorkNext(e, k, evidence) ==
    IF e.state = "cancel_requested" THEN Cancel(e.cancel, "confirmed")
    ELSE IF evidence = "unknown" THEN Interrupt("provider_outcome_unknown")
    ELSE ResumeFromModel(k)

ModelWorkNext(e, k, evidence) ==
    IF evidence = "unknown" THEN Interrupt("provider_outcome_unknown")
    ELSE IF e.state = "cancel_requested" /\ evidence \in {"completed", "cancelled"}
    THEN Cancel(e.cancel, "confirmed")
    ELSE ResumeFromModel(k)

(* terminal_work_next, with the cleanup each finishing path reports.         *)
ToolEvidence == {"completed", "unknown"}

ToolOutcome(evidence) == IF evidence = "unknown" THEN "outcome_unknown" ELSE "completed"

ToolCleanup(evidence, from) ==
    IF evidence = "unknown" THEN {"unconfirmed"}
    ELSE IF from = "requested" THEN {"not_required"} ELSE {"not_required", "confirmed"}

ToolWorkNext(e, k, evidence) ==
    IF evidence = "unknown" THEN Interrupt("tool_outcome_unknown")
    ELSE IF e.state = "cancel_requested" THEN Cancel(e.cancel, "confirmed")
    ELSE ResumeFromTool(k)

-----------------------------------------------------------------------------
(* Runtime rows.                                                             *)
CreateRuntime(r) ==
    /\ runtime[r] = "absent"
    /\ SetRuntime(r, "running")
    /\ UNCHANGED <<work, model, tool, answered>>

BeginRuntimeStopping(r) ==
    /\ runtime[r] = "running"
    /\ SetRuntime(r, "stopping")
    /\ UNCHANGED <<work, model, tool, answered>>

(* finish_runtime(graceful): nothing here looks for work the runtime still   *)
(* owns; the shutdown controller must have accounted for it.                 *)
FinishRuntimeGraceful(r) ==
    /\ runtime[r] = "stopping"
    /\ SetRuntime(r, "stopped")
    /\ UNCHANGED <<work, model, tool, answered>>

(* mark_runtime_startup_failure, called when bootstrap recovery fails.       *)
MarkRuntimeStartupFailure(r) ==
    /\ runtime[r] \in {"running", "stopping"}
    /\ SetRuntime(r, "stopped")
    /\ UNCHANGED <<work, model, tool, answered>>

(* recover_work_unit, for startup recovery of a stale runtime and for the    *)
(* shutdown classification of the current one.  The state of the attempt     *)
(* the work waits for decides what can still be said about it.               *)
CurrentRow(w) ==
    LET s == work[w] IN
    CASE s.kind = "model" -> model[w][s.attempt].state
      [] s.kind = "tool"  -> tool[w][s.attempt].state
      [] OTHER            -> "none"

CurrentCleanup(w) ==
    IF work[w].kind = "tool" THEN tool[w][work[w].attempt].cleanup ELSE "not_required"

(* A tool that was never dispatched counts as possibly run.                  *)
FaultyRecoveredRow(state) ==
    CASE state \in ModelLive                    -> "provider_outcome_unknown"
      [] state \in {"requested", "dispatching"} -> "outcome_unknown"
      [] OTHER                                  -> state

RecoveredRow(state) ==
    CASE state \in ModelLive   -> "provider_outcome_unknown"
      [] state = "requested"   -> "interrupted_before_dispatch"
      [] state = "dispatching" -> "outcome_unknown"
      [] OTHER                 -> state

RecoveryReason(w) ==
    LET row == RecoveredRow(CurrentRow(w)) IN
    CASE row = "provider_outcome_unknown"    -> "provider_outcome_unknown"
      [] row = "interrupted_before_dispatch" -> "tool_interrupted_before_dispatch"
      [] row = "outcome_unknown"             -> "tool_outcome_unknown"
      [] OTHER -> IF work[w].kind = "tool" /\ CurrentCleanup(w) = "unconfirmed"
                  THEN "cleanup_unconfirmed" ELSE "runtime_ownership_lost"

RecoveryRequest(w) ==
    IF work[w].state = "cancel_requested" /\ RecoveryReason(w) = "runtime_ownership_lost"
    THEN Cancel(work[w].cancel, "not_required")
    ELSE Interrupt(RecoveryReason(w))

RecoverWorkUnit(w, stale) ==
    LET s == work[w]
        k == s.attempt
    IN
    /\ IsActive(s) /\ s.owner = stale
    /\ s.kind = "model" => model[w][k].runtime = stale
    /\ s.kind = "tool" => tool[w][k].runtime = stale
    /\ GuardedWorkUpdate(w, s, RecoveryRequest(w))
    /\ IF s.kind = "model"
       THEN SetModel(w, k, [state |-> RecoveredRow(model[w][k].state), runtime |-> stale])
       ELSE UNCHANGED model
    /\ IF s.kind = "tool"
       THEN SetTool(w, k, [state |-> RecoveredRow(tool[w][k].state), runtime |-> stale,
                           cleanup |-> IF tool[w][k].state = "dispatching"
                                       THEN "unconfirmed" ELSE tool[w][k].cleanup])
       ELSE UNCHANGED tool
    /\ UNCHANGED <<runtime, answered>>

(* The last transaction of recover_stale_runtime.                            *)
CloseStaleRuntime(r) ==
    /\ runtime[r] \in {"running", "stopping"}
    /\ \A w \in Works : ~(IsActive(work[w]) /\ work[w].owner = r)
    /\ SetRuntime(r, "stopped")
    /\ UNCHANGED <<work, model, tool, answered>>

-----------------------------------------------------------------------------
AttemptStep(w, k) ==
    \/ BeginModel(w, work[w], k)
    \/ MarkModelStreaming(w, k)
    \/ \E evidence \in ModelEvidence :
           FinishModel(w, work[w], k, model[w][k].state, ModelOutcome(evidence),
                       ModelWorkNext(work[w], k, evidence))
    \/ RequestTool(w, work[w], k)
    \/ DispatchTool(w, [work[w] EXCEPT !.state = "waiting_on_tool"], k)
    \/ \E evidence \in ToolEvidence :
       \E cleanup \in ToolCleanup(evidence, tool[w][k].state) :
           FinishTool(w, work[w], k, tool[w][k].state, ToolOutcome(evidence), cleanup,
                      ToolWorkNext(work[w], k, evidence))

WorkStep(w) ==
    \/ AdmitMessage(w)
    \/ CancelCommand(w)
    \/ CommitAssistantCompletion(w, work[w])
    \/ TerminalizeOwnedWork(w, work[w])

OwnerStep(w, r) ==
    \/ ClaimNext(r, w)
    \/ CancellationFinishable(w, r)
       /\ TerminalizeWork(w, r, Cancel(work[w].cancel, "not_required"))
    \/ Interruptible(w, r)
       /\ TerminalizeWork(w, r, Interrupt("runtime_ownership_lost"))
    \/ RecoverWorkUnit(w, r)

RuntimeStep(r) ==
    \/ CreateRuntime(r)
    \/ BeginRuntimeStopping(r)
    \/ FinishRuntimeGraceful(r)
    \/ MarkRuntimeStartupFailure(r)
    \/ CloseStaleRuntime(r)
    \/ RequestOwnedCancellation(r)

Next ==
    \/ \E w \in Works : WorkStep(w)
    \/ \E w \in Works, k \in Attempts : AttemptStep(w, k)
    \/ \E w \in Works, r \in Runtimes : OwnerStep(w, r)
    \/ \E r \in Runtimes : RuntimeStep(r)

Spec == Init /\ [][Next]_storeVars

-----------------------------------------------------------------------------
(* Each work row that exists has a legal shape, and at most one work is      *)
(* active: the one-active index of the schema and the durable gate inside    *)
(* claim_next, for claims racing cancellations and recovery.                 *)
WorkShapes == \A w \in Works : work[w] = Absent \/ ValidWorkShape(work[w])

SingleActiveWork ==
    \A v, w \in Works : IsActive(work[v]) /\ IsActive(work[w]) => v = w

(* A live attempt row (requesting, streaming, requested, dispatching) is     *)
(* exactly the attempt its work is waiting for, under the same runtime, and  *)
(* a work never waits for an attempt that has ended.  This is what           *)
(* verify_nonterminal_attempt_ownership and the partial unique indexes rely  *)
(* on when a runtime is recovered.                                           *)
AttemptsOwned ==
    \A w \in Works, k \in Attempts :
        /\ model[w][k].state \in ModelLive <=>
               IsActive(work[w]) /\ HasAttempt(work[w], "model", k)
        /\ model[w][k].state \in ModelLive => model[w][k].runtime = work[w].owner
        /\ tool[w][k].state \in ToolLive <=>
               IsActive(work[w]) /\ HasAttempt(work[w], "tool", k)
        /\ tool[w][k].state \in ToolLive => tool[w][k].runtime = work[w].owner

(* An attempt whose outcome is unknown, or that recovery stopped before its  *)
(* dispatch, ends its work as interrupted: the work neither continues,       *)
(* retries, completes nor is reported cancelled.                             *)
UnknownOutcomesInterrupt ==
    \A w \in Works, k \in Attempts :
        \/ model[w][k].state = "provider_outcome_unknown"
        \/ tool[w][k].state \in {"interrupted_before_dispatch", "outcome_unknown"}
        => work[w].state = "interrupted"

(* Cleanup is recorded as unconfirmed only together with an unknown outcome. *)
UnconfirmedIsUnknown ==
    \A w \in Works, k \in Attempts :
        tool[w][k].cleanup = "unconfirmed" => tool[w][k].state = "outcome_unknown"

(* A cancelled work left nothing behind: every attempt it made has ended     *)
(* with a definite outcome, and no tool cleanup is unconfirmed               *)
(* (docs/protocol.md:51).                                                    *)
CancelledMeansSettled ==
    \A w \in Works : work[w].state = "cancelled" =>
        \A k \in Attempts :
            /\ model[w][k].state \in {"absent", "completed", "failed", "cancelled_locally"}
            /\ tool[w][k].state \in {"absent", "completed"}
            /\ tool[w][k].cleanup # "unconfirmed"

(* A work has produced its assistant message exactly when it is completed:   *)
(* the message and the terminal state commit in one transaction, and no      *)
(* other path reaches completed.                                             *)
AnsweredIffCompleted ==
    \A w \in Works : w \in answered <=> work[w].state = "completed"

(* The inductive invariant.                                                  *)
StoreInvariant ==
    /\ TypeOK
    /\ WorkShapes
    /\ SingleActiveWork
    /\ AttemptsOwned
    /\ UnknownOutcomesInterrupt
    /\ UnconfirmedIsUnknown
    /\ AnsweredIffCompleted

(* recover_work_unit, written in the store, does to every reachable active   *)
(* work what the domain's classify_recovery says should be done to it: the   *)
(* same classification, the same status and the same attempt row.            *)
RecoveryAgreesWithPolicy ==
    \A w \in Works : IsActive(work[w]) =>
        LET s == work[w]
            row == CurrentRow(w)
            d == ClassifyRecovery(s, row, CurrentCleanup(w))
            next == NextSnapshot(s, RecoveryRequest(w))
        IN
        /\ d.classification \notin
               {"contradictory", "reconcile_committed_tool_result_without_execution"}
        /\ IF d.classification = "finalize_cancellation"
           THEN next.state = "cancelled" /\ next.reason = s.cancel
           ELSE next.state = "interrupted" /\ next.reason = d.status
        /\ d.classification = "mark_model_provider_outcome_unknown_and_interrupt"
               <=> RecoveredRow(row) = "provider_outcome_unknown" /\ row \in ModelLive
        /\ d.classification = "mark_tool_interrupted_before_dispatch_and_interrupt"
               <=> RecoveredRow(row) = "interrupted_before_dispatch" /\ row = "requested"
        /\ d.classification = "mark_tool_outcome_unknown_and_interrupt"
               <=> RecoveredRow(row) = "outcome_unknown" /\ row = "dispatching"

(* Ownership is never taken over: while a work is active its owner does not  *)
(* change, and every change of a work row raises its version by one, so a    *)
(* compare-and-swap can never succeed on a row that changed and changed      *)
(* back.                                                                     *)
OwnershipNeverTransferred ==
    [][\A w \in Works : work'[w] # work[w] =>
           /\ work'[w].version = work[w].version + 1
           /\ IsActive(work[w]) /\ IsActive(work'[w]) => work'[w].owner = work[w].owner]_storeVars

(* claim_next serves the queue in admission order: a work does not start     *)
(* while one admitted before it is still queued.                             *)
FirstComeFirstServed ==
    [][\A v, w \in Works :
           v < w /\ work[v].state = "queued" /\ work[w].state = "queued"
               /\ work'[w].state = "running"
           => work'[v].state # "queued"]_storeVars

(* The store implements the client-visible contract.                         *)
PublicStatus(s) ==
    CASE s.state \in {"running", "waiting_on_model", "waiting_on_tool"} -> "working"
      [] s.state = "cancel_requested" -> "cancelling"
      [] OTHER -> s.state

Contract == INSTANCE WorkContract WITH status <- [w \in Works |-> PublicStatus(work[w])]

ImplementsContract == Contract!Spec
=============================================================================
