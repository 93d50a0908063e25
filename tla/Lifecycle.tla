------------------------------ MODULE Lifecycle ------------------------------
(***************************************************************************)
(* The pure lifecycle rules of backend/src/domain/lifecycle.rs: the Work   *)
(* snapshot, its legal shapes and transitions, the attempt state machines  *)
(* of model invocations and tool executions, and the startup recovery      *)
(* policy.  Nothing here has state; the store and the engine apply these   *)
(* operators inside their transactions.                                    *)
(***************************************************************************)
EXTENDS Integers

CONSTANTS
    MaxWork,      \* works admitted in a behaviour
    Runtimes,     \* runtime instance ids, one per process incarnation
    NoRuntime,    \* Option::None for a runtime owner
    MaxAttempts,  \* model (and tool) attempt ids per work
    MaxVersion    \* the largest ProjectionVersion (i64::MAX in the code)

ASSUME ConstantsOK ==
    /\ MaxWork \in Nat
    /\ NoRuntime \notin Runtimes
    /\ MaxAttempts \in Nat
    /\ MaxVersion \in Nat \ {0}

Works == 1 .. MaxWork
Attempts == 1 .. MaxAttempts
NoAttempt == 0

ActiveStates == {"running", "waiting_on_model", "waiting_on_tool", "cancel_requested"}
TerminalStates == {"completed", "failed", "cancelled", "interrupted"}
WorkStates == {"queued"} \cup ActiveStates \cup TerminalStates

CancellationReasons == {"user_request", "graceful_shutdown"}
InterruptionReasons ==
    {"runtime_ownership_lost", "provider_outcome_unknown",
     "tool_interrupted_before_dispatch", "tool_outcome_unknown", "cleanup_unconfirmed"}
(* Completion and failure reasons are payload no property tells apart: one  *)
(* value stands for each class.                                            *)
CompletionReasons == {"completion"}
FailureReasons == {"failure"}
TerminalReasons ==
    CancellationReasons \cup InterruptionReasons \cup CompletionReasons \cup FailureReasons

CleanupStatus == {"not_required", "confirmed", "unconfirmed"}
AttemptKinds == {"none", "model", "tool"}

-----------------------------------------------------------------------------
(* WorkLifecycleSnapshot.  `kind` and `attempt` together are the code's     *)
(* CurrentWorkAttempt; the state "absent" marks a row that does not exist.  *)
WorkLifecycleSnapshot ==
    [state   : WorkStates \cup {"absent"},
     version : 0 .. MaxVersion,
     owner   : Runtimes \cup {NoRuntime},
     kind    : AttemptKinds,
     attempt : Attempts \cup {NoAttempt},
     cancel  : CancellationReasons \cup {"none"},
     reason  : TerminalReasons \cup {"none"}]

Absent ==
    [state |-> "absent", version |-> 0, owner |-> NoRuntime, kind |-> "none",
     attempt |-> NoAttempt, cancel |-> "none", reason |-> "none"]

InitialSnapshot ==
    [state |-> "queued", version |-> 1, owner |-> NoRuntime, kind |-> "none",
     attempt |-> NoAttempt, cancel |-> "none", reason |-> "none"]

IsActive(s) == s.state \in ActiveStates
IsTerminal(s) == s.state \in TerminalStates
HasAttempt(s, kind, k) == s.kind = kind /\ s.attempt = k
NoCurrentAttempt(s) == s.kind = "none" /\ s.attempt = NoAttempt

ReasonClass(state) ==
    CASE state = "completed"   -> CompletionReasons
      [] state = "failed"      -> FailureReasons
      [] state = "cancelled"   -> CancellationReasons
      [] state = "interrupted" -> InterruptionReasons
      [] OTHER                 -> {"none"}

(* Which attempt, owner and reasons each state may carry.                   *)
ValidWorkShape(s) ==
    /\ s.state \in WorkStates
    /\ (s.owner \in Runtimes) <=> IsActive(s)
    /\ (s.cancel # "none") <=> s.state = "cancel_requested"
    /\ s.reason \in ReasonClass(s.state)
    /\ CASE s.state = "waiting_on_model" -> s.kind = "model" /\ s.attempt \in Attempts
         [] s.state = "waiting_on_tool"  -> s.kind = "tool" /\ s.attempt \in Attempts
         [] s.state = "cancel_requested" ->
                \/ NoCurrentAttempt(s)
                \/ s.kind \in {"model", "tool"} /\ s.attempt \in Attempts
         [] OTHER -> NoCurrentAttempt(s)

-----------------------------------------------------------------------------
(* WorkTransitionRequest: one constructor per variant.                      *)
Request(op, owner, k, reason, cleanup) ==
    [op |-> op, owner |-> owner, attempt |-> k, reason |-> reason, cleanup |-> cleanup]

Start(r) == Request("start", r, NoAttempt, "none", "not_required")
WaitForModel(k) == Request("wait_for_model", NoRuntime, k, "none", "not_required")
ResumeFromModel(k) == Request("resume_from_model", NoRuntime, k, "none", "not_required")
WaitForTool(k) == Request("wait_for_tool", NoRuntime, k, "none", "not_required")
ResumeFromTool(k) == Request("resume_from_tool", NoRuntime, k, "none", "not_required")
RequestCancellation(reason) ==
    Request("request_cancellation", NoRuntime, NoAttempt, reason, "not_required")
Complete == Request("complete", NoRuntime, NoAttempt, "completion", "not_required")
Fail == Request("fail", NoRuntime, NoAttempt, "failure", "not_required")
Cancel(reason, cleanup) == Request("cancel", NoRuntime, NoAttempt, reason, cleanup)
Interrupt(reason) == Request("interrupt", NoRuntime, NoAttempt, reason, "not_required")

TargetState(q) ==
    CASE q.op \in {"start", "resume_from_model", "resume_from_tool"} -> "running"
      [] q.op = "wait_for_model"       -> "waiting_on_model"
      [] q.op = "wait_for_tool"        -> "waiting_on_tool"
      [] q.op = "request_cancellation" -> "cancel_requested"
      [] q.op = "complete"             -> "completed"
      [] q.op = "fail"                 -> "failed"
      [] q.op = "cancel"               -> "cancelled"
      [] q.op = "interrupt"            -> "interrupted"

IsLegalWorkPair(from, to) ==
    <<from, to>> \in
        {<<"queued", "running">>, <<"queued", "cancelled">>,
         <<"running", "waiting_on_model">>, <<"waiting_on_model", "running">>,
         <<"waiting_on_model", "failed">>,
         <<"running", "waiting_on_tool">>, <<"waiting_on_tool", "running">>,
         <<"running", "cancel_requested">>, <<"waiting_on_model", "cancel_requested">>,
         <<"waiting_on_tool", "cancel_requested">>,
         <<"running", "completed">>, <<"running", "failed">>,
         <<"running", "interrupted">>, <<"waiting_on_model", "interrupted">>,
         <<"waiting_on_tool", "interrupted">>,
         <<"cancel_requested", "cancelled">>, <<"cancel_requested", "interrupted">>}

(* The evidence a request must bring (the early returns of                  *)
(* transition_fields).                                                      *)
EvidenceSatisfied(s, q) ==
    /\ q.op = "resume_from_model" => HasAttempt(s, "model", q.attempt)
    /\ q.op = "resume_from_tool" => HasAttempt(s, "tool", q.attempt)
    /\ q.op \in {"fail", "cancel"} => q.cleanup # "unconfirmed"
    /\ q.op = "cancel" /\ s.state = "queued" => q.cleanup = "not_required"
    /\ q.op = "cancel" /\ s.state = "cancel_requested" => q.reason = s.cancel

(* The fields of the next snapshot (transition_fields): a terminal state    *)
(* gives up owner, attempt and cancellation reason.                         *)
NextSnapshot(s, q) ==
    LET to == TargetState(q) IN
    [state   |-> to,
     version |-> s.version + 1,
     owner   |-> IF q.op = "start" THEN q.owner
                 ELSE IF to \in TerminalStates THEN NoRuntime ELSE s.owner,
     kind    |-> CASE q.op = "wait_for_model"       -> "model"
                   [] q.op = "wait_for_tool"        -> "tool"
                   [] q.op = "request_cancellation" -> s.kind
                   [] OTHER                         -> "none",
     attempt |-> CASE q.op \in {"wait_for_model", "wait_for_tool"} -> q.attempt
                   [] q.op = "request_cancellation"                -> s.attempt
                   [] OTHER                                        -> NoAttempt,
     cancel  |-> IF q.op = "request_cancellation" THEN q.reason ELSE "none",
     reason  |-> IF to \in TerminalStates THEN q.reason ELSE "none"]

(* decide_work_transition returns Ok exactly when this holds, and then       *)
(* NextSnapshot is the decided projection.                                   *)
DecideWorkTransition(s, q) ==
    /\ ValidWorkShape(s)
    /\ ~IsTerminal(s)
    /\ IsLegalWorkPair(s.state, TargetState(q))
    /\ s.version < MaxVersion
    /\ EvidenceSatisfied(s, q)
    /\ ValidWorkShape(NextSnapshot(s, q))

(* check_guard and the WHERE clause of guarded_work_update: state, version,  *)
(* owner and current attempt of the expectation equal those of the row.      *)
Matches(expected, row) ==
    /\ expected.state = row.state
    /\ expected.version = row.version
    /\ expected.owner = row.owner
    /\ expected.kind = row.kind
    /\ expected.attempt = row.attempt

-----------------------------------------------------------------------------
(* Model invocations and tool executions.                                    *)
ModelLive == {"requesting", "streaming"}
ModelTerminal == {"completed", "failed", "cancelled_locally", "provider_outcome_unknown"}
ModelStates == ModelLive \cup ModelTerminal

ToolLive == {"requested", "dispatching"}
ToolTerminal == {"completed", "interrupted_before_dispatch", "outcome_unknown"}
ToolStates == ToolLive \cup ToolTerminal

IsLegalModelPair(from, to) ==
    \/ from = "requesting" /\ to = "streaming"
    \/ from \in ModelLive /\ to \in ModelTerminal

IsLegalToolPair(from, to) ==
    <<from, to>> \in
        {<<"requested", "dispatching">>, <<"requested", "completed">>,
         <<"requested", "interrupted_before_dispatch">>,
         <<"dispatching", "completed">>, <<"dispatching", "outcome_unknown">>}

(* decide_tool_transition for a terminal target: before dispatch nothing     *)
(* ran, so no cleanup may be claimed.  Complete with unconfirmed cleanup     *)
(* after dispatch is an accepted request whose decision is outcome_unknown.  *)
(* The result class is left out, and with it the checks that a class is      *)
(* allowed before dispatch or comes with a confirmed cleanup.                *)
DecideToolTerminal(from, to, cleanup) ==
    IF to = "completed"
    THEN \/ from = "requested" /\ cleanup = "not_required"
         \/ from = "dispatching"
    ELSE to \in ToolTerminal /\ IsLegalToolPair(from, to)

(* decide_cancellation on a work that is queued or active: a queued work is  *)
(* cancelled at once, a running one is only asked to stop, and a repeated    *)
(* request changes nothing.                                                  *)
CancellationEffective(s) ==
    s.state \in {"queued", "running", "waiting_on_model", "waiting_on_tool"}

DecideCancellation(s, reason) ==
    IF s.state = "queued" THEN Cancel(reason, "not_required")
                          ELSE RequestCancellation(reason)

(* ensure_work_progression_allowed for DispatchTool.                         *)
DispatchAllowed(s) == s.state = "waiting_on_tool"

-----------------------------------------------------------------------------
(* The startup recovery policy, classify_recovery: a pure function of the    *)
(* work snapshot, the state of its current attempt ("none" without one) and  *)
(* the cleanup status, with a classification and a synthetic status.  The    *)
(* service never runs it; it is the reference recover_work_unit is compared  *)
(* with.                                                                     *)
RecoveryDecision(classification, status) ==
    [classification |-> classification, status |-> status]

Contradictory == RecoveryDecision("contradictory", "none")
InterruptActive(status) == RecoveryDecision("interrupt_active_work", status)

ClassifyModelRecovery(row) ==
    CASE row \in ModelLive ->
             RecoveryDecision("mark_model_provider_outcome_unknown_and_interrupt",
                              "provider_outcome_unknown")
      [] row = "provider_outcome_unknown" -> InterruptActive("provider_outcome_unknown")
      [] row \in {"completed", "failed", "cancelled_locally"} ->
             InterruptActive("runtime_ownership_lost")
      [] OTHER -> Contradictory

ClassifyToolRecovery(row) ==
    CASE row = "requested" ->
             RecoveryDecision("mark_tool_interrupted_before_dispatch_and_interrupt",
                              "tool_interrupted_before_dispatch")
      [] row = "dispatching" ->
             RecoveryDecision("mark_tool_outcome_unknown_and_interrupt",
                              "tool_outcome_unknown")
      [] row = "completed" ->
             RecoveryDecision("reconcile_committed_tool_result_without_execution", "none")
      [] row = "interrupted_before_dispatch" ->
             InterruptActive("tool_interrupted_before_dispatch")
      [] row = "outcome_unknown" -> InterruptActive("tool_outcome_unknown")
      [] OTHER -> Contradictory

ClassifyCancelRecovery(kind, row, cleanup) ==
    CASE kind = "model" /\ row \in ModelLive \cup {"provider_outcome_unknown"} ->
             ClassifyModelRecovery(row)
      [] kind = "tool" /\ row # "completed" -> ClassifyToolRecovery(row)
      [] cleanup = "unconfirmed" -> InterruptActive("cleanup_unconfirmed")
      [] OTHER -> RecoveryDecision("finalize_cancellation", "none")

(* classify_recovery of a work some other runtime owns; asked about a work   *)
(* of the current runtime it answers StaleOwner, which no caller meets.      *)
ClassifyRecovery(s, row, cleanup) ==
    CASE s.state = "queued"           -> RecoveryDecision("retain_queued", "none")
      [] IsTerminal(s)                -> RecoveryDecision("already_terminal", "none")
      [] s.state = "running"          -> InterruptActive("runtime_ownership_lost")
      [] s.state = "waiting_on_model" -> ClassifyModelRecovery(row)
      [] s.state = "waiting_on_tool"  -> ClassifyToolRecovery(row)
      [] s.state = "cancel_requested" -> ClassifyCancelRecovery(s.kind, row, cleanup)
      [] OTHER                        -> Contradictory
=============================================================================
