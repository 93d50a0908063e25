------------------------- MODULE WorkContractProofs -------------------------
(***************************************************************************)
(* How a work row can change in one step of WorkStore (WorkChange), and    *)
(* what follows: ownership is kept, the queue is served in order, and      *)
(* WorkStore implements WorkContract.                                      *)
(***************************************************************************)
EXTENDS WorkStoreProofs

(* A change of a work row, seen from outside: it is an admission, or one of  *)
(* the legal pairs that raises the version, keeps the owner and starts only   *)
(* what claim_next may claim.                                                 *)
Transition(w, n) ==
    /\ IsLegalWorkPair(work[w].state, n.state)
    /\ n.version = work[w].version + 1
    /\ IsActive(work[w]) /\ IsActive(n) => n.owner = work[w].owner
    /\ work[w].state = "queued" /\ n.state = "running" => Claimable(w)

Admission(w, n) == work[w] = Absent /\ n = InitialSnapshot

WorkChange(w) ==
    \E n : /\ work' = [work EXCEPT ![w] = n]
           /\ Admission(w, n) \/ Transition(w, n)

(* decide_work_transition only allows transitions, for any request but Start. *)
LEMMA DecidedTransition ==
    ASSUME StoreInvariant, NEW w \in Works, NEW q,
           q.op \in {"wait_for_model", "resume_from_model", "wait_for_tool",
                     "resume_from_tool", "request_cancellation", "complete", "fail",
                     "cancel", "interrupt"},
           GuardedWorkUpdate(w, work[w], q)
    PROVE  WorkChange(w)
  <1> DEFINE s == work[w]
             n == NextSnapshot(s, q)
  <1>1. work' = [work EXCEPT ![w] = n] /\ DecideWorkTransition(s, q)
    BY DEF GuardedWorkUpdate
  <1>2. n.state = TargetState(q) /\ n.version = s.version + 1
    BY DEF NextSnapshot
  <1>3. IsLegalWorkPair(s.state, n.state)
    BY <1>1, <1>2 DEF DecideWorkTransition
  <1>4. IsActive(n) => n.owner = s.owner
    <2>1. IsActive(n) => TargetState(q) \notin TerminalStates
      BY <1>2 DEF IsActive, ActiveStates, TerminalStates
    <2> QED
      BY <2>1 DEF NextSnapshot
  <1>5. ~(s.state = "queued" /\ n.state = "running")
    <2> SUFFICES ASSUME s.state = "queued", TargetState(q) = "running" PROVE FALSE
      BY <1>2
    <2>1. q.op \in {"resume_from_model", "resume_from_tool"}
      BY DEF TargetState
    <2>2. s.kind # "none"
      BY <1>1, <2>1 DEF DecideWorkTransition, EvidenceSatisfied, HasAttempt
    <2>3. NoCurrentAttempt(s)
      BY <1>1, RowsOf, ShapeFacts DEF DecideWorkTransition
    <2> QED
      BY <2>2, <2>3 DEF NoCurrentAttempt
  <1> HIDE DEF n
  <1> QED
    BY <1>1, <1>2, <1>3, <1>4, <1>5, ZenonT(60) DEF WorkChange, Transition

(* ... and claim_next starts a claimable work.                                *)
LEMMA ClaimTransition ==
    ASSUME StoreInvariant, NEW w \in Works, NEW r \in Runtimes, ClaimNext(r, w)
    PROVE  WorkChange(w)
  <1> DEFINE n == NextSnapshot(work[w], Start(r))
  <1>1. work' = [work EXCEPT ![w] = n] /\ DecideWorkTransition(work[w], Start(r))
        /\ Claimable(w) /\ work[w].state = "queued"
    BY DEF ClaimNext, GuardedWorkUpdate, Claimable
  <1>2. n.state = "running" /\ n.version = work[w].version + 1
    BY NextStart
  <1>3. IsLegalWorkPair("queued", "running") /\ ~IsActive(work[w])
    BY <1>1 DEF IsLegalWorkPair, IsActive, ActiveStates
  <1> HIDE DEF n
  <1> QED
    BY <1>1, <1>2, <1>3, ZenonT(60) DEF WorkChange, Transition

(* RequestCancellation belongs to the requests above.                         *)
LEMMA AskToStopOp == \A reason : RequestCancellation(reason).op = "request_cancellation"
  BY DEF RequestCancellation, Request

(* Shutdown asks at most one work to stop, since at most one is active.       *)
LEMMA OwnedCancellationTransition ==
    ASSUME StoreInvariant, NEW r \in Runtimes, RequestOwnedCancellation(r)
    PROVE  \E w \in Works : WorkChange(w)
  <1> DEFINE q == RequestCancellation("graceful_shutdown")
  <1>1. PICK w \in Works : w \in OwnedCancellable(r)
    BY DEF RequestOwnedCancellation, OwnedCancellable
  <1>2. OwnedCancellable(r) = {w}
    BY <1>1 DEF OwnedCancellable, StoreInvariant, SingleActiveWork
  <1>3. work' = [work EXCEPT ![w] = NextSnapshot(work[w], q)]
    BY <1>2, ZenonT(60) DEF RequestOwnedCancellation, StoreInvariant, TypeOK
  <1>4. DecideWorkTransition(work[w], q)
    BY <1>1 DEF RequestOwnedCancellation
  <1>5. GuardedWorkUpdate(w, work[w], q)
    BY <1>3, <1>4 DEF GuardedWorkUpdate, Matches
  <1>6. WorkChange(w)
    <2>1. q.op = "request_cancellation"
      BY AskToStopOp
    <2> HIDE DEF q
    <2> QED
      BY <1>5, <2>1, DecidedTransition
  <1> QED
    BY <1>6

(* Every step changes at most one work, by an admission or a transition.      *)
LEMMA NextChanges ==
    ASSUME StoreInvariant, Next
    PROVE  work' = work \/ \E w \in Works : WorkChange(w)
  <1>1. ASSUME NEW w \in Works, WorkStep(w) PROVE WorkChange(w)
    <2>1. CASE AdmitMessage(w)
      <3>1. work[w].state = "absent" /\ "absent" \notin WorkStates
        BY <2>1 DEF AdmitMessage, WorkStates, ActiveStates, TerminalStates
      <3>2. work[w] = Absent
        BY <3>1, RowsOf, ShapeFacts DEF WorkInvariant
      <3> QED
        BY <2>1, <3>2, ZenonT(60) DEF AdmitMessage, WorkChange, Admission
    <2>2. CASE CancelCommand(w)
      <3>1. DecideCancellation(work[w], "user_request").op \in {"cancel", "request_cancellation"}
        BY RequestOps, AskToStopOp DEF DecideCancellation
      <3> QED
        BY <2>2, <3>1, DecidedTransition DEF CancelCommand
    <2>3. CASE CommitAssistantCompletion(w, work[w])
      BY <2>3, RequestOps, DecidedTransition DEF CommitAssistantCompletion
    <2>4. CASE TerminalizeOwnedWork(w, work[w])
      BY <2>4, RequestOps, DecidedTransition DEF TerminalizeOwnedWork
    <2> QED
      BY <1>1, <2>1, <2>2, <2>3, <2>4 DEF WorkStep
  <1>2. ASSUME NEW w \in Works, NEW k \in Attempts, AttemptStep(w, k)
        PROVE  work' = work \/ WorkChange(w)
    <2>1. CASE BeginModel(w, work[w], k)
      BY <2>1, RequestOps, DecidedTransition DEF BeginModel
    <2>2. CASE \E evidence \in ModelEvidence :
                   FinishModel(w, work[w], k, model[w][k].state, ModelOutcome(evidence),
                               ModelWorkNext(work[w], k, evidence))
      <3>1. PICK evidence \in ModelEvidence :
                GuardedWorkUpdate(w, work[w], ModelWorkNext(work[w], k, evidence))
        BY <2>2 DEF FinishModel
      <3>2. ModelWorkNext(work[w], k, evidence).op \in {"interrupt", "cancel", "resume_from_model"}
        BY RequestOps, ZenonT(60) DEF ModelWorkNext
      <3> QED
        BY <3>1, <3>2, DecidedTransition
    <2>3. CASE RequestTool(w, work[w], k)
      <3>1. GuardedWorkUpdate(w, work[w], WaitForTool(k))
        BY <2>3 DEF RequestTool
      <3> QED
        BY <3>1, RequestOps, DecidedTransition
    <2>4. CASE \E evidence \in ToolEvidence :
               \E cleanup \in ToolCleanup(evidence, tool[w][k].state) :
                   FinishTool(w, work[w], k, tool[w][k].state, ToolOutcome(evidence), cleanup,
                              ToolWorkNext(work[w], k, evidence))
      <3>1. PICK evidence \in ToolEvidence :
                GuardedWorkUpdate(w, work[w], ToolWorkNext(work[w], k, evidence))
        BY <2>4, ZenonT(60) DEF FinishTool
      <3>2. ToolWorkNext(work[w], k, evidence).op \in {"interrupt", "cancel", "resume_from_tool"}
        BY RequestOps, ZenonT(60) DEF ToolWorkNext
      <3> QED
        BY <3>1, <3>2, DecidedTransition
    <2>5. CASE MarkModelStreaming(w, k) \/ DispatchTool(w, [work[w] EXCEPT !.state = "waiting_on_tool"], k)
      BY <2>5 DEF MarkModelStreaming, DispatchTool
    <2> QED
      BY <1>2, <2>1, <2>2, <2>3, <2>4, <2>5 DEF AttemptStep
  <1>3. ASSUME NEW w \in Works, NEW r \in Runtimes, OwnerStep(w, r) PROVE WorkChange(w)
    <2>1. CASE ClaimNext(r, w)
      BY <2>1, ClaimTransition
    <2>2. CASE TerminalizeWork(w, r, Cancel(work[w].cancel, "not_required"))
      BY <2>2, RequestOps, DecidedTransition DEF TerminalizeWork
    <2>3. CASE TerminalizeWork(w, r, Interrupt("runtime_ownership_lost"))
      BY <2>3, RequestOps, DecidedTransition DEF TerminalizeWork
    <2>4. CASE RecoverWorkUnit(w, r)
      <3>1. RecoveryRequest(w).op \in {"cancel", "interrupt"}
        BY RequestOps DEF RecoveryRequest
      <3>2. GuardedWorkUpdate(w, work[w], RecoveryRequest(w))
        BY <2>4, ZenonT(60) DEF RecoverWorkUnit
      <3> QED
        BY <3>1, <3>2, DecidedTransition
    <2> QED
      BY <1>3, <2>1, <2>2, <2>3, <2>4 DEF OwnerStep
  <1>4. ASSUME NEW r \in Runtimes, RuntimeStep(r)
        PROVE  work' = work \/ \E w \in Works : WorkChange(w)
    <2>1. CASE RequestOwnedCancellation(r)
      BY <2>1, OwnedCancellationTransition
    <2>2. CASE ~RequestOwnedCancellation(r)
      BY <1>4, <2>2 DEF RuntimeStep, CreateRuntime, BeginRuntimeStopping,
         FinishRuntimeGraceful, MarkRuntimeStartupFailure, CloseStaleRuntime
    <2> QED
      BY <2>1, <2>2
  <1> QED
    BY <1>1, <1>2, <1>3, <1>4 DEF Next

-----------------------------------------------------------------------------
(* No step of any service takes an active work over from its owner, and every *)
(* change of a row raises its version, which is what makes the snapshots the  *)
(* services hold safe to compare and swap.                                    *)
THEOREM OwnershipSafe == Spec => OwnershipNeverTransferred
  <1> DEFINE Kept(w) == work'[w] # work[w] =>
                 /\ work'[w].version = work[w].version + 1
                 /\ IsActive(work[w]) /\ IsActive(work'[w]) => work'[w].owner = work[w].owner
  <1>1. ASSUME StoreInvariant, Next, NEW w \in Works PROVE Kept(w)
    <2>1. CASE work' = work
      BY <2>1
    <2>2. CASE \E v \in Works : WorkChange(v)
      <3>1. PICK v \in Works : WorkChange(v)
        BY <2>2
      <3>2. PICK n : work' = [work EXCEPT ![v] = n] /\ (Admission(v, n) \/ Transition(v, n))
        BY <3>1, ZenonT(60) DEF WorkChange
      <3>3. work'[w] = IF w = v THEN n ELSE work[w]
        BY <1>1, <3>2 DEF StoreInvariant, TypeOK
      <3>4. CASE Admission(v, n)
        BY <3>3, <3>4 DEF Admission, Absent, InitialSnapshot, IsActive, ActiveStates
      <3>5. CASE Transition(v, n)
        BY <3>3, <3>5 DEF Transition
      <3> QED
        BY <3>2, <3>4, <3>5
    <2> QED
      BY <1>1, <2>1, <2>2, NextChanges
  <1>2. StoreInvariant /\ [Next]_storeVars => [\A w \in Works : Kept(w)]_storeVars
    BY <1>1
  <1> QED
    BY <1>2, StoreSafety, PTL DEF Spec, OwnershipNeverTransferred

(* claim_next never overtakes: works start in the order they were admitted.   *)
THEOREM QueueOrder == Spec => FirstComeFirstServed
  <1> DEFINE Ordered(v, w) ==
                 v < w /\ work[v].state = "queued" /\ work[w].state = "queued"
                     /\ work'[w].state = "running"
                 => work'[v].state # "queued"
  <1>1. ASSUME StoreInvariant, Next, NEW v \in Works, NEW w \in Works PROVE Ordered(v, w)
    <2> SUFFICES ASSUME v < w, work[v].state = "queued", work[w].state = "queued",
                        work'[w].state = "running"
                 PROVE  FALSE
      OBVIOUS
    <2>1. PICK u \in Works : WorkChange(u)
      BY <1>1, NextChanges
    <2>2. PICK n : work' = [work EXCEPT ![u] = n] /\ (Admission(u, n) \/ Transition(u, n))
      BY <2>1, ZenonT(60) DEF WorkChange
    <2>3. u = w /\ n.state = "running"
      BY <1>1, <2>2 DEF StoreInvariant, TypeOK
    <2>4. Claimable(w)
      BY <2>2, <2>3 DEF Admission, Absent, Transition
    <2> QED
      BY <2>4 DEF Claimable
  <1>2. StoreInvariant /\ [Next]_storeVars => [\A v, w \in Works : Ordered(v, w)]_storeVars
    BY <1>1
  <1> QED
    BY <1>2, StoreSafety, PTL DEF Spec, FirstComeFirstServed

-----------------------------------------------------------------------------
(* The public status of each durable state.                                   *)
LEMMA Statuses ==
    ASSUME NEW s
    PROVE  /\ s.state \in {"running", "waiting_on_model", "waiting_on_tool"} =>
                  PublicStatus(s) = "working"
           /\ s.state = "cancel_requested" => PublicStatus(s) = "cancelling"
           /\ s.state \notin ActiveStates => PublicStatus(s) = s.state
  BY DEF PublicStatus, ActiveStates

(* Each legal pair is a step of the contract or invisible to the client.      *)
LEMMA LegalPairs ==
    ASSUME NEW s, NEW n, IsLegalWorkPair(s.state, n.state)
    PROVE  \/ s.state = "queued" /\ n.state = "running"
           \/ PublicStatus(s) = "queued" /\ PublicStatus(n) = "cancelled"
           \/ PublicStatus(s) = PublicStatus(n)
           \/ PublicStatus(s) = "working" /\ PublicStatus(n) = "cancelling"
           \/ PublicStatus(s) = "working"
              /\ PublicStatus(n) \in {"completed", "failed", "interrupted"}
           \/ PublicStatus(s) = "cancelling" /\ PublicStatus(n) \in {"cancelled", "interrupted"}
  <1>1. /\ s.state \in WorkStates /\ n.state \in WorkStates
    BY DEF IsLegalWorkPair, WorkStates, ActiveStates, TerminalStates
  <1> QED
    BY <1>1, Statuses DEF IsLegalWorkPair, WorkStates, ActiveStates, TerminalStates

(* The store implements the contract its clients see (WorkContract).          *)
THEOREM StoreImplementsContract == Spec => ImplementsContract
  <1> DEFINE status == [w \in Works |-> PublicStatus(work[w])]
  <1>1. Init => Contract!Init
    <2>1. PublicStatus(Absent) = "absent"
      BY Statuses DEF Absent, ActiveStates
    <2> QED
      BY <2>1 DEF Init, Contract!Init
  <1>2. ASSUME StoreInvariant, Next PROVE Contract!Next \/ status' = status
    <2>1. CASE work' = work
      BY <2>1
    <2>2. ASSUME NEW w \in Works, WorkChange(w) PROVE Contract!Next \/ status' = status
      <3>1. PICK n : work' = [work EXCEPT ![w] = n] /\ (Admission(w, n) \/ Transition(w, n))
        BY <2>2, ZenonT(60) DEF WorkChange
      <3>2. status' = [status EXCEPT ![w] = PublicStatus(n)]
        BY <1>2, <3>1, ZenonT(60) DEF StoreInvariant, TypeOK
      <3>3. status[w] = PublicStatus(work[w])
        OBVIOUS
      <3>4. CASE Admission(w, n)
        <4>1. PublicStatus(work[w]) = "absent" /\ PublicStatus(n) = "queued"
          BY <3>4, Statuses DEF Admission, Absent, InitialSnapshot, ActiveStates
        <4>2. Contract!Admit(w)
          BY <3>2, <4>1 DEF Contract!Admit, Contract!Become
        <4> QED
          BY <4>2 DEF Contract!Next
      <3>5. CASE Transition(w, n)
        <4>1. IsLegalWorkPair(work[w].state, n.state)
          BY <3>5 DEF Transition
        <4>2. CASE work[w].state = "queued" /\ n.state = "running"
          <5>1. \A v \in Works : ~IsActive(work[v])
            BY <3>5, <4>2 DEF Transition, Claimable
          <5>2. \A v \in Works : ~Contract!Busy(v)
            <6>1. ASSUME NEW v \in Works PROVE PublicStatus(work[v]) \notin {"working", "cancelling"}
              <7>1. work[v].state \in WorkStates \cup {"absent"}
                BY <1>2, RowsOf DEF WorkLifecycleSnapshot
              <7>2. PublicStatus(work[v]) = work[v].state
                BY <5>1, Statuses DEF IsActive
              <7> QED
                BY <7>1, <7>2 DEF WorkStates, ActiveStates, TerminalStates
            <6> QED
              BY <6>1 DEF Contract!Busy
          <5>3. PublicStatus(work[w]) = "queued" /\ PublicStatus(n) = "working"
            BY <4>2, Statuses DEF ActiveStates
          <5>4. Contract!Begin(w)
            BY <3>2, <5>2, <5>3 DEF Contract!Begin, Contract!Become
          <5> QED
            BY <5>4 DEF Contract!Next
        <4>3. CASE PublicStatus(work[w]) = "queued" /\ PublicStatus(n) = "cancelled"
          BY <3>2, <4>3, ZenonT(60) DEF Contract!Next, Contract!Withdraw, Contract!Become
        <4>4. CASE PublicStatus(work[w]) = PublicStatus(n)
          BY <3>2, <4>4, ZenonT(60)
        <4>5. CASE PublicStatus(work[w]) = "working" /\ PublicStatus(n) = "cancelling"
          BY <3>2, <4>5, ZenonT(60) DEF Contract!Next, Contract!AskToStop, Contract!Become
        <4>6. CASE PublicStatus(work[w]) = "working"
                   /\ PublicStatus(n) \in {"completed", "failed", "interrupted"}
          BY <3>2, <4>6, ZenonT(60) DEF Contract!Next, Contract!Settle, Contract!Become
        <4>7. CASE PublicStatus(work[w]) = "cancelling"
                   /\ PublicStatus(n) \in {"cancelled", "interrupted"}
          BY <3>2, <4>7, ZenonT(60) DEF Contract!Next, Contract!Settle, Contract!Become
        <4> QED
          BY <4>1, <4>2, <4>3, <4>4, <4>5, <4>6, <4>7, LegalPairs
      <3> QED
        BY <3>1, <3>4, <3>5
    <2> QED
      BY <1>2, <2>1, <2>2, NextChanges
  <1>3. StoreInvariant /\ [Next]_storeVars => [Contract!Next]_status
    BY <1>2 DEF storeVars
  <1> QED
    BY <1>1, <1>3, StoreSafety, PTL DEF Spec, ImplementsContract, Contract!Spec

(* The attempt a stale runtime left behind is one of three: none, a live     *)
(* model call, or a live tool call whose cleanup was not given up.           *)
LEMMA LeftBehind ==
    ASSUME StoreInvariant, NEW w \in Works, IsActive(work[w])
    PROVE  /\ work[w].state # "queued" /\ ~IsTerminal(work[w])
           /\ \/ /\ work[w].kind = "none" /\ work[w].state \in {"running", "cancel_requested"}
                 /\ CurrentRow(w) = "none"
              \/ /\ work[w].kind = "model"
                 /\ work[w].state \in {"waiting_on_model", "cancel_requested"}
                 /\ CurrentRow(w) \in ModelLive
              \/ /\ work[w].kind = "tool"
                 /\ work[w].state \in {"waiting_on_tool", "cancel_requested"}
                 /\ CurrentRow(w) \in ToolLive
           /\ CurrentCleanup(w) # "unconfirmed"
  <1>1. /\ work[w] \in WorkLifecycleSnapshot /\ ValidWorkShape(work[w])
        /\ \A k \in Attempts :
               /\ HasAttempt(work[w], "model", k) => model[w][k].state \in ModelLive
               /\ HasAttempt(work[w], "tool", k) => tool[w][k].state \in ToolLive
               /\ tool[w][k].cleanup = "unconfirmed" => tool[w][k].state = "outcome_unknown"
    <2>1. work[w] # Absent
      BY DEF Absent, IsActive, ActiveStates
    <2> QED
      BY <2>1, RowsOf DEF StoreInvariant, WorkShapes, AttemptsOwned, UnconfirmedIsUnknown
  <1>2. work[w].state \in ActiveStates
    BY DEF IsActive
  <1>3. \/ work[w].kind = "none" /\ work[w].state \in {"running", "cancel_requested"}
        \/ /\ work[w].kind = "model" /\ work[w].attempt \in Attempts
           /\ work[w].state \in {"waiting_on_model", "cancel_requested"}
        \/ /\ work[w].kind = "tool" /\ work[w].attempt \in Attempts
           /\ work[w].state \in {"waiting_on_tool", "cancel_requested"}
    BY <1>1, <1>2 DEF ValidWorkShape, NoCurrentAttempt, ActiveStates
  <1>4. work[w].state # "queued" /\ ~IsTerminal(work[w])
    BY <1>2 DEF ActiveStates, IsTerminal, TerminalStates
  <1>5. CASE work[w].kind = "none"
    BY <1>3, <1>4, <1>5 DEF CurrentRow, CurrentCleanup
  <1>6. CASE work[w].kind = "model" /\ work[w].attempt \in Attempts
    BY <1>1, <1>3, <1>4, <1>6 DEF CurrentRow, CurrentCleanup, HasAttempt
  <1>7. CASE work[w].kind = "tool" /\ work[w].attempt \in Attempts
    <2>1. tool[w][work[w].attempt].state \in ToolLive
      BY <1>1, <1>7 DEF HasAttempt
    <2>2. tool[w][work[w].attempt].cleanup # "unconfirmed"
      BY <1>1, <1>7, <2>1 DEF ToolLive
    <2> QED
      BY <1>3, <1>4, <1>7, <2>1, <2>2 DEF CurrentRow, CurrentCleanup
  <1> QED
    BY <1>3, <1>5, <1>6, <1>7

(* What an interruption and a cancellation leave of a work.                  *)
LEMMA NextSettled ==
    ASSUME NEW s, NEW reason, NEW cleanup
    PROVE  /\ NextSnapshot(s, Interrupt(reason)).state = "interrupted"
           /\ NextSnapshot(s, Interrupt(reason)).reason = reason
           /\ NextSnapshot(s, Cancel(reason, cleanup)).state = "cancelled"
           /\ NextSnapshot(s, Cancel(reason, cleanup)).reason = reason
  BY DEF NextSnapshot, TargetState, Request, Interrupt, Cancel, TerminalStates

(* recover_work_unit, written in the store, and the domain's                 *)
(* classify_recovery, which the service never calls, agree on every work a   *)
(* stale runtime can leave active: on its new status, on the reason given    *)
(* for it and on what becomes of its attempt.                                *)
THEOREM RecoveryFollowsPolicy == Spec => []RecoveryAgreesWithPolicy
  <1>1. ASSUME StoreInvariant PROVE RecoveryAgreesWithPolicy
    <2> SUFFICES ASSUME NEW w \in Works, IsActive(work[w])
                 PROVE  LET s == work[w]
                            row == CurrentRow(w)
                            d == ClassifyRecovery(s, row, CurrentCleanup(w))
                            next == NextSnapshot(s, RecoveryRequest(w))
                        IN
                        /\ d.classification \notin
                               {"contradictory",
                                "reconcile_committed_tool_result_without_execution"}
                        /\ IF d.classification = "finalize_cancellation"
                           THEN next.state = "cancelled" /\ next.reason = s.cancel
                           ELSE next.state = "interrupted" /\ next.reason = d.status
                        /\ d.classification = "mark_model_provider_outcome_unknown_and_interrupt"
                               <=> RecoveredRow(row) = "provider_outcome_unknown" /\ row \in ModelLive
                        /\ d.classification = "mark_tool_interrupted_before_dispatch_and_interrupt"
                               <=> RecoveredRow(row) = "interrupted_before_dispatch" /\ row = "requested"
                        /\ d.classification = "mark_tool_outcome_unknown_and_interrupt"
                               <=> RecoveredRow(row) = "outcome_unknown" /\ row = "dispatching"
      BY DEF RecoveryAgreesWithPolicy
    <2> DEFINE s == work[w]
               row == CurrentRow(w)
               d == ClassifyRecovery(s, row, CurrentCleanup(w))
    <2>1. /\ s.state # "queued" /\ ~IsTerminal(s) /\ CurrentCleanup(w) # "unconfirmed"
          /\ \/ s.kind = "none" /\ s.state \in {"running", "cancel_requested"} /\ row = "none"
             \/ /\ s.kind = "model" /\ s.state \in {"waiting_on_model", "cancel_requested"}
                /\ row \in ModelLive
             \/ /\ s.kind = "tool" /\ s.state \in {"waiting_on_tool", "cancel_requested"}
                /\ row \in ToolLive
      BY <1>1, LeftBehind
    <2>2. CASE s.kind = "none" /\ s.state = "running" /\ row = "none"
      <3>1. d = InterruptActive("runtime_ownership_lost")
        BY <2>1, <2>2 DEF ClassifyRecovery
      <3>2. RecoveryRequest(w) = Interrupt("runtime_ownership_lost") /\ RecoveredRow(row) = "none"
        BY <2>1, <2>2 DEF RecoveryRequest, RecoveryReason, RecoveredRow, ModelLive
      <3> QED
        BY <2>2, <3>1, <3>2, NextSettled DEF InterruptActive, RecoveryDecision, ModelLive
    <2>3. CASE s.kind = "none" /\ s.state = "cancel_requested" /\ row = "none"
      <3>1. d = RecoveryDecision("finalize_cancellation", "none")
        BY <2>1, <2>3 DEF ClassifyRecovery, ClassifyCancelRecovery
      <3>2. RecoveryRequest(w) = Cancel(s.cancel, "not_required") /\ RecoveredRow(row) = "none"
        BY <2>1, <2>3 DEF RecoveryRequest, RecoveryReason, RecoveredRow, ModelLive
      <3> QED
        BY <2>3, <3>1, <3>2, NextSettled DEF RecoveryDecision, ModelLive
    <2>4. CASE s.kind = "model" /\ row \in ModelLive
      <3>1. d = ClassifyModelRecovery(row)
        BY <2>1, <2>4 DEF ClassifyRecovery, ClassifyCancelRecovery
      <3>2. d = RecoveryDecision("mark_model_provider_outcome_unknown_and_interrupt",
                                 "provider_outcome_unknown")
        BY <2>4, <3>1 DEF ClassifyModelRecovery, ModelLive
      <3>3. RecoveredRow(row) = "provider_outcome_unknown" /\ row \notin {"requested", "dispatching"}
        BY <2>4 DEF RecoveredRow, ModelLive
      <3>4. RecoveryRequest(w) = Interrupt("provider_outcome_unknown")
        BY <3>3 DEF RecoveryRequest, RecoveryReason
      <3> QED
        BY <2>4, <3>2, <3>3, <3>4, NextSettled DEF RecoveryDecision
    <2>5. CASE s.kind = "tool" /\ row \in ToolLive
      <3>1. d = ClassifyToolRecovery(row) /\ row \notin ModelLive
        BY <2>1, <2>5 DEF ClassifyRecovery, ClassifyCancelRecovery, ToolLive, ModelLive
      <3>2. CASE row = "requested"
        <4>1. d = RecoveryDecision("mark_tool_interrupted_before_dispatch_and_interrupt",
                                   "tool_interrupted_before_dispatch")
          BY <3>1, <3>2 DEF ClassifyToolRecovery
        <4>2. RecoveredRow(row) = "interrupted_before_dispatch"
          BY <3>1, <3>2 DEF RecoveredRow
        <4>3. RecoveryRequest(w) = Interrupt("tool_interrupted_before_dispatch")
          BY <4>2 DEF RecoveryRequest, RecoveryReason
        <4> QED
          BY <3>1, <3>2, <4>1, <4>2, <4>3, NextSettled DEF RecoveryDecision
      <3>3. CASE row = "dispatching"
        <4>1. d = RecoveryDecision("mark_tool_outcome_unknown_and_interrupt",
                                   "tool_outcome_unknown")
          BY <3>1, <3>3 DEF ClassifyToolRecovery
        <4>2. RecoveredRow(row) = "outcome_unknown"
          BY <3>1, <3>3 DEF RecoveredRow
        <4>3. RecoveryRequest(w) = Interrupt("tool_outcome_unknown")
          BY <4>2 DEF RecoveryRequest, RecoveryReason
        <4> QED
          BY <3>1, <3>3, <4>1, <4>2, <4>3, NextSettled DEF RecoveryDecision
      <3> QED
        BY ZenonT(60), <2>5, <3>2, <3>3 DEF ToolLive
    <2> QED
      BY ZenonT(60), <2>1, <2>2, <2>3, <2>4, <2>5
  <1> QED
    BY <1>1, StoreSafety, PTL
=============================================================================
