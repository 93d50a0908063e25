-------------------------- MODULE WorkStoreProofs --------------------------
(***************************************************************************)
(* StoreInvariant is an invariant of WorkStore for every number of works,  *)
(* runtimes, attempts and versions.  The invariant speaks of each work     *)
(* separately except for SingleActiveWork, so it is restated per work      *)
(* (WorkInvariant): an action on one work then only has to show            *)
(* WorkInvariant of that work's new rows (lemma OneWorkStep).  One lemma   *)
(* per transaction of the store follows, put together in NextInvariant.    *)
(***************************************************************************)
EXTENDS WorkStore, TLAPS

(* The part of StoreInvariant about one work: its snapshot s, its model and  *)
(* tool rows m and t.                                                        *)
AttemptOwned(s, m, t, k) ==
    /\ m[k].state \in ModelLive <=> IsActive(s) /\ HasAttempt(s, "model", k)
    /\ m[k].state \in ModelLive => m[k].runtime = s.owner
    /\ t[k].state \in ToolLive <=> IsActive(s) /\ HasAttempt(s, "tool", k)
    /\ t[k].state \in ToolLive => t[k].runtime = s.owner

AttemptSettled(s, m, t, k) ==
    /\ m[k].state = "provider_outcome_unknown" => s.state = "interrupted"
    /\ t[k].state \in {"interrupted_before_dispatch", "outcome_unknown"} =>
           s.state = "interrupted"
    /\ t[k].cleanup = "unconfirmed" => t[k].state = "outcome_unknown"

WorkInvariant(s, m, t) ==
    /\ s \in WorkLifecycleSnapshot
    /\ m \in [Attempts -> ModelRow]
    /\ t \in [Attempts -> ToolRow]
    /\ s = Absent \/ ValidWorkShape(s)
    /\ \A k \in Attempts : AttemptOwned(s, m, t, k) /\ AttemptSettled(s, m, t, k)

(* The row of a work that was never admitted has the type of a snapshot.      *)
LEMMA AbsentTyped == Absent \in WorkLifecycleSnapshot
  BY ConstantsOK DEF Absent, WorkLifecycleSnapshot, AttemptKinds

-----------------------------------------------------------------------------
(* The store invariant is the conjunction of the works' own invariants, the  *)
(* typing of the rows and the single active work.                            *)
LEMMA InvariantPerWork ==
    StoreInvariant <=>
        /\ TypeOK
        /\ SingleActiveWork
        /\ AnsweredIffCompleted
        /\ \A w \in Works : WorkInvariant(work[w], model[w], tool[w])
  <1>1. ASSUME StoreInvariant
        PROVE  /\ TypeOK /\ SingleActiveWork /\ AnsweredIffCompleted
               /\ \A w \in Works : WorkInvariant(work[w], model[w], tool[w])
    BY <1>1 DEF StoreInvariant, TypeOK, WorkShapes, AttemptsOwned, UnknownOutcomesInterrupt,
                UnconfirmedIsUnknown, WorkInvariant, AttemptOwned,
                AttemptSettled
  <1>2. ASSUME TypeOK, SingleActiveWork, AnsweredIffCompleted,
               \A w \in Works : WorkInvariant(work[w], model[w], tool[w])
        PROVE  StoreInvariant
    BY <1>2 DEF StoreInvariant, TypeOK, WorkShapes, AttemptsOwned, UnknownOutcomesInterrupt,
                UnconfirmedIsUnknown, WorkInvariant, AttemptOwned,
                AttemptSettled
  <1> QED
    BY ZenonT(60), <1>1, <1>2

(* A step that replaces the rows of one work preserves the store invariant   *)
(* when the new rows satisfy that work's invariant and it does not become    *)
(* active beside another active work.                                        *)
LEMMA OneWorkStep ==
    ASSUME StoreInvariant,
           NEW w \in Works, NEW s, NEW m, NEW t,
           work' = [work EXCEPT ![w] = s],
           model' = [model EXCEPT ![w] = m],
           tool' = [tool EXCEPT ![w] = t],
           runtime' = runtime,
           answered' \in SUBSET Works,
           \A v \in Works : v # w => (v \in answered' <=> v \in answered),
           WorkInvariant(s, m, t),
           w \in answered' <=> s.state = "completed",
           IsActive(s) => IsActive(work[w]) \/ \A v \in Works : ~IsActive(work[v])
    PROVE  StoreInvariant'
  <1>1. TypeOK /\ SingleActiveWork /\ AnsweredIffCompleted
    BY DEF StoreInvariant
  <1>2. \A v \in Works : WorkInvariant(work[v], model[v], tool[v])
    BY InvariantPerWork
  <1>3. TypeOK'
    BY <1>1 DEF TypeOK, WorkInvariant
  <1>4. SingleActiveWork'
    BY <1>1 DEF TypeOK, SingleActiveWork
  <1>5. ASSUME NEW v \in Works
        PROVE  WorkInvariant(work'[v], model'[v], tool'[v])
    <2>1. CASE v = w
      BY <2>1, <1>1 DEF TypeOK
    <2>2. CASE v # w
      <3>1. work'[v] = work[v] /\ model'[v] = model[v] /\ tool'[v] = tool[v]
        BY <2>2, <1>1 DEF TypeOK
      <3> QED
        BY <3>1, <1>2
    <2> QED
      BY <2>1, <2>2
  <1>6. AnsweredIffCompleted'
    BY <1>1 DEF TypeOK, AnsweredIffCompleted
  <1> QED
    BY <1>3, <1>4, <1>5, <1>6 DEF StoreInvariant, TypeOK, WorkShapes, AttemptsOwned,
       UnknownOutcomesInterrupt, UnconfirmedIsUnknown, WorkInvariant,
       AttemptOwned, AttemptSettled

-----------------------------------------------------------------------------
(* The requests the application makes.                                       *)
Requests ==
    [op      : {"start", "wait_for_model", "resume_from_model", "wait_for_tool",
                "resume_from_tool", "request_cancellation", "complete", "fail",
                "cancel", "interrupt"},
     owner   : Runtimes \cup {NoRuntime},
     attempt : Attempts \cup {NoAttempt},
     reason  : TerminalReasons \cup {"none"},
     cleanup : CleanupStatus]

(* A decided transition yields a typed snapshot of a legal shape, one        *)
(* version later, from a row that exists and is not terminal.                *)
LEMMA DecidedSnapshot ==
    ASSUME NEW s \in WorkLifecycleSnapshot, NEW q \in Requests,
           q.op = "request_cancellation" => q.reason \in CancellationReasons,
           DecideWorkTransition(s, q)
    PROVE  /\ NextSnapshot(s, q) \in WorkLifecycleSnapshot
           /\ ValidWorkShape(NextSnapshot(s, q))
           /\ NextSnapshot(s, q).version = s.version + 1
           /\ NextSnapshot(s, q).state = TargetState(q)
           /\ ValidWorkShape(s) /\ ~IsTerminal(s)
  <1>1. TargetState(q) \in WorkStates
    BY DEF TargetState, Requests, WorkStates, ActiveStates, TerminalStates
  <1>2. s.version + 1 \in 0 .. MaxVersion
    BY ConstantsOK DEF DecideWorkTransition, WorkLifecycleSnapshot
  <1>3. NextSnapshot(s, q) \in WorkLifecycleSnapshot
    BY <1>1, <1>2 DEF NextSnapshot, WorkLifecycleSnapshot, Requests, AttemptKinds
  <1> QED
    BY <1>3 DEF DecideWorkTransition, NextSnapshot

(* What the non-terminal requests make of a snapshot, field by field.        *)
LEMMA NextStart ==
    ASSUME NEW s, NEW r
    PROVE  NextSnapshot(s, Start(r)) =
               [state |-> "running", version |-> s.version + 1, owner |-> r, kind |-> "none",
                attempt |-> NoAttempt, cancel |-> "none", reason |-> "none"]
  BY DEF NextSnapshot, TargetState, Request, Start, TerminalStates

(* Waiting for an attempt records its kind and id.                            *)
LEMMA NextWait ==
    ASSUME NEW s, NEW k
    PROVE  /\ NextSnapshot(s, WaitForModel(k)) =
                  [state |-> "waiting_on_model", version |-> s.version + 1, owner |-> s.owner,
                   kind |-> "model", attempt |-> k, cancel |-> "none", reason |-> "none"]
           /\ NextSnapshot(s, WaitForTool(k)) =
                  [state |-> "waiting_on_tool", version |-> s.version + 1, owner |-> s.owner,
                   kind |-> "tool", attempt |-> k, cancel |-> "none", reason |-> "none"]
  BY DEF NextSnapshot, TargetState, Request, WaitForModel, WaitForTool, TerminalStates

(* Resuming from an attempt forgets it and keeps the owner.                   *)
LEMMA NextResume ==
    ASSUME NEW s, NEW k
    PROVE  /\ NextSnapshot(s, ResumeFromModel(k)) =
                  [state |-> "running", version |-> s.version + 1, owner |-> s.owner,
                   kind |-> "none", attempt |-> NoAttempt, cancel |-> "none", reason |-> "none"]
           /\ NextSnapshot(s, ResumeFromTool(k)) =
                  [state |-> "running", version |-> s.version + 1, owner |-> s.owner,
                   kind |-> "none", attempt |-> NoAttempt, cancel |-> "none", reason |-> "none"]
  BY DEF NextSnapshot, TargetState, Request, ResumeFromModel, ResumeFromTool, TerminalStates

(* Asking to stop keeps the owner and the current attempt.                    *)
LEMMA NextAskToStop ==
    ASSUME NEW s, NEW reason
    PROVE  NextSnapshot(s, RequestCancellation(reason)) =
               [state |-> "cancel_requested", version |-> s.version + 1, owner |-> s.owner,
                kind |-> s.kind, attempt |-> s.attempt, cancel |-> reason, reason |-> "none"]
  BY DEF NextSnapshot, TargetState, Request, RequestCancellation, TerminalStates

(* The attempt and the owner each state of a legal shape carries.            *)
LEMMA ShapeFacts ==
    ASSUME NEW s \in WorkLifecycleSnapshot, ValidWorkShape(s)
    PROVE  /\ s.owner \in Runtimes <=> IsActive(s)
           /\ s.state = "waiting_on_model" => s.kind = "model" /\ s.attempt \in Attempts
           /\ s.state = "waiting_on_tool" => s.kind = "tool" /\ s.attempt \in Attempts
           /\ s.state \notin {"waiting_on_model", "waiting_on_tool", "cancel_requested"} =>
                  NoCurrentAttempt(s)
           /\ s.kind # "none" => s.attempt \in Attempts
           /\ s.cancel # "none" <=> s.state = "cancel_requested"
           /\ s.state \in WorkStates
  BY DEF ValidWorkShape, NoCurrentAttempt, WorkLifecycleSnapshot, AttemptKinds

(* The state each request aims at.                                           *)
LEMMA Targets ==
    /\ \A r : TargetState(Start(r)) = "running"
    /\ \A k : TargetState(WaitForModel(k)) = "waiting_on_model"
    /\ \A k : TargetState(ResumeFromModel(k)) = "running"
    /\ \A k : TargetState(WaitForTool(k)) = "waiting_on_tool"
    /\ \A k : TargetState(ResumeFromTool(k)) = "running"
    /\ \A reason : TargetState(RequestCancellation(reason)) = "cancel_requested"
    /\ TargetState(Complete) = "completed"
    /\ TargetState(Fail) = "failed"
    /\ \A reason, cleanup : TargetState(Cancel(reason, cleanup)) = "cancelled"
    /\ \A reason : TargetState(Interrupt(reason)) = "interrupted"
  BY DEF TargetState, Request, Start, WaitForModel, ResumeFromModel, WaitForTool,
         ResumeFromTool, RequestCancellation, Complete, Fail, Cancel, Interrupt

(* The requests are typed.                                                   *)
LEMMA RequestTypes ==
    /\ \A r \in Runtimes : Start(r) \in Requests
    /\ \A k \in Attempts : /\ WaitForModel(k) \in Requests /\ ResumeFromModel(k) \in Requests
                           /\ WaitForTool(k) \in Requests /\ ResumeFromTool(k) \in Requests
    /\ Complete \in Requests
    /\ Fail \in Requests
    /\ \A reason \in TerminalReasons :
           /\ RequestCancellation(reason) \in Requests
           /\ Interrupt(reason) \in Requests
           /\ \A cleanup \in CleanupStatus : Cancel(reason, cleanup) \in Requests
  BY ZenonT(60) DEF Requests, Request, Start, WaitForModel, ResumeFromModel, WaitForTool,
     ResumeFromTool,
         RequestCancellation, Complete, Fail, Cancel, Interrupt, TerminalReasons,
         CompletionReasons, FailureReasons, CleanupStatus

(* The states each request is legal from.                                    *)
LEMMA LegalSources ==
    ASSUME NEW s \in WorkLifecycleSnapshot, NEW k \in Attempts, NEW reason, NEW cleanup
    PROVE  /\ DecideWorkTransition(s, WaitForModel(k)) => s.state = "running"
           /\ DecideWorkTransition(s, ResumeFromModel(k)) =>
                  s.state = "waiting_on_model" /\ HasAttempt(s, "model", k)
           /\ DecideWorkTransition(s, WaitForTool(k)) => s.state = "running"
           /\ DecideWorkTransition(s, ResumeFromTool(k)) =>
                  s.state = "waiting_on_tool" /\ HasAttempt(s, "tool", k)
           /\ DecideWorkTransition(s, RequestCancellation(reason)) =>
                  s.state \in {"running", "waiting_on_model", "waiting_on_tool"}
           /\ DecideWorkTransition(s, Complete) => s.state = "running"
           /\ DecideWorkTransition(s, Cancel(reason, cleanup)) =>
                  s.state \in {"queued", "cancel_requested"}
           /\ DecideWorkTransition(s, Interrupt(reason)) => IsActive(s)
  <1>1. ASSUME NEW to, IsLegalWorkPair(s.state, to)
        PROVE  /\ to \in {"waiting_on_model", "waiting_on_tool", "completed"} =>
                      s.state = "running"
               /\ to = "running" =>
                      s.state \in {"queued", "waiting_on_model", "waiting_on_tool"}
               /\ to = "cancel_requested" =>
                      s.state \in {"running", "waiting_on_model", "waiting_on_tool"}
               /\ to = "cancelled" => s.state \in {"queued", "cancel_requested"}
               /\ to = "interrupted" => s.state \in ActiveStates
    BY <1>1 DEF IsLegalWorkPair, ActiveStates
  <1>2. ASSUME DecideWorkTransition(s, ResumeFromModel(k))
        PROVE  s.state = "waiting_on_model" /\ HasAttempt(s, "model", k)
    <2>1. HasAttempt(s, "model", k)
      BY <1>2 DEF DecideWorkTransition, EvidenceSatisfied, ResumeFromModel, Request
    <2>2. s.state \in {"queued", "waiting_on_model", "waiting_on_tool"}
      BY <1>1, <1>2, Targets DEF DecideWorkTransition
    <2>3. ValidWorkShape(s)
      BY <1>2 DEF DecideWorkTransition
    <2> QED
      BY <2>1, <2>2, <2>3, ShapeFacts DEF HasAttempt, NoCurrentAttempt
  <1>3. ASSUME DecideWorkTransition(s, ResumeFromTool(k))
        PROVE  s.state = "waiting_on_tool" /\ HasAttempt(s, "tool", k)
    <2>1. HasAttempt(s, "tool", k)
      BY <1>3 DEF DecideWorkTransition, EvidenceSatisfied, ResumeFromTool, Request
    <2>2. s.state \in {"queued", "waiting_on_model", "waiting_on_tool"}
      BY <1>1, <1>3, Targets DEF DecideWorkTransition
    <2>3. ValidWorkShape(s)
      BY <1>3 DEF DecideWorkTransition
    <2> QED
      BY <2>1, <2>2, <2>3, ShapeFacts DEF HasAttempt, NoCurrentAttempt
  <1> QED
    BY <1>1, <1>2, <1>3, Targets DEF DecideWorkTransition, IsActive

-----------------------------------------------------------------------------
(* The invariant of one work through the actions that leave its attempt rows *)
(* alone: the new snapshot keeps the current attempt and the owner, or the   *)
(* work had no current attempt and has none now.                             *)
LEMMA KeepAttempts ==
    ASSUME NEW s, NEW m, NEW t, WorkInvariant(s, m, t),
           NEW n \in WorkLifecycleSnapshot, ValidWorkShape(n),
           ~IsTerminal(s),
           \/ n.owner = s.owner /\ n.kind = s.kind /\ n.attempt = s.attempt
              /\ IsActive(s) /\ IsActive(n)
           \/ NoCurrentAttempt(s) /\ NoCurrentAttempt(n)
    PROVE  WorkInvariant(n, m, t)
  <1>1. s.state # "interrupted" /\ s.state # "completed"
    BY DEF IsTerminal, TerminalStates
  <1>2. ASSUME NEW k \in Attempts
        PROVE  AttemptOwned(n, m, t, k) /\ AttemptSettled(n, m, t, k)
    <2>1. AttemptOwned(s, m, t, k) /\ AttemptSettled(s, m, t, k)
      BY DEF WorkInvariant
    <2>2. AttemptSettled(n, m, t, k)
      BY <2>1, <1>1 DEF AttemptSettled
    <2>3. AttemptOwned(n, m, t, k)
      BY <2>1 DEF AttemptOwned, HasAttempt, NoCurrentAttempt
    <2> QED
      BY <2>2, <2>3
  <1> QED
    BY <1>1, <1>2 DEF WorkInvariant

(* ... through the start of a model invocation or of a tool execution: the   *)
(* new attempt becomes both the live row and the current attempt.            *)
LEMMA StartModelAttempt ==
    ASSUME NEW s, NEW m, NEW t, WorkInvariant(s, m, t),
           s.state = "running", NoCurrentAttempt(s),
           NEW k \in Attempts, m[k].state = "absent",
           NEW n \in WorkLifecycleSnapshot, ValidWorkShape(n),
           n.state = "waiting_on_model", HasAttempt(n, "model", k), n.owner = s.owner
    PROVE  WorkInvariant(n, [m EXCEPT ![k] = [state |-> "requesting", runtime |-> s.owner]], t)
  <1> DEFINE row == [state |-> "requesting", runtime |-> s.owner]
             mm == [m EXCEPT ![k] = row]
  <1>1. row \in ModelRow
    BY DEF WorkInvariant, WorkLifecycleSnapshot, ModelRow, ModelStates, ModelLive
  <1>2. mm \in [Attempts -> ModelRow]
    BY <1>1 DEF WorkInvariant
  <1>3. ASSUME NEW j \in Attempts
        PROVE  AttemptOwned(n, mm, t, j) /\ AttemptSettled(n, mm, t, j)
    <2>1. AttemptOwned(s, m, t, j) /\ AttemptSettled(s, m, t, j)
      BY DEF WorkInvariant
    <2>2. IsActive(n) /\ IsActive(s)
      BY DEF IsActive, ActiveStates
    <2>3. mm[j] = IF j = k THEN row ELSE m[j]
      BY DEF WorkInvariant
    <2>4. m[j].state \notin ModelLive /\ t[j].state \notin ToolLive
      BY <2>1 DEF AttemptOwned, HasAttempt, NoCurrentAttempt
    <2>5. AttemptSettled(n, mm, t, j)
      BY <2>1, <2>3 DEF AttemptSettled
    <2>6. AttemptOwned(n, mm, t, j)
      BY <2>2, <2>3, <2>4 DEF AttemptOwned, HasAttempt, ModelLive
    <2> QED
      BY <2>5, <2>6
  <1> QED
    BY <1>2, <1>3, ZenonT(60) DEF WorkInvariant

(* The same for the start of a tool execution.                                *)
LEMMA StartToolAttempt ==
    ASSUME NEW s, NEW m, NEW t, WorkInvariant(s, m, t),
           s.state = "running", NoCurrentAttempt(s),
           NEW k \in Attempts, t[k].state = "absent",
           NEW n \in WorkLifecycleSnapshot, ValidWorkShape(n),
           n.state = "waiting_on_tool", HasAttempt(n, "tool", k), n.owner = s.owner,
           NEW row \in ToolRow, row.state = "requested", row.runtime = s.owner,
           row.cleanup = "not_required"
    PROVE  WorkInvariant(n, m, [t EXCEPT ![k] = row])
  <1> DEFINE tt == [t EXCEPT ![k] = row]
  <1>1. tt \in [Attempts -> ToolRow]
    BY DEF WorkInvariant
  <1>2. ASSUME NEW j \in Attempts
        PROVE  AttemptOwned(n, m, tt, j) /\ AttemptSettled(n, m, tt, j)
    <2>1. AttemptOwned(s, m, t, j) /\ AttemptSettled(s, m, t, j)
      BY DEF WorkInvariant
    <2>2. IsActive(n) /\ IsActive(s)
      BY DEF IsActive, ActiveStates
    <2>3. tt[j] = IF j = k THEN row ELSE t[j]
      BY ZenonT(60) DEF WorkInvariant
    <2>4. m[j].state \notin ModelLive /\ t[j].state \notin ToolLive
      BY <2>1 DEF AttemptOwned, HasAttempt, NoCurrentAttempt
    <2>5. AttemptSettled(n, m, tt, j)
      BY <2>1, <2>3 DEF AttemptSettled
    <2>6. AttemptOwned(n, m, tt, j)
      BY <2>2, <2>3, <2>4 DEF AttemptOwned, HasAttempt, ToolLive
    <2> QED
      BY <2>5, <2>6
  <1> QED
    BY <1>1, <1>2, ZenonT(60) DEF WorkInvariant

(* ... through the end of the current attempt: its row becomes terminal and  *)
(* the work lets go of it.  An unknown outcome interrupts the work.          *)
LEMMA EndModelAttempt ==
    ASSUME NEW s, NEW m, NEW t, WorkInvariant(s, m, t),
           IsActive(s), NEW k \in Attempts, HasAttempt(s, "model", k),
           NEW n \in WorkLifecycleSnapshot, ValidWorkShape(n),
           NoCurrentAttempt(n), n.state # "completed",
           NEW row \in ModelRow, row.state \in ModelTerminal,
           row.state = "provider_outcome_unknown" => n.state = "interrupted"
    PROVE  WorkInvariant(n, [m EXCEPT ![k] = row], t)
  <1> DEFINE mm == [m EXCEPT ![k] = row]
  <1>1. mm \in [Attempts -> ModelRow]
    BY DEF WorkInvariant
  <1>2. s.state \notin TerminalStates
    BY DEF IsActive, ActiveStates, TerminalStates
  <1>3. ASSUME NEW j \in Attempts
        PROVE  AttemptOwned(n, mm, t, j) /\ AttemptSettled(n, mm, t, j)
    <2>1. AttemptOwned(s, m, t, j) /\ AttemptSettled(s, m, t, j)
      BY DEF WorkInvariant
    <2>2. mm[j] = IF j = k THEN row ELSE m[j]
      BY DEF WorkInvariant
    <2>3. t[j].state \notin ToolLive /\ (j # k => m[j].state \notin ModelLive)
      BY <2>1 DEF AttemptOwned, HasAttempt
    <2>4. AttemptSettled(n, mm, t, j)
      BY <2>1, <2>2, <1>2 DEF AttemptSettled, TerminalStates
    <2>5. row.state \notin ModelLive
      BY DEF ModelTerminal, ModelLive
    <2>6. AttemptOwned(n, mm, t, j)
      BY <2>2, <2>3, <2>5 DEF AttemptOwned, HasAttempt, NoCurrentAttempt
    <2> QED
      BY <2>4, <2>6
  <1> QED
    BY <1>1, <1>2, <1>3, ZenonT(60) DEF WorkInvariant, TerminalStates

(* The same for the end of a tool execution.                                  *)
LEMMA EndToolAttempt ==
    ASSUME NEW s, NEW m, NEW t, WorkInvariant(s, m, t),
           IsActive(s), NEW k \in Attempts, HasAttempt(s, "tool", k),
           NEW n \in WorkLifecycleSnapshot, ValidWorkShape(n),
           NoCurrentAttempt(n), n.state # "completed",
           NEW row \in ToolRow, row.state \in ToolTerminal,
           row.state # "completed" => n.state = "interrupted",
           row.cleanup = "unconfirmed" => row.state = "outcome_unknown"
    PROVE  WorkInvariant(n, m, [t EXCEPT ![k] = row])
  <1> DEFINE tt == [t EXCEPT ![k] = row]
  <1>1. tt \in [Attempts -> ToolRow]
    BY DEF WorkInvariant
  <1>2. s.state \notin TerminalStates
    BY DEF IsActive, ActiveStates, TerminalStates
  <1>3. ASSUME NEW j \in Attempts
        PROVE  AttemptOwned(n, m, tt, j) /\ AttemptSettled(n, m, tt, j)
    <2>1. AttemptOwned(s, m, t, j) /\ AttemptSettled(s, m, t, j)
      BY DEF WorkInvariant
    <2>2. tt[j] = IF j = k THEN row ELSE t[j]
      BY DEF WorkInvariant
    <2>3. m[j].state \notin ModelLive /\ (j # k => t[j].state \notin ToolLive)
      BY <2>1 DEF AttemptOwned, HasAttempt
    <2>4. AttemptSettled(n, m, tt, j)
      BY <2>1, <2>2, <1>2 DEF AttemptSettled, TerminalStates
    <2>5. row.state \notin ToolLive
      BY DEF ToolTerminal, ToolLive
    <2>6. AttemptOwned(n, m, tt, j)
      BY <2>2, <2>3, <2>5 DEF AttemptOwned, HasAttempt, NoCurrentAttempt
    <2> QED
      BY <2>4, <2>6
  <1> QED
    BY <1>1, <1>2, <1>3, ZenonT(60) DEF WorkInvariant, TerminalStates

-----------------------------------------------------------------------------
(* The actions.  First what every action on one work starts from.            *)
LEMMA RowsOf ==
    ASSUME StoreInvariant, NEW w \in Works
    PROVE  /\ work[w] \in WorkLifecycleSnapshot
           /\ WorkInvariant(work[w], model[w], tool[w])
           /\ work = [work EXCEPT ![w] = work[w]]
           /\ model = [model EXCEPT ![w] = model[w]]
           /\ tool = [tool EXCEPT ![w] = tool[w]]
           /\ answered \in SUBSET Works
           /\ w \in answered <=> work[w].state = "completed"
           /\ model[w] \in [Attempts -> ModelRow]
           /\ tool[w] \in [Attempts -> ToolRow]
  <1>1. TypeOK
    BY DEF StoreInvariant
  <1>2. WorkInvariant(work[w], model[w], tool[w]) /\ AnsweredIffCompleted
    BY InvariantPerWork
  <1> QED
    BY <1>1, <1>2 DEF TypeOK, AnsweredIffCompleted

(* An action that writes only the work row.                                  *)
LEMMA WorkOnlyStep ==
    ASSUME StoreInvariant, NEW w \in Works,
           NEW n \in WorkLifecycleSnapshot, ValidWorkShape(n),
           ~IsTerminal(work[w]), n.state # "completed",
           \/ n.owner = work[w].owner /\ n.kind = work[w].kind /\ n.attempt = work[w].attempt
              /\ IsActive(work[w]) /\ IsActive(n)
           \/ NoCurrentAttempt(work[w]) /\ NoCurrentAttempt(n),
           IsActive(n) => IsActive(work[w]) \/ \A v \in Works : ~IsActive(work[v]),
           work' = [work EXCEPT ![w] = n],
           UNCHANGED <<model, tool, runtime, answered>>
    PROVE  StoreInvariant'
  <1>1. WorkInvariant(n, model[w], tool[w])
    BY RowsOf, KeepAttempts
  <1>2. w \in answered' <=> n.state = "completed"
    BY RowsOf DEF IsTerminal, TerminalStates
  <1> QED
    BY <1>1, <1>2, RowsOf, OneWorkStep, ZenonT(60)

(* An action that writes the work row and its attempt rows, away from        *)
(* completion.                                                               *)
LEMMA AttemptRowsStep ==
    ASSUME StoreInvariant, NEW w \in Works, NEW n, NEW m, NEW t,
           work' = [work EXCEPT ![w] = n],
           model' = [model EXCEPT ![w] = m],
           tool' = [tool EXCEPT ![w] = t],
           runtime' = runtime, answered' = answered,
           WorkInvariant(n, m, t),
           work[w].state # "completed", n.state # "completed",
           IsActive(work[w])
    PROVE  StoreInvariant'
  <1>1. w \in answered' <=> n.state = "completed"
    BY RowsOf
  <1> QED
    BY <1>1, RowsOf, OneWorkStep, ZenonT(60)

(* admit_canonical_message fills a row that did not exist.                    *)
LEMMA AdmitMessageStep ==
    ASSUME StoreInvariant, NEW w \in Works, AdmitMessage(w)
    PROVE  StoreInvariant'
  <1>1. InitialSnapshot \in WorkLifecycleSnapshot
    BY ConstantsOK DEF InitialSnapshot, WorkLifecycleSnapshot, WorkStates, AttemptKinds
  <1>2. InitialSnapshot.state = "queued" /\ NoCurrentAttempt(InitialSnapshot)
    BY DEF InitialSnapshot, NoCurrentAttempt
  <1>3. ValidWorkShape(InitialSnapshot)
    <2>1. "queued" \in WorkStates /\ "queued" \notin ActiveStates
      BY DEF WorkStates, ActiveStates
    <2> QED
      BY <2>1, ConstantsOK DEF InitialSnapshot, ValidWorkShape, IsActive, ReasonClass,
         NoCurrentAttempt
  <1>4. work[w] = Absent
    <2>1. work[w].state = "absent"
      BY DEF AdmitMessage
    <2>2. "absent" \notin WorkStates
      BY DEF WorkStates, ActiveStates, TerminalStates
    <2> QED
      BY <2>1, <2>2, RowsOf, ShapeFacts DEF WorkInvariant
  <1>5. ~IsTerminal(work[w]) /\ NoCurrentAttempt(work[w])
    BY <1>4 DEF Absent, IsTerminal, TerminalStates, NoCurrentAttempt
  <1>6. ~IsActive(InitialSnapshot)
    BY <1>2 DEF IsActive, ActiveStates
  <1> QED
    BY <1>1, <1>2, <1>3, <1>5, <1>6, WorkOnlyStep, ZenonT(60) DEF AdmitMessage

(* Reasons and cleanup values that occur in requests.                        *)
LEMMA Vocabulary ==
    /\ "user_request" \in CancellationReasons /\ "graceful_shutdown" \in CancellationReasons
    /\ CancellationReasons \subseteq TerminalReasons
    /\ InterruptionReasons \subseteq TerminalReasons
    /\ "none" \notin CancellationReasons
    /\ "not_required" \in CleanupStatus /\ "confirmed" \in CleanupStatus
  BY DEF CancellationReasons, TerminalReasons, InterruptionReasons, CleanupStatus

(* RequestCancellation leaves owner and attempt in place.                    *)
LEMMA AskToStopNext ==
    ASSUME NEW s \in WorkLifecycleSnapshot, NEW reason \in CancellationReasons,
           DecideWorkTransition(s, RequestCancellation(reason))
    PROVE  LET n == NextSnapshot(s, RequestCancellation(reason)) IN
           /\ n \in WorkLifecycleSnapshot /\ ValidWorkShape(n)
           /\ n.state = "cancel_requested" /\ IsActive(n) /\ IsActive(s) /\ ~IsTerminal(s)
           /\ n.owner = s.owner /\ n.kind = s.kind /\ n.attempt = s.attempt
           /\ n.version = s.version + 1
  <1> DEFINE q == RequestCancellation(reason)
             n == NextSnapshot(s, q)
  <1>1. q.op = "request_cancellation" /\ q.reason = reason /\ q \in Requests
    BY Vocabulary DEF RequestCancellation, Request, Requests, CleanupStatus
  <1>2. n \in WorkLifecycleSnapshot /\ ValidWorkShape(n) /\ ~IsTerminal(s)
        /\ n.version = s.version + 1
    BY <1>1, DecidedSnapshot
  <1>3. n.state = "cancel_requested" /\ n.owner = s.owner /\ n.kind = s.kind
        /\ n.attempt = s.attempt
    BY NextAskToStop
  <1>4. IsActive(s)
    <2>1. TargetState(q) = "cancel_requested"
      BY Targets
    <2>2. IsLegalWorkPair(s.state, "cancel_requested")
      BY <2>1 DEF DecideWorkTransition
    <2> QED
      BY <2>2 DEF IsLegalWorkPair, IsActive, ActiveStates
  <1> QED
    BY <1>2, <1>3, <1>4 DEF IsActive, ActiveStates

(* A terminal request lets go of owner and attempt.                          *)
LEMMA TerminalNext ==
    ASSUME NEW s \in WorkLifecycleSnapshot, NEW q \in Requests,
           q.op \in {"complete", "fail", "cancel", "interrupt"},
           DecideWorkTransition(s, q)
    PROVE  LET n == NextSnapshot(s, q) IN
           /\ n \in WorkLifecycleSnapshot /\ ValidWorkShape(n)
           /\ n.state = TargetState(q) /\ IsTerminal(n) /\ ~IsActive(n) /\ NoCurrentAttempt(n)
           /\ ValidWorkShape(s) /\ ~IsTerminal(s)
           /\ n.version = s.version + 1
  <1>1. TargetState(q) \in TerminalStates
    BY DEF TargetState, TerminalStates
  <1>2. /\ NextSnapshot(s, q) \in WorkLifecycleSnapshot /\ ValidWorkShape(NextSnapshot(s, q))
        /\ NextSnapshot(s, q).state = TargetState(q)
        /\ NextSnapshot(s, q).version = s.version + 1
        /\ ValidWorkShape(s) /\ ~IsTerminal(s)
    BY DecidedSnapshot
  <1>3. NoCurrentAttempt(NextSnapshot(s, q))
    BY DEF NextSnapshot, NoCurrentAttempt
  <1>4. \A x \in TerminalStates : x \notin ActiveStates
    BY DEF TerminalStates, ActiveStates
  <1> QED
    BY <1>1, <1>2, <1>3, <1>4 DEF IsTerminal, IsActive

(* The operation of each terminal request.                                   *)
LEMMA RequestOps ==
    /\ Complete.op = "complete" /\ Fail.op = "fail"
    /\ \A reason, cleanup : Cancel(reason, cleanup).op = "cancel"
    /\ \A reason : Interrupt(reason).op = "interrupt"
    /\ \A r : Start(r).op = "start"
    /\ \A k : /\ WaitForModel(k).op = "wait_for_model" /\ WaitForTool(k).op = "wait_for_tool"
              /\ ResumeFromModel(k).op = "resume_from_model"
              /\ ResumeFromTool(k).op = "resume_from_tool"
  BY DEF Complete, Fail, Cancel, Interrupt, Start, WaitForModel, WaitForTool,
     ResumeFromModel,
         ResumeFromTool, Request

(* A terminal request, other than completion, on a work without a current    *)
(* attempt.                                                                  *)
LEMMA TerminalStep ==
    ASSUME StoreInvariant, NEW w \in Works, NEW q \in Requests,
           q.op \in {"fail", "cancel", "interrupt"},
           NoCurrentAttempt(work[w]),
           DecideWorkTransition(work[w], q),
           work' = [work EXCEPT ![w] = NextSnapshot(work[w], q)],
           UNCHANGED <<model, tool, runtime, answered>>
    PROVE  StoreInvariant'
  <1> DEFINE n == NextSnapshot(work[w], q)
  <1>1. /\ n \in WorkLifecycleSnapshot /\ ValidWorkShape(n)
        /\ n.state = TargetState(q) /\ ~IsActive(n) /\ NoCurrentAttempt(n)
        /\ ~IsTerminal(work[w])
    BY RowsOf, TerminalNext
  <1>2. TargetState(q) # "completed"
    BY DEF TargetState
  <1> QED
    BY <1>1, <1>2, WorkOnlyStep, ZenonT(60)

-----------------------------------------------------------------------------
(* The transactions, one lemma each.                                       *)

(* The cancel command ends a queued work and asks another to stop.            *)
LEMMA CancelCommandStep ==
    ASSUME StoreInvariant, NEW w \in Works, CancelCommand(w)
    PROVE  StoreInvariant'
  <1> DEFINE s == work[w]
             q == DecideCancellation(s, "user_request")
             n == NextSnapshot(s, q)
  <1>1. /\ DecideWorkTransition(s, q) /\ work' = [work EXCEPT ![w] = n]
        /\ UNCHANGED <<model, tool, runtime, answered>>
    BY DEF CancelCommand, GuardedWorkUpdate
  <1>2. CASE s.state = "queued"
    <2>1. q = Cancel("user_request", "not_required")
      BY <1>2 DEF DecideCancellation
    <2>2. q \in Requests /\ q.op = "cancel"
      BY ZenonT(60), <2>1, RequestTypes, RequestOps, Vocabulary
    <2>3. NoCurrentAttempt(s)
      BY <1>1, <1>2, RowsOf, ShapeFacts DEF DecideWorkTransition
    <2> QED
      BY <1>1, <2>2, <2>3, TerminalStep, ZenonT(60)
  <1>3. CASE s.state # "queued"
    <2>1. q = RequestCancellation("user_request")
      BY ZenonT(60), <1>3 DEF DecideCancellation
    <2>2. /\ n \in WorkLifecycleSnapshot /\ ValidWorkShape(n)
          /\ n.state = "cancel_requested" /\ IsActive(n) /\ IsActive(s) /\ ~IsTerminal(s)
          /\ n.owner = s.owner /\ n.kind = s.kind /\ n.attempt = s.attempt
      BY <1>1, <2>1, RowsOf, AskToStopNext, Vocabulary
    <2> QED
      BY <1>1, <2>2, WorkOnlyStep, ZenonT(60)
  <1> QED
    BY <1>2, <1>3

(* claim_next activates a work only when none is active.                      *)
LEMMA ClaimNextStep ==
    ASSUME StoreInvariant, NEW r \in Runtimes, NEW w \in Works, ClaimNext(r, w)
    PROVE  StoreInvariant'
  <1> DEFINE n == NextSnapshot(work[w], Start(r))
  <1>1. /\ DecideWorkTransition(work[w], Start(r)) /\ work' = [work EXCEPT ![w] = n]
        /\ UNCHANGED <<model, tool, runtime, answered>>
        /\ work[w].state = "queued" /\ \A v \in Works : ~IsActive(work[v])
    BY ZenonT(60) DEF ClaimNext, GuardedWorkUpdate, Claimable
  <1>2. /\ n \in WorkLifecycleSnapshot /\ ValidWorkShape(n)
        /\ ValidWorkShape(work[w]) /\ ~IsTerminal(work[w])
    BY ZenonT(60), <1>1, RowsOf, RequestTypes, RequestOps, DecidedSnapshot
  <1>3. n.state = "running" /\ NoCurrentAttempt(n)
    BY NextStart DEF NoCurrentAttempt
  <1>4. NoCurrentAttempt(work[w])
    BY ZenonT(60), <1>1, <1>2, RowsOf, ShapeFacts
  <1> QED
    BY <1>1, <1>2, <1>3, <1>4, WorkOnlyStep, ZenonT(60)

(* request_owned_cancellation keeps every attempt where it is.                *)
LEMMA RequestOwnedCancellationStep ==
    ASSUME StoreInvariant, NEW r \in Runtimes, RequestOwnedCancellation(r)
    PROVE  StoreInvariant'
  <1> DEFINE q == RequestCancellation("graceful_shutdown")
             C == OwnedCancellable(r)
  <1>1. TypeOK /\ SingleActiveWork /\ AnsweredIffCompleted
    BY DEF StoreInvariant
  <1>2. /\ work' = [w \in Works |-> IF w \in C THEN NextSnapshot(work[w], q) ELSE work[w]]
        /\ \A w \in C : DecideWorkTransition(work[w], q)
        /\ UNCHANGED <<model, tool, runtime, answered>>
    BY ZenonT(60) DEF RequestOwnedCancellation
  <1>3. ASSUME NEW w \in Works
        PROVE  /\ WorkInvariant(work'[w], model'[w], tool'[w])
               /\ work'[w] \in WorkLifecycleSnapshot
               /\ IsActive(work'[w]) => IsActive(work[w])
               /\ work'[w].state = "completed" <=> work[w].state = "completed"
    <2>1. CASE w \in C
      <3> DEFINE n == NextSnapshot(work[w], q)
      <3>1. /\ n \in WorkLifecycleSnapshot /\ ValidWorkShape(n)
            /\ n.state = "cancel_requested" /\ IsActive(n) /\ IsActive(work[w])
            /\ ~IsTerminal(work[w])
            /\ n.owner = work[w].owner /\ n.kind = work[w].kind
            /\ n.attempt = work[w].attempt
        BY <1>2, <2>1, RowsOf, AskToStopNext, Vocabulary
      <3>2. WorkInvariant(n, model[w], tool[w])
        BY <3>1, RowsOf, KeepAttempts
      <3>3. work'[w] = n
        BY ZenonT(60), <1>2, <2>1
      <3>4. work[w].state # "completed"
        BY <3>1 DEF IsTerminal, TerminalStates
      <3> HIDE DEF n
      <3> QED
        BY ZenonT(60), <1>2, <3>1, <3>2, <3>3, <3>4
    <2>2. CASE w \notin C
      BY ZenonT(60), <1>2, <2>2, RowsOf
    <2> QED
      BY ZenonT(60), <2>1, <2>2
  <1>4. TypeOK'
    BY <1>1, <1>2, <1>3 DEF TypeOK
  <1>5. SingleActiveWork'
    BY ZenonT(60), <1>1, <1>3 DEF SingleActiveWork
  <1>6. AnsweredIffCompleted'
    BY <1>1, <1>2, <1>3 DEF AnsweredIffCompleted
  <1> QED
    BY <1>3, <1>4, <1>5, <1>6 DEF StoreInvariant, TypeOK, WorkShapes, AttemptsOwned,
       UnknownOutcomesInterrupt, UnconfirmedIsUnknown, WorkInvariant, AttemptOwned,
       AttemptSettled

(* begin_model adds the live row and the wait for it together.                *)
LEMMA BeginModelStep ==
    ASSUME StoreInvariant, NEW w \in Works, NEW k \in Attempts, BeginModel(w, work[w], k)
    PROVE  StoreInvariant'
  <1> DEFINE s == work[w]
             n == NextSnapshot(s, WaitForModel(k))
             m == [model[w] EXCEPT ![k] = [state |-> "requesting", runtime |-> s.owner]]
  <1>1. /\ s.state = "running" /\ NoCurrentAttempt(s) /\ model[w][k].state = "absent"
        /\ DecideWorkTransition(s, WaitForModel(k))
        /\ work' = [work EXCEPT ![w] = n] /\ model' = [model EXCEPT ![w] = m]
        /\ UNCHANGED <<tool, runtime, answered>>
    BY ZenonT(60) DEF BeginModel, GuardedWorkUpdate, SetModel
  <1>2. n \in WorkLifecycleSnapshot /\ ValidWorkShape(n)
    BY ZenonT(60), <1>1, RowsOf, RequestTypes, RequestOps, DecidedSnapshot
  <1>3. n.state = "waiting_on_model" /\ HasAttempt(n, "model", k) /\ n.owner = s.owner
    BY NextWait DEF HasAttempt
  <1>4. WorkInvariant(n, m, tool[w])
    BY ZenonT(60), <1>1, <1>2, <1>3, RowsOf, StartModelAttempt
  <1>5. IsActive(s) /\ s.state # "completed"
    BY <1>1 DEF IsActive, ActiveStates
  <1> HIDE DEF n, m
  <1> QED
    BY <1>1, <1>3, <1>4, <1>5, RowsOf, AttemptRowsStep, ZenonT(60)

(* request_tool does the same for a tool execution.                           *)
LEMMA RequestToolStep ==
    ASSUME StoreInvariant, NEW w \in Works, NEW k \in Attempts, RequestTool(w, work[w], k)
    PROVE  StoreInvariant'
  <1> DEFINE s == work[w]
             n == NextSnapshot(s, WaitForTool(k))
             row == [state |-> "requested", runtime |-> s.owner, cleanup |-> "not_required"]
             t == [tool[w] EXCEPT ![k] = row]
  <1>1. /\ s.state = "running" /\ NoCurrentAttempt(s) /\ tool[w][k].state = "absent"
        /\ DecideWorkTransition(s, WaitForTool(k))
        /\ work' = [work EXCEPT ![w] = n] /\ tool' = [tool EXCEPT ![w] = t]
        /\ UNCHANGED <<model, runtime, answered>>
    BY ZenonT(60) DEF RequestTool, GuardedWorkUpdate, SetTool
  <1>2. n \in WorkLifecycleSnapshot /\ ValidWorkShape(n)
    BY ZenonT(60), <1>1, RowsOf, RequestTypes, RequestOps, DecidedSnapshot
  <1>3. n.state = "waiting_on_tool" /\ HasAttempt(n, "tool", k) /\ n.owner = s.owner
    BY NextWait DEF HasAttempt
  <1>5. row \in ToolRow
    BY RowsOf DEF ToolRow, ToolStates, ToolLive, CleanupStatus, WorkLifecycleSnapshot
  <1>6. row.state = "requested" /\ row.runtime = s.owner /\ row.cleanup = "not_required"
    BY ZenonT(60)
  <1>7. WorkInvariant(n, model[w], t)
    <2> HIDE DEF row, n
    <2> QED
      BY ZenonT(60), <1>1, <1>2, <1>3, <1>5, <1>6, RowsOf, StartToolAttempt
  <1>8. IsActive(s) /\ s.state # "completed"
    BY <1>1 DEF IsActive, ActiveStates
  <1> HIDE DEF n, t
  <1> QED
    BY <1>1, <1>3, <1>7, <1>8, RowsOf, AttemptRowsStep, ZenonT(60)

(* mark_model_streaming and dispatch_tool move a live row to its second live *)
(* state.                                                                    *)
LEMMA MarkModelStreamingStep ==
    ASSUME StoreInvariant, NEW w \in Works, NEW k \in Attempts, MarkModelStreaming(w, k)
    PROVE  StoreInvariant'
  <1> DEFINE s == work[w]
             row == [model[w][k] EXCEPT !.state = "streaming"]
             m == [model[w] EXCEPT ![k] = row]
  <1>1. /\ model[w][k].state = "requesting" /\ model' = [model EXCEPT ![w] = m]
        /\ UNCHANGED <<work, tool, runtime, answered>>
    BY DEF MarkModelStreaming, SetModel
  <1>2. model[w][k] \in ModelRow
    BY RowsOf
  <1>3. row \in ModelRow /\ row.state = "streaming" /\ row.runtime = model[w][k].runtime
    BY <1>2 DEF ModelRow, ModelStates, ModelLive
  <1>4. m \in [Attempts -> ModelRow]
    BY ZenonT(60), <1>3, RowsOf
  <1>5. ASSUME NEW j \in Attempts
        PROVE  AttemptOwned(s, m, tool[w], j) /\ AttemptSettled(s, m, tool[w], j)
    <2> HIDE DEF row
    <2>1. AttemptOwned(s, model[w], tool[w], j) /\ AttemptSettled(s, model[w], tool[w], j)
      BY RowsOf DEF WorkInvariant
    <2>2. m[j] = IF j = k THEN row ELSE model[w][j]
      BY RowsOf
    <2>3. CASE j = k
      BY ZenonT(60), <1>1, <1>3, <2>1, <2>2, <2>3 DEF AttemptOwned, AttemptSettled,
         ModelLive
    <2>4. CASE j # k
      BY <2>1, <2>2, <2>4 DEF AttemptOwned, AttemptSettled
    <2> QED
      BY ZenonT(60), <2>3, <2>4
  <1>6. WorkInvariant(s, m, tool[w])
    BY ZenonT(60), <1>4, <1>5, RowsOf DEF WorkInvariant
  <1>7. IsActive(s) /\ s.state # "completed"
    <2>1. IsActive(s)
      BY <1>1, RowsOf DEF WorkInvariant, AttemptOwned, ModelLive
    <2> QED
      BY ZenonT(60), <2>1 DEF IsActive, ActiveStates
  <1> HIDE DEF m
  <1> QED
    BY <1>1, <1>6, <1>7, RowsOf, AttemptRowsStep, ZenonT(60)

(* dispatch_tool keeps the invariant whatever snapshot its caller holds.      *)
LEMMA DispatchToolStep ==
    ASSUME StoreInvariant, NEW w \in Works, NEW k \in Attempts, NEW e, DispatchTool(w, e, k)
    PROVE  StoreInvariant'
  <1> DEFINE s == work[w]
             row == [tool[w][k] EXCEPT !.state = "dispatching"]
             t == [tool[w] EXCEPT ![k] = row]
  <1>1. /\ tool[w][k].state = "requested" /\ tool' = [tool EXCEPT ![w] = t]
        /\ UNCHANGED <<work, model, runtime, answered>>
    BY DEF DispatchTool, SetTool
  <1>2. tool[w][k] \in ToolRow
    BY RowsOf
  <1>3. /\ row \in ToolRow /\ row.state = "dispatching" /\ row.runtime = tool[w][k].runtime
        /\ row.cleanup = tool[w][k].cleanup
    BY <1>2 DEF ToolRow, ToolStates, ToolLive
  <1>4. t \in [Attempts -> ToolRow]
    BY ZenonT(60), <1>3, RowsOf
  <1>5. ASSUME NEW j \in Attempts
        PROVE  AttemptOwned(s, model[w], t, j) /\ AttemptSettled(s, model[w], t, j)
    <2> HIDE DEF row
    <2>1. AttemptOwned(s, model[w], tool[w], j) /\ AttemptSettled(s, model[w], tool[w], j)
      BY RowsOf DEF WorkInvariant
    <2>2. t[j] = IF j = k THEN row ELSE tool[w][j]
      BY ZenonT(60), RowsOf
    <2>3. CASE j = k
      BY ZenonT(60), <1>1, <1>3, <2>1, <2>2, <2>3 DEF AttemptOwned, AttemptSettled, ToolLive
    <2>4. CASE j # k
      BY ZenonT(60), <2>1, <2>2, <2>4 DEF AttemptOwned, AttemptSettled
    <2> QED
      BY ZenonT(60), <2>3, <2>4
  <1>6. WorkInvariant(s, model[w], t)
    BY ZenonT(60), <1>4, <1>5, RowsOf DEF WorkInvariant
  <1>7. IsActive(s) /\ s.state # "completed"
    <2>1. IsActive(s)
      BY ZenonT(60), <1>1, RowsOf DEF WorkInvariant, AttemptOwned, ToolLive
    <2> QED
      BY <2>1 DEF IsActive, ActiveStates
  <1> HIDE DEF t
  <1> QED
    BY <1>1, <1>6, <1>7, RowsOf, AttemptRowsStep, ZenonT(60)

(* The work's next snapshot after an attempt that was not left unknown is    *)
(* running or cancelled, after an unknown one interrupted.                   *)
LEMMA ModelEndNext ==
    ASSUME NEW s \in WorkLifecycleSnapshot, NEW k \in Attempts, NEW evidence \in ModelEvidence,
           DecideWorkTransition(s, ModelWorkNext(s, k, evidence))
    PROVE  LET n == NextSnapshot(s, ModelWorkNext(s, k, evidence)) IN
           /\ n \in WorkLifecycleSnapshot /\ ValidWorkShape(n)
           /\ NoCurrentAttempt(n) /\ n.state # "completed"
           /\ ModelOutcome(evidence) = "provider_outcome_unknown" => n.state = "interrupted"
  <1> DEFINE q == ModelWorkNext(s, k, evidence)
             n == NextSnapshot(s, q)
  <1>1. CASE evidence = "unknown"
    <2>1. q = Interrupt("provider_outcome_unknown")
      BY ZenonT(60), <1>1 DEF ModelWorkNext
    <2>2. q \in Requests /\ q.op = "interrupt" /\ TargetState(q) = "interrupted"
      BY ZenonT(60), <2>1, RequestTypes, RequestOps, Targets,
         Vocabulary DEF InterruptionReasons
    <2> QED
      <3>1. n \in WorkLifecycleSnapshot /\ ValidWorkShape(n) /\ n.state = "interrupted"
            /\ NoCurrentAttempt(n)
        BY <2>2, TerminalNext
      <3> QED
        BY ZenonT(60), <3>1
  <1>2. CASE evidence # "unknown" /\ s.state = "cancel_requested"
                 /\ evidence \in {"completed", "cancelled"}
    <2>1. q = Cancel(s.cancel, "confirmed")
      BY ZenonT(60), <1>2 DEF ModelWorkNext
    <2>2. s.cancel \in CancellationReasons
      <3>1. ValidWorkShape(s)
        BY ZenonT(60) DEF DecideWorkTransition
      <3> QED
        BY ZenonT(60), <3>1, <1>2, ShapeFacts DEF WorkLifecycleSnapshot
    <2>3. q \in Requests /\ q.op = "cancel" /\ TargetState(q) = "cancelled"
      BY <2>1, <2>2, RequestTypes, RequestOps, Targets, Vocabulary
    <2>4. ModelOutcome(evidence) # "provider_outcome_unknown"
      BY ZenonT(60), <1>2 DEF ModelOutcome
    <2> QED
      <3>1. n \in WorkLifecycleSnapshot /\ ValidWorkShape(n) /\ n.state = "cancelled"
            /\ NoCurrentAttempt(n)
        BY <2>3, TerminalNext
      <3> QED
        BY ZenonT(60), <2>4, <3>1
  <1>3. CASE evidence # "unknown" /\ ~(s.state = "cancel_requested"
                 /\ evidence \in {"completed", "cancelled"})
    <2>1. q = ResumeFromModel(k)
      BY ZenonT(60), <1>3 DEF ModelWorkNext
    <2>2. q \in Requests /\ q.op = "resume_from_model"
      BY ZenonT(60), <2>1, RequestTypes, RequestOps
    <2>3. n \in WorkLifecycleSnapshot /\ ValidWorkShape(n)
      BY ZenonT(60), <2>2, DecidedSnapshot
    <2>4. n.state = "running" /\ NoCurrentAttempt(n)
      BY <2>1, NextResume DEF NoCurrentAttempt
    <2>5. ModelOutcome(evidence) # "provider_outcome_unknown"
      BY ZenonT(60), <1>3 DEF ModelOutcome, ModelEvidence
    <2> QED
      BY ZenonT(60), <2>3, <2>4, <2>5
  <1> QED
    BY ZenonT(60), <1>1, <1>2, <1>3

(* The same for tool executions.                                             *)
LEMMA ToolEndNext ==
    ASSUME NEW s \in WorkLifecycleSnapshot, NEW k \in Attempts, NEW evidence \in ToolEvidence,
           DecideWorkTransition(s, ToolWorkNext(s, k, evidence))
    PROVE  LET n == NextSnapshot(s, ToolWorkNext(s, k, evidence)) IN
           /\ n \in WorkLifecycleSnapshot /\ ValidWorkShape(n)
           /\ NoCurrentAttempt(n) /\ n.state # "completed"
           /\ evidence = "unknown" => n.state = "interrupted"
  <1> DEFINE q == ToolWorkNext(s, k, evidence)
             n == NextSnapshot(s, q)
  <1>1. CASE evidence = "unknown"
    <2>1. q = Interrupt("tool_outcome_unknown")
      BY ZenonT(60), <1>1 DEF ToolWorkNext
    <2>2. q \in Requests /\ q.op = "interrupt" /\ TargetState(q) = "interrupted"
      BY ZenonT(60), <2>1, RequestTypes, RequestOps, Targets,
         Vocabulary DEF InterruptionReasons
    <2>3. n \in WorkLifecycleSnapshot /\ ValidWorkShape(n) /\ n.state = "interrupted"
          /\ NoCurrentAttempt(n)
      BY <2>2, TerminalNext
    <2> QED
      BY <2>3
  <1>2. CASE evidence # "unknown" /\ s.state = "cancel_requested"
    <2>1. q = Cancel(s.cancel, "confirmed")
      BY ZenonT(60), <1>2 DEF ToolWorkNext
    <2>2. s.cancel \in CancellationReasons
      <3>1. ValidWorkShape(s)
        BY DEF DecideWorkTransition
      <3> QED
        BY ZenonT(60), <3>1, <1>2, ShapeFacts DEF WorkLifecycleSnapshot
    <2>3. q \in Requests /\ q.op = "cancel" /\ TargetState(q) = "cancelled"
      BY <2>1, <2>2, RequestTypes, RequestOps, Targets, Vocabulary
    <2>4. n \in WorkLifecycleSnapshot /\ ValidWorkShape(n) /\ n.state = "cancelled"
          /\ NoCurrentAttempt(n)
      BY <2>3, TerminalNext
    <2> QED
      BY ZenonT(60), <1>2, <2>4
  <1>3. CASE evidence # "unknown" /\ s.state # "cancel_requested"
    <2>1. q = ResumeFromTool(k)
      BY ZenonT(60), <1>3 DEF ToolWorkNext
    <2>2. q \in Requests /\ q.op = "resume_from_tool"
      BY ZenonT(60), <2>1, RequestTypes, RequestOps
    <2>3. n \in WorkLifecycleSnapshot /\ ValidWorkShape(n)
      BY ZenonT(60), <2>2, DecidedSnapshot
    <2>4. n.state = "running" /\ NoCurrentAttempt(n)
      BY <2>1, NextResume DEF NoCurrentAttempt
    <2> QED
      BY ZenonT(60), <1>3, <2>3, <2>4
  <1> QED
    BY ZenonT(60), <1>1, <1>2, <1>3

(* finish_model keeps the invariant for every evidence the gateway brings.   *)
LEMMA FinishModelStep ==
    ASSUME StoreInvariant, NEW w \in Works, NEW k \in Attempts,
           NEW evidence \in ModelEvidence, NEW from,
           FinishModel(w, work[w], k, from, ModelOutcome(evidence),
                       ModelWorkNext(work[w], k, evidence))
    PROVE  StoreInvariant'
  <1> DEFINE s == work[w]
             q == ModelWorkNext(s, k, evidence)
             n == NextSnapshot(s, q)
             row == [state |-> ModelOutcome(evidence), runtime |-> s.owner]
             m == [model[w] EXCEPT ![k] = row]
  <1>1. /\ s.state \in {"waiting_on_model", "cancel_requested"} /\ HasAttempt(s, "model", k)
        /\ ModelOutcome(evidence) \in ModelTerminal
        /\ DecideWorkTransition(s, q)
        /\ work' = [work EXCEPT ![w] = n] /\ model' = [model EXCEPT ![w] = m]
        /\ UNCHANGED <<tool, runtime, answered>>
    BY ZenonT(60) DEF FinishModel, GuardedWorkUpdate, SetModel
  <1>2. /\ n \in WorkLifecycleSnapshot /\ ValidWorkShape(n)
        /\ NoCurrentAttempt(n) /\ n.state # "completed"
        /\ ModelOutcome(evidence) = "provider_outcome_unknown" => n.state = "interrupted"
    BY <1>1, RowsOf, ModelEndNext
  <1>3. row \in ModelRow
    BY ZenonT(60), <1>1, RowsOf DEF ModelRow, ModelStates, WorkLifecycleSnapshot
  <1>4. IsActive(s) /\ s.state # "completed"
    BY ZenonT(60), <1>1 DEF IsActive, ActiveStates
  <1>5. row.state = ModelOutcome(evidence)
    BY ZenonT(60)
  <1>6. WorkInvariant(n, m, tool[w])
    <2> HIDE DEF n, row
    <2> QED
      BY ZenonT(60), <1>1, <1>2, <1>3, <1>4, <1>5, RowsOf, EndModelAttempt
  <1> HIDE DEF n, m
  <1> QED
    BY <1>1, <1>2, <1>4, <1>6, RowsOf, AttemptRowsStep, ZenonT(60)

(* finish_tool keeps it for every evidence and cleanup the service brings:   *)
(* unconfirmed cleanup comes with an unknown outcome only.                   *)
LEMMA FinishToolStep ==
    ASSUME StoreInvariant, NEW w \in Works, NEW k \in Attempts,
           NEW evidence \in ToolEvidence, NEW from, NEW cleanup \in ToolCleanup(evidence, from),
           FinishTool(w, work[w], k, from, ToolOutcome(evidence), cleanup,
                      ToolWorkNext(work[w], k, evidence))
    PROVE  StoreInvariant'
  <1> DEFINE s == work[w]
             q == ToolWorkNext(s, k, evidence)
             n == NextSnapshot(s, q)
             row == [state |-> ToolOutcome(evidence), runtime |-> s.owner, cleanup |-> cleanup]
             t == [tool[w] EXCEPT ![k] = row]
  <1>1. /\ s.state \in {"waiting_on_tool", "cancel_requested"} /\ HasAttempt(s, "tool", k)
        /\ DecideWorkTransition(s, q)
        /\ work' = [work EXCEPT ![w] = n] /\ tool' = [tool EXCEPT ![w] = t]
        /\ UNCHANGED <<model, runtime, answered>>
    BY ZenonT(60) DEF FinishTool, GuardedWorkUpdate, SetTool
  <1>2. /\ n \in WorkLifecycleSnapshot /\ ValidWorkShape(n)
        /\ NoCurrentAttempt(n) /\ n.state # "completed"
        /\ evidence = "unknown" => n.state = "interrupted"
    BY <1>1, RowsOf, ToolEndNext
  <1>3. cleanup \in CleanupStatus /\ (cleanup = "unconfirmed" => evidence = "unknown")
    BY ZenonT(60) DEF ToolCleanup, CleanupStatus
  <1>4. row \in ToolRow
    BY ZenonT(60), <1>3, RowsOf DEF ToolRow, ToolStates, ToolTerminal, ToolOutcome,
       WorkLifecycleSnapshot
  <1>5. /\ row.state \in ToolTerminal
        /\ row.state # "completed" => n.state = "interrupted"
        /\ row.cleanup = "unconfirmed" => row.state = "outcome_unknown"
    BY ZenonT(60), <1>2, <1>3 DEF ToolOutcome, ToolTerminal
  <1>6. IsActive(s) /\ s.state # "completed"
    BY ZenonT(60), <1>1 DEF IsActive, ActiveStates
  <1>7. WorkInvariant(n, model[w], t)
    <2> HIDE DEF n, row
    <2> QED
      BY ZenonT(60), <1>1, <1>2, <1>4, <1>5, <1>6, RowsOf, EndToolAttempt
  <1> HIDE DEF n, t
  <1> QED
    BY <1>1, <1>2, <1>6, <1>7, RowsOf, AttemptRowsStep, ZenonT(60)

(* commit_assistant_completion: the message and the completed state together. *)
LEMMA CommitAssistantCompletionStep ==
    ASSUME StoreInvariant, NEW w \in Works, CommitAssistantCompletion(w, work[w])
    PROVE  StoreInvariant'
  <1> DEFINE n == NextSnapshot(work[w], Complete)
  <1>1. /\ NoCurrentAttempt(work[w]) /\ DecideWorkTransition(work[w], Complete)
        /\ work' = [work EXCEPT ![w] = n]
        /\ answered' = answered \cup {w}
        /\ UNCHANGED <<model, tool, runtime>>
    BY ZenonT(60) DEF CommitAssistantCompletion, GuardedWorkUpdate
  <1>2. Complete \in Requests /\ Complete.op = "complete" /\ TargetState(Complete) = "completed"
    BY ZenonT(60), RequestTypes, RequestOps, Targets
  <1>3. /\ n \in WorkLifecycleSnapshot /\ ValidWorkShape(n) /\ n.state = "completed"
        /\ ~IsActive(n) /\ NoCurrentAttempt(n) /\ ~IsTerminal(work[w])
    BY ZenonT(60), <1>1, <1>2, RowsOf, TerminalNext
  <1>4. WorkInvariant(n, model[w], tool[w])
    BY <1>1, <1>3, RowsOf, KeepAttempts
  <1> HIDE DEF n
  <1> QED
    BY <1>1, <1>3, <1>4, RowsOf, OneWorkStep, ZenonT(60)

(* The transactions that end a work without a current attempt: fail_snapshot, *)
(* finish_cancellation and interrupt_owned_work.                              *)
LEMMA TerminalizeOwnedWorkStep ==
    ASSUME StoreInvariant, NEW w \in Works, TerminalizeOwnedWork(w, work[w])
    PROVE  StoreInvariant'
  <1>1. /\ work[w].state = "running" /\ DecideWorkTransition(work[w], Fail)
        /\ work' = [work EXCEPT ![w] = NextSnapshot(work[w], Fail)]
        /\ UNCHANGED <<model, tool, runtime, answered>>
    BY ZenonT(60) DEF TerminalizeOwnedWork, GuardedWorkUpdate
  <1>2. NoCurrentAttempt(work[w])
    BY ZenonT(60), <1>1, RowsOf, ShapeFacts DEF DecideWorkTransition
  <1>3. Fail \in Requests /\ Fail.op = "fail"
    BY RequestTypes, RequestOps
  <1> QED
    BY <1>1, <1>2, <1>3, TerminalStep, ZenonT(60)

(* ... by the owner, for the reason a cancellation carries.                   *)
LEMMA TerminalizeCancelStep ==
    ASSUME StoreInvariant, NEW w \in Works, NEW r \in Runtimes, CancellationFinishable(w, r),
           TerminalizeWork(w, r, Cancel(work[w].cancel, "not_required"))
    PROVE  StoreInvariant'
  <1> DEFINE q == Cancel(work[w].cancel, "not_required")
  <1>1. /\ NoCurrentAttempt(work[w]) /\ work[w].state = "cancel_requested"
        /\ DecideWorkTransition(work[w], q)
        /\ work' = [work EXCEPT ![w] = NextSnapshot(work[w], q)]
        /\ UNCHANGED <<model, tool, runtime, answered>>
    BY ZenonT(60) DEF TerminalizeWork, CancellationFinishable, GuardedWorkUpdate
  <1>2. work[w].cancel \in CancellationReasons
    BY ZenonT(60), <1>1, RowsOf, ShapeFacts DEF DecideWorkTransition, WorkLifecycleSnapshot
  <1>3. q \in Requests /\ q.op = "cancel"
    BY <1>2, RequestTypes, RequestOps, Vocabulary
  <1> HIDE DEF q
  <1> QED
    BY <1>1, <1>3, TerminalStep, ZenonT(60)

(* ... or as interrupted.                                                     *)
LEMMA TerminalizeInterruptStep ==
    ASSUME StoreInvariant, NEW w \in Works, NEW r \in Runtimes, Interruptible(w, r),
           TerminalizeWork(w, r, Interrupt("runtime_ownership_lost"))
    PROVE  StoreInvariant'
  <1> DEFINE q == Interrupt("runtime_ownership_lost")
  <1>1. /\ NoCurrentAttempt(work[w]) /\ DecideWorkTransition(work[w], q)
        /\ work' = [work EXCEPT ![w] = NextSnapshot(work[w], q)]
        /\ UNCHANGED <<model, tool, runtime, answered>>
    BY DEF TerminalizeWork, Interruptible, GuardedWorkUpdate
  <1>2. q \in Requests /\ q.op = "interrupt"
    BY ZenonT(60), RequestTypes, RequestOps, Vocabulary DEF InterruptionReasons
  <1> HIDE DEF q
  <1> QED
    BY <1>1, <1>2, TerminalStep, ZenonT(60)

(* Recovery asks for a terminal state, and never reports a work cancelled     *)
(* whose attempt row it has to mark unknown or interrupted.                   *)
LEMMA RecoveryNext ==
    ASSUME StoreInvariant, NEW w \in Works, IsActive(work[w]),
           DecideWorkTransition(work[w], RecoveryRequest(w))
    PROVE  LET n == NextSnapshot(work[w], RecoveryRequest(w)) IN
           /\ n \in WorkLifecycleSnapshot /\ ValidWorkShape(n) /\ NoCurrentAttempt(n)
           /\ n.state \in {"cancelled", "interrupted"} /\ ~IsActive(n)
           /\ n.state # "interrupted" => RecoveryReason(w) = "runtime_ownership_lost"
  <1> DEFINE s == work[w]
             q == RecoveryRequest(w)
             n == NextSnapshot(s, q)
  <1>1. CASE s.state = "cancel_requested" /\ RecoveryReason(w) = "runtime_ownership_lost"
    <2>1. q = Cancel(s.cancel, "not_required")
      BY <1>1 DEF RecoveryRequest
    <2>2. s.cancel \in CancellationReasons
      BY ZenonT(60), <1>1, RowsOf, ShapeFacts DEF DecideWorkTransition,
         WorkLifecycleSnapshot
    <2>3. q \in Requests /\ q.op = "cancel" /\ TargetState(q) = "cancelled"
      BY <2>1, <2>2, RequestTypes, RequestOps, Targets, Vocabulary
    <2>4. n \in WorkLifecycleSnapshot /\ ValidWorkShape(n) /\ n.state = "cancelled"
          /\ NoCurrentAttempt(n) /\ ~IsActive(n)
      BY ZenonT(60), <2>3, RowsOf, TerminalNext
    <2> QED
      BY ZenonT(60), <1>1, <2>4
  <1>2. CASE ~(s.state = "cancel_requested" /\ RecoveryReason(w) = "runtime_ownership_lost")
    <2>1. q = Interrupt(RecoveryReason(w))
      BY <1>2 DEF RecoveryRequest
    <2>2. RecoveryReason(w) \in InterruptionReasons
      BY ZenonT(60) DEF RecoveryReason, InterruptionReasons
    <2>3. q \in Requests /\ q.op = "interrupt" /\ TargetState(q) = "interrupted"
      BY ZenonT(60), <2>1, <2>2, RequestTypes, RequestOps, Targets, Vocabulary
    <2>4. n \in WorkLifecycleSnapshot /\ ValidWorkShape(n) /\ n.state = "interrupted"
          /\ NoCurrentAttempt(n) /\ ~IsActive(n)
      BY <2>3, RowsOf, TerminalNext
    <2> QED
      BY ZenonT(60), <2>4
  <1> QED
    BY ZenonT(60), <1>1, <1>2

(* What recover_work_unit makes of the live rows it can meet.                 *)
LEMMA RecoveredRows ==
    /\ \A x \in ModelLive : RecoveredRow(x) = "provider_outcome_unknown"
    /\ RecoveredRow("requested") = "interrupted_before_dispatch"
    /\ RecoveredRow("dispatching") = "outcome_unknown"
  BY DEF RecoveredRow, ModelLive

(* recover_work_unit, by the kind of the attempt the work waits for.          *)
LEMMA RecoverWorkUnitStep ==
    ASSUME StoreInvariant, NEW w \in Works, NEW r \in Runtimes, RecoverWorkUnit(w, r)
    PROVE  StoreInvariant'
  <1> DEFINE s == work[w]
             k == s.attempt
             n == NextSnapshot(s, RecoveryRequest(w))
  <1>1. /\ IsActive(s) /\ s.owner = r
        /\ DecideWorkTransition(s, RecoveryRequest(w))
        /\ work' = [work EXCEPT ![w] = n]
        /\ UNCHANGED <<runtime, answered>>
    BY ZenonT(60) DEF RecoverWorkUnit, GuardedWorkUpdate
  <1>2. /\ n \in WorkLifecycleSnapshot /\ ValidWorkShape(n) /\ NoCurrentAttempt(n)
        /\ n.state \in {"cancelled", "interrupted"} /\ ~IsActive(n)
        /\ n.state # "interrupted" => RecoveryReason(w) = "runtime_ownership_lost"
    BY ZenonT(60), <1>1, RecoveryNext
  <1>3. ValidWorkShape(s) /\ ~IsTerminal(s) /\ s.state # "completed" /\ n.state # "completed"
    BY ZenonT(60), <1>1, <1>2 DEF DecideWorkTransition, IsTerminal, TerminalStates
  <1>4. s.kind \in {"none", "model", "tool"} /\ (s.kind # "none" => k \in Attempts)
    BY <1>3, RowsOf, ShapeFacts DEF WorkLifecycleSnapshot, AttemptKinds
  <1>5. CASE s.kind = "none"
    <2>1. UNCHANGED <<model, tool>>
      BY <1>5 DEF RecoverWorkUnit
    <2>2. NoCurrentAttempt(s)
      <3>1. s.state # "waiting_on_model" /\ s.state # "waiting_on_tool"
        BY <1>3, <1>5, RowsOf, ShapeFacts
      <3> QED
        BY ZenonT(60), <1>3, <1>5, <3>1 DEF ValidWorkShape, NoCurrentAttempt
    <2> HIDE DEF n
    <2> QED
      BY <1>1, <1>2, <1>3, <2>1, <2>2, WorkOnlyStep, ZenonT(60)
  <1>6. CASE s.kind = "model"
    <2> DEFINE row == [state |-> RecoveredRow(model[w][k].state), runtime |-> r]
               m == [model[w] EXCEPT ![k] = row]
    <2>1. model' = [model EXCEPT ![w] = m] /\ tool' = tool
      BY ZenonT(60), <1>6 DEF RecoverWorkUnit, SetModel
    <2>2. k \in Attempts /\ HasAttempt(s, "model", k)
      BY <1>4, <1>6 DEF HasAttempt
    <2>3. model[w][k].state \in ModelLive
      BY ZenonT(60), <1>1, <2>2, RowsOf DEF WorkInvariant, AttemptOwned
    <2>4. row.state = "provider_outcome_unknown"
      BY ZenonT(60), <2>3, RecoveredRows
    <2>5. row \in ModelRow /\ row.state \in ModelTerminal
      BY ZenonT(60), <2>4 DEF ModelRow, ModelStates, ModelTerminal
    <2>6. n.state = "interrupted"
      <3>1. CurrentRow(w) = model[w][k].state
        BY ZenonT(60), <1>6 DEF CurrentRow
      <3>2. RecoveredRow(CurrentRow(w)) = "provider_outcome_unknown"
        BY <2>3, <3>1, RecoveredRows
      <3>3. RecoveryReason(w) # "runtime_ownership_lost"
        BY <3>2 DEF RecoveryReason
      <3> QED
        BY <1>2, <3>3
    <2>7. WorkInvariant(n, m, tool[w])
      <3> HIDE DEF n, row
      <3> QED
        BY <1>1, <1>2, <1>3, <2>2, <2>5, <2>6, RowsOf, EndModelAttempt, ZenonT(60)
    <2> HIDE DEF n, m
    <2> QED
      BY <1>1, <1>3, <2>1, <2>7, RowsOf, AttemptRowsStep, ZenonT(60)
  <1>7. CASE s.kind = "tool"
    <2> DEFINE old == tool[w][k]
               cleanup == IF old.state = "dispatching" THEN "unconfirmed" ELSE old.cleanup
               row == [state |-> RecoveredRow(old.state), runtime |-> r, cleanup |-> cleanup]
               t == [tool[w] EXCEPT ![k] = row]
    <2>1. tool' = [tool EXCEPT ![w] = t] /\ model' = model
      BY <1>7 DEF RecoverWorkUnit, SetTool
    <2>2. k \in Attempts /\ HasAttempt(s, "tool", k)
      BY ZenonT(60), <1>4, <1>7 DEF HasAttempt
    <2>3. old.state \in ToolLive /\ (old.cleanup = "unconfirmed" => old.state = "outcome_unknown")
          /\ old \in ToolRow
      BY <1>1, <2>2, RowsOf DEF WorkInvariant, AttemptOwned, AttemptSettled
    <2>4. \/ old.state = "requested" /\ row.state = "interrupted_before_dispatch"
             /\ cleanup # "unconfirmed"
          \/ old.state = "dispatching" /\ row.state = "outcome_unknown"
      BY ZenonT(60), <2>3, RecoveredRows DEF ToolLive
    <2>5. cleanup \in CleanupStatus
      BY <2>3 DEF ToolRow, CleanupStatus
    <2>6. row \in ToolRow /\ row.state \in ToolTerminal /\ row.cleanup = cleanup
      BY <2>4, <2>5, ZenonT(60) DEF ToolRow, ToolStates, ToolTerminal
    <2>7. n.state = "interrupted"
      <3>1. CurrentRow(w) = old.state
        BY ZenonT(60), <1>7 DEF CurrentRow
      <3>2. RecoveredRow(CurrentRow(w)) \in {"interrupted_before_dispatch", "outcome_unknown"}
        BY <2>4, <3>1, RecoveredRows
      <3>3. RecoveryReason(w) # "runtime_ownership_lost"
        BY ZenonT(60), <3>2 DEF RecoveryReason
      <3> QED
        BY <1>2, <3>3
    <2>8. WorkInvariant(n, model[w], t)
      <3>1. row.cleanup = "unconfirmed" => row.state = "outcome_unknown"
        BY <2>4, <2>6, ZenonT(60)
      <3> HIDE DEF n, row
      <3> QED
        BY ZenonT(60), <1>1, <1>2, <1>3, <2>2, <2>6, <2>7, <3>1, RowsOf, EndToolAttempt
    <2> HIDE DEF n, t
    <2> QED
      BY <1>1, <1>3, <2>1, <2>8, RowsOf, AttemptRowsStep, ZenonT(60)
  <1> QED
    BY <1>4, <1>5, <1>6, <1>7

(* The steps of a runtime row leave the rest of the store alone.              *)
LEMMA RuntimeRowStep ==
    ASSUME StoreInvariant, NEW r \in Runtimes, NEW x \in RuntimeStates, SetRuntime(r, x),
           UNCHANGED <<work, model, tool, answered>>
    PROVE  StoreInvariant'
  <1>1. TypeOK'
    BY DEF StoreInvariant, TypeOK, SetRuntime
  <1> QED
    BY <1>1, ZenonT(60) DEF StoreInvariant, WorkShapes, SingleActiveWork, AttemptsOwned,
       UnknownOutcomesInterrupt, UnconfirmedIsUnknown, AnsweredIffCompleted

-----------------------------------------------------------------------------
(* The empty store satisfies the invariant.                                   *)
LEMMA InitInvariant == Init => StoreInvariant
  <1> SUFFICES ASSUME Init PROVE StoreInvariant
    OBVIOUS
  <1>1. Absent \in WorkLifecycleSnapshot
    BY AbsentTyped
  <1>2. NoModelRow \in ModelRow /\ NoToolRow \in ToolRow
    BY DEF NoModelRow, NoToolRow, ModelRow, ToolRow, CleanupStatus
  <1>3. TypeOK
    BY <1>1, <1>2 DEF Init, TypeOK, RuntimeStates
  <1>4. /\ Absent.state \notin ActiveStates /\ Absent.state # "completed"
        /\ NoModelRow.state \notin ModelLive \cup {"provider_outcome_unknown"}
        /\ NoToolRow.state \notin
               ToolLive \cup {"interrupted_before_dispatch", "outcome_unknown"}
        /\ NoToolRow.cleanup # "unconfirmed"
    BY DEF Absent, NoModelRow, NoToolRow, ActiveStates, ModelLive, ToolLive
  <1> QED
    BY <1>3, <1>4, ZenonT(60) DEF Init, StoreInvariant, WorkShapes, SingleActiveWork,
       AttemptsOwned,
       UnknownOutcomesInterrupt, UnconfirmedIsUnknown, AnsweredIffCompleted, IsActive

(* Every step of every service preserves it.                                  *)
LEMMA NextInvariant == StoreInvariant /\ [Next]_storeVars => StoreInvariant'
  <1> SUFFICES ASSUME StoreInvariant, [Next]_storeVars PROVE StoreInvariant'
    BY ZenonT(60)
  <1>1. ASSUME NEW w \in Works, WorkStep(w) PROVE StoreInvariant'
    BY ZenonT(60), <1>1, AdmitMessageStep, CancelCommandStep, CommitAssistantCompletionStep,
       TerminalizeOwnedWorkStep DEF WorkStep
  <1>2. ASSUME NEW w \in Works, NEW k \in Attempts, AttemptStep(w, k) PROVE StoreInvariant'
    <2>1. CASE BeginModel(w, work[w], k)
      BY <2>1, BeginModelStep
    <2>2. CASE MarkModelStreaming(w, k)
      BY ZenonT(60), <2>2, MarkModelStreamingStep
    <2>3. CASE \E evidence \in ModelEvidence :
                   FinishModel(w, work[w], k, model[w][k].state, ModelOutcome(evidence),
                               ModelWorkNext(work[w], k, evidence))
      BY <2>3, FinishModelStep
    <2>4. CASE RequestTool(w, work[w], k)
      BY <2>4, RequestToolStep
    <2>5. CASE DispatchTool(w, [work[w] EXCEPT !.state = "waiting_on_tool"], k)
      BY ZenonT(60), <2>5, DispatchToolStep
    <2>6. CASE \E evidence \in ToolEvidence :
               \E cleanup \in ToolCleanup(evidence, tool[w][k].state) :
                   FinishTool(w, work[w], k, tool[w][k].state, ToolOutcome(evidence), cleanup,
                              ToolWorkNext(work[w], k, evidence))
      BY ZenonT(60), <2>6, FinishToolStep
    <2> QED
      BY ZenonT(60), <1>2, <2>1, <2>2, <2>3, <2>4, <2>5, <2>6 DEF AttemptStep
  <1>3. ASSUME NEW w \in Works, NEW r \in Runtimes, OwnerStep(w, r) PROVE StoreInvariant'
    BY ZenonT(60), <1>3, ClaimNextStep, TerminalizeCancelStep, TerminalizeInterruptStep,
       RecoverWorkUnitStep DEF OwnerStep
  <1>4. ASSUME NEW r \in Runtimes, RuntimeStep(r) PROVE StoreInvariant'
    <2>1. CASE RequestOwnedCancellation(r)
      BY <2>1, RequestOwnedCancellationStep
    <2>2. CASE ~RequestOwnedCancellation(r)
      <3>1. PICK x \in RuntimeStates : SetRuntime(r, x) /\ UNCHANGED <<work, model, tool, answered>>
        BY ZenonT(60), <1>4, <2>2 DEF RuntimeStep, CreateRuntime, BeginRuntimeStopping,
           FinishRuntimeGraceful, MarkRuntimeStartupFailure, CloseStaleRuntime, RuntimeStates
      <3> QED
        BY ZenonT(60), <3>1, RuntimeRowStep
    <2> QED
      BY <2>1, <2>2
  <1>5. CASE UNCHANGED storeVars
    <2>1. work' = work /\ model' = model /\ tool' = tool /\ runtime' = runtime /\ answered' = answered
      BY ZenonT(60), <1>5 DEF storeVars
    <2>2. TypeOK' /\ WorkShapes' /\ SingleActiveWork'
      BY ZenonT(60), <2>1 DEF StoreInvariant, TypeOK, WorkShapes, SingleActiveWork
    <2>3. AttemptsOwned'
      BY <2>1, ZenonT(60) DEF StoreInvariant, AttemptsOwned
    <2>4. UnknownOutcomesInterrupt' /\ UnconfirmedIsUnknown' /\ AnsweredIffCompleted'
      BY <2>1 DEF StoreInvariant, UnknownOutcomesInterrupt, UnconfirmedIsUnknown,
         AnsweredIffCompleted
    <2> QED
      BY ZenonT(60), <2>2, <2>3, <2>4 DEF StoreInvariant
  <1> QED
    BY ZenonT(60), <1>1, <1>2, <1>3, <1>4, <1>5 DEF Next

(* Whatever order the services call their transactions in, and wherever the  *)
(* process stops and recovers, the durable state keeps its invariant: legal   *)
(* shapes, one active work, live attempts owned by the work waiting for them, *)
(* unknown outcomes interrupting their work, an answer for exactly the        *)
(* completed works.                                                           *)
THEOREM StoreSafety == Spec => []StoreInvariant
  BY InitInvariant, NextInvariant, PTL DEF Spec

(* A cancelled work is settled (docs/protocol.md:51): no attempt of it is     *)
(* live or of unknown outcome, and no tool cleanup is unconfirmed.            *)
THEOREM CancellationSettled == Spec => []CancelledMeansSettled
  <1>1. StoreInvariant => CancelledMeansSettled
    <2> SUFFICES ASSUME StoreInvariant, NEW w \in Works, work[w].state = "cancelled",
                        NEW k \in Attempts
                 PROVE  /\ model[w][k].state \in
                               {"absent", "completed", "failed", "cancelled_locally"}
                        /\ tool[w][k].state \in {"absent", "completed"}
                        /\ tool[w][k].cleanup # "unconfirmed"
      BY ZenonT(60) DEF CancelledMeansSettled
    <2>1. ~IsActive(work[w])
      BY ZenonT(60) DEF IsActive, ActiveStates
    <2>2. AttemptOwned(work[w], model[w], tool[w], k) /\ AttemptSettled(work[w], model[w], tool[w], k)
      BY ZenonT(60), RowsOf DEF WorkInvariant
    <2>3. /\ model[w][k].state \notin ModelLive \cup {"provider_outcome_unknown"}
          /\ tool[w][k].state \notin
                 ToolLive \cup {"interrupted_before_dispatch", "outcome_unknown"}
          /\ tool[w][k].cleanup # "unconfirmed"
      BY ZenonT(60), <2>1, <2>2 DEF AttemptOwned, AttemptSettled
    <2>4. model[w][k] \in ModelRow /\ tool[w][k] \in ToolRow
      BY RowsOf
    <2> QED
      BY ZenonT(60), <2>3, <2>4 DEF ModelRow, ToolRow, ModelStates, ToolStates,
         ModelTerminal,
         ToolTerminal
  <1> QED
    BY <1>1, StoreSafety, PTL
=============================================================================
