----------------------------- MODULE EngineLemmas -----------------------------
(***************************************************************************)
(* The lemmas under the proof that the engine keeps its invariant.  What   *)
(* one operation of the store does to the rows, as far as the engine can   *)
(* tell: a row moves forward only (Tame); whatever the others do to the    *)
(* work of a live runner, they leave its rows alone, ask it to stop or     *)
(* recover it (Outside).  Then the frames: what a step of somebody else    *)
(* leaves of the runner's part of the invariant (RunnerUndisturbed), what  *)
(* a step that leaves the scheduler alone leaves of the rest               *)
(* (RestUndisturbed), the ways a step of the runner can go (it ends, it    *)
(* goes on with a row it has just read, it moves inside its program), and  *)
(* the pieces that make any step sound (Assembled, Assembles).             *)
(***************************************************************************)
EXTENDS Engine, WorkStoreProofs

(* A row that changes gets a higher version; a work does not become active   *)
(* or change hands; a work asked to stop only ends.                          *)
Tame(v) ==
    LET s == work[v]
        n == work'[v]
    IN
    /\ n = s \/ n.version = s.version + 1
    /\ IsActive(n) => IsActive(s) /\ n.owner = s.owner
    /\ s.state = "cancel_requested" => n = s \/ IsTerminal(n)
    /\ IsTerminal(s) => n = s
    /\ s.state \notin {"absent", "queued"} => n.state \notin {"absent", "queued"}

RowsKept(v) == work'[v] = work[v] /\ model'[v] = model[v] /\ tool'[v] = tool[v]

AskedToStop(v) ==
    /\ IsActive(work[v]) /\ work'[v].state = "cancel_requested"
    /\ work'[v].kind = work[v].kind /\ work'[v].attempt = work[v].attempt
    /\ model'[v] = model[v] /\ tool'[v] = tool[v]

(* The states of the attempt rows after a recovery.                          *)
Recovered(v) ==
    /\ IsActive(work[v]) /\ IsTerminal(work'[v]) /\ NoCurrentAttempt(work'[v])
    /\ work[v].kind # "none" => work'[v].state = "interrupted"
    /\ \A k \in Attempts :
           /\ \/ model'[v][k].state = model[v][k].state
              \/ /\ model[v][k].state \in ModelLive
                 /\ model'[v][k].state = "provider_outcome_unknown"
           /\ \/ tool'[v][k].state = tool[v][k].state
              \/ /\ tool[v][k].state = "requested"
                 /\ tool'[v][k].state = "interrupted_before_dispatch"
              \/ /\ tool[v][k].state = "dispatching"
                 /\ tool'[v][k].state = "outcome_unknown"

AttemptsKept(v) == model'[v] = model[v] /\ tool'[v] = tool[v]

Outside(v) ==
    /\ AttemptsKept(v) \/ Recovered(v)
    /\ work[v].state \notin {"absent", "queued"} =>
           RowsKept(v) \/ AskedToStop(v) \/ Recovered(v)

-----------------------------------------------------------------------------
(* The states a legal transition leads from and to.                          *)
LEMMA LegalWorkPairs ==
    ASSUME NEW a, NEW b, IsLegalWorkPair(a, b)
    PROVE  /\ a \notin TerminalStates /\ a # "absent"
           /\ b \notin {"absent", "queued"}
           /\ a = "cancel_requested" => b \in TerminalStates
           /\ a = "queued" => b \in {"running", "cancelled"}
           /\ b = "cancel_requested" => a \in ActiveStates
           /\ b = "interrupted" => a \in ActiveStates
           /\ b = "cancelled" => a \in {"queued", "cancel_requested"}
  BY SMT DEF IsLegalWorkPair, TerminalStates, ActiveStates

(* Only a claim starts a work.                                               *)
LEMMA StartOnly ==
    ASSUME NEW q \in Requests, q.op # "start", NEW s, IsLegalWorkPair(s.state, TargetState(q)),
           EvidenceSatisfied(s, q), ValidWorkShape(s)
    PROVE  s.state = "queued" => TargetState(q) = "cancelled"
  <1> SUFFICES ASSUME s.state = "queued", TargetState(q) = "running" PROVE FALSE
    BY ZenonT(60), LegalWorkPairs
  <1>1. q.op \in {"resume_from_model", "resume_from_tool"}
    BY ZenonT(60), SMT DEF TargetState, Requests
  <1>2. NoCurrentAttempt(s)
    BY DEF ValidWorkShape
  <1> QED
    BY ZenonT(60), <1>1, <1>2 DEF EvidenceSatisfied, HasAttempt, NoCurrentAttempt

(* A guarded update is tame, whatever its request, unless it starts a work.  *)
LEMMA GuardedUpdateTame ==
    ASSUME StoreInvariant, NEW w \in Works, NEW e, NEW q \in Requests, q.op # "start",
           GuardedWorkUpdate(w, e, q)
    PROVE  /\ \A v \in Works : Tame(v)
           /\ \A v \in Works : v # w => work'[v] = work[v]
           /\ work'[w] = NextSnapshot(e, q)
           /\ ~IsTerminal(work[w])
  <1> DEFINE n == NextSnapshot(e, q)
  <1>1. /\ Matches(e, work[w]) /\ DecideWorkTransition(e, q)
        /\ work' = [work EXCEPT ![w] = n]
    BY DEF GuardedWorkUpdate
  <1>2. /\ work \in [Works -> WorkLifecycleSnapshot]
        /\ work'[w] = n
        /\ \A v \in Works : v # w => work'[v] = work[v]
    BY ZenonT(60), <1>1 DEF StoreInvariant, TypeOK
  <1>3. /\ e.state = work[w].state /\ e.version = work[w].version /\ e.owner = work[w].owner
    BY ZenonT(60), <1>1 DEF Matches
  <1>4. /\ IsLegalWorkPair(e.state, TargetState(q)) /\ EvidenceSatisfied(e, q)
        /\ ValidWorkShape(e)
    BY ZenonT(60), <1>1 DEF DecideWorkTransition
  <1>5. /\ n.state = TargetState(q) /\ n.version = e.version + 1
        /\ n.owner = IF TargetState(q) \in TerminalStates THEN NoRuntime ELSE e.owner
    BY DEF NextSnapshot
  <1>6. e.state = "queued" => TargetState(q) = "cancelled"
    BY ZenonT(60), <1>4, StartOnly
  <1>7. Tame(w)
    <2>1. IsActive(n) => IsActive(work[w]) /\ n.owner = work[w].owner
      <3>1. TargetState(q) \in ActiveStates => e.state \in ActiveStates
        <4>1. e.state \in WorkStates
          BY ZenonT(60), <1>4 DEF ValidWorkShape
        <4> QED
          BY ZenonT(60), <4>1, <1>4, <1>6, LegalWorkPairs DEF WorkStates, ActiveStates
      <3>2. TargetState(q) \in ActiveStates => TargetState(q) \notin TerminalStates
        BY ZenonT(60) DEF ActiveStates, TerminalStates
      <3> QED
        BY ZenonT(60), <3>1, <3>2, <1>3, <1>5 DEF IsActive
    <2>2. ~IsTerminal(work[w])
      BY ZenonT(60), <1>3, <1>4, LegalWorkPairs DEF IsTerminal
    <2>3. work[w].state = "cancel_requested" => IsTerminal(n)
      BY ZenonT(60), <1>3, <1>4, <1>5, LegalWorkPairs DEF IsTerminal
    <2>4. n.state \notin {"absent", "queued"}
      BY ZenonT(60), <1>4, <1>5, LegalWorkPairs
    <2> QED
      BY ZenonT(60), <1>2, <1>3, <1>5, <2>1, <2>2, <2>3, <2>4 DEF Tame
  <1>8. \A v \in Works : v # w => Tame(v)
    BY ZenonT(60), <1>2 DEF Tame
  <1>9. ~IsTerminal(work[w])
    BY <1>3, <1>4, LegalWorkPairs DEF IsTerminal
  <1> QED
    BY ZenonT(60), <1>2, <1>7, <1>8, <1>9

-----------------------------------------------------------------------------
(* Writing one attempt row leaves every other row alone.                     *)
LEMMA SetModelRow ==
    ASSUME StoreInvariant, NEW w \in Works, NEW k \in Attempts, NEW row, SetModel(w, k, row)
    PROVE  /\ model'[w][k] = row
           /\ \A j \in Attempts : j # k => model'[w][j] = model[w][j]
           /\ \A v \in Works : v # w => model'[v] = model[v]
  BY DEF StoreInvariant, TypeOK, SetModel

(* The same of tool_executions: one row is written, all others stay.         *)
LEMMA SetToolRow ==
    ASSUME StoreInvariant, NEW w \in Works, NEW k \in Attempts, NEW row, SetTool(w, k, row)
    PROVE  /\ tool'[w][k] = row
           /\ \A j \in Attempts : j # k => tool'[w][j] = tool[w][j]
           /\ \A v \in Works : v # w => tool'[v] = tool[v]
  BY ZenonT(60) DEF StoreInvariant, TypeOK, SetTool

(* Operations on a row as it is now.                                         *)
LEMMA WorkUpdate ==
    ASSUME StoreInvariant, NEW w \in Works, NEW q \in Requests, q.op # "start",
           GuardedWorkUpdate(w, work[w], q)
    PROVE  /\ \A v \in Works : Tame(v)
           /\ \A v \in Works : v # w => work'[v] = work[v]
           /\ work'[w] = NextSnapshot(work[w], q)
           /\ DecideWorkTransition(work[w], q)
           /\ ValidWorkShape(work[w]) /\ work[w] \in WorkLifecycleSnapshot
  <1>1. DecideWorkTransition(work[w], q)
    BY ZenonT(60) DEF GuardedWorkUpdate
  <1>2. ValidWorkShape(work[w])
    BY ZenonT(60), <1>1 DEF DecideWorkTransition
  <1> QED
    BY <1>1, <1>2, RowsOf, GuardedUpdateTame

(* begin_model.                                                              *)
LEMMA BeginModelEffect ==
    ASSUME StoreInvariant, NEW w \in Works, NEW k \in Attempts, BeginModel(w, work[w], k)
    PROVE  /\ \A v \in Works : Tame(v)
           /\ \A v \in Works : v # w => RowsKept(v)
           /\ work'[w] = NextSnapshot(work[w], WaitForModel(k))
           /\ IsActive(work'[w]) /\ HasAttempt(work'[w], "model", k)
           /\ model[w][k].state = "absent" /\ model'[w][k].state = "requesting"
           /\ \A j \in Attempts : j # k => model'[w][j] = model[w][j]
           /\ tool' = tool /\ runtime' = runtime
  <1>1. /\ GuardedWorkUpdate(w, work[w], WaitForModel(k)) /\ model[w][k].state = "absent"
        /\ SetModel(w, k, [state |-> "requesting", runtime |-> work[w].owner])
        /\ UNCHANGED <<tool, runtime, answered>>
    BY ZenonT(60) DEF BeginModel
  <1>2. WaitForModel(k) \in Requests /\ WaitForModel(k).op # "start"
    BY ZenonT(60), RequestTypes, RequestOps
  <1>3. /\ \A v \in Works : Tame(v)
        /\ \A v \in Works : v # w => work'[v] = work[v]
        /\ work'[w] = NextSnapshot(work[w], WaitForModel(k))
    BY ZenonT(60), <1>1, <1>2, WorkUpdate
  <1>4. IsActive(work'[w]) /\ HasAttempt(work'[w], "model", k)
    BY <1>3, NextWait DEF IsActive, ActiveStates, HasAttempt
  <1>5. /\ model'[w][k].state = "requesting"
        /\ \A j \in Attempts : j # k => model'[w][j] = model[w][j]
        /\ \A v \in Works : v # w => model'[v] = model[v]
    BY <1>1, SetModelRow
  <1> QED
    BY ZenonT(60), <1>1, <1>3, <1>4, <1>5 DEF RowsKept

(* request_tool.                                                             *)
LEMMA RequestToolEffect ==
    ASSUME StoreInvariant, NEW w \in Works, NEW k \in Attempts, RequestTool(w, work[w], k)
    PROVE  /\ \A v \in Works : Tame(v)
           /\ \A v \in Works : v # w => RowsKept(v)
           /\ work'[w] = NextSnapshot(work[w], WaitForTool(k))
           /\ IsActive(work'[w]) /\ HasAttempt(work'[w], "tool", k)
           /\ tool[w][k].state = "absent" /\ tool'[w][k].state = "requested"
           /\ \A j \in Attempts : j # k => tool'[w][j] = tool[w][j]
           /\ model' = model /\ runtime' = runtime
  <1> DEFINE row == [state |-> "requested", runtime |-> work[w].owner,
                     cleanup |-> "not_required"]
  <1>1. /\ GuardedWorkUpdate(w, work[w], WaitForTool(k)) /\ tool[w][k].state = "absent"
        /\ SetTool(w, k, row)
        /\ UNCHANGED <<model, runtime, answered>>
    BY ZenonT(60) DEF RequestTool
  <1>2. WaitForTool(k) \in Requests /\ WaitForTool(k).op # "start"
    BY ZenonT(60), RequestTypes, RequestOps
  <1>3. /\ \A v \in Works : Tame(v)
        /\ \A v \in Works : v # w => work'[v] = work[v]
        /\ work'[w] = NextSnapshot(work[w], WaitForTool(k))
    BY ZenonT(60), <1>1, <1>2, WorkUpdate
  <1>4. IsActive(work'[w]) /\ HasAttempt(work'[w], "tool", k)
    BY <1>3, NextWait DEF IsActive, ActiveStates, HasAttempt
  <1>5. /\ tool'[w][k].state = "requested"
        /\ \A j \in Attempts : j # k => tool'[w][j] = tool[w][j]
        /\ \A v \in Works : v # w => tool'[v] = tool[v]
    BY <1>1, SetToolRow
  <1> QED
    BY ZenonT(60), <1>1, <1>3, <1>4, <1>5 DEF RowsKept

(* The requests of finish_model and finish_tool.                             *)
LEMMA FinishRequests ==
    ASSUME NEW s \in WorkLifecycleSnapshot, ValidWorkShape(s), NEW k \in Attempts, NEW evidence
    PROVE  /\ ModelWorkNext(s, k, evidence) \in Requests
           /\ ModelWorkNext(s, k, evidence).op # "start"
           /\ ToolWorkNext(s, k, evidence) \in Requests
           /\ ToolWorkNext(s, k, evidence).op # "start"
  <1>1. s.state = "cancel_requested" => s.cancel \in TerminalReasons
    BY ZenonT(60), ShapeFacts, Vocabulary DEF WorkLifecycleSnapshot
  <1>2. /\ "provider_outcome_unknown" \in TerminalReasons
        /\ "tool_outcome_unknown" \in TerminalReasons
    BY DEF TerminalReasons, InterruptionReasons
  <1>3. "confirmed" \in CleanupStatus
    BY ZenonT(60), Vocabulary
  <1> QED
    BY ZenonT(60), <1>1, <1>2, <1>3, RequestTypes, RequestOps DEF ModelWorkNext,
       ToolWorkNext

(* finish_model, with the outcome and the next state the services choose.    *)
LEMMA FinishModelEffect ==
    ASSUME StoreInvariant, NEW w \in Works, NEW k \in Attempts, NEW evidence, NEW from,
           FinishModel(w, work[w], k, from, ModelOutcome(evidence),
                       ModelWorkNext(work[w], k, evidence))
    PROVE  /\ \A v \in Works : Tame(v)
           /\ \A v \in Works : v # w => RowsKept(v)
           /\ work'[w] = NextSnapshot(work[w], ModelWorkNext(work[w], k, evidence))
           /\ model'[w][k].state = ModelOutcome(evidence)
           /\ \A j \in Attempts : j # k => model'[w][j] = model[w][j]
           /\ tool' = tool /\ runtime' = runtime
  <1> DEFINE q == ModelWorkNext(work[w], k, evidence)
             row == [state |-> ModelOutcome(evidence), runtime |-> work[w].owner]
  <1>1. /\ GuardedWorkUpdate(w, work[w], q) /\ SetModel(w, k, row)
        /\ UNCHANGED <<tool, runtime, answered>>
    BY ZenonT(60) DEF FinishModel
  <1>2. work[w] \in WorkLifecycleSnapshot /\ ValidWorkShape(work[w])
    BY ZenonT(60), <1>1, RowsOf DEF GuardedWorkUpdate, DecideWorkTransition
  <1>3. q \in Requests /\ q.op # "start"
    BY ZenonT(60), <1>2, FinishRequests
  <1>4. /\ \A v \in Works : Tame(v)
        /\ \A v \in Works : v # w => work'[v] = work[v]
        /\ work'[w] = NextSnapshot(work[w], q)
    BY ZenonT(60), <1>1, <1>3, WorkUpdate
  <1>5. /\ model'[w][k].state = ModelOutcome(evidence)
        /\ \A j \in Attempts : j # k => model'[w][j] = model[w][j]
        /\ \A v \in Works : v # w => model'[v] = model[v]
    BY <1>1, SetModelRow
  <1> QED
    BY ZenonT(60), <1>1, <1>4, <1>5 DEF RowsKept

(* finish_tool.                                                              *)
LEMMA FinishToolEffect ==
    ASSUME StoreInvariant, NEW w \in Works, NEW k \in Attempts, NEW evidence, NEW from,
           NEW cleanup,
           FinishTool(w, work[w], k, from, ToolOutcome(evidence), cleanup,
                      ToolWorkNext(work[w], k, evidence))
    PROVE  /\ \A v \in Works : Tame(v)
           /\ \A v \in Works : v # w => RowsKept(v)
           /\ work'[w] = NextSnapshot(work[w], ToolWorkNext(work[w], k, evidence))
           /\ NoCurrentAttempt(work'[w])
           /\ tool'[w][k].state = ToolOutcome(evidence)
           /\ \A j \in Attempts : j # k => tool'[w][j] = tool[w][j]
           /\ model' = model /\ runtime' = runtime
  <1> DEFINE q == ToolWorkNext(work[w], k, evidence)
             row == [state |-> ToolOutcome(evidence), runtime |-> work[w].owner,
                     cleanup |-> cleanup]
  <1>1. /\ GuardedWorkUpdate(w, work[w], q) /\ SetTool(w, k, row)
        /\ NoCurrentAttempt(NextSnapshot(work[w], q))
        /\ UNCHANGED <<model, runtime, answered>>
    BY ZenonT(60) DEF FinishTool
  <1>2. work[w] \in WorkLifecycleSnapshot /\ ValidWorkShape(work[w])
    BY ZenonT(60), <1>1, RowsOf DEF GuardedWorkUpdate, DecideWorkTransition
  <1>3. q \in Requests /\ q.op # "start"
    BY ZenonT(60), <1>2, FinishRequests
  <1>4. /\ \A v \in Works : Tame(v)
        /\ \A v \in Works : v # w => work'[v] = work[v]
        /\ work'[w] = NextSnapshot(work[w], q)
    BY ZenonT(60), <1>1, <1>3, WorkUpdate
  <1>5. /\ tool'[w][k].state = ToolOutcome(evidence)
        /\ \A j \in Attempts : j # k => tool'[w][j] = tool[w][j]
        /\ \A v \in Works : v # w => tool'[v] = tool[v]
    BY <1>1, SetToolRow
  <1> QED
    BY ZenonT(60), <1>1, <1>4, <1>5 DEF RowsKept

(* An update of a work row alone.                                            *)
LEMMA WorkOnlyEffect ==
    ASSUME StoreInvariant, NEW w \in Works, NEW q \in Requests, q.op # "start",
           GuardedWorkUpdate(w, work[w], q), UNCHANGED <<model, tool, runtime>>
    PROVE  /\ \A v \in Works : Tame(v)
           /\ \A v \in Works : v # w => RowsKept(v)
           /\ work'[w] = NextSnapshot(work[w], q) /\ work'[w].state = TargetState(q)
  <1>1. /\ \A v \in Works : Tame(v)
        /\ \A v \in Works : v # w => work'[v] = work[v]
        /\ work'[w] = NextSnapshot(work[w], q)
    BY ZenonT(60), WorkUpdate
  <1>2. NextSnapshot(work[w], q).state = TargetState(q)
    BY ZenonT(60) DEF NextSnapshot
  <1> QED
    BY ZenonT(60), <1>1, <1>2 DEF RowsKept

(* The answer or the failure of a running work.                              *)
LEMMA CompletionEffect ==
    ASSUME StoreInvariant, NEW w \in Works,
           CommitAssistantCompletion(w, work[w]) \/ TerminalizeOwnedWork(w, work[w])
    PROVE  /\ \A v \in Works : Tame(v)
           /\ \A v \in Works : v # w => RowsKept(v)
           /\ IsTerminal(work'[w])
           /\ model' = model /\ tool' = tool /\ runtime' = runtime
  <1>1. /\ GuardedWorkUpdate(w, work[w], Complete) \/ GuardedWorkUpdate(w, work[w], Fail)
        /\ UNCHANGED <<model, tool, runtime>>
    BY ZenonT(60) DEF CommitAssistantCompletion, TerminalizeOwnedWork
  <1>2. /\ Complete \in Requests /\ Complete.op # "start"
        /\ Fail \in Requests /\ Fail.op # "start"
        /\ TargetState(Complete) = "completed" /\ TargetState(Fail) = "failed"
    BY ZenonT(60), RequestTypes, RequestOps, Targets
  <1> QED
    BY ZenonT(60), <1>1, <1>2, WorkOnlyEffect DEF IsTerminal, TerminalStates

(* The scheduler's settlement: finish_cancellation and interrupt_owned_work. *)
LEMMA SettlementEffect ==
    ASSUME StoreInvariant, NEW w \in Works, NEW r, NEW q,
           \/ q = Interrupt("runtime_ownership_lost")
           \/ q = Cancel(work[w].cancel, "not_required"),
           TerminalizeWork(w, r, q)
    PROVE  /\ \A v \in Works : Tame(v)
           /\ \A v \in Works : v # w => RowsKept(v)
           /\ IsTerminal(work'[w])
           /\ model' = model /\ tool' = tool /\ runtime' = runtime
  <1>1. GuardedWorkUpdate(w, work[w], q) /\ UNCHANGED <<model, tool, runtime>>
    BY ZenonT(60) DEF TerminalizeWork
  <1>2. DecideWorkTransition(work[w], q) /\ work[w] \in WorkLifecycleSnapshot
    BY ZenonT(60), <1>1, RowsOf DEF GuardedWorkUpdate
  <1>3. CASE q = Interrupt("runtime_ownership_lost")
    <2>1. "runtime_ownership_lost" \in TerminalReasons
      BY DEF TerminalReasons, InterruptionReasons
    <2>2. q \in Requests /\ q.op # "start" /\ TargetState(q) = "interrupted"
      BY ZenonT(60), <1>3, <2>1, RequestTypes, RequestOps, Targets
    <2> QED
      BY ZenonT(60), <1>1, <2>2, WorkOnlyEffect DEF IsTerminal, TerminalStates
  <1>4. CASE q = Cancel(work[w].cancel, "not_required")
    <2>1. q.op = "cancel" /\ TargetState(q) = "cancelled"
      BY ZenonT(60), <1>4, RequestOps, Targets
    <2>2. work[w].cancel \in TerminalReasons \cup {"none"}
      BY ZenonT(60), <1>2, Vocabulary DEF WorkLifecycleSnapshot
    <2>3. q \in Requests
      BY ZenonT(60), <1>4, <2>2, Vocabulary DEF Cancel, Request, Requests
    <2> QED
      BY ZenonT(60), <1>1, <2>1, <2>3, WorkOnlyEffect DEF IsTerminal, TerminalStates
  <1> QED
    BY ZenonT(60), <1>3, <1>4

(* mark_model_streaming and dispatch_tool touch one attempt row.             *)
LEMMA MarkStreamingEffect ==
    ASSUME StoreInvariant, NEW w \in Works, NEW k \in Attempts, MarkModelStreaming(w, k)
    PROVE  /\ work' = work /\ tool' = tool /\ runtime' = runtime
           /\ model[w][k].state = "requesting" /\ model'[w][k].state = "streaming"
           /\ \A j \in Attempts : j # k => model'[w][j] = model[w][j]
           /\ \A v \in Works : v # w => RowsKept(v)
  <1> DEFINE row == [model[w][k] EXCEPT !.state = "streaming"]
  <1>1. /\ SetModel(w, k, row) /\ UNCHANGED <<work, tool, runtime>>
        /\ model[w][k].state = "requesting"
    BY ZenonT(60) DEF MarkModelStreaming
  <1>2. row.state = "streaming"
    BY DEF StoreInvariant, TypeOK, ModelRow
  <1> HIDE DEF row
  <1>3. /\ model'[w][k] = row
        /\ \A j \in Attempts : j # k => model'[w][j] = model[w][j]
        /\ \A v \in Works : v # w => model'[v] = model[v]
    BY ZenonT(60), <1>1, SetModelRow
  <1> QED
    BY ZenonT(60), <1>1, <1>2, <1>3 DEF RowsKept

(* dispatch_tool moves one tool row from requested to dispatching and looks  *)
(* at no other row.                                                          *)
LEMMA DispatchEffect ==
    ASSUME StoreInvariant, NEW w \in Works, NEW k \in Attempts, NEW e, DispatchTool(w, e, k)
    PROVE  /\ work' = work /\ model' = model /\ runtime' = runtime
           /\ tool[w][k].state = "requested" /\ tool'[w][k].state = "dispatching"
           /\ \A j \in Attempts : j # k => tool'[w][j] = tool[w][j]
           /\ \A v \in Works : v # w => RowsKept(v)
  <1> DEFINE row == [tool[w][k] EXCEPT !.state = "dispatching"]
  <1>1. /\ SetTool(w, k, row) /\ UNCHANGED <<work, model, runtime>>
        /\ tool[w][k].state = "requested"
    BY ZenonT(60) DEF DispatchTool
  <1>2. row.state = "dispatching"
    BY DEF StoreInvariant, TypeOK, ToolRow
  <1> HIDE DEF row
  <1>3. /\ tool'[w][k] = row
        /\ \A j \in Attempts : j # k => tool'[w][j] = tool[w][j]
        /\ \A v \in Works : v # w => tool'[v] = tool[v]
    BY ZenonT(60), <1>1, SetToolRow
  <1> QED
    BY ZenonT(60), <1>1, <1>2, <1>3 DEF RowsKept

-----------------------------------------------------------------------------
(* What others do to the work of a runner.                                   *)

(* A message is admitted or a cancel command taken.                          *)
LEMMA AdmitEffect ==
    ASSUME StoreInvariant, NEW w \in Works, AdmitMessage(w)
    PROVE  /\ \A v \in Works : Tame(v) /\ Outside(v)
           /\ model' = model /\ tool' = tool /\ runtime' = runtime
  <1>1. /\ work[w].state = "absent" /\ work' = [work EXCEPT ![w] = InitialSnapshot]
        /\ UNCHANGED <<model, tool, runtime>>
    BY ZenonT(60) DEF AdmitMessage
  <1>2. /\ work \in [Works -> WorkLifecycleSnapshot]
        /\ work'[w] = InitialSnapshot
        /\ \A v \in Works : v # w => work'[v] = work[v]
    BY ZenonT(60), <1>1 DEF StoreInvariant, TypeOK
  <1>3. work[w] = Absent
    <2>1. "absent" \notin WorkStates
      BY ZenonT(60) DEF WorkStates, ActiveStates, TerminalStates
    <2> QED
      BY ZenonT(60), <1>1, <2>1 DEF StoreInvariant, WorkShapes, ValidWorkShape
  <1>4. Tame(w)
    BY <1>2, <1>3 DEF Tame, InitialSnapshot, Absent, IsActive, ActiveStates, IsTerminal,
       TerminalStates
  <1>5. \A v \in Works : AttemptsKept(v)
    BY ZenonT(60), <1>1 DEF AttemptsKept
  <1>6. \A v \in Works : v # w => Tame(v) /\ RowsKept(v)
    BY ZenonT(60), <1>1, <1>2 DEF Tame, RowsKept
  <1> QED
    BY ZenonT(60), <1>1, <1>4, <1>5, <1>6 DEF Outside

(* A user's cancellation ends a queued work or asks the active one to stop;  *)
(* attempts stay.                                                            *)
LEMMA CancelCommandEffect ==
    ASSUME StoreInvariant, NEW w \in Works, CancelCommand(w)
    PROVE  /\ \A v \in Works : Tame(v) /\ Outside(v)
           /\ model' = model /\ tool' = tool /\ runtime' = runtime
  <1> DEFINE q == DecideCancellation(work[w], "user_request")
  <1>1. /\ GuardedWorkUpdate(w, work[w], q) /\ UNCHANGED <<model, tool, runtime>>
    BY ZenonT(60) DEF CancelCommand
  <1>2. q \in Requests /\ q.op # "start"
    <2>1. RequestCancellation("user_request").op # "start"
      BY DEF RequestCancellation, Request
    <2> QED
      BY ZenonT(60), <2>1, RequestTypes, RequestOps, Vocabulary DEF DecideCancellation
  <1>3. /\ \A v \in Works : Tame(v)
        /\ \A v \in Works : v # w => RowsKept(v)
        /\ work'[w] = NextSnapshot(work[w], q)
    BY ZenonT(60), <1>1, <1>2, WorkOnlyEffect
  <1>4. work[w].state # "queued" => AskedToStop(w)
    <2> SUFFICES ASSUME work[w].state # "queued" PROVE AskedToStop(w)
      BY ZenonT(60)
    <2>1. q = RequestCancellation("user_request")
      BY ZenonT(60) DEF DecideCancellation
    <2>2. DecideWorkTransition(work[w], q) /\ work[w] \in WorkLifecycleSnapshot
      BY ZenonT(60), <1>1, RowsOf DEF GuardedWorkUpdate
    <2> QED
      BY <1>1, <1>3, <2>1, <2>2, AskToStopNext, Vocabulary DEF AskedToStop
  <1>5. \A v \in Works : AttemptsKept(v)
    BY ZenonT(60), <1>1 DEF AttemptsKept
  <1> QED
    BY ZenonT(60), <1>1, <1>3, <1>4, <1>5 DEF Outside

(* request_owned_cancellation.                                               *)
LEMMA OwnedCancellationEffect ==
    ASSUME StoreInvariant, NEW r, RequestOwnedCancellation(r)
    PROVE  /\ \A v \in Works : Tame(v) /\ Outside(v)
           /\ \A v \in Works : ~(IsActive(work'[v]) /\ work'[v].owner = r
                                 /\ work'[v].state # "cancel_requested")
           /\ model' = model /\ tool' = tool /\ runtime' = runtime
  <1> DEFINE q == RequestCancellation("graceful_shutdown")
  <1>1. /\ \A w \in OwnedCancellable(r) : DecideWorkTransition(work[w], q)
        /\ work' = [w \in Works |-> IF w \in OwnedCancellable(r)
                                    THEN NextSnapshot(work[w], q) ELSE work[w]]
        /\ UNCHANGED <<model, tool, runtime>>
    BY ZenonT(60) DEF RequestOwnedCancellation
  <1>2. ASSUME NEW v \in Works, v \in OwnedCancellable(r)
        PROVE  /\ Tame(v) /\ AskedToStop(v)
    <2> DEFINE n == NextSnapshot(work[v], q)
    <2>1. work'[v] = n /\ work[v] \in WorkLifecycleSnapshot /\ DecideWorkTransition(work[v], q)
      BY ZenonT(60), <1>1, <1>2, RowsOf
    <2>2. /\ n.state = "cancel_requested" /\ IsActive(n) /\ IsActive(work[v])
          /\ ~IsTerminal(work[v])
          /\ n.owner = work[v].owner /\ n.kind = work[v].kind /\ n.attempt = work[v].attempt
          /\ n.version = work[v].version + 1
      BY ZenonT(60), <2>1, AskToStopNext, Vocabulary
    <2>3. work[v].state # "cancel_requested"
      BY ZenonT(60), <1>2 DEF OwnedCancellable
    <2>4. Tame(v)
      BY <2>1, <2>2, <2>3, ZenonT(60) DEF Tame
    <2>5. AskedToStop(v)
      BY <1>1, <2>1, <2>2, ZenonT(60) DEF AskedToStop
    <2> QED
      BY ZenonT(60), <2>4, <2>5
  <1>3. ASSUME NEW v \in Works, v \notin OwnedCancellable(r)
        PROVE  Tame(v) /\ RowsKept(v)
    BY ZenonT(60), <1>1, <1>3 DEF Tame, RowsKept
  <1>4. ASSUME NEW v \in Works
        PROVE  ~(IsActive(work'[v]) /\ work'[v].owner = r /\ work'[v].state # "cancel_requested")
    <2>1. CASE v \in OwnedCancellable(r)
      BY ZenonT(60), <1>2, <2>1 DEF AskedToStop
    <2>2. CASE v \notin OwnedCancellable(r)
      BY ZenonT(60), <1>3, <2>2 DEF RowsKept, OwnedCancellable
    <2> QED
      BY ZenonT(60), <2>1, <2>2
  <1>5. \A v \in Works : AttemptsKept(v)
    BY ZenonT(60), <1>1 DEF AttemptsKept
  <1> QED
    BY ZenonT(60), <1>1, <1>2, <1>3, <1>4, <1>5 DEF Outside

(* recover_work_unit: a recovered work is settled, and the rows of its       *)
(* current attempt say what can still be known.                              *)
LEMMA RecoverEffect ==
    ASSUME StoreInvariant, NEW w \in Works, NEW r, RecoverWorkUnit(w, r)
    PROVE  /\ \A v \in Works : Tame(v) /\ Outside(v)
           /\ runtime' = runtime
  <1> DEFINE s == work[w]
             k == s.attempt
             n == NextSnapshot(s, RecoveryRequest(w))
  <1>1. /\ IsActive(s) /\ DecideWorkTransition(s, RecoveryRequest(w))
        /\ work' = [work EXCEPT ![w] = n] /\ runtime' = runtime
    BY ZenonT(60) DEF RecoverWorkUnit, GuardedWorkUpdate
  <1>2. /\ s \in WorkLifecycleSnapshot /\ work \in [Works -> WorkLifecycleSnapshot]
        /\ AttemptsOwned
    BY ZenonT(60) DEF StoreInvariant, TypeOK
  <1>3. /\ NoCurrentAttempt(n) /\ n.state \in {"cancelled", "interrupted"}
        /\ n.state # "interrupted" => RecoveryReason(w) = "runtime_ownership_lost"
    BY ZenonT(60), <1>1, RecoveryNext
  <1>4. n.version = s.version + 1
    BY ZenonT(60) DEF NextSnapshot
  <1>5. work'[w] = n /\ \A v \in Works : v # w => work'[v] = work[v]
    BY ZenonT(60), <1>1, <1>2
  <1>6. ~IsTerminal(s) /\ ValidWorkShape(s)
    BY ZenonT(60), <1>1 DEF DecideWorkTransition
  <1>7. IsTerminal(n) /\ ~IsActive(n) /\ n.state \notin {"absent", "queued"}
    BY ZenonT(60), <1>3 DEF IsTerminal, TerminalStates, IsActive, ActiveStates
  <1>8. \A v \in Works : Tame(v)
    BY ZenonT(60), <1>4, <1>5, <1>6, <1>7 DEF Tame
  <1>9. s.kind \in {"none", "model", "tool"} /\ (s.kind # "none" => k \in Attempts)
    BY ZenonT(60), <1>2, <1>6, ShapeFacts DEF WorkLifecycleSnapshot, AttemptKinds
  <1> HIDE DEF n
  <1>10. CASE s.kind = "none"
    <2>1. UNCHANGED <<model, tool>>
      BY ZenonT(60), <1>10 DEF RecoverWorkUnit
    <2>2. \A v \in Works : AttemptsKept(v) /\ (v # w => RowsKept(v))
      BY ZenonT(60), <1>5, <2>1 DEF AttemptsKept, RowsKept
    <2>3. Recovered(w)
      BY ZenonT(60), <1>1, <1>3, <1>5, <1>7, <1>10, <2>1 DEF Recovered
    <2> QED
      BY ZenonT(60), <1>1, <1>8, <2>2, <2>3 DEF Outside
  <1>11. CASE s.kind = "model"
    <2> DEFINE row == [state |-> RecoveredRow(model[w][k].state), runtime |-> r]
    <2>1. SetModel(w, k, row) /\ UNCHANGED tool /\ k \in Attempts
      BY <1>9, <1>11, ZenonT(60) DEF RecoverWorkUnit
    <2>2. row.state = RecoveredRow(model[w][k].state)
      OBVIOUS
    <2> HIDE DEF row
    <2>3. /\ model'[w][k] = row
          /\ \A j \in Attempts : j # k => model'[w][j] = model[w][j]
          /\ \A v \in Works : v # w => model'[v] = model[v]
      BY ZenonT(60), <2>1, SetModelRow
    <2>4. model[w][k].state \in ModelLive
      BY ZenonT(60), <1>1, <1>2, <1>11, <2>1 DEF AttemptsOwned, HasAttempt
    <2>5. model'[w][k].state = "provider_outcome_unknown"
      BY ZenonT(60), <2>2, <2>3, <2>4, RecoveredRows
    <2>6. n.state = "interrupted"
      <3>1. CurrentRow(w) = model[w][k].state
        BY ZenonT(60), <1>11 DEF CurrentRow
      <3>2. RecoveryReason(w) = "provider_outcome_unknown"
        BY ZenonT(60), <3>1, <2>4, RecoveredRows DEF RecoveryReason
      <3> QED
        BY ZenonT(60), <1>3, <3>2
    <2>7. Recovered(w)
      <3>1. /\ IsActive(work[w]) /\ IsTerminal(work'[w]) /\ NoCurrentAttempt(work'[w])
            /\ work'[w].state = "interrupted"
        BY <1>1, <1>3, <1>5, <1>7, <2>6, ZenonT(60)
      <3>2. \A j \in Attempts : tool'[w][j].state = tool[w][j].state
        BY <2>1, ZenonT(60)
      <3>3. \A j \in Attempts : \/ model'[w][j].state = model[w][j].state
                                \/ /\ model[w][j].state \in ModelLive
                                   /\ model'[w][j].state = "provider_outcome_unknown"
        BY <2>3, <2>4, <2>5, ZenonT(60)
      <3> QED
        BY <3>1, <3>2, <3>3, ZenonT(60) DEF Recovered
    <2>8. \A v \in Works : v # w => AttemptsKept(v) /\ RowsKept(v)
      BY ZenonT(60), <1>5, <2>1, <2>3 DEF AttemptsKept, RowsKept
    <2> QED
      BY ZenonT(60), <1>1, <1>8, <2>7, <2>8 DEF Outside
  <1>12. CASE s.kind = "tool"
    <2> DEFINE row == [state |-> RecoveredRow(tool[w][k].state), runtime |-> r,
                       cleanup |-> IF tool[w][k].state = "dispatching"
                                   THEN "unconfirmed" ELSE tool[w][k].cleanup]
    <2>1. SetTool(w, k, row) /\ UNCHANGED model /\ k \in Attempts
      BY <1>9, <1>12, ZenonT(60) DEF RecoverWorkUnit
    <2>2. row.state = RecoveredRow(tool[w][k].state)
      BY ZenonT(60)
    <2> HIDE DEF row
    <2>3. /\ tool'[w][k] = row
          /\ \A j \in Attempts : j # k => tool'[w][j] = tool[w][j]
          /\ \A v \in Works : v # w => tool'[v] = tool[v]
      BY ZenonT(60), <2>1, SetToolRow
    <2>4. tool[w][k].state \in {"requested", "dispatching"}
      BY ZenonT(60), <1>1, <1>2, <1>12, <2>1 DEF AttemptsOwned, HasAttempt, ToolLive
    <2>5. /\ tool[w][k].state = "requested" =>
                 tool'[w][k].state = "interrupted_before_dispatch"
          /\ tool[w][k].state = "dispatching" => tool'[w][k].state = "outcome_unknown"
      BY ZenonT(60), <2>2, <2>3, <2>4, RecoveredRows
    <2>6. n.state = "interrupted"
      <3>1. CurrentRow(w) = tool[w][k].state
        BY ZenonT(60), <1>12 DEF CurrentRow
      <3>2. RecoveryReason(w) # "runtime_ownership_lost"
        BY ZenonT(60), <3>1, <2>4, RecoveredRows DEF RecoveryReason
      <3> QED
        BY ZenonT(60), <1>3, <3>2
    <2>7. Recovered(w)
      <3>1. /\ IsActive(work[w]) /\ IsTerminal(work'[w]) /\ NoCurrentAttempt(work'[w])
            /\ work'[w].state = "interrupted"
        BY <1>1, <1>3, <1>5, <1>7, <2>6, ZenonT(60)
      <3>2. \A j \in Attempts : model'[w][j].state = model[w][j].state
        BY <2>1, ZenonT(60)
      <3>3. \A j \in Attempts :
                \/ tool'[w][j].state = tool[w][j].state
                \/ /\ tool[w][j].state = "requested"
                   /\ tool'[w][j].state = "interrupted_before_dispatch"
                \/ /\ tool[w][j].state = "dispatching"
                   /\ tool'[w][j].state = "outcome_unknown"
        BY <2>3, <2>4, <2>5, ZenonT(60)
      <3> QED
        BY <3>1, <3>2, <3>3, ZenonT(60) DEF Recovered
    <2>8. \A v \in Works : v # w => AttemptsKept(v) /\ RowsKept(v)
      BY ZenonT(60), <1>5, <2>1, <2>3 DEF AttemptsKept, RowsKept
    <2> QED
      BY <1>1, <1>8, <2>7, <2>8 DEF Outside
  <1> QED
    BY ZenonT(60), <1>9, <1>10, <1>11, <1>12

(* claim_next: the only step that makes a work active.                       *)
LEMMA ClaimEffect ==
    ASSUME StoreInvariant, NEW w \in Works, NEW r, ClaimNext(r, w)
    PROVE  /\ \A v \in Works : ~IsActive(work[v])
           /\ \A v \in Works : v # w => work'[v] = work[v]
           /\ work'[w] = NextSnapshot(work[w], Start(r))
           /\ work'[w].state = "running" /\ work'[w].owner = r
           /\ model' = model /\ tool' = tool /\ runtime' = runtime
           /\ runtime[r] = "running"
  <1>1. /\ runtime[r] = "running" /\ \A v \in Works : ~IsActive(work[v])
        /\ work' = [work EXCEPT ![w] = NextSnapshot(work[w], Start(r))]
        /\ model' = model /\ tool' = tool /\ runtime' = runtime
    BY ZenonT(60) DEF ClaimNext, Claimable, GuardedWorkUpdate
  <1>2. /\ NextSnapshot(work[w], Start(r)).state = "running"
        /\ NextSnapshot(work[w], Start(r)).owner = r
    BY NextStart
  <1> QED
    BY ZenonT(60), <1>1, <1>2 DEF StoreInvariant, TypeOK

-----------------------------------------------------------------------------
(* The frames.                                                             *)

(* The part of the invariant a step of the runner has to re-establish.       *)
RunnerGood ==
    /\ runner \in RunnerStates
    /\ sent \subseteq Works \X Attempts /\ handed \subseteq Works \X Attempts
    /\ EffectsTold
    /\ RunnerFits
    /\ ModelFits
    /\ ToolFits

(* A runner that exists has a work, and the work was claimed.                *)
LEMMA RunnerWork ==
    ASSUME EngineInvariant, runner.pc # "none"
    PROVE  /\ runner.w \in Works /\ runner \in RunnerStates
           /\ work[runner.w] \in WorkLifecycleSnapshot
           /\ ValidWorkShape(work[runner.w])
           /\ work[runner.w].state \notin {"absent", "queued"}
           /\ IsActive(work[runner.w]) => work[runner.w].owner = me
           /\ me \in Runtimes
  <1>1. EngineTypeOK /\ StoreInvariant /\ RunnerFits /\ ProcessFits
    BY ZenonT(60) DEF EngineInvariant, WorkTended
  <1>2. runner.w \in Works /\ runner \in RunnerStates /\ sched.reg # 0
    BY ZenonT(60), <1>1 DEF EngineTypeOK, RunnerStates
  <1>3. work[runner.w] \in WorkLifecycleSnapshot
    BY ZenonT(60), <1>1, <1>2, RowsOf
  <1>4. /\ work[runner.w].state \notin {"absent", "queued"}
        /\ IsActive(work[runner.w]) => work[runner.w].owner = me
    BY ZenonT(60), <1>1 DEF RunnerFits
  <1>5. ValidWorkShape(work[runner.w])
    BY <1>1, <1>2, <1>4 DEF StoreInvariant, WorkShapes, Absent
  <1>6. me \in Runtimes
    <2>1. proc.pc # "down"
      BY <1>1, <1>2 DEF ProcessFits, NoScheduler
    <2> QED
      BY ZenonT(60), <1>1, <2>1 DEF EngineTypeOK
  <1> QED
    BY ZenonT(60), <1>2, <1>3, <1>4, <1>5, <1>6

-----------------------------------------------------------------------------
(* What was sent and handed over stays recorded when the rows are kept or    *)
(* recovered.                                                                *)
LEMMA EffectsKept ==
    ASSUME EngineInvariant, \A v \in Works : AttemptsKept(v) \/ Recovered(v),
           sent' = sent, handed' = handed
    PROVE  NoEffectDenied'
  <1>1. /\ NoEffectDenied
        /\ sent \subseteq Works \X Attempts /\ handed \subseteq Works \X Attempts
    BY ZenonT(60) DEF EngineInvariant, EffectsTold, WorkTended, EngineTypeOK
  <1>2. ASSUME NEW e \in sent
        PROVE  model'[e[1]][e[2]].state \notin {"absent", "cancelled_locally"}
    <2>1. e[1] \in Works /\ e[2] \in Attempts
      BY ZenonT(60), <1>1, <1>2
    <2>2. model[e[1]][e[2]].state \notin {"absent", "cancelled_locally"}
      BY ZenonT(60), <1>1, <1>2 DEF NoEffectDenied
    <2> QED
      BY <2>1, <2>2 DEF AttemptsKept, Recovered
  <1>3. ASSUME NEW e \in handed
        PROVE  tool'[e[1]][e[2]].state \in {"dispatching", "completed", "outcome_unknown"}
    <2>1. e[1] \in Works /\ e[2] \in Attempts
      BY ZenonT(60), <1>1, <1>3
    <2>2. tool[e[1]][e[2]].state \in {"dispatching", "completed", "outcome_unknown"}
      BY ZenonT(60), <1>1, <1>3 DEF NoEffectDenied
    <2> QED
      BY <2>1, <2>2 DEF AttemptsKept, Recovered
  <1> QED
    BY ZenonT(60), <1>2, <1>3 DEF NoEffectDenied

(* A snapshot stays honest while versions grow with every change.            *)
LEMMA HonestKept ==
    ASSUME NEW s \in WorkLifecycleSnapshot, NEW n, NEW e \in WorkLifecycleSnapshot,
           n = s \/ n.version = s.version + 1,
           e.version <= s.version, e.version = s.version => e = s
    PROVE  e.version <= n.version /\ (e.version = n.version => e = n)
  <1>1. s.version \in Int /\ e.version \in Int
    BY DEF WorkLifecycleSnapshot
  <1> QED
    BY <1>1

(* Whatever the others do (ask the work to stop, recover it, leave it        *)
(* alone), the runner's part of the invariant survives.                      *)
LEMMA RunnerUndisturbed ==
    ASSUME EngineInvariant, \A v \in Works : Tame(v) /\ Outside(v),
           UNCHANGED <<runner, sent, handed, me>>
    PROVE  RunnerGood'
  <1> DEFINE w == runner.w
             s == work[w]
             n == work'[w]
  <1>1. /\ EffectsTold /\ RunnerFits /\ ModelFits /\ ToolFits /\ EngineTypeOK /\ StoreInvariant
    BY ZenonT(60) DEF EngineInvariant, WorkTended
  <1>2. NoEffectDenied'
    BY ZenonT(60), EffectsKept DEF Outside
  <1>3. /\ runner' \in RunnerStates
        /\ sent' \subseteq Works \X Attempts /\ handed' \subseteq Works \X Attempts
    BY ZenonT(60), <1>1 DEF EngineTypeOK
  <1>4. CASE runner.pc = "none"
    <2>1. runner.flag = FALSE
      BY <1>1, <1>4 DEF RunnerFits, NoRunner
    <2>2. EffectsTold'
      BY ZenonT(60), <1>2, <1>4, <2>1 DEF EffectsTold, CancelledMeansQuiet, FlagMeansDurable
    <2>3. RunnerFits' /\ ModelFits' /\ ToolFits'
      BY ZenonT(60), <1>1, <1>4 DEF RunnerFits, ModelFits, ModelPhase, ToolFits, ToolPhase
    <2> QED
      BY ZenonT(60), <1>3, <2>2, <2>3 DEF RunnerGood
  <1>5. CASE runner.pc # "none"
    <2>1. /\ w \in Works /\ s \in WorkLifecycleSnapshot
          /\ s.state \notin {"absent", "queued"}
          /\ IsActive(s) => s.owner = me
      BY ZenonT(60), <1>5, RunnerWork
    <2>2. /\ Tame(w)
          /\ RowsKept(w) \/ AskedToStop(w) \/ Recovered(w)
      BY ZenonT(60), <2>1 DEF Outside
    <2>3. /\ n = s \/ n.version = s.version + 1
          /\ n.state \notin {"absent", "queued"}
          /\ IsActive(n) => IsActive(s) /\ n.owner = me
          /\ s.state = "cancel_requested" => n = s \/ IsTerminal(n)
          /\ IsTerminal(s) => n = s
      BY ZenonT(60), <2>1, <2>2 DEF Tame
    <2>4. IsActive(n) => n.kind = s.kind /\ n.attempt = s.attempt
      BY ZenonT(60), <2>2 DEF RowsKept, AskedToStop, Recovered, IsActive, ActiveStates,
         IsTerminal,
         TerminalStates
    <2>5. NoCurrentAttempt(s) => NoCurrentAttempt(n)
      BY ZenonT(60), <2>2 DEF RowsKept, AskedToStop, Recovered, NoCurrentAttempt
    <2>6. RunnerFits'
      <3>1. runner.pc \notin {"none", "exited"} =>
                /\ Honest(runner.snap)'
                /\ runner.notice # Absent => Honest(runner.notice)' /\ runner.flag
        <4>1. runner.snap \in WorkLifecycleSnapshot /\ runner.notice \in WorkLifecycleSnapshot
          BY ZenonT(60), <1>1 DEF EngineTypeOK, RunnerStates
        <4>2. ASSUME NEW e \in WorkLifecycleSnapshot, e.version <= s.version,
                     e.version = s.version => e = s
              PROVE  e.version <= n.version /\ (e.version = n.version => e = n)
          BY ZenonT(60), <2>1, <2>3, <4>2, HonestKept
        <4>3. runner.pc \notin {"none", "exited"} =>
                  /\ Honest(runner.snap)
                  /\ runner.notice # Absent => Honest(runner.notice) /\ runner.flag
          BY ZenonT(60), <1>1 DEF RunnerFits
        <4>4. runner' = runner
          BY ZenonT(60)
        <4> QED
          BY ZenonT(60), <4>1, <4>2, <4>3, <4>4 DEF Honest
      <3>2. runner.pc = "returned" => NoCurrentAttempt(n)
        BY ZenonT(60), <1>1, <2>5 DEF RunnerFits
      <3>3. runner.pc = "exited" =>
                /\ runner.exit \in Exits
                /\ runner.exit = "terminal_committed" /\ IsActive(n)
                       => n.state = "cancel_requested" /\ NoCurrentAttempt(n)
        BY ZenonT(60), <1>1, <2>3, <2>5 DEF RunnerFits, IsActive, ActiveStates, IsTerminal,
           TerminalStates
      <3> QED
        BY ZenonT(60), <1>5, <2>3, <3>1, <3>2, <3>3 DEF RunnerFits
    <2>7. FlagMeansDurable'
      BY ZenonT(60), <1>1, <2>3 DEF EffectsTold, FlagMeansDurable, IsTerminal
    <2>8. ASSUME NEW kind \in {"model", "tool"}, InAttempt(kind)
          PROVE  /\ InAttempt(kind)' /\ n.state # "cancelled"
      <3>1. CASE s.state = "interrupted"
        BY ZenonT(60), <2>3, <2>8, <3>1 DEF InAttempt, IsTerminal, TerminalStates
      <3>2. CASE IsActive(s) /\ HasAttempt(s, kind, runner.k)
        <4>1. CASE RowsKept(w)
          BY ZenonT(60), <2>8, <3>2, <4>1 DEF InAttempt, RowsKept, IsActive, ActiveStates
        <4>2. CASE AskedToStop(w)
          BY ZenonT(60), <2>8, <3>2, <4>2 DEF InAttempt, AskedToStop, HasAttempt, IsActive,
             ActiveStates
        <4>3. CASE Recovered(w)
          BY ZenonT(60), <2>8, <3>2, <4>3 DEF InAttempt, Recovered, HasAttempt
        <4> QED
          BY ZenonT(60), <2>2, <4>1, <4>2, <4>3
      <3> QED
        BY ZenonT(60), <2>8, <3>1, <3>2 DEF InAttempt
    <2>9. ASSUME runner.k \in Attempts
          PROVE  /\ \/ model'[w][runner.k].state = model[w][runner.k].state
                    \/ model'[w][runner.k].state = "provider_outcome_unknown"
                 /\ \/ tool'[w][runner.k].state = tool[w][runner.k].state
                    \/ /\ tool[w][runner.k].state = "requested"
                       /\ tool'[w][runner.k].state = "interrupted_before_dispatch"
                    \/ tool'[w][runner.k].state = "outcome_unknown"
      BY ZenonT(60), <2>2, <2>9 DEF RowsKept, AskedToStop, Recovered
    <2>10. ModelFits'
      <3> SUFFICES ASSUME runner.pc \in ModelPhase PROVE ModelFits'
        BY ZenonT(60) DEF ModelFits
      <3>1. InAttempt("model") /\ runner.k \in Attempts
        BY ZenonT(60), <1>1 DEF ModelFits, InAttempt
      <3>2. InAttempt("model")'
        BY ZenonT(60), <2>8, <3>1
      <3> QED
        BY ZenonT(60), <1>1, <2>9, <3>1, <3>2 DEF ModelFits
    <2>11. ToolFits'
      <3> SUFFICES ASSUME runner.pc \in ToolPhase PROVE ToolFits'
        BY ZenonT(60) DEF ToolFits
      <3>1. InAttempt("tool") /\ runner.k \in Attempts
        BY ZenonT(60), <1>1 DEF ToolFits, InAttempt
      <3>2. InAttempt("tool")'
        BY ZenonT(60), <2>8, <3>1
      <3> QED
        BY ZenonT(60), <1>1, <2>9, <3>1, <3>2 DEF ToolFits, HandedStates
    <2>12. CancelledMeansQuiet'
      <3> SUFFICES ASSUME runner.pc \in {"open", "streaming", "handling"}
                   PROVE  n.state # "cancelled"
        BY ZenonT(60) DEF CancelledMeansQuiet
      <3>1. InAttempt("model") \/ InAttempt("tool")
        BY ZenonT(60), <1>1 DEF ModelFits, ModelPhase, ToolFits, ToolPhase
      <3> QED
        BY ZenonT(60), <2>8, <3>1
    <2> QED
      BY ZenonT(60), <1>2, <1>3, <2>6, <2>7, <2>10, <2>11, <2>12 DEF RunnerGood, EffectsTold
  <1> QED
    BY ZenonT(60), <1>4, <1>5

-----------------------------------------------------------------------------
(* A step that leaves the scheduler, the main task and the runtime rows      *)
(* alone, and disturbs no work but the runner's: nothing of the rest of the  *)
(* invariant is lost.                                                        *)
LEMMA RestUndisturbed ==
    ASSUME EngineInvariant, StoreInvariant', RunnerGood',
           \A v \in Works : Tame(v),
           \A v \in Works : v # runner.w => Outside(v),
           UNCHANGED <<sched, me, proc, runtime>>,
           runner'.w = runner.w, runner.pc = "none" <=> runner'.pc = "none",
           faults' \in 0 .. MaxFaults
    PROVE  EngineInvariant'
  <1>1. /\ EngineTypeOK /\ OwnersOpen /\ SomeoneResponsible /\ ProcessFits /\ SettlementFits
    BY ZenonT(60) DEF EngineInvariant, WorkTended
  <1>2. EngineTypeOK'
    BY ZenonT(60), <1>1 DEF EngineTypeOK, RunnerGood, StoreInvariant
  <1>3. ASSUME NEW v \in Works, IsActive(work'[v])
        PROVE  /\ IsActive(work[v]) /\ work'[v].owner = work[v].owner
               /\ work[v].state = "cancel_requested" => work'[v] = work[v]
    BY ZenonT(60), <1>3 DEF Tame, IsTerminal, IsActive, TerminalStates, ActiveStates
  <1>4. OwnersOpen'
    BY ZenonT(60), <1>1, <1>3 DEF OwnersOpen
  <1>5. SomeoneResponsible'
    <2> SUFFICES ASSUME proc.pc = "serving", NEW v \in Works, IsActive(work'[v])
                 PROVE  /\ work'[v].owner = me
                        /\ v \in {sched.reg, sched.target} \/ Orphan(v)' \/ sched.fatal
      BY ZenonT(60) DEF SomeoneResponsible
    <2>1. /\ IsActive(work[v]) /\ work'[v].owner = work[v].owner
          /\ work[v].state = "cancel_requested" => work'[v] = work[v]
      BY ZenonT(60), <1>3
    <2>2. /\ work[v].owner = me
          /\ v \in {sched.reg, sched.target} \/ Orphan(v) \/ sched.fatal
      BY ZenonT(60), <1>1, <2>1 DEF SomeoneResponsible
    <2>3. Orphan(v) => Orphan(v)'
      BY ZenonT(60), <2>1 DEF Orphan, CancelRequested
    <2> QED
      BY ZenonT(60), <2>1, <2>2, <2>3
  <1>6. OwnedCancellable(me) = {} => OwnedCancellable(me)' = {}
    BY ZenonT(60), <1>3 DEF OwnedCancellable
  <1>7. ~OwnsWork(me) => ~OwnsWork(me)'
    BY ZenonT(60), <1>3 DEF OwnsWork
  <1>8. ProcessFits'
    BY ZenonT(60), <1>1, <1>6, <1>7 DEF ProcessFits
  <1>9. SettlementFits'
    <2> SUFFICES ASSUME sched.pc \in {"cancel", "interrupt"}, IsActive(work'[sched.target])
                 PROVE  NoCurrentAttempt(work'[sched.target])
      BY ZenonT(60) DEF SettlementFits
    <2> DEFINE v == sched.target
    <2>1. v \in Works /\ v # runner.w
      BY ZenonT(60), <1>1 DEF EngineTypeOK, SchedulerStates, Settling, ProcessFits
    <2>2. IsActive(work[v]) /\ Outside(v)
      BY ZenonT(60), <1>3, <2>1
    <2>3. NoCurrentAttempt(work[v])
      BY ZenonT(60), <1>1, <2>2 DEF SettlementFits
    <2>4. RowsKept(v) \/ AskedToStop(v) \/ Recovered(v)
      BY ZenonT(60), <2>2 DEF Outside, IsActive, ActiveStates
    <2> QED
      BY ZenonT(60), <2>3, <2>4 DEF RowsKept, AskedToStop, Recovered, NoCurrentAttempt
  <1> QED
    BY ZenonT(60), <1>2, <1>4, <1>5, <1>8, <1>9 DEF EngineInvariant, WorkTended, RunnerGood

-----------------------------------------------------------------------------
(* The runner ends.                                                          *)
LEMMA RunnerEnds ==
    ASSUME EngineInvariant, runner.pc # "none", NEW how \in Exits, Exit(how),
           \A v \in Works : Tame(v), NoEffectDenied',
           UNCHANGED <<sent, handed, me>>,
           how = "terminal_committed" /\ IsActive(work'[runner.w]) =>
               /\ work'[runner.w].state = "cancel_requested"
               /\ NoCurrentAttempt(work'[runner.w])
    PROVE  RunnerGood' /\ runner'.w = runner.w /\ runner'.pc # "none"
  <1> DEFINE w == runner.w
  <1>1. /\ EffectsTold /\ EngineTypeOK /\ w \in Works /\ runner \in RunnerStates
        /\ work[w].state \notin {"absent", "queued"}
        /\ IsActive(work[w]) => work[w].owner = me
    BY ZenonT(60), RunnerWork DEF EngineInvariant, WorkTended
  <1>2. /\ runner' = [NoRunner EXCEPT !.pc = "exited", !.w = w, !.flag = runner.flag,
                                      !.exit = how]
        /\ runner'.pc = "exited" /\ runner'.w = w /\ runner'.flag = runner.flag
        /\ runner'.exit = how
    BY DEF Exit, NoRunner
  <1>3. runner' \in RunnerStates
    <2>1. Absent \in WorkLifecycleSnapshot
      BY ZenonT(60), AbsentTyped
    <2> QED
      BY ZenonT(60), <1>1, <1>2, <2>1 DEF RunnerStates, RunnerPcs, NoRunner, CleanupStatus,
         Exits
  <1>4. Tame(w)
    BY ZenonT(60), <1>1
  <1>5. FlagMeansDurable'
    BY ZenonT(60), <1>1, <1>2, <1>4 DEF EffectsTold, FlagMeansDurable, Tame, IsTerminal
  <1>6. CancelledMeansQuiet' /\ ModelFits' /\ ToolFits'
    BY ZenonT(60), <1>2 DEF CancelledMeansQuiet, ModelFits, ModelPhase, ToolFits, ToolPhase
  <1>7. RunnerFits'
    BY ZenonT(60), <1>1, <1>2, <1>4 DEF RunnerFits, Tame
  <1> QED
    BY ZenonT(60), <1>1, <1>2, <1>3, <1>5, <1>6, <1>7 DEF RunnerGood, EffectsTold,
       EngineTypeOK

(* The runner goes on, outside an attempt, with the row as it is now.        *)
LEMMA RunnerGoesOn ==
    ASSUME EngineInvariant, runner.pc # "none",
           NEW pc \in {"top", "invoke", "answer", "fail", "batch", "call"},
           GotoWith(pc, work'[runner.w]), StoreInvariant',
           \A v \in Works : Tame(v), NoEffectDenied',
           UNCHANGED <<sent, handed, me>>
    PROVE  RunnerGood' /\ runner'.w = runner.w /\ runner'.pc # "none"
  <1> DEFINE w == runner.w
  <1>1. /\ EffectsTold /\ EngineTypeOK /\ w \in Works /\ runner \in RunnerStates
        /\ work[w].state \notin {"absent", "queued"}
        /\ IsActive(work[w]) => work[w].owner = me
    BY ZenonT(60), RunnerWork DEF EngineInvariant, WorkTended
  <1>2. /\ runner'.pc = pc /\ runner'.w = w /\ runner'.flag = runner.flag
        /\ runner'.snap = work'[w] /\ runner'.notice = Absent
        /\ runner' = [NoRunner EXCEPT !.pc = pc, !.w = w, !.snap = work'[w],
                                      !.flag = runner.flag]
    BY ZenonT(60) DEF GotoWith, StartRunner, NoRunner
  <1>3. work'[w] \in WorkLifecycleSnapshot
    BY ZenonT(60), <1>1 DEF StoreInvariant, TypeOK
  <1>4. runner' \in RunnerStates
    <2>1. Absent \in WorkLifecycleSnapshot
      BY ZenonT(60), AbsentTyped
    <2> QED
      BY ZenonT(60), <1>1, <1>2, <1>3, <2>1 DEF RunnerStates, RunnerPcs, NoRunner,
         CleanupStatus
  <1>5. Tame(w)
    BY ZenonT(60), <1>1
  <1>6. FlagMeansDurable'
    BY ZenonT(60), <1>1, <1>2, <1>5 DEF EffectsTold, FlagMeansDurable, Tame, IsTerminal
  <1>7. CancelledMeansQuiet' /\ ModelFits' /\ ToolFits'
    BY ZenonT(60), <1>2 DEF CancelledMeansQuiet, ModelFits, ModelPhase, ToolFits, ToolPhase
  <1>8. Honest(runner.snap)'
    BY <1>2, <1>3 DEF Honest, WorkLifecycleSnapshot
  <1>9. RunnerFits'
    BY ZenonT(60), <1>1, <1>2, <1>5, <1>8 DEF RunnerFits, Tame
  <1> QED
    BY ZenonT(60), <1>1, <1>2, <1>4, <1>6, <1>7, <1>9 DEF RunnerGood, EffectsTold,
       EngineTypeOK

-----------------------------------------------------------------------------
(* What every step of the runner is shown to do: a step of WorkStore, or     *)
(* none, that moves rows forward, touches no other work, and leaves the      *)
(* runner's part of the invariant true.                                      *)
Carries ==
    /\ [Next]_storeVars
    /\ runtime' = runtime
    /\ \A v \in Works : Tame(v)
    /\ \A v \in Works : v # runner.w => Outside(v)
    /\ RunnerGood'
    /\ runner'.w = runner.w
    /\ runner'.pc # "none"

StoreKept == UNCHANGED <<work, model, tool, runtime, answered>>

(* A step that leaves the store alone is a stutter of it and disturbs no     *)
(* row.                                                                      *)
LEMMA KeptRows ==
    ASSUME StoreKept
    PROVE  /\ [Next]_storeVars
           /\ \A v \in Works : Tame(v) /\ Outside(v) /\ AttemptsKept(v)
  BY ZenonT(60) DEF StoreKept, storeVars, Tame, Outside, AttemptsKept, RowsKept

(* Steps that leave the store alone: the runner ends ...                     *)
LEMMA QuietExit ==
    ASSUME EngineInvariant, runner.pc # "none", NEW how \in Exits, Exit(how), Quiet, me' = me,
           how = "terminal_committed" /\ IsActive(work[runner.w]) =>
               /\ work[runner.w].state = "cancel_requested"
               /\ NoCurrentAttempt(work[runner.w])
    PROVE  Carries
  <1>1. StoreKept /\ UNCHANGED <<sent, handed>>
    BY ZenonT(60) DEF Quiet, StoreKept
  <1>2. /\ [Next]_storeVars
        /\ \A v \in Works : Tame(v) /\ Outside(v) /\ AttemptsKept(v)
    BY ZenonT(60), <1>1, KeptRows
  <1>3. NoEffectDenied'
    BY ZenonT(60), <1>1, <1>2, EffectsKept
  <1>4. work' = work /\ runtime' = runtime
    BY ZenonT(60), <1>1 DEF StoreKept
  <1>5. RunnerGood' /\ runner'.w = runner.w /\ runner'.pc # "none"
    BY ZenonT(60), <1>1, <1>2, <1>3, <1>4, RunnerEnds
  <1> QED
    BY ZenonT(60), <1>2, <1>4, <1>5 DEF Carries

(* ... or goes on with a row it has just read ...                            *)
LEMMA QuietGoesOn ==
    ASSUME EngineInvariant, runner.pc # "none",
           NEW pc \in {"top", "invoke", "answer", "fail", "batch", "call"},
           GotoWith(pc, work[runner.w]), Quiet, me' = me
    PROVE  Carries
  <1>1. StoreKept /\ UNCHANGED <<sent, handed>>
    BY ZenonT(60) DEF Quiet, StoreKept
  <1>2. /\ [Next]_storeVars
        /\ \A v \in Works : Tame(v) /\ Outside(v) /\ AttemptsKept(v)
    BY ZenonT(60), <1>1, KeptRows
  <1>3. NoEffectDenied'
    BY ZenonT(60), <1>1, <1>2, EffectsKept
  <1>4. work' = work /\ runtime' = runtime
    BY ZenonT(60), <1>1 DEF StoreKept
  <1>5. StoreInvariant'
    BY ZenonT(60), <1>2, NextInvariant DEF EngineInvariant
  <1>6. RunnerGood' /\ runner'.w = runner.w /\ runner'.pc # "none"
    BY ZenonT(60), <1>1, <1>2, <1>3, <1>4, <1>5, RunnerGoesOn
  <1> QED
    BY ZenonT(60), <1>2, <1>4, <1>6 DEF Carries

(* ... or moves inside its program.  With or without a change of the store:  *)
LEMMA RunnerAdvances ==
    ASSUME EngineInvariant, runner.pc # "none",
           \A v \in Works : Tame(v), me' = me,
           runner' \in RunnerStates, runner'.pc \notin {"none", "exited"},
           runner'.w = runner.w, runner'.flag = runner.flag,
           Honest(runner.snap)',
           runner'.notice # Absent => Honest(runner.notice)' /\ runner.flag,
           runner'.pc = "returned" => NoCurrentAttempt(work'[runner.w]),
           sent' \subseteq Works \X Attempts, handed' \subseteq Works \X Attempts,
           NoEffectDenied', CancelledMeansQuiet', ModelFits', ToolFits'
    PROVE  RunnerGood'
  <1>1. /\ EffectsTold /\ runner.w \in Works
        /\ work[runner.w].state \notin {"absent", "queued"}
        /\ IsActive(work[runner.w]) => work[runner.w].owner = me
    BY ZenonT(60), RunnerWork DEF EngineInvariant
  <1>2. Tame(runner.w)
    BY ZenonT(60), <1>1
  <1>3. FlagMeansDurable'
    BY ZenonT(60), <1>1, <1>2 DEF EffectsTold, FlagMeansDurable, Tame, IsTerminal
  <1>4. RunnerFits'
    BY ZenonT(60), <1>1, <1>2 DEF RunnerFits, Tame
  <1> QED
    BY ZenonT(60), <1>3, <1>4 DEF RunnerGood, EffectsTold

(* without one, on the snapshots it holds.                                   *)
LEMMA RunnerMoves ==
    ASSUME EngineInvariant, runner.pc \notin {"none", "exited"},
           StoreKept, me' = me,
           runner' \in RunnerStates, runner'.pc \notin {"none", "exited"},
           runner'.pc = "returned" => runner.pc = "returned",
           runner'.w = runner.w, runner'.flag = runner.flag,
           Honest(runner'.snap),
           runner'.notice # Absent => Honest(runner'.notice) /\ runner.flag,
           sent' \subseteq Works \X Attempts, handed' \subseteq Works \X Attempts,
           NoEffectDenied', CancelledMeansQuiet', ModelFits', ToolFits'
    PROVE  Carries
  <1>1. /\ [Next]_storeVars
        /\ \A v \in Works : Tame(v) /\ Outside(v) /\ AttemptsKept(v)
    BY ZenonT(60), KeptRows
  <1>2. work' = work /\ runtime' = runtime
    BY ZenonT(60) DEF StoreKept
  <1>3. Honest(runner.snap)' /\ (runner'.notice # Absent => Honest(runner.notice)')
    BY ZenonT(60), <1>2 DEF Honest
  <1>4. runner'.pc = "returned" => NoCurrentAttempt(work'[runner.w])
    BY ZenonT(60), <1>2 DEF EngineInvariant, RunnerFits
  <1>5. RunnerGood'
    BY ZenonT(60), <1>1, <1>3, <1>4, RunnerAdvances
  <1> QED
    BY ZenonT(60), <1>1, <1>2, <1>5 DEF Carries

(* Facts about a live runner, in the form its steps use.                     *)
LEMMA RunnerFacts ==
    ASSUME EngineInvariant, runner.pc \notin {"none", "exited"}
    PROVE  /\ runner \in RunnerStates /\ runner.w \in Works
           /\ Honest(runner.snap)
           /\ runner.notice # Absent => Honest(runner.notice) /\ runner.flag
           /\ NoEffectDenied /\ CancelledMeansQuiet /\ ModelFits /\ ToolFits
           /\ sent \subseteq Works \X Attempts /\ handed \subseteq Works \X Attempts
           /\ StoreInvariant
           /\ work[runner.w] \in WorkLifecycleSnapshot
  BY ZenonT(60), RunnerWork DEF EngineInvariant, EffectsTold, WorkTended, EngineTypeOK,
     RunnerFits

(* A move between two places outside an attempt.                             *)
LEMMA QuietGoto ==
    ASSUME EngineInvariant, runner.pc \in {"invoke", "batch", "call"},
           NEW pc \in {"fail", "call"}, Goto(pc), Quiet, me' = me
    PROVE  Carries
  <1>1. /\ StoreKept /\ UNCHANGED <<sent, handed, work, model, tool>>
    BY ZenonT(60) DEF Quiet, StoreKept
  <1>2. runner.pc \notin {"none", "exited"}
    BY ZenonT(60)
  <1>3. /\ runner \in RunnerStates /\ Honest(runner.snap)
        /\ runner.notice # Absent => Honest(runner.notice) /\ runner.flag
        /\ NoEffectDenied
        /\ sent \subseteq Works \X Attempts /\ handed \subseteq Works \X Attempts
    BY ZenonT(60), <1>2, RunnerFacts
  <1>4. /\ runner' = [runner EXCEPT !.pc = pc] /\ runner'.pc = pc
        /\ runner'.w = runner.w /\ runner'.flag = runner.flag
        /\ runner'.snap = runner.snap /\ runner'.notice = runner.notice
    BY ZenonT(60), <1>3 DEF Goto, RunnerStates
  <1>5. runner' \in RunnerStates
    BY ZenonT(60), <1>3, <1>4 DEF RunnerStates, RunnerPcs
  <1>6. CancelledMeansQuiet' /\ ModelFits' /\ ToolFits'
    BY ZenonT(60), <1>4 DEF CancelledMeansQuiet, ModelFits, ModelPhase, ToolFits, ToolPhase
  <1>7. NoEffectDenied'
    BY ZenonT(60), <1>1, <1>3 DEF NoEffectDenied
  <1> QED
    BY ZenonT(60), <1>1, <1>2, <1>3, <1>4, <1>5, <1>6, <1>7, RunnerMoves

(* A row that matches an honest snapshot is the snapshot.                    *)
LEMMA MatchesEqual ==
    ASSUME NEW e, Honest(e), Matches(e, work[runner.w])
    PROVE  e = work[runner.w]
  BY DEF Honest, Matches

(* No effect is denied by a step that writes no wrong state over one.        *)
LEMMA EffectsStay ==
    ASSUME EngineInvariant, sent' = sent, handed' = handed,
           \A v \in Works, k \in Attempts : <<v, k>> \in sent =>
               \/ model'[v][k] = model[v][k]
               \/ model'[v][k].state \notin {"absent", "cancelled_locally"},
           \A v \in Works, k \in Attempts : <<v, k>> \in handed =>
               tool'[v][k] = tool[v][k] \/ tool'[v][k].state \in HandedStates
    PROVE  NoEffectDenied'
  <1>1. /\ NoEffectDenied
        /\ sent \subseteq Works \X Attempts /\ handed \subseteq Works \X Attempts
    BY ZenonT(60) DEF EngineInvariant, EffectsTold, WorkTended, EngineTypeOK
  <1>2. ASSUME NEW e \in sent
        PROVE  model'[e[1]][e[2]].state \notin {"absent", "cancelled_locally"}
    <2>1. e[1] \in Works /\ e[2] \in Attempts /\ e = <<e[1], e[2]>>
      BY <1>1, <1>2
    <2> QED
      BY ZenonT(60), <1>1, <1>2, <2>1 DEF NoEffectDenied
  <1>3. ASSUME NEW e \in handed
        PROVE  tool'[e[1]][e[2]].state \in {"dispatching", "completed", "outcome_unknown"}
    <2>1. e[1] \in Works /\ e[2] \in Attempts /\ e = <<e[1], e[2]>>
      BY <1>1, <1>3
    <2> QED
      BY ZenonT(60), <1>1, <1>3, <2>1 DEF NoEffectDenied, HandedStates
  <1> QED
    BY ZenonT(60), <1>2, <1>3 DEF NoEffectDenied

-----------------------------------------------------------------------------
(* What is shown of every step.                                              *)
Sound == EngineInvariant' /\ StoreStep /\ ClaimBeforeQuiesce

(* The invariant, put together from its parts after a step.                  *)
Assembled ==
    /\ [Next]_storeVars
    /\ RunnerGood'
    /\ sched' \in SchedulerStates /\ proc' \in ProcessStates /\ faults' \in 0 .. MaxFaults
    /\ me' \in Runtimes \cup {NoRuntime}
    /\ runner'.w = sched'.reg
    /\ runner'.pc = "none" <=> sched'.reg = 0
    /\ sched'.target # 0 <=> sched'.pc \in Settling
    /\ me' = NoRuntime <=> proc'.pc = "down"
    /\ OwnersOpen' /\ SomeoneResponsible' /\ ProcessFits' /\ SettlementFits'
    /\ \A v \in Works : Tame(v)

(* The pieces a step is checked for make up the invariant after it and a     *)
(* step of the store.                                                        *)
LEMMA Assembles ==
    ASSUME EngineInvariant, Assembled
    PROVE  Sound
  <1>1. StoreInvariant'
    BY ZenonT(60), NextInvariant DEF EngineInvariant, Assembled
  <1>2. EngineTypeOK'
    BY ZenonT(60), <1>1 DEF Assembled, RunnerGood, EngineTypeOK, StoreInvariant
  <1>3. EngineInvariant'
    BY ZenonT(60), <1>1, <1>2 DEF EngineInvariant, Assembled, RunnerGood, WorkTended
  <1>4. ClaimBeforeQuiesce
    BY ZenonT(60) DEF Assembled, ClaimBeforeQuiesce, Tame, IsActive, ActiveStates
  <1> QED
    BY ZenonT(60), <1>3, <1>4 DEF Sound, Assembled, StoreStep

(* A step that leaves the whole store alone.                                 *)
LEMMA StoreAtRest ==
    ASSUME EngineInvariant, KeepStore
    PROVE  /\ UNCHANGED <<work, model, tool, runtime, answered>>
           /\ [Next]_storeVars
           /\ \A v \in Works : Tame(v) /\ Outside(v)
           /\ OwnersOpen'
           /\ OwnersOpen /\ SomeoneResponsible /\ ProcessFits /\ SettlementFits
           /\ EngineTypeOK /\ sched \in SchedulerStates /\ proc \in ProcessStates
           /\ faults \in 0 .. MaxFaults
  <1>1. UNCHANGED <<work, model, tool, runtime, answered>> /\ StoreKept
    BY ZenonT(60) DEF KeepStore, storeVars, StoreKept
  <1>2. OwnersOpen /\ OwnersOpen'
    BY ZenonT(60), <1>1 DEF EngineInvariant, WorkTended, OwnersOpen
  <1> QED
    BY ZenonT(60), <1>1, <1>2, KeptRows DEF EngineInvariant, WorkTended, EngineTypeOK

(* Zero stands for no work.                                                  *)
LEMMA NoWorkZero == 0 \notin Works
  BY ConstantsOK DEF Works

(* One more fault.                                                           *)
LEMMA FaultCounted ==
    ASSUME MaxFaultsOK, EngineInvariant, Fault
    PROVE  faults' \in 0 .. MaxFaults
  BY DEF MaxFaultsOK, EngineInvariant, WorkTended, EngineTypeOK, Fault

(* Steps of the main task and the scheduler that leave the runner and the    *)
(* store alone.                                                              *)
LEMMA TasksMove ==
    ASSUME EngineInvariant, KeepStore, UNCHANGED <<runner, sent, handed, me>>,
           sched' \in SchedulerStates, proc' \in ProcessStates, faults' \in 0 .. MaxFaults,
           sched'.reg = sched.reg,
           sched'.target # 0 <=> sched'.pc \in Settling,
           me = NoRuntime <=> proc'.pc = "down",
           SomeoneResponsible', ProcessFits', SettlementFits'
    PROVE  Sound
  <1>1. /\ [Next]_storeVars /\ OwnersOpen' /\ EngineTypeOK
        /\ \A v \in Works : Tame(v) /\ Outside(v)
    BY ZenonT(60), StoreAtRest
  <1>2. RunnerGood'
    BY ZenonT(60), <1>1, RunnerUndisturbed
  <1>3. /\ runner'.w = sched'.reg /\ (runner'.pc = "none" <=> sched'.reg = 0)
        /\ me' \in Runtimes \cup {NoRuntime} /\ (me' = NoRuntime <=> proc'.pc = "down")
    BY ZenonT(60), <1>1 DEF EngineTypeOK
  <1>4. Assembled
    BY ZenonT(60), <1>1, <1>2, <1>3 DEF Assembled
  <1> QED
    BY ZenonT(60), <1>4, Assembles

(* The shutdown sequence, where it leaves the store alone: nothing it        *)
(* changes is looked at outside the process.                                 *)
LEMMA ShutdownMoves ==
    ASSUME EngineInvariant, KeepStore, UNCHANGED <<runner, sent, handed, me>>,
           proc.pc \notin {"down", "recover"}, proc' \in ProcessStates,
           proc'.pc \notin {"down", "recover", "serving"}, faults' \in 0 .. MaxFaults,
           sched' \in SchedulerStates, sched'.pc = sched.pc, sched'.reg = sched.reg,
           sched'.target = sched.target, ~sched'.claiming,
           sched.pc = "claim" => proc'.pc = "quiesce",
           sched'.mail # "none" => proc'.pc # "quiesce",
           sched'.mail = "begin" => OwnedCancellable(me) = {},
           proc'.pc \in {"abort", "close"} => ~OwnsWork(me)
    PROVE  Sound
  <1>1. /\ ProcessFits /\ SettlementFits /\ EngineTypeOK /\ work' = work
    BY ZenonT(60), StoreAtRest
  <1>2. SomeoneResponsible'
    BY ZenonT(60) DEF SomeoneResponsible
  <1>3. SettlementFits'
    BY ZenonT(60), <1>1 DEF SettlementFits
  <1>4. OwnedCancellable(me)' = OwnedCancellable(me) /\ OwnsWork(me)' = OwnsWork(me)
    BY ZenonT(60), <1>1 DEF OwnedCancellable, OwnsWork
  <1>5. ProcessFits'
    BY ZenonT(60), <1>1, <1>4 DEF ProcessFits
  <1>6. /\ sched'.target # 0 <=> sched'.pc \in Settling
        /\ me = NoRuntime <=> proc'.pc = "down"
    BY ZenonT(60), <1>1 DEF EngineTypeOK
  <1> QED
    BY ZenonT(60), <1>2, <1>3, <1>5, <1>6, TasksMove

(* The scheduler moves and leaves the store and the runner alone: it may     *)
(* drop a work it was about only when the work is settled, or as it fails.   *)
LEMMA SchedulerMoves ==
    ASSUME EngineInvariant, KeepStore, KeepRunner, UNCHANGED <<me, proc>>,
           faults' \in 0 .. MaxFaults,
           sched.pc # "exited", sched' \in SchedulerStates,
           sched'.reg = sched.reg, sched'.mail = sched.mail,
           sched'.claiming => sched.claiming, sched.fatal => sched'.fatal,
           sched'.target # 0 <=> sched'.pc \in Settling,
           sched'.pc = "exited" => sched.reg = 0,
           sched'.pc = "claim" => proc.pc \in {"serving", "quiesce"},
           sched'.target = 0 \/ sched'.target # sched.reg,
           sched'.pc \in {"cancel", "interrupt"} /\ IsActive(work[sched'.target])
             => NoCurrentAttempt(work[sched'.target]),
           \/ sched'.target = sched.target \/ sched.target = 0 \/ sched'.fatal
           \/ ~IsActive(work[sched.target])
    PROVE  Sound
  <1>1. /\ work' = work /\ ProcessFits /\ SomeoneResponsible /\ EngineTypeOK
        /\ proc \in ProcessStates
    BY ZenonT(60), StoreAtRest
  <1>2. proc.pc \notin {"down", "recover"}
    BY <1>1 DEF ProcessFits, NoScheduler
  <1>3. SettlementFits'
    BY ZenonT(60), <1>1 DEF SettlementFits
  <1>4. OwnedCancellable(me)' = OwnedCancellable(me) /\ OwnsWork(me)' = OwnsWork(me)
    BY ZenonT(60), <1>1 DEF OwnedCancellable, OwnsWork
  <1>5. ProcessFits'
    BY ZenonT(60), <1>1, <1>2, <1>4 DEF ProcessFits
  <1>6. SomeoneResponsible'
    <2> SUFFICES ASSUME proc.pc = "serving", NEW w \in Works, IsActive(work[w])
                 PROVE  /\ work[w].owner = me
                        /\ w \in {sched'.reg, sched'.target} \/ Orphan(w)' \/ sched'.fatal
      BY ZenonT(60), <1>1 DEF SomeoneResponsible
    <2>1. /\ work[w].owner = me
          /\ w \in {sched.reg, sched.target} \/ Orphan(w) \/ sched.fatal
      BY ZenonT(60), <1>1 DEF SomeoneResponsible
    <2>2. Orphan(w)' <=> Orphan(w)
      BY ZenonT(60), <1>1 DEF Orphan, CancelRequested
    <2>3. w # 0
      BY ZenonT(60), NoWorkZero
    <2> QED
      BY ZenonT(60), <2>1, <2>2, <2>3
  <1>7. UNCHANGED <<runner, sent, handed, me>> /\ (me = NoRuntime <=> proc'.pc = "down")
    BY ZenonT(60), <1>1 DEF KeepRunner, runnerVars, EngineTypeOK
  <1> QED
    BY ZenonT(60), <1>1, <1>3, <1>5, <1>6, <1>7, TasksMove

(* It fails.                                                                 *)
LEMMA SchedulerFails ==
    ASSUME EngineInvariant, KeepStore, KeepRunner, UNCHANGED <<me, proc>>,
           faults' \in 0 .. MaxFaults, sched.pc # "exited", SchedFail
    PROVE  Sound
  <1>1. sched \in SchedulerStates
    BY ZenonT(60), StoreAtRest
  <1>2. /\ sched' \in SchedulerStates /\ sched'.reg = sched.reg /\ sched'.mail = sched.mail
        /\ ~sched'.claiming /\ sched'.fatal /\ sched'.target = 0 /\ sched'.pc = "idle"
    BY ZenonT(60), <1>1 DEF SchedFail, SchedulerStates
  <1>3. sched'.target # 0 <=> sched'.pc \in Settling
    BY ZenonT(60), <1>2 DEF Settling
  <1> QED
    BY ZenonT(60), <1>2, <1>3, SchedulerMoves

(* The flag is raised on a work that was asked to stop, or is settled.       *)
LEMMA FlagRaised ==
    ASSUME EngineInvariant, KeepStore, RaiseFlag, UNCHANGED <<sent, handed, me>>,
           sched.reg # 0 => work[runner.w].state \in {"cancel_requested"} \cup TerminalStates
    PROVE  RunnerGood' /\ runner'.w = runner.w /\ runner'.pc = runner.pc
  <1>1. /\ runner \in RunnerStates /\ EffectsTold /\ RunnerFits /\ ModelFits /\ ToolFits
        /\ sent \subseteq Works \X Attempts /\ handed \subseteq Works \X Attempts
        /\ UNCHANGED <<work, model, tool>>
        /\ runner.pc = "none" <=> sched.reg = 0
    BY ZenonT(60), StoreAtRest DEF EngineInvariant, EngineTypeOK
  <1>2. /\ runner' = [runner EXCEPT !.flag = sched.reg # 0 \/ runner.flag]
        /\ runner'.flag = (sched.reg # 0 \/ runner.flag)
        /\ runner'.pc = runner.pc /\ runner'.w = runner.w /\ runner'.k = runner.k
        /\ runner'.snap = runner.snap /\ runner'.notice = runner.notice
        /\ runner'.evidence = runner.evidence /\ runner'.cleanup = runner.cleanup
        /\ runner'.exit = runner.exit
    BY ZenonT(60), <1>1 DEF RaiseFlag, RunnerStates
  <1>3. runner' \in RunnerStates
    BY ZenonT(60), <1>1, <1>2 DEF RunnerStates
  <1>4. EffectsTold'
    BY ZenonT(60), <1>1, <1>2 DEF EffectsTold, NoEffectDenied, CancelledMeansQuiet,
       FlagMeansDurable
  <1>5. ModelFits' /\ ToolFits'
    BY <1>1, <1>2 DEF ModelFits, ToolFits, InAttempt
  <1>6. RunnerFits'
    <2>1. runner.pc = "none" => runner' = NoRunner
      <3> SUFFICES ASSUME runner.pc = "none" PROVE runner' = NoRunner
        BY ZenonT(60)
      <3>1. runner = NoRunner /\ sched.reg = 0
        BY ZenonT(60), <1>1 DEF RunnerFits
      <3>2. NoRunner.flag = FALSE
        BY ZenonT(60) DEF NoRunner
      <3>3. (sched.reg # 0 \/ runner.flag) = FALSE
        BY ZenonT(60), <3>1, <3>2
      <3> QED
        BY ZenonT(60), <1>2, <3>1, <3>3 DEF NoRunner
    <2> QED
      BY ZenonT(60), <1>1, <1>2, <2>1 DEF RunnerFits, Honest
  <1> QED
    BY ZenonT(60), <1>1, <1>2, <1>3, <1>4, <1>5, <1>6 DEF RunnerGood

(* The runner is gone, the effects it had are not.                           *)
LEMMA RunnerGone ==
    ASSUME EngineInvariant, UNCHANGED <<work, model, tool, sent, handed>>, runner' = NoRunner
    PROVE  RunnerGood' /\ runner'.w = 0 /\ runner'.pc = "none"
  <1>1. runner'.w = 0 /\ runner'.pc = "none" /\ ~runner'.flag
    BY ZenonT(60) DEF NoRunner
  <1>2. runner' \in RunnerStates
    <2>1. Absent \in WorkLifecycleSnapshot
      BY ZenonT(60), AbsentTyped
    <2> QED
      BY ZenonT(60), <2>1 DEF NoRunner, RunnerStates, RunnerPcs, CleanupStatus
  <1>3. EffectsTold'
    BY ZenonT(60), <1>1 DEF EngineInvariant, EffectsTold, NoEffectDenied,
       CancelledMeansQuiet,
       FlagMeansDurable
  <1>4. RunnerFits' /\ ModelFits' /\ ToolFits'
    BY ZenonT(60), <1>1 DEF RunnerFits, ModelFits, ModelPhase, ToolFits, ToolPhase
  <1> QED
    BY ZenonT(60), <1>1, <1>2, <1>3, <1>4 DEF RunnerGood, EngineInvariant, WorkTended,
       EngineTypeOK

(* The scheduler with its runner, or the whole process, ends.                *)
LEMMA TasksEnd ==
    ASSUME EngineInvariant, [Next]_storeVars,
           UNCHANGED <<work, model, tool, sent, handed>>,
           runner' = NoRunner, sched' = NoScheduler,
           proc' \in ProcessStates, proc'.pc # "serving", faults' \in 0 .. MaxFaults,
           me' \in Runtimes \cup {NoRuntime}, me' = NoRuntime <=> proc'.pc = "down",
           proc'.pc \in {"recover", "abort", "close"} => ~OwnsWork(me'),
           OwnersOpen'
    PROVE  Sound
  <1>1. RunnerGood' /\ runner'.w = 0 /\ runner'.pc = "none"
    BY ZenonT(60), RunnerGone
  <1>2. /\ sched' \in SchedulerStates /\ sched'.pc = "exited" /\ sched'.reg = 0
        /\ sched'.target = 0 /\ ~sched'.claiming /\ sched'.mail = "none"
    BY ZenonT(60) DEF NoScheduler, SchedulerStates
  <1>3. ~OwnsWork(me') <=> ~OwnsWork(me)'
    BY ZenonT(60) DEF OwnsWork
  <1>4. ProcessFits'
    BY ZenonT(60), <1>2, <1>3 DEF ProcessFits
  <1>5. SomeoneResponsible' /\ SettlementFits'
    BY ZenonT(60), <1>2 DEF SomeoneResponsible, SettlementFits
  <1>6. \A v \in Works : Tame(v)
    BY ZenonT(60) DEF Tame
  <1>7. sched'.target # 0 <=> sched'.pc \in Settling
    BY ZenonT(60), <1>2 DEF Settling
  <1>8. Assembled
    BY ZenonT(60), <1>1, <1>2, <1>4, <1>5, <1>6, <1>7 DEF Assembled
  <1> QED
    BY ZenonT(60), <1>8, Assembles

(* A runtime row is written and nothing else in the store.  A row that is    *)
(* closed owns no active work.                                               *)
LEMMA RuntimeRowWritten ==
    ASSUME EngineInvariant, NEW r \in Runtimes, NEW state \in {"running", "stopping", "stopped"},
           runtime' = [runtime EXCEPT ![r] = state], work' = work,
           state = "stopped" => ~OwnsWork(r)
    PROVE  OwnersOpen'
  <1>1. OwnersOpen /\ runtime \in [Runtimes -> RuntimeStates] /\ StoreInvariant
    BY ZenonT(60) DEF EngineInvariant, WorkTended, StoreInvariant, TypeOK
  <1> SUFFICES ASSUME NEW w \in Works, IsActive(work[w])
               PROVE  runtime'[work[w].owner] \in {"running", "stopping"}
    BY ZenonT(60) DEF OwnersOpen
  <1>2. work[w].owner \in Runtimes /\ runtime[work[w].owner] \in {"running", "stopping"}
    BY <1>1 DEF StoreInvariant, WorkShapes, ValidWorkShape, Absent, IsActive, ActiveStates,
       OwnersOpen
  <1>3. CASE work[w].owner = r
    BY ZenonT(60), <1>1, <1>2, <1>3 DEF OwnsWork
  <1>4. CASE work[w].owner # r
    BY ZenonT(60), <1>1, <1>2, <1>4
  <1> QED
    BY ZenonT(60), <1>3, <1>4

(* Somebody else writes work rows: clients, recovery, the classification at  *)
(* shutdown.  The runner is left with rows that are kept, asked to stop or   *)
(* recovered.                                                                *)
LEMMA RowsWritten ==
    ASSUME EngineInvariant, Next, runtime' = runtime,
           \A v \in Works : Tame(v) /\ Outside(v),
           KeepVolatile, UNCHANGED <<proc, faults>>
    PROVE  Sound
  <1>1. UNCHANGED <<runner, sent, handed, sched, me>>
    BY ZenonT(60) DEF KeepVolatile
  <1>2. StoreInvariant' /\ faults' \in 0 .. MaxFaults
    BY ZenonT(60), NextInvariant DEF EngineInvariant, WorkTended, EngineTypeOK
  <1>3. RunnerGood'
    BY ZenonT(60), <1>1, RunnerUndisturbed
  <1>4. EngineInvariant'
    BY ZenonT(60), <1>1, <1>2, <1>3, RestUndisturbed
  <1>5. ClaimBeforeQuiesce
    BY ZenonT(60) DEF ClaimBeforeQuiesce, Tame, IsActive, ActiveStates
  <1> QED
    BY ZenonT(60), <1>4, <1>5 DEF Sound, StoreStep

(* A runtime row is written by the main task.                                *)
LEMMA RuntimeWritten ==
    ASSUME EngineInvariant, Next, UNCHANGED <<work, model, tool>>, OwnersOpen',
           KeepVolatile, UNCHANGED faults,
           \/ UNCHANGED proc
           \/ proc.pc = "stopping" /\ ProcGoto("cancel_owned")
    PROVE  Sound
  <1>1. UNCHANGED <<runner, sent, handed, sched, me>>
    BY ZenonT(60) DEF KeepVolatile
  <1>2. /\ EngineTypeOK /\ ProcessFits /\ SettlementFits /\ SomeoneResponsible
        /\ sched \in SchedulerStates /\ proc \in ProcessStates /\ faults \in 0 .. MaxFaults
    BY ZenonT(60) DEF EngineInvariant, WorkTended, EngineTypeOK
  <1>3. \A v \in Works : Tame(v) /\ Outside(v)
    BY ZenonT(60) DEF Tame, Outside, AttemptsKept, RowsKept
  <1>4. RunnerGood'
    BY ZenonT(60), <1>1, <1>3, RunnerUndisturbed
  <1>5. /\ proc' \in ProcessStates
        /\ proc' = proc \/ (proc.pc = "stopping" /\ proc'.pc = "cancel_owned")
    <2>1. CASE proc' = proc
      BY ZenonT(60), <1>2, <2>1
    <2>2. CASE proc.pc = "stopping" /\ ProcGoto("cancel_owned")
      BY ZenonT(60), <1>2, <2>2 DEF ProcGoto, ProcessStates
    <2> QED
      BY ZenonT(60), <2>1, <2>2
  <1>6. SomeoneResponsible'
    BY ZenonT(60), <1>1, <1>2, <1>5 DEF SomeoneResponsible, Orphan, CancelRequested
  <1>7. OwnedCancellable(me)' = OwnedCancellable(me) /\ OwnsWork(me)' = OwnsWork(me)
    BY ZenonT(60), <1>1 DEF OwnedCancellable, OwnsWork
  <1>8. ProcessFits'
    BY ZenonT(60), <1>1, <1>2, <1>5, <1>7 DEF ProcessFits
  <1>9. SettlementFits'
    BY ZenonT(60), <1>1, <1>2 DEF SettlementFits
  <1>10. Assembled
    BY ZenonT(60), <1>1, <1>2, <1>3, <1>4, <1>5, <1>6, <1>8, <1>9 DEF Assembled,
       EngineTypeOK
  <1> QED
    BY ZenonT(60), <1>10, Assembles
=============================================================================
