-------------------------- MODULE EngineRunnerProofs --------------------------
(***************************************************************************)
(* The steps of the runner keep the engine's invariant and only ever do to *)
(* the store what WorkStore allows: one lemma per step.                    *)
(***************************************************************************)
EXTENDS EngineLemmas

(* The top of the agent loop: a new step, or the end of the runner.          *)
LEMMA LoopTopStep ==
    ASSUME EngineInvariant, LoopTop, me' = me
    PROVE  Carries
  <1>1. runner.pc # "none" /\ Quiet
    BY ZenonT(60) DEF LoopTop
  <1>2. CASE \E how \in {"cancellation_confirmed", "abnormal"} : Exit(how)
    <2>1. PICK how \in {"cancellation_confirmed", "abnormal"} : Exit(how)
      BY ZenonT(60), <1>2
    <2>2. how \in Exits /\ how # "terminal_committed"
      BY ZenonT(60) DEF Exits
    <2> QED
      BY ZenonT(60), <1>1, <2>1, <2>2, QuietExit
  <1>3. CASE \E pc \in {"invoke", "fail"} : GotoWith(pc, work[runner.w])
    BY ZenonT(60), <1>1, <1>3, QuietGoesOn
  <1> QED
    BY ZenonT(60), <1>2, <1>3 DEF LoopTop

(* begin_model.                                                              *)
LEMMA InvokeModelStep ==
    ASSUME EngineInvariant, InvokeModel, me' = me
    PROVE  Carries
  <1> DEFINE w == runner.w
  <1>1. /\ runner.pc = "invoke"
        /\ {"cancellation_confirmed", "abnormal"} \subseteq Exits \ {"terminal_committed"}
    BY ZenonT(60) DEF InvokeModel, Exits
  <1>2. CASE Quiet /\ \E how \in {"cancellation_confirmed", "abnormal"} : Exit(how)
    BY ZenonT(60), <1>1, <1>2, QuietExit
  <1>3. CASE Quiet /\ Goto("fail")
    BY ZenonT(60), <1>1, <1>3, QuietGoto
  <1>4. ASSUME NEW k \in Attempts, ~runner.flag, BeginModel(w, runner.snap, k),
               runner' = [runner EXCEPT !.pc = "send", !.k = k,
                                        !.snap = NextSnapshot(runner.snap, WaitForModel(k))],
               UNCHANGED <<sent, handed>>
        PROVE  Carries
    <2>1. /\ runner \in RunnerStates /\ w \in Works /\ Honest(runner.snap)
          /\ runner.notice = Absent /\ NoEffectDenied /\ StoreInvariant
          /\ sent \subseteq Works \X Attempts /\ handed \subseteq Works \X Attempts
      BY ZenonT(60), <1>1, <1>4, RunnerFacts
    <2>2. runner.snap = work[w]
      BY ZenonT(60), <1>4, <2>1, MatchesEqual DEF BeginModel, GuardedWorkUpdate
    <2>3. BeginModel(w, work[w], k)
      BY ZenonT(60), <1>4, <2>2
    <2>4. Next
      BY ZenonT(60), <1>4, <2>1, <2>3 DEF Next, AttemptStep
    <2>5. /\ \A v \in Works : Tame(v)
          /\ \A v \in Works : v # w => RowsKept(v)
          /\ work'[w] = NextSnapshot(work[w], WaitForModel(k))
          /\ IsActive(work'[w]) /\ HasAttempt(work'[w], "model", k)
          /\ model[w][k].state = "absent" /\ model'[w][k].state = "requesting"
          /\ \A j \in Attempts : j # k => model'[w][j] = model[w][j]
          /\ tool' = tool /\ runtime' = runtime
      BY ZenonT(60), <1>4, <2>1, <2>3, BeginModelEffect
    <2>6. StoreInvariant' /\ work'[w] \in WorkLifecycleSnapshot
      BY ZenonT(60), <2>1, <2>4, NextInvariant DEF StoreInvariant, TypeOK
    <2>7. /\ runner'.pc = "send" /\ runner'.k = k /\ runner'.w = w
          /\ runner'.snap = work'[w] /\ runner'.flag = runner.flag
          /\ runner'.notice = Absent
          /\ runner' = [runner EXCEPT !.pc = "send", !.k = k, !.snap = work'[w]]
      BY ZenonT(60), <1>4, <2>1, <2>2, <2>5 DEF RunnerStates
    <2>8. runner' \in RunnerStates
      BY ZenonT(60), <1>4, <2>1, <2>6, <2>7 DEF RunnerStates, RunnerPcs
    <2>9. <<w, k>> \notin sent
      BY ZenonT(60), <2>1, <2>5 DEF NoEffectDenied
    <2>10. NoEffectDenied'
      BY ZenonT(60), <1>4, <2>5, <2>9, EffectsStay DEF RowsKept
    <2>11. ModelFits'
      BY ZenonT(60), <1>4, <2>5, <2>7, <2>9 DEF ModelFits, InAttempt, ModelPhase
    <2>12. CancelledMeansQuiet' /\ ToolFits'
      BY ZenonT(60), <2>7 DEF CancelledMeansQuiet, ToolFits, ToolPhase
    <2>13. Honest(runner.snap)'
      BY <2>6, <2>7 DEF Honest, WorkLifecycleSnapshot
    <2>14. RunnerGood'
      BY ZenonT(60), <1>1, <1>4, <2>1, <2>5, <2>7, <2>8, <2>10, <2>11, <2>12, <2>13,
         RunnerAdvances
    <2>15. \A v \in Works : v # w => Outside(v)
      BY ZenonT(60), <2>5 DEF Outside, RowsKept, AttemptsKept
    <2> QED
      BY ZenonT(60), <2>4, <2>5, <2>7, <2>14, <2>15 DEF Carries
  <1> QED
    BY ZenonT(60), <1>2, <1>3, <1>4 DEF InvokeModel

(* Up to the provider call, and its end: only the runner moves.              *)
LEMMA EndAttemptStep ==
    ASSUME EngineInvariant, runner.pc \in {"send", "open", "streaming"},
           NEW evidence \in ModelEvidence, EndAttempt(evidence), Quiet, me' = me,
           evidence = "cancelled" => runner.pc = "send"
    PROVE  Carries
  <1>1. StoreKept /\ UNCHANGED <<work, model, tool, sent, handed>>
    BY DEF Quiet, StoreKept
  <1>2. runner.pc \notin {"none", "exited"}
    BY ZenonT(60)
  <1>3. /\ runner \in RunnerStates /\ Honest(runner.snap)
        /\ runner.notice # Absent => Honest(runner.notice) /\ runner.flag
        /\ NoEffectDenied /\ ModelFits
        /\ sent \subseteq Works \X Attempts /\ handed \subseteq Works \X Attempts
    BY ZenonT(60), <1>2, RunnerFacts
  <1>4. /\ runner' = [runner EXCEPT !.pc = "finish", !.evidence = evidence]
        /\ runner'.pc = "finish" /\ runner'.evidence = evidence
        /\ runner'.w = runner.w /\ runner'.k = runner.k /\ runner'.flag = runner.flag
        /\ runner'.snap = runner.snap /\ runner'.notice = runner.notice
    BY ZenonT(60), <1>3 DEF EndAttempt, RunnerStates
  <1>5. runner' \in RunnerStates
    BY ZenonT(60), <1>3, <1>4 DEF RunnerStates, RunnerPcs
  <1>6. ModelFits'
    BY <1>1, <1>3, <1>4 DEF ModelFits, ModelPhase, InAttempt
  <1>7. CancelledMeansQuiet' /\ ToolFits'
    BY ZenonT(60), <1>4 DEF CancelledMeansQuiet, ToolFits, ToolPhase
  <1>8. NoEffectDenied'
    BY ZenonT(60), <1>1, <1>3 DEF NoEffectDenied
  <1> QED
    BY ZenonT(60), <1>1, <1>2, <1>3, <1>4, <1>5, <1>6, <1>7, <1>8, RunnerMoves

(* The request is sent to the provider, or the attempt ends before it.       *)
LEMMA SendRequestStep ==
    ASSUME EngineInvariant, SendRequest, me' = me
    PROVE  Carries
  <1>1. runner.pc = "send" /\ {"failed", "cancelled"} \subseteq ModelEvidence
    BY ZenonT(60) DEF SendRequest, ModelEvidence
  <1>2. CASE Quiet /\ \E evidence \in {"failed", "cancelled"} : EndAttempt(evidence)
    BY ZenonT(60), <1>1, <1>2, EndAttemptStep
  <1>3. CASE /\ Goto("open") /\ sent' = sent \cup {<<runner.w, runner.k>>}
             /\ UNCHANGED <<work, model, tool, runtime, answered, handed>>
    <2>1. /\ runner \in RunnerStates /\ runner.w \in Works /\ Honest(runner.snap)
          /\ runner.notice # Absent => Honest(runner.notice) /\ runner.flag
          /\ NoEffectDenied /\ ModelFits
          /\ sent \subseteq Works \X Attempts /\ handed \subseteq Works \X Attempts
      BY ZenonT(60), <1>1, RunnerFacts
    <2>2. /\ runner' = [runner EXCEPT !.pc = "open"] /\ runner'.pc = "open"
          /\ runner'.w = runner.w /\ runner'.k = runner.k /\ runner'.flag = runner.flag
          /\ runner'.snap = runner.snap /\ runner'.notice = runner.notice
      BY ZenonT(60), <1>3, <2>1 DEF Goto, RunnerStates
    <2>3. runner' \in RunnerStates
      BY ZenonT(60), <2>1, <2>2 DEF RunnerStates, RunnerPcs
    <2>4. /\ InAttempt("model") /\ runner.k \in Attempts
          /\ model[runner.w][runner.k].state \notin {"absent", "cancelled_locally"}
      BY ZenonT(60), <1>1, <2>1 DEF ModelFits, ModelPhase, InAttempt
    <2>5. NoEffectDenied'
      BY <1>3, <2>1, <2>4 DEF NoEffectDenied
    <2>6. ModelFits'
      BY ZenonT(60), <1>3, <2>2, <2>4 DEF ModelFits, InAttempt
    <2>7. CancelledMeansQuiet' /\ ToolFits'
      BY ZenonT(60), <1>3, <2>2, <2>4 DEF CancelledMeansQuiet, ToolFits, ToolPhase,
         InAttempt, IsActive,
         ActiveStates
    <2>8. sent' \subseteq Works \X Attempts
      BY <1>3, <2>1, <2>4
    <2> QED
      BY ZenonT(60), <1>1, <1>3, <2>1, <2>2, <2>3, <2>5, <2>6, <2>7, <2>8,
         RunnerMoves DEF StoreKept
  <1> QED
    BY ZenonT(60), <1>2, <1>3 DEF SendRequest

(* The provider's stream ends, fails or is cut off.                          *)
LEMMA ProviderEndsStep ==
    ASSUME EngineInvariant, ProviderEnds, me' = me
    PROVE  Carries
  <1>1. PICK evidence \in {"completed", "failed", "unknown", "unstorable"} :
            EndAttempt(evidence)
    BY ZenonT(60) DEF ProviderEnds
  <1>2. evidence \in ModelEvidence /\ evidence # "cancelled"
    BY ZenonT(60) DEF ModelEvidence
  <1> QED
    BY ZenonT(60), <1>1, <1>2, EndAttemptStep DEF ProviderEnds

(* mark_model_streaming.                                                     *)
LEMMA FirstEventStep ==
    ASSUME EngineInvariant, FirstEvent, me' = me
    PROVE  Carries
  <1> DEFINE w == runner.w
             k == runner.k
  <1>1. runner.pc = "open" /\ "abnormal" \in Exits
    BY ZenonT(60) DEF FirstEvent, Exits
  <1>2. CASE Quiet /\ Exit("abnormal")
    BY ZenonT(60), <1>1, <1>2, QuietExit
  <1>3. CASE MarkModelStreaming(w, k) /\ Goto("streaming") /\ UNCHANGED <<sent, handed>>
    <2>1. /\ runner \in RunnerStates /\ w \in Works /\ Honest(runner.snap)
          /\ runner.notice # Absent => Honest(runner.notice) /\ runner.flag
          /\ ModelFits /\ CancelledMeansQuiet /\ StoreInvariant
          /\ sent \subseteq Works \X Attempts /\ handed \subseteq Works \X Attempts
      BY ZenonT(60), <1>1, RunnerFacts
    <2>2. InAttempt("model") /\ k \in Attempts
      BY ZenonT(60), <1>1, <2>1 DEF ModelFits, ModelPhase, InAttempt
    <2>3. Next
      BY ZenonT(60), <1>3, <2>1, <2>2 DEF Next, AttemptStep
    <2>4. /\ work' = work /\ tool' = tool /\ runtime' = runtime
          /\ model'[w][k].state = "streaming"
          /\ \A j \in Attempts : j # k => model'[w][j] = model[w][j]
          /\ \A v \in Works : v # w => RowsKept(v)
      BY ZenonT(60), <1>3, <2>1, <2>2, MarkStreamingEffect
    <2>5. /\ runner' = [runner EXCEPT !.pc = "streaming"] /\ runner'.pc = "streaming"
          /\ runner'.w = w /\ runner'.k = k /\ runner'.flag = runner.flag
          /\ runner'.snap = runner.snap /\ runner'.notice = runner.notice
      BY ZenonT(60), <1>3, <2>1 DEF Goto, RunnerStates
    <2>6. runner' \in RunnerStates
      BY ZenonT(60), <2>1, <2>5 DEF RunnerStates, RunnerPcs
    <2>7. NoEffectDenied'
      BY ZenonT(60), <1>3, <2>4, EffectsStay DEF RowsKept
    <2>8. ModelFits'
      BY ZenonT(60), <2>2, <2>4, <2>5 DEF ModelFits, InAttempt
    <2>9. CancelledMeansQuiet' /\ ToolFits'
      BY ZenonT(60), <1>1, <2>1, <2>4, <2>5 DEF CancelledMeansQuiet, ToolFits, ToolPhase
    <2>10. Honest(runner.snap)' /\ (runner'.notice # Absent => Honest(runner.notice)')
      BY ZenonT(60), <2>1, <2>4, <2>5 DEF Honest
    <2>11. \A v \in Works : Tame(v)
      BY ZenonT(60), <2>4 DEF Tame
    <2>12. RunnerGood'
      BY ZenonT(60), <1>1, <1>3, <2>1, <2>5, <2>6, <2>7, <2>8, <2>9, <2>10, <2>11,
         RunnerAdvances
    <2>13. \A v \in Works : v # w => Outside(v)
      BY ZenonT(60), <2>4 DEF Outside, RowsKept, AttemptsKept
    <2> QED
      BY ZenonT(60), <2>3, <2>4, <2>5, <2>11, <2>12, <2>13 DEF Carries
  <1> QED
    BY ZenonT(60), <1>2, <1>3 DEF FirstEvent

(* finish_model, with the refreshed snapshot.                                *)
LEMMA FinishAttemptStep ==
    ASSUME EngineInvariant, FinishAttempt, me' = me
    PROVE  Carries
  <1> DEFINE w == runner.w
             k == runner.k
             s == work[w]
             e == RefreshedSnapshot
             q == ModelWorkNext(e, k, runner.evidence)
             n == NextSnapshot(e, q)
  <1>1. /\ runner.pc = "finish" /\ "abnormal" \in Exits /\ "terminal_committed" \in Exits
    BY ZenonT(60) DEF FinishAttempt, Exits
  <1>2. CASE Exit("abnormal") /\ Quiet
    BY ZenonT(60), <1>1, <1>2, QuietExit
  <1>3. ASSUME FinishModel(w, e, k, model[w][k].state, ModelOutcome(runner.evidence), q),
               \/ IsTerminal(n) /\ Exit("terminal_committed")
               \/ ~IsTerminal(n) /\ \E pc \in AfterAttempt(runner.evidence) : GotoWith(pc, n),
               UNCHANGED <<sent, handed>>
        PROVE  Carries
    <2>1. /\ runner \in RunnerStates /\ w \in Works /\ Honest(runner.snap)
          /\ ModelFits /\ StoreInvariant
      BY ZenonT(60), <1>1, RunnerFacts
    <2>2. e = s
      <3>1. CASE e = runner.snap
        BY ZenonT(60), <1>3, <2>1, <3>1, MatchesEqual DEF FinishModel, GuardedWorkUpdate
      <3> QED
        BY ZenonT(60), <3>1 DEF RefreshedSnapshot
    <2>3. /\ k \in Attempts /\ runner.evidence \in ModelEvidence
          /\ runner.evidence = "cancelled" => <<w, k>> \notin sent
      BY ZenonT(60), <1>1, <2>1 DEF ModelFits, ModelPhase, InAttempt
    <2> DEFINE z == ModelWorkNext(s, k, runner.evidence)
    <2>4. FinishModel(w, s, k, model[w][k].state, ModelOutcome(runner.evidence), z)
      BY ZenonT(60), <1>3, <2>2
    <2>5. Next
      BY ZenonT(60), <2>1, <2>3, <2>4 DEF Next, AttemptStep
    <2>6. /\ \A v \in Works : Tame(v)
          /\ \A v \in Works : v # w => RowsKept(v)
          /\ work'[w] = NextSnapshot(s, z)
          /\ model'[w][k].state = ModelOutcome(runner.evidence)
          /\ \A j \in Attempts : j # k => model'[w][j] = model[w][j]
          /\ tool' = tool /\ runtime' = runtime
      BY ZenonT(60), <2>1, <2>3, <2>4, FinishModelEffect
    <2>7. n = work'[w]
      BY ZenonT(60), <2>2, <2>6
    <2>8. NoEffectDenied'
      <3>1. /\ ModelOutcome(runner.evidence) # "absent"
            /\ ModelOutcome(runner.evidence) = "cancelled_locally" => <<w, k>> \notin sent
        BY ZenonT(60), <2>3 DEF ModelOutcome, ModelEvidence
      <3>2. <<w, k>> \in sent => model'[w][k].state \notin {"absent", "cancelled_locally"}
        BY ZenonT(60), <2>6, <3>1
      <3>3. \A v \in Works, j \in Attempts : <<v, j>> \in sent =>
                \/ model'[v][j] = model[v][j]
                \/ model'[v][j].state \notin {"absent", "cancelled_locally"}
        BY ZenonT(60), <2>6, <3>2 DEF RowsKept
      <3> QED
        BY ZenonT(60), <1>3, <2>6, <3>3, EffectsStay
    <2>9. RunnerGood' /\ runner'.w = w /\ runner'.pc # "none"
      <3>1. CASE IsTerminal(n) /\ Exit("terminal_committed")
        <4>1. ~IsActive(work'[w])
          BY ZenonT(60), <2>7, <3>1 DEF IsTerminal, TerminalStates, IsActive, ActiveStates
        <4> QED
          BY ZenonT(60), <1>1, <1>3, <2>6, <2>8, <3>1, <4>1, RunnerEnds
      <3>2. CASE \E pc \in AfterAttempt(runner.evidence) : GotoWith(pc, n)
        <4>1. PICK pc \in AfterAttempt(runner.evidence) : GotoWith(pc, work'[w])
          BY ZenonT(60), <2>7, <3>2
        <4>2. pc \in {"top", "invoke", "answer", "fail", "batch", "call"}
          BY ZenonT(60), <4>1 DEF AfterAttempt
        <4>3. StoreInvariant'
          BY ZenonT(60), <2>1, <2>5, NextInvariant
        <4> QED
          BY ZenonT(60), <1>1, <1>3, <2>6, <2>8, <4>1, <4>2, <4>3, RunnerGoesOn
      <3> QED
        BY ZenonT(60), <1>3, <3>1, <3>2
    <2>10. \A v \in Works : v # w => Outside(v)
      BY ZenonT(60), <2>6 DEF Outside, RowsKept, AttemptsKept
    <2> QED
      BY ZenonT(60), <2>5, <2>6, <2>9, <2>10 DEF Carries
  <1> QED
    BY ZenonT(60), <1>2, <1>3 DEF FinishAttempt

(* commit_assistant_completion and terminalize_owned_work.                   *)
LEMMA CompletionStep ==
    ASSUME EngineInvariant, runner.pc \in {"answer", "fail"},
           \/ CommitAssistantCompletion(runner.w, runner.snap)
           \/ TerminalizeOwnedWork(runner.w, runner.snap),
           Exit("terminal_committed"), UNCHANGED <<sent, handed>>, me' = me
    PROVE  Carries
  <1> DEFINE w == runner.w
  <1>1. w \in Works /\ Honest(runner.snap) /\ StoreInvariant
    BY ZenonT(60), RunnerFacts
  <1>2. runner.snap = work[w]
    BY ZenonT(60), <1>1, MatchesEqual DEF CommitAssistantCompletion, TerminalizeOwnedWork,
       GuardedWorkUpdate
  <1>3. CommitAssistantCompletion(w, work[w]) \/ TerminalizeOwnedWork(w, work[w])
    BY ZenonT(60), <1>2
  <1>4. Next
    BY ZenonT(60), <1>1, <1>3 DEF Next, WorkStep
  <1>5. /\ \A v \in Works : Tame(v)
        /\ \A v \in Works : v # w => RowsKept(v)
        /\ IsTerminal(work'[w])
        /\ model' = model /\ tool' = tool /\ runtime' = runtime
    BY ZenonT(60), <1>1, <1>3, CompletionEffect
  <1>6. NoEffectDenied'
    BY ZenonT(60), <1>5, EffectsStay
  <1>7. ~IsActive(work'[w]) /\ "terminal_committed" \in Exits
    BY ZenonT(60), <1>5 DEF IsTerminal, TerminalStates, IsActive, ActiveStates, Exits
  <1>8. RunnerGood' /\ runner'.w = w /\ runner'.pc # "none"
    BY ZenonT(60), <1>5, <1>6, <1>7, RunnerEnds
  <1>9. \A v \in Works : v # w => Outside(v)
    BY ZenonT(60), <1>5 DEF Outside, RowsKept, AttemptsKept
  <1> QED
    BY ZenonT(60), <1>4, <1>5, <1>8, <1>9 DEF Carries

(* complete_work with the final answer.                                      *)
LEMMA CommitAnswerStep ==
    ASSUME EngineInvariant, CommitAnswer, me' = me
    PROVE  Carries
  <1>1. runner.pc = "answer" /\ "abnormal" \in Exits
    BY ZenonT(60) DEF CommitAnswer, Exits
  <1>2. CASE Quiet /\ Exit("abnormal")
    BY ZenonT(60), <1>1, <1>2, QuietExit
  <1> QED
    BY ZenonT(60), <1>1, <1>2, CompletionStep DEF CommitAnswer

(* fail_work after a limit or an error.                                      *)
LEMMA FailWorkStep ==
    ASSUME EngineInvariant, FailWork, me' = me
    PROVE  Carries
  <1>1. runner.pc = "fail" /\ "abnormal" \in Exits
    BY ZenonT(60) DEF FailWork, Exits
  <1>2. CASE Quiet /\ Exit("abnormal")
    BY ZenonT(60), <1>1, <1>2, QuietExit
  <1> QED
    BY ZenonT(60), <1>1, <1>2, CompletionStep DEF FailWork

-----------------------------------------------------------------------------
(* The tool batch.                                                           *)
LEMMA StartBatchStep ==
    ASSUME EngineInvariant, StartBatch, me' = me
    PROVE  Carries
  <1>1. runner.pc = "batch" /\ Quiet /\ "abnormal" \in Exits
    BY ZenonT(60) DEF StartBatch, Exits
  <1>2. CASE Exit("abnormal")
    BY ZenonT(60), <1>1, <1>2, QuietExit
  <1>3. CASE GotoWith("fail", work[runner.w])
    BY ZenonT(60), <1>1, <1>3, QuietGoesOn
  <1>4. CASE Goto("call")
    BY ZenonT(60), <1>1, <1>4, QuietGoto
  <1> QED
    BY ZenonT(60), <1>2, <1>3, <1>4 DEF StartBatch

(* The deadline passes before the tool intent is committed.                  *)
LEMMA ExpireBeforeIntentStep ==
    ASSUME EngineInvariant, ExpireBeforeIntent, me' = me
    PROVE  Carries
  <1>1. runner.pc = "call" /\ Quiet /\ Exit("abnormal") /\ "abnormal" \in Exits
    BY ZenonT(60) DEF ExpireBeforeIntent, Exits
  <1> QED
    BY ZenonT(60), <1>1, QuietExit

(* request_tool.                                                             *)
LEMMA StartCallStep ==
    ASSUME EngineInvariant, StartCall, me' = me
    PROVE  Carries
  <1> DEFINE w == runner.w
  <1>1. /\ runner.pc = "call"
        /\ {"cancellation_confirmed", "abnormal"} \subseteq Exits \ {"terminal_committed"}
    BY ZenonT(60) DEF StartCall, Exits
  <1>2. CASE Quiet /\ \E how \in {"cancellation_confirmed", "abnormal"} : Exit(how)
    BY ZenonT(60), <1>1, <1>2, QuietExit
  <1>3. CASE Quiet /\ Goto("fail")
    BY ZenonT(60), <1>1, <1>3, QuietGoto
  <1>4. ASSUME NEW k \in Attempts, ~runner.flag, RequestTool(w, runner.snap, k),
               runner' = [runner EXCEPT !.pc = "requested", !.k = k,
                                        !.snap = NextSnapshot(runner.snap, WaitForTool(k))],
               UNCHANGED <<sent, handed>>
        PROVE  Carries
    <2>1. /\ runner \in RunnerStates /\ w \in Works /\ Honest(runner.snap)
          /\ runner.notice = Absent /\ NoEffectDenied /\ StoreInvariant
          /\ sent \subseteq Works \X Attempts /\ handed \subseteq Works \X Attempts
      BY ZenonT(60), <1>1, <1>4, RunnerFacts
    <2>2. runner.snap = work[w]
      BY ZenonT(60), <1>4, <2>1, MatchesEqual DEF RequestTool, GuardedWorkUpdate
    <2>3. RequestTool(w, work[w], k)
      BY ZenonT(60), <1>4, <2>2
    <2>4. Next
      BY ZenonT(60), <1>4, <2>1, <2>3 DEF Next, AttemptStep
    <2>5. /\ \A v \in Works : Tame(v)
          /\ \A v \in Works : v # w => RowsKept(v)
          /\ work'[w] = NextSnapshot(work[w], WaitForTool(k))
          /\ IsActive(work'[w]) /\ HasAttempt(work'[w], "tool", k)
          /\ tool[w][k].state = "absent" /\ tool'[w][k].state = "requested"
          /\ \A j \in Attempts : j # k => tool'[w][j] = tool[w][j]
          /\ model' = model /\ runtime' = runtime
      BY ZenonT(60), <1>4, <2>1, <2>3, RequestToolEffect
    <2>6. StoreInvariant' /\ work'[w] \in WorkLifecycleSnapshot
      BY ZenonT(60), <2>1, <2>4, NextInvariant DEF StoreInvariant, TypeOK
    <2>7. /\ runner'.pc = "requested" /\ runner'.k = k /\ runner'.w = w
          /\ runner'.snap = work'[w] /\ runner'.flag = runner.flag
          /\ runner'.notice = Absent
          /\ runner' = [runner EXCEPT !.pc = "requested", !.k = k, !.snap = work'[w]]
      BY ZenonT(60), <1>4, <2>1, <2>2, <2>5 DEF RunnerStates
    <2>8. runner' \in RunnerStates
      BY ZenonT(60), <1>4, <2>1, <2>6, <2>7 DEF RunnerStates, RunnerPcs, Executing
    <2>9. <<w, k>> \notin handed
      BY ZenonT(60), <2>1, <2>5 DEF NoEffectDenied
    <2>10. NoEffectDenied'
      BY ZenonT(60), <1>4, <2>5, <2>9, EffectsStay DEF RowsKept
    <2>11. ToolFits'
      BY ZenonT(60), <1>4, <2>5, <2>7 DEF ToolFits, InAttempt, ToolPhase
    <2>12. CancelledMeansQuiet' /\ ModelFits'
      BY ZenonT(60), <2>7 DEF CancelledMeansQuiet, ModelFits, ModelPhase
    <2>13. Honest(runner.snap)'
      BY <2>6, <2>7 DEF Honest, WorkLifecycleSnapshot
    <2>14. RunnerGood'
      BY ZenonT(60), <1>1, <1>4, <2>1, <2>5, <2>7, <2>8, <2>10, <2>11, <2>12, <2>13,
         RunnerAdvances
    <2>15. \A v \in Works : v # w => Outside(v)
      BY ZenonT(60), <2>5 DEF Outside, RowsKept, AttemptsKept
    <2> QED
      BY ZenonT(60), <2>4, <2>5, <2>7, <2>14, <2>15 DEF Carries
  <1> QED
    BY ZenonT(60), <1>2, <1>3, <1>4 DEF StartCall

(* A forwarded cancellation is the row as it is now.                         *)
LEMMA ForwardCancellationStep ==
    ASSUME EngineInvariant, ForwardCancellation, me' = me
    PROVE  Carries
  <1> DEFINE w == runner.w
  <1>1. /\ runner.pc \in Executing /\ Quiet /\ runner.flag /\ "abnormal" \in Exits
        /\ runner.pc \notin {"none", "exited"}
    BY ZenonT(60) DEF ForwardCancellation, Exits, Executing
  <1>2. CASE Exit("abnormal")
    BY ZenonT(60), <1>1, <1>2, QuietExit
  <1>3. CASE runner' = [runner EXCEPT !.notice = work[w]]
    <2>1. StoreKept /\ UNCHANGED <<work, model, tool, sent, handed>>
      BY ZenonT(60), <1>1 DEF Quiet, StoreKept
    <2>2. /\ runner \in RunnerStates /\ Honest(runner.snap)
          /\ NoEffectDenied /\ CancelledMeansQuiet /\ ToolFits
          /\ sent \subseteq Works \X Attempts /\ handed \subseteq Works \X Attempts
          /\ work[w] \in WorkLifecycleSnapshot
      BY ZenonT(60), <1>1, RunnerFacts
    <2>3. /\ runner'.pc = runner.pc /\ runner'.w = w /\ runner'.k = runner.k
          /\ runner'.flag = runner.flag /\ runner'.snap = runner.snap
          /\ runner'.notice = work[w]
          /\ runner'.evidence = runner.evidence /\ runner'.cleanup = runner.cleanup
      BY ZenonT(60), <1>3, <2>2 DEF RunnerStates
    <2>4. runner' \in RunnerStates
      BY ZenonT(60), <1>3, <2>2 DEF RunnerStates
    <2>5. Honest(runner'.notice)
      BY <2>2, <2>3 DEF Honest, WorkLifecycleSnapshot
    <2>6. CancelledMeansQuiet' /\ NoEffectDenied'
      BY ZenonT(60), <2>1, <2>2, <2>3 DEF CancelledMeansQuiet, NoEffectDenied
    <2>7. ModelFits'
      BY ZenonT(60), <1>1, <2>3 DEF ModelFits, ModelPhase, Executing
    <2>8. ToolFits'
      BY ZenonT(60), <2>1, <2>2, <2>3 DEF ToolFits, InAttempt
    <2> QED
      BY ZenonT(60), <1>1, <2>1, <2>2, <2>3, <2>4, <2>5, <2>6, <2>7, <2>8, RunnerMoves
  <1> QED
    BY ZenonT(60), <1>2, <1>3 DEF ForwardCancellation

(* A call ends, with what the row of its tool allows to say.                 *)
LEMMA EndCallStep ==
    ASSUME EngineInvariant, runner.pc \in {"requested", "dispatched", "handling"},
           NEW s \in WorkLifecycleSnapshot, Honest(s),
           NEW evidence, NEW cleanup, EndCall(s, evidence, cleanup),
           \/ evidence = "completed" /\ cleanup = "not_required"
           \/ evidence = "completed" /\ cleanup = "confirmed" /\ runner.pc # "requested"
           \/ evidence \in {"unknown", "panicked"} /\ cleanup = "unconfirmed",
           Quiet, me' = me
    PROVE  Carries
  <1>1. StoreKept /\ UNCHANGED <<work, model, tool, sent, handed>>
    BY ZenonT(60) DEF Quiet, StoreKept
  <1>2. /\ runner \in RunnerStates /\ Honest(runner.snap)
        /\ runner.notice # Absent => Honest(runner.notice) /\ runner.flag
        /\ NoEffectDenied /\ ToolFits
        /\ sent \subseteq Works \X Attempts /\ handed \subseteq Works \X Attempts
    BY ZenonT(60), RunnerFacts
  <1>3. /\ runner' = [runner EXCEPT !.pc = "toolfinish", !.snap = s, !.evidence = evidence,
                                    !.cleanup = cleanup]
        /\ runner'.pc = "toolfinish" /\ runner'.w = runner.w /\ runner'.k = runner.k
        /\ runner'.flag = runner.flag /\ runner'.snap = s /\ runner'.notice = runner.notice
        /\ runner'.evidence = evidence /\ runner'.cleanup = cleanup
    BY ZenonT(60), <1>2 DEF EndCall, RunnerStates
  <1>4. runner' \in RunnerStates
    <2>1. /\ evidence \in ModelEvidence \cup {"none", "panicked"} /\ cleanup \in CleanupStatus
          /\ "toolfinish" \in RunnerPcs
      BY ZenonT(60) DEF ModelEvidence, CleanupStatus, RunnerPcs, Executing
    <2> QED
      BY ZenonT(60), <1>2, <1>3, <2>1 DEF RunnerStates
  <1>5. NoEffectDenied'
    BY ZenonT(60), <1>1, <1>2 DEF NoEffectDenied
  <1>6. CancelledMeansQuiet' /\ ModelFits'
    BY ZenonT(60), <1>3 DEF CancelledMeansQuiet, ModelFits, ModelPhase
  <1>7. ToolFits'
    <2>1. /\ InAttempt("tool") /\ tool[runner.w][runner.k].state # "absent"
          /\ runner.pc # "requested" => tool[runner.w][runner.k].state \in HandedStates
      BY ZenonT(60), <1>2 DEF ToolFits, ToolPhase
    <2>2. InAttempt("tool")'
      BY ZenonT(60), <1>1, <1>3, <2>1 DEF InAttempt
    <2> QED
      BY ZenonT(60), <1>1, <1>3, <2>1, <2>2 DEF ToolFits
  <1> QED
    BY ZenonT(60), <1>1, <1>2, <1>3, <1>4, <1>5, <1>6, <1>7, RunnerMoves

(* The ways a tool call comes to an outcome that is still to be committed.   *)
LEMMA CallEndsStep ==
    ASSUME EngineInvariant, me' = me,
           PredispatchResult \/ CancelBeforeDispatch \/ CancelBeforeHandoff \/ RefuseHandoff
           \/ HandlerEnds
    PROVE  Carries
  <1>1. ToolCleanup("completed", "dispatching") = {"not_required", "confirmed"}
    BY ZenonT(60) DEF ToolCleanup
  <1>2. /\ runner.pc \in {"requested", "dispatched", "handling"} /\ Quiet
    BY ZenonT(60) DEF PredispatchResult, CancelBeforeDispatch, CancelBeforeHandoff,
       RefuseHandoff,
       HandlerEnds
  <1>3. /\ runner.snap \in WorkLifecycleSnapshot /\ Honest(runner.snap)
        /\ runner.notice \in WorkLifecycleSnapshot
        /\ runner.notice # Absent => Honest(runner.notice)
    BY ZenonT(60), <1>2, RunnerFacts DEF RunnerStates
  <1>4. PICK s \in WorkLifecycleSnapshot :
            /\ Honest(s)
            /\ \/ EndCall(s, "completed", "not_required")
               \/ EndCall(s, "completed", "confirmed") /\ runner.pc # "requested"
               \/ \E evidence \in {"unknown", "panicked"} :
                      EndCall(s, evidence, "unconfirmed")
    <2>1. CASE PredispatchResult
      BY ZenonT(60), <1>3, <2>1 DEF PredispatchResult
    <2>2. CASE CancelBeforeDispatch
      BY ZenonT(60), <1>3, <2>2 DEF CancelBeforeDispatch
    <2>3. CASE CancelBeforeHandoff
      BY ZenonT(60), <1>3, <2>3 DEF CancelBeforeHandoff
    <2>4. CASE RefuseHandoff
      BY ZenonT(60), <1>1, <1>3, <2>4 DEF RefuseHandoff
    <2>5. CASE HandlerEnds
      <3>1. CASE runner.notice = Absent
        BY ZenonT(60), <1>1, <1>3, <2>5, <3>1 DEF HandlerEnds
      <3>2. CASE runner.notice # Absent
        BY ZenonT(60), <1>1, <1>3, <2>5, <3>2 DEF HandlerEnds
      <3> QED
        BY ZenonT(60), <3>1, <3>2
    <2> QED
      BY ZenonT(60), <2>1, <2>2, <2>3, <2>4, <2>5
  <1>5. CASE EndCall(s, "completed", "not_required")
    BY ZenonT(60), <1>2, <1>4, <1>5, EndCallStep
  <1>6. CASE EndCall(s, "completed", "confirmed") /\ runner.pc # "requested"
    BY ZenonT(60), <1>2, <1>4, <1>6, EndCallStep
  <1>7. CASE \E evidence \in {"unknown", "panicked"} : EndCall(s, evidence, "unconfirmed")
    BY ZenonT(60), <1>2, <1>4, <1>7, EndCallStep
  <1> QED
    BY ZenonT(60), <1>4, <1>5, <1>6, <1>7

(* dispatch_tool: the row of the tool is live, so it is the attempt its work *)
(* waits for, whatever the snapshot says.                                    *)
LEMMA CommitDispatchStep ==
    ASSUME EngineInvariant, CommitDispatch, me' = me
    PROVE  Carries
  <1> DEFINE w == runner.w
             k == runner.k
             e == [work[w] EXCEPT !.state = "waiting_on_tool"]
  <1>1. runner.pc = "requested" /\ "abnormal" \in Exits
    BY DEF CommitDispatch, Exits
  <1>2. CASE Quiet /\ Exit("abnormal")
    BY ZenonT(60), <1>1, <1>2, QuietExit
  <1>3. CASE /\ DispatchTool(w, runner.snap, k) /\ Goto("dispatched")
             /\ UNCHANGED <<sent, handed>>
    <2>1. /\ runner \in RunnerStates /\ w \in Works /\ Honest(runner.snap)
          /\ runner.notice # Absent => Honest(runner.notice) /\ runner.flag
          /\ ToolFits /\ StoreInvariant /\ work[w] \in WorkLifecycleSnapshot
          /\ sent \subseteq Works \X Attempts /\ handed \subseteq Works \X Attempts
      BY ZenonT(60), <1>1, RunnerFacts
    <2>2. InAttempt("tool") /\ k \in Attempts
      BY ZenonT(60), <1>1, <2>1 DEF ToolFits, ToolPhase, InAttempt
    <2>3. DispatchTool(w, e, k)
      <3>1. tool[w][k].state = "requested" /\ tool[w][k].state \in ToolLive
        BY ZenonT(60), <1>3 DEF DispatchTool, ToolLive
      <3>2. HasAttempt(work[w], "tool", k) /\ tool[w][k].runtime = work[w].owner
        BY ZenonT(60), <2>1, <2>2, <3>1 DEF StoreInvariant, AttemptsOwned
      <3>3. /\ e.state = "waiting_on_tool" /\ e.kind = work[w].kind
            /\ e.attempt = work[w].attempt /\ e.owner = work[w].owner
        BY ZenonT(60), <2>1 DEF WorkLifecycleSnapshot
      <3> QED
        BY ZenonT(60), <1>3, <3>1, <3>2, <3>3 DEF DispatchTool, HasAttempt
    <2>4. Next
      BY ZenonT(60), <2>1, <2>2, <2>3 DEF Next, AttemptStep
    <2>5. /\ work' = work /\ model' = model /\ runtime' = runtime
          /\ tool'[w][k].state = "dispatching"
          /\ \A j \in Attempts : j # k => tool'[w][j] = tool[w][j]
          /\ \A v \in Works : v # w => RowsKept(v)
      BY ZenonT(60), <1>3, <2>1, <2>2, DispatchEffect
    <2>6. /\ runner' = [runner EXCEPT !.pc = "dispatched"] /\ runner'.pc = "dispatched"
          /\ runner'.w = w /\ runner'.k = k /\ runner'.flag = runner.flag
          /\ runner'.snap = runner.snap /\ runner'.notice = runner.notice
      BY <1>3, <2>1 DEF Goto, RunnerStates
    <2>7. runner' \in RunnerStates
      BY ZenonT(60), <2>1, <2>6 DEF RunnerStates, RunnerPcs, Executing
    <2>8. NoEffectDenied'
      BY ZenonT(60), <1>3, <2>5, EffectsStay DEF RowsKept, HandedStates
    <2>9. ToolFits'
      <3>1. InAttempt("tool")'
        BY ZenonT(60), <2>2, <2>5, <2>6 DEF InAttempt
      <3> QED
        BY ZenonT(60), <2>5, <2>6, <3>1 DEF ToolFits, HandedStates
    <2>10. CancelledMeansQuiet' /\ ModelFits'
      BY ZenonT(60), <2>6 DEF CancelledMeansQuiet, ModelFits, ModelPhase
    <2>11. Honest(runner.snap)' /\ (runner'.notice # Absent => Honest(runner.notice)')
      BY ZenonT(60), <2>1, <2>5, <2>6 DEF Honest
    <2>12. \A v \in Works : Tame(v)
      BY ZenonT(60), <2>5 DEF Tame
    <2>13. RunnerGood'
      BY ZenonT(60), <1>1, <1>3, <2>1, <2>6, <2>7, <2>8, <2>9, <2>10, <2>11, <2>12,
         RunnerAdvances
    <2>14. \A v \in Works : v # w => Outside(v)
      BY ZenonT(60), <2>5 DEF Outside, RowsKept, AttemptsKept
    <2> QED
      BY ZenonT(60), <2>4, <2>5, <2>6, <2>12, <2>13, <2>14 DEF Carries
  <1> QED
    BY ZenonT(60), <1>2, <1>3 DEF CommitDispatch

(* The handler starts: dispatch was committed before.                        *)
LEMMA HandoffStep ==
    ASSUME EngineInvariant, Handoff, me' = me
    PROVE  Carries
  <1> DEFINE w == runner.w
             k == runner.k
  <1>1. /\ runner.pc = "dispatched" /\ StoreKept /\ UNCHANGED <<work, model, tool, sent>>
        /\ handed' = handed \cup {<<w, k>>}
    BY ZenonT(60) DEF Handoff, StoreKept
  <1>2. /\ runner \in RunnerStates /\ w \in Works /\ Honest(runner.snap)
        /\ runner.notice # Absent => Honest(runner.notice) /\ runner.flag
        /\ NoEffectDenied /\ ToolFits
        /\ sent \subseteq Works \X Attempts /\ handed \subseteq Works \X Attempts
    BY ZenonT(60), <1>1, RunnerFacts
  <1>3. /\ InAttempt("tool") /\ k \in Attempts /\ tool[w][k].state \in HandedStates
    BY ZenonT(60), <1>1, <1>2 DEF ToolFits, ToolPhase, InAttempt
  <1>4. /\ runner' = [runner EXCEPT !.pc = "handling"] /\ runner'.pc = "handling"
        /\ runner'.w = w /\ runner'.k = k /\ runner'.flag = runner.flag
        /\ runner'.snap = runner.snap /\ runner'.notice = runner.notice
    BY ZenonT(60), <1>2 DEF Handoff, Goto, RunnerStates
  <1>5. runner' \in RunnerStates
    BY ZenonT(60), <1>2, <1>4 DEF RunnerStates, RunnerPcs, Executing
  <1>6. handed' \subseteq Works \X Attempts
    <2>1. <<w, k>> \in Works \X Attempts
      BY ZenonT(60), <1>2, <1>3
    <2> QED
      BY ZenonT(60), <1>1, <1>2, <2>1
  <1>7. NoEffectDenied'
    BY <1>1, <1>2, <1>3 DEF NoEffectDenied, HandedStates
  <1>8. CancelledMeansQuiet'
    BY ZenonT(60), <1>1, <1>3, <1>4 DEF CancelledMeansQuiet, InAttempt, IsActive,
       ActiveStates
  <1>9. ModelFits'
    BY ZenonT(60), <1>4 DEF ModelFits, ModelPhase
  <1>10. ToolFits'
    <2>1. InAttempt("tool")'
      BY ZenonT(60), <1>1, <1>3, <1>4 DEF InAttempt
    <2> QED
      BY ZenonT(60), <1>1, <1>3, <1>4, <2>1 DEF ToolFits, HandedStates
  <1> QED
    BY ZenonT(60), <1>1, <1>2, <1>4, <1>5, <1>6, <1>7, <1>8, <1>9, <1>10, RunnerMoves

(* finish_tool: the transaction settles the attempt the snapshot waits for,  *)
(* and takes it off the work.                                                *)
LEMMA FinishCallStep ==
    ASSUME EngineInvariant, FinishCall, me' = me
    PROVE  Carries
  <1> DEFINE w == runner.w
             k == runner.k
             s == work[w]
             from == tool[w][k].state
             evidence == IF runner.evidence = "completed" THEN "completed" ELSE "unknown"
             q == ToolWorkNext(runner.snap, k, evidence)
  <1>1. runner.pc = "toolfinish" /\ "abnormal" \in Exits /\ "terminal_committed" \in Exits
    BY ZenonT(60) DEF FinishCall, Exits
  <1>2. CASE Exit("abnormal") /\ Quiet
    BY ZenonT(60), <1>1, <1>2, QuietExit
  <1>3. ASSUME FinishTool(w, runner.snap, k, from, ToolOutcome(evidence), runner.cleanup, q),
               \/ runner.evidence = "completed" /\ Goto("returned")
               \/ runner.evidence = "unknown" /\ Exit("terminal_committed")
               \/ runner.evidence = "panicked" /\ Exit("abnormal"),
               UNCHANGED <<sent, handed>>
        PROVE  Carries
    <2>1. /\ runner \in RunnerStates /\ w \in Works /\ Honest(runner.snap)
          /\ runner.notice # Absent => Honest(runner.notice) /\ runner.flag
          /\ ToolFits /\ StoreInvariant /\ s \in WorkLifecycleSnapshot
          /\ sent \subseteq Works \X Attempts /\ handed \subseteq Works \X Attempts
      BY ZenonT(60), <1>1, RunnerFacts
    <2>2. runner.snap = s
      BY ZenonT(60), <1>3, <2>1, MatchesEqual DEF FinishTool, GuardedWorkUpdate
    <2>3. k \in Attempts
      BY ZenonT(60), <1>1, <2>1 DEF ToolFits, ToolPhase, InAttempt
    <2>4. evidence \in ToolEvidence /\ runner.cleanup \in ToolCleanup(evidence, from)
      <3>1. DecideToolTerminal(from, ToolOutcome(evidence), runner.cleanup)
        BY ZenonT(60), <1>3 DEF FinishTool
      <3>2. \/ runner.evidence = "completed" /\ runner.cleanup = "not_required"
            \/ runner.evidence = "completed" /\ runner.cleanup = "confirmed"
               /\ from \in HandedStates
            \/ runner.evidence \in {"unknown", "panicked"} /\ runner.cleanup = "unconfirmed"
        BY ZenonT(60), <1>1, <2>1 DEF ToolFits, ToolPhase
      <3> QED
        BY ZenonT(60), <3>1, <3>2 DEF ToolCleanup, ToolEvidence, HandedStates
    <2>5. FinishTool(w, s, k, from, ToolOutcome(evidence), runner.cleanup,
                     ToolWorkNext(s, k, evidence))
      BY ZenonT(60), <1>3, <2>2
    <2> HIDE DEF evidence, from
    <2>6. Next
      <3>1. AttemptStep(w, k)
        BY ZenonT(60), <2>4, <2>5 DEF AttemptStep, from
      <3> QED
        BY ZenonT(60), <2>1, <2>3, <3>1 DEF Next
    <2>7. /\ \A v \in Works : Tame(v)
          /\ \A v \in Works : v # w => RowsKept(v)
          /\ work'[w] = NextSnapshot(s, ToolWorkNext(s, k, evidence))
          /\ NoCurrentAttempt(work'[w])
          /\ tool'[w][k].state = ToolOutcome(evidence)
          /\ \A j \in Attempts : j # k => tool'[w][j] = tool[w][j]
          /\ model' = model /\ runtime' = runtime
      BY ZenonT(60), <2>1, <2>3, <2>5, FinishToolEffect
    <2>8. NoEffectDenied'
      <3>1. ToolOutcome(evidence) \in HandedStates
        BY ZenonT(60) DEF ToolOutcome, HandedStates
      <3>2. \A v \in Works, j \in Attempts : <<v, j>> \in handed =>
                tool'[v][j] = tool[v][j] \/ tool'[v][j].state \in HandedStates
        BY ZenonT(60), <2>7, <3>1 DEF RowsKept
      <3> QED
        BY ZenonT(60), <1>3, <2>7, <3>2, EffectsStay
    <2>9. ASSUME Goto("returned")
          PROVE  RunnerGood' /\ runner'.w = w /\ runner'.pc # "none"
      <3>1. /\ runner' = [runner EXCEPT !.pc = "returned"] /\ runner'.pc = "returned"
            /\ runner'.w = w /\ runner'.flag = runner.flag
            /\ runner'.snap = runner.snap /\ runner'.notice = runner.notice
        BY ZenonT(60), <2>1, <2>9 DEF Goto, RunnerStates
      <3>2. runner' \in RunnerStates
        BY ZenonT(60), <2>1, <3>1 DEF RunnerStates, RunnerPcs, Executing
      <3>3. work'[w] = s \/ work'[w].version = s.version + 1
        BY ZenonT(60), <2>1, <2>7 DEF Tame
      <3>4. Honest(runner.snap)' /\ (runner'.notice # Absent => Honest(runner.notice)')
        <4>1. /\ runner.snap \in WorkLifecycleSnapshot
              /\ runner.notice \in WorkLifecycleSnapshot
          BY ZenonT(60), <2>1 DEF RunnerStates
        <4> QED
          BY <2>1, <3>1, <3>3, <4>1, HonestKept DEF Honest
      <3>5. CancelledMeansQuiet' /\ ModelFits' /\ ToolFits'
        BY ZenonT(60), <3>1 DEF CancelledMeansQuiet, ModelFits, ModelPhase, ToolFits,
           ToolPhase
      <3>6. /\ runner'.notice # Absent => Honest(runner.notice)' /\ runner.flag
            /\ sent' \subseteq Works \X Attempts /\ handed' \subseteq Works \X Attempts
        BY ZenonT(60), <1>3, <2>1, <3>1, <3>4
      <3>7. RunnerGood'
        BY ZenonT(60), <1>1, <2>7, <2>8, <3>1, <3>2, <3>4, <3>5, <3>6, RunnerAdvances
      <3> QED
        BY ZenonT(60), <3>1, <3>7
    <2>10. ASSUME runner.evidence = "unknown", Exit("terminal_committed")
           PROVE  RunnerGood' /\ runner'.w = w /\ runner'.pc # "none"
      <3>1. evidence = "unknown"
        BY ZenonT(60), <2>10 DEF evidence
      <3>2. ToolWorkNext(s, k, evidence).op = "interrupt"
        BY ZenonT(60), <3>1 DEF ToolWorkNext, Interrupt, Request
      <3>3. work'[w].state = "interrupted"
        BY <2>7, <3>2 DEF NextSnapshot, TargetState
      <3>4. ~IsActive(work'[w])
        BY ZenonT(60), <3>3 DEF IsActive, ActiveStates
      <3> QED
        BY ZenonT(60), <1>1, <1>3, <2>7, <2>8, <2>10, <3>4, RunnerEnds
    <2>11. ASSUME Exit("abnormal")
           PROVE  RunnerGood' /\ runner'.w = w /\ runner'.pc # "none"
      BY ZenonT(60), <1>1, <1>3, <2>7, <2>8, <2>11, RunnerEnds
    <2>12. \A v \in Works : v # w => Outside(v)
      BY ZenonT(60), <2>7 DEF Outside, RowsKept, AttemptsKept
    <2> QED
      BY ZenonT(60), <1>3, <2>6, <2>7, <2>9, <2>10, <2>11, <2>12 DEF Carries
  <1>4. runner.evidence \in {"completed", "unknown", "panicked"}
    BY ZenonT(60), <1>1, RunnerFacts DEF ToolFits, ToolPhase
  <1> QED
    BY ZenonT(60), <1>2, <1>3, <1>4 DEF FinishCall

(* The call returned.  A forwarded cancellation means the work was asked to  *)
(* stop, and its attempt is settled.                                         *)
LEMMA CallReturnedStep ==
    ASSUME EngineInvariant, CallReturned, me' = me
    PROVE  Carries
  <1> DEFINE w == runner.w
  <1>1. /\ runner.pc = "returned" /\ Quiet
        /\ "abnormal" \in Exits /\ "terminal_committed" \in Exits
    BY DEF CallReturned, Exits
  <1>2. CASE runner.notice # Absent /\ Exit("terminal_committed")
    <2>1. runner.flag /\ NoCurrentAttempt(work[w]) /\ FlagMeansDurable
      BY ZenonT(60), <1>1, <1>2 DEF EngineInvariant, RunnerFits, EffectsTold
    <2>2. IsActive(work[w]) => work[w].state = "cancel_requested"
      BY ZenonT(60), <2>1 DEF FlagMeansDurable, IsActive, ActiveStates, TerminalStates
    <2> QED
      BY ZenonT(60), <1>1, <1>2, <2>1, <2>2, QuietExit
  <1>3. CASE Exit("abnormal")
    BY ZenonT(60), <1>1, <1>3, QuietExit
  <1>4. CASE \E pc \in {"top", "call"} : GotoWith(pc, work[w])
    BY ZenonT(60), <1>1, <1>4, QuietGoesOn
  <1> QED
    BY ZenonT(60), <1>2, <1>3, <1>4 DEF CallReturned

-----------------------------------------------------------------------------
(* Every step of the runner, and every end of it that is not its own.        *)
LEMMA RunnerCarries ==
    ASSUME EngineInvariant, RunnerStep \/ RunnerStoreFault \/ RunnerPanics, me' = me
    PROVE  Carries
  <1>1. CASE RunnerStoreFault \/ RunnerPanics
    <2>1. runner.pc # "none" /\ Exit("abnormal") /\ Quiet /\ "abnormal" \in Exits
      BY ZenonT(60), <1>1 DEF RunnerStoreFault, RunnerPanics, Exits
    <2> QED
      BY ZenonT(60), <2>1, QuietExit
  <1>2. CASE RunnerStep
    BY ZenonT(60), <1>2, LoopTopStep, InvokeModelStep, SendRequestStep, FirstEventStep,
       ProviderEndsStep,
       FinishAttemptStep, CommitAnswerStep, FailWorkStep, StartBatchStep, StartCallStep,
       ExpireBeforeIntentStep, ForwardCancellationStep, CallEndsStep, CommitDispatchStep,
       HandoffStep, FinishCallStep, CallReturnedStep DEF RunnerStep
  <1> QED
    BY ZenonT(60), <1>1, <1>2
=============================================================================
