----------------------------- MODULE AgentRunner -----------------------------
(***************************************************************************)
(* The runner of one claimed work: the agent loop with the model gateway   *)
(* and the tool execution service it calls.  The scheduler spawns it and   *)
(* is told how it ended.  The runner holds snapshots of the work row that  *)
(* go stale while it awaits a provider, a tool or the store; every store   *)
(* call compares its snapshot with the row and is refused when they        *)
(* differ.                                                                 *)
(*                                                                         *)
(* One step is the code between two awaits another task can be seen        *)
(* through: a check of the cancellation flag is merged with the store call *)
(* after it, because a flag raised in between implies a row that has       *)
(* changed, and that call is refused in the merged step as well.           *)
(***************************************************************************)
EXTENDS WorkStore

VARIABLES
    runner,   \* the task the scheduler spawned, or NoRunner
    sent,     \* <<w, k>> whose request was given to the provider (history)
    handed    \* <<w, k>> whose tool handler was started (history)

runnerVars == <<runner, sent, handed>>

Exits == {"terminal_committed", "cancellation_confirmed", "abnormal"}

(* `snap` is the expectation for the next store call, `flag` the watch       *)
(* channel the scheduler raises, `notice` the cancel_requested snapshot the  *)
(* agent loop forwards to the tool service.                                  *)
NoRunner ==
    [pc |-> "none", w |-> 0, k |-> NoAttempt, snap |-> Absent, flag |-> FALSE,
     notice |-> Absent, evidence |-> "none", cleanup |-> "not_required", exit |-> "none"]

StartRunner(w, claimed) == [NoRunner EXCEPT !.pc = "top", !.w = w, !.snap = claimed]

Goto(pc) == runner' = [runner EXCEPT !.pc = pc]
GotoWith(pc, s) == runner' = [StartRunner(runner.w, s) EXCEPT !.pc = pc, !.flag = runner.flag]
Exit(how) ==
    runner' = [NoRunner EXCEPT !.pc = "exited", !.w = runner.w, !.flag = runner.flag,
                               !.exit = how]
Quiet == UNCHANGED <<work, model, tool, runtime, answered, sent, handed>>

(* load_owned_work: an error unless the runtime still owns the active work.  *)
Owned == IsActive(work[runner.w]) /\ work[runner.w].owner = runner.snap.owner

(* A compare-and-swap the store refuses.                                     *)
Stale(e) == ~Matches(e, work[runner.w])
Refused(e, q) == Stale(e) \/ ~DecideWorkTransition(e, q)

(* The next unused attempt id; none is left when the configured limit of     *)
(* attempts is reached.                                                      *)
Fresh(rows, k) ==
    /\ rows[k].state = "absent"
    /\ \A j \in Attempts : j < k => rows[j].state # "absent"

-----------------------------------------------------------------------------
(* agent_loop::run, top of a step: reload the work, stop if it was           *)
(* cancelled, fail it if a limit, the selection or the context says so.      *)
LoopTop ==
    /\ runner.pc = "top"
    /\ LET s == work[runner.w] IN
       \/ ~Owned /\ Exit("abnormal")
       \/ Owned /\ s.state = "cancel_requested"
          /\ Exit(IF NoCurrentAttempt(s) THEN "cancellation_confirmed" ELSE "abnormal")
       \/ Owned /\ s.state = "running" /\ \E pc \in {"invoke", "fail"} : GotoWith(pc, s)
    /\ Quiet

(* ModelGateway::invoke, before an attempt: cancelled, out of time or of     *)
(* attempts, or the intent is committed by begin_model.                      *)
InvokeModel ==
    /\ runner.pc = "invoke"
    /\ \/ runner.flag /\ Exit("cancellation_confirmed") /\ Quiet
       \/ ~runner.flag /\ Goto("fail") /\ Quiet
       \/ ~runner.flag /\ Stale(runner.snap) /\ Exit("abnormal") /\ Quiet
       \/ \E k \in Attempts :
             /\ ~runner.flag
             /\ Fresh(model[runner.w], k)
             /\ BeginModel(runner.w, runner.snap, k)
             /\ runner' = [runner EXCEPT !.pc = "send", !.k = k,
                                         !.snap = NextSnapshot(runner.snap, WaitForModel(k))]
             /\ UNCHANGED <<sent, handed>>

EndAttempt(evidence) == runner' = [runner EXCEPT !.pc = "finish", !.evidence = evidence]

(* run_physical_attempt up to the provider call: nothing has left the        *)
(* process if the time is up or the work is cancelled here.                  *)
SendRequest ==
    /\ runner.pc = "send"
    /\ \/ EndAttempt("failed") /\ Quiet
       \/ runner.flag /\ EndAttempt("cancelled") /\ Quiet
       \/ /\ ~runner.flag
          /\ Goto("open")
          /\ sent' = sent \cup {<<runner.w, runner.k>>}
          /\ UNCHANGED <<work, model, tool, runtime, answered, handed>>

(* The first stream event is recorded before the stream is read further.     *)
FirstEvent ==
    /\ runner.pc = "open"
    /\ \/ /\ MarkModelStreaming(runner.w, runner.k)
          /\ Goto("streaming")
          /\ UNCHANGED <<sent, handed>>
       \/ model[runner.w][runner.k].state # "requesting" /\ Exit("abnormal") /\ Quiet

(* A cancellation in flight counts as a request that was never sent.         *)
FaultyProviderEnds ==
    /\ runner.pc \in {"open", "streaming"}
    /\ \E evidence \in {"completed", "failed", "cancelled"} :
           /\ evidence = "completed" => runner.pc = "streaming"
           /\ evidence = "cancelled" => runner.flag
           /\ EndAttempt(evidence)
    /\ Quiet

(* The provider call ends: an error that proves nothing ran, a completed     *)
(* stream, or, for a timeout, a broken stream or a cancellation in flight,   *)
(* an unknown outcome.  A stream may also end without any output, or break   *)
(* after output (unstorable).                                                *)
ProviderEnds ==
    /\ runner.pc \in {"open", "streaming"}
    /\ \E evidence \in {"completed", "failed", "unknown", "unstorable"} :
           /\ evidence \in {"completed", "unstorable"} => runner.pc = "streaming"
           /\ EndAttempt(evidence)
    /\ Quiet

(* refresh_durable_cancellation: once the flag is up, the attempt is         *)
(* finished against the durable cancel_requested row.                        *)
RefreshedSnapshot ==
    LET s == work[runner.w] IN
    IF runner.flag /\ Owned /\ s.state = "cancel_requested"
       /\ HasAttempt(s, "model", runner.k)
    THEN s ELSE runner.snap

(* Where the loop goes with a work that goes on.  A failed attempt may be    *)
(* retried; a cancelled one is not (invoke sees the flag).                   *)
AfterAttempt(evidence) ==
    CASE evidence = "completed" -> {"answer", "batch", "fail"}
      [] evidence = "failed"    -> {"invoke", "fail"}
      [] OTHER                  -> {"invoke"}

(* finish_completed_attempt, finish_provider_error, finish_failed_attempt.   *)
(* The store refuses a stale snapshot, and an outcome it finds unstorable.   *)
FinishAttempt ==
    LET e == RefreshedSnapshot
        q == ModelWorkNext(e, runner.k, runner.evidence)
        n == NextSnapshot(e, q)
        outcome == ModelOutcome(runner.evidence)
    IN
    /\ runner.pc = "finish"
    /\ \/ (Refused(e, q) \/ outcome \notin ModelTerminal) /\ Exit("abnormal") /\ Quiet
       \/ /\ FinishModel(runner.w, e, runner.k, model[runner.w][runner.k].state, outcome, q)
          /\ \/ IsTerminal(n) /\ Exit("terminal_committed")
             \/ ~IsTerminal(n) /\ \E pc \in AfterAttempt(runner.evidence) : GotoWith(pc, n)
          /\ UNCHANGED <<sent, handed>>

(* commit_completion of a final answer or a refusal.                         *)
CommitAnswer ==
    /\ runner.pc = "answer"
    /\ \/ Stale(runner.snap) /\ Exit("abnormal") /\ Quiet
       \/ /\ CommitAssistantCompletion(runner.w, runner.snap)
          /\ Exit("terminal_committed")
          /\ UNCHANGED <<sent, handed>>

(* fail_owned and fail_snapshot.                                             *)
FailWork ==
    /\ runner.pc = "fail"
    /\ \/ /\ Stale(runner.snap) \/ runner.snap.state # "running"
          /\ Exit("abnormal") /\ Quiet
       \/ /\ TerminalizeOwnedWork(runner.w, runner.snap)
          /\ Exit("terminal_committed")
          /\ UNCHANGED <<sent, handed>>

-----------------------------------------------------------------------------
(* execute_tool_batch, before the first call: the reloaded row is only used  *)
(* for the limit on tool calls and to fail the work.                         *)
StartBatch ==
    /\ runner.pc = "batch"
    /\ \/ ~Owned /\ Exit("abnormal")
       \/ Owned /\ GotoWith("fail", work[runner.w])
       \/ /\ Owned /\ \E k \in Attempts : Fresh(tool[runner.w], k)
          /\ Goto("call")
    /\ Quiet

(* One call of the batch, up to the commit of its intent by request_tool.    *)
StartCall ==
    LET s == runner.snap IN
    /\ runner.pc = "call"
    /\ \/ runner.flag /\ Exit("cancellation_confirmed") /\ Quiet
       \/ ~runner.flag /\ Goto("fail") /\ Quiet
       \/ ~runner.flag /\ (s.state # "running" \/ Stale(s)) /\ Exit("abnormal") /\ Quiet
       \/ \E k \in Attempts :
             /\ ~runner.flag
             /\ Fresh(tool[runner.w], k)
             /\ RequestTool(runner.w, s, k)
             /\ runner' = [runner EXCEPT !.pc = "requested", !.k = k,
                                         !.snap = NextSnapshot(s, WaitForTool(k))]
             /\ UNCHANGED <<sent, handed>>

(* The deadline passes between the check of the batch and the check of the   *)
(* service: the service answers CancelledBeforeIntent, and with no notice    *)
(* forwarded the loop ends abnormally.                                       *)
ExpireBeforeIntent ==
    /\ runner.pc = "call"
    /\ ~runner.flag
    /\ Exit("abnormal")
    /\ Quiet

(* While a call executes, a raised flag makes the loop reload the work and   *)
(* forward the durable cancellation to the service.                          *)
Executing == {"requested", "dispatched", "handling", "toolfinish", "returned"}

ForwardCancellation ==
    /\ runner.pc \in Executing
    /\ runner.flag /\ runner.notice = Absent
    /\ IF Owned /\ work[runner.w].state = "cancel_requested"
       THEN runner' = [runner EXCEPT !.notice = work[runner.w]]
       ELSE Exit("abnormal")
    /\ Quiet

EndCall(s, evidence, cleanup) ==
    runner' = [runner EXCEPT !.pc = "toolfinish", !.snap = s, !.evidence = evidence,
                             !.cleanup = cleanup]

(* A result before dispatch: rejected arguments, a deadline, a workstation   *)
(* error, or a refusal by the authority.  All of them finish the call        *)
(* against the waiting snapshot, also when a cancellation was forwarded      *)
(* while the workstation was being asked for its capabilities.               *)
PredispatchResult ==
    /\ runner.pc = "requested"
    /\ EndCall(runner.snap, "completed", "not_required")
    /\ Quiet

(* finish_cancelled_before_dispatch.                                         *)
CancelBeforeDispatch ==
    /\ runner.pc = "requested" /\ runner.notice # Absent
    /\ EndCall(runner.notice, "completed", "not_required")
    /\ Quiet

(* The dispatch intent; a notice may arrive while it commits.                *)
CommitDispatch ==
    /\ runner.pc = "requested"
    /\ \/ /\ DispatchTool(runner.w, runner.snap, runner.k)
          /\ Goto("dispatched")
          /\ UNCHANGED <<sent, handed>>
       \/ /\ tool[runner.w][runner.k].state # "requested"
          /\ Exit("abnormal") /\ Quiet

(* finish_cancelled_after_dispatch_before_handoff.                           *)
CancelBeforeHandoff ==
    /\ runner.pc = "dispatched" /\ runner.notice # Absent
    /\ EndCall(runner.notice, "completed", "confirmed")
    /\ Quiet

(* A deadline, or a handler that refuses the handoff.                        *)
RefuseHandoff ==
    /\ runner.pc = "dispatched" /\ runner.notice = Absent
    /\ \E cleanup \in ToolCleanup("completed", "dispatching") :
           EndCall(runner.snap, "completed", cleanup)
    /\ Quiet

Handoff ==
    /\ runner.pc = "dispatched" /\ runner.notice = Absent
    /\ Goto("handling")
    /\ handed' = handed \cup {<<runner.w, runner.k>>}
    /\ UNCHANGED <<work, model, tool, runtime, answered, sent>>

(* await_handler: the handler ends by itself, or after cancel_execution.     *)
(* Its result is finished against the notice when there is one.              *)
HandlerEnds ==
    /\ runner.pc = "handling"
    /\ LET s == IF runner.notice = Absent THEN runner.snap ELSE runner.notice IN
       \/ \E cleanup \in ToolCleanup("completed", "dispatching") :
              EndCall(s, "completed", cleanup)
       \/ \E evidence \in {"unknown", "panicked"} : EndCall(s, evidence, "unconfirmed")
    /\ Quiet

(* finish_read_file, finish_run_shell, finish_cancellation and               *)
(* persist_outcome_unknown.  A handler that panicked leaves an unknown       *)
(* outcome and is reported as an error of another kind.                      *)
FinishCall ==
    LET s == runner.snap
        evidence == IF runner.evidence = "completed" THEN "completed" ELSE "unknown"
        q == ToolWorkNext(s, runner.k, evidence)
    IN
    /\ runner.pc = "toolfinish"
    /\ \/ Refused(s, q) /\ Exit("abnormal") /\ Quiet
       \/ /\ FinishTool(runner.w, s, runner.k, tool[runner.w][runner.k].state,
                        ToolOutcome(evidence), runner.cleanup, q)
          /\ CASE runner.evidence = "completed" -> Goto("returned")
               [] runner.evidence = "unknown"   -> Exit("terminal_committed")
               [] runner.evidence = "panicked"  -> Exit("abnormal")
          /\ UNCHANGED <<sent, handed>>

(* execute_call returned: after a forwarded cancellation the work counts as  *)
(* settled; otherwise it is reloaded for the next call or the next step.     *)
CallReturned ==
    /\ runner.pc = "returned"
    /\ \/ runner.notice # Absent /\ Exit("terminal_committed")
       \/ runner.notice = Absent /\ ~Owned /\ Exit("abnormal")
       \/ /\ runner.notice = Absent /\ Owned
          /\ \/ GotoWith("top", work[runner.w])
             \/ /\ \E k \in Attempts : Fresh(tool[runner.w], k)
                /\ GotoWith("call", work[runner.w])
    /\ Quiet

-----------------------------------------------------------------------------
(* A store call that fails (I/O error, pool timeout): the runner gives up.   *)
RunnerStoreFault ==
    /\ runner.pc \in {"top", "invoke", "open", "finish", "answer", "fail", "batch",
                      "call", "requested", "toolfinish", "returned"}
    /\ Exit("abnormal")
    /\ Quiet

(* The task panics, wherever it is: the scheduler's join set reports a       *)
(* JoinError, which is handled like an abnormal exit.                        *)
RunnerPanics ==
    /\ runner.pc \notin {"none", "exited"}
    /\ Exit("abnormal")
    /\ Quiet

RunnerStep ==
    \/ LoopTop \/ InvokeModel \/ SendRequest \/ FirstEvent \/ ProviderEnds
    \/ FinishAttempt \/ CommitAnswer \/ FailWork
    \/ StartBatch \/ StartCall \/ ExpireBeforeIntent \/ ForwardCancellation
    \/ PredispatchResult \/ CancelBeforeDispatch \/ CommitDispatch
    \/ CancelBeforeHandoff \/ RefuseHandoff \/ Handoff \/ HandlerEnds
    \/ FinishCall \/ CallReturned
=============================================================================
