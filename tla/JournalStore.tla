----------------------------- MODULE JournalStore -----------------------------
(***************************************************************************)
(* The work store together with the journal its transactions append to,    *)
(* and the process that starts, recovers, serves, stops and crashes.  Each *)
(* action is one transaction: the rows change as WorkStore says and the    *)
(* events are appended in the order the code appends them.                 *)
(*                                                                         *)
(* One process runs at a time (the state-root lock).  The startup sequence *)
(* of bootstrap/startup.rs is: load or create the identity, verify, create *)
(* the runtime row, recover the stale runtimes, append the summary, verify *)
(* again, serve.                                                           *)
(***************************************************************************)
EXTENDS StartupVerification

CONSTANTS
    RootVersion,   \* 2: the store is created by this release; 1: it was
                   \* created before users owned conversations, then migrated
    CancelOrigins, \* where users cancel from: "native", "channel"
    MaxLog,        \* commands and runners write while the log is shorter than this
    MaxClock,      \* the wall clock ranges over 0 .. MaxClock
    ClockSteps     \* "forward", or "any" when the wall clock may be set back

VARIABLES
    clock,         \* the wall clock
    proc,          \* what the process is doing, and as which runtime
    tally          \* the recovery summary the starting process adds up

processVars == <<clock, proc, tally>>
vars == <<work, model, tool, runtime, answered, journal, conversation, inputs, exposed,
          instance, clock, proc, tally>>

Down == [phase |-> "down", runtime |-> NoRuntime]
NoTally == [observed |-> 0, closed |-> 0, queued |-> 0, counts |-> NoCounts]
NoInstance == [started |-> 0, beat |-> 0, stop |-> "none"]
NoConversation == [ordinal |-> 0, version |-> 0]

-----------------------------------------------------------------------------
(* Events.                                                                   *)
WorkEvent(kind, w, cause, actor, rt, payload) ==
    Event(kind, WorkStream(w), cause, WorkStream(w), actor, rt, payload)

Latest(w) == LatestIn(journal, WorkStream(w))
NextId == Len(log) + 1

TransitionEvent(kind, w, to, cause, actor) ==
    WorkEvent(kind, w, cause, actor, to.owner, TransitionPayload(w, work[w], to))

(* work_payload's event for the state a stage8 transaction moves the work    *)
(* to, and append_work_transition's for a claim, a shutdown or a recovery.   *)
StageEventKind(state) ==
    IF state = "running" THEN "work.resumed"
    ELSE CHOOSE kind \in DOMAIN WorkEventState : WorkEventState[kind] = state

OwnerEventKind(state) ==
    IF state = "running" THEN "work.started"
    ELSE CHOOSE kind \in DOMAIN WorkEventState : WorkEventState[kind] = state

AttemptEvent(kind, w, k, state, cause, actor, rt) ==
    WorkEvent(kind, w, cause, actor, rt, AttemptPayload(w, k, state))

(* A transaction commits its events together; prepare_event refuses one that *)
(* contradicts its own payload, and the transaction with it.                 *)
Commit(e) == Prepared(e) /\ journal' = AppendEvent(journal, e)
CommitBoth(e, f) ==
    /\ Prepared(e) /\ Prepared(f)
    /\ journal' = AppendEvent(AppendEvent(journal, e), f)

-----------------------------------------------------------------------------
(* load_or_bootstrap on an empty database: the root rows and their two       *)
(* events.  A store of an older release holds the same two with a V1         *)
(* conversation event; migration 6 gave its conversation row an owner.       *)
Initialized == Event("craxii.initialized", CraxiiStream, NoEvent, CraxiiStream, Craxii,
                     NoRuntime, RootPayload)
ConversationCreated(ver) ==
    [Event("conversation.created", ConversationStream, 1, CraxiiStream, Craxii, NoRuntime,
           ConversationPayload) EXCEPT !.ver = ver]
RootJournal(ver) ==
    AppendEvent(AppendEvent(EmptyJournal, Initialized), ConversationCreated(ver))

JournalInit ==
    /\ Init
    /\ journal = IF RootVersion = 1 THEN RootJournal(1) ELSE EmptyJournal
    /\ conversation = IF RootVersion = 1 THEN [ordinal |-> 1, version |-> 1]
                                         ELSE NoConversation
    /\ inputs = [w \in Works |-> NoEvent]
    /\ exposed = {}
    /\ instance = [r \in Runtimes |-> NoInstance]
    /\ clock = 0 /\ proc = Down /\ tally = NoTally

Bootstrap ==
    /\ proc = Down /\ log = <<>>
    /\ journal' = RootJournal(2)
    /\ conversation' = [ordinal |-> 1, version |-> 1]
    /\ UNCHANGED <<storeVars, inputs, exposed, instance, processVars>>

(* bootstrap_runtime begins: the runtime row and its event, then the stale   *)
(* runtimes and the queued works are counted.                                *)
StaleRuntimes(r) == {q \in Runtimes \ {r} : runtime[q] \in {"running", "stopping"}}

RuntimeEvent(kind, r, cause, payload) ==
    Event(kind, RuntimeStream(r), cause, RuntimeStream(r), Process(r), r,
          payload)

RetainedQueuedWork == Cardinality({w \in Works : work[w].state = "queued"})

StartRuntime(r) ==
    /\ proc = Down /\ log # <<>> /\ VerifyConsistency
    /\ CreateRuntime(r)
    /\ Commit(RuntimeEvent("runtime.started", r, NoEvent, RuntimePayload(r, clock)))
    /\ instance' = [instance EXCEPT ![r] = [started |-> clock, beat |-> clock, stop |-> "none"]]
    /\ proc' = [phase |-> "recovering", runtime |-> r]
    /\ tally' = [observed |-> Cardinality(StaleRuntimes(r)), closed |-> 0,
                 queued |-> RetainedQueuedWork,
                 counts |-> NoCounts]
    /\ UNCHANGED <<conversation, inputs, exposed, clock>>

(* recover_work_unit: what it counts, and the event of the attempt it        *)
(* classifies, if it does, before the event of the work.                     *)
One(condition) == IF condition THEN 1 ELSE 0

(* A cancelled work is counted as interrupted as well.                       *)
FaultyRecoveryCounts(w) ==
    LET row == CurrentRow(w)
        kind == work[w].kind
    IN
    [NoCounts EXCEPT !["interrupted"] = 1,
                     !["modelUnknown"] = One(row \in ModelLive),
                     !["drafts"] = One(kind = "model" /\ <<w, work[w].attempt>> \in exposed),
                     !["toolBefore"] = One(row = "requested"),
                     !["toolUnknown"] = One(row = "dispatching"),
                     !["cleanupChecks"] = One(row = "dispatching"),
                     !["cleanupUnconfirmed"] = One(row = "dispatching")]

RecoveryCounts(w) ==
    LET row == CurrentRow(w)
        kind == work[w].kind
        checked == kind = "tool" /\ row \in {"dispatching", "outcome_unknown", "completed"}
    IN
    [f \in CountFields |-> One(
        CASE f = "interrupted"   -> TargetState(RecoveryRequest(w)) = "interrupted"
          [] f = "modelUnknown"  -> kind = "model" /\ row \in ModelLive
          [] f = "modelKept"     -> kind = "model" /\ row \in ModelTerminal
          [] f = "drafts"        -> /\ kind = "model"
                                    /\ row \in ModelLive \cup {"provider_outcome_unknown"}
                                    /\ <<w, work[w].attempt>> \in exposed
          [] f = "toolBefore"    -> kind = "tool" /\ row = "requested"
          [] f = "toolUnknown"   -> kind = "tool" /\ row = "dispatching"
          [] f = "toolKept"      -> kind = "tool" /\ row \in ToolTerminal
          [] f = "cleanupChecks" -> checked
          [] f = "cleanupUnconfirmed" ->
                 checked /\ (row # "completed" \/ CurrentCleanup(w) = "unconfirmed"))]

RecoveryEvents(w, current) ==
    LET s == work[w]
        state == RecoveredRow(CurrentRow(w))
        next == NextSnapshot(s, RecoveryRequest(w))
        Final(cause) == TransitionEvent(OwnerEventKind(next.state), w, next, cause,
                                        Process(current))
        kind == IF s.kind = "model" THEN ModelEventKind(state) ELSE ToolEventKind(state)
    IN
    IF state = CurrentRow(w) THEN Commit(Final(Latest(w)))
    ELSE CommitBoth(AttemptEvent(kind, w, s.attempt, state, Latest(w), Process(current), current),
                    Final(NextId))

(* recover_stale_runtime takes the stale runtimes oldest first.              *)
NextStale(q) ==
    /\ q \in StaleRuntimes(proc.runtime)
    /\ \A o \in StaleRuntimes(proc.runtime) : instance[q].started <= instance[o].started

RecoverStaleWork(w, q) ==
    /\ proc.phase = "recovering" /\ NextStale(q)
    /\ RecoverWorkUnit(w, q)
    /\ RecoveryEvents(w, proc.runtime)
    /\ tally' = [tally EXCEPT !.counts = [f \in CountFields |-> @[f] + RecoveryCounts(w)[f]]]
    /\ UNCHANGED <<conversation, inputs, exposed, instance, clock, proc>>

CloseStale(q) ==
    /\ proc.phase = "recovering" /\ NextStale(q)
    /\ instance[q].started <= clock
    /\ CloseStaleRuntime(q)
    /\ instance' = [instance EXCEPT ![q].stop = "startup_failure"]
    /\ tally' = [tally EXCEPT !.closed = @ + 1]
    /\ UNCHANGED <<journal, conversation, inputs, exposed, clock, proc>>

(* append_recovery_summary, stamped with the wall clock.                     *)
AppendRecoverySummary ==
    LET r == proc.runtime IN
    /\ proc.phase = "recovering" /\ StaleRuntimes(r) = {}
    /\ runtime[r] = "running"
    /\ Commit(RuntimeEvent("runtime.recovery_performed", r, LatestIn(journal, RuntimeStream(r)),
                           RecoveryPayload(r, clock, tally)))
    /\ proc' = [proc EXCEPT !.phase = "checking"]
    /\ tally' = NoTally
    /\ UNCHANGED <<storeVars, conversation, inputs, exposed, instance, clock>>

(* startup.rs verifies a second time before it serves.                       *)
Serve ==
    /\ proc.phase = "checking" /\ VerifyConsistency
    /\ proc' = [proc EXCEPT !.phase = "serving"]
    /\ UNCHANGED <<storeVars, journal, conversation, inputs, exposed, instance, clock, tally>>

(* Any error of the recovery or of the second verification: the runtime row  *)
(* is marked, unless its start lies in the clock's future, and the process   *)
(* exits.                                                                    *)
StartupFails ==
    LET r == proc.runtime IN
    /\ proc.phase \in {"recovering", "checking"}
    /\ IF instance[r].started <= clock
       THEN /\ MarkRuntimeStartupFailure(r)
            /\ instance' = [instance EXCEPT ![r].stop = "startup_failure"]
       ELSE UNCHANGED <<storeVars, instance>>
    /\ proc' = Down /\ tally' = NoTally
    /\ UNCHANGED <<journal, conversation, inputs, exposed, clock>>

Crash ==
    /\ proc # Down
    /\ proc' = Down /\ tally' = NoTally
    /\ UNCHANGED <<storeVars, journal, conversation, inputs, exposed, instance, clock>>

-----------------------------------------------------------------------------
(* The transactions of a serving process.                                    *)
Up == proc.phase \in {"serving", "stopping"} /\ Len(log) < MaxLog
RowsKept == UNCHANGED <<conversation, inputs, exposed, instance, processVars>>

(* admit_canonical_message: the message, then the work it queues, then the   *)
(* conversation's next ordinal.                                              *)
Admit(w) ==
    /\ Up /\ AdmitMessage(w)
    /\ CommitBoth(V2(Event("message.accepted", ConversationStream, 2, WorkStream(w), User,
                           NoRuntime, MessagePayload(w))),
                  V2(WorkEvent("work.queued", w, NextId, Craxii, NoRuntime,
                               QueuedPayload(w, conversation.ordinal, NextId))))
    /\ conversation' = [ordinal |-> conversation.ordinal + 1, version |-> conversation.version + 1]
    /\ inputs' = [inputs EXCEPT ![w] = NextId]
    /\ UNCHANGED <<exposed, instance, processVars>>

(* A device's cancellation is a V1 event, a channel's a V2 one.              *)
UserCancels(w, origin) ==
    LET next == NextSnapshot(work[w], DecideCancellation(work[w], "user_request"))
        e == TransitionEvent(StageEventKind(next.state), w, next, Latest(w),
                             IF origin = "native" THEN Device ELSE User)
    IN
    /\ Up /\ CancelCommand(w)
    /\ Commit(IF origin = "native" THEN e ELSE V2(e))
    /\ RowsKept

(* claim_next, finish_cancellation and interrupt_owned_work.                 *)
OwnerTransition(w, q) ==
    LET next == NextSnapshot(work[w], q) IN
    Commit(TransitionEvent(OwnerEventKind(next.state), w, next, Latest(w), Process(proc.runtime)))

Claim(w) ==
    /\ Up /\ proc.phase = "serving" /\ ClaimNext(proc.runtime, w)
    /\ OwnerTransition(w, Start(proc.runtime)) /\ RowsKept

FinishCancellation(w) ==
    LET q == Cancel(work[w].cancel, "not_required") IN
    /\ Up /\ CancellationFinishable(w, proc.runtime) /\ TerminalizeWork(w, proc.runtime, q)
    /\ OwnerTransition(w, q) /\ RowsKept

InterruptOwned(w) ==
    LET q == Interrupt("runtime_ownership_lost") IN
    /\ Up /\ Interruptible(w, proc.runtime) /\ TerminalizeWork(w, proc.runtime, q)
    /\ OwnerTransition(w, q) /\ RowsKept

(* The stage8 transactions: the attempt's event, then the work's, caused by  *)
(* it.                                                                       *)
StageTransition(w, q, cause) ==
    LET next == NextSnapshot(work[w], q) IN
    TransitionEvent(StageEventKind(next.state), w, next, cause, Craxii)

AttemptThenWork(kind, w, k, state, q) ==
    CommitBoth(AttemptEvent(kind, w, k, state, Latest(w), Craxii, work[w].owner),
               StageTransition(w, q, NextId))

StartModel(w, k) ==
    /\ Up /\ BeginModel(w, work[w], k)
    /\ AttemptThenWork("model.started", w, k, "requesting", WaitForModel(k)) /\ RowsKept

(* The row changes and no event is appended.                                 *)
SilentStreamModel(w, k, shown) ==
    /\ Up /\ MarkModelStreaming(w, k)
    /\ exposed' = IF shown THEN exposed \cup {<<w, k>>} ELSE exposed
    /\ UNCHANGED <<journal, conversation, inputs, instance, processVars>>

(* mark_model_streaming records whether a draft was shown.                   *)
StreamModel(w, k, shown) ==
    /\ Up /\ MarkModelStreaming(w, k)
    /\ Commit(AttemptEvent("model.streaming", w, k, "streaming", Latest(w), Craxii,
                           model[w][k].runtime))
    /\ exposed' = IF shown THEN exposed \cup {<<w, k>>} ELSE exposed
    /\ UNCHANGED <<conversation, inputs, instance, processVars>>

EndModel(w, k, evidence) ==
    LET q == ModelWorkNext(work[w], k, evidence)
        outcome == ModelOutcome(evidence)
    IN
    /\ Up /\ FinishModel(w, work[w], k, model[w][k].state, outcome, q)
    /\ AttemptThenWork(ModelEventKind(outcome), w, k, outcome, q) /\ RowsKept

StartTool(w, k) ==
    /\ Up /\ RequestTool(w, work[w], k)
    /\ AttemptThenWork("tool.requested", w, k, "requested", WaitForTool(k)) /\ RowsKept

RunTool(w, k) ==
    /\ Up /\ DispatchTool(w, [work[w] EXCEPT !.state = "waiting_on_tool"], k)
    /\ Commit(AttemptEvent("tool.dispatching", w, k, "dispatching", Latest(w), Craxii,
                           tool[w][k].runtime))
    /\ RowsKept

EndTool(w, k, evidence) ==
    LET q == ToolWorkNext(work[w], k, evidence)
        outcome == ToolOutcome(evidence)
    IN
    /\ Up
    /\ \E cleanup \in ToolCleanup(evidence, tool[w][k].state) :
           FinishTool(w, work[w], k, tool[w][k].state, outcome, cleanup, q)
    /\ AttemptThenWork(ToolEventKind(outcome), w, k, outcome, q) /\ RowsKept

(* commit_assistant_completion: the answer, then the end of the work.        *)
Answer(w) ==
    /\ Up /\ CommitAssistantCompletion(w, work[w])
    /\ CommitBoth(Event("assistant.committed", ConversationStream, Latest(w), WorkStream(w),
                        Craxii, work[w].owner, AssistantPayload(w, w)),
                  StageTransition(w, Complete, NextId))
    /\ RowsKept

FailWork(w) ==
    /\ Up /\ TerminalizeOwnedWork(w, work[w])
    /\ Commit(StageTransition(w, Fail, Latest(w))) /\ RowsKept

(* heartbeat_runtime never moves the time back.                              *)
Heartbeat ==
    LET r == proc.runtime IN
    /\ proc.phase \in {"serving", "stopping"}
    /\ runtime[r] = "running" /\ clock > instance[r].beat
    /\ instance' = [instance EXCEPT ![r].beat = clock]
    /\ UNCHANGED <<storeVars, journal, conversation, inputs, exposed, processVars>>

(* The shutdown sequence: the stop is recorded, the owned work is asked to   *)
(* stop, what has not stopped is classified as recovery would, and the       *)
(* runtime row is closed.                                                    *)
StopServing ==
    LET r == proc.runtime IN
    /\ proc.phase = "serving" /\ instance[r].started <= clock
    /\ BeginRuntimeStopping(r)
    /\ Commit(RuntimeEvent("runtime.stopping", r, LatestIn(journal, RuntimeStream(r)),
                           RuntimePayload(r, clock)))
    /\ instance' = [instance EXCEPT ![r].stop = "graceful_shutdown"]
    /\ proc' = [proc EXCEPT !.phase = "stopping"]
    /\ UNCHANGED <<conversation, inputs, exposed, clock, tally>>

(* At most one work is active, so the batch is at most one event.            *)
CancelOwned(w) ==
    LET r == proc.runtime IN
    /\ proc.phase = "stopping" /\ OwnedCancellable(r) = {w}
    /\ RequestOwnedCancellation(r)
    /\ OwnerTransition(w, RequestCancellation("graceful_shutdown")) /\ RowsKept

ClassifyOwned(w) ==
    LET r == proc.runtime IN
    /\ proc.phase = "stopping" /\ OwnedCancellable(r) = {}
    /\ RecoverWorkUnit(w, r)
    /\ RecoveryEvents(w, r) /\ RowsKept

FinishStopping ==
    LET r == proc.runtime IN
    /\ proc.phase = "stopping" /\ instance[r].started <= clock
    /\ \A w \in Works : work[w].owner # r
    /\ FinishRuntimeGraceful(r)
    /\ proc' = Down
    /\ UNCHANGED <<journal, conversation, inputs, exposed, instance, clock, tally>>

SetClock(t) ==
    /\ t # clock /\ (ClockSteps = "forward" => t > clock)
    /\ clock' = t
    /\ UNCHANGED <<storeVars, journal, conversation, inputs, exposed, instance, proc, tally>>

-----------------------------------------------------------------------------
StartupStep ==
    \/ Bootstrap
    \/ \E r \in Runtimes : StartRuntime(r) \/ CloseStale(r)
    \/ \E w \in Works, r \in Runtimes : RecoverStaleWork(w, r)
    \/ AppendRecoverySummary
    \/ Serve
    \/ StartupFails

ServingStep(w) ==
    \/ \E origin \in CancelOrigins : UserCancels(w, origin)
    \/ Admit(w) \/ Claim(w) \/ FinishCancellation(w) \/ InterruptOwned(w)
    \/ Answer(w) \/ FailWork(w)
    \/ \E k \in Attempts :
           \/ StartModel(w, k)
           \/ \E shown \in BOOLEAN : StreamModel(w, k, shown)
           \/ \E evidence \in ModelEvidence : EndModel(w, k, evidence)
           \/ StartTool(w, k)
           \/ RunTool(w, k)
           \/ \E evidence \in ToolEvidence : EndTool(w, k, evidence)

StoppingStep ==
    \/ StopServing
    \/ \E w \in Works : CancelOwned(w) \/ ClassifyOwned(w)
    \/ FinishStopping

JournalNext ==
    \/ StartupStep
    \/ \E w \in Works : ServingStep(w)
    \/ Heartbeat
    \/ StoppingStep
    \/ Crash
    \/ \E t \in 0 .. MaxClock : SetClock(t)

JournalSpec == JournalInit /\ [][JournalNext]_vars
-----------------------------------------------------------------------------
JournalTypeOK ==
    /\ TypeOK
    /\ \A i \in 1 .. Len(log) : log[i].stream \in Streams /\ log[i].cause \in 0 .. i - 1
    /\ conversation \in [ordinal : 0 .. MaxWork + 1, version : 0 .. MaxWork + 1]
    /\ inputs \in [Works -> 0 .. Len(log)]
    /\ exposed \in SUBSET (Works \X Attempts)
    /\ instance \in [Runtimes -> [started : 0 .. MaxClock, beat : 0 .. MaxClock,
                                  stop : {"none", "graceful_shutdown", "startup_failure"}]]
    /\ clock \in 0 .. MaxClock
    /\ proc.phase \in {"down", "recovering", "checking", "serving", "stopping"}
    /\ tally.observed \in Nat /\ tally.closed <= tally.observed

(* Whatever the transactions appended, in any order of commands, recoveries  *)
(* and crashes, ProductProjector::project accepts it: startup never refuses  *)
(* a journal this program wrote.                                             *)
JournalReplays == log # <<>> => Projected.ok

(* After every transaction, and so after a crash between any two of them,    *)
(* the rows are what the journal replays to: the comparisons of              *)
(* verify_consistency and verify_stage8_consistency all succeed.             *)
RowsMatchJournal ==
    LET p == Projected IN log # <<>> /\ p.ok => RowsVerify(p)

(* The runtime rows and every recovery summary pass                          *)
(* verify_stage10_consistency: the summary counts exactly the events of its  *)
(* recovery, and the works it found queued, even when the recovery itself    *)
(* was cut short by a crash and done again by the next process.              *)
RecoveriesAddUp ==
    LET p == Projected IN log # <<>> /\ p.ok => RuntimesVerify(p)

(* Nothing follows the terminal event of a work in its stream: an attempt is *)
(* closed in the journal before, never after, the work that waited for it.   *)
TerminalIsLast ==
    \A i, j \in 1 .. Len(log) :
        /\ i < j /\ log[i].stream = log[j].stream /\ IsTransition(log[i])
        => ~IsTerminal(log[i].payload.to)

=============================================================================
