-------------------------- MODULE StartupVerification --------------------------
(***************************************************************************)
(* verify_application_consistency: what every startup requires of the      *)
(* database before it trusts it.  The journal is replayed, and the rows    *)
(* must be what the replay says; the runtimes' recovery summaries must     *)
(* count exactly what their recoveries did.  JournalStore has the          *)
(* transactions that write both.                                           *)
(***************************************************************************)
EXTENDS WorkStore, Journal

VARIABLES
    journal,       \* journal_events and stream_heads
    conversation,  \* the conversation row: next_work_ordinal, state_version
    inputs,        \* work_item_inputs: the trigger event of each work
    exposed,       \* model_invocations.draft_exposed
    instance       \* runtime_instances: started_at, last_heartbeat_at, stop_reason

log == journal.log

CountFields ==
    {"interrupted", "modelUnknown", "modelKept", "toolBefore", "toolUnknown", "toolKept",
     "drafts", "cleanupChecks", "cleanupUnconfirmed"}
NoCounts == [f \in CountFields |-> 0]
-----------------------------------------------------------------------------
Projected == Project(log)

(* The replayed stream heads, the root, the conversation, the messages, the  *)
(* works and their inputs equal the rows.                                    *)
HeadsMatch(j) ==
    \A s \in Streams :
        LET places == {i \in 1 .. Len(j.log) : j.log[i].stream = s} IN
        IF places = {} THEN j.heads[s] = 0
        ELSE \E i \in places : (\A h \in places : h <= i) /\ j.heads[s] = j.log[i].seq

ConversationMatches(p) ==
    /\ p.root /\ p.conversation.created
    /\ p.conversation.ordinal = conversation.ordinal
    /\ p.conversation.version = conversation.version
    /\ p.conversation.owner \in {"user", "none"}

MessagesMatch(p) ==
    p.messages = {<<"user", w>> : w \in {v \in Works : work[v] # Absent}}
                     \cup {<<"assistant", w>> : w \in answered}

WorksMatch(p) == p.works = work

InputsMatch(p) == p.trigger = inputs

(* verify_stage8_consistency: the attempt rows.  A tool's source is a        *)
(* completed model invocation of the same work and runtime, and a completed  *)
(* tool must be what the lifecycle decides from its own columns.             *)
Dispatched(w, k) ==
    \E i \in 1 .. Len(log) : log[i].kind = "tool.dispatching"
                             /\ log[i].payload.work = w /\ log[i].payload.attempt = k

ModelsMatch(p) ==
    \A w \in Works, k \in Attempts : p.models[w][k] = model[w][k].state

ToolsMatch(p) ==
    \A w \in Works, k \in Attempts :
        /\ p.tools[w][k] = tool[w][k].state
        /\ tool[w][k].state # "absent" =>
               \E m \in Attempts :
                   model[w][m] = [state |-> "completed", runtime |-> tool[w][k].runtime]
        /\ tool[w][k].state = "completed" =>
               IF Dispatched(w, k) THEN tool[w][k].cleanup # "unconfirmed"
                                   ELSE tool[w][k].cleanup = "not_required"

(* Its last queries: a work and the attempt it names belong together, and no *)
(* live attempt is detached from its work.                                   *)
LinksSound ==
    /\ \A w \in Works :
           LET s == work[w] IN
           /\ s.state = "waiting_on_model" =>
                  /\ s.kind = "model" /\ model[w][s.attempt].state \in ModelLive
                  /\ model[w][s.attempt].runtime = s.owner
           /\ s.state = "waiting_on_tool" =>
                  /\ s.kind = "tool" /\ tool[w][s.attempt].state \in ToolLive
                  /\ tool[w][s.attempt].runtime = s.owner
           /\ s.state = "cancel_requested" =>
                  /\ s.kind = "model" => model[w][s.attempt].runtime = s.owner
                  /\ s.kind = "tool" => tool[w][s.attempt].runtime = s.owner
           /\ s.state \notin {"waiting_on_model", "waiting_on_tool", "cancel_requested"} =>
                  NoCurrentAttempt(s)
    /\ \A w \in Works, k \in Attempts :
           /\ model[w][k].state \in ModelLive => HasAttempt(work[w], "model", k)
           /\ tool[w][k].state \in ToolLive => HasAttempt(work[w], "tool", k)

(* verify_stage10_consistency: a shutdown's cancellation request.            *)
ShutdownRequestSound(i) ==
    LET e == log[i] IN
    e.kind = "work.cancel_requested" /\ e.ver = 1
        /\ e.payload.to.cancel = "graceful_shutdown" =>
        /\ e.payload.from.state \in {"running", "waiting_on_model", "waiting_on_tool"}
        /\ e.payload.from.cancel = "none"
        /\ e.payload.from.owner = e.payload.to.owner
        /\ e.payload.from.kind = e.payload.to.kind
        /\ e.payload.from.attempt = e.payload.to.attempt
        /\ e.actor = Process(e.payload.to.owner) /\ e.rt = e.payload.to.owner
        /\ e.cause = PriorIn(log, i)

-----------------------------------------------------------------------------
(* verify_exact_recovery_summary: the events between a runtime's start and   *)
(* its summary are exactly the recovery's, and they add up to the summary.   *)
IsRecoveryTerminal(e) == e.kind \in {"work.interrupted", "work.cancelled"} /\ e.ver = 1
IsClassification(e) ==
    \/ e.kind = "model.interrupted" /\ e.payload.state = "provider_outcome_unknown"
    \/ e.kind \in {"tool.interrupted_before_dispatch", "tool.outcome_unknown"}

RecoveryEventSound(r, i) ==
    LET e == log[i] IN
    /\ e.actor = Process(r) /\ e.cause = PriorIn(log, i)
    /\ \/ /\ IsRecoveryTerminal(e)
          /\ e.payload.from.owner \notin {r, NoRuntime}
          /\ runtime[e.payload.from.owner] = "stopped"
          /\ instance[e.payload.from.owner].stop = "startup_failure"
          /\ e.rt = NoRuntime /\ NoCurrentAttempt(e.payload.to)
       \/ IsClassification(e) /\ e.rt = r

(* The classification, if any, of the attempt a recovered work waited for.   *)
Classifications(window, e) ==
    {c \in window : /\ IsClassification(log[c]) /\ log[c].stream = e.stream
                    /\ log[c].payload.attempt = e.payload.from.attempt
                    /\ IsModelEvent(log[c]) <=> e.payload.from.kind = "model"}

TerminalSound(window, i) ==
    LET e == log[i]
        s == e.payload.from
        w == e.payload.work
    IN
    /\ \A c \in Classifications(window, e) : e.cause = c
    /\ s.kind = "model" =>
           /\ model[w][s.attempt].runtime = s.owner
           /\ model[w][s.attempt].state \in ModelTerminal
           /\ Classifications(window, e) # {} =>
                  model[w][s.attempt].state = "provider_outcome_unknown"
    /\ s.kind = "tool" =>
           /\ tool[w][s.attempt].runtime = s.owner
           /\ tool[w][s.attempt].state \in ToolTerminal
           /\ \A c \in Classifications(window, e) :
                  log[c].payload.state = tool[w][s.attempt].state

ExactCounts(window) ==
    LET terminals == {i \in window : IsRecoveryTerminal(log[i])}
        From(i) == log[i].payload.from
        Row(i) == IF From(i).kind = "model" THEN model[log[i].payload.work][From(i).attempt].state
                  ELSE tool[log[i].payload.work][From(i).attempt].state
        Cleanup(i) == tool[log[i].payload.work][From(i).attempt].cleanup
        Classified(i) == Classifications(window, log[i]) # {}
        ofModel == {i \in terminals : From(i).kind = "model"}
        ofTool == {i \in terminals : From(i).kind = "tool"}
        checked == {i \in ofTool : Row(i) \in {"outcome_unknown", "completed"}}
    IN
    [f \in CountFields |-> Cardinality(
        CASE f = "interrupted"  -> {i \in terminals : log[i].kind = "work.interrupted"}
          [] f = "modelUnknown" -> {i \in ofModel : Classified(i)}
          [] f = "modelKept"    -> {i \in ofModel : ~Classified(i)}
          [] f = "toolBefore"   ->
                 {i \in ofTool : Classified(i) /\ Row(i) = "interrupted_before_dispatch"}
          [] f = "toolUnknown"  -> {i \in ofTool : Classified(i) /\ Row(i) = "outcome_unknown"}
          [] f = "toolKept"     -> {i \in ofTool : ~Classified(i)}
          [] f = "drafts"       ->
                 {i \in ofModel : /\ Row(i) = "provider_outcome_unknown"
                                  /\ <<log[i].payload.work, From(i).attempt>> \in exposed}
          [] f = "cleanupChecks" -> checked
          [] f = "cleanupUnconfirmed" ->
                 {i \in checked : Row(i) = "outcome_unknown" \/ Cleanup(i) = "unconfirmed"})]

RecoverySummaryExact(r, p) ==
    LET first == p.runtimes[r].started
        last == p.runtimes[r].recovery
        window == first + 1 .. last - 1
        summary == log[last].payload
        before == Project(SubSeq(log, 1, last - 1))
    IN
    /\ \A i \in window : RecoveryEventSound(r, i)
    /\ \A i \in window : IsRecoveryTerminal(log[i]) => TerminalSound(window, i)
    /\ \A i, j \in window : IsRecoveryTerminal(log[i]) /\ IsRecoveryTerminal(log[j])
                            /\ log[i].stream = log[j].stream => i = j
    /\ \A c \in window : IsClassification(log[c]) =>
           \E i \in window : IsRecoveryTerminal(log[i]) /\ c \in Classifications(window, log[i])
    /\ before.ok
    /\ summary.queued = Cardinality({w \in Works : before.works[w].state = "queued"})
    /\ summary.counts = ExactCounts(window)

(* The runtime rows against their events, and ownership of the works.        *)
RuntimeSound(r, p) ==
    LET s == p.runtimes[r] IN
    /\ runtime[r] = "absent" <=> s.started = NoEvent
    /\ s.started # NoEvent =>
           /\ log[s.started].payload.at = instance[r].started
           /\ instance[r].beat >= instance[r].started
    /\ s.recovery # NoEvent =>
           /\ log[s.recovery].payload.closed <= log[s.recovery].payload.observed
           /\ log[s.recovery].payload.at >= instance[r].started
           /\ RecoverySummaryExact(r, p)
    /\ s.stopping # NoEvent => log[s.stopping].payload.at >= instance[r].started
    /\ runtime[r] = "running" => instance[r].stop = "none" /\ s.stopping = NoEvent
    /\ runtime[r] = "stopping" =>
           instance[r].stop = "graceful_shutdown" /\ s.stopping # NoEvent
    /\ runtime[r] = "stopped" =>
           \/ instance[r].stop = "graceful_shutdown" /\ s.stopping # NoEvent
           \/ instance[r].stop = "startup_failure"

OwnershipSound ==
    /\ \A w \in Works :
           /\ work[w].state = "queued" \/ IsTerminal(work[w]) => work[w].owner = NoRuntime
           /\ IsActive(work[w]) => /\ work[w].owner # NoRuntime
                                   /\ runtime[work[w].owner] \in {"running", "stopping"}
    /\ Cardinality({w \in Works : IsActive(work[w])}) <= 1

RowsVerify(p) ==
    /\ HeadsMatch(journal) /\ ConversationMatches(p) /\ MessagesMatch(p) /\ WorksMatch(p)
    /\ InputsMatch(p) /\ ModelsMatch(p) /\ ToolsMatch(p) /\ LinksSound

RuntimesVerify(p) ==
    /\ \A i \in 1 .. Len(log) : ShutdownRequestSound(i)
    /\ \A r \in Runtimes : RuntimeSound(r, p)
    /\ OwnershipSound

VerifyConsistency ==
    LET p == Projected IN p.ok /\ RowsVerify(p) /\ RuntimesVerify(p)
=============================================================================
