--------------------------- MODULE ContextAssembly ---------------------------
(* Context assembly (application/context_assembler.rs) over the durable       *)
(* evidence it reads (adapters/sqlite/context_source_store.rs).  Works of     *)
(* several conversations run one at a time; a work's agent loop assembles a   *)
(* request from the whole causal history of its conversation, calls the       *)
(* model, runs the tools it asks for, and assembles again.  What was          *)
(* assembled is kept as a manifest, an ordered list of sources, from which    *)
(* the request can be rebuilt later.                                          *)
(*                                                                            *)
(* The terminal rows of model attempts and tool executions are one sequence,  *)
(* `evidence`, in the order their journal events were committed: an index is  *)
(* both the identity of a row and its journal offset.  A message, a hash or   *)
(* a rendered item is the record it was made from.                            *)
EXTENDS Naturals, FiniteSets, SequencesExt

CONSTANTS
  Conversations,   \* conversations of the principal
  Responses,       \* [stop, items] the model may complete with
  AttemptEnds,     \* terminal states of a model attempt that did not complete
  ToolEnds,        \* terminal states a tool execution may reach
  Stops,           \* terminal states a work may be put into between operations
  ResultSizes,     \* sizes of a completed tool's result projection
  ComponentLimit,  \* MAX_MODEL_COMPONENT_BYTES, in units of one rendered item
  OpaqueSize,      \* size of a provider-native continuation
  Window,          \* what the window leaves for input after the reservation
  Continuation,    \* the target offers reasoning continuation
  CanLose,         \* artifact objects may vanish from the artifact store
  MaxWorks, MaxWaiting, MaxSteps, MaxAttempts, MaxCapabilities

VARIABLES
  works,        \* Seq of [conv, state, reason]; a work's identity is its index
  evidence,     \* terminal model attempts and tool executions, in journal order
  lost,         \* rows of evidence whose artifact object has vanished
  manifests,    \* Seq of [work, step, cutoff, capabilities, sources]
  capabilities, \* the workstation row's capabilities, rewritten at startup
  active        \* the agent loop: [work, step, attempt, pc]

vars == <<works, evidence, lost, manifests, capabilities, active>>

----------------------------------------------------------------------------
Idle == [work |-> 0, step |-> 0, attempt |-> 0, pc |-> "idle"]

WorkStates == {"queued", "running", "completed", "failed", "interrupted", "cancelled"}

ModelRow(w, step, attempt, state, items) ==
  [kind |-> "model", work |-> w, step |-> step, attempt |-> attempt,
   state |-> state, items |-> items]
ToolRow(w, model, step, ordinal, call, state, size) ==
  [kind |-> "tool", work |-> w, model |-> model, step |-> step,
   ordinal |-> ordinal, call |-> call, state |-> state, size |-> size]

IsModel(e) == evidence[e].kind = "model"
IsTool(e) == evidence[e].kind = "tool"
Ordinal(w) == Cardinality({v \in 1..w : works[v].conv = works[w].conv})
HasFinalAssistant(w) == works[w].state = "completed"
HasToolCalls(items) == \E i \in 1..Len(items) : items[i].kind = "tool_call"

\* A result longer than one item keeps its streams in an artifact, and opaque
\* continuation material always is one.
HasArtifact(e) ==
  IF IsTool(e) THEN evidence[e].size > 1
  ELSE \E i \in 1..Len(evidence[e].items) : evidence[e].items[i].kind = "provider_opaque"

----------------------------------------------------------------------------
(* The eligibility snapshot of one work, read in one transaction.             *)

PriorWorks(w) == SelectSeq([v \in 1..Len(works) |-> v],
                           LAMBDA v : works[v].conv = works[w].conv /\ Ordinal(v) < Ordinal(w))
EligibleWorks(w) == {v \in 1..Len(works) : works[v].conv = works[w].conv /\ Ordinal(v) <= Ordinal(w)}

BoundaryKey(e) ==
  <<Ordinal(evidence[e].work), evidence[e].step,
    IF IsModel(e) THEN 0 ELSE 1,
    IF IsModel(e) THEN evidence[e].attempt ELSE evidence[e].ordinal, e>>

\* The tuple order of two keys of the same length.
KeyLess(a, b) ==
  \E i \in 1..Len(a) : a[i] < b[i] /\ \A j \in 1..(i - 1) : a[j] = b[j]
Eligible(w, Test(_)) ==
  SortSeq(SelectSeq([e \in 1..Len(evidence) |-> e],
                    LAMBDA e : evidence[e].work \in EligibleWorks(w) /\ Test(e)),
          LAMBDA d, e : KeyLess(BoundaryKey(d), BoundaryKey(e)))

CompletedModelOutputs(w) == Eligible(w, LAMBDA e : IsModel(e) /\ evidence[e].state = "completed")
ObservedToolResults(w) == Eligible(w, IsTool)
ContinuationBoundaries(w) == Eligible(w, LAMBDA e : TRUE)

Snapshot(w) ==
  [work |-> w, prior |-> PriorWorks(w), outputs |-> CompletedModelOutputs(w),
   tools |-> ObservedToolResults(w), boundaries |-> ContinuationBoundaries(w)]

----------------------------------------------------------------------------
(* Rendering.  A source is what the manifest keeps of one position: its kind, *)
(* the record it names, the item of a model output, its content (what its     *)
(* hash is taken over) and its size in the request.                           *)

Source(kind, record, id, item, content, size) ==
  [kind |-> kind, record |-> record, id |-> id, item |-> item,
   content |-> content, size |-> size]
NoSource == Source("none", "none", 0, 0, <<>>, 0)
SourceKey(s) == <<s.record, s.id, s.item>>

\* Instructions, workspace and tool definitions are fixed; their bytes are
\* part of every request and the window is what they leave.
InstructionSources ==
  <<Source("system_instruction", "instruction_version", 1, 0, <<>>, 0),
    Source("developer_instruction", "instruction_version", 2, 0, <<>>, 0)>>
WorkstationSource ==
  Source("workstation_capability_summary", "workstation", 1, 0, <<capabilities>>, 0)
WorkspaceSource == Source("workspace_identity", "workspace", 1, 0, <<>>, 0)
ToolSources ==
  <<Source("tool_definition", "tool_definition", 1, 0, <<>>, 0),
    Source("tool_definition", "tool_definition", 2, 0, <<>>, 0)>>

MessageSource(kind, w) == Source(kind, "message", w, 0, <<>>, 1)
PriorMessage(w) == MessageSource("user_message", w)
AssistantSource(w) == Source("assistant_message", "message", w, 1, <<>>, 1)

PriorTerminalStatus(w) ==
  CASE works[w].state = "failed" ->
         <<Source("synthetic_failure", "work", w, 0, <<works[w].state, works[w].reason>>, 1)>>
    [] works[w].state = "interrupted" ->
         <<Source("synthetic_interruption", "work", w, 0, <<works[w].state, works[w].reason>>, 1)>>
    [] OTHER -> <<>>

ToolResultKind(state) ==
  CASE state = "completed" -> "observed_tool_result"
    [] state = "outcome_unknown" -> "synthetic_outcome_unknown"
    [] state = "interrupted_before_dispatch" -> "synthetic_interruption"
ToolResult(e) ==
  Source(ToolResultKind(evidence[e].state), "tool_execution", e, 0,
         <<evidence[e].state>>, evidence[e].size)

ItemSource(e, i) ==
  Source("completed_model_output", "model_invocation", e, i, <<evidence[e].items[i].kind>>, 1)
ContinuationSource(e) ==
  Source("provider_native_continuation", "model_invocation", e, 0, <<"provider_opaque">>, OpaqueSize)

(* Reasoning material of the provider is offered back only by the active      *)
(* work, only for its last completed output, and only while nothing of that   *)
(* work failed or became unknown behind it.                                   *)
\* Mutant of ContinuationIsEligible: any completed output of the work will do.
ContinuationIsEligible(snap, e) ==
  LET mine == SelectSeq(snap.boundaries, LAMBDA b : evidence[b].work = snap.work)
      last == SelectLastInSeq(mine, LAMBDA b : IsModel(b) /\ evidence[b].state = "completed")
  IN /\ Continuation
     /\ evidence[e].work = snap.work
     /\ \E i \in 1..Len(evidence[e].items) : evidence[e].items[i].kind # "provider_opaque"
     /\ last > 0 /\ mine[last] = e
     /\ \A i \in (last + 1)..Len(mine) :
          evidence[mine[i]].state \notin
            IF IsModel(mine[i]) THEN {"failed", "cancelled_locally", "provider_outcome_unknown"}
                                ELSE {"outcome_unknown"}

\* Mutant of ToolCallOrdinal: calls are counted from zero.
ToolCallOrdinal(e, i) ==
  Cardinality({j \in 1..i : evidence[e].items[j].kind = "tool_call"})
MatchingTools(snap, e, i) ==
  SelectSeq(snap.tools, LAMBDA t : /\ evidence[t].model = e
                                   /\ evidence[t].work = evidence[e].work
                                   /\ evidence[t].step = evidence[e].step
                                   /\ evidence[t].ordinal = ToolCallOrdinal(e, i)
                                   /\ evidence[t].call = evidence[e].items[i].call)

\* Mutants of RenderItem: the text of a final answer is kept beside the
\* assistant message; the text beside tool calls disappears with it.
RenderItemTwice(snap, e, i) ==
  IF evidence[e].items[i].kind = "tool_call"
    THEN <<ItemSource(e, i)>> \o
         [k \in 1..Len(MatchingTools(snap, e, i)) |-> ToolResult(MatchingTools(snap, e, i)[k])]
    ELSE <<ItemSource(e, i)>>

RenderItem(snap, e, i) ==
  LET kind == evidence[e].items[i].kind
      results == MatchingTools(snap, e, i)
  IN CASE kind = "text" ->
            IF HasFinalAssistant(evidence[e].work) /\ ~HasToolCalls(evidence[e].items)
              THEN <<>> ELSE <<ItemSource(e, i)>>
       [] kind = "tool_call" ->
            <<ItemSource(e, i)>> \o [k \in 1..Len(results) |-> ToolResult(results[k])]
       [] kind = "provider_opaque" ->
            IF ContinuationIsEligible(snap, e) THEN <<ContinuationSource(e)>> ELSE <<>>
       [] OTHER -> <<ItemSource(e, i)>>

ModelAndToolTrace(snap, w) ==
  LET outputs == SelectSeq(snap.outputs, LAMBDA e : evidence[e].work = w)
  IN FlattenSeq([k \in 1..Len(outputs) |->
       FlattenSeq([i \in 1..Len(evidence[outputs[k]].items) |-> RenderItem(snap, outputs[k], i)])])

PriorWork(snap, w) ==
  <<PriorMessage(w)>> \o ModelAndToolTrace(snap, w) \o
  (IF HasFinalAssistant(w) THEN <<AssistantSource(w)>> ELSE PriorTerminalStatus(w))

AssembleSnapshot(snap) ==
  InstructionSources \o <<WorkstationSource, WorkspaceSource>> \o ToolSources \o
  FlattenSeq([k \in 1..Len(snap.prior) |-> PriorWork(snap, snap.prior[k])]) \o
  <<MessageSource("active_trigger", snap.work)>> \o ModelAndToolTrace(snap, snap.work)

\* A source is used with its artifact: a continuation is read, and every
\* stream object of a tool result is verified.
ReadsArtifact(s) ==
  \/ s.kind = "provider_native_continuation"
  \/ s.record = "tool_execution" /\ HasArtifact(s.id)
LosesArtifact(s) == ReadsArtifact(s) /\ s.id \in lost

\* Mutant of RequestSize: only the active work's own trace is measured.
RequestSize(sources) == FoldLeft(LAMBDA n, s : n + s.size, 0, sources)
PairedTools(sources) == {i \in 1..Len(sources) : sources[i].record = "tool_execution"}

ResultFits(s) == s.size <= ComponentLimit

\* One message per work, and nothing of another conversation or a later work.
ValidSnapshot(snap) ==
  /\ \A k \in 1..Len(snap.prior) :
       /\ works[snap.prior[k]].conv = works[snap.work].conv
       /\ Ordinal(snap.prior[k]) < Ordinal(snap.work)
       /\ k > 1 => Ordinal(snap.prior[k - 1]) < Ordinal(snap.prior[k])
  /\ \A e \in ToSet(snap.outputs) \cup ToSet(snap.tools) :
       /\ works[evidence[e].work].conv = works[snap.work].conv
       /\ Ordinal(evidence[e].work) <= Ordinal(snap.work)

\* The errors that assembly itself reports, before any measurement.
ContextError(snap, sources) ==
  \/ ~ValidSnapshot(snap)
  \/ \E i, j \in 1..Len(sources) : i # j /\ SourceKey(sources[i]) = SourceKey(sources[j])
  \/ Cardinality(PairedTools(sources)) # Len(snap.tools)
  \/ \E i \in 1..Len(sources) : LosesArtifact(sources[i])
  \/ \E i \in PairedTools(sources) : ~ResultFits(sources[i])

FitsWindow(sources) == RequestSize(sources) <= Window

ContextManifest(sources) ==
  [work |-> active.work, step |-> active.step, cutoff |-> Len(evidence),
   capabilities |-> capabilities, sources |-> sources]

\* What the store asks of a manifest before it keeps it.
ManifestIsStorable(m) ==
  /\ FitsWindow(m.sources)
  /\ \A i \in 1..Len(m.sources) :
       m.sources[i].kind = "provider_native_continuation" => m.sources[i].record = "model_invocation"

----------------------------------------------------------------------------
(* The agent loop around assembly.                                            *)

EndWork(w, state, reason) ==
  /\ works' = [works EXCEPT ![w].state = state, ![w].reason = reason]
  /\ active' = Idle

Accept(c) ==
  /\ Len(works) < MaxWorks
  /\ Cardinality({w \in 1..Len(works) : works[w].state = "queued"}) < MaxWaiting
  /\ works' = Append(works, [conv |-> c, state |-> "queued", reason |-> "none"])
  /\ UNCHANGED <<evidence, lost, manifests, capabilities, active>>

CancelQueued(w) ==
  /\ works[w].state = "queued"
  /\ works' = [works EXCEPT ![w].state = "cancelled"]
  /\ UNCHANGED <<evidence, lost, manifests, capabilities, active>>

Claim(w) ==
  /\ active = Idle
  /\ works[w].state = "queued"
  /\ \A v \in 1..(w - 1) : works[v].state # "queued"
  /\ works' = [works EXCEPT ![w].state = "running"]
  /\ active' = [work |-> w, step |-> 1, attempt |-> 1, pc |-> "assemble"]
  /\ UNCHANGED <<evidence, lost, manifests, capabilities>>

StepLimit ==
  /\ active.pc = "assemble" /\ active.step > MaxSteps
  /\ EndWork(active.work, "failed", "step_limit")
  /\ UNCHANGED <<evidence, lost, manifests, capabilities>>

Assemble ==
  LET snap == Snapshot(active.work)
      sources == AssembleSnapshot(snap)
  IN /\ active.pc = "assemble" /\ active.step <= MaxSteps
     /\ \/ /\ ContextError(snap, sources)
           /\ EndWork(active.work, "failed", "context_error")
           /\ UNCHANGED manifests
        \/ /\ ~ContextError(snap, sources) /\ ~FitsWindow(sources)
           /\ EndWork(active.work, "failed", "context_limit")
           /\ UNCHANGED manifests
        \/ /\ ~ContextError(snap, sources) /\ ManifestIsStorable(ContextManifest(sources))
           /\ manifests' = Append(manifests, ContextManifest(sources))
           /\ active' = [active EXCEPT !.pc = "invoke"]
           /\ UNCHANGED works
     /\ UNCHANGED <<evidence, lost, capabilities>>

AppendModel(state, items) ==
  evidence' = Append(evidence, ModelRow(active.work, active.step, active.attempt, state, items))

\* A retry reuses the manifest of the first attempt.
ModelRetries ==
  /\ active.pc = "invoke" /\ active.attempt < MaxAttempts
  /\ AppendModel("failed", <<>>)
  /\ active' = [active EXCEPT !.attempt = @ + 1]
  /\ UNCHANGED <<works, lost, manifests, capabilities>>

ModelEnds(state) ==
  /\ active.pc = "invoke"
  /\ AppendModel(state, <<>>)
  /\ EndWork(active.work,
       CASE state = "failed" -> "failed"
         [] state = "provider_outcome_unknown" -> "interrupted"
         [] state = "cancelled_locally" -> "cancelled", "provider")
  /\ UNCHANGED <<lost, manifests, capabilities>>

ModelCompletes(r) ==
  /\ active.pc = "invoke"
  /\ AppendModel("completed", r.items)
  /\ \/ /\ r.stop = "incomplete"
        /\ EndWork(active.work, "failed", "incomplete")
     \/ /\ r.stop # "incomplete"
        /\ active' = [active EXCEPT !.pc = IF r.stop = "tool_continuation" THEN "tools" ELSE "answer"]
        /\ UNCHANGED works
  /\ UNCHANGED <<lost, manifests, capabilities>>

CommitCompletion ==
  /\ active.pc = "answer"
  /\ EndWork(active.work, "completed", "none")
  /\ UNCHANGED <<evidence, lost, manifests, capabilities>>

\* The output whose calls are being executed, and its calls still without a row.
LastOutput ==
  SelectLastInSeq(evidence, LAMBDA r : r.kind = "model" /\ r.state = "completed"
                                       /\ r.work = active.work)
ToolCalls == SelectSeq(evidence[LastOutput].items, LAMBDA i : i.kind = "tool_call")
ToolsDone == Cardinality({e \in 1..Len(evidence) : IsTool(e) /\ evidence[e].model = LastOutput})

AppendTool(state, size) ==
  evidence' = Append(evidence,
    ToolRow(active.work, LastOutput, active.step, ToolsDone + 1,
            ToolCalls[ToolsDone + 1].call, state, IF state = "completed" THEN size ELSE 1))

ToolExecutes(state, size) ==
  /\ active.pc = "tools"
  /\ AppendTool(state, size)
  /\ IF state # "completed"
       THEN EndWork(active.work, "interrupted", "tool")
       ELSE /\ active' = IF ToolsDone + 1 = Len(ToolCalls)
                           THEN [active EXCEPT !.pc = "assemble", !.step = @ + 1, !.attempt = 1]
                           ELSE active
            /\ UNCHANGED works
  /\ UNCHANGED <<lost, manifests, capabilities>>

\* A cancellation seen between two steps, a restart, or a definite failure of
\* the store ends the work between two of its operations.
StopWork(state) ==
  /\ active.pc \in {"assemble", "tools", "answer"}
  /\ EndWork(active.work, state, "stopped")
  /\ UNCHANGED <<evidence, lost, manifests, capabilities>>

LoseArtifact(e) ==
  /\ CanLose /\ HasArtifact(e) /\ e \notin lost
  /\ lost' = lost \cup {e}
  /\ UNCHANGED <<works, evidence, manifests, capabilities, active>>

\* A restart writes what this build of the runtime can do to the workstation row.
CapabilitiesChange ==
  /\ active = Idle
  /\ capabilities < MaxCapabilities
  /\ capabilities' = capabilities + 1
  /\ UNCHANGED <<works, evidence, lost, manifests, active>>

----------------------------------------------------------------------------
Init ==
  /\ works = <<>> /\ evidence = <<>> /\ lost = {} /\ manifests = <<>>
  /\ capabilities = 1 /\ active = Idle

Next ==
  \/ \E c \in Conversations : Accept(c)
  \/ \E w \in 1..Len(works) : CancelQueued(w) \/ Claim(w)
  \/ StepLimit \/ Assemble \/ ModelRetries \/ CommitCompletion \/ CapabilitiesChange
  \/ \E state \in AttemptEnds : ModelEnds(state)
  \/ \E r \in Responses : ModelCompletes(r)
  \/ \E state \in ToolEnds, size \in ResultSizes : ToolExecutes(state, size)
  \/ \E state \in Stops : StopWork(state)
  \/ \E e \in 1..Len(evidence) : LoseArtifact(e)

Spec == Init /\ [][Next]_vars

----------------------------------------------------------------------------
(* Rebuilding a manifest from its exact sources (verify_reconstruction).      *)

OwnedBy(m, w) == works[w].conv = works[m.work].conv /\ Ordinal(w) <= Ordinal(m.work)

LoadExactMessage(s) == s.kind # "assistant_message" \/ HasFinalAssistant(s.id)
LoadExactModelOutput(e) == IsModel(e) /\ evidence[e].state = "completed"
LoadExactToolResult(e) ==
  IsTool(e) /\ evidence[e].state \in {"completed", "outcome_unknown", "interrupted_before_dispatch"}

RenderExactMessage(m, s) ==
  IF ~LoadExactMessage(s) \/ ~OwnedBy(m, s.id) \/ (s.kind = "active_trigger") # (s.id = m.work)
    THEN NoSource
    ELSE IF s.kind = "assistant_message" THEN AssistantSource(s.id) ELSE MessageSource(s.kind, s.id)

RenderExactModelOutput(m, s) ==
  IF ~LoadExactModelOutput(s.id) \/ ~OwnedBy(m, evidence[s.id].work) \/ LosesArtifact(s)
    THEN NoSource
    ELSE IF s.kind = "completed_model_output" THEN ItemSource(s.id, s.item)
                                              ELSE ContinuationSource(s.id)

RenderExactToolResult(m, s) ==
  IF ~LoadExactToolResult(s.id) \/ ~OwnedBy(m, evidence[s.id].work) \/ LosesArtifact(s)
    THEN NoSource ELSE ToolResult(s.id)

\* Instructions and tool definitions come with the build and are compared by version.
RenderExactStatic(s) == s

RenderExactWork(m, s) ==
  IF ~OwnedBy(m, s.id) \/ s.id = m.work \/ PriorTerminalStatus(s.id) = <<>> THEN NoSource
  ELSE PriorTerminalStatus(s.id)[1]


\* What the manifest's position renders to now; NoSource when it cannot be reloaded.
RenderExactSource(m, s) ==
  CASE s.record \in {"instruction_version", "tool_definition"} -> RenderExactStatic(s)
    [] s.record = "workstation" -> WorkstationSource
    [] s.record = "workspace" -> WorkspaceSource
    [] s.record = "message" -> RenderExactMessage(m, s)
    [] s.record = "model_invocation" -> RenderExactModelOutput(m, s)
    [] s.record = "tool_execution" /\ s.kind \in {"observed_tool_result", "synthetic_outcome_unknown"} ->
         RenderExactToolResult(m, s)
    [] s.record = "work" -> RenderExactWork(m, s)
    [] OTHER -> NoSource

\* What the manifest's hash covers: position, kind, identity, content and size.
SemanticManifest(sources) ==
  [i \in 1..Len(sources) |->
     <<sources[i].kind, SourceKey(sources[i]), sources[i].content, sources[i].size>>]

Rebuilds(m) ==
  SemanticManifest([i \in 1..Len(m.sources) |-> RenderExactSource(m, m.sources[i])])
    = SemanticManifest(m.sources)

----------------------------------------------------------------------------
(* Properties.                                                                *)

\* Shape of the durable state and of the agent loop's position.
TypeOK ==
  /\ \A w \in 1..Len(works) : works[w].conv \in Conversations /\ works[w].state \in WorkStates
  /\ \A e \in 1..Len(evidence) : evidence[e].kind \in {"model", "tool"} /\ evidence[e].work \in 1..Len(works)
  /\ lost \subseteq 1..Len(evidence)
  /\ capabilities \in 1..MaxCapabilities
  /\ active.work \in 0..Len(works) /\ active.pc \in {"idle", "assemble", "invoke", "tools", "answer"}
  /\ \A w \in 1..Len(works) : (works[w].state = "running") <=> (w = active.work)


\* Assembly refuses a work for a reason other than its size only when an
\* artifact of the history has vanished: whatever sequence of outcomes,
\* cancellations and restarts produced the evidence, it pairs and renders.
HistoryAssembles ==
  (\E w \in 1..Len(works) : works[w].reason = "context_error") => lost # {}

SourceWork(s) ==
  IF s.record \in {"message", "work"} THEN s.id ELSE evidence[s.id].work
History(m) ==
  SelectSeq(m.sources, LAMBDA s : s.record \in {"message", "work", "model_invocation", "tool_execution"})

\* assemble_snapshot: a manifest tells the causal history of its work.  The
\* works of its conversation up to its own appear in order, each opened by its
\* user message; every tool execution recorded by then appears once, directly
\* behind the call it answers; every call of a completed output appears; the
\* answer of a completed work appears once, as its assistant message.
CausalHistory ==
  \A k \in 1..Len(manifests) :
    LET m == manifests[k]
        h == History(m)
        before == {e \in 1..m.cutoff : OwnedBy(m, evidence[e].work)}
    IN /\ \A i \in 1..Len(h) : OwnedBy(m, SourceWork(h[i]))
       /\ \A i \in 1..(Len(h) - 1) : SourceWork(h[i]) <= SourceWork(h[i + 1])
       /\ \A w \in {v \in 1..m.work : OwnedBy(m, v)} :
            \E i \in 1..Len(h) :
              /\ h[i].record = "message" /\ h[i].item = 0 /\ h[i].id = w
              /\ \A j \in 1..(i - 1) : SourceWork(h[j]) # w
       /\ \A t \in {e \in before : IsTool(e)} :
            /\ Cardinality({i \in 1..Len(h) : h[i].record = "tool_execution" /\ h[i].id = t}) = 1
            /\ \E i \in 2..Len(h) :
                 /\ h[i].record = "tool_execution" /\ h[i].id = t
                 /\ h[i - 1].record = "model_invocation" /\ h[i - 1].id = evidence[t].model
                 /\ evidence[h[i - 1].id].items[h[i - 1].item].kind = "tool_call"
                 /\ evidence[h[i - 1].id].items[h[i - 1].item].call = evidence[t].call
       /\ \A e \in {d \in before : IsModel(d)} : \A i \in 1..Len(evidence[e].items) :
            evidence[e].items[i].kind = "tool_call" => ItemSource(e, i) \in ToSet(h)
       /\ \A w \in {v \in 1..(m.work - 1) : OwnedBy(m, v) /\ HasFinalAssistant(v)} :
            Cardinality({i \in 1..Len(h) :
              /\ SourceWork(h[i]) = w
              /\ \/ h[i].kind = "assistant_message"
                 \/ /\ h[i].kind = "completed_model_output" /\ h[i].content = <<"text">>
                    /\ ~HasToolCalls(evidence[h[i].id].items)}) = 1

\* continuation_is_eligible: at most one continuation is offered, it is of the
\* manifest's own work, and it is the newest completed output of that work.
ContinuationIsFresh ==
  \A k \in 1..Len(manifests) :
    LET m == manifests[k]
        offered == {i \in 1..Len(m.sources) : m.sources[i].kind = "provider_native_continuation"}
    IN /\ Cardinality(offered) <= 1
       /\ \A i \in offered :
            LET e == m.sources[i].id
            IN /\ evidence[e].work = m.work
               /\ \A d \in (e + 1)..m.cutoff :
                    evidence[d].work = m.work => evidence[d].state = "completed" /\ IsTool(d)

\* The history with what legitimately changes between two requests removed.
StableHistory(m) ==
  LET h == SelectSeq(History(m), LAMBDA s : s.kind # "provider_native_continuation")
  IN [i \in 1..Len(h) |-> IF h[i].kind = "active_trigger" THEN MessageSource("user_message", h[i].id)
                                                         ELSE h[i]]

\* The history of a conversation only grows: what an earlier request of the
\* conversation showed the model is, in the same order and with the same
\* content, the beginning of what every later request shows.
HistoryIsAppendOnly ==
  \A k \in 1..Len(manifests) : \A j \in 1..(k - 1) :
    (works[manifests[j].work].conv = works[manifests[k].work].conv)
      => IsPrefix(StableHistory(manifests[j]), StableHistory(manifests[k]))

\* Full history is mandatory, so a conversation whose request no longer fits
\* stays that way: no later work of it is ever given a request.
OverflowIsFinal ==
  ~Continuation =>
    \A k \in 1..Len(manifests) : \A v \in 1..(manifests[k].work - 1) :
      works[v].conv = works[manifests[k].work].conv => works[v].reason # "context_limit"
=============================================================================
