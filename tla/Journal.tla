------------------------------- MODULE Journal -------------------------------
(***************************************************************************)
(* The event journal and its replay: how an event is appended              *)
(* (adapters/sqlite/journal.rs), and how application/projector.rs rebuilds *)
(* the conversation, the works, the attempts and the runtimes from the     *)
(* events alone.  Nothing here has state.                                  *)
(*                                                                         *)
(* An event's id is its place in the log.  Identifiers are small numbers,  *)
(* names and texts are left out, and a payload keeps the fields the        *)
(* projector or the startup verification reads.                            *)
(***************************************************************************)
EXTENDS Lifecycle, Sequences, FiniteSets, TLC

NoEvent == 0

CraxiiStream == <<"craxii", 0>>
ConversationStream == <<"conversation", 0>>
WorkStream(w) == <<"work", w>>
RuntimeStream(r) == <<"runtime", r>>
Streams ==
    {CraxiiStream, ConversationStream}
        \cup {WorkStream(w) : w \in Works} \cup {RuntimeStream(r) : r \in Runtimes}

(* Actors.  A user acts as an account or, natively, as a device.             *)
User == <<"user", 0>>
Device == <<"device", 0>>
Craxii == <<"craxii", 0>>
Process(r) == <<"runtime", r>>

(* JournalAppendIntent.  A stream has one correlation id: a work's events    *)
(* and the messages that cause or answer it share the work's, a runtime's    *)
(* events share the one its process generated.                               *)
Event(kind, stream, cause, corr, actor, rt, payload) ==
    [kind |-> kind, ver |-> 1, stream |-> stream, cause |-> cause, corr |-> corr,
     actor |-> actor, rt |-> rt, payload |-> payload]

V2(e) == [e EXCEPT !.ver = 2]

(* The payloads.  Only a V2 conversation names its owner, and only a V2      *)
(* cancellation its inbound delivery: the version is what the model keeps.   *)
RootPayload == [root |-> TRUE]
ConversationPayload == [ordinal |-> 1, version |-> 1]
MessagePayload(m) == [message |-> m]
AssistantPayload(m, w) == [message |-> m, work |-> w]
QueuedPayload(w, ordinal, trigger) == [work |-> w, ordinal |-> ordinal, trigger |-> trigger]
TransitionPayload(w, from, to) == [work |-> w, from |-> from, to |-> to]
AttemptPayload(w, k, state) == [work |-> w, attempt |-> k, state |-> state]
RuntimePayload(r, at) == [runtime |-> r, at |-> at]
RecoveryPayload(r, at, summary) == summary @@ RuntimePayload(r, at)

-----------------------------------------------------------------------------
(* The kinds, by the stream they belong to (JournalEventKind) and by the     *)
(* state their payload must carry (validate_payload_kind).                   *)
WorkEventState ==
    [kind \in {"work.started", "work.resumed", "work.waiting_on_model",
               "work.waiting_on_tool", "work.cancel_requested", "work.cancelled",
               "work.completed", "work.failed", "work.interrupted"} |->
        CASE kind \in {"work.started", "work.resumed"} -> "running"
          [] kind = "work.waiting_on_model"  -> "waiting_on_model"
          [] kind = "work.waiting_on_tool"   -> "waiting_on_tool"
          [] kind = "work.cancel_requested"  -> "cancel_requested"
          [] kind = "work.cancelled"         -> "cancelled"
          [] kind = "work.completed"         -> "completed"
          [] kind = "work.failed"            -> "failed"
          [] kind = "work.interrupted"       -> "interrupted"]

ModelEventStates ==
    [kind \in {"model.started", "model.streaming", "model.completed", "model.failed",
               "model.interrupted"} |->
        CASE kind = "model.started"     -> {"requesting"}
          [] kind = "model.streaming"   -> {"streaming"}
          [] kind = "model.completed"   -> {"completed"}
          [] kind = "model.failed"      -> {"failed"}
          [] kind = "model.interrupted" -> {"cancelled_locally", "provider_outcome_unknown"}]

ToolEventState ==
    [kind \in {"tool.requested", "tool.dispatching", "tool.completed",
               "tool.interrupted_before_dispatch", "tool.outcome_unknown"} |->
        CASE kind = "tool.requested"                   -> "requested"
          [] kind = "tool.dispatching"                 -> "dispatching"
          [] kind = "tool.completed"                   -> "completed"
          [] kind = "tool.interrupted_before_dispatch" -> "interrupted_before_dispatch"
          [] kind = "tool.outcome_unknown"             -> "outcome_unknown"]

IsTransition(e) == e.kind \in DOMAIN WorkEventState
IsModelEvent(e) == e.kind \in DOMAIN ModelEventStates
IsToolEvent(e) == e.kind \in DOMAIN ToolEventState
RuntimeEventKinds == {"runtime.started", "runtime.recovery_performed", "runtime.stopping"}

ModelEventKind(state) ==
    CHOOSE kind \in DOMAIN ModelEventStates : state \in ModelEventStates[kind]
ToolEventKind(state) ==
    CHOOSE kind \in DOMAIN ToolEventState : ToolEventState[kind] = state

(* resolve_event_version.                                                    *)
SupportedVersions(kind) ==
    IF kind \in {"conversation.created", "message.accepted", "work.queued",
                 "work.cancel_requested", "work.cancelled"} THEN {1, 2} ELSE {1}

PayloadMatchesKind(e) ==
    CASE e.kind = "conversation.created" -> e.payload.ordinal = 1 /\ e.payload.version = 1
      [] IsTransition(e) -> e.payload.to.state = WorkEventState[e.kind]
      [] IsModelEvent(e) -> e.payload.state \in ModelEventStates[e.kind]
      [] IsToolEvent(e)  -> e.payload.state = ToolEventState[e.kind]
      [] OTHER           -> TRUE

(* validate_stream_and_links: the stream is the one of the payload's subject. *)
StreamMatches(e) ==
    e.stream = CASE e.kind = "craxii.initialized" -> CraxiiStream
                 [] e.kind \in {"conversation.created", "message.accepted",
                                "assistant.committed"} -> ConversationStream
                 [] e.kind \in RuntimeEventKinds -> RuntimeStream(e.payload.runtime)
                 [] OTHER -> WorkStream(e.payload.work)

(* validate_intent also looks at the cause and the actor.                    *)
LinksMatch(e) ==
    /\ StreamMatches(e)
    /\ CASE e.kind = "craxii.initialized"   -> e.cause = NoEvent /\ e.actor = Craxii
         [] e.kind = "conversation.created" -> e.cause # NoEvent /\ e.actor = Craxii
         [] e.kind = "message.accepted" ->
                e.actor = IF e.ver = 2 THEN User ELSE Device
         [] e.kind = "assistant.committed" -> e.actor = Craxii
         [] e.kind = "work.queued" -> e.cause = e.payload.trigger /\ e.actor = Craxii
         [] IsTransition(e) -> e.ver = 2 => e.actor = User
         [] e.kind \in RuntimeEventKinds ->
                e.rt = e.payload.runtime /\ e.actor = Process(e.payload.runtime)
         [] OTHER -> TRUE

Prepared(e) == LinksMatch(e) /\ PayloadMatchesKind(e)

(* decode_event_row: a row is read back only if its version is known, its    *)
(* payload is one its kind may carry and its links match.                    *)
DecodesPayload(e) ==
    /\ e.ver \in SupportedVersions(e.kind)
    /\ IsTransition(e) =>
           /\ e.payload.to.version = e.payload.from.version + 1
           /\ IsLegalWorkPair(e.payload.from.state, e.payload.to.state)
    /\ PayloadMatchesKind(e)

Decodes(e) == DecodesPayload(e) /\ LinksMatch(e)

-----------------------------------------------------------------------------
(* The log and the stream_heads table.  append_event takes the stream's next *)
(* sequence number and the log's next offset.                                *)
EmptyJournal == [log |-> <<>>, heads |-> [s \in Streams |-> 0]]

AppendEvent(j, e) ==
    LET seq == j.heads[e.stream] + 1 IN
    [log |-> Append(j.log, e @@ [seq |-> seq]), heads |-> [j.heads EXCEPT ![e.stream] = seq]]

(* latest_stream_event.                                                      *)
LatestIn(j, stream) ==
    CHOOSE i \in 1 .. Len(j.log) :
        j.log[i].stream = stream /\ j.log[i].seq = j.heads[stream]

(* prior_stream_event of the event at place i.                               *)
PriorIn(log, i) ==
    LET earlier == {h \in 1 .. i - 1 : log[h].stream = log[i].stream} IN
    IF earlier = {} THEN NoEvent ELSE CHOOSE h \in earlier : \A g \in earlier : g <= h

-----------------------------------------------------------------------------
(* ProjectedState.  owner is "none" for a conversation that a V1 event       *)
(* created; a runtime's events are kept by their places in the log.          *)
NoProjectedRuntime == [started |-> NoEvent, recovery |-> NoEvent, stopping |-> NoEvent]

EmptyProjection ==
    [ok |-> TRUE, root |-> FALSE,
     conversation |-> [created |-> FALSE, owner |-> "none", ordinal |-> 0, version |-> 0],
     messages |-> {},
     works |-> [w \in Works |-> Absent],
     trigger |-> [w \in Works |-> NoEvent],
     models |-> [w \in Works |-> [k \in Attempts |-> "absent"]],
     tools |-> [w \in Works |-> [k \in Attempts |-> "absent"]],
     runtimes |-> [r \in Runtimes |-> NoProjectedRuntime]]

Refused(s) == [s EXCEPT !.ok = FALSE]

CauseIs(log, e, kind) ==
    e.cause # NoEvent /\ log[e.cause].kind = kind /\ log[e.cause].corr = e.corr

ApplyInitialized(s, e) ==
    IF s.root THEN Refused(s) ELSE [s EXCEPT !.root = TRUE]

(* apply_conversation_created: V1 predates user ownership.                   *)
ApplyConversationCreated(log, s, e) ==
    IF ~s.root \/ ~CauseIs(log, e, "craxii.initialized") \/ s.conversation.created
    THEN Refused(s)
    ELSE [s EXCEPT !.conversation =
             [created |-> TRUE, owner |-> IF e.ver = 2 THEN "user" ELSE "none",
              ordinal |-> e.payload.ordinal, version |-> e.payload.version]]

(* A V1 message needs no owner; a V2 author must own the conversation.       *)
ApplyMessageAccepted(s, e) ==
    LET m == <<"user", e.payload.message>> IN
    IF \/ ~s.conversation.created
       \/ e.ver = 2 /\ s.conversation.owner # "user"
       \/ m \in s.messages
    THEN Refused(s)
    ELSE [s EXCEPT !.messages = @ \cup {m}]

ApplyAssistantCommitted(s, e) ==
    LET m == <<"assistant", e.payload.message>> IN
    IF \/ ~s.conversation.created
       \/ s.works[e.payload.work] = Absent \/ e.corr # WorkStream(e.payload.work)
       \/ m \in s.messages
    THEN Refused(s)
    ELSE [s EXCEPT !.messages = @ \cup {m}]

ApplyWorkQueued(log, s, e) ==
    LET w == e.payload.work IN
    IF \/ ~CauseIs(log, e, "message.accepted") \/ ~s.conversation.created
       \/ s.conversation.ordinal # e.payload.ordinal
       \/ e.payload.trigger # e.cause
       \/ s.works[w] # Absent
    THEN Refused(s)
    ELSE [s EXCEPT !.works[w] = InitialSnapshot, !.trigger[w] = e.payload.trigger,
                   !.conversation.ordinal = @ + 1, !.conversation.version = @ + 1]

(* require_work_context.                                                     *)
InWorkContext(s, e) ==
    s.works[e.payload.work] # Absent /\ e.corr = WorkStream(e.payload.work)

(* validate_projected_work_shape: looser than the lifecycle's own rule, it   *)
(* leaves a terminal state's cancellation reason open.                       *)
ProjectedShape(to) ==
    CASE to.state \in {"running", "waiting_on_model", "waiting_on_tool"} ->
             /\ to.owner # NoRuntime /\ to.cancel = "none" /\ to.reason = "none"
             /\ <<to.state, to.kind>> \in
                    {<<"running", "none">>, <<"waiting_on_model", "model">>,
                     <<"waiting_on_tool", "tool">>}
      [] to.state = "cancel_requested" ->
             to.owner # NoRuntime /\ to.cancel # "none" /\ to.reason = "none"
      [] to.state \in TerminalStates ->
             to.owner = NoRuntime /\ to.kind = "none" /\ to.reason \in ReasonClass(to.state)
      [] OTHER -> FALSE

(* apply_work_transition, with the runtime the envelope names.               *)
ApplyTransition(s, e) ==
    LET w == e.payload.work
        from == e.payload.from
        to == e.payload.to
    IN
    IF \/ ~InWorkContext(s, e) \/ e.rt # to.owner
       \/ ~Matches(from, s.works[w]) \/ from.cancel # s.works[w].cancel
       \/ to.version # from.version + 1
       \/ ~IsLegalWorkPair(from.state, to.state) \/ IsTerminal(s.works[w])
       \/ ~ProjectedShape(to)
    THEN Refused(s)
    ELSE [s EXCEPT !.works[w] = to]

ApplyModelEvent(s, e) ==
    LET w == e.payload.work
        k == e.payload.attempt
    IN
    IF \/ ~InWorkContext(s, e)
       \/ IF e.kind = "model.started" THEN s.models[w][k] # "absent"
          ELSE ~IsLegalModelPair(s.models[w][k], e.payload.state)
    THEN Refused(s)
    ELSE [s EXCEPT !.models[w][k] = e.payload.state]

ApplyToolEvent(s, e) ==
    LET w == e.payload.work
        k == e.payload.attempt
    IN
    IF \/ ~InWorkContext(s, e)
       \/ IF e.kind = "tool.requested" THEN s.tools[w][k] # "absent"
          ELSE ~IsLegalToolPair(s.tools[w][k], e.payload.state)
    THEN Refused(s)
    ELSE [s EXCEPT !.tools[w][k] = e.payload.state]

ApplyRuntimeStarted(s, e, i) ==
    LET r == e.payload.runtime IN
    IF ~s.root \/ e.cause # NoEvent \/ s.runtimes[r] # NoProjectedRuntime
    THEN Refused(s)
    ELSE [s EXCEPT !.runtimes[r].started = i]

ApplyRecoveryPerformed(log, s, e, i) ==
    LET r == e.payload.runtime IN
    IF \/ ~CauseIs(log, e, "runtime.started") \/ e.cause # s.runtimes[r].started
       \/ s.runtimes[r].recovery # NoEvent
    THEN Refused(s)
    ELSE [s EXCEPT !.runtimes[r].recovery = i]

ApplyRuntimeStopping(log, s, e, i) ==
    LET r == e.payload.runtime IN
    IF \/ ~(CauseIs(log, e, "runtime.started") \/ CauseIs(log, e, "runtime.recovery_performed"))
       \/ s.runtimes[r].recovery = NoEvent \/ s.runtimes[r].stopping # NoEvent
    THEN Refused(s)
    ELSE [s EXCEPT !.runtimes[r].stopping = i]

ApplyEvent(log, s, e, i) ==
    CASE e.kind = "craxii.initialized"   -> ApplyInitialized(s, e)
      [] e.kind = "conversation.created" -> ApplyConversationCreated(log, s, e)
      [] e.kind = "message.accepted"     -> ApplyMessageAccepted(s, e)
      [] e.kind = "assistant.committed"  -> ApplyAssistantCommitted(s, e)
      [] e.kind = "work.queued"          -> ApplyWorkQueued(log, s, e)
      [] IsTransition(e)                 -> ApplyTransition(s, e)
      [] IsModelEvent(e)                 -> ApplyModelEvent(s, e)
      [] IsToolEvent(e)                  -> ApplyToolEvent(s, e)
      [] e.kind = "runtime.started"      -> ApplyRuntimeStarted(s, e, i)
      [] e.kind = "runtime.recovery_performed" -> ApplyRecoveryPerformed(log, s, e, i)
      [] e.kind = "runtime.stopping"     -> ApplyRuntimeStopping(log, s, e, i)

(* project: every stream is gapless, every cause is an earlier event, and    *)
(* every event applies to what the events before it built.                   *)
InSequence(log, i) ==
    log[i].seq = IF PriorIn(log, i) = NoEvent THEN 1 ELSE log[PriorIn(log, i)].seq + 1

Project(log) ==
    LET upTo[n \in 0 .. Len(log)] ==
            IF n = 0 THEN EmptyProjection
            ELSE LET s == upTo[n - 1] IN
                 IF ~s.ok THEN s
                 ELSE IF /\ InSequence(log, n) /\ log[n].cause < n
                         /\ Decodes(log[n]) /\ StreamMatches(log[n])
                 THEN ApplyEvent(log, s, log[n], n)
                 ELSE Refused(s)
    IN upTo[Len(log)]
=============================================================================
