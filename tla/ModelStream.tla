----------------------------- MODULE ModelStream -----------------------------
(***************************************************************************)
(* One logical model invocation: the gateway's physical attempts, each of  *)
(* which opens a provider stream, turns the provider's wire events into    *)
(* canonical events (OpenAiStream), checks and accumulates them, shows     *)
(* text to live clients as a draft, and records a terminal row; and the    *)
(* retries between attempts.                                               *)
(*                                                                         *)
(* The provider may send any event at any time.  An event whose handler    *)
(* finds something to refuse (an id, sequence number, label, status or     *)
(* body that does not fit) is RefusedEvent; the other actions are the      *)
(* events their handlers accept.                                           *)
(***************************************************************************)
EXTENDS ModelContract, SequencesExt

CONSTANTS
    MaxParts,            \* content parts of an item
    AllowedCalls,        \* calls whose tool the request offered
    Continuation,        \* reasoning_continuation is requested
    ItemTypes,           \* item types the provider sends
    MessageParts,        \* part kinds its messages use
    FailureKinds,        \* kinds of failure the provider and the transport show
    Drafts,              \* live clients are subscribed
    TransportLoss,       \* the connection may break while streaming
    EmptyIncomplete,     \* response.incomplete may come without any output
    Cancels, Deadlines,  \* the work may be cancelled; its deadline may pass
    WorkBudget           \* attempts left to the work

VARIABLES
    wire,      \* the OpenAiStream of the attempt in progress
    att,       \* the attempt in progress
    rows,      \* the recorded attempts
    flag,      \* the cancellation watch
    late,      \* the work deadline has passed
    outcome    \* what invoke returned

vars == <<wire, att, rows, flag, late, outcome>>

-----------------------------------------------------------------------------
Parts == 0..(MaxParts - 1)
NoPart == [kind |-> "none", closed |-> FALSE, text |-> <<>>, refusal |-> <<>>]

(* A part of a finished item.                                                *)
Content(kind, text) == [kind |-> kind, text |-> text]
Contents(kinds) ==
    UNION {[1..n -> {Content(k, x) : k \in kinds, x \in Texts}] : n \in 0..MaxParts}

NoItem ==
    [kind |-> "none", call |-> NoCall, args |-> <<>>, part |-> [p \in Parts |-> NoPart],
     done |-> FALSE, content |-> <<>>, encrypted |-> FALSE]

NewStream ==
    [started |-> FALSE, terminal |-> FALSE, error |-> "none", definite |-> FALSE,
     semantic |-> FALSE, item |-> [o \in Ordinals |-> NoItem], pending |-> <<>>]

NewAttempt(phase) ==
    [phase |-> phase, validator |-> NewValidator, semantic |-> FALSE, firstByte |-> FALSE,
     firstOutput |-> FALSE, exposed |-> FALSE, shown |-> [o \in Ordinals |-> <<>>],
     response |-> NoResponse, error |-> NoError]

NewRow ==
    [state |-> "requesting", kind |-> "none", certainty |-> "definitely_completed",
     semantic |-> FALSE, exposed |-> FALSE, abandoned |-> FALSE,
     shown |-> [o \in Ordinals |-> <<>>], response |-> NoResponse]

TerminalRow == {"completed", "failed", "cancelled_locally", "provider_outcome_unknown"}

No == Len(rows)

Init ==
    /\ wire = NewStream
    /\ att = NewAttempt("next")
    /\ rows = <<>>
    /\ flag = FALSE
    /\ late = FALSE
    /\ outcome = "none"

(* invoke returns; the gateway abandons the draft of the last attempt.       *)
Return(result, row, abandon) ==
    /\ outcome' = result
    /\ rows' = [rows EXCEPT ![No] = [row EXCEPT !.abandoned = @ \/ abandon]]
    /\ att' = NewAttempt("returned")
    /\ wire' = NewStream

ReturnNothing(result) ==
    /\ outcome' = result
    /\ att' = NewAttempt("returned")
    /\ UNCHANGED <<wire, rows>>

-----------------------------------------------------------------------------
(* invoke: the checks before an attempt, and begin_model_invocation.         *)
BeginAttempt ==
    /\ att.phase = "next"
    /\ IF No + 1 > WorkBudget THEN ReturnNothing("invalid_invocation")
       ELSE IF flag THEN ReturnNothing("cancelled_before_attempt")
       ELSE IF late THEN ReturnNothing("deadline_before_attempt")
       ELSE /\ rows' = Append(rows, NewRow)
            /\ att' = NewAttempt("send")
            /\ UNCHANGED <<wire, outcome>>
    /\ UNCHANGED <<flag, late>>

(* The stream is dropped, and with it what it had accumulated.               *)
Ended(attempt, error) ==
    [NewAttempt("ending") EXCEPT !.error = error, !.semantic = attempt.semantic,
                                 !.exposed = attempt.exposed]

Ends(error) == att' = Ended(att, error) /\ wire' = NewStream

(* run_physical_attempt up to the request.                                   *)
SendRequest ==
    /\ att.phase = "send"
    /\ IF late THEN Ends(ProviderError("timeout_before_output", "definitely_not_sent"))
       ELSE IF flag THEN Ends(ProviderError("cancelled", "definitely_not_sent"))
       ELSE att' = [att EXCEPT !.phase = "opening"] /\ UNCHANGED wire
    /\ UNCHANGED <<rows, flag, late, outcome>>

(* How invoke_stream fails: before it sends, in transport, by the status of  *)
(* the response, or by a success that is no event stream.                    *)
UnsentErrors ==
    {ProviderError(k, "definitely_not_sent") :
        k \in {"invalid_request", "authentication", "timeout_before_output"}}

TransportErrors ==
    {ProviderError("transport_before_response", "definitely_not_sent"),
     ProviderError("timeout_before_output", "provider_outcome_unknown"),
     ProviderError("transport_after_possible_processing", "provider_outcome_unknown")}

StatusKinds ==
    {"invalid_request", "authentication", "authorization", "unknown_model", "timeout_before_output",
     "output_too_large", "rate_limited", "temporarily_unavailable", "internal_provider_error"}

ErrorCodeKinds ==
    {"authentication", "authorization", "unknown_model", "context_error", "rate_limited",
     "temporarily_unavailable", "invalid_request", "internal_provider_error"}

HttpErrors ==
    {ProviderError(k, "definite_provider_failure") : k \in StatusKinds \cup ErrorCodeKinds}

OpenErrors ==
    {e \in UnsentErrors \cup TransportErrors \cup HttpErrors : e.kind \in FailureKinds}
    \cup {ProviderError("malformed_response", "provider_outcome_unknown")}

(* invoke_stream: the request fails, or a successful response begins.        *)
OpenAnswered ==
    /\ att.phase = "opening" /\ ~flag /\ ~late
    /\ \/ \E error \in OpenErrors : Ends(error)
       \/ att' = [att EXCEPT !.phase = "reading"] /\ wire' = NewStream
    /\ UNCHANGED <<rows, flag, late, outcome>>

-----------------------------------------------------------------------------
(* How an attempt that is reading ends.  After the terminal event any fault  *)
(* of the tail leaves the outcome unknown.                                   *)
Raise(error) ==
    Ends(IF att.phase = "trailing"
         THEN ProviderError("provider_outcome_unknown", "provider_outcome_unknown")
         ELSE error)

SeenCertainty(semantic) ==
    IF semantic THEN "semantic_output_observed" ELSE "provider_outcome_unknown"

WireError(kind) == ProviderError(kind, SeenCertainty(wire.semantic))

TimeoutError(semantic) ==
    IF semantic THEN ProviderError("timeout_after_output", "semantic_output_observed")
    ELSE ProviderError("timeout_before_output", "provider_outcome_unknown")

Waiting == {"opening", "reading", "trailing"}

(* The deadline, the idle limit of the gateway or that of the stream.        *)
TimeoutStrikes ==
    /\ att.phase \in Waiting /\ (flag => late)
    /\ Raise(TimeoutError(att.semantic))
    /\ UNCHANGED <<rows, flag, late, outcome>>

CancellationSeen ==
    /\ att.phase \in Waiting /\ flag
    /\ Raise(ProviderError("cancelled", "provider_outcome_unknown"))
    /\ UNCHANGED <<rows, flag, late, outcome>>

-----------------------------------------------------------------------------
(* OpenAiStream::next has nothing left to hand over and reads the wire.      *)
Reads ==
    /\ att.phase \in {"reading", "trailing"} /\ ~flag /\ ~late
    /\ wire.pending = <<>> /\ wire.error = "none"
    /\ UNCHANGED <<rows, flag, late, outcome>>

RequireStarted == Reads /\ wire.started /\ ~wire.terminal

RequireKind(o, kind) == RequireStarted /\ wire.item[o].kind = kind

(* A handler's effect: the stream's new state and the events it queues.      *)
Handled(stream, events) ==
    /\ wire' = [stream EXCEPT !.pending = events]
    /\ UNCHANGED att

(* What SseDecoder refuses: lines and fields that are no event stream, and   *)
(* more bytes or events than its limits.                                     *)
DecoderRefusals == {"malformed_response", "output_too_large"}

HandlerRefusals ==
    {"malformed_response", "output_too_large", "unsupported_response_item",
     "malformed_completed_tool_arguments"}

RefusedEvent ==
    /\ Reads
    /\ \E kind \in DecoderRefusals \cup HandlerRefusals :
           Raise(WireError(kind))

(* chunk() fails.                                                            *)
TransportLost ==
    /\ Reads
    /\ TransportLoss
    /\ Raise(WireError("transport_after_possible_processing"))

(* "[DONE]" or the end of the body.                                          *)
StreamEnds ==
    /\ Reads
    /\ IF wire.terminal THEN att' = [att EXCEPT !.phase = "completing"] /\ wire' = NewStream
       ELSE Raise(WireError("malformed_response"))

ResponseCreated ==
    /\ Reads /\ ~wire.started /\ ~wire.terminal
    /\ Handled([wire EXCEPT !.started = TRUE], <<Plain("response_started")>>)

ResponseProgress == RequireStarted /\ UNCHANGED <<wire, att>>

SeenCalls == {wire.item[o].call : o \in Ordinals}

(* A second item may name a call that was already seen.                      *)
RepeatedOutputItemAdded(o, kind, call) ==
    /\ RequireStarted /\ wire.item[o].kind = "none"
    /\ kind = "function_call" => call \in AllowedCalls
    /\ Handled([wire EXCEPT !.item[o] = [NoItem EXCEPT !.kind = kind, !.call = call]],
               IF kind = "function_call" THEN <<Event("tool_call_started", o, call, <<>>)>>
               ELSE <<>>)

OutputItemAdded(o, kind, call) ==
    /\ RequireStarted /\ wire.item[o].kind = "none"
    /\ kind = "function_call" => call \in AllowedCalls \ SeenCalls
    /\ Handled([wire EXCEPT !.item[o] = [NoItem EXCEPT !.kind = kind, !.call = call]],
               IF kind = "function_call" THEN <<Event("tool_call_started", o, call, <<>>)>>
               ELSE <<>>)

(* unknown_event does not ask whether the response has started.              *)
UnknownEvent ==
    /\ Reads /\ ~wire.terminal
    /\ Handled([wire EXCEPT !.terminal = TRUE, !.error = "unsupported_response_item"],
               <<Plain("unknown_provider_event")>>)

-----------------------------------------------------------------------------
(* Deltas.                                                                   *)
Fits(text, delta) == Len(text) + Len(delta) <= MaxLength

RequireObservedPartKind(o, p, kind) == wire.item[o].part[p].kind \in {"none", kind}

TextDelta(o, p, t) ==
    /\ RequireKind(o, "message") /\ RequireObservedPartKind(o, p, "output_text")
    /\ Fits(wire.item[o].part[p].text, <<t>>)
    /\ Handled([wire EXCEPT !.item[o].part[p].text = Append(@, t)],
               <<Event("text_delta", o, NoCall, <<t>>)>>)

RefusalDelta(o, p, t) ==
    /\ RequireKind(o, "message") /\ RequireObservedPartKind(o, p, "refusal")
    /\ Fits(wire.item[o].part[p].refusal, <<t>>)
    /\ Handled([wire EXCEPT !.item[o].part[p].refusal = Append(@, t)],
               <<Event("refusal_delta", o, NoCall, <<t>>)>>)

ReasoningDelta(o, p, t) ==
    /\ RequireKind(o, "reasoning") /\ RequireObservedPartKind(o, p, "summary_text")
    /\ Fits(wire.item[o].part[p].text, <<t>>)
    /\ Handled([wire EXCEPT !.item[o].part[p].text = Append(@, t)],
               <<Event("reasoning_delta", o, NoCall, <<t>>)>>)

(* The done events repeat the text, which must be what the deltas gave.      *)
TextDone(o, p) ==
    /\ RequireKind(o, "message") /\ RequireObservedPartKind(o, p, "output_text")
    /\ wire.item[o].part[p].text # <<>>
    /\ UNCHANGED <<wire, att>>

RefusalDone(o, p) ==
    /\ RequireKind(o, "message") /\ RequireObservedPartKind(o, p, "refusal")
    /\ wire.item[o].part[p].refusal # <<>>
    /\ Handled(wire, <<Event("refusal_completed", o, NoCall, <<>>)>>)

ReasoningDone(o, p) ==
    /\ RequireKind(o, "reasoning") /\ RequireObservedPartKind(o, p, "summary_text")
    /\ wire.item[o].part[p].text # <<>>
    /\ UNCHANGED <<wire, att>>

(* observe_part, for content_part and reasoning_summary_part events.         *)
ObservePart(o, p, kind, done) ==
    LET part == wire.item[o].part[p] IN
    /\ IF done THEN part.kind = kind /\ ~part.closed
       ELSE part.kind = "none" /\ ~part.closed
    /\ Handled([wire EXCEPT !.item[o].part[p].kind = kind, !.item[o].part[p].closed = done], <<>>)

ContentPart(o, p, done) ==
    /\ RequireKind(o, "message")
    /\ \E kind \in MessageParts : ObservePart(o, p, kind, done)

ReasoningPart(o, p, done) ==
    /\ RequireKind(o, "reasoning")
    /\ ObservePart(o, p, "summary_text", done)

ToolDelta(o, t) ==
    /\ RequireKind(o, "function_call") /\ ~wire.item[o].done
    /\ Fits(wire.item[o].args, <<t>>)
    /\ Handled([wire EXCEPT !.item[o].args = Append(@, t)],
               <<Event("tool_argument_delta", o, wire.item[o].call, <<t>>)>>)

ToolDone(o) == RequireKind(o, "function_call") /\ UNCHANGED <<wire, att>>

-----------------------------------------------------------------------------
(* output_item_done keeps the finished item.                                 *)
OutputItemDone(o, content, encrypted) ==
    /\ Reads /\ ~wire.terminal
    /\ wire.item[o].kind # "none" /\ ~wire.item[o].done
    /\ wire.item[o].kind = "function_call" => ValidArguments(wire.item[o].args)
    /\ Handled([wire EXCEPT !.item[o].done = TRUE, !.item[o].content = content,
                            !.item[o].encrypted = encrypted],
               IF wire.item[o].kind = "function_call"
               THEN <<Event("tool_call_completed", o, wire.item[o].call, wire.item[o].args)>>
               ELSE <<>>)

ItemDone(o) ==
    \/ /\ wire.item[o].kind = "message"
       /\ \E content \in Contents(MessageParts) : OutputItemDone(o, content, FALSE)
    \/ /\ wire.item[o].kind = "reasoning"
       /\ \E content \in Contents({"summary_text"}), encrypted \in BOOLEAN :
              OutputItemDone(o, content, encrypted)
    \/ /\ wire.item[o].kind = "function_call"
       /\ OutputItemDone(o, <<>>, FALSE)

-----------------------------------------------------------------------------
(* normalize_output.                                                         *)
ObservedParts(o) == {p \in Parts : wire.item[o].part[p].kind # "none"}

VerifyObservedParts(o) ==
    LET item == wire.item[o] IN
    ObservedParts(o) # {} =>
        /\ Cardinality(ObservedParts(o)) = Len(item.content)
        /\ \A i \in DOMAIN item.content :
               item.part[i - 1].kind = item.content[i].kind /\ item.part[i - 1].closed

VerifyDelta(o, heard) ==
    LET content == wire.item[o].content IN
    /\ Cardinality({p \in Parts : heard[p] # <<>>}) = Len(content)
    /\ \A i \in DOMAIN content : heard[i - 1] = content[i].text

HeardText(o) == [p \in Parts |-> wire.item[o].part[p].text]
HeardRefusal(o) == [p \in Parts |-> wire.item[o].part[p].refusal]

ContentKinds(o) == {wire.item[o].content[i].kind : i \in DOMAIN wire.item[o].content}
ContentTexts(o) == [i \in DOMAIN wire.item[o].content |-> wire.item[o].content[i].text]

ItemIsSound(o) ==
    LET kind == wire.item[o].kind IN
    /\ kind \in {"message", "reasoning"} => VerifyObservedParts(o)
    /\ kind = "message" =>
           \/ ContentKinds(o) = {"output_text"} /\ VerifyDelta(o, HeardText(o))
           \/ ContentKinds(o) = {"refusal"} /\ VerifyDelta(o, HeardRefusal(o))
    /\ (kind = "reasoning" /\ ContentKinds(o) # {}) => VerifyDelta(o, HeardText(o))

Normalized(o) ==
    LET item == wire.item[o] IN
    CASE item.kind = "function_call" -> <<OutputItem("tool_call", o, item.call, <<item.args>>)>>
      [] item.kind = "message" ->
           <<OutputItem(IF ContentKinds(o) = {"refusal"} THEN "refusal" ELSE "text", o, NoCall,
                        ContentTexts(o))>>
      [] item.kind = "reasoning" ->
           (IF item.content = <<>> THEN <<>>
            ELSE <<OutputItem("reasoning_summary", o, NoCall, ContentTexts(o))>>)
           \o (IF item.encrypted /\ ~Continuation
               THEN <<OutputItem("provider_opaque", o, NoCall, <<>>)>> ELSE <<>>)

Announced == {o \in Ordinals : wire.item[o].kind # "none"}

(* The response lists every announced item, all of them finished.            *)
EveryItemDone ==
    /\ Announced = 0..(Cardinality(Announced) - 1)
    /\ \A o \in Announced : wire.item[o].done

NormalizedOutput ==
    FlattenSeq([i \in 1..Cardinality(Announced) |-> Normalized(i - 1)])

OutputIsSound == EveryItemDone /\ \A o \in Announced : ItemIsSound(o)

-----------------------------------------------------------------------------
(* observe_usage and defer_terminal_error.                                   *)
UsageEvent(usage) == Plain(IF usage = "reported" THEN "usage" ELSE "usage_unavailable")

Deferred(kind, definite) ==
    [wire EXCEPT !.terminal = TRUE, !.error = kind, !.definite = definite]

StopReason(incomplete, kinds) ==
    IF incomplete THEN "incomplete_provider_limit"
    ELSE IF "tool_call" \in kinds THEN "tool_continuation"
    ELSE IF "refusal" \in kinds THEN "refusal"
    ELSE "completed"

(* response.completed or response.incomplete with the finished items.        *)
ResponseTerminal(incomplete, usage) ==
    /\ RequireStarted
    /\ LET items == NormalizedOutput
           stop == StopReason(incomplete, ItemKinds(items))
           event == UsageEvent(usage)
       IN
       IF OutputIsSound /\ ResponseIsValid(items, stop)
       THEN /\ incomplete /\ ~EmptyIncomplete => items # <<>>
            /\ Handled([wire EXCEPT !.terminal = TRUE],
                       <<event, CompletedEvent([items |-> items, stop |-> stop,
                           usage |-> IF usage = "reported" THEN "reported" ELSE "none"])>>)
       ELSE Handled(Deferred("malformed_response", FALSE), <<event>>)

(* A terminal response that does not repeat its items, its id, its controls, *)
(* or says why it is incomplete in a way that is not max_output_tokens.      *)
ResponseUnfit(usage) ==
    /\ RequireStarted
    /\ \/ Handled(Deferred("malformed_response", FALSE), <<UsageEvent(usage)>>)
       \/ Handled(Deferred("safety_refusal", TRUE), <<UsageEvent(usage)>>)
       \/ Handled(Deferred("unsupported_response_item", FALSE), <<UsageEvent(usage)>>)

ResponseFailed(usage) ==
    /\ RequireStarted
    /\ \E kind \in ErrorCodeKinds \cap FailureKinds : Handled(Deferred(kind, TRUE), <<UsageEvent(usage)>>)

ErrorEvent ==
    /\ Reads /\ ~wire.terminal
    /\ \E kind \in ErrorCodeKinds \cap FailureKinds : Handled(Deferred(kind, TRUE), <<>>)

(* next hands over a deferred error once the queue is empty.                 *)
DeferredError ==
    /\ att.phase = "reading" /\ ~flag /\ ~late
    /\ wire.pending = <<>> /\ wire.error # "none"
    /\ Ends(IF wire.definite /\ ~wire.semantic
            THEN ProviderError(wire.error, "definite_provider_failure")
            ELSE WireError(wire.error))
    /\ UNCHANGED <<rows, flag, late, outcome>>

-----------------------------------------------------------------------------
(* enforce_configured_content_limits.                                        *)
OverLimit(e) ==
    \/ e.type \in ItemEvents /\ e.o >= ItemLimit
    \/ e.type = "tool_argument_delta"
       /\ Len(att.validator.active[e.call].args) + Len(e.delta) > ArgumentLimit
    \/ e.type = "tool_call_completed" /\ Len(e.delta) > ArgumentLimit
    \/ e.type = "completed" /\ Len(e.r.items) > ItemLimit

LimitKind(e) ==
    IF e.type \in {"tool_argument_delta", "tool_call_completed"} /\ e.o < ItemLimit
    THEN "malformed_completed_tool_arguments" ELSE "output_too_large"

(* What is remembered of an event before the accumulator has judged it.      *)
Noticed(e, exposed) ==
    [att EXCEPT !.firstByte = TRUE,
                !.firstOutput = @ \/ e.type \in SemanticEvents,
                !.exposed = @ \/ (exposed /\ e.type \in {"text_delta", "refusal_delta"}),
                !.shown[e.o] = IF e.type = "text_delta" THEN @ \o e.delta ELSE @]

(* The gateway takes one event: marks the attempt streaming, offers a draft  *)
(* delta, then lets the accumulator check it.                                *)
Deliver(exposed) ==
    /\ att.phase = "reading" /\ ~flag /\ ~late
    /\ wire.pending # <<>>
    /\ LET e == Head(wire.pending)
           seen == Noticed(e, exposed)
           semantic == att.semantic \/ e.type \in SemanticEvents
       IN
       /\ exposed => e.type \in {"text_delta", "refusal_delta"}
       /\ rows' = [rows EXCEPT ![No].state = "streaming"]
       /\ IF OverLimit(e)
          THEN /\ att' = Ended(seen, ProviderError(LimitKind(e), SeenCertainty(att.semantic)))
               /\ wire' = NewStream
          ELSE IF ~Accepts(att.validator, e)
          THEN /\ att' = Ended([seen EXCEPT !.semantic = semantic],
                               ProviderError("malformed_response", SeenCertainty(semantic)))
               /\ wire' = NewStream
          ELSE IF e.type = "completed"
          THEN /\ att' = [seen EXCEPT !.phase = "trailing", !.validator = NewValidator, !.response = e.r]
               /\ wire' = [NewStream EXCEPT !.started = TRUE, !.terminal = TRUE,
                                            !.semantic = wire.semantic]
          ELSE /\ att' = [seen EXCEPT !.semantic = semantic, !.validator = Observed(@, e)]
               /\ wire' = [wire EXCEPT !.pending = Tail(@),
                                       !.semantic = @ \/ e.type \in SemanticEvents]
    /\ UNCHANGED <<flag, late, outcome>>

-----------------------------------------------------------------------------
(* finish_failed_attempt.  A cancellation that the work has taken leaves no  *)
(* transition for a definite failure, and the store refuses a row whose      *)
(* evidence does not fit its state.                                          *)
FailedRow ==
    [rows[No] EXCEPT !.semantic = att.semantic, !.exposed = att.exposed,
                     !.state = TerminalState(att.error), !.kind = RecordedKind(att.error),
                     !.certainty = RecordedCertainty(att.error, att.semantic)]

UnfinishedRow == [rows[No] EXCEPT !.semantic = att.semantic, !.exposed = att.exposed]

WorkRefusesFailure == flag /\ TerminalState(att.error) = "failed"

RecordFailure ==
    /\ att.phase = "ending"
    /\ IF WorkRefusesFailure \/ ~FailureIsStorable(att.error, att.semantic)
       THEN Return("infrastructure", UnfinishedRow, TRUE)
       ELSE IF Ambiguous(att.error) THEN Return("interrupted", FailedRow, TRUE)
       ELSE IF TerminalState(att.error) = "cancelled_locally"
       THEN Return("cancelled_before_attempt", FailedRow, TRUE)
       ELSE /\ rows' = [rows EXCEPT ![No] = FailedRow]
            /\ att' = [att EXCEPT !.phase = "failed"]
            /\ UNCHANGED <<wire, outcome>>
    /\ UNCHANGED <<flag, late>>

(* finish_completed_attempt.  Opaque evidence goes to the artifact store,    *)
(* which may fail; a cancelled work ends and its draft is abandoned.         *)
CompletedRow ==
    [rows[No] EXCEPT !.semantic = att.semantic, !.exposed = att.exposed, !.state = "completed",
                     !.shown = att.shown, !.response = att.response]

RecordCompletion ==
    /\ att.phase = "completing"
    /\ \/ /\ IF CompletionIsStorable(att.firstByte, att.firstOutput \/ att.response.items # <<>>)
             THEN Return("completed", CompletedRow, flag)
             ELSE Return("infrastructure", UnfinishedRow, TRUE)
       \/ /\ "provider_opaque" \in ItemKinds(att.response.items)
          /\ att' = Ended([att EXCEPT !.semantic = TRUE],
                          ProviderError("provider_outcome_unknown", "provider_outcome_unknown"))
          /\ UNCHANGED <<wire, rows, outcome>>
    /\ UNCHANGED <<flag, late>>

CapReached == No >= AttemptLimit \/ No >= WorkBudget

(* invoke, after a failed attempt: return, or back off and try again.        *)
DecideRetry ==
    /\ att.phase = "failed"
    /\ LET reason == ClassifyProviderRetry(att.error, att.semantic, No, flag, late) IN
       IF reason # "classified_transient_before_output" \/ att.exposed \/ CapReached
       THEN Return("failed", rows[No], att.exposed)
       ELSE \E decision \in ProviderBackoff(flag, late) :
                IF decision = "delay"
                THEN att' = NewAttempt("backoff") /\ wire' = NewStream /\ UNCHANGED <<rows, outcome>>
                ELSE Return("failed", rows[No], FALSE)
    /\ UNCHANGED <<flag, late>>

(* wait_for_delay_or_cancellation.                                           *)
BackoffEnds ==
    /\ att.phase = "backoff"
    /\ IF flag THEN ReturnNothing("cancelled_before_attempt")
       ELSE att' = NewAttempt("next") /\ UNCHANGED <<wire, rows, outcome>>
    /\ UNCHANGED <<flag, late>>

-----------------------------------------------------------------------------
CancelRequested ==
    /\ Cancels /\ ~flag /\ att.phase # "returned"
    /\ flag' = TRUE
    /\ UNCHANGED <<wire, att, rows, late, outcome>>

DeadlinePasses ==
    /\ Deadlines /\ ~late /\ att.phase # "returned"
    /\ late' = TRUE
    /\ UNCHANGED <<wire, att, rows, flag, outcome>>

WireEvent ==
    \/ ResponseCreated \/ ResponseProgress \/ UnknownEvent \/ ErrorEvent
    \/ \E o \in Ordinals :
          \/ \E kind \in ItemTypes \ {"function_call"} : OutputItemAdded(o, kind, NoCall)
          \/ \E call \in Calls : "function_call" \in ItemTypes /\ OutputItemAdded(o, "function_call", call)
          \/ \E p \in Parts, t \in Tokens :
                \/ TextDelta(o, p, t) \/ ReasoningDelta(o, p, t)
                \/ "refusal" \in MessageParts /\ RefusalDelta(o, p, t)
          \/ \E p \in Parts : TextDone(o, p) \/ RefusalDone(o, p) \/ ReasoningDone(o, p)
          \/ \E p \in Parts, done \in BOOLEAN : ContentPart(o, p, done) \/ ReasoningPart(o, p, done)
          \/ \E t \in Tokens : ToolDelta(o, t)
          \/ ToolDone(o) \/ ItemDone(o)
    \/ \E usage \in {"reported", "none"} :
          \/ \E incomplete \in BOOLEAN : ResponseTerminal(incomplete, usage)
          \/ ResponseUnfit(usage) \/ ResponseFailed(usage)
    \/ RefusedEvent \/ TransportLost \/ StreamEnds

GatewayStep ==
    \/ BeginAttempt \/ SendRequest \/ TimeoutStrikes \/ CancellationSeen
    \/ \E exposed \in {FALSE, Drafts} : Deliver(exposed)
    \/ DeferredError \/ RecordFailure \/ RecordCompletion \/ DecideRetry \/ BackoffEnds

Next == GatewayStep \/ OpenAnswered \/ WireEvent \/ CancelRequested \/ DeadlinePasses

Spec == Init /\ [][Next]_vars

(* The gateway's own steps are taken, its idle limits among them, and the    *)
(* deadline arrives: a provider that keeps sending events cannot outlast it. *)
FairSpec == Spec /\ WF_vars(GatewayStep) /\ WF_vars(DeadlinePasses)
-----------------------------------------------------------------------------
(* The variables hold values of their types, and invoke makes no more        *)
(* attempts than maximum_attempts_per_logical_invocation.                    *)
TypeOK ==
    /\ wire.started \in BOOLEAN /\ wire.terminal \in BOOLEAN
    /\ DOMAIN wire.item = Ordinals
    /\ att.phase \in {"next", "send", "opening", "reading", "trailing", "ending", "failed",
                      "completing", "backoff", "returned"}
    /\ att.error.certainty \in Certainties
    /\ No <= AttemptLimit
    /\ \A i \in DOMAIN rows :
           /\ rows[i].state \in TerminalRow \cup {"requesting", "streaming"}
           /\ rows[i].response.stop \in StopReasons \cup {"none"}
           /\ ItemKinds(rows[i].response.items) \subseteq OutputKinds
    /\ flag \in BOOLEAN /\ late \in BOOLEAN
    /\ outcome \in {"none", "completed", "failed", "interrupted", "infrastructure",
                    "cancelled_before_attempt", "deadline_before_attempt", "invalid_invocation"}

(* OpenAiStream never hands the gateway an event that the provider-neutral   *)
(* contract forbids at that point, whatever the provider sends, once the     *)
(* response has started.                                                     *)
AdapterKeepsContract ==
    (att.phase = "reading" /\ wire.pending # <<>> /\ wire.started)
    => Accepts(att.validator, Head(wire.pending))

(* The text a completed attempt recorded is the text its deltas gave: a live *)
(* client that followed a one-part answer saw exactly the durable answer,    *)
(* and an answer of several parts has nothing the client was not sent.       *)
AnswerWasStreamed ==
    \A i \in DOMAIN rows : \A j \in DOMAIN rows[i].response.items :
        LET item == rows[i].response.items[j]
            shown == rows[i].shown[item.o]
        IN (rows[i].state = "completed" /\ item.kind = "text") =>
              /\ Len(shown) = Len(FlattenSeq(item.parts))
              /\ Len(item.parts) = 1 => shown = item.parts[1]

(* The calls of a completed response, which the agent loop goes on to        *)
(* dispatch, are calls the request offered, each once, each with complete    *)
(* arguments and within the configured limit.                                *)
CallsAreWhole ==
    \A i \in DOMAIN rows :
        /\ DistinctCalls(rows[i].response.items)
        /\ \A j \in DOMAIN rows[i].response.items :
              LET item == rows[i].response.items[j] IN
              (rows[i].state = "completed" /\ item.kind = "tool_call") =>
                 /\ item.call \in AllowedCalls
                 /\ ValidArguments(item.parts[1])
                 /\ Len(item.parts[1]) <= ArgumentLimit

(* An attempt is followed by another only when the provider definitely did   *)
(* not take the request or definitely failed it, and nothing of its output   *)
(* reached the gateway or a live client.                                     *)
NoRetryAfterOutput ==
    \A i \in 1..(No - 1) :
        /\ rows[i].state = "failed"
        /\ rows[i].certainty \in {"definitely_not_sent", "definite_provider_failure"}
        /\ ~rows[i].semantic /\ ~rows[i].exposed

(* When invoke returns, every draft that a client saw belongs to a completed *)
(* attempt or was abandoned.                                                 *)
DraftsResolved ==
    outcome # "none" =>
        \A i \in DOMAIN rows : rows[i].exposed => rows[i].state = "completed" \/ rows[i].abandoned

(* When invoke returns, every attempt it began has a terminal row, for calls *)
(* whose work is not cancelled, whose connection is not lost after output    *)
(* and whose response has an output item: of the others the store refuses    *)
(* some rows (WorkRefusesFailure, FailureIsStorable, CompletionIsStorable).  *)
EveryAttemptRecorded ==
    outcome # "none" => \A i \in DOMAIN rows : rows[i].state \in TerminalRow

(* invoke returns, however the provider behaves: every wait has a limit.     *)
InvocationReturns == []<>(outcome # "none")
=============================================================================
