---------------------------- MODULE ModelContract ----------------------------
(***************************************************************************)
(* The provider-neutral contract between a model provider and the gateway: *)
(* the canonical stream events and the order they may come in, what a      *)
(* completed response may consist of, which failed attempts may be tried   *)
(* again, and the terminal rows the store accepts for an attempt.          *)
(*                                                                         *)
(* Text and tool arguments are sequences of tokens; a call stands for its  *)
(* id and tool name.                                                       *)
(***************************************************************************)
EXTENDS Integers, Sequences, FiniteSets

CONSTANTS
    Tokens,       \* pieces of text
    Closing,      \* the token that makes tool arguments complete JSON
    Calls,        \* tool calls a provider may name
    MaxItems,     \* MAX_MODEL_OUTPUT_ITEMS
    MaxLength,    \* MAX_MODEL_COMPONENT_BYTES and MAX_MODEL_TOOL_ARGUMENT_BYTES
    ItemLimit,    \* ModelGatewayLimits::maximum_ordered_output_items_per_response
    ArgumentLimit, \* ModelGatewayLimits::maximum_raw_tool_argument_bytes
    AttemptLimit  \* attempts per logical invocation, at most MAX_PROVIDER_ATTEMPTS

LimitsValid ==
    /\ MaxItems \in Nat \ {0} /\ ItemLimit \in 1..MaxItems
    /\ MaxLength \in Nat \ {0} /\ ArgumentLimit \in 1..MaxLength
    /\ AttemptLimit \in 1..3

NoCall == "no_call"
Ordinals == 0..(MaxItems - 1)
Texts == UNION {[1..n -> Tokens] : n \in 1..MaxLength}

-----------------------------------------------------------------------------
(* Output items and responses.                                              *)
OutputKinds == {"text", "tool_call", "refusal", "reasoning_summary", "provider_opaque"}
StopReasons == {"completed", "tool_continuation", "refusal", "incomplete_provider_limit"}

OutputItem(kind, o, call, parts) == [kind |-> kind, o |-> o, call |-> call, parts |-> parts]

NoResponse == [items |-> <<>>, stop |-> "none", usage |-> "none"]

ItemKinds(items) == {items[i].kind : i \in DOMAIN items}

(* require_valid_arguments: the raw arguments parse as JSON.                 *)
ValidArguments(args) == args # <<>> /\ args[Len(args)] = Closing

(* ModelResponse::try_new: the stop reason fits what the items say.          *)
StopIsConsistent(stop, kinds) ==
    CASE stop = "completed"         -> "text" \in kinds /\ kinds \cap {"tool_call", "refusal"} = {}
      [] stop = "tool_continuation" -> "tool_call" \in kinds /\ "refusal" \notin kinds
      [] stop = "refusal"           -> "refusal" \in kinds /\ kinds \cap {"text", "tool_call"} = {}
      [] stop = "incomplete_provider_limit" -> kinds \cap {"tool_call", "refusal"} = {}

DistinctCalls(items) ==
    \A i, j \in DOMAIN items :
        (items[i].kind = "tool_call" /\ items[j].kind = "tool_call" /\ items[i].call = items[j].call)
        => i = j

ResponseIsValid(items, stop) ==
    /\ Len(items) <= MaxItems
    /\ DistinctCalls(items)
    /\ StopIsConsistent(stop, ItemKinds(items))

-----------------------------------------------------------------------------
(* Canonical stream events.                                                  *)
Event(type, o, call, delta) == [type |-> type, o |-> o, call |-> call, delta |-> delta, r |-> NoResponse]
Plain(type) == Event(type, 0, NoCall, <<>>)
CompletedEvent(response) == [Plain("completed") EXCEPT !.r = response]

ItemEvents ==
    {"text_delta", "reasoning_delta", "tool_call_started", "tool_argument_delta",
     "tool_call_completed", "refusal_delta", "refusal_completed"}
SemanticEvents == ItemEvents \cup {"unknown_provider_event"}

(* ModelStreamValidator.                                                     *)
NoActive == [o |-> -1, args |-> <<>>]
NewValidator ==
    [started |-> FALSE, usage |-> "none", terminal |-> FALSE,
     active |-> [c \in Calls |-> NoActive], seen |-> {}]

ToolEventFits(v, e) ==
    CASE e.type = "tool_call_started"   -> e.call \notin v.seen
      [] e.type = "tool_argument_delta" ->
           /\ v.active[e.call].o = e.o
           /\ Len(v.active[e.call].args) + Len(e.delta) <= MaxLength
      [] e.type = "tool_call_completed" ->
           v.active[e.call].o = e.o /\ v.active[e.call].args = e.delta
      [] OTHER -> TRUE

CompletionFits(v, e) ==
    /\ \A c \in Calls : v.active[c] = NoActive
    /\ v.usage = IF e.r.usage = "none" THEN "unavailable" ELSE e.r.usage
    /\ \A i \in DOMAIN e.r.items :
           e.r.items[i].kind = "tool_call" => ValidArguments(e.r.items[i].parts[1])

(* ModelStreamValidator::observe.                                            *)
Accepts(v, e) ==
    /\ ~v.terminal
    /\ v.started = (e.type # "response_started")
    /\ v.usage # "none" => e.type = "completed"
    /\ e.type \in ItemEvents => e.o < MaxItems
    /\ ToolEventFits(v, e)
    /\ e.type = "completed" => CompletionFits(v, e)

Observed(v, e) ==
    CASE e.type = "response_started"    -> [v EXCEPT !.started = TRUE]
      [] e.type = "tool_call_started"   ->
           [v EXCEPT !.seen = @ \cup {e.call}, !.active[e.call] = [o |-> e.o, args |-> <<>>]]
      [] e.type = "tool_argument_delta" -> [v EXCEPT !.active[e.call].args = @ \o e.delta]
      [] e.type = "tool_call_completed" -> [v EXCEPT !.active[e.call] = NoActive]
      [] e.type = "usage"               -> [v EXCEPT !.usage = "reported"]
      [] e.type = "usage_unavailable"   -> [v EXCEPT !.usage = "unavailable"]
      [] e.type = "completed"           -> [v EXCEPT !.terminal = TRUE]
      [] OTHER                          -> v

-----------------------------------------------------------------------------
(* Provider errors.                                                          *)
Certainties ==
    {"definitely_not_sent", "definite_provider_failure", "definitely_completed",
     "semantic_output_observed", "provider_outcome_unknown"}

ProviderError(kind, certainty) == [kind |-> kind, certainty |-> certainty]
NoError == ProviderError("none", "definitely_completed")

TransientKinds ==
    {"rate_limited", "temporarily_unavailable", "transport_before_response", "timeout_before_output"}

TransientBeforeOutput(error) ==
    /\ error.kind \in TransientKinds
    /\ error.certainty \in {"definitely_not_sent", "definite_provider_failure"}

(* Output that was seen is forgotten when the failure is a transient one.    *)
EagerClassifyProviderRetry(error, semantic, attempt, cancelled, late) ==
    IF cancelled \/ error.kind = "cancelled" THEN "cancelled"
    ELSE IF late THEN "deadline_exhausted"
    ELSE IF attempt >= 3 THEN "attempt_cap_reached"
    ELSE IF error.kind \in TransientKinds THEN "classified_transient_before_output"
    ELSE "nonretryable_category"

ClassifyProviderRetry(error, semantic, attempt, cancelled, late) ==
    IF cancelled \/ error.kind = "cancelled" THEN "cancelled"
    ELSE IF late THEN "deadline_exhausted"
    ELSE IF semantic \/ error.certainty = "semantic_output_observed" THEN "semantic_output_observed"
    ELSE IF \/ error.certainty = "provider_outcome_unknown"
            \/ error.kind \in {"provider_outcome_unknown", "transport_after_possible_processing"}
    THEN "provider_outcome_ambiguous"
    ELSE IF attempt >= 3 THEN "attempt_cap_reached"
    ELSE IF TransientBeforeOutput(error) THEN "classified_transient_before_output"
    ELSE "nonretryable_category"

(* provider_backoff: the sampled delay may not fit before the deadline.      *)
ProviderBackoff(cancelled, late) ==
    IF cancelled THEN {"cancelled"}
    ELSE IF late THEN {"deadline_insufficient"}
    ELSE {"delay", "deadline_insufficient"}

-----------------------------------------------------------------------------
(* finish_failed_attempt: the row an error is recorded as.                   *)

Ambiguous(error) ==
    \/ error.certainty = "provider_outcome_unknown"
    \/ error.kind \in {"transport_after_possible_processing", "provider_outcome_unknown"}

TerminalState(error) ==
    IF Ambiguous(error) THEN "provider_outcome_unknown"
    ELSE IF error.kind = "cancelled" /\ error.certainty = "definitely_not_sent"
    THEN "cancelled_locally"
    ELSE "failed"

RecordedCertainty(error, semantic) ==
    IF TerminalState(error) = "failed" /\ semantic THEN "semantic_output_observed"
    ELSE error.certainty

RecordedKind(error) == IF Ambiguous(error) THEN "provider_outcome_unknown" ELSE error.kind

(* validate_model_terminal: the evidence the store asks of a terminal row.   *)
FailureIsStorable(error, semantic) ==
    LET state == TerminalState(error)
        certainty == RecordedCertainty(error, semantic)
    IN
    CASE state = "failed" ->
           certainty \in {"definitely_not_sent", "definite_provider_failure",
                          "semantic_output_observed"}
      [] state = "cancelled_locally" ->
           RecordedKind(error) = "cancelled"
           /\ certainty \in {"definitely_not_sent", "provider_outcome_unknown"}
      [] state = "provider_outcome_unknown" ->
           /\ RecordedKind(error) \in {"transport_after_possible_processing", "cancelled",
                                       "timeout_after_output", "provider_outcome_unknown"}
           /\ certainty = "provider_outcome_unknown"

CompletionIsStorable(firstByte, firstOutput) == firstByte /\ firstOutput
=============================================================================
