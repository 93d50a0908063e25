-------------------------------- MODULE MCModel -------------------------------
(*****************************************************************************)
(* One model call: the context that is assembled for it, the provider's      *)
(* stream that answers it and the attempts the gateway makes, in one run.    *)
(* Every behaviour is a behaviour of one instance, which `part` names:       *)
(*   "items"         one attempt, two output items of every type, messages   *)
(*                   of text;                                                *)
(*   "answer"        one attempt, one message of two parts, two different    *)
(*                   tokens;                                                 *)
(*   "retry"         three attempts with failures of each treatment,         *)
(*                   cancellation, deadline and lost responses;              *)
(*   "recorded"      two attempts, text or refusal, with every failure but a *)
(*                   lost response or an empty incomplete one;               *)
(*   "history"       two conversations, three works, calls of tools;         *)
(*   "limits"        one conversation against the window, with lost          *)
(*                   artifacts;                                              *)
(*   "rebuild"       one conversation under changing capabilities;           *)
(*   "continuation"  one conversation of a provider that carries its         *)
(*                   reasoning on.                                           *)
(*****************************************************************************)
EXTENDS Integers, Sequences, TLC

CONSTANTS v1, v2, v3

VARIABLES
    part,  \* the component that moves in this behaviour
    wire, att, rows, flag, late, outcome, works, evidence, lost, manifests,
    capabilities, active

\* The value of a variable that the component has not.
Off == "off"

TextAndRefusal == {"output_text", "refusal"}
EveryItem == {"message", "reasoning", "function_call"}
OneFailure == {"rate_limited"}
SomeFailures ==
    {"rate_limited", "invalid_request", "transport_before_response",
     "transport_after_possible_processing"}
EveryFailure ==
    {"invalid_request", "authentication", "authorization", "unknown_model",
     "timeout_before_output", "output_too_large", "rate_limited",
     "temporarily_unavailable", "internal_provider_error", "context_error",
     "transport_before_response", "transport_after_possible_processing"}

TwoConversations == {v1, v2}
Symmetry == Permutations(TwoConversations)

\* The answers a model may give.
Item(kind) == [kind |-> kind, call |-> "none"]
Call(c) == [kind |-> "tool_call", call |-> c]
Responds(stop, items) == [stop |-> stop, items |-> items]

TextAnswer == Responds("completed", <<Item("text")>>)
TwoCalls == Responds("tool_continuation", <<Item("text"), Call("a"), Call("b")>>)
OneCall == Responds("tool_continuation", <<Call("a")>>)
ReasonedCall == Responds("tool_continuation",
                         <<Item("provider_opaque"), Item("reasoning_summary"), Call("a")>>)
ReasonedAnswer == Responds("completed", <<Item("provider_opaque"), Item("text")>>)
Refusal == Responds("refusal", <<Item("refusal")>>)
Cut == Responds("incomplete", <<Item("text")>>)

PlainResponses == {TextAnswer, TwoCalls, Refusal, Cut}
CallResponses == {TextAnswer, TwoCalls}
SizedResponses == {TextAnswer, OneCall}
ReasonedResponses == {ReasonedCall, ReasonedAnswer, Cut}

Items == INSTANCE ModelStream WITH
    MessageParts <- {"output_text"}, Tokens <- {"z"}, Closing <- "z",
    Calls <- {"c1", "c2"}, MaxItems <- 2, MaxLength <- 1, ItemLimit <- 2,
    ArgumentLimit <- 1, AttemptLimit <- 1, MaxParts <- 1, AllowedCalls <- {"c1"},
    Continuation <- FALSE, ItemTypes <- EveryItem, FailureKinds <- OneFailure,
    Drafts <- FALSE, TransportLoss <- FALSE, EmptyIncomplete <- FALSE,
    Cancels <- FALSE, Deadlines <- FALSE, WorkBudget <- 4
Answer == INSTANCE ModelStream WITH
    MessageParts <- {"output_text"}, Tokens <- {"a", "z"}, Closing <- "z",
    Calls <- {"c1", "c2"}, MaxItems <- 1, MaxLength <- 1, ItemLimit <- 1,
    ArgumentLimit <- 1, AttemptLimit <- 1, MaxParts <- 2, AllowedCalls <- {"c1"},
    Continuation <- FALSE, ItemTypes <- {"message"}, FailureKinds <- OneFailure,
    Drafts <- FALSE, TransportLoss <- FALSE, EmptyIncomplete <- FALSE,
    Cancels <- FALSE, Deadlines <- FALSE, WorkBudget <- 4
Retry == INSTANCE ModelStream WITH
    MessageParts <- TextAndRefusal, Tokens <- {"z"}, Closing <- "z",
    Calls <- {"c1", "c2"}, MaxItems <- 1, MaxLength <- 1, ItemLimit <- 1,
    ArgumentLimit <- 1, AttemptLimit <- 3, MaxParts <- 1, AllowedCalls <- {"c1"},
    Continuation <- FALSE, ItemTypes <- {"message"}, FailureKinds <- SomeFailures,
    Drafts <- TRUE, TransportLoss <- TRUE, EmptyIncomplete <- TRUE, Cancels <- TRUE,
    Deadlines <- TRUE, WorkBudget <- 4
Recorded == INSTANCE ModelStream WITH
    MessageParts <- TextAndRefusal, Tokens <- {"z"}, Closing <- "z",
    Calls <- {"c1", "c2"}, MaxItems <- 1, MaxLength <- 1, ItemLimit <- 1,
    ArgumentLimit <- 1, AttemptLimit <- 2, MaxParts <- 1, AllowedCalls <- {"c1"},
    Continuation <- FALSE, ItemTypes <- EveryItem, FailureKinds <- EveryFailure,
    Drafts <- TRUE, TransportLoss <- FALSE, EmptyIncomplete <- FALSE,
    Cancels <- FALSE, Deadlines <- TRUE, WorkBudget <- 4
History == INSTANCE ContextAssembly WITH
    Conversations <- TwoConversations, Responses <- CallResponses,
    AttemptEnds <- {},
    ToolEnds <- {"completed", "outcome_unknown", "interrupted_before_dispatch"},
    Stops <- {"interrupted"}, ResultSizes <- {1}, ComponentLimit <- 4,
    OpaqueSize <- 2, Window <- 40, Continuation <- FALSE, CanLose <- FALSE,
    MaxWorks <- 3, MaxWaiting <- 1, MaxSteps <- 2, MaxAttempts <- 1,
    MaxCapabilities <- 1
Limits == INSTANCE ContextAssembly WITH
    Conversations <- {v3}, Responses <- SizedResponses,
    AttemptEnds <- {"failed", "cancelled_locally"}, ToolEnds <- {"completed"},
    Stops <- {"failed"}, ResultSizes <- {1, 3}, ComponentLimit <- 4,
    OpaqueSize <- 2, Window <- 8, Continuation <- FALSE, CanLose <- TRUE,
    MaxWorks <- 3, MaxWaiting <- 2, MaxSteps <- 3, MaxAttempts <- 1,
    MaxCapabilities <- 1
Rebuild == INSTANCE ContextAssembly WITH
    Conversations <- {v3}, Responses <- PlainResponses,
    AttemptEnds <- {"provider_outcome_unknown"},
    ToolEnds <- {"completed", "outcome_unknown"}, Stops <- {"failed"},
    ResultSizes <- {2}, ComponentLimit <- 4, OpaqueSize <- 2, Window <- 40,
    Continuation <- FALSE, CanLose <- TRUE, MaxWorks <- 2, MaxWaiting <- 1,
    MaxSteps <- 2, MaxAttempts <- 1, MaxCapabilities <- 2
Carried == INSTANCE ContextAssembly WITH
    Conversations <- {v3}, Responses <- ReasonedResponses,
    AttemptEnds <- {"failed"}, ToolEnds <- {"completed", "outcome_unknown"},
    Stops <- {"interrupted"}, ResultSizes <- {1}, ComponentLimit <- 4,
    OpaqueSize <- 2, Window <- 40, Continuation <- TRUE, CanLose <- FALSE,
    MaxWorks <- 2, MaxWaiting <- 1, MaxSteps <- 3, MaxAttempts <- 2,
    MaxCapabilities <- 1

ASSUME BoundsOK ==
    Items!LimitsValid /\ Answer!LimitsValid /\ Retry!LimitsValid /\ Recorded!LimitsValid

\* The variables that are not of the component.
noModelStream == <<works, evidence, lost, manifests, capabilities, active>>
noContextAssembly == <<wire, att, rows, flag, late, outcome>>
OnlyModelStream ==
    works = Off /\ evidence = Off /\ lost = Off /\ manifests = Off
    /\ capabilities = Off /\ active = Off
OnlyContextAssembly ==
    wire = Off /\ att = Off /\ rows = Off /\ flag = Off /\ late = Off
    /\ outcome = Off

vars == <<part, wire, att, rows, flag, late, outcome, works, evidence, lost,
          manifests, capabilities, active>>

Init ==
    \/ part = "items" /\ Items!Init /\ OnlyModelStream
    \/ part = "answer" /\ Answer!Init /\ OnlyModelStream
    \/ part = "retry" /\ Retry!Init /\ OnlyModelStream
    \/ part = "recorded" /\ Recorded!Init /\ OnlyModelStream
    \/ part = "history" /\ History!Init /\ OnlyContextAssembly
    \/ part = "limits" /\ Limits!Init /\ OnlyContextAssembly
    \/ part = "rebuild" /\ Rebuild!Init /\ OnlyContextAssembly
    \/ part = "continuation" /\ Carried!Init /\ OnlyContextAssembly

Next ==
    \/ part = "items" /\ Items!Next /\ UNCHANGED <<part, noModelStream>>
    \/ part = "answer" /\ Answer!Next /\ UNCHANGED <<part, noModelStream>>
    \/ part = "retry" /\ Retry!Next /\ UNCHANGED <<part, noModelStream>>
    \/ part = "recorded" /\ Recorded!Next /\ UNCHANGED <<part, noModelStream>>
    \/ part = "history" /\ History!Next /\ UNCHANGED <<part, noContextAssembly>>
    \/ part = "limits" /\ Limits!Next /\ UNCHANGED <<part, noContextAssembly>>
    \/ part = "rebuild" /\ Rebuild!Next /\ UNCHANGED <<part, noContextAssembly>>
    \/ part = "continuation" /\ Carried!Next /\ UNCHANGED <<part, noContextAssembly>>

Spec == Init /\ [][Next]_vars

-------------------------------------------------------------------------------
(* The stream of one attempt: OpenAiStream never hands the gateway an event  *)
(* its contract forbids once the response has started, whatever the provider *)
(* sends; the calls of a completed response are calls the request offered,   *)
(* each once and whole; and the text it records is the text its deltas gave. *)
StreamRecorded ==
    /\ part = "items" => Items!TypeOK /\ Items!AdapterKeepsContract /\ Items!CallsAreWhole
    /\ part = "answer" => Answer!TypeOK /\ Answer!AnswerWasStreamed
    /\ part = "recorded" => Recorded!AdapterKeepsContract

(* The attempts of one invocation: another one follows only when the         *)
(* provider definitely did not take or definitely failed the request and     *)
(* nothing of its output was seen; when invoke returns, every draft shown    *)
(* belongs to a completed attempt or was abandoned, and every attempt has a  *)
(* terminal row, as long as no response is cut off or comes back empty.      *)
AttemptsSound ==
    /\ part = "retry" => Retry!TypeOK /\ Retry!NoRetryAfterOutput /\ Retry!DraftsResolved
    /\ part = "recorded" => Recorded!TypeOK /\ Recorded!EveryAttemptRecorded

(* assemble_snapshot: a manifest tells the causal history of its work, with  *)
(* every tool execution once and behind the call it answers; the history of  *)
(* a conversation only grows; a work is refused for another reason than its  *)
(* size only when an artifact vanished, and a conversation that no longer    *)
(* fits stays refused; a continuation is offered only for the newest output. *)
CausalHistory ==
    /\ part = "history" =>
          /\ History!TypeOK
          /\ History!CausalHistory
          /\ History!HistoryIsAppendOnly
    /\ part = "limits" => Limits!TypeOK /\ Limits!HistoryAssembles /\ Limits!OverflowIsFinal
    /\ part = "continuation" => Carried!TypeOK /\ Carried!ContinuationIsFresh

===============================================================================
