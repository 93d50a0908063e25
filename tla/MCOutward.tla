------------------------------- MODULE MCOutward ------------------------------
(*****************************************************************************)
(* What the service tells its clients: the delivery of replies over          *)
(* Telegram, the event stream, the live drafts on it and the WebSocket       *)
(* connections below both, in one run. Every behaviour is a behaviour of one *)
(* instance, which `part` names:                                             *)
(*   "parts"        a reply of two parts, two dispatches each, two           *)
(*                  processes, with time for one retry;                      *)
(*   "late"         a reply of two parts that can outlive its deadline;      *)
(*   "clock"        a reply of one part, with a store fault and a clock that *)
(*                  steps back;                                              *)
(*   "stream"       one work, five journal rows, two connections;            *)
(*   "drafts"       two works, two pieces each, and a client that connects   *)
(*                  twice;                                                   *)
(*   "fanout"       one work of two pieces and two clients;                  *)
(*   "pressure"     one work of two attempts, four pieces each, against the  *)
(*                  limits of queue, draft and frame;                        *)
(*   "connections"  three upgrades under a limit of two.                     *)
(*****************************************************************************)
EXTENDS Integers, Sequences, TLC

CONSTANTS m1, d1, d2, d3, i1, i2, i3, NoRuntime

VARIABLES
    part,  \* the component that moves in this behaviour
    deliveries, attempts, route, plans, worker, claiming, phase, runtime, adapter,
    wire, accepted, clock, faults, stepsBack, works, journal, owed, hinted, latched,
    conn, client, opened, accepting, drafts, subs, run, permits, request, stage,
    entries, cancelled, events, tasks, supervisor, stopping, failure, shutdown,
    waiter, wsShutdown, expired

\* The value of a variable that the component has not.
Off == "off"

TwoClients == {d1, d2}
ThreeUpgrades == {i1, i2, i3}

Symmetry == Permutations(TwoClients) \cup Permutations(ThreeUpgrades)

Parts == INSTANCE Delivery WITH
    Replies <- {m1}, MaxParts <- 2, MAX_ATTEMPTS <- 2, DeadlineSeconds <- 2,
    BackoffCap <- 1, MaxRetryAfter <- 1, MaxTime <- 1, LastPlanTime <- 0,
    MaxRuntimes <- 2, MaxFaults <- 0, MaxStepsBack <- 0
Late == INSTANCE Delivery WITH
    Replies <- {m1}, MaxParts <- 2, MAX_ATTEMPTS <- 2, DeadlineSeconds <- 1,
    BackoffCap <- 1, MaxRetryAfter <- 1, MaxTime <- 1, LastPlanTime <- 0,
    MaxRuntimes <- 1, MaxFaults <- 0, MaxStepsBack <- 0
Clock == INSTANCE Delivery WITH
    Replies <- {m1}, MaxParts <- 1, MAX_ATTEMPTS <- 2, DeadlineSeconds <- 1,
    BackoffCap <- 1, MaxRetryAfter <- 1, MaxTime <- 1, LastPlanTime <- 0,
    MaxRuntimes <- 2, MaxFaults <- 1, MaxStepsBack <- 1
Stream == INSTANCE EventStream WITH
    MaxWork <- 1, Runtimes <- {}, MaxAttempts <- 0, MaxVersion <- 1,
    Reasons <- {"completion", "user_request", "cleanup_unconfirmed"},
    Origins <- {"native"}, Page <- 2, HintCapacity <- 1, MaxJournal <- 5,
    MaxConnections <- 2
Drafts == INSTANCE LiveDrafts WITH
    Conns <- {d3}, MaxWork <- 2, MaxAttempts <- 1, MaxOffers <- 2,
    MaxConnects <- 2, Sizes <- {1}, Kinds <- {"text"}, MaxQueue <- 1,
    MaxDraftEvents <- 3, MaxDraftText <- 3, MaxFrame <- 2
Fanout == INSTANCE LiveDrafts WITH
    Conns <- TwoClients, MaxWork <- 1, MaxAttempts <- 1, MaxOffers <- 2,
    MaxConnects <- 1, Sizes <- {1}, Kinds <- {"text"}, MaxQueue <- 1,
    MaxDraftEvents <- 3, MaxDraftText <- 3, MaxFrame <- 2
Pressure == INSTANCE LiveDrafts WITH
    Conns <- {d3}, MaxWork <- 1, MaxAttempts <- 2, MaxOffers <- 4, MaxConnects <- 1,
    Sizes <- {1, 3}, Kinds <- {"text", "refusal"}, MaxQueue <- 3,
    MaxDraftEvents <- 3, MaxDraftText <- 3, MaxFrame <- 2
Connects == INSTANCE Connections WITH
    Ids <- ThreeUpgrades, Limit <- 2

ASSUME BoundsOK == Stream!StreamConstants /\ Drafts!LimitsAssumption /\ Fanout!LimitsAssumption
                    /\ Pressure!LimitsAssumption

\* The variables that are not of the component.
noDelivery == <<works, journal, owed, hinted, latched, conn, client, opened,
                accepting, drafts, subs, run, permits, request, stage, entries,
                cancelled, events, tasks, supervisor, stopping, failure, shutdown,
                waiter, wsShutdown, expired>>
noEventStream == <<deliveries, attempts, route, plans, worker, claiming, phase,
                   runtime, adapter, wire, accepted, clock, faults, stepsBack,
                   accepting, drafts, subs, run, permits, request, stage, entries,
                   cancelled, events, tasks, supervisor, stopping, failure,
                   shutdown, waiter, wsShutdown, expired>>
noLiveDrafts == <<deliveries, attempts, route, plans, worker, claiming, phase,
                  runtime, adapter, wire, accepted, clock, faults, stepsBack, works,
                  owed, hinted, latched, opened, permits, request, stage, entries,
                  cancelled, events, tasks, supervisor, stopping, failure, shutdown,
                  waiter, wsShutdown, expired>>
noConnections == <<deliveries, attempts, route, plans, worker, claiming, phase,
                   runtime, adapter, wire, accepted, clock, faults, stepsBack,
                   works, journal, owed, hinted, latched, conn, client, opened,
                   drafts, subs, run>>
OnlyDelivery ==
    works = Off /\ journal = Off /\ owed = Off /\ hinted = Off /\ latched = Off
    /\ conn = Off /\ client = Off /\ opened = Off /\ accepting = Off /\ drafts = Off
    /\ subs = Off /\ run = Off /\ permits = Off /\ request = Off /\ stage = Off
    /\ entries = Off /\ cancelled = Off /\ events = Off /\ tasks = Off
    /\ supervisor = Off /\ stopping = Off /\ failure = Off /\ shutdown = Off
    /\ waiter = Off /\ wsShutdown = Off /\ expired = Off
OnlyEventStream ==
    deliveries = Off /\ attempts = Off /\ route = Off /\ plans = Off /\ worker = Off
    /\ claiming = Off /\ phase = Off /\ runtime = Off /\ adapter = Off /\ wire = Off
    /\ accepted = Off /\ clock = Off /\ faults = Off /\ stepsBack = Off
    /\ accepting = Off /\ drafts = Off /\ subs = Off /\ run = Off /\ permits = Off
    /\ request = Off /\ stage = Off /\ entries = Off /\ cancelled = Off
    /\ events = Off /\ tasks = Off /\ supervisor = Off /\ stopping = Off
    /\ failure = Off /\ shutdown = Off /\ waiter = Off /\ wsShutdown = Off
    /\ expired = Off
OnlyLiveDrafts ==
    deliveries = Off /\ attempts = Off /\ route = Off /\ plans = Off /\ worker = Off
    /\ claiming = Off /\ phase = Off /\ runtime = Off /\ adapter = Off /\ wire = Off
    /\ accepted = Off /\ clock = Off /\ faults = Off /\ stepsBack = Off
    /\ works = Off /\ owed = Off /\ hinted = Off /\ latched = Off /\ opened = Off
    /\ permits = Off /\ request = Off /\ stage = Off /\ entries = Off
    /\ cancelled = Off /\ events = Off /\ tasks = Off /\ supervisor = Off
    /\ stopping = Off /\ failure = Off /\ shutdown = Off /\ waiter = Off
    /\ wsShutdown = Off /\ expired = Off
OnlyConnections ==
    deliveries = Off /\ attempts = Off /\ route = Off /\ plans = Off /\ worker = Off
    /\ claiming = Off /\ phase = Off /\ runtime = Off /\ adapter = Off /\ wire = Off
    /\ accepted = Off /\ clock = Off /\ faults = Off /\ stepsBack = Off
    /\ works = Off /\ journal = Off /\ owed = Off /\ hinted = Off /\ latched = Off
    /\ conn = Off /\ client = Off /\ opened = Off /\ drafts = Off /\ subs = Off
    /\ run = Off

vars == <<part, deliveries, attempts, route, plans, worker, claiming, phase,
          runtime, adapter, wire, accepted, clock, faults, stepsBack, works,
          journal, owed, hinted, latched, conn, client, opened, accepting, drafts,
          subs, run, permits, request, stage, entries, cancelled, events, tasks,
          supervisor, stopping, failure, shutdown, waiter, wsShutdown, expired>>

Init ==
    \/ part = "parts" /\ Parts!Init /\ OnlyDelivery
    \/ part = "late" /\ Late!Init /\ OnlyDelivery
    \/ part = "clock" /\ Clock!Init /\ OnlyDelivery
    \/ part = "stream" /\ Stream!Init /\ OnlyEventStream
    \/ part = "drafts" /\ Drafts!Init /\ OnlyLiveDrafts
    \/ part = "fanout" /\ Fanout!Init /\ OnlyLiveDrafts
    \/ part = "pressure" /\ Pressure!Init /\ OnlyLiveDrafts
    \/ part = "connections" /\ Connects!Init /\ OnlyConnections

Next ==
    \/ part = "parts" /\ Parts!Next /\ UNCHANGED <<part, noDelivery>>
    \/ part = "late" /\ Late!Next /\ UNCHANGED <<part, noDelivery>>
    \/ part = "clock" /\ Clock!Next /\ UNCHANGED <<part, noDelivery>>
    \/ part = "stream" /\ Stream!Next /\ UNCHANGED <<part, noEventStream>>
    \/ part = "drafts" /\ Drafts!Next /\ UNCHANGED <<part, noLiveDrafts>>
    \/ part = "fanout" /\ Fanout!Next /\ UNCHANGED <<part, noLiveDrafts>>
    \/ part = "pressure" /\ Pressure!Next /\ UNCHANGED <<part, noLiveDrafts>>
    \/ part = "connections" /\ Connects!Next /\ UNCHANGED <<part, noConnections>>

Spec == Init /\ [][Next]_vars

-------------------------------------------------------------------------------
(* The requests the provider took are of distinct parts, in order within a   *)
(* reply, and what the delivery rows record of a part is true of the         *)
(* channel, over crashes, timeouts and late answers; and once quiesce was    *)
(* observed no part is claimed any more.                                     *)
ImplementsReplyChannel ==
    /\ part = "parts" => Parts!Channel!ChannelInit
    /\ part = "late" => Late!Channel!ChannelInit
    /\ [][(part = "parts") => Parts!ChannelStep /\ Parts!NoClaimWhileStopping]_vars
    /\ [][(part = "late") => Late!ChannelStep /\ Late!NoClaimWhileStopping]_vars

(* The delivery rows: verify_delivery_consistency accepts, at the next       *)
(* startup, every state the worker, the shutdown and a clock that steps back *)
(* can leave; a worker with a result to persist still owns the open attempt  *)
(* of its part; and a dispatch is left open only by a worker that is at it,  *)
(* by one that failed, or by a process that ended.                           *)
DeliverySafe ==
    /\ part = "parts" => Parts!TypeOK /\ Parts!StartupAccepts
    /\ part = "late" => Late!TypeOK /\ Late!StartupAccepts
    /\ part = "clock" =>
          /\ Clock!TypeOK
          /\ Clock!StartupAccepts
          /\ Clock!ResultsHaveOwner
          /\ Clock!OpenDispatchExplained

(* The client's cursor follows the journal without gap, repeat or disorder,  *)
(* through any replay, handoff, lost connection and new snapshot.            *)
ImplementsFeed ==
    /\ part = "stream" => Stream!Feed!Init
    /\ [][(part = "stream") => Stream!FeedStep]_vars

(* What a client shows: the view of a work is what that work was at the      *)
(* client's cursor, whatever mixture of snapshots and events built it; no    *)
(* announced cursor is missed by an idle connection; no event of native      *)
(* clients is refused by the reducer; a draft is neither opened after the    *)
(* end of its work was sent nor shown when nothing will end it; and its text *)
(* is pieces of the attempt in the provider's order, none of them twice.     *)
ClientsSeeTruth ==
    /\ part = "stream" =>
          /\ Stream!TypeOK
          /\ Stream!HintsCoverGap
          /\ Stream!ViewIsTrue
          /\ Stream!NeverRefused
    /\ part = "drafts" =>
          /\ Drafts!TypeOK
          /\ Drafts!NoDraftAfterTheEnd
          /\ Drafts!NoOrphanDraft
    /\ part = "fanout" =>
          /\ Fanout!TypeOK
          /\ Fanout!NoDraftAfterTheEnd
          /\ Fanout!NoOrphanDraft
    /\ part = "pressure" =>
          /\ Pressure!TypeOK
          /\ Pressure!NoOrphanDraft
          /\ Pressure!TextInOrder

(* The registry of connections: every permit is free or held by exactly one  *)
(* of handler, upgrade, channel and task; the supervisor is never told what  *)
(* the registry contradicts; and every entry has somebody who removes it.    *)
ConnectionsSafe ==
    part = "connections" =>
        /\ Connects!TypeOK
        /\ Connects!PermitsConserved
        /\ Connects!NeverSurprised
        /\ Connects!EntriesAccounted
===============================================================================
