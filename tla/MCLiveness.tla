------------------------------ MODULE MCLiveness ------------------------------
(*****************************************************************************)
(* What must eventually happen outside the engine, in one run. Every         *)
(* behaviour is a behaviour of one instance, which `part` names:             *)
(*   "delivery"     a reply of two parts;                                    *)
(*   "gateway"      two command requests and a shutdown;                     *)
(*   "stream"       one work, four journal rows, two connections;            *)
(*   "execution"    one execution with a deadline;                           *)
(*   "prompt"       the same execution when no deadline ever comes;          *)
(*   "ingress"      two updates, two faults and a stop;                      *)
(*   "model"        one invocation of two attempts;                          *)
(*   "drafts"       two works and one client;                                *)
(*   "connections"  two upgrades and a shutdown.                             *)
(*****************************************************************************)
EXTENDS Integers, Sequences, FiniteSets

CONSTANTS m1, d1, k1, t1, c1, e1, n1, i1, i2, NoDevice, NoCommandRow, NoRuntime

VARIABLES
    part,  \* the component that moves in this behaviour
    deliveries, attempts, route, plans, worker, claiming, phase, runtime, adapter,
    wire, accepted, clock, faults, stepsBack, health, admission, restarts, devices,
    works, journal, commands, published, requests, owed, hinted, latched, conn,
    client, opened, admission_open, registry, lifecycle, permit, terminal, sup, os,
    late, shutdown_deadline, shutdown_cleanup_failed, manager, caller, canceller,
    stopper, owned, provider, sent, poller, cause, inbox, bound, account, cancels,
    acks, now, stops, att, rows, flag, outcome, accepting, drafts, subs, run,
    permits, request, stage, entries, cancelled, events, tasks, supervisor,
    stopping, failure, shutdown, waiter, wsShutdown, expired

\* The value of a variable that the component has not.
Off == "off"

Deliver == INSTANCE Delivery WITH
    Replies <- {m1}, MaxParts <- 2, MAX_ATTEMPTS <- 2, DeadlineSeconds <- 2,
    BackoffCap <- 2, MaxRetryAfter <- 1, MaxTime <- 2, LastPlanTime <- 0,
    MaxRuntimes <- 1, MaxFaults <- 0, MaxStepsBack <- 0
Gateway == INSTANCE CommandGateway WITH
    Devices <- {d1}, Keys <- {k1}, Texts <- {t1}, Conversations <- {c1},
    Primary <- c1, Targets <- {1}, Validity <- {TRUE}, Clock <- "distinct",
    MaxWorks <- 1, MaxRequests <- 2, MaxClock <- 3, MaxRestarts <- 1,
    MaxAttemptEvents <- 0, NoRow <- NoCommandRow
Stream == INSTANCE EventStream WITH
    MaxWork <- 1, Runtimes <- {}, MaxAttempts <- 0, MaxVersion <- 1,
    Reasons <- {"user_request"}, Origins <- {"native"}, Page <- 2,
    HintCapacity <- 1, MaxJournal <- 4, MaxConnections <- 2
Executes == INSTANCE Execution WITH
    Execs <- {e1}, Linux <- TRUE, Faults <- {}, MaxKids <- 1
Ingress == INSTANCE TelegramIngress WITH
    Shapes <- {"text", "control"}, StorageFaults <- {"begin"}, Devices <- FALSE,
    CanDisable <- TRUE, FirstId <- 4, BatchLimit <- 2, MaxUpdates <- 2,
    MaxClock <- 1, MaxFaults <- 2, MaxStops <- 1
Model == INSTANCE ModelStream WITH
    MessageParts <- {"output_text", "refusal"}, Tokens <- {"z"}, Closing <- "z",
    Calls <- {"c1", "c2"}, MaxItems <- 1, MaxLength <- 1, ItemLimit <- 1,
    ArgumentLimit <- 1, AttemptLimit <- 2, MaxParts <- 1, AllowedCalls <- {"c1"},
    Continuation <- FALSE, ItemTypes <- {"message"},
    FailureKinds <- {"rate_limited"}, Drafts <- TRUE, TransportLoss <- TRUE,
    EmptyIncomplete <- FALSE, Cancels <- TRUE, Deadlines <- TRUE, WorkBudget <- 4
Drafts == INSTANCE LiveDrafts WITH
    Conns <- {n1}, MaxWork <- 2, MaxAttempts <- 1, MaxOffers <- 2, MaxConnects <- 1,
    Sizes <- {1}, Kinds <- {"text"}, MaxQueue <- 2, MaxDraftEvents <- 3,
    MaxDraftText <- 3, MaxFrame <- 2
Connects == INSTANCE Connections WITH
    Ids <- {i1, i2}, Limit <- 2

\* The variables that are not of the component.
noDelivery == <<health, admission, restarts, devices, works, journal, commands,
                published, requests, owed, hinted, latched, conn, client, opened,
                admission_open, registry, lifecycle, permit, terminal, sup, os,
                late, shutdown_deadline, shutdown_cleanup_failed, manager, caller,
                canceller, stopper, owned, provider, sent, poller, cause, inbox,
                bound, account, cancels, acks, now, stops, att, rows, flag, outcome,
                accepting, drafts, subs, run, permits, request, stage, entries,
                cancelled, events, tasks, supervisor, stopping, failure, shutdown,
                waiter, wsShutdown, expired>>
noCommandGateway == <<deliveries, attempts, route, plans, worker, claiming, phase,
                      runtime, adapter, wire, accepted, faults, stepsBack, owed,
                      hinted, latched, conn, client, opened, admission_open,
                      registry, lifecycle, permit, terminal, sup, os, late,
                      shutdown_deadline, shutdown_cleanup_failed, manager, caller,
                      canceller, stopper, owned, provider, sent, poller, cause,
                      inbox, bound, account, cancels, acks, now, stops, att, rows,
                      flag, outcome, accepting, drafts, subs, run, permits, request,
                      stage, entries, cancelled, events, tasks, supervisor,
                      stopping, failure, shutdown, waiter, wsShutdown, expired>>
noEventStream == <<deliveries, attempts, route, plans, worker, claiming, phase,
                   runtime, adapter, wire, accepted, clock, faults, stepsBack,
                   health, admission, restarts, devices, commands, published,
                   requests, admission_open, registry, lifecycle, permit, terminal,
                   sup, os, late, shutdown_deadline, shutdown_cleanup_failed,
                   manager, caller, canceller, stopper, owned, provider, sent,
                   poller, cause, inbox, bound, account, cancels, acks, now, stops,
                   att, rows, flag, outcome, accepting, drafts, subs, run, permits,
                   request, stage, entries, cancelled, events, tasks, supervisor,
                   stopping, failure, shutdown, waiter, wsShutdown, expired>>
noExecution == <<deliveries, attempts, route, plans, worker, claiming, phase,
                 runtime, adapter, wire, accepted, clock, faults, stepsBack, health,
                 admission, restarts, devices, works, journal, commands, published,
                 requests, owed, hinted, latched, conn, client, opened, provider,
                 sent, poller, cause, inbox, bound, account, cancels, acks, now,
                 stops, att, rows, flag, outcome, accepting, drafts, subs, run,
                 permits, request, stage, entries, cancelled, events, tasks,
                 supervisor, stopping, failure, shutdown, waiter, wsShutdown,
                 expired>>
noTelegramIngress == <<deliveries, attempts, route, plans, worker, claiming, phase,
                       runtime, adapter, wire, accepted, clock, stepsBack, health,
                       admission, restarts, devices, journal, commands, published,
                       requests, owed, hinted, latched, conn, client, opened,
                       admission_open, registry, lifecycle, permit, terminal, sup,
                       os, late, shutdown_deadline, shutdown_cleanup_failed,
                       manager, caller, canceller, stopper, owned, att, rows, flag,
                       outcome, accepting, drafts, subs, run, permits, request,
                       stage, entries, cancelled, events, tasks, supervisor,
                       stopping, failure, shutdown, waiter, wsShutdown, expired>>
noModelStream == <<deliveries, attempts, route, plans, worker, claiming, phase,
                   runtime, adapter, accepted, clock, faults, stepsBack, health,
                   admission, restarts, devices, works, journal, commands,
                   published, requests, owed, hinted, latched, conn, client, opened,
                   admission_open, registry, lifecycle, permit, terminal, sup, os,
                   shutdown_deadline, shutdown_cleanup_failed, manager, caller,
                   canceller, stopper, owned, provider, sent, poller, cause, inbox,
                   bound, account, cancels, acks, now, stops, accepting, drafts,
                   subs, run, permits, request, stage, entries, cancelled, events,
                   tasks, supervisor, stopping, failure, shutdown, waiter,
                   wsShutdown, expired>>
noLiveDrafts == <<deliveries, attempts, route, plans, worker, claiming, phase,
                  runtime, adapter, wire, accepted, clock, faults, stepsBack,
                  health, admission, restarts, devices, works, commands, published,
                  requests, owed, hinted, latched, opened, admission_open, registry,
                  lifecycle, permit, terminal, sup, os, late, shutdown_deadline,
                  shutdown_cleanup_failed, manager, caller, canceller, stopper,
                  owned, provider, sent, poller, cause, inbox, bound, account,
                  cancels, acks, now, stops, att, rows, flag, outcome, permits,
                  request, stage, entries, cancelled, events, tasks, supervisor,
                  stopping, failure, shutdown, waiter, wsShutdown, expired>>
noConnections == <<deliveries, attempts, route, plans, worker, claiming, phase,
                   runtime, adapter, wire, accepted, clock, faults, stepsBack,
                   health, admission, restarts, devices, works, journal, commands,
                   published, requests, owed, hinted, latched, conn, client, opened,
                   admission_open, registry, lifecycle, permit, terminal, sup, os,
                   late, shutdown_deadline, shutdown_cleanup_failed, manager,
                   caller, canceller, stopper, owned, provider, sent, poller, cause,
                   inbox, bound, account, cancels, acks, now, stops, att, rows,
                   flag, outcome, drafts, subs, run>>
OnlyDelivery ==
    health = Off /\ admission = Off /\ restarts = Off /\ devices = Off
    /\ works = Off /\ journal = Off /\ commands = Off /\ published = Off
    /\ requests = Off /\ owed = Off /\ hinted = Off /\ latched = Off /\ conn = Off
    /\ client = Off /\ opened = Off /\ admission_open = Off /\ registry = Off
    /\ lifecycle = Off /\ permit = Off /\ terminal = Off /\ sup = Off /\ os = Off
    /\ late = Off /\ shutdown_deadline = Off /\ shutdown_cleanup_failed = Off
    /\ manager = Off /\ caller = Off /\ canceller = Off /\ stopper = Off
    /\ owned = Off /\ provider = Off /\ sent = Off /\ poller = Off /\ cause = Off
    /\ inbox = Off /\ bound = Off /\ account = Off /\ cancels = Off /\ acks = Off
    /\ now = Off /\ stops = Off /\ att = Off /\ rows = Off /\ flag = Off
    /\ outcome = Off /\ accepting = Off /\ drafts = Off /\ subs = Off /\ run = Off
    /\ permits = Off /\ request = Off /\ stage = Off /\ entries = Off
    /\ cancelled = Off /\ events = Off /\ tasks = Off /\ supervisor = Off
    /\ stopping = Off /\ failure = Off /\ shutdown = Off /\ waiter = Off
    /\ wsShutdown = Off /\ expired = Off
OnlyCommandGateway ==
    deliveries = Off /\ attempts = Off /\ route = Off /\ plans = Off /\ worker = Off
    /\ claiming = Off /\ phase = Off /\ runtime = Off /\ adapter = Off /\ wire = Off
    /\ accepted = Off /\ faults = Off /\ stepsBack = Off /\ owed = Off
    /\ hinted = Off /\ latched = Off /\ conn = Off /\ client = Off /\ opened = Off
    /\ admission_open = Off /\ registry = Off /\ lifecycle = Off /\ permit = Off
    /\ terminal = Off /\ sup = Off /\ os = Off /\ late = Off
    /\ shutdown_deadline = Off /\ shutdown_cleanup_failed = Off /\ manager = Off
    /\ caller = Off /\ canceller = Off /\ stopper = Off /\ owned = Off
    /\ provider = Off /\ sent = Off /\ poller = Off /\ cause = Off /\ inbox = Off
    /\ bound = Off /\ account = Off /\ cancels = Off /\ acks = Off /\ now = Off
    /\ stops = Off /\ att = Off /\ rows = Off /\ flag = Off /\ outcome = Off
    /\ accepting = Off /\ drafts = Off /\ subs = Off /\ run = Off /\ permits = Off
    /\ request = Off /\ stage = Off /\ entries = Off /\ cancelled = Off
    /\ events = Off /\ tasks = Off /\ supervisor = Off /\ stopping = Off
    /\ failure = Off /\ shutdown = Off /\ waiter = Off /\ wsShutdown = Off
    /\ expired = Off
OnlyEventStream ==
    deliveries = Off /\ attempts = Off /\ route = Off /\ plans = Off /\ worker = Off
    /\ claiming = Off /\ phase = Off /\ runtime = Off /\ adapter = Off /\ wire = Off
    /\ accepted = Off /\ clock = Off /\ faults = Off /\ stepsBack = Off
    /\ health = Off /\ admission = Off /\ restarts = Off /\ devices = Off
    /\ commands = Off /\ published = Off /\ requests = Off /\ admission_open = Off
    /\ registry = Off /\ lifecycle = Off /\ permit = Off /\ terminal = Off
    /\ sup = Off /\ os = Off /\ late = Off /\ shutdown_deadline = Off
    /\ shutdown_cleanup_failed = Off /\ manager = Off /\ caller = Off
    /\ canceller = Off /\ stopper = Off /\ owned = Off /\ provider = Off
    /\ sent = Off /\ poller = Off /\ cause = Off /\ inbox = Off /\ bound = Off
    /\ account = Off /\ cancels = Off /\ acks = Off /\ now = Off /\ stops = Off
    /\ att = Off /\ rows = Off /\ flag = Off /\ outcome = Off /\ accepting = Off
    /\ drafts = Off /\ subs = Off /\ run = Off /\ permits = Off /\ request = Off
    /\ stage = Off /\ entries = Off /\ cancelled = Off /\ events = Off
    /\ tasks = Off /\ supervisor = Off /\ stopping = Off /\ failure = Off
    /\ shutdown = Off /\ waiter = Off /\ wsShutdown = Off /\ expired = Off
OnlyExecution ==
    deliveries = Off /\ attempts = Off /\ route = Off /\ plans = Off /\ worker = Off
    /\ claiming = Off /\ phase = Off /\ runtime = Off /\ adapter = Off /\ wire = Off
    /\ accepted = Off /\ clock = Off /\ faults = Off /\ stepsBack = Off
    /\ health = Off /\ admission = Off /\ restarts = Off /\ devices = Off
    /\ works = Off /\ journal = Off /\ commands = Off /\ published = Off
    /\ requests = Off /\ owed = Off /\ hinted = Off /\ latched = Off /\ conn = Off
    /\ client = Off /\ opened = Off /\ provider = Off /\ sent = Off /\ poller = Off
    /\ cause = Off /\ inbox = Off /\ bound = Off /\ account = Off /\ cancels = Off
    /\ acks = Off /\ now = Off /\ stops = Off /\ att = Off /\ rows = Off
    /\ flag = Off /\ outcome = Off /\ accepting = Off /\ drafts = Off /\ subs = Off
    /\ run = Off /\ permits = Off /\ request = Off /\ stage = Off /\ entries = Off
    /\ cancelled = Off /\ events = Off /\ tasks = Off /\ supervisor = Off
    /\ stopping = Off /\ failure = Off /\ shutdown = Off /\ waiter = Off
    /\ wsShutdown = Off /\ expired = Off
OnlyTelegramIngress ==
    deliveries = Off /\ attempts = Off /\ route = Off /\ plans = Off /\ worker = Off
    /\ claiming = Off /\ phase = Off /\ runtime = Off /\ adapter = Off /\ wire = Off
    /\ accepted = Off /\ clock = Off /\ stepsBack = Off /\ health = Off
    /\ admission = Off /\ restarts = Off /\ devices = Off /\ journal = Off
    /\ commands = Off /\ published = Off /\ requests = Off /\ owed = Off
    /\ hinted = Off /\ latched = Off /\ conn = Off /\ client = Off /\ opened = Off
    /\ admission_open = Off /\ registry = Off /\ lifecycle = Off /\ permit = Off
    /\ terminal = Off /\ sup = Off /\ os = Off /\ late = Off
    /\ shutdown_deadline = Off /\ shutdown_cleanup_failed = Off /\ manager = Off
    /\ caller = Off /\ canceller = Off /\ stopper = Off /\ owned = Off /\ att = Off
    /\ rows = Off /\ flag = Off /\ outcome = Off /\ accepting = Off /\ drafts = Off
    /\ subs = Off /\ run = Off /\ permits = Off /\ request = Off /\ stage = Off
    /\ entries = Off /\ cancelled = Off /\ events = Off /\ tasks = Off
    /\ supervisor = Off /\ stopping = Off /\ failure = Off /\ shutdown = Off
    /\ waiter = Off /\ wsShutdown = Off /\ expired = Off
OnlyModelStream ==
    deliveries = Off /\ attempts = Off /\ route = Off /\ plans = Off /\ worker = Off
    /\ claiming = Off /\ phase = Off /\ runtime = Off /\ adapter = Off
    /\ accepted = Off /\ clock = Off /\ faults = Off /\ stepsBack = Off
    /\ health = Off /\ admission = Off /\ restarts = Off /\ devices = Off
    /\ works = Off /\ journal = Off /\ commands = Off /\ published = Off
    /\ requests = Off /\ owed = Off /\ hinted = Off /\ latched = Off /\ conn = Off
    /\ client = Off /\ opened = Off /\ admission_open = Off /\ registry = Off
    /\ lifecycle = Off /\ permit = Off /\ terminal = Off /\ sup = Off /\ os = Off
    /\ shutdown_deadline = Off /\ shutdown_cleanup_failed = Off /\ manager = Off
    /\ caller = Off /\ canceller = Off /\ stopper = Off /\ owned = Off
    /\ provider = Off /\ sent = Off /\ poller = Off /\ cause = Off /\ inbox = Off
    /\ bound = Off /\ account = Off /\ cancels = Off /\ acks = Off /\ now = Off
    /\ stops = Off /\ accepting = Off /\ drafts = Off /\ subs = Off /\ run = Off
    /\ permits = Off /\ request = Off /\ stage = Off /\ entries = Off
    /\ cancelled = Off /\ events = Off /\ tasks = Off /\ supervisor = Off
    /\ stopping = Off /\ failure = Off /\ shutdown = Off /\ waiter = Off
    /\ wsShutdown = Off /\ expired = Off
OnlyLiveDrafts ==
    deliveries = Off /\ attempts = Off /\ route = Off /\ plans = Off /\ worker = Off
    /\ claiming = Off /\ phase = Off /\ runtime = Off /\ adapter = Off /\ wire = Off
    /\ accepted = Off /\ clock = Off /\ faults = Off /\ stepsBack = Off
    /\ health = Off /\ admission = Off /\ restarts = Off /\ devices = Off
    /\ works = Off /\ commands = Off /\ published = Off /\ requests = Off
    /\ owed = Off /\ hinted = Off /\ latched = Off /\ opened = Off
    /\ admission_open = Off /\ registry = Off /\ lifecycle = Off /\ permit = Off
    /\ terminal = Off /\ sup = Off /\ os = Off /\ late = Off
    /\ shutdown_deadline = Off /\ shutdown_cleanup_failed = Off /\ manager = Off
    /\ caller = Off /\ canceller = Off /\ stopper = Off /\ owned = Off
    /\ provider = Off /\ sent = Off /\ poller = Off /\ cause = Off /\ inbox = Off
    /\ bound = Off /\ account = Off /\ cancels = Off /\ acks = Off /\ now = Off
    /\ stops = Off /\ att = Off /\ rows = Off /\ flag = Off /\ outcome = Off
    /\ permits = Off /\ request = Off /\ stage = Off /\ entries = Off
    /\ cancelled = Off /\ events = Off /\ tasks = Off /\ supervisor = Off
    /\ stopping = Off /\ failure = Off /\ shutdown = Off /\ waiter = Off
    /\ wsShutdown = Off /\ expired = Off
OnlyConnections ==
    deliveries = Off /\ attempts = Off /\ route = Off /\ plans = Off /\ worker = Off
    /\ claiming = Off /\ phase = Off /\ runtime = Off /\ adapter = Off /\ wire = Off
    /\ accepted = Off /\ clock = Off /\ faults = Off /\ stepsBack = Off
    /\ health = Off /\ admission = Off /\ restarts = Off /\ devices = Off
    /\ works = Off /\ journal = Off /\ commands = Off /\ published = Off
    /\ requests = Off /\ owed = Off /\ hinted = Off /\ latched = Off /\ conn = Off
    /\ client = Off /\ opened = Off /\ admission_open = Off /\ registry = Off
    /\ lifecycle = Off /\ permit = Off /\ terminal = Off /\ sup = Off /\ os = Off
    /\ late = Off /\ shutdown_deadline = Off /\ shutdown_cleanup_failed = Off
    /\ manager = Off /\ caller = Off /\ canceller = Off /\ stopper = Off
    /\ owned = Off /\ provider = Off /\ sent = Off /\ poller = Off /\ cause = Off
    /\ inbox = Off /\ bound = Off /\ account = Off /\ cancels = Off /\ acks = Off
    /\ now = Off /\ stops = Off /\ att = Off /\ rows = Off /\ flag = Off
    /\ outcome = Off /\ drafts = Off /\ subs = Off /\ run = Off

vars == <<part, deliveries, attempts, route, plans, worker, claiming, phase,
          runtime, adapter, wire, accepted, clock, faults, stepsBack, health,
          admission, restarts, devices, works, journal, commands, published,
          requests, owed, hinted, latched, conn, client, opened, admission_open,
          registry, lifecycle, permit, terminal, sup, os, late, shutdown_deadline,
          shutdown_cleanup_failed, manager, caller, canceller, stopper, owned,
          provider, sent, poller, cause, inbox, bound, account, cancels, acks, now,
          stops, att, rows, flag, outcome, accepting, drafts, subs, run, permits,
          request, stage, entries, cancelled, events, tasks, supervisor, stopping,
          failure, shutdown, waiter, wsShutdown, expired>>

Init ==
    \/ part = "delivery" /\ Deliver!Init /\ OnlyDelivery
    \/ part = "gateway" /\ Gateway!Init /\ OnlyCommandGateway
    \/ part = "stream" /\ Stream!Init /\ OnlyEventStream
    \/ part \in {"execution", "prompt"} /\ Executes!Init /\ OnlyExecution
    \/ part = "ingress" /\ Ingress!Init /\ OnlyTelegramIngress
    \/ part = "model" /\ Model!Init /\ OnlyModelStream
    \/ part = "drafts" /\ Drafts!Init /\ OnlyLiveDrafts
    \/ part = "connections" /\ Connects!Init /\ OnlyConnections

Next ==
    \/ part = "delivery" /\ Deliver!Next /\ UNCHANGED <<part, noDelivery>>
    \/ part = "gateway" /\ Gateway!Next /\ UNCHANGED <<part, noCommandGateway>>
    \/ part = "stream" /\ Stream!Next /\ UNCHANGED <<part, noEventStream>>
    \/ part \in {"execution", "prompt"} /\ Executes!Next /\ UNCHANGED <<part, noExecution>>
    \/ part = "ingress" /\ Ingress!Next /\ UNCHANGED <<part, noTelegramIngress>>
    \/ part = "model" /\ Model!Next /\ UNCHANGED <<part, noModelStream>>
    \/ part = "drafts" /\ Drafts!Next /\ UNCHANGED <<part, noLiveDrafts>>
    \/ part = "connections" /\ Connects!Next /\ UNCHANGED <<part, noConnections>>

Spec == Init /\ [][Next]_vars

(* The fairness of each component, as its module states it.                  *)
OfDeliver(A) == part = "delivery" /\ A /\ UNCHANGED <<part, noDelivery>>
FairDeliver ==
    /\ WF_vars(OfDeliver(Deliver!Working))
    /\ WF_vars(OfDeliver(Deliver!Process /\ (phase = "up" => worker.pc = "failed")))
    /\ WF_vars(OfDeliver(Deliver!Tick))

OfGateway(A) == part = "gateway" /\ A /\ UNCHANGED <<part, noCommandGateway>>
FairGateway ==
    /\ WF_vars(OfGateway(Gateway!RequestRuns(1)))
    /\ WF_vars(OfGateway(Gateway!RequestRuns(2)))
    /\ WF_vars(OfGateway(Gateway!Quiesce))

OfStream(A) == part = "stream" /\ A /\ UNCHANGED <<part, noEventStream>>
FairStream ==
    /\ WF_vars(OfStream(Stream!ConnectionSteps))
    /\ WF_vars(OfStream(latched /\ Stream!ConnectionEnds))
    /\ WF_vars(OfStream(Stream!Bootstrap))
    /\ WF_vars(OfStream(Stream!EventsRequest))

OfExecutes(A) == part \in {"execution", "prompt"} /\ A /\ UNCHANGED <<part, noExecution>>
FairExecutes ==
    /\ WF_vars(OfExecutes(Executes!ClaimSpawn(e1) \/ Executes!Spawn(e1) \/ Executes!BeginTermination(e1)))
    /\ WF_vars(OfExecutes(Executes!SeeExit(e1) \/ Executes!TakePermit(e1)))
    /\ WF_vars(OfExecutes(Executes!PollTree(e1)))
    /\ WF_vars(OfExecutes(Executes!KillTree(e1)))
    /\ WF_vars(OfExecutes(Executes!LeaveTree(e1)))
    /\ WF_vars(OfExecutes(Executes!FinishCgroup(e1) \/ Executes!ReapLeader(e1)))
    /\ WF_vars(OfExecutes(Executes!FinishSupervisor(e1)))
    /\ WF_vars(OfExecutes(Executes!JoinSupervisor(e1) \/ Executes!Remove(e1)))
    /\ WF_vars(OfExecutes(Executes!SendLaunch(e1)))
    /\ WF_vars(OfExecutes(Executes!CallerAnswered(e1)))
    /\ WF_vars(OfExecutes(Executes!CancelCheck(e1) \/ Executes!CancelLatch(e1) \/ Executes!CancelAnswer(e1)))
    /\ WF_vars(OfExecutes(Executes!CloseAdmission \/ Executes!TakeManager \/ Executes!ManagerStops))

OfTime(A) == part = "execution" /\ A /\ UNCHANGED <<part, noExecution>>
FairTime ==
    /\ WF_vars(OfTime(Executes!RequestExpires(e1)))
    /\ WF_vars(OfTime(late[e1] /\ Executes!BudgetEnds(e1)))

OfIngress(A) == part = "ingress" /\ A /\ UNCHANGED <<part, noTelegramIngress>>
FairIngress ==
    /\ WF_vars(OfIngress(Ingress!Restart))
    /\ WF_vars(OfIngress(Ingress!IdentityVerified))
    /\ WF_vars(OfIngress(Ingress!Probe))
    /\ WF_vars(OfIngress(Ingress!PollAnswered))
    /\ WF_vars(OfIngress(Ingress!StopSeen))
    /\ WF_vars(OfIngress(Ingress!Normalize))
    /\ WF_vars(OfIngress(Ingress!Classify))
    /\ WF_vars(OfIngress(Ingress!ClassifyRefused))
    /\ WF_vars(OfIngress(Ingress!FailedProcessStops))

OfModel(A) == part = "model" /\ A /\ UNCHANGED <<part, noModelStream>>
FairModel ==
    /\ WF_vars(OfModel(Model!GatewayStep))
    /\ WF_vars(OfModel(Model!DeadlinePasses))

OfDrafts(A) == part = "drafts" /\ A /\ UNCHANGED <<part, noLiveDrafts>>
FairDrafts ==
    /\ WF_vars(OfDrafts(Drafts!AttemptEnds \/ Drafts!CommitAnswer))
    /\ WF_vars(OfDrafts(Drafts!NextAttempt \/ Drafts!WorkEnds))
    /\ WF_vars(OfDrafts(Drafts!Finalize))
    /\ WF_vars(OfDrafts(Drafts!SendDurable(n1)))
    /\ WF_vars(OfDrafts(Drafts!SyncComplete(n1)))
    /\ WF_vars(OfDrafts(Drafts!subscribe(n1)))
    /\ WF_vars(OfDrafts(Drafts!recv(n1)))
    /\ WF_vars(OfDrafts(Drafts!recv_ends(n1)))

OfConnects(A) == part = "connections" /\ A /\ UNCHANGED <<part, noConnections>>
FairConnects ==
    /\ WF_vars(OfConnects(Connects!HandlerStep(i1)))
    /\ WF_vars(OfConnects(Connects!CallbackStep(i1)))
    /\ WF_vars(OfConnects(wsShutdown /\ Connects!TaskEnds(i1)))
    /\ WF_vars(OfConnects(Connects!HandlerStep(i2)))
    /\ WF_vars(OfConnects(Connects!CallbackStep(i2)))
    /\ WF_vars(OfConnects(wsShutdown /\ Connects!TaskEnds(i2)))
    /\ WF_vars(OfConnects(Connects!SupervisorStep))
    /\ WF_vars(OfConnects(Connects!ShutdownStep))

FairSpec ==
    /\ Spec
    /\ FairDeliver
    /\ FairGateway
    /\ FairStream
    /\ FairExecutes
    /\ FairTime
    /\ FairIngress
    /\ FairModel
    /\ FairDrafts
    /\ FairConnects

-------------------------------------------------------------------------------
(* While the service stays up, every committed part ends accepted, failed or *)
(* unknown: retries, waits for earlier parts and the delivery deadline never *)
(* leave one waiting for ever.                                               *)
PartsSettle == []<>(part = "delivery" /\ phase = "up" => Deliver!AllSettled)

(* Every update is classified in the end, unless the account is disabled,    *)
(* whatever faults, stops and restarts come between (run_poller).            *)
EveryUpdateClassified == []<>(part = "ingress" => Ingress!AllClassified)

(* Every call returns: an execution's caller gets its result even if no      *)
(* signal kills anything; a latched cause ends the watch without any timer,  *)
(* since the permit of cause_changed cannot be lost; and invoke returns      *)
(* however the provider behaves.                                             *)
CallsReturn ==
    /\ []<>(part = "execution" => caller[e1] # "waiting")
    /\ []<>(part = "prompt" => ~(sup[e1].pc = "watch" /\ lifecycle[e1].cause # "none"))
    /\ []<>(part = "model" => outcome # "none")

(* A public event reaches a live client, hinted or not, and every draft a    *)
(* client shows is gone after a while.                                       *)
ClientsServed ==
    /\ []<>(part = "stream" => ~Stream!Behind)
    /\ []<>(part = "drafts" => Drafts!NothingShown)

(* Every shutdown gets to its end without its deadline: the closing of       *)
(* command admission, the drain of the event stream, shutdown_before of the  *)
(* executions and the connection supervisor.                                 *)
ShutdownsReturn ==
    /\ []<>(part = "gateway" => admission # "closing")
    /\ []<>(part = "stream" => (latched => conn.pc = "none"))
    /\ []<>(part = "execution" => stopper \in {"idle", "ok", "failed"})
    /\ []<>(part = "connections" => shutdown \in {"serving", "stopped"})
===============================================================================
