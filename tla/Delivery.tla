------------------------------ MODULE Delivery ------------------------------
(***************************************************************************)
(* Outbound delivery: the durable queue of reply parts                     *)
(* (adapters/sqlite/delivery.rs), the planner that fills it, the one worker *)
(* that empties it (application/delivery_worker.rs), the Telegram adapter's *)
(* classification of an answer, and the part of startup and shutdown that   *)
(* settles what a worker left open.                                         *)
(*                                                                          *)
(* A transaction of the store is one step (one write coordinator, BEGIN     *)
(* IMMEDIATE).  Time is the wall clock the code reads, in seconds; it may   *)
(* step back.  updated_at, accepted_at and terminal_at are one field: the   *)
(* code sets the last two to the first, in the same statement.              *)
(***************************************************************************)
EXTENDS Integers, Sequences

CONSTANTS
    Replies,            \* assistant messages and control acknowledgements
    MaxParts,           \* bound on the parts of one reply
    MAX_ATTEMPTS,       \* dispatches of one part (8 in the code)
    DeadlineSeconds,    \* DELIVERY_DEADLINE_SECONDS
    BackoffCap,         \* DELIVERY_BACKOFF_CAP
    MaxRetryAfter,      \* bound on the delay a provider asks for
    MaxTime,            \* bound on the wall clock
    LastPlanTime,       \* bound on the time replies are committed
    MaxRuntimes,        \* bound on the number of process starts
    MaxFaults,          \* bound on the number of store faults
    MaxStepsBack        \* bound on the number of times the clock steps back

VARIABLES
    deliveries,     \* rows of outbound_deliveries
    attempts,       \* rows of outbound_delivery_attempts, in attempt order
    route,          \* lifecycle of the binding and of the channel account
    plans,          \* deliveries planned in memory and not yet committed
    worker,         \* the delivery worker task and what it holds
    claiming,       \* the flag behind stop_claiming
    phase,          \* startup and shutdown of the process
    runtime,        \* current RuntimeInstanceId
    adapter,        \* the channel is configured: profile and adapter exist
    wire,           \* requests the provider may still take
    accepted,       \* what the provider took, in order
    clock,          \* wall clock
    faults,         \* store faults so far
    stepsBack       \* clock steps back so far

storeVars == <<deliveries, attempts>>
channelSide == <<wire, accepted>>
budget == <<faults, stepsBack>>
vars == <<deliveries, attempts, route, plans, worker, claiming, phase, runtime,
          adapter, wire, accepted, clock, faults, stepsBack>>

NoTime == -1
Runtimes == 1..MaxRuntimes
Times == 0..MaxTime
Ids == Replies \X (1..MaxParts)

States == {"absent", "queued", "dispatching", "retry_wait", "accepted",
           "permanent_failure", "outcome_unknown"}
Waiting == {"queued", "retry_wait"}
PlanningFailures == {"profile_unavailable", "payload_too_large"}
UnknownClasses == {"provider_outcome_unknown", "stale_dispatch", "shutdown_interrupted"}
Failures == PlanningFailures \cup UnknownClasses \cup
            {"none", "adapter_unavailable", "binding_revoked", "channel_account_disabled",
             "prior_part_permanent_failure", "prior_part_outcome_unknown",
             "retry_exhausted", "delivery_deadline_exceeded", "provider_retryable",
             "provider_permanent"}

Absent == [state |-> "absent", count |-> 0, attempts |-> 0, owner |-> 0, next |-> NoTime,
           failure |-> "none", created |-> 0, updated |-> 0]
NoPlan == [count |-> 0, failure |-> "none", routeFailure |-> "none"]
Idle == [pc |-> "off", now |-> 0, claim |-> "none", id |-> <<>>, number |-> 0,
         result |-> "none", failure |-> "none", retryAfter |-> NoTime]

Max2(a, b) == IF a > b THEN a ELSE b
Min2(a, b) == IF a < b THEN a ELSE b

----------------------------------------------------------------------------
(* The planner.                                                             *)

\* The failure an inactive route gives, the binding before the account.
route_failure(rt) ==
    IF ~rt.binding THEN "binding_revoked"
    ELSE IF ~rt.account THEN "channel_account_disabled" ELSE "none"

expected_deadline(created) == created + DeadlineSeconds

\* What plan_rendered may make of a text: n parts, or one part that carries all of
\* it and the reason planning failed.
plan_rendered(n, f) ==
    /\ f \in (IF adapter THEN {"none", "payload_too_large"} ELSE {"profile_unavailable"})
    /\ f # "none" => n = 1

\* load_delivery_route and plan_assistant_delivery: the route is read in its own
\* transaction, before the one that commits the reply.
PlanReply(r, n, f) ==
    /\ phase \notin {"down", "boot"}
    /\ plans[r] = NoPlan
    /\ deliveries[<<r, 1>>].state = "absent"
    /\ clock <= LastPlanTime
    /\ plan_rendered(n, f)
    /\ plans' = [plans EXCEPT ![r] = [count |-> n, failure |-> f,
                                      routeFailure |-> route_failure(route)]]
    /\ UNCHANGED <<storeVars, route, worker, claiming, phase, runtime, adapter, channelSide,
                   clock, budget>>

\* insert_delivery for each part; failure[k] is why part k is never sent.
insert_delivery(r, n, failure) ==
    [d \in Ids |->
        IF d[1] # r \/ d[2] > n THEN deliveries[d]
        ELSE [Absent EXCEPT
                !.state = IF failure[d[2]] = "none" THEN "queued" ELSE "permanent_failure",
                !.count = n,
                !.next = IF failure[d[2]] = "none" THEN clock ELSE NoTime,
                !.failure = failure[d[2]],
                !.created = clock, !.updated = clock]]

\* The deliveries of commit_assistant_completion: the route is read again, and an
\* inactive one fails the first part and blocks the others whatever was planned.
CommitReply(r) ==
    LET p == plans[r]
        rf == route_failure(route)
        failure == [k \in 1..p.count |-> IF rf = "none" THEN p.failure
                                         ELSE IF k = 1 THEN rf
                                         ELSE "prior_part_permanent_failure"]
        refused == rf = "none" /\ p.routeFailure # "none"
    IN /\ p # NoPlan
       /\ clock <= LastPlanTime
       /\ plans' = [plans EXCEPT ![r] = NoPlan]
       /\ deliveries' = IF refused THEN deliveries ELSE insert_delivery(r, p.count, failure)
       /\ UNCHANGED <<attempts, route, worker, claiming, phase, runtime, adapter, channelSide,
                      clock, budget>>

\* classify_control inserts its one-part acknowledgement in the ingress
\* transaction, which has just authorized the route.
CommitControl(r) ==
    /\ phase \notin {"down", "boot"}
    /\ route.binding /\ route.account
    /\ plans[r] = NoPlan
    /\ deliveries[<<r, 1>>].state = "absent"
    /\ clock <= LastPlanTime
    /\ deliveries' = insert_delivery(r, 1, <<IF adapter THEN "none" ELSE "profile_unavailable">>)
    /\ UNCHANGED <<attempts, route, plans, worker, claiming, phase, runtime, adapter,
                   channelSide, clock, budget>>

----------------------------------------------------------------------------
(* The store's operations on the queue.                                     *)

\* Mutant: later parts are left waiting.
FaultyCascade(rows, d, f, now) == rows

\* cascade_later: a part that ends without acceptance ends the waiting parts
\* after it.
cascade_later(rows, d, f, now) ==
    [e \in Ids |->
        IF e[1] = d[1] /\ e[2] > d[2] /\ rows[e].state \in Waiting
        THEN [rows[e] EXCEPT !.state = "permanent_failure", !.next = NoTime, !.owner = 0,
                             !.failure = f, !.updated = now]
        ELSE rows[e]]

mark_permanent_before_dispatch(rows, d, f, now) ==
    cascade_later([rows EXCEPT ![d].state = "permanent_failure", ![d].next = NoTime,
                               ![d].failure = f, ![d].updated = now],
                  d, "prior_part_permanent_failure", now)

\* The selection of claim: waiting, due, and every earlier part accepted; the
\* earliest next_attempt_at, then the earliest created_at.
PriorsAccepted(d) ==
    \A p \in Ids : p[1] = d[1] /\ p[2] < d[2] /\ deliveries[p].state # "absent"
                       => deliveries[p].state = "accepted"

Due(now) == {d \in Ids : /\ deliveries[d].state \in Waiting
                         /\ deliveries[d].next <= now
                         /\ PriorsAccepted(d)}

Precedes(d, e) == \/ deliveries[d].next < deliveries[e].next
                  \/ /\ deliveries[d].next = deliveries[e].next
                     /\ deliveries[d].created < deliveries[e].created

First(S) == {d \in S : \A e \in S : ~Precedes(e, d)}

OpenAttempts(d) == {i \in 1..Len(attempts[d]) : attempts[d][i].completed = NoTime}

\* The attempt rows agree with the row's counter.
CountsAgree(d) == Len(attempts[d]) = deliveries[d].attempts

predispatch_failure(d, now) ==
    IF ~route.binding THEN "binding_revoked"
    ELSE IF ~route.account THEN "channel_account_disabled"
    ELSE IF now >= expected_deadline(deliveries[d].created) THEN "delivery_deadline_exceeded"
    ELSE IF deliveries[d].attempts >= MAX_ATTEMPTS THEN "retry_exhausted" ELSE "none"

NewAttempt(d, now) == [runtime |-> runtime, prior |-> deliveries[d].state, started |-> now,
                       completed |-> NoTime, result |-> "none", failure |-> "none",
                       delay |-> NoTime, scheduled |-> NoTime]

\* backoff: full jitter under a doubling, capped ceiling, never under a second.
backoff(n) == {Max2(j, 1) : j \in 0..Min2(2 ^ (n - 1), BackoffCap)}

\* retry_timing: the longer of the local and the provider's delay.
retry_timing(local, provider) == Max2(Max2(local, 1), provider)

\* The row persist_result writes for a retryable failure.
RetryRow(row, completed, delay) ==
    LET next == completed + delay
    IN IF row.attempts >= MAX_ATTEMPTS
       THEN [row EXCEPT !.state = "permanent_failure", !.failure = "retry_exhausted"]
       ELSE IF next >= expected_deadline(row.created)
            THEN [row EXCEPT !.state = "permanent_failure",
                             !.failure = "delivery_deadline_exceeded"]
            ELSE [row EXCEPT !.state = "retry_wait", !.next = next]

\* The row persist_result writes, before later parts are touched.
ResultRow(row, result, failure, completed, delay) ==
    LET closed == [row EXCEPT !.owner = 0, !.updated = completed]
    IN CASE result = "accepted" -> [closed EXCEPT !.state = "accepted"]
         [] result = "retryable_failure" -> RetryRow(closed, completed, delay)
         [] result = "permanent_failure" -> [closed EXCEPT !.state = "permanent_failure",
                                                           !.failure = failure]
         [] result = "outcome_unknown" -> [closed EXCEPT !.state = "outcome_unknown",
                                                         !.failure = failure]

\* The deliveries persist_result leaves: a part given up blocks the parts after it.
ResultRows(d, row, completed) ==
    LET rows == [deliveries EXCEPT ![d] = row]
    IN CASE row.state = "permanent_failure" ->
              cascade_later(rows, d, "prior_part_permanent_failure", completed)
         [] row.state = "outcome_unknown" ->
              cascade_later(rows, d, "prior_part_outcome_unknown", completed)
         [] OTHER -> rows

ClosedAttempt(a, result, failure, completed, delay, scheduled) ==
    [a EXCEPT !.completed = completed, !.result = result, !.failure = failure,
              !.delay = delay, !.scheduled = scheduled]

\* The failure classes persist_result takes with a result.
ValidResult(result, failure) ==
    /\ result = "retryable_failure" => failure = "provider_retryable"
    /\ result = "permanent_failure" => failure \notin UnknownClasses \cup {"provider_retryable"}
    /\ result = "outcome_unknown" => failure = "provider_outcome_unknown"

\* What persist_result and recover_matching require of the open attempt: the row
\* and the attempt belong to the caller's runtime, and the table's CHECK refuses
\* a completion before its start.
OwnedAttempt(d, rt, n) ==
    /\ deliveries[d].state = "dispatching"
    /\ deliveries[d].owner = rt
    /\ deliveries[d].attempts = n
    /\ CountsAgree(d)
    /\ attempts[d][n].runtime = rt
    /\ attempts[d][n].completed = NoTime

Dispatching(rts) == {d \in Ids : deliveries[d].state = "dispatching"
                                 /\ deliveries[d].owner \in rts}

ChecksHold(S, at) == \A d \in S : attempts[d][deliveries[d].attempts].started <= at

\* Mutant: recovery forgets the parts after an interrupted one.
FaultyRecovered(S, at, f) ==
    [e \in Ids |->
        IF e \in S
        THEN [deliveries[e] EXCEPT !.state = "outcome_unknown", !.owner = 0, !.failure = f,
                                   !.updated = at]
        ELSE deliveries[e]]

\* recover_matching: every open dispatch of the given runtimes becomes unknown,
\* with its attempt, and blocks the parts after it.
recovered_deliveries(S, at, f) ==
    [e \in Ids |->
        IF e \in S
        THEN [deliveries[e] EXCEPT !.state = "outcome_unknown", !.owner = 0, !.failure = f,
                                   !.updated = at]
        ELSE IF \E d \in S : d[1] = e[1] /\ d[2] < e[2] /\ deliveries[e].state \in Waiting
             THEN [deliveries[e] EXCEPT !.state = "permanent_failure", !.next = NoTime,
                                        !.owner = 0, !.updated = at,
                                        !.failure = "prior_part_outcome_unknown"]
             ELSE deliveries[e]]

recovered_attempts(S, at, f) ==
    [e \in Ids |->
        IF e \in S
        THEN [attempts[e] EXCEPT ![deliveries[e].attempts] =
                 ClosedAttempt(@, "outcome_unknown", f, at, NoTime, NoTime)]
        ELSE attempts[e]]

recover_matching(rts, at, f) ==
    /\ ChecksHold(Dispatching(rts), at)
    /\ deliveries' = recovered_deliveries(Dispatching(rts), at, f)
    /\ attempts' = recovered_attempts(Dispatching(rts), at, f)

----------------------------------------------------------------------------
(* The worker's loop.                                                       *)

workerOnly == <<route, plans, claiming, phase, runtime, adapter, clock, stepsBack>>

\* stop_claiming_and_wait waits for this section.
GateHeld == worker.pc \in {"claim", "recheck"}

\* The top of the loop: take the gate, read the flag, read the clock.
TakeGate ==
    /\ worker.pc = "gate"
    /\ worker' = IF claiming THEN [Idle EXCEPT !.pc = "claim", !.now = clock]
                 ELSE [Idle EXCEPT !.pc = "exit"]
    /\ UNCHANGED <<storeVars, workerOnly, channelSide, faults>>

ClaimNothing ==
    /\ Due(worker.now) = {}
    /\ worker' = [worker EXCEPT !.pc = "recheck", !.claim = "none_due"]
    /\ UNCHANGED storeVars

ClaimAdvances(d) ==
    /\ predispatch_failure(d, worker.now) # "none"
    /\ deliveries' = mark_permanent_before_dispatch(deliveries, d,
                         predispatch_failure(d, worker.now), worker.now)
    /\ worker' = [worker EXCEPT !.pc = "recheck", !.claim = "state_advanced"]
    /\ UNCHANGED attempts

ClaimDispatches(d) ==
    /\ predispatch_failure(d, worker.now) = "none"
    /\ deliveries' = [deliveries EXCEPT
          ![d] = [@ EXCEPT !.state = "dispatching", !.attempts = @ + 1, !.owner = runtime,
                           !.next = NoTime, !.updated = worker.now]]
    /\ attempts' = [attempts EXCEPT ![d] = Append(@, NewAttempt(d, worker.now))]
    /\ worker' = [worker EXCEPT !.pc = "recheck", !.claim = "dispatch", !.id = d,
                                !.number = deliveries[d].attempts + 1]

\* claim_next_delivery; attempt rows that disagree with the counter end the worker.
Claim ==
    /\ worker.pc = "claim"
    /\ \/ ClaimNothing
       \/ \E d \in First(Due(worker.now)) :
             IF CountsAgree(d) /\ OpenAttempts(d) = {}
             THEN ClaimAdvances(d) \/ ClaimDispatches(d)
             ELSE worker' = [worker EXCEPT !.pc = "failed"] /\ UNCHANGED storeVars
    /\ UNCHANGED <<workerOnly, channelSide, faults>>

\* The second look at the flag, still inside the gate: a claim that raced with
\* stop_claiming is undone by classifying it as interrupted.
Recheck ==
    /\ worker.pc = "recheck"
    /\ IF claiming
       THEN /\ worker' = CASE worker.claim = "state_advanced" -> [Idle EXCEPT !.pc = "gate"]
                           [] worker.claim = "none_due" -> [Idle EXCEPT !.pc = "sleep"]
                           [] worker.claim = "dispatch" -> [worker EXCEPT !.pc = "send"]
            /\ UNCHANGED storeVars
       ELSE /\ worker' = [Idle EXCEPT !.pc = "exit"]
            /\ IF worker.claim = "dispatch"
               THEN recover_matching({runtime}, worker.now, "shutdown_interrupted")
               ELSE UNCHANGED storeVars
    /\ UNCHANGED <<workerOnly, channelSide, faults>>

\* A notification or DELIVERY_FALLBACK_SCAN.
Wake ==
    /\ worker.pc = "sleep"
    /\ worker' = [Idle EXCEPT !.pc = "gate"]
    /\ UNCHANGED <<storeVars, workerOnly, channelSide, faults>>

Resolved(result, failure, retryAfter) ==
    worker' = [worker EXCEPT !.pc = "persist", !.result = result, !.failure = failure,
                             !.retryAfter = retryAfter]

\* No adapter, or the adapter's own checks refuse the dispatch: nothing is sent.
RefuseLocally ==
    /\ worker.pc = "send"
    /\ \/ ~adapter /\ Resolved("permanent_failure", "adapter_unavailable", NoTime)
       \/ adapter /\ Resolved("permanent_failure", "provider_permanent", NoTime)
    /\ UNCHANGED <<storeVars, workerOnly, channelSide, faults>>

\* The request leaves for the provider.
SendRequest ==
    /\ worker.pc = "send"
    /\ adapter
    /\ worker' = [worker EXCEPT !.pc = "await"]
    /\ wire' = wire \cup {<<worker.id, worker.number>>}
    /\ UNCHANGED <<storeVars, workerOnly, accepted, faults>>

\* The answers to sendMessage that the adapter tells apart: how far the exchange
\* came, whether the body says ok, whether all of it is as the API documents it,
\* the error code's class and the delay a 429 asks for.
Answers ==
    [reach : {"connect_failed", "lost", "body_unusable", "body_malformed"},
     ok : {FALSE}, clean : {FALSE}, code : {"none"}, retryAfter : {NoTime}]
    \cup [reach : {"body"}, ok : {TRUE}, clean : BOOLEAN, code : {"none"},
          retryAfter : {NoTime}]
    \cup [reach : {"body"}, ok : {FALSE}, clean : BOOLEAN,
          code : {"none", "server", "request", "other"}, retryAfter : {NoTime}]
    \cup [reach : {"body"}, ok : {FALSE}, clean : {TRUE}, code : {"rate"},
          retryAfter : {NoTime} \cup 1..MaxRetryAfter]

\* What an answer says of the request, taking a provider at its word: connecting
\* failed or an error body rules acceptance out, an ok body implies it.
Consistent(a, taken) ==
    /\ a.reach = "connect_failed" => ~taken
    /\ a.reach = "body" /\ a.ok /\ a.clean => taken
    /\ a.reach = "body" /\ ~a.ok /\ a.clean /\ a.code # "none" => ~taken

RulesOut(a) == a.reach = "connect_failed"
               \/ (a.reach = "body" /\ ~a.ok /\ a.clean /\ a.code # "none")

\* Mutant: an exchange without an answer counts as not sent.
FaultySendMessage(a) ==
    CASE a.reach \in {"connect_failed", "lost"} -> "retryable_failure"
      [] a.reach \in {"body_unusable", "body_malformed"} -> "outcome_unknown"
      [] a.reach = "body" /\ a.ok -> IF a.clean THEN "accepted" ELSE "outcome_unknown"
      [] a.reach = "body" /\ ~a.ok ->
            IF ~a.clean \/ a.code = "none" THEN "outcome_unknown"
            ELSE CASE a.code \in {"rate", "server"} -> "retryable_failure"
                   [] a.code = "request" -> "permanent_failure"
                   [] OTHER -> "outcome_unknown"

\* TelegramClient::send_message.
send_message(a) ==
    CASE a.reach = "connect_failed" -> "retryable_failure"
      [] a.reach \in {"lost", "body_unusable", "body_malformed"} -> "outcome_unknown"
      [] a.reach = "body" /\ a.ok -> IF a.clean THEN "accepted" ELSE "outcome_unknown"
      [] a.reach = "body" /\ ~a.ok ->
            IF ~a.clean \/ a.code = "none" THEN "outcome_unknown"
            ELSE CASE a.code \in {"rate", "server"} -> "retryable_failure"
                   [] a.code = "request" -> "permanent_failure"
                   [] OTHER -> "outcome_unknown"

FailureOf(result) == CASE result = "accepted" -> "none"
                       [] result = "retryable_failure" -> "provider_retryable"
                       [] result = "permanent_failure" -> "provider_permanent"
                       [] result = "outcome_unknown" -> "provider_outcome_unknown"

Taken(m) == \E i \in 1..Len(accepted) : accepted[i] = m

Answer(a) ==
    LET m == <<worker.id, worker.number>>
    IN /\ worker.pc = "await"
       /\ Consistent(a, Taken(m))
       /\ Resolved(send_message(a), FailureOf(send_message(a)), a.retryAfter)
       /\ wire' = IF RulesOut(a) THEN wire \ {m} ELSE wire
       /\ UNCHANGED <<storeVars, workerOnly, accepted, faults>>

\* dispatch_with_timeout: the deadline, or a panic of the adapter.
TimeOut ==
    /\ worker.pc = "await"
    /\ Resolved("outcome_unknown", "provider_outcome_unknown", NoTime)
    /\ UNCHANGED <<storeVars, workerOnly, channelSide, faults>>

\* The provider takes a request, in time or long after the worker gave up on it.
ProviderTakes(m) ==
    /\ m \in wire
    /\ wire' = wire \ {m}
    /\ accepted' = Append(accepted, m)
    /\ UNCHANGED <<storeVars, workerOnly, worker, faults>>

\* persist_dispatch_result.  A row or attempt that is not this worker's, or a
\* completion the table refuses because the clock stepped back, ends the worker.
PersistResult(local) ==
    LET d == worker.id
        n == worker.number
        retry == worker.result = "retryable_failure"
        delay == IF retry THEN retry_timing(local, worker.retryAfter) ELSE NoTime
        row == ResultRow(deliveries[d], worker.result, worker.failure, clock, delay)
        scheduled == IF row.state = "retry_wait" THEN row.next ELSE NoTime
    IN /\ worker.pc = "persist"
       /\ local \in (IF retry THEN backoff(n) ELSE {NoTime})
       /\ IF /\ ValidResult(worker.result, worker.failure)
             /\ OwnedAttempt(d, runtime, n)
             /\ attempts[d][n].started <= clock
          THEN /\ deliveries' = ResultRows(d, row, clock)
               /\ attempts' = [attempts EXCEPT ![d][n] =
                     ClosedAttempt(@, worker.result, worker.failure, clock, delay, scheduled)]
               /\ worker' = [Idle EXCEPT !.pc = "gate"]
          ELSE worker' = [Idle EXCEPT !.pc = "failed"] /\ UNCHANGED storeVars
       /\ UNCHANGED <<workerOnly, channelSide, faults>>

\* A transaction of the worker fails: the worker ends and asks for a shutdown.
WorkerStoreFault ==
    /\ faults < MaxFaults
    /\ \/ worker.pc \in {"claim", "persist"}
       \/ worker.pc = "recheck" /\ ~claiming /\ worker.claim = "dispatch"
    /\ faults' = faults + 1
    /\ worker' = [Idle EXCEPT !.pc = "failed"]
    /\ UNCHANGED <<storeVars, workerOnly, channelSide>>

----------------------------------------------------------------------------
(* Startup and shutdown.                                                    *)

processOnly == <<route, wire, accepted, clock, stepsBack>>

\* A new process: what was planned in memory is gone.
Boot(telegram) ==
    /\ phase = "down"
    /\ runtime < MaxRuntimes
    /\ runtime' = runtime + 1
    /\ phase' = "boot"
    /\ adapter' = telegram
    /\ UNCHANGED <<storeVars, plans, worker, claiming, processOnly, faults>>

\* start_delivery_worker.
StartedWorker == [Idle EXCEPT !.pc = "gate"]

\* recover_stale_deliveries, then the worker starts; a refused completion fails
\* the startup.
RecoverStale ==
    /\ phase = "boot"
    /\ IF ChecksHold(Dispatching(Runtimes), clock)
       THEN /\ recover_matching(Runtimes, clock, "stale_dispatch")
            /\ phase' = "up"
            /\ claiming' = TRUE
            /\ worker' = StartedWorker
       ELSE phase' = "down" /\ UNCHANGED <<storeVars, claiming, worker>>
    /\ UNCHANGED <<plans, runtime, adapter, processOnly, faults>>

\* RunningBootstrap::shutdown asks the worker to stop claiming,
StopClaiming ==
    /\ phase = "up"
    /\ phase' = "closing"
    /\ claiming' = FALSE
    /\ UNCHANGED <<storeVars, plans, worker, runtime, adapter, processOnly, faults>>

\* waits for the claim section,
Quiesced ==
    /\ phase = "closing"
    /\ ~GateHeld
    /\ phase' = "draining"
    /\ UNCHANGED <<storeVars, plans, worker, claiming, runtime, adapter, processOnly, faults>>

\* and joins the worker
JoinWorker ==
    /\ phase = "draining"
    /\ worker.pc \in {"exit", "failed"}
    /\ phase' = "down"
    /\ worker' = Idle
    /\ plans' = [r \in Replies |-> NoPlan]
    /\ UNCHANGED <<storeVars, claiming, runtime, adapter, processOnly, faults>>

\* or, at the deadline, aborts it
AbortWorker ==
    /\ phase = "draining"
    /\ worker.pc # "off"
    /\ phase' = "classifying"
    /\ worker' = Idle
    /\ UNCHANGED <<storeVars, plans, claiming, runtime, adapter, processOnly, faults>>

\* and classifies what it left open.
ClassifyInterruption ==
    /\ phase = "classifying"
    /\ phase' = "down"
    /\ plans' = [r \in Replies |-> NoPlan]
    /\ IF ChecksHold(Dispatching({runtime}), clock)
       THEN recover_matching({runtime}, clock, "shutdown_interrupted")
       ELSE UNCHANGED storeVars
    /\ UNCHANGED <<worker, claiming, runtime, adapter, processOnly, faults>>

\* The transaction of the startup or of the classification fails.
ProcessStoreFault ==
    /\ faults < MaxFaults
    /\ phase \in {"boot", "classifying"}
    /\ faults' = faults + 1
    /\ phase' = "down"
    /\ plans' = [r \in Replies |-> NoPlan]
    /\ UNCHANGED <<storeVars, worker, claiming, runtime, adapter, processOnly>>

\* The process dies.
Crash ==
    /\ phase # "down"
    /\ phase' = "down"
    /\ claiming' = FALSE
    /\ worker' = Idle
    /\ plans' = [r \in Replies |-> NoPlan]
    /\ UNCHANGED <<storeVars, runtime, adapter, processOnly, faults>>

----------------------------------------------------------------------------
(* The surroundings.                                                        *)

\* An operator revokes the binding or disables the account; neither comes back.
RouteEnds(part) ==
    /\ route[part]
    /\ route' = [route EXCEPT ![part] = FALSE]
    /\ UNCHANGED <<storeVars, plans, worker, claiming, phase, runtime, adapter, channelSide,
                   clock, budget>>

Tick ==
    /\ clock < MaxTime
    /\ clock' = clock + 1
    /\ UNCHANGED <<storeVars, route, plans, worker, claiming, phase, runtime, adapter,
                   channelSide, budget>>

\* The wall clock is set back.
StepBack(t) ==
    /\ stepsBack < MaxStepsBack
    /\ t < clock
    /\ clock' = t
    /\ stepsBack' = stepsBack + 1
    /\ UNCHANGED <<storeVars, route, plans, worker, claiming, phase, runtime, adapter,
                   channelSide, faults>>

Init ==
    /\ deliveries = [d \in Ids |-> Absent]
    /\ attempts = [d \in Ids |-> <<>>]
    /\ route = [binding |-> TRUE, account |-> TRUE]
    /\ plans = [r \in Replies |-> NoPlan]
    /\ worker = Idle
    /\ claiming = FALSE
    /\ phase = "down"
    /\ runtime = 0
    /\ adapter = FALSE
    /\ wire = {}
    /\ accepted = <<>>
    /\ clock = 0
    /\ faults = 0
    /\ stepsBack = 0

Planning ==
    \/ \E r \in Replies, n \in 1..MaxParts, f \in PlanningFailures \cup {"none"} :
          PlanReply(r, n, f)
    \/ \E r \in Replies : CommitReply(r)
    \/ \E r \in Replies : CommitControl(r)

Working ==
    \/ TakeGate
    \/ Claim
    \/ Recheck
    \/ Wake
    \/ RefuseLocally
    \/ SendRequest
    \/ \E a \in Answers : Answer(a)
    \/ TimeOut
    \/ \E local \in {NoTime} \cup 1..Max2(BackoffCap, 1) : PersistResult(local)

Process ==
    \/ \E telegram \in BOOLEAN : Boot(telegram)
    \/ RecoverStale
    \/ StopClaiming
    \/ Quiesced
    \/ JoinWorker
    \/ AbortWorker
    \/ ClassifyInterruption

Surroundings ==
    \/ \E m \in wire : ProviderTakes(m)
    \/ \E part \in {"binding", "account"} : RouteEnds(part)
    \/ Tick
    \/ \E t \in Times : StepBack(t)
    \/ WorkerStoreFault
    \/ ProcessStoreFault
    \/ Crash

Next == Planning \/ Working \/ Process \/ Surroundings

Spec == Init /\ [][Next]_vars

\* The tokio scheduler runs the worker while it has a step; dispatch_with_timeout
\* bounds the wait for an answer; a worker that failed has sent the fatal signal,
\* on which the service shuts down; the service unit restarts the process; time
\* passes.
Fairness ==
    /\ WF_vars(Working)
    /\ WF_vars(Process /\ (phase = "up" => worker.pc = "failed"))
    /\ WF_vars(Tick)

LiveSpec == Spec /\ Fairness

----------------------------------------------------------------------------
(* verify_delivery_consistency, which refuses a startup.                    *)

\* retry_schedule_is_canonical.
CanonicalSchedule(a) ==
    /\ a.delay >= 1
    /\ a.scheduled # NoTime => a.scheduled = a.completed + a.delay

\* The fields of one attempt, by its result.
AttemptShape(a) ==
    CASE a.result = "none" -> /\ a.completed = NoTime /\ a.failure = "none"
                              /\ a.delay = NoTime /\ a.scheduled = NoTime
      [] a.result = "retryable_failure" -> /\ a.failure = "provider_retryable"
                                           /\ CanonicalSchedule(a)
      [] a.result = "accepted" -> a.failure = "none" /\ a.delay = NoTime
                                  /\ a.scheduled = NoTime
      [] a.result = "permanent_failure" ->
            /\ a.failure \notin UnknownClasses \cup {"none", "provider_retryable"}
            /\ a.delay = NoTime /\ a.scheduled = NoTime
      [] a.result = "outcome_unknown" -> /\ a.failure \in UnknownClasses
                                         /\ a.delay = NoTime /\ a.scheduled = NoTime

\* The attempts of one delivery, in order: only a retryable failure is followed,
\* and not before its schedule.
AttemptHistory(row, as) ==
    \A i \in 1..Len(as) :
       /\ as[i].prior = IF i = 1 THEN "queued" ELSE "retry_wait"
       /\ as[i].started >= row.created
       /\ as[i].completed # NoTime => as[i].completed >= as[i].started
       /\ AttemptShape(as[i])
       /\ i < Len(as) => /\ as[i].result = "retryable_failure"
                         /\ as[i].scheduled # NoTime
                         /\ as[i + 1].started >= as[i].scheduled

ZeroAttemptFailures == PlanningFailures \cup
    {"binding_revoked", "channel_account_disabled", "prior_part_permanent_failure",
     "prior_part_outcome_unknown", "delivery_deadline_exceeded"}
PredispatchFailures == ZeroAttemptFailures \ PlanningFailures

\* The row against its last attempt, by the row's state.
RowMatchesHistory(row, as) ==
    LET open == {i \in 1..Len(as) : as[i].completed = NoTime}
        last == as[Len(as)]
        exists == Len(as) > 0
    IN /\ Len(as) = row.attempts
       /\ IF row.state = "dispatching"
          THEN exists /\ open = {Len(as)} /\ row.owner = last.runtime
                      /\ row.updated = last.started
          ELSE open = {} /\ row.owner = 0
       /\ CASE row.state = "queued" -> ~exists /\ row.next = row.created
                                       /\ row.updated = row.created
            [] row.state = "dispatching" -> TRUE
            [] row.state = "retry_wait" -> /\ exists /\ last.result = "retryable_failure"
                                           /\ last.scheduled = row.next
                                           /\ last.scheduled # NoTime
                                           /\ last.completed = row.updated
            [] row.state = "accepted" -> exists /\ last.result = "accepted"
                                         /\ last.completed = row.updated
            [] row.state = "outcome_unknown" -> /\ exists /\ last.result = "outcome_unknown"
                                                /\ last.failure = row.failure
                                                /\ last.completed = row.updated
            [] row.state = "permanent_failure" ->
                 \/ ~exists /\ row.failure \in ZeroAttemptFailures
                 \/ /\ exists /\ last.result = "permanent_failure"
                    /\ last.failure = row.failure /\ last.completed = row.updated
                 \/ /\ exists /\ last.result = "retryable_failure"
                    /\ IF last.scheduled = NoTime
                       THEN /\ row.failure \in {"retry_exhausted", "delivery_deadline_exceeded"}
                            /\ last.completed = row.updated
                       ELSE /\ row.failure \in PredispatchFailures
                            /\ last.completed <= row.updated

\* The parts of one reply: after the first part that ended without acceptance,
\* every part carries the matching prior-part failure.
GroupConsistent(r) ==
    LET parts == {d \in Ids : d[1] = r /\ deliveries[d].state # "absent"}
        ended(d) == deliveries[d].state \in {"permanent_failure", "outcome_unknown"}
    IN /\ \A d \in parts : /\ deliveries[d].count = deliveries[<<r, 1>>].count
                           /\ deliveries[d].created = deliveries[<<r, 1>>].created
                           /\ d[2] <= deliveries[d].count
       /\ \A k \in 1..deliveries[<<r, 1>>].count : <<r, k>> \in parts
       /\ \A d \in parts :
             LET blockers == {p \in parts : p[2] < d[2] /\ ended(p)}
             IN \A p \in blockers :
                   (\A q \in blockers : p[2] <= q[2]) =>
                      /\ deliveries[d].state = "permanent_failure"
                      /\ deliveries[d].failure =
                            IF deliveries[p].state = "outcome_unknown"
                            THEN "prior_part_outcome_unknown"
                            ELSE "prior_part_permanent_failure"
       /\ (\E d \in parts : deliveries[d].failure \in PlanningFailures)
             => deliveries[<<r, 1>>].count = 1

verify_delivery_consistency ==
    /\ \A d \in Ids : deliveries[d].state # "absent" =>
          /\ AttemptHistory(deliveries[d], attempts[d])
          /\ RowMatchesHistory(deliveries[d], attempts[d])
    /\ \A r \in Replies : GroupConsistent(r)

----------------------------------------------------------------------------
(* Properties.                                                              *)

\* Types of the rows, attempts and of what the worker holds.
TypeOK ==
    /\ deliveries \in [Ids -> [state : States, count : 0..MaxParts,
                               attempts : 0..MAX_ATTEMPTS, owner : 0..MaxRuntimes,
                               next : Int, failure : Failures,
                               created : Times, updated : Times]]
    /\ route \in [{"binding", "account"} -> BOOLEAN]
    /\ phase \in {"down", "boot", "up", "closing", "draining", "classifying"}
    /\ worker.pc \in {"off", "gate", "claim", "recheck", "sleep", "send", "await",
                      "persist", "exit", "failed"}
    /\ worker.pc \in {"send", "await", "persist"} => worker.id \in Ids
    /\ worker.pc # "off" => phase \in {"up", "closing", "draining"}
    /\ runtime \in 0..MaxRuntimes

\* Every state the store commits, whatever the worker, the shutdown and the clock
\* did, is one that verify_delivery_consistency accepts at the next startup.
StartupAccepts == verify_delivery_consistency

\* A worker that has a result to persist still owns the open attempt of the part:
\* persist_dispatch_result never finds a row that somebody else has settled.
ResultsHaveOwner ==
    worker.pc \in {"send", "await", "persist"} =>
       OwnedAttempt(worker.id, runtime, worker.number)

\* A dispatch is left open only by a worker that is at it, by one that failed, or
\* by a process that ended: a worker that goes on, sleeps or exits leaves none.
OpenDispatchExplained ==
    \A d \in Ids : deliveries[d].state = "dispatching" =>
       \/ worker.pc \in {"send", "await", "persist"} /\ worker.id = d
       \/ worker.pc = "recheck" /\ worker.claim = "dispatch" /\ worker.id = d
       \/ worker.pc = "failed" \/ phase \in {"down", "boot", "classifying"}

\* The requests the provider took are of distinct parts, in order within a reply,
\* and what the store records of a part is true of the channel.
Channel == INSTANCE ReplyChannel WITH
    status <- [d \in Ids |->
                 CASE deliveries[d].state = "absent" -> "absent"
                   [] deliveries[d].state \in Waiting -> "pending"
                   [] deliveries[d].state = "dispatching" -> "sending"
                   [] deliveries[d].state = "accepted" -> "delivered"
                   [] deliveries[d].state = "permanent_failure" -> "failed"
                   [] deliveries[d].state = "outcome_unknown" -> "unknown"],
    arrived <- [i \in 1..Len(accepted) |-> accepted[i][1]]

\* The delivery queue and its worker implement ReplyChannel.
ChannelStep == [Channel!ChannelNext]_(Channel!channelVars)
ImplementsReplyChannel == Channel!ChannelInit /\ [][ChannelStep]_vars

\* Once stop_claiming_and_wait has returned, no attempt is started before the next
\* startup, although the flag is read outside the store's transaction.
NoClaimWhileStopping ==
    phase \in {"draining", "classifying"} =>
        \A d \in Ids : Len(attempts'[d]) = Len(attempts[d])
NoClaimAfterQuiesce == [][NoClaimWhileStopping]_vars

\* While the service stays up, every committed part ends accepted, failed or
\* unknown: retries, waits for earlier parts and the delivery deadline never leave
\* one waiting for ever.
AllSettled == \A d \in Ids : deliveries[d].state \notin Waiting \cup {"dispatching"}
PartsSettle == []<>(phase = "up" => AllSettled)

=============================================================================
