----------------------------- MODULE Connections -----------------------------
(***************************************************************************)
(* Who owns a WebSocket (adapters/http.rs).  A request reserves an entry   *)
(* in the ConnectionRegistry and a permit; axum's upgrade task then fails, *)
(* is dropped, or hands the socket to the supervisor, which runs the       *)
(* connection as a task; at shutdown ServerHandle::join_before waits until *)
(* the registry is empty, or until the deadline, and stops the supervisor. *)
(*                                                                         *)
(* The upgrade callback, the supervisor, the tasks and the shutdown run    *)
(* concurrently; they meet in a compare-and-swap on the upgrade's stage,   *)
(* an unbounded event channel and a Notify.  A panic of a callback or of a *)
(* task differs from its return only in counters, and is the same step.    *)
(* What a connection sends is EventStream's and LiveDrafts's.              *)
(***************************************************************************)
EXTENDS Naturals, Sequences, FiniteSets, SequencesExt

CONSTANTS
    Ids,      \* WebSocket requests
    Limit     \* ws_limit's permits

VARIABLES
    accepting,  \* ConnectionRegistryInner::accepting
    permits,    \* free permits of ws_limit
    request,    \* the handler of /v1/events and the upgrade callback it made
    stage,      \* PendingUpgradeInner::stage
    entries,    \* the registry
    cancelled,  \* the entries whose cancellation was sent
    events,     \* the channel to the supervisor
    tasks,      \* the supervisor's JoinSet: running, or ended and not joined
    supervisor, \* supervise_connections: "running", "notifying" or "done"
    stopping,   \* supervise_connections's flag
    failure,    \* it called handle_shared_server_failure
    shutdown,   \* where Application::shutdown is
    waiter,     \* wait_empty: its Notified future
    wsShutdown, \* the ws_shutdown latch
    expired     \* the shutdown deadline has passed

vars == <<accepting, permits, request, stage, entries, cancelled, events, tasks, supervisor,
          stopping, failure, shutdown, waiter, wsShutdown, expired>>

upgradeVars == <<accepting, request, stage>>
registryVars == <<entries, cancelled, tasks, supervisor, stopping, failure>>
shutdownVars == <<shutdown, wsShutdown, expired>>

Event(type, id) == [type |-> type, id |-> id]
Stop(abort) == [type |-> IF abort THEN "abort" ELSE "stop", id |-> 0]
Put(id, v) == [x \in DOMAIN entries \cup {id} |-> IF x = id THEN v ELSE entries[x]]
Without(S) == [x \in DOMAIN entries \ S |-> entries[x]]

(* A send on the channel fails, and drops the event, once the supervisor has *)
(* returned.                                                                 *)
Send(e) == events' = IF supervisor = "done" THEN events ELSE Append(events, e)

-----------------------------------------------------------------------------
(* The handler of a request: it takes a permit, reads the high water, checks *)
(* that the registry accepts, and inserts its entry.  The check does not     *)
(* exclude stop_accepting, which takes no lock.                              *)
TakePermit(id) ==
    /\ request[id] = "none" /\ permits > 0 /\ shutdown = "serving"
    /\ permits' = permits - 1
    /\ request' = [request EXCEPT ![id] = "permitted"]
    /\ UNCHANGED <<accepting, stage, events, registryVars, waiter, shutdownVars>>

CheckAccepting(id) ==
    /\ request[id] = "permitted" /\ accepting
    /\ request' = [request EXCEPT ![id] = "checked"]
    /\ UNCHANGED <<accepting, permits, stage, events, registryVars, waiter, shutdownVars>>

(* Shutdown, a failed read of the high water, or a registry that no longer   *)
(* accepts: the permit is dropped.                                           *)
Refuse(id) ==
    /\ request[id] = "permitted"
    /\ request' = [request EXCEPT ![id] = "gone"]
    /\ permits' = permits + 1
    /\ UNCHANGED <<accepting, stage, events, registryVars, waiter, shutdownVars>>

(* changed.notify_waiters: a Notified future is ready from then on, and a    *)
(* wait that sleeps on one goes round its loop.                              *)
Notified(w) == CASE w = "armed" -> "ready" [] w = "sleeping" -> "none" [] OTHER -> w

reserve(id) ==
    /\ request[id] = "checked"
    /\ entries' = Put(id, [state |-> "PendingUpgrade", callback_observed |-> FALSE])
    /\ stage' = [stage EXCEPT ![id] = "PENDING"]
    /\ request' = [request EXCEPT ![id] = "upgrading"]
    /\ waiter' = Notified(waiter)
    /\ UNCHANGED <<accepting, permits, events, cancelled, tasks, supervisor, stopping, failure,
                   shutdownVars>>

-----------------------------------------------------------------------------
(* The upgrade.                                                              *)

(* on_failed_upgrade; the callback is then dropped unpolled, and finds the   *)
(* stage already terminal.                                                   *)
upgrade_failed(id) ==
    /\ request[id] = "upgrading" /\ stage[id] = "PENDING"
    /\ stage' = [stage EXCEPT ![id] = "TERMINAL"]
    /\ permits' = permits + 1
    /\ request' = [request EXCEPT ![id] = "gone"]
    /\ Send(Event("UpgradeCompleted", id))
    /\ UNCHANGED <<accepting, registryVars, waiter, shutdownVars>>

(* The callback runs, and finds that it was not cancelled.                   *)
CallbackEnters(id) ==
    /\ request[id] = "upgrading" /\ id \notin cancelled
    /\ request' = [request EXCEPT ![id] = "entered"]
    /\ UNCHANGED <<accepting, permits, stage, events, registryVars, waiter, shutdownVars>>

(* It hands over the socket, and the permit with it.                         *)
activate(id) ==
    /\ request[id] = "entered" /\ stage[id] = "PENDING"
    /\ stage' = [stage EXCEPT ![id] = "ACTIVATED"]
    /\ request' = [request EXCEPT ![id] = "activated"]
    /\ Send(Event("Activate", id))
    /\ permits' = IF supervisor = "done" THEN permits + 1 ELSE permits
    /\ UNCHANGED <<accepting, registryVars, waiter, shutdownVars>>

(* A callback that returns always says it completed.                         *)
eager_finish_callback(id) ==
    /\ request[id] \in {"upgrading", "activated"}
    /\ request' = [request EXCEPT ![id] = "gone"]
    /\ Send(Event("CallbackCompleted", id))
    /\ stage' = [stage EXCEPT ![id] = "TERMINAL"]
    /\ permits' = IF stage[id] = "PENDING" THEN permits + 1 ELSE permits
    /\ UNCHANGED <<accepting, registryVars, waiter, shutdownVars>>

(* UpgradeCallbackGuard is dropped: after the activation, or with the        *)
(* callback dropped unpolled, panicking, or seeing its cancellation.         *)
finish_callback(id) ==
    /\ request[id] \in {"upgrading", "activated"}
    /\ request' = [request EXCEPT ![id] = "gone"]
    /\ IF stage[id] = "PENDING"
       THEN /\ stage' = [stage EXCEPT ![id] = "TERMINAL"] /\ permits' = permits + 1
            /\ Send(Event("UpgradeCompleted", id))
       ELSE /\ Send(Event("CallbackCompleted", id))
            /\ UNCHANGED <<stage, permits>>
    /\ UNCHANGED <<accepting, registryVars, waiter, shutdownVars>>

-----------------------------------------------------------------------------
(* The supervisor handles the next event; it notifies after it has released  *)
(* the registry's lock.                                                      *)
Taken == events' = Tail(events)
Receives(type) == supervisor = "running" /\ events # <<>> /\ Head(events).type = type

(* What the registry refuses is a fault of the program, and shuts it down.   *)
Surprise ==
    /\ failure' = TRUE
    /\ UNCHANGED <<entries, tasks, supervisor, permits>>

mark_active ==
    LET id == Head(events).id IN
    /\ Receives("Activate") /\ Taken
    /\ IF id \in DOMAIN entries /\ entries[id].state = "PendingUpgrade"
       THEN /\ entries' = [entries EXCEPT ![id].state = "Active"]
            /\ tasks' = tasks \cup {[id |-> id, ended |-> FALSE]}
            /\ waiter' = Notified(waiter) /\ UNCHANGED permits
       ELSE permits' = permits + 1 /\ UNCHANGED <<entries, tasks, waiter>>
    /\ UNCHANGED <<upgradeVars, cancelled, supervisor, stopping, failure, shutdownVars>>

observe_callback ==
    LET id == Head(events).id IN
    /\ Receives("CallbackCompleted") /\ Taken
    /\ IF /\ id \in DOMAIN entries /\ ~entries[id].callback_observed
          /\ entries[id].state # "PendingUpgrade"
       THEN /\ entries' = IF entries[id].state = "Finished" THEN Without({id})
                          ELSE [entries EXCEPT ![id].callback_observed = TRUE]
            /\ supervisor' = "notifying" /\ UNCHANGED <<tasks, failure, permits>>
       ELSE Surprise
    /\ UNCHANGED <<upgradeVars, cancelled, stopping, waiter, shutdownVars>>

observe_upgrade_terminal ==
    LET id == Head(events).id IN
    /\ Receives("UpgradeCompleted") /\ Taken
    /\ IF id \in DOMAIN entries /\ entries[id].state = "PendingUpgrade"
       THEN /\ entries' = Without({id})
            /\ supervisor' = "notifying" /\ UNCHANGED <<tasks, failure, permits>>
       ELSE Surprise
    /\ UNCHANGED <<upgradeVars, cancelled, stopping, waiter, shutdownVars>>

Closing(e) == IF e.state = "Active" THEN [e EXCEPT !.state = "Closing"] ELSE e
begin_closing == entries' = [id \in DOMAIN entries |-> Closing(entries[id])]

(* Aborted tasks end; the entries that are still there are told to give up.  *)
observe_stop ==
    /\ \E abort \in BOOLEAN :
          /\ Receives(Stop(abort).type) /\ Taken
          /\ stopping' = TRUE /\ accepting' = FALSE
          /\ begin_closing
          /\ IF abort
             THEN /\ cancelled' = cancelled \cup DOMAIN entries
                  /\ tasks' = {[t EXCEPT !.ended = TRUE] : t \in tasks}
                  /\ permits' = permits + Cardinality({t \in tasks : ~t.ended})
             ELSE UNCHANGED <<cancelled, tasks, permits>>
    /\ waiter' = Notified(waiter)
    /\ UNCHANGED <<request, stage, supervisor, failure, shutdownVars>>

(* run_websocket returns: the peer left, it was too slow, or the server      *)
(* shuts down.  The permit goes with the task.                               *)
TaskEnds(id) ==
    /\ [id |-> id, ended |-> FALSE] \in tasks
    /\ tasks' = (tasks \ {[id |-> id, ended |-> FALSE]}) \cup {[id |-> id, ended |-> TRUE]}
    /\ permits' = permits + 1
    /\ UNCHANGED <<upgradeVars, entries, cancelled, events, supervisor, stopping, failure,
                   waiter, shutdownVars>>

(* The supervisor joins a task that ended.                                   *)
observe_connection_completion(id) ==
    /\ supervisor = "running" /\ [id |-> id, ended |-> TRUE] \in tasks
    /\ tasks' = tasks \ {[id |-> id, ended |-> TRUE]}
    /\ IF id \in DOMAIN entries /\ entries[id].state \in {"Active", "Closing"}
       THEN /\ entries' = IF entries[id].callback_observed THEN Without({id})
                          ELSE [entries EXCEPT ![id].state = "Finished"]
            /\ supervisor' = "notifying" /\ UNCHANGED failure
       ELSE failure' = TRUE /\ UNCHANGED <<entries, supervisor>>
    /\ UNCHANGED <<upgradeVars, permits, cancelled, events, stopping, waiter, shutdownVars>>

NotifyWaiters ==
    /\ supervisor = "notifying" /\ supervisor' = "running"
    /\ waiter' = Notified(waiter)
    /\ UNCHANGED <<upgradeVars, permits, entries, cancelled, events, tasks, stopping, failure,
                   shutdownVars>>

(* The events left in the channel are dropped with their permits.            *)
SupervisorReturns ==
    /\ supervisor = "running" /\ stopping /\ tasks = {} /\ DOMAIN entries = {}
    /\ supervisor' = "done"
    /\ events' = <<>>
    /\ permits' = permits + Cardinality({k \in DOMAIN events : events[k].type = "Activate"})
    /\ UNCHANGED <<upgradeVars, entries, cancelled, tasks, stopping, failure, waiter,
                   shutdownVars>>

-----------------------------------------------------------------------------
(* Application::shutdown and ServerHandle.                                   *)
shutdownRest == <<permits, request, stage, cancelled, tasks, supervisor, stopping, failure>>

stop_accepting ==
    /\ shutdown = "serving" /\ shutdown' = "draining"
    /\ accepting' = FALSE
    /\ UNCHANGED <<shutdownRest, entries, events, waiter, wsShutdown, expired>>

close_websockets ==
    /\ shutdown = "draining" /\ shutdown' = "joining"
    /\ begin_closing /\ waiter' = Notified(waiter)
    /\ wsShutdown' = TRUE
    /\ UNCHANGED <<shutdownRest, accepting, events, expired>>

(* The graceful shutdown of the server ends when its handlers have; at the   *)
(* deadline the server task is aborted, and handlers may still be running.   *)
JoinServer ==
    /\ shutdown = "joining"
    /\ expired \/ \A id \in Ids : request[id] \notin {"permitted", "checked"}
    /\ shutdown' = "waiting"
    /\ UNCHANGED <<shutdownRest, accepting, entries, events, waiter, wsShutdown, expired>>

SendStop(abort) ==
    /\ Send(Stop(abort))
    /\ waiter' = "none" /\ shutdown' = "stopping"
    /\ UNCHANGED <<shutdownRest, accepting, entries, wsShutdown, expired>>

Waits(w) ==
    /\ waiter' = w
    /\ UNCHANGED <<shutdownRest, accepting, entries, events, shutdownVars>>

(* The registry is looked at before the future is made: a change between the *)
(* two is not noticed.                                                       *)
late_wait_empty ==
    /\ shutdown = "waiting"
    /\ \/ waiter = "none" /\ IF DOMAIN entries = {} THEN SendStop(FALSE) ELSE Waits("checked")
       \/ waiter = "checked" /\ Waits("sleeping")

(* The Notified future is made first, then the registry is looked at, then   *)
(* the future is awaited.                                                    *)
wait_empty ==
    /\ shutdown = "waiting"
    /\ \/ waiter = "none" /\ Waits("armed")
       \/ /\ waiter \in {"armed", "ready"}
          /\ IF DOMAIN entries = {} THEN SendStop(FALSE)
             ELSE Waits(IF waiter = "armed" THEN "sleeping" ELSE "none")

(* The wait times out.                                                       *)
GiveUp == shutdown = "waiting" /\ expired /\ SendStop(TRUE)

JoinSupervisor ==
    /\ shutdown = "stopping" /\ supervisor = "done"
    /\ shutdown' = "stopped"
    /\ UNCHANGED <<shutdownRest, accepting, entries, events, waiter, wsShutdown, expired>>

Deadline ==
    /\ shutdown # "serving" /\ ~expired /\ expired' = TRUE
    /\ UNCHANGED <<shutdownRest, accepting, entries, events, waiter, shutdown, wsShutdown>>

-----------------------------------------------------------------------------
Init ==
    /\ accepting = TRUE /\ permits = Limit
    /\ request = [id \in Ids |-> "none"] /\ stage = [id \in Ids |-> "none"]
    /\ entries = [x \in {} |-> 0] /\ cancelled = {} /\ events = <<>> /\ tasks = {}
    /\ supervisor = "running" /\ stopping = FALSE /\ failure = FALSE
    /\ shutdown = "serving" /\ waiter = "none" /\ wsShutdown = FALSE /\ expired = FALSE

HandlerStep(id) == CheckAccepting(id) \/ Refuse(id) \/ reserve(id)
CallbackStep(id) == upgrade_failed(id) \/ CallbackEnters(id) \/ activate(id) \/ finish_callback(id)

SupervisorStep ==
    \/ mark_active \/ observe_callback \/ observe_upgrade_terminal \/ observe_stop
    \/ NotifyWaiters \/ SupervisorReturns
    \/ \E id \in Ids : observe_connection_completion(id)

ShutdownStep ==
    close_websockets \/ JoinServer \/ wait_empty \/ GiveUp \/ JoinSupervisor

Next ==
    \/ \E id \in Ids : TakePermit(id) \/ HandlerStep(id) \/ CallbackStep(id) \/ TaskEnds(id)
    \/ SupervisorStep \/ stop_accepting \/ ShutdownStep \/ Deadline

Spec == Init /\ [][Next]_vars

(* Handlers run under a timeout, hyper resolves every upgrade, the runtime   *)
(* polls the callback, the supervisor and the shutdown, and a connection's   *)
(* task returns once the latch is set (its sends have a timeout).  Nothing   *)
(* is asked of the deadline.                                                 *)
FairSpec ==
    /\ Spec
    /\ \A id \in Ids : /\ WF_vars(HandlerStep(id)) /\ WF_vars(CallbackStep(id))
                       /\ WF_vars(wsShutdown /\ TaskEnds(id))
    /\ WF_vars(SupervisorStep) /\ WF_vars(ShutdownStep)

-----------------------------------------------------------------------------
(* Properties.                                                               *)

HandlerHolds == {id \in Ids : request[id] \in {"permitted", "checked"}}
UpgradeHolds == {id \in Ids : stage[id] = "PENDING"}
ChannelHolds == {k \in DOMAIN events : events[k].type = "Activate"}
TaskHolds == {t \in tasks : ~t.ended}

(* Every permit of the connection limit is free or held by exactly one: the  *)
(* handler, the pending upgrade, the activation in the channel or the task.  *)
(* However a connection ends, its permit comes back once, so that the server *)
(* neither exceeds its limit nor runs out of permits.                        *)
PermitsConserved ==
    permits + Cardinality(HandlerHolds) + Cardinality(UpgradeHolds) + Cardinality(ChannelHolds)
        + Cardinality(TaskHolds) = Limit

(* The supervisor is never told something the registry contradicts: a        *)
(* callback completes after its activation and once, an upgrade ends while   *)
(* pending and once, and a task that is joined has a live entry, in whatever *)
(* order the callback, the channel and the task run.                         *)
NeverSurprised == ~failure

(* While the supervisor runs, every entry has somebody who will remove it: a *)
(* callback still to finish, an event in the channel, or a task.             *)
EntriesAccounted ==
    supervisor # "done" =>
        \A id \in DOMAIN entries :
            \/ request[id] \in {"upgrading", "entered", "activated"}
            \/ \E k \in DOMAIN events : events[k].id = id
            \/ \E t \in tasks : t.id = id

(* A shutdown returns without waiting for its deadline: every upgrade and    *)
(* connection ends, the wait for the empty registry notices it, and the      *)
(* supervisor returns.                                                       *)
ShutdownReturns == []<>(shutdown \in {"serving", "stopped"})

(* The pieces of state agree on who is alive.                                *)
TypeOK ==
    /\ permits \in 0 .. Limit /\ DOMAIN entries \subseteq Ids
    /\ \A id \in DOMAIN entries : /\ stage[id] # "none"
                                  /\ entries[id].state \in {"PendingUpgrade", "Active", "Closing", "Finished"}
    /\ waiter \in {"none", "armed", "sleeping", "ready"}
    /\ shutdown = "stopped" => supervisor = "done" /\ tasks = {}

=============================================================================
