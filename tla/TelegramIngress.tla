--------------------------- MODULE TelegramIngress ---------------------------
(***************************************************************************)
(* Telegram ingress: the long-polling driver (adapters/telegram/polling.rs *)
(* and client.rs) takes updates from the provider, the processor           *)
(* normalises each one, binds the owner's chat on first use and hands the  *)
(* event to the channel ingress service, whose transaction                 *)
(* (adapters/sqlite/channel_ingress.rs) either finds the row of an earlier *)
(* delivery of the same update or classifies the update once and for all:  *)
(* a message becomes a work, a control cancels one, the rest is recorded   *)
(* and ignored.  The offset of the next getUpdates call is the only        *)
(* acknowledgement the provider ever sees.                                 *)
(*                                                                         *)
(* The provider is external and modelled from how client.rs uses it: it    *)
(* holds an update until a call names a larger offset, it serves the       *)
(* lowest ids first, and after a week without updates it may start its     *)
(* numbering anywhere.  Time is the clock read at the start of each        *)
(* update; normalised content is reduced to the shape of the update and    *)
(* the message it names.                                                   *)
(***************************************************************************)
EXTENDS Naturals, Sequences, FiniteSets, FiniteSetsExt, SequencesExt

CONSTANTS
    Shapes,         \* shapes of the updates that may arrive
    StorageFaults,  \* subset of {"begin", "statement"}: how SQLite may fail
    Devices,        \* BOOLEAN: does a device cancel works as well
    CanDisable,     \* BOOLEAN: may the operator disable the account
    FirstId,        \* the first update id; after a quiet week ids start at 1
    BatchLimit,     \* updates in one getUpdates answer (32 in the code)
    MaxUpdates, MaxClock, MaxFaults, MaxStops   \* bounds

BoundsAssumption ==
    /\ {FirstId, BatchLimit, MaxUpdates, MaxClock} \subseteq Nat \ {0}
    /\ {MaxFaults, MaxStops} \subseteq Nat
    /\ FirstId > MaxUpdates

VARIABLES
    provider,   \* what Telegram holds: pending updates and its numbering
    sent,       \* history: every update that was ever created
    poller,     \* the driver task and the update it is working on
    cause,      \* why the driver last ended with an error
    inbox,      \* rows of inbound_deliveries
    bound,      \* is the owner's chat bound to the conversation
    account,    \* lifecycle of the channel account
    works,      \* work_items in the order of their ordinals
    cancels,    \* cancellation events of the journal
    acks,       \* control acknowledgements queued for delivery
    now,        \* the clock
    faults, stops   \* faults injected, process ends so far

store == <<inbox, bound, works, cancels, acks>>
outside == <<sent, account, now>>
vars == <<provider, sent, poller, cause, store, account, now, faults, stops>>

AllShapes == {"text", "control", "media", "foreign", "opaque", "edit"}
TextShapes == {"text", "control"}       \* VerifiedInboundPayload::Text
OwnerShapes == AllShapes \ {"foreign", "opaque"}

StartupBudget == 3      \* MAX_STARTUP_FAILURES
ProtocolBudget == 3     \* MAX_PROTOCOL_FAILURES

Updates == [n: 1 .. MaxUpdates, id: 1 .. FirstId + MaxUpdates,
            shape: Shapes, msg: 0 .. MaxUpdates]
Idle == [phase |-> "down", offset |-> 0, batch |-> <<>>, at |-> 0,
         budget |-> 0, protocol |-> 0, stopping |-> FALSE, admitting |-> TRUE]

Init ==
    /\ provider = [pending |-> {}, nextId |-> FirstId, quiet |-> TRUE, rebased |-> FALSE]
    /\ sent = {}
    /\ poller = Idle
    /\ cause = "none"
    /\ inbox = {}
    /\ bound = FALSE
    /\ account = "active"
    /\ works = <<>>
    /\ cancels = {}
    /\ acks = {}
    /\ now = 1
    /\ faults = 0
    /\ stops = 0

-----------------------------------------------------------------------------
(* The provider. *)

\* A message, an edit of an earlier message, or an update without one.
Arrives(shape) ==
    /\ Cardinality(sent) < MaxUpdates
    /\ \E msg \in CASE shape = "opaque" -> {0}
                    [] shape = "edit" -> {u.msg : u \in {s \in sent : s.shape \in TextShapes}}
                    [] OTHER -> {Cardinality(sent) + 1} :
          LET u == [n |-> Cardinality(sent) + 1, id |-> provider.nextId,
                    shape |-> shape, msg |-> msg]
          IN  /\ sent' = sent \cup {u}
              /\ provider' = [provider EXCEPT !.pending = @ \cup {u}, !.nextId = @ + 1,
                                              !.quiet = FALSE]
    /\ UNCHANGED <<poller, cause, store, account, now, faults, stops>>

\* A week without updates: a live poller has long seen an empty answer.
QuietWeek ==
    /\ provider.pending = {}
    /\ provider.quiet \/ poller.phase \in {"down", "fatal", "refused"}
    /\ ~provider.rebased
    /\ provider' = [provider EXCEPT !.nextId = 1, !.rebased = TRUE]
    /\ UNCHANGED <<sent, poller, cause, store, account, now, faults, stops>>

Kept(offset) == {u \in provider.pending : u.id >= offset}

\* Fault: the batch is worked on from its newest update.
Later(a, b) == a.id > b.id

Earlier(a, b) == a.id < b.id

\* The updates of one answer, in the order process_batch sorts them into.
Answer(offset) ==
    LET kept == Kept(offset)
    IN  SetToSortSeq({u \in kept : Cardinality({v \in kept : v.id < u.id}) < BatchLimit},
                     Earlier)

-----------------------------------------------------------------------------
(* Process start: store verification, identity checks, the probe. *)

Requested(w) == {c \in cancels : c.work = w /\ c.kind = "requested"}
Linked(r) == {c \in cancels : c.by = r.id}

\* The message, its work and their two events are one record here, so they
\* agree when the work exists once and no cancellation claims the row.
VerifyMessage(r) ==
    /\ Cardinality({w \in DOMAIN works : works[w].from = r.id}) = 1
    /\ Linked(r) = {}

VerifyControl(r) ==
    IF r.target = 0
    THEN Linked(r) = {}
    ELSE \/ /\ Cardinality(Linked(r)) = 1
            /\ \A c \in Linked(r) : c.work = r.target
         \/ /\ Linked(r) = {}
            /\ \E c \in Requested(r.target) : c.at <= r.at

\* verify_channel_ingress_consistency, part of every start.
StoreConsistent ==
    /\ \A r \in inbox : CASE r.class = "message" -> VerifyMessage(r)
                          [] r.class = "control" -> VerifyControl(r)
                          [] OTHER -> TRUE
    /\ \A c \in cancels : c.by # 0 => \E r \in inbox : r.id = c.by /\ r.class = "control"

Restart ==
    /\ poller.phase \in {"down", "fatal"}
    /\ poller' = [Idle EXCEPT !.phase = IF StoreConsistent THEN "identity" ELSE "refused"]
    /\ UNCHANGED <<provider, cause, store, outside, faults, stops>>

\* ensure_account_and_identity_inner creates what is missing and refuses a
\* row that is not the configured, active one.
AccountEnsured == account = "active"

\* verify_get_me and verify_webhook_absent, then the account row.
IdentityVerified ==
    /\ poller.phase = "identity"
    /\ poller' = [poller EXCEPT !.phase = IF AccountEnsured THEN "probe" ELSE "refused"]
    /\ UNCHANGED <<provider, cause, store, outside, faults, stops>>

\* Both phases draw on one budget; a fatal answer ends the start at once.
StartupCallFails(retryable) ==
    /\ poller.phase \in {"identity", "probe"}
    /\ faults < MaxFaults
    /\ faults' = faults + 1
    /\ poller' = IF retryable /\ poller.budget + 1 < StartupBudget
                 THEN [poller EXCEPT !.budget = @ + 1]
                 ELSE Idle
    /\ UNCHANGED <<provider, cause, store, outside, stops>>

\* The phase in which a batch is worked on, or the loop if it is empty.
With(batch, phase) == IF batch = <<>> THEN "polling" ELSE phase

\* startup_probe: no offset, so nothing is acknowledged.
Probe ==
    /\ poller.phase = "probe"
    /\ poller' = [poller EXCEPT !.batch = Answer(0), !.phase = With(Answer(0), "initial")]
    /\ UNCHANGED <<provider, cause, store, outside, faults, stops>>

-----------------------------------------------------------------------------
(* The polling loop. *)

\* Fault: the offset outlives a restart of the numbering.
KeepsOffset(answer) == poller.offset

\* An empty answer forgets the offset: the numbering may start again.
OffsetAfter(answer) == IF answer = <<>> THEN 0 ELSE poller.offset

PollAnswered ==
    /\ poller.phase = "polling"
    /\ ~poller.stopping
    /\ LET answer == Answer(poller.offset)
       IN  /\ provider' = [provider EXCEPT !.pending = Kept(poller.offset),
                                           !.quiet = answer = <<>>]
           /\ poller' = [poller EXCEPT !.protocol = 0, !.batch = answer,
                                       !.phase = With(answer, "batch"),
                                       !.offset = OffsetAfter(answer)]
    /\ UNCHANGED <<cause, store, outside, faults, stops>>

\* decode_envelope and success_result: how an answer fails.
FailureKinds == {"transport", "protocol", "fatal"}
Retryable(kind) == kind # "fatal"
ProtocolFailure(kind) == kind = "protocol"

\* The call fails, before or after the provider has acted on its offset.
PollFails(kind, reached) ==
    /\ poller.phase = "polling"
    /\ ~poller.stopping
    /\ faults < MaxFaults
    /\ faults' = faults + 1
    /\ provider' = IF reached THEN [provider EXCEPT !.pending = Kept(poller.offset)]
                   ELSE provider
    /\ LET protocol == poller.protocol + (IF ProtocolFailure(kind) THEN 1 ELSE 0)
       IN  IF ~Retryable(kind) \/ protocol >= ProtocolBudget
           THEN /\ poller' = [Idle EXCEPT !.phase = "fatal"]
                /\ cause' = "provider"
           ELSE /\ poller' = [poller EXCEPT !.protocol = protocol]
                /\ UNCHANGED cause
    /\ UNCHANGED <<store, outside, stops>>

\* The loop sees the stop signal between two calls.
StopSeen ==
    /\ poller.phase = "polling"
    /\ poller.stopping
    /\ poller' = Idle
    /\ UNCHANGED <<provider, cause, store, outside, faults, stops>>

-----------------------------------------------------------------------------
(* One update: process_update, ensure_first_binding and classify. *)

Working == poller.phase \in {"initial", "batch"}
Current == Head(poller.batch)

\* process_batch: the offset moves past an update once it is classified.
Advance ==
    /\ poller' = [poller EXCEPT !.batch = Tail(@), !.at = 0, !.offset = Current.id + 1,
                                !.phase = With(Tail(poller.batch), @)]
    /\ UNCHANGED cause

\* A retryable failure re-polls from the same offset; any failure of the
\* initial batch, and every other failure, ends the driver.
Fail(kind) ==
    IF kind = "retryable" /\ poller.phase = "batch"
    THEN /\ poller' = [poller EXCEPT !.batch = <<>>, !.at = 0, !.phase = "polling"]
         /\ UNCHANGED cause
    ELSE /\ poller' = [Idle EXCEPT !.phase = "fatal"]
         /\ cause' = kind

\* ensure_binding_inner: one transaction that finds or makes the binding
\* of the owner's chat; an inactive account is a conflict.
TopologyExact == account = "active"

BindChat == bound' = (bound \/ (Current.shape \in TextShapes /\ TopologyExact))

\* map_sqlx reports a failed statement as a conflict.
BindConflicts ==
    /\ Current.shape \in TextShapes
    /\ "statement" \in StorageFaults
    /\ faults < MaxFaults
    /\ faults' = faults + 1
    /\ UNCHANGED bound

\* process reads the clock; text of the owner binds the chat first, and
\* normalize goes on after a conflict.
Normalize ==
    /\ Working
    /\ poller.at = 0
    /\ poller' = [poller EXCEPT !.at = now]
    /\ (BindChat /\ UNCHANGED faults) \/ BindConflicts
    /\ UNCHANGED <<provider, cause, inbox, works, cancels, acks, outside, stops>>

\* SQLite is busy or unreadable when a transaction begins: in
\* ensure_first_binding (the clock is read, nothing written) or in classify.
StorageFails ==
    /\ Working
    /\ poller.at = 0 => Current.shape \in TextShapes
    /\ "begin" \in StorageFaults
    /\ faults < MaxFaults
    /\ faults' = faults + 1
    /\ Fail("retryable")
    /\ UNCHANGED <<provider, store, outside, stops>>

\* The digest covers what the provider said, not when it was observed.
Material(u, at) == <<u.shape, u.msg>>

\* load_existing_by_event and load_existing_by_message.
Existing(u) == {r \in inbox : r.id = u.id \/ (u.msg # 0 /\ r.msg = u.msg)}

\* resolve_authorized_topology: the owner, in the bound chat.
AccountActive == account = "active"

Authorized(u) == AccountActive /\ bound /\ u.shape \in OwnerShapes

ClassOf(u) ==
    CASE ~Authorized(u) -> "rejected"
      [] u.shape = "text" -> "message"
      [] u.shape = "control" -> "control"
      [] OTHER -> "unsupported"

Active(w) == works[w].state \in {"running", "cancel_requested"}
QueuedWorks == {w \in DOMAIN works : works[w].state = "queued"}

\* select_control_target: the active work, else the first queued one.
ControlTarget ==
    LET active == {w \in DOMAIN works : Active(w)}
    IN  CASE active # {} -> Min(active)
          [] active = {} /\ QueuedWorks # {} -> Min(QueuedWorks)
          [] OTHER -> 0

\* apply_cancellation_decision: an event unless one was already requested.
Cancel(w, by, at) ==
    CASE works[w].state = "queued" ->
           /\ works' = [works EXCEPT ![w].state = "cancelled"]
           /\ cancels' = cancels \cup {[work |-> w, kind |-> "cancelled", by |-> by, at |-> at]}
      [] works[w].state = "running" ->
           /\ works' = [works EXCEPT ![w].state = "cancel_requested"]
           /\ cancels' = cancels \cup {[work |-> w, kind |-> "requested", by |-> by, at |-> at]}
      [] OTHER -> UNCHANGED <<works, cancels>>

Insert(u, class, target) ==
    inbox' = inbox \cup {[id |-> u.id, msg |-> u.msg, material |-> Material(u, poller.at),
                          class |-> class, target |-> target, at |-> poller.at]}

ClassifyMessage(u) ==
    /\ Insert(u, "message", 0)
    /\ works' = Append(works, [from |-> u.id, state |-> "queued"])
    /\ UNCHANGED <<cancels, acks>>

ClassifyControl(u) ==
    /\ Insert(u, "control", ControlTarget)
    /\ acks' = acks \cup {u.id}
    /\ IF ControlTarget = 0 THEN UNCHANGED <<works, cancels>>
       ELSE Cancel(ControlTarget, u.id, poller.at)

\* duplicate_outcome: an exact replay has the outcome of the first delivery.
Replay(u, r) ==
    /\ IF r.material = Material(u, poller.at) THEN Advance ELSE Fail("contradictory")
    /\ UNCHANGED store

FirstDelivery(u) ==
    /\ Advance
    /\ UNCHANGED bound
    /\ CASE ClassOf(u) = "message" -> ClassifyMessage(u)
         [] ClassOf(u) = "control" -> ClassifyControl(u)
         [] OTHER -> Insert(u, ClassOf(u), 0) /\ UNCHANGED <<works, cancels, acks>>

\* classify_inner: one transaction.
Classify ==
    /\ Working
    /\ poller.at # 0
    /\ poller.admitting
    /\ LET u == Current
           existing == Existing(u)
       IN  CASE Cardinality(existing) > 1 -> Fail("state") /\ UNCHANGED store
             [] Cardinality(existing) = 1 -> \E r \in existing : Replay(u, r)
             [] OTHER -> FirstDelivery(u)
    /\ UNCHANGED <<provider, outside, faults, stops>>

\* The process has failed and admission is closed: Unavailable.
ClassifyRefused ==
    /\ Working
    /\ poller.at # 0
    /\ ~poller.admitting
    /\ Fail("retryable")
    /\ UNCHANGED <<provider, store, outside, faults, stops>>

-----------------------------------------------------------------------------
(* The rest of the process, the operator and the clock. *)

\* Another part of the process fails: it closes the admission of mutations
\* and asks for the shutdown, which stops the driver.
ProcessFails ==
    /\ poller.phase \in {"initial", "polling", "batch"}
    /\ poller.admitting
    /\ faults < MaxFaults
    /\ faults' = faults + 1
    /\ poller' = [poller EXCEPT !.admitting = FALSE]
    /\ UNCHANGED <<provider, cause, store, outside, stops>>

FailedProcessStops ==
    /\ ~poller.admitting
    /\ ~poller.stopping
    /\ poller' = [poller EXCEPT !.stopping = TRUE]
    /\ UNCHANGED <<provider, cause, store, outside, faults, stops>>

\* shutdown_before: the batch in hand is finished, no further call is made.
Stop ==
    /\ poller.phase \in {"polling", "batch"}
    /\ ~poller.stopping
    /\ stops < MaxStops
    /\ stops' = stops + 1
    /\ poller' = [poller EXCEPT !.stopping = TRUE]
    /\ UNCHANGED <<provider, cause, store, outside, faults>>

\* A crash, or the abort at the end of the shutdown budget.
Crash ==
    /\ poller.phase \notin {"down", "fatal", "refused"}
    /\ stops < MaxStops
    /\ stops' = stops + 1
    /\ poller' = Idle
    /\ UNCHANGED <<provider, cause, store, outside, faults>>

\* disable_channel_account: the admin tool needs the process to be down.
AdminDisables ==
    /\ CanDisable
    /\ poller.phase = "down"
    /\ account = "active"
    /\ account' = "disabled"
    /\ UNCHANGED <<provider, sent, poller, cause, store, now, faults, stops>>

\* The scheduler runs the first queued work when none is active.
WorkStarts ==
    /\ poller.phase \in {"initial", "polling", "batch"}
    /\ \A w \in DOMAIN works : ~Active(w)
    /\ QueuedWorks # {}
    /\ works' = [works EXCEPT ![Min(QueuedWorks)].state = "running"]
    /\ UNCHANGED <<provider, poller, cause, inbox, bound, cancels, acks, outside, faults, stops>>

WorkEnds(w) ==
    /\ Active(w)
    /\ works' = [works EXCEPT ![w].state = "ended"]
    /\ UNCHANGED <<provider, poller, cause, inbox, bound, cancels, acks, outside, faults, stops>>

DeviceCancels(w) ==
    /\ Devices
    /\ poller.phase \in {"initial", "polling", "batch"}
    /\ works[w].state \in {"queued", "running"}
    /\ Cancel(w, 0, now)
    /\ UNCHANGED <<provider, poller, cause, inbox, bound, acks, outside, faults, stops>>

Tick ==
    /\ now < MaxClock
    /\ now' = now + 1
    /\ UNCHANGED <<provider, sent, poller, cause, store, account, faults, stops>>

Next ==
    \/ \E shape \in Shapes : Arrives(shape)
    \/ QuietWeek
    \/ Restart
    \/ IdentityVerified
    \/ \E retryable \in BOOLEAN : StartupCallFails(retryable)
    \/ Probe
    \/ PollAnswered
    \/ \E kind \in FailureKinds, reached \in BOOLEAN :
          PollFails(kind, reached)
    \/ StopSeen
    \/ Normalize
    \/ StorageFails
    \/ Classify
    \/ ClassifyRefused
    \/ ProcessFails
    \/ FailedProcessStops
    \/ Stop
    \/ Crash
    \/ AdminDisables
    \/ WorkStarts
    \/ \E w \in DOMAIN works : WorkEnds(w) \/ DeviceCancels(w)
    \/ Tick

Spec == Init /\ [][Next]_vars

\* The driver task and the process supervisor keep running; faults and
\* stops are finite, so the provider and the store answer in the end.
Fairness ==
    /\ WF_vars(Restart)
    /\ WF_vars(IdentityVerified)
    /\ WF_vars(Probe)
    /\ WF_vars(PollAnswered)
    /\ WF_vars(StopSeen)
    /\ WF_vars(Normalize)
    /\ WF_vars(Classify)
    /\ WF_vars(ClassifyRefused)
    /\ WF_vars(FailedProcessStops)

FairSpec == Spec /\ Fairness

-----------------------------------------------------------------------------
(* Properties. *)

Phases == {"down", "identity", "probe", "initial", "polling", "batch", "fatal", "refused"}

\* Every variable holds values of its type.
TypeOK ==
    /\ provider.pending \subseteq sent
    /\ sent \subseteq Updates
    /\ poller.phase \in Phases
    /\ poller.offset \in 0 .. FirstId + MaxUpdates
    /\ poller.at \in 0 .. MaxClock
    /\ poller.budget \in 0 .. StartupBudget - 1
    /\ poller.protocol \in 0 .. ProtocolBudget - 1
    /\ cause \in {"none", "provider", "retryable", "state", "contradictory"}
    /\ \A r \in inbox : r.id \in 1 .. FirstId + MaxUpdates /\ r.at \in 1 .. MaxClock
    /\ account \in {"active", "disabled"}
    /\ Working => poller.batch # <<>>

Classified(u) == \E r \in inbox : r.id = u.id \/ (u.msg # 0 /\ r.msg = u.msg)

\* polling.rs process_batch acknowledges an update by the offset of a later
\* call, so whatever the provider has forgotten is durably classified, across
\* crashes, retries, lost answers and a restarted numbering.
NoUpdateLost == \A u \in sent : u \in provider.pending \/ Classified(u)

\* sqlite/channel_ingress.rs classify_inner: however often an update is
\* delivered, it makes one work, or one cancellation and one acknowledgement.
EffectsOnce ==
    /\ \A v, w \in DOMAIN works : works[v].from = works[w].from => v = w
    /\ \A c, d \in cancels : c.by = d.by /\ c.by # 0 => c = d
    /\ acks = {r.id : r \in {q \in inbox : q.class = "control"}}

Creation(id) == (CHOOSE u \in sent : u.id = id).n

\* Works are admitted in the order in which the owner wrote them: a failed
\* update is retried before anything behind it (polling.rs process_batch).
AdmittedInOrder ==
    \A v, w \in DOMAIN works : v < w => Creation(works[v].from) < Creation(works[w].from)

\* A redelivered update is recognised: only the provider, or a storage
\* failure during startup, ends the driver (application/channel_ingress.rs
\* material_digest leaves the time of observation out).
ReplayIsHarmless == cause \notin {"state", "contradictory"}

\* An edit of an accepted message is recorded like any other unsupported
\* update (telegram/tests.rs:2071) and does not end the driver.
EditsAreDurable ==
    ~(cause = "contradictory" /\ \E u \in provider.pending : u.shape = "edit")

\* sqlite/channel_ingress.rs verify_channel_ingress_consistency accepts every
\* store the ingress can commit, so the next start is not refused.
StoreVerifies == StoreConsistent

\* polling.rs:255: a storage failure is never turned into an acknowledgement:
\* text of the owner is rejected only when the account is disabled.
OwnerIsAdmitted ==
    \A r \in inbox : \A u \in sent :
        r.id = u.id /\ u.shape \in TextShapes /\ account = "active" => r.class # "rejected"

\* A control is aimed at the active work, or else at the oldest queued one:
\* whatever it cancelled was at the head when it was classified, so no
\* earlier work is still waiting (sqlite/channel_ingress.rs select_control_target).
ControlAimsAtHead ==
    \A c \in cancels : c.by # 0 => \A w \in DOMAIN works : w < c.work => works[w].state # "queued"

\* Every update is classified in the end, unless the account is disabled
\* (polling.rs run_poller).
AllClassified == account = "disabled" \/ \A u \in sent : Classified(u)
EveryUpdateClassified == []<>AllClassified

=============================================================================
