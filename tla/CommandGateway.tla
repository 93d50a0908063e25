--------------------------- MODULE CommandGateway ---------------------------
(***************************************************************************)
(* Client commands, from the HTTP handlers through authentication, the     *)
(* command gateway and the admission gate to the SQLite transaction that   *)
(* writes the effect and its receipt: src/backend/src/adapters/http.rs,    *)
(* application/authentication.rs, command_gateway.rs, command_service.rs,  *)
(* transport.rs and adapters/sqlite/stage9.rs.  Handlers of several        *)
(* requests interleave at their awaits.  A request may time out or lose    *)
(* its connection at any await, the service may crash or drain, and a      *)
(* client may send the same command again or reuse its key.                *)
(*                                                                         *)
(* A message and the work it creates share an index.  A request hash is    *)
(* the material it is computed from: SHA-256 over length-prefixed fields   *)
(* is taken to be injective.  Works move on their own between commands;    *)
(* the Engine modules describe how.                                        *)
(***************************************************************************)
EXTENDS Naturals, Sequences, FiniteSets

CONSTANTS
    Devices, Keys, Texts,
    Conversations, Primary,   \* the conversations a request may name
    Targets,                  \* the works a cancellation may name
    Validity,                 \* {TRUE}, or BOOLEAN with malformed requests
    NoDevice,                 \* actor of events the runtime itself records
    NoRow,                    \* no client_commands row
    Clock,                    \* "distinct": readings increase; "any": no order
    MaxWorks, MaxRequests, MaxClock, MaxRestarts, MaxAttemptEvents

GatewayConstants ==
    /\ Primary \in Conversations
    /\ NoDevice \notin Devices
    /\ Targets \subseteq Nat /\ Validity \subseteq BOOLEAN
    /\ Clock \in {"distinct", "any"}
    /\ MaxWorks \in Nat /\ MaxRequests \in Nat /\ MaxClock \in Nat
    /\ MaxRestarts \in Nat /\ MaxAttemptEvents \in Nat

VARIABLES
    health,     \* "down" while no process runs, else the Health state
    admission,  \* MutationAdmission: "open", "closing" (writer waits), "closed"
    restarts, clock,
    devices,    \* client_devices
    works,      \* work_items joined with the message that triggered each
    journal,    \* journal_events; the offset of an event is its index
    commands,   \* client_commands, by device and idempotency key
    published,  \* cursors handed to the broadcaster after a commit
    requests    \* every request a client has sent, with its handler's state

vars == <<health, admission, restarts, clock, devices, works, journal, commands,
          published, requests>>

store == <<works, journal, commands>>

-----------------------------------------------------------------------------
Identities == Devices \X Keys

Terminal == {"completed", "failed", "cancelled", "interrupted"}

States == {"queued", "running", "cancel_requested"} \cup Terminal

HealthStates == {"down", "live_unready", "ready", "draining", "fatal"}

\* CommandRequestHash::for_message and for_cancellation.
MessageHash(k, conv, text) == <<"message", k, conv, text>>

CancelHash(k, w) == <<"cancel", k, w>>

Hash(q) == IF q.kind = "message" THEN MessageHash(q.key, q.conv, q.body)
                                 ELSE CancelHash(q.key, q.body)

\* MessageCommandReceipt and CancellationCommandReceipt: a message receipt
\* always says "queued", cleanup is pending exactly in "cancel_requested".
Receipt(w, state, cursor) == [work |-> w, state |-> state, cursor |-> cursor]

CleanupPending(receipt) == receipt.state = "cancel_requested"

\* http_status, stored beside the receipt.
HttpStatus(kind, receipt) == IF kind = "message" \/ CleanupPending(receipt) THEN 202 ELSE 200

Event(type, w, actor, from, to, at) ==
    [type |-> type, work |-> w, actor |-> actor, from |-> from, to |-> to, at |-> at]

Finished(code) == [code |-> code, replay |-> FALSE, receipt |-> NoRow]

Pending == Finished("pending")

Answered(outcome) == outcome.code = "receipt"

\* The clock is read once per command, before the write transaction begins.
Reads(t) ==
    IF Clock = "distinct" THEN clock < MaxClock /\ t = clock + 1 /\ clock' = t
                          ELSE t \in 1..MaxClock /\ UNCHANGED clock

\* The reading a request is authenticated with is no command's.
Observed == IF Clock = "distinct" THEN {clock} ELSE 1..MaxClock

-----------------------------------------------------------------------------
(* Device credentials.  Provisioning and revocation are craxii-admin's,      *)
(* which holds the state-root lock the service holds while it runs.          *)

NoDeviceRow == [state |-> "absent", created |-> 0, seen |-> 0, revoked |-> 0]

AdminOffline == health = "down"

\* provision_device_inner
Provision(d) ==
    /\ AdminOffline
    /\ devices[d].state = "absent"
    /\ \E t \in 1..MaxClock :
          /\ Reads(t)
          /\ devices' = [devices EXCEPT ![d] =
                [state |-> "active", created |-> t, seen |-> 0, revoked |-> 0]]
    /\ UNCHANGED <<health, admission, restarts, store, published, requests>>

\* revoke_device_inner: refused when the clock stands before the creation.
Revocable(d, t) == devices[d].state = "active" /\ t >= devices[d].created

Revoke(d) ==
    /\ AdminOffline
    /\ \E t \in 1..MaxClock :
          /\ Reads(t)
          /\ Revocable(d, t)
          /\ devices' = [devices EXCEPT ![d].state = "revoked", ![d].revoked = t]
    /\ UNCHANGED <<health, admission, restarts, store, published, requests>>

\* touch_device_inner: last_seen_at only moves forward, never before creation.
Touched(row, t) ==
    IF row.state = "active" /\ row.created <= t /\ row.seen < t
    THEN [row EXCEPT !.seen = t] ELSE row

-----------------------------------------------------------------------------
(* The client and the HTTP layer.                                            *)

\* A client's request: a new command, a retry, or a reused key.  It is valid when
\* its headers and body parse and the idempotency key is the identity in the body.
Request(d, k, valid, kind, conv, body) ==
    [device |-> d, key |-> k, valid |-> valid, kind |-> kind, conv |-> conv, body |-> body,
     pc |-> "checked", at |-> 0, outcome |-> Pending]

\* A request that ends without a receipt leaves its answer and nothing else.
Spent(q, code) ==
    [q EXCEPT !.pc = "done", !.device = NoDevice, !.key = NoRow, !.kind = "spent",
              !.body = NoRow, !.at = 0, !.outcome = Finished(code)]

Ended(i, code) == [requests EXCEPT ![i] = Spent(requests[i], code)]

\* The handler is dropped: what it committed, if anything, is not answered.
Dropped(q) ==
    IF q.pc = "stored" THEN [q EXCEPT !.pc = "done", !.outcome.code = "abandoned"]
                       ELSE Spent(q, "abandoned")

\* authenticate, DeviceAuthenticator::authenticate: an unknown or revoked device
\* is turned away.
Authentic(q) == devices[q.device].state = "active"

\* A message needs a ready service; a cancellation is taken as soon as it lives.
HealthAllows(kind) ==
    health = "ready" \/ (kind = "cancel" /\ health = "live_unready")

\* submit_message, cancel_work and the gateway up to the lock of the admission
\* gate: what a request meets before the first wait its effect depends on.
Entered(q) ==
    CASE ~Authentic(q) -> Spent(q, "authentication_failed")
      [] Authentic(q) /\ ~q.valid -> Spent(q, "invalid_request")
      [] Authentic(q) /\ q.valid /\ (~HealthAllows(q.kind) \/ admission # "open") ->
             Spent(q, "service_unavailable")
      [] OTHER -> q

\* A request arrives; an active device is seen (best effort).
Submit(q) ==
    /\ health # "down"
    /\ Len(requests) < MaxRequests
    /\ requests' = Append(requests, Entered(q))
    /\ \E t \in Observed :
          devices' = [devices EXCEPT ![q.device] = Touched(devices[q.device], t)]
    /\ UNCHANGED <<health, admission, restarts, clock, store, published>>

\* MutationAdmission::admit after its first check: the read lock waits behind a
\* waiting writer, and the flag is read again under it.
AlwaysAdmits == TRUE

StillAccepting == admission = "open"

TakePermit(i) ==
    /\ requests[i].pc = "checked"
    /\ admission # "closing"
    /\ \/ /\ StillAccepting
          /\ \E t \in 1..MaxClock :
                /\ Reads(t)
                /\ requests' = [requests EXCEPT ![i].pc = "permitted", ![i].at = t]
       \/ /\ ~StillAccepting
          /\ requests' = Ended(i, "service_unavailable")
          /\ UNCHANGED clock
    /\ UNCHANGED <<health, admission, restarts, devices, store, published>>

-----------------------------------------------------------------------------
(* The transaction, accept_message_inner and cancellation_inner.             *)

Identity(q) == <<q.device, q.key>>

UncheckedMatch(row, q) == TRUE

\* validate_command_match: the row under this key is for this very command.
CommandMatches(row, q) == row.kind = q.kind /\ row.hash = Hash(q)

Row(q, receipt) ==
    [kind |-> q.kind, hash |-> Hash(q), status |-> HttpStatus(q.kind, receipt),
     receipt |-> receipt, at |-> q.at]

\* decode_message_receipt and decode_cancellation_receipt accept the stored row.
ReceiptDecodes(row) ==
    /\ row.status = HttpStatus(row.kind, row.receipt)
    /\ row.receipt.state \in (IF row.kind = "message" THEN {"queued"}
                              ELSE {"cancel_requested"} \cup Terminal)

Outcome(replay, receipt) == [code |-> "receipt", replay |-> replay, receipt |-> receipt]

\* load_command_row finds a row: the stored receipt again, or a conflict.
Replay(i) ==
    LET q == requests[i]
        row == commands[Identity(q)] IN
    /\ row # NoRow
    /\ CommandMatches(row, q) => ReceiptDecodes(row)
    /\ requests' =
          IF CommandMatches(row, q)
          THEN [requests EXCEPT ![i].pc = "stored", ![i].outcome = Outcome(TRUE, row.receipt)]
          ELSE Ended(i, "idempotency_conflict")
    /\ UNCHANGED <<health, store>>

\* load_message_topology: any other conversation, or a device revoked by now,
\* counts as an inconsistent database, which is fatal for the service.
TopologyHolds(q) == q.conv = Primary /\ devices[q.device].state = "active"

Rejected(i) ==
    /\ commands[Identity(requests[i])] = NoRow
    /\ requests[i].kind = "message"
    /\ ~TopologyHolds(requests[i])
    /\ requests' = Ended(i, "internal")
    /\ health' = "fatal"
    /\ UNCHANGED store

\* admit_canonical_message: message and work rows, message.accepted and
\* work.queued; the receipt carries the offset of the second.
AdmittedEvents(w, q) ==
    << Event("message_accepted", w, q.device, "none", "none", q.at),
       Event("work_queued", w, NoDevice, "none", "queued", q.at) >>

AcceptMessage(i) ==
    LET q == requests[i]
        w == Len(works) + 1
        receipt == Receipt(w, "queued", Len(journal) + 2) IN
    /\ commands[Identity(q)] = NoRow
    /\ q.kind = "message"
    /\ TopologyHolds(q)
    /\ w <= MaxWorks
    /\ works' = Append(works, [state |-> "queued", device |-> q.device, key |-> q.key,
                               text |-> q.body, at |-> q.at, input |-> Len(journal) + 1])
    /\ journal' = journal \o AdmittedEvents(w, q)
    /\ commands' = [commands EXCEPT ![Identity(q)] = Row(q, receipt)]
    /\ requests' = [requests EXCEPT ![i].pc = "stored", ![i].outcome = Outcome(FALSE, receipt)]
    /\ UNCHANGED health

\* load_cancellation_work: the work must exist and the device be live.
TargetFound(q) == q.body \in 1..Len(works) /\ devices[q.device].state = "active"

TargetMissing(i) ==
    /\ commands[Identity(requests[i])] = NoRow
    /\ requests[i].kind = "cancel"
    /\ ~TargetFound(requests[i])
    /\ requests' = Ended(i, "not_found")
    /\ UNCHANGED <<health, store>>

\* decide_cancellation: queued work is cancelled at once, running work is asked
\* to stop, anything later is left as it is.
CancellationResult(state) ==
    CASE state = "queued" -> "cancelled"
      [] state = "running" -> "cancel_requested"
      [] OTHER -> state

CancelType(to) == IF to = "cancelled" THEN "work_cancelled" ELSE "work_cancel_requested"

\* apply_cancellation_decision appends one event when the state changes.
CancellationEvents(w, q) ==
    LET from == works[w].state
        to == CancellationResult(from) IN
    IF from = to THEN <<>> ELSE <<Event(CancelType(to), w, q.device, from, to, q.at)>>

\* The receipt's cursor is the new event's offset, or the head of the journal.
FaultyCursor(w, q) == Len(journal)

CancellationCursor(w, q) == Len(journal) + Len(CancellationEvents(w, q))

CancelWork(i) ==
    LET q == requests[i]
        w == q.body
        to == CancellationResult(works[w].state)
        receipt == Receipt(w, to, CancellationCursor(w, q)) IN
    /\ commands[Identity(q)] = NoRow
    /\ q.kind = "cancel"
    /\ TargetFound(q)
    /\ works' = [works EXCEPT ![w].state = to]
    /\ journal' = journal \o CancellationEvents(w, q)
    /\ commands' = [commands EXCEPT ![Identity(q)] = Row(q, receipt)]
    /\ requests' = [requests EXCEPT ![i].pc = "stored", ![i].outcome = Outcome(FALSE, receipt)]
    /\ UNCHANGED health

\* SQLite refuses a statement or the commit: the transaction is rolled back.
StoreFails(i) ==
    /\ requests' = Ended(i, "service_unavailable")
    /\ UNCHANGED <<health, store>>

Transact(i) ==
    /\ requests[i].pc = "permitted"
    /\ \/ Replay(i)
       \/ Rejected(i)
       \/ AcceptMessage(i)
       \/ TargetMissing(i)
       \/ CancelWork(i)
       \/ StoreFails(i)
    /\ UNCHANGED <<admission, restarts, clock, devices, published>>

\* CommandService after the store: only a first commit is announced, and not the
\* one that found the work already ended some other way.
Announced(outcome) ==
    ~outcome.replay /\ outcome.receipt.state \in {"queued", "cancel_requested", "cancelled"}

PostCommit(i) ==
    LET outcome == requests[i].outcome IN
    /\ requests[i].pc = "stored"
    /\ published' = IF Announced(outcome) THEN published \cup {outcome.receipt.cursor}
                                          ELSE published
    /\ requests' = [requests EXCEPT ![i].pc = "done"]
    /\ UNCHANGED <<health, admission, restarts, clock, devices, store>>

\* COMMAND_TIMEOUT elapses or the client disconnects: the handler is dropped at
\* the await it is in, and with it an open transaction.  A commit SQLite has
\* already executed stays, without its announcement.
Live(q) == q.pc # "done"

Abandon(i) ==
    /\ Live(requests[i])
    /\ requests' = [requests EXCEPT ![i] = Dropped(requests[i])]
    /\ UNCHANGED <<health, admission, restarts, clock, devices, store, published>>

-----------------------------------------------------------------------------
(* The rest of the service, as far as commands meet it.                      *)

\* mark_ready by the scheduler, mark_draining by shutdown.
MarkReady ==
    /\ health = "live_unready"
    /\ health' = "ready"
    /\ UNCHANGED <<admission, restarts, clock, devices, store, published, requests>>

BeginDrain ==
    /\ health \in {"live_unready", "ready"}
    /\ health' = "draining"
    /\ UNCHANGED <<admission, restarts, clock, devices, store, published, requests>>

\* close_and_wait, called by shutdown: the flag falls, then the writer waits for
\* the permits still out.
CloseAdmission ==
    /\ health \in {"draining", "fatal"}
    /\ admission = "open"
    /\ admission' = "closing"
    /\ UNCHANGED <<health, restarts, clock, devices, store, published, requests>>

HoldsPermit(q) == q.pc \in {"permitted", "stored"}

Quiesce ==
    /\ admission = "closing"
    /\ \A i \in 1..Len(requests) : ~HoldsPermit(requests[i])
    /\ admission' = "closed"
    /\ UNCHANGED <<health, restarts, clock, devices, store, published, requests>>

\* The runtime works on an item; completed stands for failed and interrupted too.
RuntimeTarget(state) ==
    CASE state = "queued" -> {"running"}
      [] state = "running" -> {"completed"}
      [] state = "cancel_requested" -> {"cancelled", "interrupted"}
      [] OTHER -> {}

RuntimeStep(w) ==
    /\ health # "down"
    /\ \E to \in RuntimeTarget(works[w].state) :
          /\ works' = [works EXCEPT ![w].state = to]
          /\ journal' = Append(journal,
                Event("work_transition", w, NoDevice, works[w].state, to, 0))
    /\ UNCHANGED <<health, admission, restarts, clock, devices, commands, published, requests>>

\* An attempt of an active work records an event of its own.
AttemptEvents == {o \in 1..Len(journal) : journal[o].type = "attempt"}

RuntimeRecords(w) ==
    /\ health # "down"
    /\ works[w].state \in {"running", "cancel_requested"}
    /\ Cardinality(AttemptEvents) < MaxAttemptEvents
    /\ journal' = Append(journal, Event("attempt", w, NoDevice, "none", "none", 0))
    /\ UNCHANGED <<health, admission, restarts, clock, devices, works, commands, published,
                   requests>>

\* The process ends, after a drain or in a crash: every handler is gone.
Stop ==
    /\ health # "down"
    /\ health' = "down"
    /\ admission' = "open"
    /\ requests' = [i \in 1..Len(requests) |->
          IF Live(requests[i]) THEN Dropped(requests[i]) ELSE requests[i]]
    /\ UNCHANGED <<restarts, clock, devices, store, published>>

-----------------------------------------------------------------------------
(* verify_stage9_consistency, run at every start over the database as it is. *)

\* verify_devices
DeviceVerified(d) ==
    LET row == devices[d] IN
    row.state # "absent" =>
        /\ row.seen # 0 => row.seen >= row.created
        /\ row.state = "revoked" => row.revoked >= row.created

\* verify_message_command: one message under this key, and its work, its trigger
\* and its work.queued event are the ones the receipt names.
TriggerVerified(c, w) ==
    LET accepted == journal[works[w].input] IN
    accepted.type = "message_accepted" /\ accepted.work = w /\ accepted.actor = c[1]

QueuedVerified(c, w) ==
    LET queued == journal[commands[c].receipt.cursor] IN
    queued.type = "work_queued" /\ queued.work = w

MessageVerified(c) ==
    LET row == commands[c]
        w == row.receipt.work
        sent == {v \in 1..Len(works) : <<works[v].device, works[v].key>> = c} IN
    /\ sent = {w}
    /\ works[w].at = row.at
    /\ row.hash = MessageHash(c[2], Primary, works[w].text)
    /\ TriggerVerified(c, w)
    /\ QueuedVerified(c, w)

\* cancellation_transition: the events a client's cancellation may write.
UserCancellation(e) ==
    \/ e.type = "work_cancel_requested" /\ e.from = "running"
    \/ e.type = "work_cancelled" /\ e.from = "queued"

\* cancellation_event_matches_command_material
CausedBy(e, c) ==
    LET row == commands[c] IN
    /\ UserCancellation(e)
    /\ e.work = row.receipt.work
    /\ e.to = row.receipt.state
    /\ e.at = row.at
    /\ e.actor = c[1]

\* The work was already there: some event up to the cursor brought it there.
CompatibleNoOp(c) ==
    LET row == commands[c]
        w == row.receipt.work
        state == row.receipt.state
        reached == \E o \in 1..row.receipt.cursor :
                      journal[o].work = w /\ journal[o].to = state IN
    \/ /\ state = "cancel_requested"
       /\ works[w].state \in {"cancel_requested"} \cup Terminal
       /\ reached
    \/ state \in Terminal /\ works[w].state = state /\ reached

\* verify_cancellation_command
CancellationVerified(c) ==
    LET row == commands[c] IN
    /\ row.hash = CancelHash(c[2], row.receipt.work)
    /\ \/ CausedBy(journal[row.receipt.cursor], c)
       \/ /\ ~ \E o \in 1..Len(journal) : CausedBy(journal[o], c)
          /\ CompatibleNoOp(c)

\* verify_stage9_cancellation_events: each has a device and a command behind it.
CancellationEventVerified(o) ==
    UserCancellation(journal[o]) =>
        /\ journal[o].actor \in Devices
        /\ \E c \in Identities :
              /\ commands[c] # NoRow
              /\ commands[c].kind = "cancel"
              /\ commands[c].receipt.cursor = o
              /\ CausedBy(journal[o], c)

Stage9Consistent ==
    /\ \A d \in Devices : DeviceVerified(d)
    /\ \A c \in Identities :
          commands[c] # NoRow =>
              /\ devices[c[1]].state # "absent"
              /\ commands[c].receipt.cursor \in 1..Len(journal)
              /\ ReceiptDecodes(commands[c])
              /\ IF commands[c].kind = "message" THEN MessageVerified(c)
                                                 ELSE CancellationVerified(c)
    /\ \A o \in 1..Len(journal) : CancellationEventVerified(o)

StartService ==
    /\ health = "down"
    /\ restarts < MaxRestarts
    /\ Stage9Consistent
    /\ health' = "live_unready"
    /\ restarts' = restarts + 1
    /\ UNCHANGED <<admission, clock, devices, store, published, requests>>

-----------------------------------------------------------------------------
Init ==
    /\ health = "down"
    /\ admission = "open"
    /\ restarts = 0
    /\ clock = 0
    /\ devices = [d \in Devices |-> NoDeviceRow]
    /\ works = <<>>
    /\ journal = <<>>
    /\ commands = [c \in Identities |-> NoRow]
    /\ published = {}
    /\ requests = <<>>

ClientSends ==
    \E d \in Devices, k \in Keys, valid \in Validity :
        \/ \E conv \in Conversations, text \in Texts :
              Submit(Request(d, k, valid, "message", conv, text))
        \/ \E w \in Targets : Submit(Request(d, k, valid, "cancel", Primary, w))

HandlerStep(i) ==
    \/ TakePermit(i)
    \/ Transact(i)
    \/ PostCommit(i)

Next ==
    \/ \E d \in Devices : Provision(d) \/ Revoke(d)
    \/ ClientSends
    \/ \E i \in 1..Len(requests) : HandlerStep(i) \/ Abandon(i)
    \/ \E w \in 1..Len(works) : RuntimeStep(w) \/ RuntimeRecords(w)
    \/ MarkReady
    \/ BeginDrain
    \/ CloseAdmission
    \/ Quiesce
    \/ Stop
    \/ StartService

Spec == Init /\ [][Next]_vars

(* Handlers and the closing writer are polled until they are done, and the   *)
(* command timeout fires, while the process runs.                            *)
RequestRuns(i) == i \in 1..Len(requests) /\ (HandlerStep(i) \/ Abandon(i))
Fairness ==
    /\ \A i \in 1..MaxRequests : WF_vars(RequestRuns(i))
    /\ WF_vars(Quiesce)

LiveSpec == Spec /\ Fairness

-----------------------------------------------------------------------------
(* The tables and the requests, column by column.                            *)
DeviceRows ==
    [state : {"absent", "active", "revoked"}, created : Nat, seen : Nat, revoked : Nat]

WorkRows ==
    [state : States, device : Devices, key : Keys, text : Texts, at : Nat, input : Nat]

EventTypes ==
    {"message_accepted", "work_queued", "work_cancelled", "work_cancel_requested",
     "work_transition", "attempt"}

Events ==
    [type : EventTypes, work : Nat, actor : Devices \cup {NoDevice},
     from : States \cup {"none"}, to : States \cup {"none"}, at : Nat]

Hashes == ({"message"} \X Keys \X Conversations \X Texts) \cup ({"cancel"} \X Keys \X Targets)

Receipts == [work : Nat, state : States, cursor : Nat]

CommandRows ==
    [kind : {"message", "cancel"}, hash : Hashes, status : {200, 202}, receipt : Receipts,
     at : Nat]

Codes ==
    {"pending", "receipt", "abandoned", "authentication_failed", "invalid_request",
     "service_unavailable", "idempotency_conflict", "not_found", "internal"}

Outcomes == [code : Codes, replay : BOOLEAN, receipt : Receipts \cup {NoRow}]

Requests ==
    [device : Devices \cup {NoDevice}, key : Keys \cup {NoRow}, valid : BOOLEAN,
     kind : {"message", "cancel", "spent"}, conv : Conversations,
     body : Texts \cup Targets \cup {NoRow},
     pc : {"checked", "permitted", "stored", "done"}, at : Nat, outcome : Outcomes]

Decisions == [hash : Hashes, receipt : Receipts]

(* The bounds are numbers, and the value for no row is not a row.            *)
ASSUME GatewayAssumption ==
    GatewayConstants /\ NoRow \notin CommandRows /\ NoRow \notin Decisions

(* The variables have their types, and offsets stay inside the journal.      *)
TypeOK ==
    /\ health \in HealthStates
    /\ admission \in {"open", "closing", "closed"}
    /\ restarts \in 0..MaxRestarts /\ clock \in 0..MaxClock
    /\ devices \in [Devices -> DeviceRows]
    /\ works \in Seq(WorkRows) /\ journal \in Seq(Events)
    /\ commands \in [Identities -> CommandRows \cup {NoRow}]
    /\ requests \in Seq(Requests)
    /\ \A w \in 1..Len(works) : works[w].input \in 1..Len(journal)
    /\ \A c \in Identities :
          commands[c] # NoRow => /\ commands[c].receipt.work \in 1..Len(works)
                                 /\ commands[c].receipt.cursor \in 1..Len(journal)
    /\ published \subseteq 1..Len(journal)

(* The promise of CommandLedger, read off the rows and the answers sent.     *)
Decision(row) == [hash |-> row.hash, receipt |-> row.receipt]

ToldBy(q) == <<Identity(q), [hash |-> Hash(q), receipt |-> q.outcome.receipt]>>

Ledger == INSTANCE CommandLedger WITH
    Commands <- Identities,
    Undecided <- NoRow,
    ledger <- [c \in Identities |->
                  IF commands[c] = NoRow THEN NoRow ELSE Decision(commands[c])],
    told <- {ToldBy(requests[i]) : i \in
                {j \in 1..Len(requests) :
                    requests[j].pc = "done" /\ Answered(requests[j].outcome)}}

(* A command is decided once, and every answer with a receipt, first or       *)
(* replayed, gives the decided receipt for exactly the material decided, over *)
(* retries, reused keys, timeouts, lost connections, crashes and restarts     *)
(* (accept_message_inner, cancellation_inner and submit_message's reply).     *)
LedgerStep == [Ledger!LedgerNext]_(Ledger!ledgerVars)
ImplementsLedger == Ledger!LedgerInit /\ [][LedgerStep]_vars

(* verify_stage9_consistency accepts every database the service can leave     *)
(* behind, whenever it stops: it never keeps the service from starting.       *)
StartupAccepts == Stage9Consistent

(* The device rows among them pass verify_devices whatever the wall clock     *)
(* does between provisioning, authentication and revocation.                  *)
DevicesVerified == \A d \in Devices : DeviceVerified(d)

(* Once close_and_wait has returned, no command changes the database or       *)
(* announces anything: shutdown reads the last of them.                       *)
QuietWhenClosed ==
    (admission = "closed" /\ health # "down") => UNCHANGED <<commands, published>>
ClosedMeansQuiet == [][QuietWhenClosed]_vars

(* A commit that must be announced to the stream and the scheduler has been,  *)
(* or the handler that made it still will, or was dropped: the only case in   *)
(* which the journal itself has to be found by polling.                       *)
AnnouncementOwed(c) ==
    \E i \in 1..Len(requests) :
        /\ Identity(requests[i]) = c
        /\ requests[i].pc = "stored" \/ requests[i].outcome.code = "abandoned"
        /\ ~requests[i].outcome.replay
        /\ requests[i].outcome.receipt = commands[c].receipt

AnnouncedOrOwed ==
    \A c \in Identities :
        (commands[c] # NoRow /\ commands[c].receipt.state \in {"queued", "cancel_requested"})
            => \/ commands[c].receipt.cursor \in published
               \/ AnnouncementOwed(c)

(* What a cancellation receipt says stays true: no cleanup pending means that *)
(* the work is in the final state it names for good, and a pending one means  *)
(* that the work has since stopped or still has to (docs/protocol.md:51).     *)
ReceiptTrue(c) ==
    LET receipt == commands[c].receipt
        now == works[receipt.work].state IN
    IF CleanupPending(receipt) THEN now \in {"cancel_requested"} \cup Terminal
                               ELSE now = receipt.state /\ now \in Terminal

ReceiptsStayTrue ==
    \A c \in Identities :
        (commands[c] # NoRow /\ commands[c].kind = "cancel") => ReceiptTrue(c)

(* The transaction's inconsistent branch, which turns the service fatal, is   *)
(* reached only by a message naming a conversation other than the primary     *)
(* one: no credential can be revoked between a request's authentication and   *)
(* its transaction, because craxii-admin works only while the service is down.*)
FatalNeedsForeignConversation ==
    health = "fatal" =>
        \E i \in 1..Len(requests) :
            requests[i].conv # Primary

(* The command service: what a cancellation receipt says stays true for good; *)
(* every commit has been announced, or its handler still will, or was         *)
(* dropped; the device rows pass verify_devices whatever the clock did; only  *)
(* a message naming a foreign conversation makes the service fatal; and with  *)
(* a clock that gives every command another reading,                          *)
(* verify_stage9_consistency accepts whatever is left when the service stops. *)
GatewaySafe ==
    /\ ReceiptsStayTrue
    /\ AnnouncedOrOwed
    /\ DevicesVerified
    /\ FatalNeedsForeignConversation
    /\ Clock = "distinct" => StartupAccepts

(* Closing admission waits only for handlers that end: shutdown gets past it. *)
ClosingEnds == []<>(admission # "closing")

-----------------------------------------------------------------------------
(* The inductive form of what is promised.                                   *)

(* Handlers live only in a running process, hold no permit once admission is *)
(* closed, and belong to an active device until their transaction.           *)
HandlersLive ==
    /\ health = "down" =>
          admission = "open" /\ \A i \in 1..Len(requests) : requests[i].pc = "done"
    /\ admission = "closed" => \A i \in 1..Len(requests) : ~HoldsPermit(requests[i])
    /\ \A i \in 1..Len(requests) :
          requests[i].pc \in {"checked", "permitted"}
              => devices[requests[i].device].state = "active"

(* The row of the request's command is for its material and has its receipt. *)
Recorded(q) ==
    /\ commands[Identity(q)] # NoRow
    /\ CommandMatches(commands[Identity(q)], q)
    /\ commands[Identity(q)].receipt = q.outcome.receipt

(* A request keeps what it was sent with until it ends without a receipt; it *)
(* has no outcome before its transaction, and the recorded one after it.     *)
RequestSound(q) ==
    /\ q.kind = "spent" => q.pc = "done" /\ q.outcome.code # "receipt" /\ q.device = NoDevice
    /\ q.kind # "spent" => Identity(q) \in Identities /\ Hash(q) \in Hashes
    /\ q.pc \in {"checked", "permitted"} => q.outcome = Pending
    /\ q.pc = "stored" => q.outcome.code = "receipt"
    /\ q.kind # "spent" /\ q.pc \in {"stored", "done"} => Recorded(q)

RequestsSound == \A i \in 1..Len(requests) : RequestSound(requests[i])

(* Every work was admitted by a message command that names it, and some event *)
(* brought it into its state.                                                *)
WorkExplained(w) ==
    LET row == commands[<<works[w].device, works[w].key>>] IN
    /\ row # NoRow /\ row.kind = "message" /\ row.receipt.work = w
    /\ \E o \in 1..Len(journal) : journal[o].work = w /\ journal[o].to = works[w].state

WorksExplained == \A w \in 1..Len(works) : WorkExplained(w)

(* What a row says besides: its receipt decodes, its device was provisioned,  *)
(* and the message it names is its own, or its hash names the work.          *)
RowSound(c) ==
    /\ devices[c[1]].state # "absent"
    /\ ReceiptDecodes(commands[c])
    /\ IF commands[c].kind = "message" THEN MessageVerified(c)
       ELSE commands[c].hash = CancelHash(c[2], commands[c].receipt.work)

(* With a clock of distinct readings no two commands carry the same one, and  *)
(* the rows of cancellations are the ones the verification expects.          *)
ReadingsDistinct ==
    /\ \A c \in Identities : commands[c] # NoRow =>
          /\ commands[c].at \in 1..clock
          /\ \A d \in Identities \ {c} : commands[d] # NoRow => commands[c].at # commands[d].at
          /\ commands[c].kind = "cancel" => CancellationVerified(c)
    /\ \A i \in 1..Len(requests) : requests[i].pc = "permitted" =>
          /\ requests[i].at \in 1..clock
          /\ \A c \in Identities : commands[c] # NoRow => commands[c].at # requests[i].at
          /\ \A j \in 1..Len(requests) \ {i} :
                requests[j].pc = "permitted" => requests[j].at # requests[i].at
    /\ \A o \in 1..Len(journal) : CancellationEventVerified(o)

GatewayInvariant ==
    /\ TypeOK /\ HandlersLive /\ RequestsSound /\ WorksExplained
    /\ \A c \in Identities : commands[c] # NoRow => RowSound(c)
    /\ ReceiptsStayTrue /\ AnnouncedOrOwed /\ DevicesVerified /\ FatalNeedsForeignConversation
    /\ Clock = "distinct" => ReadingsDistinct
=============================================================================
