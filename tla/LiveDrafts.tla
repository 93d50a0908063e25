------------------------------ MODULE LiveDrafts ------------------------------
(***************************************************************************)
(* Answers while they are being written.  A model attempt offers text to   *)
(* the LiveEventBroker (application/event_delivery.rs), which keeps one    *)
(* bounded queue per connection; the connection's task (adapters/http.rs)  *)
(* takes from its queue and, between drafts, sends durable events; the     *)
(* client (Projection.swift) shows the drafts it is sent until they are    *)
(* abandoned or a durable event settles the work.                          *)
(*                                                                         *)
(* Drafts are lossy, and durable events and drafts reach the client by two *)
(* paths that nothing orders.  What must hold anyway is that no client     *)
(* keeps showing, or is sent, text for a work whose end it has been told.  *)
(*                                                                         *)
(* A draft is named by its work and the number of its attempt.  Text is    *)
(* the sequence of the offered pieces' numbers, and its length their sizes.*)
(* A frame is taken by the client as it is sent.                           *)
(***************************************************************************)
EXTENDS Naturals, Sequences, FiniteSets, SequencesExt, FiniteSetsExt

CONSTANTS
    Conns,          \* clients, each with at most one connection
    MaxWork,        \* works 1 .. MaxWork are run one after the other
    MaxAttempts,    \* model attempts of a work
    MaxOffers,      \* pieces a provider sends in one attempt
    MaxConnects,    \* connections a client makes
    Sizes,          \* lengths of pieces
    Kinds,          \* DraftDeltaKind: "text", "refusal"
    MaxQueue,       \* WEBSOCKET_OUTBOUND_FRAMES
    MaxDraftEvents, \* MAX_DRAFT_EVENTS
    MaxDraftText,   \* MAX_DRAFT_TEXT_BYTES
    MaxFrame        \* MAX_WEBSOCKET_FRAME_BYTES

LimitsAssumption == MaxQueue \in Nat \ {0}

VARIABLES
    accepting,  \* BrokerState::accepting, cleared by close_admission
    drafts,     \* BrokerState::drafts, by attempt
    subs,       \* BrokerState::subscribers, by connection
    conn,       \* the tasks of the connections
    client,     \* what each client has applied and shows
    journal,    \* the durable events: works admitted and works ended
    run         \* the work being run, and its attempt

vars == <<accepting, drafts, subs, conn, client, journal, run>>

Works == 1 .. MaxWork
Drafts == Works \X (1 .. MaxAttempts)
WorkOf(d) == d[1]
Empty == [x \in {} |-> 0]
Without(f, S) == [x \in DOMAIN f \ S |-> f[x]]
With(f, x, v) == [y \in DOMAIN f \cup {x} |-> IF y = x THEN v ELSE f[y]]

Admitted(w) == [type |-> "work.queued", work |-> w]
Ended(w) == [type |-> "terminal", work |-> w]
Knows(w, cursor) == \E k \in 1 .. cursor : journal[k] = Admitted(w)
EndKnown(w, cursor) == \E k \in 1 .. cursor : journal[k] = Ended(w)

-----------------------------------------------------------------------------
(* Frames, and the queue of a connection.                                    *)
Frame(type, d) == [type |-> type, draft |-> d, seq |-> 0, kind |-> "none",
                   text |-> <<>>, size |-> 0]
Started(d) == Frame("started", d)
Abandoned(d) == Frame("abandoned", d)
Delta(d, seq, kind, piece, size) ==
    [type |-> "delta", draft |-> d, seq |-> seq, kind |-> kind,
     text |-> <<piece>>, size |-> size]

Merged(last, e) == [last EXCEPT !.seq = e.seq, !.text = @ \o e.text, !.size = @ + e.size]

(* A full queue takes a delta only into its last frame, when that is a delta *)
(* of the same draft and kind and the two fit one frame; or drops it.        *)
enqueue_delta(s, e) ==
    LET q == s.queue IN
    IF Len(q) < MaxQueue THEN [s EXCEPT !.queue = Append(q, e)]
    ELSE IF /\ Last(q).type = "delta" /\ Last(q).draft = e.draft /\ Last(q).kind = e.kind
            /\ Merged(Last(q), e).size <= MaxFrame
         THEN [s EXCEPT !.queue[Len(q)] = Merged(Last(q), e)]
         ELSE s

Deltas(q) == {k \in 1 .. Len(q) : q[k].type = "delta"}
HasRoom(s) == Len(s.queue) < MaxQueue \/ Deltas(s.queue) # {}

(* A start or an abandonment evicts the oldest delta; with none to evict the *)
(* connection is given up.                                                   *)
enqueue_structural(s, e) ==
    IF Len(s.queue) < MaxQueue THEN [s EXCEPT !.queue = Append(@, e)]
    ELSE IF HasRoom(s) THEN [s EXCEPT !.queue = Append(RemoveAt(@, Min(Deltas(@))), e)]
    ELSE [s EXCEPT !.overloaded = TRUE]

StartTo(s, d) ==
    LET t == enqueue_structural(s, Started(d)) IN
    IF HasRoom(s) THEN [t EXCEPT !.eligible = With(@, d, 0)] ELSE t

AbandonTo(s, d) ==
    IF d \in DOMAIN s.eligible
    THEN enqueue_structural([s EXCEPT !.eligible = Without(@, {d})], Abandoned(d))
    ELSE s

DeltaTo(s, e) ==
    IF e.draft \in DOMAIN s.eligible /\ e.seq > s.eligible[e.draft]
    THEN enqueue_delta([s EXCEPT !.eligible[e.draft] = e.seq], e)
    ELSE s

-----------------------------------------------------------------------------
(* The broker's operations, each under its lock, on b = [drafts, subs].      *)
Broker == [drafts |-> drafts, subs |-> subs]
ForEach(b, S(_)) == [b EXCEPT !.subs = [c \in DOMAIN b.subs |-> S(b.subs[c])]]

broadcast_abandoned_draft(b, d) ==
    LET known == [b EXCEPT !.drafts = Without(@, {d})] IN
    IF b.drafts[d].started THEN ForEach(known, LAMBDA s : AbandonTo(s, d)) ELSE known

NewDraft == [next |-> 0, bytes |-> 0, events |-> 0, started |-> FALSE]

(* The attempts of the same work that an offer supersedes.                   *)
Supersede(b, d) ==
    FoldSet(LAMBDA e, acc : broadcast_abandoned_draft(acc, e), b,
            {e \in DOMAIN b.drafts : WorkOf(e) = WorkOf(d) /\ e # d})

(* broadcast_started_and_abandoned: a draft that grew past a limit ends.     *)
LimitReached(b, d, first) ==
    ForEach([b EXCEPT !.drafts = Without(@, {d})],
            LAMBDA s : AbandonTo(IF first THEN StartTo(s, d) ELSE s, d))

offer(d, kind, piece, size) ==
    LET b     == Supersede(Broker, d)
        draft == IF d \in DOMAIN b.drafts THEN b.drafts[d] ELSE NewDraft
        grown == [next |-> draft.next + 1, bytes |-> draft.bytes + size,
                  events |-> draft.events + 1, started |-> TRUE]
        first == ~draft.started
        delta == Delta(d, grown.next, kind, piece, size)
    IN
    IF ~accepting THEN Broker
    ELSE IF \/ draft.bytes + size > MaxDraftText
            \/ draft.events >= MaxDraftEvents
            \/ size > MaxFrame
         THEN LimitReached(b, d, first)
    ELSE ForEach([b EXCEPT !.drafts = With(@, d, grown)],
                 LAMBDA s : DeltaTo(IF first THEN StartTo(s, d) ELSE s, delta))

abandon(d) ==
    IF d \in DOMAIN drafts THEN broadcast_abandoned_draft(Broker, d) ELSE Broker

finalize_work(w) ==
    LET ended == {d \in DOMAIN drafts : WorkOf(d) = w} IN
    [drafts |-> Without(drafts, ended),
     subs |-> [c \in DOMAIN subs |->
                  [subs[c] EXCEPT !.queue = SelectSeq(@, LAMBDA e : WorkOf(e.draft) # w),
                                  !.eligible = Without(@, ended)]]]

BrokerBecomes(b) == drafts' = b.drafts /\ subs' = b.subs

-----------------------------------------------------------------------------
(* The runner of a work (application/agent_loop.rs and model_gateway.rs).    *)
Idle == [work |-> 0, attempt |-> 0, phase |-> "idle", pieces |-> 0]
Current == <<run.work, run.attempt>>
Record(e) == journal' = Append(journal, e)

(* A message is admitted and its work claimed.                               *)
BeginWork ==
    /\ run.phase = "idle"
    /\ \E w \in Works :
          /\ ~Knows(w, Len(journal)) /\ \A v \in 1 .. w - 1 : Knows(v, Len(journal))
          /\ Record(Admitted(w))
          /\ run' = [work |-> w, attempt |-> 1, phase |-> "streaming", pieces |-> 0]
    /\ UNCHANGED <<accepting, drafts, subs, conn, client>>

(* run_physical_attempt takes a piece of the answer from the provider.       *)
Offer(kind, size) ==
    /\ run.phase = "streaming" /\ run.pieces < MaxOffers
    /\ run' = [run EXCEPT !.pieces = @ + 1]
    /\ BrokerBecomes(offer(Current, kind, run.pieces + 1, size))
    /\ UNCHANGED <<accepting, conn, client, journal>>

(* The attempt asks for a tool, fails, is interrupted or cancelled.          *)
AttemptEnds ==
    /\ run.phase = "streaming"
    /\ BrokerBecomes(abandon(Current))
    /\ run' = [run EXCEPT !.phase = "between"]
    /\ UNCHANGED <<accepting, conn, client, journal>>

NextAttempt ==
    /\ run.phase = "between" /\ run.attempt < MaxAttempts
    /\ run' = [run EXCEPT !.attempt = @ + 1, !.phase = "streaming", !.pieces = 0]
    /\ UNCHANGED <<accepting, drafts, subs, conn, client, journal>>

(* The work fails or is cancelled after its attempt; or its runner ended     *)
(* abnormally, the draft still open, and the scheduler interrupts the work.  *)
WorkEnds ==
    /\ run.phase \in {"streaming", "between"}
    /\ Record(Ended(run.work))
    /\ run' = Idle
    /\ UNCHANGED <<accepting, drafts, subs, conn, client>>

(* commit_completion: the answer is committed, then the drafts are removed.  *)
CommitAnswer ==
    /\ run.phase = "streaming"
    /\ Record(Ended(run.work))
    /\ run' = [run EXCEPT !.phase = "committed"]
    /\ UNCHANGED <<accepting, drafts, subs, conn, client>>

Finalize ==
    /\ run.phase = "committed"
    /\ BrokerBecomes(finalize_work(run.work))
    /\ run' = Idle
    /\ UNCHANGED <<accepting, conn, client, journal>>

-----------------------------------------------------------------------------
(* The client's DraftReducer and what a frame does to it.                    *)
Apply(k, e) ==
    LET d == e.draft
        w == WorkOf(d)
        shown == k.shown
        prior == {x \in DOMAIN shown : WorkOf(x) = w}
    IN
    IF ~Knows(w, k.cursor) \/ EndKnown(w, k.cursor) THEN k
    ELSE CASE e.type = "started" ->
                IF d \in k.tombstones \cup DOMAIN shown THEN k
                ELSE [k EXCEPT !.shown = With(Without(@, prior), d, [seq |-> 0, text |-> <<>>]),
                               !.tombstones = @ \cup prior]
           [] e.type = "delta" ->
                IF d \in DOMAIN shown /\ e.seq > shown[d].seq
                THEN [k EXCEPT !.shown[d] = [seq |-> e.seq, text |-> @.text \o e.text]]
                ELSE k
           [] e.type = "abandoned" ->
                IF d \in DOMAIN shown
                THEN [k EXCEPT !.shown = Without(@, {d}), !.tombstones = @ \cup {d}]
                ELSE k

ApplyDurable(k, e) ==
    LET ended == {d \in DOMAIN k.shown : e = Ended(WorkOf(d))} IN
    [k EXCEPT !.cursor = @ + 1, !.shown = Without(@, ended), !.tombstones = @ \cup ended]

-----------------------------------------------------------------------------
(* A connection.  replaying: until the events up to high are sent; synced:   *)
(* sync.complete is sent; live: subscribed to drafts.  late is the history   *)
(* of the subscription: the drafts that were open when it was made.          *)
NoConn == [phase |-> "off", scanned |-> 0, high |-> 0, active |-> Empty, late |-> {}]

(* The client connects after its cursor, or after a fresh snapshot's.        *)
Connect(c, snapshot) ==
    LET cursor == IF snapshot THEN Len(journal) ELSE client[c].cursor IN
    /\ conn[c].phase = "off" /\ client[c].connects < MaxConnects /\ accepting
    /\ conn' = [conn EXCEPT ![c] = [phase |-> "replaying", scanned |-> cursor,
                                    high |-> Len(journal), active |-> Empty, late |-> {}]]
    /\ client' = [client EXCEPT ![c] = [@ EXCEPT !.cursor = cursor, !.connects = @ + 1]]
    /\ UNCHANGED <<accepting, drafts, subs, journal, run>>

(* ConnectionDraftState::reconcile_durable.                                  *)
Reconcile(active, e) ==
    Without(active, {d \in DOMAIN active : e = Ended(WorkOf(d))})

(* send_events, one event: forget the drafts it settles, in the connection   *)
(* and in the broker, and send it.                                           *)
SendDurable(c) ==
    LET e == journal[conn[c].scanned + 1] IN
    /\ \/ conn[c].phase = "replaying" /\ conn[c].scanned < conn[c].high
       \/ conn[c].phase = "live" /\ conn[c].scanned < Len(journal)
    /\ conn' = [conn EXCEPT ![c].scanned = @ + 1, ![c].active = Reconcile(@, e)]
    /\ client' = [client EXCEPT ![c] = ApplyDurable(@, e)]
    /\ IF e.type = "terminal" THEN BrokerBecomes(finalize_work(e.work))
                              ELSE UNCHANGED <<drafts, subs>>
    /\ UNCHANGED <<accepting, journal, run>>

SyncComplete(c) ==
    /\ conn[c].phase = "replaying" /\ conn[c].scanned = conn[c].high
    /\ conn' = [conn EXCEPT ![c].phase = "synced"]
    /\ UNCHANGED <<accepting, drafts, subs, client, journal, run>>

(* The task ends: its subscription is dropped, and the client forgets what   *)
(* it showed.                                                                *)
Disconnected(c) ==
    /\ conn' = [conn EXCEPT ![c] = NoConn]
    /\ subs' = Without(subs, {c})
    /\ client' = [client EXCEPT ![c] = [@ EXCEPT !.shown = Empty, !.tombstones = {}]]
    /\ UNCHANGED <<accepting, drafts, journal, run>>

NewSubscriber == [queue |-> <<>>, eligible |-> Empty, overloaded |-> FALSE]

subscribe(c) ==
    /\ conn[c].phase = "synced"
    /\ IF accepting
       THEN /\ subs' = With(subs, c, NewSubscriber)
            /\ conn' = [conn EXCEPT ![c].phase = "live", ![c].late = DOMAIN drafts]
            /\ UNCHANGED <<accepting, drafts, client, journal, run>>
       ELSE Disconnected(c)

(* ConnectionDraftState::accept: whether the frame is sent on, and after.    *)
Accepts(active, e) ==
    CASE e.type = "started"   -> e.draft \notin DOMAIN active
      [] e.type = "delta"     -> e.draft \in DOMAIN active /\ e.seq > active[e.draft]
      [] e.type = "abandoned" -> e.draft \in DOMAIN active

AfterAccept(active, e) ==
    IF e.type = "abandoned" THEN Without(active, {e.draft}) ELSE With(active, e.draft, e.seq)

(* The live loop takes from the subscription.                                *)
recv(c) ==
    /\ conn[c].phase = "live" /\ ~subs[c].overloaded /\ subs[c].queue # <<>>
    /\ LET e == Head(subs[c].queue) IN
       /\ subs' = [subs EXCEPT ![c].queue = Tail(@)]
       /\ IF Accepts(conn[c].active, e)
          THEN /\ conn' = [conn EXCEPT ![c].active = AfterAccept(@, e)]
               /\ client' = [client EXCEPT ![c] = Apply(@, e)]
          ELSE UNCHANGED <<conn, client>>
    /\ UNCHANGED <<accepting, drafts, journal, run>>

recv_ends(c) ==
    /\ conn[c].phase = "live"
    /\ subs[c].overloaded \/ (subs[c].queue = <<>> /\ ~accepting)
    /\ Disconnected(c)

(* The peer closes, a send times out, or the server shuts down.              *)
Drop(c) == conn[c].phase # "off" /\ Disconnected(c)

close_admission ==
    /\ accepting /\ accepting' = FALSE
    /\ drafts' = Empty
    /\ subs' = [c \in DOMAIN subs |-> [subs[c] EXCEPT !.queue = <<>>, !.eligible = Empty]]
    /\ UNCHANGED <<conn, client, journal, run>>

-----------------------------------------------------------------------------
Init ==
    /\ accepting = TRUE /\ drafts = Empty /\ subs = Empty
    /\ conn = [c \in Conns |-> NoConn]
    /\ client = [c \in Conns |-> [cursor |-> 0, shown |-> Empty, tombstones |-> {}, connects |-> 0]]
    /\ journal = <<>> /\ run = Idle

RunnerStep ==
    \/ BeginWork \/ AttemptEnds \/ NextAttempt \/ WorkEnds \/ CommitAnswer \/ Finalize
    \/ \E kind \in Kinds, size \in Sizes : Offer(kind, size)

ConnectionStep(c) ==
    SendDurable(c) \/ SyncComplete(c) \/ subscribe(c) \/ recv(c) \/ recv_ends(c)

Next ==
    \/ RunnerStep
    \/ \E c \in Conns : ConnectionStep(c) \/ Drop(c)
    \/ \E c \in Conns, snapshot \in BOOLEAN : Connect(c, snapshot)
    \/ close_admission

Spec == Init /\ [][Next]_vars

(* An attempt ends by its deadline and a work by its own; the tokio runtime  *)
(* polls a connection's task, whose fallback tick scans the journal; the     *)
(* live loop's select takes drafts and durable events alike.                 *)
FairSpec ==
    /\ Spec
    /\ WF_vars(AttemptEnds \/ CommitAnswer) /\ WF_vars(NextAttempt \/ WorkEnds)
    /\ WF_vars(Finalize)
    /\ \A c \in Conns : /\ WF_vars(SendDurable(c)) /\ WF_vars(SyncComplete(c))
                        /\ WF_vars(subscribe(c)) /\ WF_vars(recv(c)) /\ WF_vars(recv_ends(c))

-----------------------------------------------------------------------------
(* Properties.                                                               *)

TypeOK ==
    /\ accepting \in BOOLEAN
    /\ DOMAIN drafts \subseteq Drafts
    /\ \A d \in DOMAIN drafts : drafts[d].events <= MaxDraftEvents /\ drafts[d].bytes <= MaxDraftText
    /\ DOMAIN subs = {c \in Conns : conn[c].phase = "live"}
    /\ \A c \in DOMAIN subs : Len(subs[c].queue) <= MaxQueue
    /\ \A c \in Conns : conn[c].phase # "off" => conn[c].scanned = client[c].cursor

(* Once the end of a work has been sent on a connection, no draft of it is   *)
(* opened there any more, though its start may have been queued before: the  *)
(* task that sends the end purges every queue.                               *)
NoDraftAfterTheEnd ==
    \A c \in Conns, d \in Drafts :
        d \in DOMAIN conn[c].active => ~EndKnown(WorkOf(d), conn[c].scanned)

(* A client shows a draft only while something is still going to end it: the *)
(* broker still has the draft, the abandonment is in the queue, the          *)
(* connection is about to be closed, or the end of the work is in the        *)
(* journal and yet to be sent.  However full the queue was, no client is     *)
(* left with a draft that nothing will remove.                               *)
NoOrphanDraft ==
    \A c \in Conns : \A d \in DOMAIN client[c].shown :
        \/ d \in DOMAIN drafts /\ d \in DOMAIN subs[c].eligible
        \/ subs[c].overloaded \/ ~accepting
        \/ Abandoned(d) \in Range(subs[c].queue)
        \/ EndKnown(WorkOf(d), Len(journal)) /\ ~EndKnown(WorkOf(d), client[c].cursor)

(* What a client shows of a draft are pieces of that attempt in the order    *)
(* the provider sent them, none of them twice, whatever was dropped, merged  *)
(* or restarted; and it shows one draft of a work at most.                   *)
TextInOrder ==
    \A c \in Conns : \A d \in DOMAIN client[c].shown :
        /\ \A j, k \in DOMAIN client[c].shown[d].text :
              j < k => client[c].shown[d].text[j] < client[c].shown[d].text[k]
        /\ \A e \in DOMAIN client[c].shown : WorkOf(e) = WorkOf(d) => e = d

(* A connection that subscribed while a draft was being written is sent no   *)
(* part of that draft, then or later.                                        *)
LateSubscriberSeesNothing ==
    \A c \in Conns : conn[c].late \cap DOMAIN conn[c].active = {}

(* Every draft a client shows is gone after a while: abandoned, settled by   *)
(* the durable event, or forgotten with the connection.                      *)
NothingShown == \A c \in Conns : DOMAIN client[c].shown = {}
EveryDraftIsCleared == []<>NothingShown

=============================================================================
