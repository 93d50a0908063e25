----------------------------- MODULE EventStream -----------------------------
(***************************************************************************)
(* Event delivery to one client: the journal, the public projection of its *)
(* rows, the bootstrap snapshot, the WebSocket that replays and then       *)
(* follows the journal, and the reducer the client keeps its view with.    *)
(* Sources: application/publication.rs, adapters/sqlite/stage11.rs,        *)
(* application/transport.rs, adapters/http.rs (events, run_websocket and   *)
(* what they call) and the macOS client's Projection.swift.                *)
(*                                                                         *)
(* Frames reach the client as they are sent; a connection that fails loses *)
(* the frames not sent yet, which also covers frames lost on their way: a  *)
(* connection keeps no state past its end.  A work has at most one tool    *)
(* execution.  Ephemeral drafts are in LiveDrafts.                         *)
(***************************************************************************)
EXTENDS Lifecycle, Sequences, FiniteSets

CONSTANTS
    Reasons,          \* the terminal reasons explored
    Origins,          \* where messages come from: "native", "inbound_delivery"
    Page,             \* REPLAY_PAGE_ROWS
    HintCapacity,     \* CURSOR_BROADCAST_CAPACITY
    MaxJournal,       \* rows written in a behaviour
    MaxConnections    \* connections opened in a behaviour

StreamConstants ==
    /\ Reasons \subseteq TerminalReasons
    /\ Origins \subseteq {"native", "inbound_delivery"}
    /\ Page \in Nat \ {0} /\ HintCapacity \in Nat \ {0}
    /\ MaxJournal \in Nat /\ MaxConnections \in Nat

VARIABLES
    works,     \* work_items, with the tool execution of each
    journal,   \* journal_events: the offset of an event is its index
    owed,      \* cursors of command commits whose hint is not out yet
    hinted,    \* the highest cursor the broadcaster has sent
    latched,   \* ws_shutdown
    conn,      \* the connection's task
    client,    \* ClientSession and its projection
    opened     \* connections so far

vars == <<works, journal, owed, hinted, latched, conn, client, opened>>

-----------------------------------------------------------------------------
(* The writers.  Every transaction moves rows and appends what it did; the   *)
(* Engine modules say when.  Here any move the lifecycle rules allow may     *)
(* happen.                                                                   *)
Row == [state : WorkStates \cup {"absent"}, tool : ToolStates \cup {"none"},
        reason : TerminalReasons \cup {"none"}]

NoRow == [state |-> "absent", tool |-> "none", reason |-> "none"]

WorkMoves(r, s) ==
    \/ s.state = r.state /\ s.reason = r.reason
    \/ r.state = "absent" /\ s.state = "queued"
    \/ IsLegalWorkPair(r.state, s.state)

ToolMoves(r, s) ==
    \/ s.tool = r.tool
    \/ /\ r.tool = "none" /\ s.tool = "requested"
       /\ r.state = "running" /\ s.state = "waiting_on_tool"
    \/ IsLegalToolPair(r.tool, s.tool)

(* A tool execution and the work that waits for it move together.            *)
RowHolds(s) ==
    /\ s.state = "waiting_on_tool" => s.tool \in ToolLive
    /\ s.tool \in ToolLive => s.state \in {"waiting_on_tool", "cancel_requested"}
    /\ s.tool = "outcome_unknown" =>
          s.state = "interrupted" /\ s.reason = "tool_outcome_unknown"
    /\ s.reason = "tool_outcome_unknown" => s.tool = "outcome_unknown"
    /\ s.reason = "tool_interrupted_before_dispatch" =>
          s.tool = "interrupted_before_dispatch"
    /\ s.state = "absent" => s.reason = "none" /\ s.tool = "none"
    /\ s.reason \in ReasonClass(s.state)

Rows == {s \in Row : RowHolds(s) /\ s.reason \in Reasons \cup {"none"}}

NextRows(r) == {s \in Rows : s # r /\ WorkMoves(r, s) /\ ToolMoves(r, s)}

Event(kind, w, s, origin) ==
    [kind |-> kind, work |-> w, state |-> s.state, reason |-> s.reason,
     tool |-> s.tool, origin |-> origin]

When(holds, kind, w, s, origin) ==
    IF holds THEN <<Event(kind, w, s, origin)>> ELSE <<>>

Recorded(w, r, s, origin) ==
    LET moved == s.state # r.state IN
    When(r.state = "absent", "message_accepted", w, s, origin)
    \o When(moved /\ s.state = "waiting_on_model", "model_invocation", w, s, "none")
    \o When(s.tool # r.tool, "tool_execution", w, s, "none")
    \o When(s.state = "completed", "assistant_message_committed", w, s, "none")
    \o When(moved, "work", w, s, "none")

(* Commands announce their commit: a message, or a cancellation.             *)
Announced(r, s) ==
    \/ r.state = "absent"
    \/ s.state = "cancel_requested"
    \/ r.state = "queued" /\ s.state = "cancelled"

Commit(w) ==
    \E s \in NextRows(works[w]), origin \in Origins :
        LET written == journal \o Recorded(w, works[w], s, origin) IN
        /\ Len(written) <= MaxJournal
        /\ origin # "native" => works[w].state = "absent"
        /\ journal' = written
        /\ works' = [works EXCEPT ![w] = s]
        /\ owed' = IF Announced(works[w], s) THEN owed \cup {Len(written)} ELSE owed
        /\ UNCHANGED <<hinted, latched, conn, client, opened>>

(* CursorBroadcaster: a receiver keeps the newest HintCapacity cursors and   *)
(* learns that it lagged when older ones were dropped.                       *)
Pushed(c, cursor) ==
    IF c.pc = "none" THEN c
    ELSE LET all == Append(c.hints, cursor) IN
         IF Len(all) <= HintCapacity THEN [c EXCEPT !.hints = all]
         ELSE [c EXCEPT !.hints = Tail(all), !.lagged = TRUE]

Publish ==
    \E cursor \in owed :
        /\ owed' = owed \ {cursor}
        /\ hinted' = IF cursor > hinted THEN cursor ELSE hinted
        /\ conn' = Pushed(conn, cursor)
        /\ UNCHANGED <<works, journal, latched, client, opened>>

-----------------------------------------------------------------------------
(* map_public_event: the public type of a journal row, "private" when it has *)
(* none.  A resumed work is published as started.                            *)
PublicTransition(state) ==
    CASE state = "queued"  -> "work.queued"
      [] state = "running" -> "work.started"
      [] OTHER             -> state

PublicType(e) ==
    CASE e.kind = "message_accepted"            -> "message.accepted"
      [] e.kind = "work"                        -> PublicTransition(e.state)
      [] e.kind = "assistant_message_committed" -> "assistant.message_committed"
      [] e.kind = "tool_execution" ->
             IF e.tool = "requested" THEN "private" ELSE "tool.execution"
      [] OTHER -> "private"

IsPublic(o) == PublicType(journal[o]) # "private"

LeastOf(a, b) == IF a < b THEN a ELSE b

(* list_replay_page_inner and project_replay_page: the rows after `scanned`, *)
(* at most a page of them, and whether more are left below `through`.        *)
ReplayPage(scanned, through) ==
    LET last == LeastOf(scanned + Page, through)
        more == \E o \in DOMAIN journal : o > last /\ o <= through
    IN  [offsets |-> SelectSeq([i \in 1 .. last - scanned |-> scanned + i], IsPublic),
         more    |-> more,
         scanned |-> IF more THEN last ELSE through]

-----------------------------------------------------------------------------
(* project_bootstrap: what a snapshot tells a client about a work.  The      *)
(* members of `unresolved` are the entries of unresolved_outcomes for it.    *)
View == [state : WorkStates \cup {"absent"}, reason : TerminalReasons \cup {"none"},
         cleanup : BOOLEAN,
         unresolved : SUBSET {"provider_outcome_unknown", "cleanup_unconfirmed",
                              "tool_outcome_unknown", "tool_cleanup_unconfirmed"}]

NoView == [state |-> "absent", reason |-> "none", cleanup |-> FALSE, unresolved |-> {}]

ToolUnresolved(r) ==
    IF r.tool = "outcome_unknown"
    THEN {"tool_outcome_unknown", "tool_cleanup_unconfirmed"} ELSE {}

WorkUnresolved(reason) ==
    {reason} \cap {"provider_outcome_unknown", "cleanup_unconfirmed"}

BootstrapView(r) ==
    [state      |-> r.state,
     reason     |-> r.reason,
     cleanup    |-> \/ r.state = "cancel_requested"
                    \/ r.reason = "cleanup_unconfirmed"
                    \/ r.tool = "outcome_unknown",
     unresolved |-> ToolUnresolved(r) \cup WorkUnresolved(r.reason)]

-----------------------------------------------------------------------------
(* The client.  Its reducer applies a durable event only when the event fits *)
(* what it already holds (DurableReducer), and otherwise gives up the        *)
(* session for good.                                                         *)
Accepts(c, e) ==
    LET type == PublicType(e)
        view == c.view[e.work]
    IN  CASE type = "message.accepted" ->
                 e.origin = "native" /\ <<"user", e.work>> \notin c.messages
          [] type = "assistant.message_committed" ->
                 <<"assistant", e.work>> \notin c.messages
          [] type = "work.queued"    -> view.state = "absent"
          [] type = "tool.execution" -> view.state # "absent"
          [] OTHER -> view.state # "absent" /\ view.state \notin TerminalStates

(* applyTransition.                                                          *)
TransitionView(v, e) ==
    [state      |-> e.state,
     reason     |-> IF e.state \in TerminalStates THEN e.reason ELSE v.reason,
     cleanup    |-> IF e.state \in TerminalStates
                    THEN e.reason = "cleanup_unconfirmed"
                    ELSE v.cleanup \/ e.state = "cancel_requested",
     unresolved |-> IF e.state \in TerminalStates
                    THEN (v.unresolved \ {"provider_outcome_unknown", "cleanup_unconfirmed"})
                         \cup WorkUnresolved(e.reason)
                    ELSE v.unresolved]

(* applyTool.                                                                *)
ToolView(v, e) ==
    [v EXCEPT !.unresolved =
        (@ \ {"tool_outcome_unknown", "tool_cleanup_unconfirmed"})
        \cup (IF e.tool = "outcome_unknown" THEN {"tool_outcome_unknown"} ELSE {})]

Applied(c, e) ==
    LET type == PublicType(e) IN
    CASE type = "message.accepted" ->
             [c EXCEPT !.messages = @ \cup {<<"user", e.work>>}]
      [] type = "assistant.message_committed" ->
             [c EXCEPT !.messages = @ \cup {<<"assistant", e.work>>}]
      [] type = "tool.execution" -> [c EXCEPT !.view[e.work] = ToolView(@, e)]
      [] OTHER                   -> [c EXCEPT !.view[e.work] = TransitionView(@, e)]

Fatal(c) == [c EXCEPT !.phase = "fatal_protocol_error"]

(* DurableReducer.applying and handleFrame: an old cursor must repeat an     *)
(* event the client remembers.                                               *)
Received(c, o) ==
    IF o <= c.cursor
    THEN IF o \in c.remembered THEN c ELSE Fatal(c)
    ELSE IF Accepts(c, journal[o])
         THEN [Applied(c, journal[o]) EXCEPT !.cursor = o, !.remembered = @ \cup {o}]
         ELSE Fatal(c)

Synced(c, through) ==
    IF c.phase = "replaying" /\ through >= c.cursor
    THEN [c EXCEPT !.cursor = through, !.phase = "live"]
    ELSE Fatal(c)

NewClient ==
    [phase |-> "disconnected", cursor |-> 0, messages |-> {}, remembered |-> {},
     view |-> [w \in Works |-> NoView]]

(* The messages a snapshot lists.                                            *)
StoredMessages ==
    {<<"user", w>> : w \in {x \in Works : works[x].state # "absent"}}
    \cup {<<"assistant", w>> : w \in {x \in Works : works[x].state = "completed"}}

(* connectWithBootstrap: one SQLite snapshot gives the head and every row,   *)
(* and replaces whatever the client held.                                    *)
Bootstrap ==
    /\ client.phase = "disconnected" /\ ~latched
    /\ client' = [phase      |-> "connecting",
                  cursor     |-> Len(journal),
                  messages   |-> StoredMessages,
                  remembered |-> {},
                  view       |-> [w \in Works |-> BootstrapView(works[w])]]
    /\ UNCHANGED <<works, journal, owed, hinted, latched, conn, opened>>

(* retryConnection, by the person using the client: bootstrap again.         *)
RetryConnection ==
    /\ client.phase \in {"fatal_protocol_error", "live"} /\ opened < MaxConnections
    /\ client' = [client EXCEPT !.phase = "disconnected"]
    /\ conn' = [conn EXCEPT !.pc = "none", !.hints = <<>>, !.lagged = FALSE]
    /\ UNCHANGED <<works, journal, owed, hinted, latched, opened>>

-----------------------------------------------------------------------------
(* The connection's task.                                                    *)
NoConnection ==
    [pc |-> "none", through |-> 0, scanned |-> 0, queue |-> <<>>, next |-> 0,
     more |-> FALSE, hints |-> <<>>, lagged |-> FALSE, pending |-> FALSE]

Serving == {"replay", "drain", "sync", "handoff", "live", "live_scan"}

(* events(): the hint subscription comes first, then the high water read.    *)
EventsRequest ==
    /\ client.phase = "connecting" /\ conn.pc = "none"
    /\ ~latched /\ opened < MaxConnections
    /\ opened' = opened + 1
    /\ conn' = [NoConnection EXCEPT !.pc = "subscribed", !.scanned = client.cursor]
    /\ UNCHANGED <<works, journal, owed, hinted, latched, client>>

ReadHighWater ==
    /\ conn.pc = "subscribed" /\ ~latched
    /\ conn' = IF conn.scanned > Len(journal) THEN NoConnection
               ELSE [conn EXCEPT !.pc = "upgrading", !.through = Len(journal)]
    /\ UNCHANGED <<works, journal, owed, hinted, latched, client, opened>>

Activate ==
    /\ conn.pc = "upgrading" /\ ~latched
    /\ conn' = [conn EXCEPT !.pc = "replay"]
    /\ client' = [client EXCEPT !.phase = "replaying"]
    /\ UNCHANGED <<works, journal, owed, hinted, latched, opened>>

Scanning == conn.pc \in {"replay", "live_scan"} /\ ~latched

(* scan_and_send reads a page ...                                            *)
NextPage ==
    /\ Scanning /\ conn.next = 0 /\ conn.scanned < conn.through
    /\ LET page == ReplayPage(conn.scanned, conn.through) IN
       conn' = [conn EXCEPT !.queue = page.offsets, !.next = page.scanned,
                            !.more = page.more]
    /\ UNCHANGED <<works, journal, owed, hinted, latched, client, opened>>

(* ... sends its events one frame at a time ...                              *)
SendEvent ==
    /\ Scanning /\ conn.queue # <<>>
    /\ client' = Received(client, Head(conn.queue))
    /\ conn' = IF client'.phase = "fatal_protocol_error" THEN NoConnection
               ELSE [conn EXCEPT !.queue = Tail(@)]
    /\ UNCHANGED <<works, journal, owed, hinted, latched, opened>>

(* ... and then checks how far the page went.                                *)
PageSent ==
    /\ Scanning /\ conn.next # 0 /\ conn.queue = <<>>
    /\ conn' = IF \/ conn.next <= conn.scanned \/ conn.next > conn.through
                  \/ ~conn.more /\ conn.next # conn.through
               THEN [conn EXCEPT !.pc = "protocol_invariant"]
               ELSE [conn EXCEPT !.scanned = conn.next, !.next = 0]
    /\ UNCHANGED <<works, journal, owed, hinted, latched, client, opened>>

Scanned == conn.next = 0 /\ conn.scanned >= conn.through

ReplayEnds ==
    /\ Scanning /\ conn.pc = "replay" /\ Scanned
    /\ conn' = [conn EXCEPT !.pc = "drain"]
    /\ UNCHANGED <<works, journal, owed, hinted, latched, client, opened>>

(* The hints that came in during replay: one above the high water, or lost   *)
(* ones, call for a scan after sync.complete.                                *)
Taken(c) == IF c.lagged THEN [c EXCEPT !.lagged = FALSE]
            ELSE [c EXCEPT !.hints = Tail(@)]

HintWaits(c) == c.lagged \/ c.hints # <<>>

(* Mutant: hints that came in during replay are thrown away.                 *)
DiscardHints ==
    /\ conn.pc = "drain"
    /\ conn' = IF HintWaits(conn) THEN Taken(conn) ELSE [conn EXCEPT !.pc = "sync"]
    /\ UNCHANGED <<works, journal, owed, hinted, latched, client, opened>>

DrainHint ==
    /\ conn.pc = "drain"
    /\ conn' = CASE ~HintWaits(conn) -> [conn EXCEPT !.pc = "sync"]
                 [] conn.lagged \/ Head(conn.hints) > conn.through ->
                        [Taken(conn) EXCEPT !.pending = TRUE, !.pc = "sync"]
                 [] OTHER -> Taken(conn)
    /\ UNCHANGED <<works, journal, owed, hinted, latched, client, opened>>

SendSyncComplete ==
    /\ conn.pc = "sync" /\ ~latched
    /\ client' = Synced(client, conn.through)
    /\ conn' = IF client'.phase = "fatal_protocol_error" THEN NoConnection
               ELSE [conn EXCEPT !.pc = "handoff"]
    /\ UNCHANGED <<works, journal, owed, hinted, latched, opened>>

(* live_scan: read the high water again and send what is new.                *)
LiveScan(c) == [c EXCEPT !.pc = "live_scan", !.through = Len(journal)]

Handoff ==
    /\ conn.pc = "handoff" /\ ~latched
    /\ conn' = IF conn.pending THEN LiveScan(conn) ELSE [conn EXCEPT !.pc = "live"]
    /\ UNCHANGED <<works, journal, owed, hinted, latched, client, opened>>

ReceiveHint ==
    /\ conn.pc = "live" /\ HintWaits(conn) /\ ~latched
    /\ conn' = LiveScan(Taken(conn))
    /\ UNCHANGED <<works, journal, owed, hinted, latched, client, opened>>

(* Mutant: the fallback scan waits for a hint too.                           *)
HintedTick ==
    /\ conn.pc = "live" /\ HintWaits(conn) /\ ~latched
    /\ conn' = LiveScan(conn)
    /\ UNCHANGED <<works, journal, owed, hinted, latched, client, opened>>

FallbackTick ==
    /\ conn.pc = "live" /\ ~latched
    /\ Len(journal) > conn.scanned   \* a scan that finds nothing changes nothing
    /\ conn' = LiveScan(conn)
    /\ UNCHANGED <<works, journal, owed, hinted, latched, client, opened>>

LiveScanEnds ==
    /\ Scanning /\ conn.pc = "live_scan" /\ Scanned
    /\ conn' = [conn EXCEPT !.pc = "live", !.pending = FALSE]
    /\ UNCHANGED <<works, journal, owed, hinted, latched, client, opened>>

(* Mutant: a client that reconnects starts over.                             *)
StartsOver(c) ==
    IF c.phase \in {"replaying", "live"} THEN [NewClient EXCEPT !.phase = "connecting"] ELSE c

(* The connection ends: the peer went away, a read or a send failed or timed *)
(* out, the request was refused, or the server shuts down.  The client       *)
(* reconnects from the cursor it holds (transportEnded, reconnectFromCursor).*)
Disconnected(c) ==
    IF c.phase \in {"replaying", "live"} THEN [c EXCEPT !.phase = "connecting"] ELSE c

ConnectionEnds ==
    /\ conn.pc \in {"subscribed", "upgrading"} \cup Serving
    /\ conn' = NoConnection
    /\ client' = Disconnected(client)
    /\ UNCHANGED <<works, journal, owed, hinted, latched, opened>>

(* begin_closing latches the shutdown signal every await watches.            *)
Shutdown ==
    /\ ~latched
    /\ latched' = TRUE
    /\ UNCHANGED <<works, journal, owed, hinted, conn, client, opened>>

-----------------------------------------------------------------------------
Init ==
    /\ works = [w \in Works |-> NoRow]
    /\ journal = <<>> /\ owed = {} /\ hinted = 0
    /\ latched = FALSE
    /\ conn = NoConnection /\ client = NewClient /\ opened = 0

ConnectionSteps ==
    \/ ReadHighWater \/ Activate \/ NextPage \/ SendEvent \/ PageSent
    \/ ReplayEnds \/ DrainHint \/ SendSyncComplete \/ Handoff
    \/ ReceiveHint \/ FallbackTick \/ LiveScanEnds

Next ==
    \/ \E w \in Works : Commit(w)
    \/ Publish
    \/ Bootstrap \/ RetryConnection \/ EventsRequest
    \/ ConnectionSteps
    \/ ConnectionEnds \/ Shutdown

Spec == Init /\ [][Next]_vars

(* The connection's task and the client's session run; a latched shutdown    *)
(* ends the connection, since every await watches it.  Nothing is assumed of *)
(* the writers, of the hints or of failures.                                 *)
Fairness ==
    /\ WF_vars(ConnectionSteps)
    /\ WF_vars(ConnectionEnds /\ latched)
    /\ WF_vars(Bootstrap)
    /\ WF_vars(EventsRequest)

FairSpec == Spec /\ Fairness

-----------------------------------------------------------------------------
Events == [kind : {"message_accepted", "model_invocation", "tool_execution",
                   "assistant_message_committed", "work"},
           work : Works, state : WorkStates, reason : TerminalReasons \cup {"none"},
           tool : ToolStates \cup {"none"}, origin : Origins \cup {"none"}]

TypeOK ==
    /\ works \in [Works -> Row]
    /\ journal \in Seq(Events)
    /\ owed \subseteq 1 .. MaxJournal /\ hinted \in 0 .. MaxJournal
    /\ latched \in BOOLEAN /\ opened \in 0 .. MaxConnections
    /\ conn.pc \in {"none", "subscribed", "upgrading"} \cup Serving
    /\ conn.scanned \in 0 .. MaxJournal /\ Len(conn.hints) <= HintCapacity
    /\ client.phase \in {"disconnected", "connecting", "replaying", "live",
                         "fatal_protocol_error"}
    /\ client.cursor \in 0 .. Len(journal)
    /\ client.view \in [Works -> View]

(* The client's cursor follows the journal without gap, repeat or disorder,  *)
(* through any replay, handoff, lost connection and new snapshot.            *)
PublicEvent(e) == PublicType(e) # "private"

Feed == INSTANCE JournalFeed WITH position <- client.cursor, Public <- PublicEvent

FeedStep == [Feed!Next]_<<journal, client.cursor>>
ImplementsFeed == Feed!Init /\ [][FeedStep]_vars

(* While the connection idles in its live loop, every cursor the broadcaster *)
(* has announced is one the client was sent, or a hint is waiting: the       *)
(* subscription before the high water read and the drain before              *)
(* sync.complete leave no window in which an announcement is lost.           *)
HintsCoverGap ==
    conn.pc = "live" => hinted <= conn.scanned \/ HintWaits(conn)

(* The row of a work as the journal up to a cursor tells it.                 *)
LastChange(w, cursor) ==
    LET at == {o \in 1 .. cursor : journal[o].work = w /\ journal[o].kind = "work"}
    IN  IF at = {} THEN NoRow
        ELSE LET o == CHOOSE o \in at : \A p \in at : p <= o
             IN [NoRow EXCEPT !.state = journal[o].state, !.reason = journal[o].reason]

(* Whatever mixture of snapshots and events built it, the view the client    *)
(* shows of a work is the state and the reason that work had at the client's *)
(* cursor.                                                                   *)
ViewIsTrue ==
    client.phase # "disconnected" =>
        \A w \in Works :
            LET row == LastChange(w, client.cursor) IN
            client.view[w].state = row.state /\ client.view[w].reason = row.reason

(* A client whose messages all come from clients like itself never meets an  *)
(* event its reducer refuses, so its session never ends in                   *)
(* fatal_protocol_error.                                                     *)
NeverRefused == client.phase # "fatal_protocol_error"

(* A client that has caught up shows what a fresh bootstrap would show it.   *)
Converged ==
    client.phase = "live" /\ client.cursor = Len(journal) =>
        client.view = [w \in Works |-> BootstrapView(works[w])]

(* A public event reaches a live client, hinted or not: the fallback scan    *)
(* finds what no announcement brought.                                       *)
Behind ==
    client.phase = "live" /\ \E o \in 1 .. Len(journal) : IsPublic(o) /\ client.cursor < o
EventArrives == []<>~Behind

(* After shutdown is latched no connection survives.                         *)
ShutdownDrains == []<>(latched => conn.pc = "none")
=============================================================================
