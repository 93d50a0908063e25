---------------------------- MODULE JournalFeed ----------------------------
(***************************************************************************)
(* What event delivery promises one client, whatever connections it takes: *)
(* it stands at a position of the journal, and the position moves only to  *)
(* the whole of the journal by a snapshot, or past one event at a time.    *)
(* No public event is skipped, repeated or shown out of order.             *)
(***************************************************************************)
EXTENDS Naturals, Sequences

CONSTANTS
    Events,        \* journal rows
    Public(_)      \* TRUE of a row that clients are shown

VARIABLES journal, position

Init == journal = <<>> /\ position = 0

(* A transaction appends its events together.                                *)
Write ==
    /\ Len(journal') > Len(journal)
    /\ SubSeq(journal', 1, Len(journal)) = journal
    /\ \A o \in DOMAIN journal' : journal'[o] \in Events
    /\ UNCHANGED position

Snapshot ==
    /\ position' = Len(journal)
    /\ UNCHANGED journal

(* One more public event, or the end of a stretch without any.               *)
Advance ==
    /\ position' \in position + 1 .. Len(journal)
    /\ \A o \in position + 1 .. position' - 1 : ~Public(journal[o])
    /\ UNCHANGED journal

Next == Write \/ Snapshot \/ Advance

Spec == Init /\ [][Next]_<<journal, position>>
=============================================================================
