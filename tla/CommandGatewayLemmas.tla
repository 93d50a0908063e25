------------------------ MODULE CommandGatewayLemmas ------------------------
(***************************************************************************)
(* Lemmas about CommandGateway, for every number of devices, keys, texts,  *)
(* requests, works and restarts.  An action that leaves the tables alone   *)
(* only has to account for the requests (TablesStay, AnswerKept); one that *)
(* writes to them makes them grow (Grows), which keeps what earlier rows   *)
(* say, and a first commit adds one row to that (CommitKept).              *)
(***************************************************************************)
EXTENDS CommandGateway, TLAPS

(* A sequence with one element replaced.                                     *)
LEMMA ReplaceOne ==
    ASSUME NEW S, NEW s \in Seq(S), NEW i \in 1..Len(s), NEW e \in S
    PROVE  /\ [s EXCEPT ![i] = e] \in Seq(S) /\ Len([s EXCEPT ![i] = e]) = Len(s)
           /\ [s EXCEPT ![i] = e][i] = e
           /\ \A j \in 1..Len(s) : j # i => [s EXCEPT ![i] = e][j] = s[j]
  OBVIOUS

(* A function on an initial segment of the numbers is a sequence.            *)
LEMMA FunctionIsSequence ==
    ASSUME NEW S, NEW n \in Nat, NEW f \in [1..n -> S]
    PROVE  f \in Seq(S) /\ Len(f) = n
  OBVIOUS

-----------------------------------------------------------------------------
(* The requests.                                                           *)

(* A request that ended without a receipt is sound, and keeps the            *)
(* conversation it named.                                                    *)
LEMMA SpentIsSound ==
    ASSUME NEW q \in Requests, NEW code \in Codes, code # "receipt"
    PROVE  /\ Spent(q, code) \in Requests
           /\ Spent(q, code).pc = "done" /\ Spent(q, code).kind = "spent"
           /\ Spent(q, code).conv = q.conv
           /\ RequestSound(Spent(q, code))
  <1>1. Finished(code) \in Outcomes /\ Finished(code).code = code
    BY DEF Finished, Outcomes
  <1>2. Spent(q, code) \in Requests
    BY ZenonT(60), <1>1 DEF Spent, Requests
  <1>3. /\ Spent(q, code).pc = "done" /\ Spent(q, code).kind = "spent"
        /\ Spent(q, code).conv = q.conv /\ Spent(q, code).device = NoDevice
        /\ Spent(q, code).outcome = Finished(code)
    BY DEF Spent, Requests
  <1> QED
    BY <1>1, <1>2, <1>3 DEF RequestSound

(* A dropped handler leaves its commit, if there is one, without an answer.  *)
LEMMA DroppedIsSound ==
    ASSUME NEW q \in Requests, RequestSound(q), q.pc # "done"
    PROVE  /\ Dropped(q) \in Requests
           /\ Dropped(q).pc = "done" /\ Dropped(q).outcome.code = "abandoned"
           /\ Dropped(q).conv = q.conv
           /\ RequestSound(Dropped(q))
           /\ q.pc = "stored" => /\ Identity(Dropped(q)) = Identity(q)
                                 /\ Dropped(q).outcome.replay = q.outcome.replay
                                 /\ Dropped(q).outcome.receipt = q.outcome.receipt
  <1>1. CASE q.pc = "stored"
    <2>1. /\ Dropped(q) = [q EXCEPT !.pc = "done", !.outcome.code = "abandoned"]
          /\ Dropped(q) = [q EXCEPT !.pc = "done", !.outcome = [q.outcome EXCEPT !.code = "abandoned"]]
      BY <1>1 DEF Dropped
    <2>2. /\ [q.outcome EXCEPT !.code = "abandoned"] \in Outcomes
          /\ [q.outcome EXCEPT !.code = "abandoned"].code = "abandoned"
          /\ [q.outcome EXCEPT !.code = "abandoned"].replay = q.outcome.replay
          /\ [q.outcome EXCEPT !.code = "abandoned"].receipt = q.outcome.receipt
      BY DEF Requests, Outcomes, Codes
    <2>3. /\ Dropped(q) \in Requests
          /\ Dropped(q).pc = "done" /\ Dropped(q).outcome.code = "abandoned"
          /\ Dropped(q).outcome.replay = q.outcome.replay
          /\ Dropped(q).outcome.receipt = q.outcome.receipt
          /\ Dropped(q).conv = q.conv /\ Dropped(q).device = q.device /\ Dropped(q).key = q.key
          /\ Dropped(q).kind = q.kind /\ Dropped(q).body = q.body
      BY ZenonT(60), <2>1, <2>2 DEF Requests
    <2>4. Identity(Dropped(q)) = Identity(q) /\ Hash(Dropped(q)) = Hash(q)
      BY <2>3 DEF Identity, Hash, MessageHash, CancelHash
    <2>5. q.kind # "spent" /\ Recorded(q)
      BY <1>1 DEF RequestSound
    <2>6. Recorded(Dropped(q))
      BY <2>3, <2>4, <2>5 DEF Recorded, CommandMatches
    <2>7. RequestSound(Dropped(q))
      BY <2>3, <2>4, <2>5, <2>6 DEF RequestSound
    <2> QED
      BY <2>3, <2>4, <2>7
  <1>2. CASE q.pc # "stored"
    <2>1. Dropped(q) = Spent(q, "abandoned")
      BY <1>2 DEF Dropped
    <2>2. Spent(q, "abandoned").outcome.code = "abandoned"
      BY DEF Spent, Finished, Requests
    <2> QED
      BY <1>2, <2>1, <2>2, SpentIsSound DEF Codes
  <1> QED
    BY <1>1, <1>2

(* What becomes of a request on its arrival.                                 *)
LEMMA EnteredIsSound ==
    ASSUME NEW q \in Requests, q.kind # "spent", q.pc = "checked", q.outcome = Pending,
           Identity(q) \in Identities, Hash(q) \in Hashes
    PROVE  /\ Entered(q) \in Requests
           /\ Entered(q).conv = q.conv
           /\ RequestSound(Entered(q))
           /\ \/ Entered(q).pc = "done" /\ Entered(q).kind = "spent"
              \/ Entered(q) = q /\ Authentic(q) /\ admission = "open"
  <1>1. \/ Entered(q) = q /\ Authentic(q) /\ admission = "open"
        \/ \E code \in {"authentication_failed", "invalid_request", "service_unavailable"} :
              Entered(q) = Spent(q, code)
    BY Zenon DEF Entered
  <1>2. CASE Entered(q) = q /\ Authentic(q) /\ admission = "open"
    BY <1>2 DEF RequestSound
  <1>3. CASE \E code \in {"authentication_failed", "invalid_request", "service_unavailable"} :
                Entered(q) = Spent(q, code)
    BY <1>3, SpentIsSound DEF Codes
  <1> QED
    BY <1>1, <1>2, <1>3

(* The requests that clients send.                                           *)
LEMMA ClientSendsSound ==
    ASSUME ClientSends
    PROVE  \E q \in Requests :
               /\ q.kind # "spent" /\ q.pc = "checked" /\ q.outcome = Pending
               /\ Identity(q) \in Identities /\ Hash(q) \in Hashes
               /\ Submit(q)
  <1> DEFINE Good(q) == /\ q \in Requests
                        /\ q.kind # "spent" /\ q.pc = "checked" /\ q.outcome = Pending
                        /\ Identity(q) \in Identities /\ Hash(q) \in Hashes
  <1>1. Pending \in Outcomes
    BY DEF Pending, Finished, Outcomes, Codes
  <1>2. ASSUME NEW d \in Devices, NEW k \in Keys, NEW valid \in Validity,
               NEW conv \in Conversations, NEW text \in Texts
        PROVE  Good(Request(d, k, valid, "message", conv, text))
    BY <1>1, GatewayAssumption
    DEF Request, Requests, Identity, Identities, Hash, MessageHash, Hashes, GatewayConstants
  <1>3. ASSUME NEW d \in Devices, NEW k \in Keys, NEW valid \in Validity, NEW w \in Targets
        PROVE  Good(Request(d, k, valid, "cancel", Primary, w))
    BY <1>1, GatewayAssumption
    DEF Request, Requests, Identity, Identities, Hash, CancelHash, Hashes, GatewayConstants
  <1> QED
    BY <1>2, <1>3 DEF ClientSends

(* One request is rewritten.                                                 *)
Updated(i, r) ==
    /\ requests' \in Seq(Requests) /\ Len(requests') = Len(requests)
    /\ \A j \in 1..Len(requests) : requests'[j] = IF j = i THEN r ELSE requests[j]

LEMMA UpdateOne ==
    ASSUME TypeOK, NEW i \in 1..Len(requests), NEW r \in Requests,
           requests' = [requests EXCEPT ![i] = r]
    PROVE  Updated(i, r)
  BY ReplaceOne DEF TypeOK, Updated

-----------------------------------------------------------------------------
(* Steps that leave the tables alone.                                      *)

(* What is said of the tables only.                                          *)
LEMMA TablesStay ==
    ASSUME UNCHANGED store
    PROVE  /\ WorksExplained' = WorksExplained
           /\ ReceiptsStayTrue' = ReceiptsStayTrue
           /\ \A c : MessageVerified(c)' = MessageVerified(c)
           /\ \A c : CancellationVerified(c)' = CancellationVerified(c)
           /\ \A o : CancellationEventVerified(o)' = CancellationEventVerified(o)
           /\ \A q : Recorded(q)' = Recorded(q)
           /\ \A q : RequestSound(q)' = RequestSound(q)
           /\ AttemptEvents' = AttemptEvents
  <1> USE DEF store
  <1>1. WorksExplained' = WorksExplained
    BY DEF WorksExplained, WorkExplained
  <1>2. ReceiptsStayTrue' = ReceiptsStayTrue
    BY DEF ReceiptsStayTrue, ReceiptTrue, CleanupPending
  <1>3. \A c : MessageVerified(c)' = MessageVerified(c)
    BY DEF MessageVerified, TriggerVerified, QueuedVerified, MessageHash
  <1>4. \A e, c : CausedBy(e, c)' = CausedBy(e, c)
    BY ZenonT(60) DEF CausedBy, UserCancellation
  <1>5. \A c : CancellationVerified(c)' = CancellationVerified(c)
    BY <1>4 DEF CancellationVerified, CompatibleNoOp, CancelHash
  <1>6. \A o : CancellationEventVerified(o)' = CancellationEventVerified(o)
    BY <1>4 DEF CancellationEventVerified, UserCancellation
  <1>7. \A q : Recorded(q)' = Recorded(q)
    BY DEF Recorded, CommandMatches, Identity, Hash, MessageHash, CancelHash
  <1>8. \A q : RequestSound(q)' = RequestSound(q)
    BY <1>7 DEF RequestSound, Identity, Hash, MessageHash, CancelHash
  <1>9. AttemptEvents' = AttemptEvents
    BY ZenonT(60) DEF AttemptEvents
  <1> QED
    BY <1>1, <1>2, <1>3, <1>5, <1>6, <1>7, <1>8, <1>9

(* What is said of a command's row, while no device leaves its state for     *)
(* "absent".                                                                 *)
LEMMA RowsStay ==
    ASSUME UNCHANGED store, GatewayInvariant,
           \A d \in Devices : devices[d].state # "absent" => devices'[d].state # "absent"
    PROVE  \A c \in Identities : commands[c] # NoRow => RowSound(c)'
  <1> TAKE c \in Identities
  <1> HAVE commands[c] # NoRow
  <1>1. RowSound(c) /\ c[1] \in Devices
    BY DEF GatewayInvariant, Identities
  <1>2. commands' = commands
    BY DEF store
  <1> QED
    BY <1>1, <1>2, TablesStay DEF RowSound, ReceiptDecodes, HttpStatus, CleanupPending,
       CancelHash

(* A handler is answered, dropped or given the outcome of its transaction.   *)
LEMMA AnswerKept ==
    ASSUME GatewayInvariant, NEW i \in 1..Len(requests), NEW r \in Requests, Updated(i, r),
           UNCHANGED <<store, devices, admission, restarts, clock>>,
           requests[i].pc # "done",
           r.pc = "done" \/ (r.pc = "stored" /\ requests[i].pc = "permitted"),
           r.conv = requests[i].conv, RequestSound(r),
           published \subseteq published', published' \subseteq 1..Len(journal),
           health' = health \/ (health' = "fatal" /\ requests[i].conv # Primary),
           requests[i].pc = "stored" /\ ~requests[i].outcome.replay
             => \/ /\ Identity(r) = Identity(requests[i]) /\ r.outcome.code = "abandoned"
                   /\ ~r.outcome.replay /\ r.outcome.receipt = requests[i].outcome.receipt
                \/ requests[i].outcome.receipt.state \in {"queued", "cancel_requested"}
                     => requests[i].outcome.receipt.cursor \in published'
    PROVE  GatewayInvariant'
  <1>0. store' = store /\ works' = works /\ journal' = journal /\ commands' = commands
    BY ZenonT(60) DEF store
  <1>1. TypeOK'
    BY ZenonT(60), <1>0 DEF GatewayInvariant, TypeOK, Updated, HealthStates
  <1>2. HandlersLive'
    BY ZenonT(60) DEF GatewayInvariant, HandlersLive, HoldsPermit, Updated
  <1>3. RequestsSound'
    BY ZenonT(60), <1>0, TablesStay DEF GatewayInvariant, RequestsSound, Updated
  <1>4. WorksExplained' /\ ReceiptsStayTrue'
    BY <1>0, TablesStay DEF GatewayInvariant
  <1>5. \A c \in Identities : commands[c] # NoRow => RowSound(c)'
    BY ZenonT(60), <1>0, RowsStay
  <1>6. AnnouncedOrOwed'
    <2> SUFFICES ASSUME NEW c \in Identities, commands[c] # NoRow,
                        commands[c].receipt.state \in {"queued", "cancel_requested"},
                        commands[c].receipt.cursor \notin published'
                 PROVE  AnnouncementOwed(c)'
      BY <1>0 DEF AnnouncedOrOwed
    <2>1. AnnouncementOwed(c)
      BY ZenonT(60) DEF GatewayInvariant, AnnouncedOrOwed
    <2>2. PICK j \in 1..Len(requests) :
             /\ Identity(requests[j]) = c
             /\ requests[j].pc = "stored" \/ requests[j].outcome.code = "abandoned"
             /\ ~requests[j].outcome.replay
             /\ requests[j].outcome.receipt = commands[c].receipt
      BY ZenonT(60), <2>1 DEF AnnouncementOwed
    <2>3. CASE j # i
      BY ZenonT(60), <1>0, <2>2, <2>3 DEF AnnouncementOwed, Updated, Identity
    <2>4. CASE j = i
      <3>0. requests[i] \in Requests /\ RequestSound(requests[i])
        BY DEF GatewayInvariant, RequestsSound, TypeOK
      <3>1. requests[i].pc = "stored"
        BY <2>2, <2>4, <3>0 DEF RequestSound, Pending, Finished, Requests
      <3> QED
        BY ZenonT(60), <1>0, <2>2, <2>4, <3>1 DEF AnnouncementOwed, Updated, Identity
    <2> QED
      BY ZenonT(60), <2>3, <2>4
  <1>7. DevicesVerified'
    BY DEF GatewayInvariant, DevicesVerified, DeviceVerified
  <1>8. FatalNeedsForeignConversation'
    BY ZenonT(60) DEF GatewayInvariant, FatalNeedsForeignConversation, Updated
  <1>9. Clock = "distinct" => ReadingsDistinct'
    BY <1>0, TablesStay DEF GatewayInvariant, ReadingsDistinct, Updated
  <1> QED
    BY ZenonT(60), <1>0, <1>1, <1>2, <1>3, <1>4, <1>5, <1>6, <1>7, <1>8,
       <1>9 DEF GatewayInvariant

LEMMA AbandonKept ==
    ASSUME GatewayInvariant, NEW i \in 1..Len(requests), Abandon(i)
    PROVE  GatewayInvariant'
  <1> DEFINE q == requests[i]
             r == Dropped(requests[i])
  <1>1. q \in Requests /\ RequestSound(q) /\ q.pc # "done"
    BY DEF Abandon, Live, GatewayInvariant, RequestsSound, TypeOK
  <1>2. /\ r \in Requests /\ r.pc = "done" /\ r.outcome.code = "abandoned" /\ r.conv = q.conv
        /\ RequestSound(r)
        /\ q.pc = "stored" => /\ Identity(r) = Identity(q) /\ r.outcome.replay = q.outcome.replay
                              /\ r.outcome.receipt = q.outcome.receipt
    BY <1>1, DroppedIsSound
  <1>3. Updated(i, r)
    BY ZenonT(60), <1>2, UpdateOne DEF Abandon, GatewayInvariant
  <1>4. /\ UNCHANGED <<store, devices, admission, restarts, clock>> /\ health' = health
        /\ published' = published /\ published \subseteq 1..Len(journal)
    BY ZenonT(60) DEF Abandon, GatewayInvariant, TypeOK
  <1> HIDE DEF r
  <1> QED
    BY ZenonT(60), <1>1, <1>2, <1>3, <1>4, AnswerKept

(* Every end of a handler without a receipt.                                 *)
LEMMA EndKept ==
    ASSUME GatewayInvariant, NEW i \in 1..Len(requests), NEW code \in Codes, code # "receipt",
           requests[i].pc \in {"checked", "permitted"}, requests' = Ended(i, code),
           UNCHANGED <<store, devices, admission, restarts, clock, published>>,
           health' = health \/ (health' = "fatal" /\ requests[i].conv # Primary)
    PROVE  GatewayInvariant'
  <1> DEFINE r == Spent(requests[i], code)
  <1>1. requests[i] \in Requests
    BY DEF GatewayInvariant, TypeOK
  <1>2. r \in Requests /\ r.pc = "done" /\ r.conv = requests[i].conv /\ RequestSound(r)
    BY <1>1, SpentIsSound
  <1>3. Updated(i, r)
    BY ZenonT(60), <1>2, UpdateOne DEF Ended, GatewayInvariant
  <1>4. published \subseteq 1..Len(journal)
    BY ZenonT(60) DEF GatewayInvariant, TypeOK
  <1> HIDE DEF r
  <1> QED
    BY ZenonT(60), <1>2, <1>3, <1>4, AnswerKept

LEMMA PostCommitKept ==
    ASSUME GatewayInvariant, NEW i \in 1..Len(requests), PostCommit(i)
    PROVE  GatewayInvariant'
  <1> DEFINE q == requests[i]
             r == [q EXCEPT !.pc = "done"]
  <1>1. q \in Requests /\ RequestSound(q) /\ q.pc = "stored"
    BY DEF PostCommit, GatewayInvariant, RequestsSound, TypeOK
  <1>2. q.kind # "spent" /\ Recorded(q) /\ Identity(q) \in Identities
    BY ZenonT(60), <1>1 DEF RequestSound
  <1>3. q.outcome.receipt.cursor \in 1..Len(journal)
    BY <1>2 DEF Recorded, GatewayInvariant, TypeOK
  <1>4. /\ r \in Requests /\ r.pc = "done" /\ r.conv = q.conv /\ r.outcome = q.outcome
        /\ r.device = q.device /\ r.key = q.key /\ r.kind = q.kind /\ r.body = q.body
    BY <1>1 DEF Requests
  <1> HIDE DEF r
  <1>5. Identity(r) = Identity(q) /\ Hash(r) = Hash(q)
    BY ZenonT(60), <1>4 DEF Identity, Hash, MessageHash, CancelHash
  <1>6. RequestSound(r)
    BY <1>1, <1>2, <1>4, <1>5 DEF RequestSound, Recorded, CommandMatches
  <1>7. Updated(i, r)
    BY ZenonT(60), <1>4, UpdateOne DEF PostCommit, GatewayInvariant, r
  <1>8. /\ UNCHANGED <<store, devices, admission, restarts, clock>> /\ health' = health
        /\ published' = IF Announced(q.outcome) THEN published \cup {q.outcome.receipt.cursor}
                                                ELSE published
    BY ZenonT(60) DEF PostCommit
  <1>9. published \subseteq 1..Len(journal)
    BY DEF GatewayInvariant, TypeOK
  <1>10. published \subseteq published' /\ published' \subseteq 1..Len(journal)
    BY ZenonT(60), <1>3, <1>8, <1>9
  <1>11. ~q.outcome.replay /\ q.outcome.receipt.state \in {"queued", "cancel_requested"}
           => q.outcome.receipt.cursor \in published'
    BY <1>8 DEF Announced
  <1> QED
    BY ZenonT(60), <1>1, <1>4, <1>6, <1>7, <1>8, <1>10, <1>11, AnswerKept

LEMMA ReplayKept ==
    ASSUME GatewayInvariant, NEW i \in 1..Len(requests), requests[i].pc = "permitted", Replay(i),
           UNCHANGED <<admission, restarts, clock, devices, published>>
    PROVE  GatewayInvariant'
  <1> DEFINE q == requests[i]
             row == commands[Identity(q)]
             r == [q EXCEPT !.pc = "stored", !.outcome = Outcome(TRUE, row.receipt)]
  <1>1. q \in Requests /\ RequestSound(q)
    BY DEF GatewayInvariant, RequestsSound, TypeOK
  <1>2. q.kind # "spent" /\ Identity(q) \in Identities /\ Hash(q) \in Hashes
    BY ZenonT(60), <1>1 DEF RequestSound
  <1>3. row # NoRow /\ row \in CommandRows
    BY <1>2 DEF Replay, GatewayInvariant, TypeOK
  <1>4. UNCHANGED store /\ health' = health
    BY ZenonT(60) DEF Replay
  <1>5. CASE ~CommandMatches(row, q)
    <2>1. requests' = Ended(i, "idempotency_conflict")
      BY ZenonT(60), <1>5 DEF Replay
    <2> QED
      BY <1>4, <2>1, EndKept DEF Codes
  <1>6. CASE CommandMatches(row, q)
    <2>1. requests' = [requests EXCEPT ![i] = r]
      BY ZenonT(60), <1>6 DEF Replay
    <2>2. Outcome(TRUE, row.receipt) \in Outcomes
      BY <1>3 DEF Outcome, Outcomes, CommandRows, Codes
    <2>3. /\ r \in Requests /\ r.pc = "stored" /\ r.conv = q.conv
          /\ r.outcome = Outcome(TRUE, row.receipt)
          /\ r.device = q.device /\ r.key = q.key /\ r.kind = q.kind /\ r.body = q.body
      BY ZenonT(60), <1>1, <2>2 DEF Requests
    <2> HIDE DEF r
    <2>4. Identity(r) = Identity(q) /\ Hash(r) = Hash(q)
      BY ZenonT(60), <2>3 DEF Identity, Hash, MessageHash, CancelHash
    <2>5. RequestSound(r)
      BY <1>2, <1>3, <1>6, <2>3, <2>4 DEF RequestSound, Recorded, CommandMatches, Outcome
    <2>6. Updated(i, r)
      BY ZenonT(60), <2>1, <2>3, UpdateOne DEF GatewayInvariant
    <2>7. published \subseteq 1..Len(journal)
      BY DEF GatewayInvariant, TypeOK
    <2> QED
      BY <1>4, <2>3, <2>5, <2>6, <2>7, AnswerKept
  <1> QED
    BY ZenonT(60), <1>5, <1>6

LEMMA TakePermitKept ==
    ASSUME GatewayInvariant, NEW i \in 1..Len(requests), TakePermit(i)
    PROVE  GatewayInvariant'
  <1>1. CASE requests' = Ended(i, "service_unavailable") /\ UNCHANGED clock
    BY ZenonT(60), <1>1, EndKept DEF TakePermit, Codes
  <1>2. CASE StillAccepting /\ \E t \in 1..MaxClock :
                /\ Reads(t)
                /\ requests' = [requests EXCEPT ![i].pc = "permitted", ![i].at = t]
    <2>1. PICK t \in 1..MaxClock :
             Reads(t) /\ requests' = [requests EXCEPT ![i].pc = "permitted", ![i].at = t]
      BY ZenonT(60), <1>2
    <2> DEFINE q == requests[i]
               r == [q EXCEPT !.pc = "permitted", !.at = t]
    <2>2. q \in Requests /\ RequestSound(q) /\ q.pc = "checked" /\ admission = "open"
      BY <1>2 DEF TakePermit, GatewayInvariant, RequestsSound, TypeOK, StillAccepting
    <2>3. /\ r \in Requests /\ r.pc = "permitted" /\ r.conv = q.conv /\ r.outcome = q.outcome
          /\ r.device = q.device /\ r.key = q.key /\ r.kind = q.kind /\ r.body = q.body
          /\ r.at = t
      <3>1. t \in Nat
        BY <2>1, GatewayAssumption DEF GatewayConstants
      <3> QED
        BY ZenonT(60), <2>2, <3>1 DEF Requests
    <2>4. requests' = [requests EXCEPT ![i] = r]
      BY ZenonT(60), <2>1
    <2> HIDE DEF r
    <2>5. Updated(i, r)
      BY ZenonT(60), <2>3, <2>4, UpdateOne DEF GatewayInvariant
    <2>6. Identity(r) = Identity(q) /\ Hash(r) = Hash(q)
      BY ZenonT(60), <2>3 DEF Identity, Hash, MessageHash, CancelHash
    <2>7. RequestSound(r)
      BY <2>2, <2>3, <2>6 DEF RequestSound
    <2>8. UNCHANGED <<health, admission, restarts, devices, store, published>>
      BY DEF TakePermit
    <2>9. works' = works /\ journal' = journal /\ commands' = commands
      BY <2>8 DEF store
    <2>10. /\ clock \in Nat /\ clock' \in 0..MaxClock
           /\ Clock = "distinct" => t = clock + 1 /\ clock' = t
      BY <2>1, GatewayAssumption DEF Reads, GatewayInvariant, TypeOK, GatewayConstants
    <2>11. TypeOK'
      BY ZenonT(60), <2>5, <2>8, <2>9, <2>10 DEF GatewayInvariant, TypeOK, Updated
    <2>12. HandlersLive'
      BY ZenonT(60), <2>2, <2>3, <2>5, <2>8 DEF GatewayInvariant, HandlersLive, HoldsPermit,
         Updated
    <2>13. RequestsSound'
      BY <2>5, <2>7, <2>8, TablesStay DEF GatewayInvariant, RequestsSound, Updated
    <2>14. WorksExplained' /\ ReceiptsStayTrue'
      BY ZenonT(60), <2>8, TablesStay DEF GatewayInvariant
    <2>15. \A c \in Identities : commands'[c] # NoRow => RowSound(c)'
      BY ZenonT(60), <2>8, <2>9, RowsStay
    <2>16. AnnouncedOrOwed'
      <3>1. q.outcome.code = "pending"
        BY <2>2 DEF RequestSound, Pending, Finished
      <3>2. ASSUME NEW c \in Identities, AnnouncementOwed(c) PROVE AnnouncementOwed(c)'
        <4>1. PICK j \in 1..Len(requests) :
                 /\ Identity(requests[j]) = c
                 /\ requests[j].pc = "stored" \/ requests[j].outcome.code = "abandoned"
                 /\ ~requests[j].outcome.replay
                 /\ requests[j].outcome.receipt = commands[c].receipt
          BY ZenonT(60), <3>2 DEF AnnouncementOwed
        <4>2. j # i
          BY ZenonT(60), <2>2, <3>1, <4>1
        <4>3. j \in 1..Len(requests') /\ requests'[j] = requests[j]
          BY ZenonT(60), <2>5, <4>2 DEF Updated
        <4> QED
          BY ZenonT(60), <2>9, <4>1, <4>3 DEF AnnouncementOwed, Identity
      <3> QED
        BY ZenonT(60), <2>8, <2>9, <3>2 DEF GatewayInvariant, AnnouncedOrOwed
    <2>17. DevicesVerified' /\ FatalNeedsForeignConversation'
      BY ZenonT(60), <2>3, <2>5, <2>8 DEF GatewayInvariant, DevicesVerified, DeviceVerified,
         FatalNeedsForeignConversation, Updated
    <2>18. ASSUME Clock = "distinct" PROVE ReadingsDistinct'
      <3>1. ReadingsDistinct
        BY ZenonT(60), <2>18 DEF GatewayInvariant
      <3>2. \A c \in Identities : commands'[c] # NoRow =>
               /\ commands'[c].at \in 1..clock'
               /\ \A d \in Identities \ {c} :
                     commands'[d] # NoRow => commands'[c].at # commands'[d].at
               /\ commands'[c].kind = "cancel" => CancellationVerified(c)'
        BY <2>8, <2>9, <2>10, <2>18, <3>1, TablesStay DEF ReadingsDistinct
      <3>3. \A c \in Identities : commands'[c] # NoRow => commands'[c].at # t
        BY <2>9, <2>10, <2>18, <3>1 DEF ReadingsDistinct
      <3>4. \A j \in 1..Len(requests) : requests[j].pc = "permitted" =>
               requests[j].at # t /\ requests[j].at \in 1..clock'
        BY <2>10, <2>18, <3>1 DEF ReadingsDistinct
      <3>5. \A j \in 1..Len(requests) : requests'[j].pc = "permitted" =>
               /\ requests'[j].at \in 1..clock'
               /\ \A c \in Identities : commands'[c] # NoRow => commands'[c].at # requests'[j].at
               /\ \A k \in 1..Len(requests) \ {j} :
                     requests'[k].pc = "permitted" => requests'[k].at # requests'[j].at
        BY <2>3, <2>5, <2>9, <2>10, <2>18, <3>1, <3>3, <3>4 DEF ReadingsDistinct, Updated
      <3>6. \A o \in 1..Len(journal) : CancellationEventVerified(o)'
        BY <2>8, <3>1, TablesStay DEF ReadingsDistinct
      <3> QED
        BY ZenonT(60), <2>5, <2>9, <3>2, <3>5, <3>6 DEF ReadingsDistinct, Updated
    <2> QED
      BY ZenonT(60), <2>11, <2>12, <2>13, <2>14, <2>15, <2>16, <2>17,
         <2>18 DEF GatewayInvariant
  <1> QED
    BY ZenonT(60), <1>1, <1>2 DEF TakePermit

(* last_seen_at never falls before the creation, and changes nothing else.   *)
LEMMA TouchedIsVerified ==
    ASSUME NEW row \in DeviceRows, NEW t \in Nat,
           row.state # "absent" => /\ row.seen # 0 => row.seen >= row.created
                                   /\ row.state = "revoked" => row.revoked >= row.created
    PROVE  /\ Touched(row, t) \in DeviceRows
           /\ Touched(row, t).state = row.state
           /\ row.state # "absent" =>
                /\ Touched(row, t).seen # 0 => Touched(row, t).seen >= Touched(row, t).created
                /\ row.state = "revoked" => Touched(row, t).revoked >= Touched(row, t).created
  BY ZenonT(60) DEF Touched, DeviceRows

LEMMA SubmitKept ==
    ASSUME GatewayInvariant, ClientSends
    PROVE  GatewayInvariant'
  <1>1. PICK q \in Requests :
           /\ q.kind # "spent" /\ q.pc = "checked" /\ q.outcome = Pending
           /\ Identity(q) \in Identities /\ Hash(q) \in Hashes
           /\ Submit(q)
    BY ClientSendsSound
  <1> DEFINE r == Entered(q)
             n == Len(requests) + 1
  <1>2. /\ r \in Requests /\ r.conv = q.conv /\ RequestSound(r)
        /\ \/ r.pc = "done" /\ r.kind = "spent"
           \/ r = q /\ Authentic(q) /\ admission = "open"
    BY <1>1, EnteredIsSound
  <1>3. /\ health # "down" /\ requests' = Append(requests, r)
        /\ UNCHANGED <<health, admission, restarts, clock, store, published>>
    BY ZenonT(60), <1>1 DEF Submit
  <1> HIDE DEF r
  <1>4. /\ requests' \in Seq(Requests) /\ Len(requests') = n /\ requests'[n] = r
        /\ \A j \in 1..Len(requests) : requests'[j] = requests[j]
        /\ 1..n = 1..Len(requests) \cup {n} /\ Len(requests) \in Nat
    BY <1>2, <1>3 DEF GatewayInvariant, TypeOK
  <1>5. q.device \in Devices
    BY <1>1 DEF Identity, Identities
  <1>6. PICK t \in Observed : devices' = [devices EXCEPT ![q.device] = Touched(devices[q.device], t)]
    BY ZenonT(60), <1>1 DEF Submit
  <1>7. t \in Nat
    BY <1>6, GatewayAssumption DEF Observed, GatewayInvariant, TypeOK, GatewayConstants
  <1>8. /\ devices' \in [Devices -> DeviceRows]
        /\ \A d \in Devices : devices'[d].state = devices[d].state
        /\ DevicesVerified'
    <2>1. \A d \in Devices : devices[d] \in DeviceRows /\ DeviceVerified(d)
      BY ZenonT(60) DEF GatewayInvariant, TypeOK, DevicesVerified
    <2>2. /\ Touched(devices[q.device], t) \in DeviceRows
          /\ Touched(devices[q.device], t).state = devices[q.device].state
          /\ devices[q.device].state # "absent" =>
               LET row == Touched(devices[q.device], t) IN
               /\ row.seen # 0 => row.seen >= row.created
               /\ row.state = "revoked" => row.revoked >= row.created
      BY ZenonT(60), <1>5, <1>7, <2>1, TouchedIsVerified DEF DeviceVerified
    <2>3. /\ devices' \in [Devices -> DeviceRows]
          /\ \A d \in Devices \ {q.device} : devices'[d] = devices[d]
          /\ devices'[q.device] = Touched(devices[q.device], t)
      BY ZenonT(60), <1>5, <1>6, <2>2 DEF GatewayInvariant, TypeOK
    <2> QED
      BY ZenonT(60), <1>5, <2>1, <2>2, <2>3 DEF DevicesVerified, DeviceVerified
  <1>9. works' = works /\ journal' = journal /\ commands' = commands
    BY <1>3 DEF store
  <1>10. TypeOK'
    BY ZenonT(60), <1>3, <1>4, <1>8, <1>9 DEF GatewayInvariant, TypeOK
  <1>11. HandlersLive'
    <2>1. r.pc \notin {"permitted", "stored"}
      BY ZenonT(60), <1>1, <1>2
    <2>2. r.pc \in {"checked", "permitted"} => devices'[r.device].state = "active"
      BY <1>2, <1>5, <1>8 DEF Authentic
    <2>3. \A j \in 1..Len(requests) : requests[j].pc \in {"checked", "permitted"}
            => requests[j].device \in Devices
      BY ZenonT(60) DEF GatewayInvariant, RequestsSound, RequestSound, Identity, Identities
    <2>4. HandlersLive
      BY ZenonT(60) DEF GatewayInvariant
    <2>5. \A j \in 1..Len(requests) : requests[j].pc \in {"checked", "permitted"}
            => devices'[requests[j].device].state = "active"
      BY ZenonT(60), <1>8, <2>3, <2>4 DEF HandlersLive
    <2>6. \A j \in 1..Len(requests') : requests'[j].pc \in {"checked", "permitted"}
            => devices'[requests'[j].device].state = "active"
      BY ZenonT(60), <1>4, <2>2, <2>5
    <2>7. admission' = "closed" => \A j \in 1..Len(requests') : ~HoldsPermit(requests'[j])
      BY ZenonT(60), <1>3, <1>4, <2>1, <2>4 DEF HandlersLive, HoldsPermit
    <2> QED
      BY ZenonT(60), <1>3, <2>6, <2>7 DEF HandlersLive, HoldsPermit
  <1>12. RequestsSound'
    BY ZenonT(60), <1>2, <1>3, <1>4, TablesStay DEF GatewayInvariant, RequestsSound
  <1>13. WorksExplained' /\ ReceiptsStayTrue'
    BY ZenonT(60), <1>3, TablesStay DEF GatewayInvariant
  <1>14. \A c \in Identities : commands'[c] # NoRow => RowSound(c)'
    BY ZenonT(60), <1>3, <1>8, <1>9, RowsStay
  <1>15. AnnouncedOrOwed'
    <2>1. \A c \in Identities : AnnouncementOwed(c) => AnnouncementOwed(c)'
      <3> SUFFICES ASSUME NEW c \in Identities, AnnouncementOwed(c) PROVE AnnouncementOwed(c)'
        BY ZenonT(60)
      <3>1. PICK j \in 1..Len(requests) :
               /\ Identity(requests[j]) = c
               /\ requests[j].pc = "stored" \/ requests[j].outcome.code = "abandoned"
               /\ ~requests[j].outcome.replay
               /\ requests[j].outcome.receipt = commands[c].receipt
        BY ZenonT(60) DEF AnnouncementOwed
      <3>2. j \in 1..Len(requests') /\ requests'[j] = requests[j] /\ commands'[c] = commands[c]
        BY ZenonT(60), <1>4, <1>9
      <3> QED
        BY ZenonT(60), <3>1, <3>2 DEF AnnouncementOwed, Identity
    <2> QED
      BY ZenonT(60), <1>3, <1>9, <2>1 DEF GatewayInvariant, AnnouncedOrOwed
  <1>16. FatalNeedsForeignConversation'
    BY ZenonT(60), <1>3, <1>4 DEF GatewayInvariant, FatalNeedsForeignConversation
  <1>17. Clock = "distinct" => ReadingsDistinct'
    <2>1. r.pc # "permitted"
      BY <1>1, <1>2
    <2> QED
      BY <1>3, <1>4, <1>9, <2>1, TablesStay DEF GatewayInvariant, ReadingsDistinct
  <1> QED
    BY ZenonT(60), <1>8, <1>10, <1>11, <1>12, <1>13, <1>14, <1>15, <1>16,
       <1>17 DEF GatewayInvariant

(* What is announced, and whose fault a fatal service is, when neither the    *)
(* requests nor the rows change.                                             *)
LEMMA AnnouncementsStay ==
    ASSUME GatewayInvariant, requests' = requests, commands' = commands, published' = published,
           health' = "fatal" => health = "fatal"
    PROVE  AnnouncedOrOwed' /\ FatalNeedsForeignConversation'
  <1>1. AnnouncedOrOwed'
    BY DEF GatewayInvariant, AnnouncedOrOwed, AnnouncementOwed, Identity
  <1>2. FatalNeedsForeignConversation'
    BY DEF GatewayInvariant, FatalNeedsForeignConversation
  <1> QED
    BY ZenonT(60), <1>1, <1>2

(* craxii-admin works while no handler lives.                                *)
LEMMA AdminKept ==
    ASSUME GatewayInvariant, NEW d \in Devices, Provision(d) \/ Revoke(d)
    PROVE  GatewayInvariant'
  <1>1. /\ health = "down"
        /\ UNCHANGED <<health, admission, restarts, store, published, requests>>
    BY ZenonT(60) DEF Provision, Revoke, AdminOffline
  <1>2. PICK t \in 1..MaxClock, row \in DeviceRows :
           /\ Reads(t) /\ devices' = [devices EXCEPT ![d] = row]
           /\ row.state # "absent"
           /\ row.seen # 0 => row.seen >= row.created
           /\ row.state = "revoked" => row.revoked >= row.created
    <2>0. MaxClock \in Nat /\ devices[d] \in DeviceRows /\ DeviceVerified(d)
      BY GatewayAssumption DEF GatewayConstants, GatewayInvariant, TypeOK, DevicesVerified
    <2>1. CASE Provision(d)
      <3>1. PICK t \in 1..MaxClock : Reads(t) /\ devices' = [devices EXCEPT ![d] =
                [state |-> "active", created |-> t, seen |-> 0, revoked |-> 0]]
        BY ZenonT(60), <2>1 DEF Provision
      <3> DEFINE row == [state |-> "active", created |-> t, seen |-> 0, revoked |-> 0]
      <3>2. t \in Nat
        BY <2>0
      <3>3. row \in DeviceRows /\ row.state = "active" /\ row.seen = 0
        BY ZenonT(60), <3>2 DEF DeviceRows
      <3>4. devices' = [devices EXCEPT ![d] = row]
        BY <3>1
      <3> HIDE DEF row
      <3> QED
        BY ZenonT(60), <3>1, <3>3, <3>4
    <2>2. CASE Revoke(d)
      <3>1. PICK t \in 1..MaxClock : Reads(t) /\ Revocable(d, t) /\ devices' =
                [devices EXCEPT ![d].state = "revoked", ![d].revoked = t]
        BY ZenonT(60), <2>2 DEF Revoke
      <3> DEFINE row == [devices[d] EXCEPT !.state = "revoked", !.revoked = t]
      <3>2. devices' = [devices EXCEPT ![d] = row]
        BY ZenonT(60), <3>1
      <3>t. t \in Nat
        BY <2>0
      <3>3. /\ row \in DeviceRows /\ row.state = "revoked" /\ row.revoked = t
            /\ row.seen = devices[d].seen /\ row.created = devices[d].created
        BY ZenonT(60), <2>0, <3>t DEF DeviceRows
      <3> HIDE DEF row
      <3>4. row.revoked >= row.created /\ (row.seen # 0 => row.seen >= row.created)
        BY ZenonT(60), <2>0, <3>1, <3>3 DEF Revocable, DeviceVerified
      <3> QED
        BY ZenonT(60), <3>1, <3>2, <3>3, <3>4
    <2> QED
      BY ZenonT(60), <2>1, <2>2
  <1>3. /\ devices' \in [Devices -> DeviceRows] /\ devices'[d] = row
        /\ \A e \in Devices \ {d} : devices'[e] = devices[e]
    BY <1>2 DEF GatewayInvariant, TypeOK
  <1>4. works' = works /\ journal' = journal /\ commands' = commands /\ requests' = requests
    BY ZenonT(60), <1>1 DEF store
  <1>5. clock' \in 0..MaxClock /\ clock \in Nat /\ clock <= clock'
    BY <1>2, GatewayAssumption DEF Reads, GatewayInvariant, TypeOK, GatewayConstants
  <1>6. TypeOK'
    BY ZenonT(60), <1>1, <1>3, <1>4, <1>5 DEF GatewayInvariant, TypeOK
  <1>7. HandlersLive'
    BY ZenonT(60), <1>1, <1>4 DEF GatewayInvariant, HandlersLive
  <1>8. RequestsSound' /\ WorksExplained' /\ ReceiptsStayTrue'
    BY ZenonT(60), <1>1, <1>4, TablesStay DEF GatewayInvariant, RequestsSound
  <1>9. \A c \in Identities : commands'[c] # NoRow => RowSound(c)'
    BY <1>1, <1>2, <1>3, <1>4, RowsStay
  <1>10. AnnouncedOrOwed' /\ FatalNeedsForeignConversation'
    BY ZenonT(60), <1>1, <1>4, AnnouncementsStay
  <1>11. DevicesVerified'
    BY ZenonT(60), <1>2, <1>3 DEF GatewayInvariant, DevicesVerified, DeviceVerified
  <1>12. Clock = "distinct" => ReadingsDistinct'
    <2>1. \A j \in 1..Len(requests) : requests[j].pc = "done"
      BY <1>1 DEF GatewayInvariant, HandlersLive
    <2> QED
      BY <1>1, <1>4, <1>5, <2>1, TablesStay DEF GatewayInvariant, ReadingsDistinct
  <1> QED
    BY ZenonT(60), <1>6, <1>7, <1>8, <1>9, <1>10, <1>11, <1>12 DEF GatewayInvariant

(* Start, readiness, drain and the closing of admission.                     *)
LEMMA ServiceKept ==
    ASSUME GatewayInvariant,
           UNCHANGED <<clock, devices, store, published, requests>>,
           health' \in HealthStates, admission' \in {"open", "closing", "closed"},
           restarts' \in 0..MaxRestarts,
           health' = "fatal" => health = "fatal",
           health' = "down" => health = "down" /\ admission' = "open",
           admission' = "closed" =>
               admission = "closed" \/ \A i \in 1..Len(requests) : ~HoldsPermit(requests[i])
    PROVE  GatewayInvariant'
  <1>1. works' = works /\ journal' = journal /\ commands' = commands /\ requests' = requests
    BY DEF store
  <1>2. TypeOK'
    BY ZenonT(60), <1>1 DEF GatewayInvariant, TypeOK
  <1>3. HandlersLive'
    BY ZenonT(60), <1>1 DEF GatewayInvariant, HandlersLive, HoldsPermit
  <1>4. RequestsSound' /\ WorksExplained' /\ ReceiptsStayTrue'
    BY ZenonT(60), <1>1, TablesStay DEF GatewayInvariant, RequestsSound
  <1>5. \A c \in Identities : commands'[c] # NoRow => RowSound(c)'
    BY <1>1, RowsStay
  <1>6. AnnouncedOrOwed' /\ FatalNeedsForeignConversation'
    BY ZenonT(60), <1>1, AnnouncementsStay
  <1>7. DevicesVerified'
    BY DEF GatewayInvariant, DevicesVerified, DeviceVerified
  <1>8. Clock = "distinct" => ReadingsDistinct'
    BY ZenonT(60), <1>1, TablesStay DEF GatewayInvariant, ReadingsDistinct
  <1> QED
    BY ZenonT(60), <1>2, <1>3, <1>4, <1>5, <1>6, <1>7, <1>8 DEF GatewayInvariant

(* The process ends, and with it every handler.                              *)
LEMMA StopKept ==
    ASSUME GatewayInvariant, Stop
    PROVE  GatewayInvariant'
  <1> DEFINE r(i) == IF Live(requests[i]) THEN Dropped(requests[i]) ELSE requests[i]
  <1>1. /\ health' = "down" /\ admission' = "open"
        /\ requests' = [i \in 1..Len(requests) |-> r(i)]
        /\ UNCHANGED <<restarts, clock, devices, store, published>>
    BY DEF Stop
  <1>2. \A i \in 1..Len(requests) :
           /\ r(i) \in Requests /\ r(i).pc = "done" /\ r(i).conv = requests[i].conv
           /\ RequestSound(r(i))
           /\ requests[i].pc \in {"stored", "done"} =>
                /\ Identity(r(i)) = Identity(requests[i])
                /\ r(i).outcome.replay = requests[i].outcome.replay
                /\ r(i).outcome.receipt = requests[i].outcome.receipt
           /\ requests[i].pc = "stored" => r(i).outcome.code = "abandoned"
           /\ requests[i].pc = "done" => r(i) = requests[i]
    <2> SUFFICES ASSUME NEW i \in 1..Len(requests)
                 PROVE  /\ r(i) \in Requests /\ r(i).pc = "done" /\ r(i).conv = requests[i].conv
                        /\ RequestSound(r(i))
                        /\ requests[i].pc \in {"stored", "done"} =>
                             /\ Identity(r(i)) = Identity(requests[i])
                             /\ r(i).outcome.replay = requests[i].outcome.replay
                             /\ r(i).outcome.receipt = requests[i].outcome.receipt
                        /\ requests[i].pc = "stored" => r(i).outcome.code = "abandoned"
                        /\ requests[i].pc = "done" => r(i) = requests[i]
      BY ZenonT(60)
    <2>1. requests[i] \in Requests /\ RequestSound(requests[i])
      BY DEF GatewayInvariant, RequestsSound, TypeOK
    <2>2. CASE requests[i].pc = "done"
      BY ZenonT(60), <2>1, <2>2 DEF Live
    <2>3. CASE requests[i].pc # "done"
      BY <2>1, <2>3, DroppedIsSound DEF Live
    <2> QED
      BY ZenonT(60), <2>2, <2>3
  <1> HIDE DEF r
  <1>3. /\ requests' \in Seq(Requests) /\ Len(requests') = Len(requests)
        /\ \A i \in 1..Len(requests) : requests'[i] = r(i)
    <2>1. requests \in Seq(Requests) /\ Len(requests) \in Nat
      BY DEF GatewayInvariant, TypeOK
    <2>2. requests' \in [1..Len(requests) -> Requests]
      BY <1>1, <1>2
    <2>3. requests' \in Seq(Requests) /\ Len(requests') = Len(requests)
      BY <2>1, <2>2, FunctionIsSequence
    <2> QED
      BY ZenonT(60), <1>1, <2>3
  <1>4. works' = works /\ journal' = journal /\ commands' = commands
    BY ZenonT(60), <1>1 DEF store
  <1>5. TypeOK'
    BY ZenonT(60), <1>1, <1>3, <1>4 DEF GatewayInvariant, TypeOK, HealthStates
  <1>6. HandlersLive'
    BY ZenonT(60), <1>1, <1>2, <1>3 DEF HandlersLive
  <1>7. RequestsSound'
    BY <1>1, <1>2, <1>3, TablesStay DEF RequestsSound
  <1>8. WorksExplained' /\ ReceiptsStayTrue'
    BY ZenonT(60), <1>1, TablesStay DEF GatewayInvariant
  <1>9. \A c \in Identities : commands'[c] # NoRow => RowSound(c)'
    BY <1>1, <1>4, RowsStay
  <1>10. AnnouncedOrOwed'
    <2> SUFFICES ASSUME NEW c \in Identities, commands[c] # NoRow,
                        commands[c].receipt.state \in {"queued", "cancel_requested"},
                        commands[c].receipt.cursor \notin published
                 PROVE  AnnouncementOwed(c)'
      BY ZenonT(60), <1>1, <1>4 DEF AnnouncedOrOwed
    <2>1. PICK j \in 1..Len(requests) :
             /\ Identity(requests[j]) = c
             /\ requests[j].pc = "stored" \/ requests[j].outcome.code = "abandoned"
             /\ ~requests[j].outcome.replay
             /\ requests[j].outcome.receipt = commands[c].receipt
      BY ZenonT(60) DEF GatewayInvariant, AnnouncedOrOwed, AnnouncementOwed
    <2>2. requests[j] \in Requests /\ RequestSound(requests[j])
      BY DEF GatewayInvariant, RequestsSound, TypeOK
    <2>3. requests[j].pc \in {"stored", "done"}
      BY <2>1, <2>2 DEF RequestSound, Pending, Finished, Requests
    <2>4. /\ Identity(r(j)) = c /\ r(j).outcome.code = "abandoned"
          /\ ~r(j).outcome.replay /\ r(j).outcome.receipt = commands[c].receipt
      BY ZenonT(60), <1>2, <2>1, <2>3
    <2>5. j \in 1..Len(requests') /\ requests'[j] = r(j) /\ commands'[c] = commands[c]
      BY ZenonT(60), <1>3, <1>4
    <2>6. /\ Identity(requests'[j]) = c /\ requests'[j].outcome.code = "abandoned"
          /\ ~requests'[j].outcome.replay
          /\ requests'[j].outcome.receipt = commands'[c].receipt
      BY ZenonT(60), <2>4, <2>5
    <2> QED
      BY ZenonT(60), <2>5, <2>6 DEF AnnouncementOwed, Identity
  <1>11. FatalNeedsForeignConversation' /\ DevicesVerified'
    BY ZenonT(60), <1>1 DEF GatewayInvariant, FatalNeedsForeignConversation,
       DevicesVerified, DeviceVerified
  <1>12. Clock = "distinct" => ReadingsDistinct'
    BY ZenonT(60), <1>1, <1>2, <1>3, <1>4, TablesStay DEF GatewayInvariant, ReadingsDistinct
  <1> QED
    BY ZenonT(60), <1>5, <1>6, <1>7, <1>8, <1>9, <1>10, <1>11, <1>12 DEF GatewayInvariant

-----------------------------------------------------------------------------
(* Steps that write to the tables.                                         *)

(* Events and works are appended, a work moves on by an event that says so   *)
(* and never out of a final state, and a command's row stays as it is.       *)
Grows ==
    /\ journal' \in Seq(Events) /\ Len(journal) <= Len(journal')
    /\ \A o \in 1..Len(journal) : journal'[o] = journal[o]
    /\ works' \in Seq(WorkRows) /\ Len(works) <= Len(works')
    /\ \A w \in 1..Len(works) :
          /\ works'[w].device = works[w].device /\ works'[w].key = works[w].key
          /\ works'[w].text = works[w].text /\ works'[w].at = works[w].at
          /\ works'[w].input = works[w].input
          /\ \/ works'[w].state = works[w].state
             \/ /\ works[w].state \notin Terminal
                /\ works[w].state = "cancel_requested" => works'[w].state \in Terminal
                /\ \E o \in 1..Len(journal') :
                      journal'[o].work = w /\ journal'[o].to = works'[w].state
    /\ \A w \in 1..Len(works') :
          w > Len(works) => commands[<<works'[w].device, works'[w].key>>] = NoRow
    /\ \A c \in Identities : commands[c] # NoRow => commands'[c] = commands[c]

(* All that is kept of one row, and of one work.                             *)
RowHolds(c) ==
    /\ RowSound(c)
    /\ commands[c].receipt.work \in 1..Len(works)
    /\ commands[c].receipt.cursor \in 1..Len(journal)
    /\ commands[c].kind = "cancel" => ReceiptTrue(c)

WorkHolds(w) == WorkExplained(w) /\ works[w].input \in 1..Len(journal)

(* What was in the tables is in them still.                                  *)
LEMMA GrownLengths ==
    ASSUME GatewayInvariant, Grows
    PROVE  /\ Len(journal) \in Nat /\ Len(journal') \in Nat /\ Len(journal) <= Len(journal')
           /\ Len(works) \in Nat /\ Len(works') \in Nat /\ Len(works) <= Len(works')
           /\ \A o \in 1..Len(journal) : o \in 1..Len(journal') /\ journal'[o] = journal[o]
           /\ \A w \in 1..Len(works) : w \in 1..Len(works')
  <1>1. /\ journal \in Seq(Events) /\ works \in Seq(WorkRows)
        /\ journal' \in Seq(Events) /\ works' \in Seq(WorkRows)
        /\ Len(journal) <= Len(journal') /\ Len(works) <= Len(works')
        /\ \A o \in 1..Len(journal) : journal'[o] = journal[o]
    BY Zenon DEF GatewayInvariant, TypeOK, Grows
  <1>2. Len(journal) \in Nat /\ Len(journal') \in Nat /\ Len(works) \in Nat /\ Len(works') \in Nat
    BY <1>1
  <1> QED
    BY <1>1, <1>2

(* What the rows of the commands rest on is kept by growing tables.          *)
LEMMA GrownRows ==
    ASSUME GatewayInvariant, Grows, UNCHANGED devices,
           NEW c \in Identities, commands[c] # NoRow
    PROVE  RowHolds(c)'
  <1> DEFINE row == commands[c]
             w == row.receipt.work
  <1>1. /\ RowSound(c) /\ w \in 1..Len(works) /\ row.receipt.cursor \in 1..Len(journal)
        /\ row \in CommandRows
    BY ZenonT(60) DEF GatewayInvariant, TypeOK
  <1>2. commands'[c] = row
    BY ZenonT(60) DEF Grows
  <1>3. Len(works) \in Nat /\ Len(works') \in Nat /\ Len(journal) \in Nat /\ Len(journal') \in Nat
    BY ZenonT(60), GrownLengths
  <1>4. w \in 1..Len(works') /\ row.receipt.cursor \in 1..Len(journal')
    BY ZenonT(60), <1>1, GrownLengths
  <1>5. row.kind = "cancel" => ReceiptTrue(c)'
    <2> SUFFICES ASSUME row.kind = "cancel" PROVE ReceiptTrue(c)'
      BY ZenonT(60)
    <2>1. ReceiptTrue(c)
      BY DEF GatewayInvariant, ReceiptsStayTrue
    <2>2. \/ works'[w].state = works[w].state
          \/ /\ works[w].state \notin Terminal
             /\ works[w].state = "cancel_requested" => works'[w].state \in Terminal
      BY ZenonT(60), <1>1 DEF Grows
    <2> QED
      BY ZenonT(60), <1>2, <2>1, <2>2 DEF ReceiptTrue, CleanupPending
  <1>6. ReceiptDecodes(commands[c]) => ReceiptDecodes(commands[c])'
    BY <1>2 DEF ReceiptDecodes, HttpStatus, CleanupPending
  <1>7. ASSUME row.kind = "message" PROVE RowSound(c)'
    <2>1. MessageVerified(c)
      BY ZenonT(60), <1>1, <1>7 DEF RowSound
    <2> DEFINE sent == {v \in 1..Len(works) : <<works[v].device, works[v].key>> = c}
               sentNow == {v \in 1..Len(works') : <<works'[v].device, works'[v].key>> = c}
    <2>2. /\ sent = {w} /\ works[w].at = row.at
          /\ row.hash = MessageHash(c[2], Primary, works[w].text)
          /\ TriggerVerified(c, w) /\ QueuedVerified(c, w)
      BY ZenonT(60), <2>1 DEF MessageVerified
    <2>3. sentNow = sent
      <3>1. \A v \in 1..Len(works) :
               v \in 1..Len(works') /\ <<works'[v].device, works'[v].key>> = <<works[v].device, works[v].key>>
        BY <1>3 DEF Grows
      <3>2. \A v \in 1..Len(works') : v \notin 1..Len(works) =>
               <<works'[v].device, works'[v].key>> # c
        BY <1>3 DEF Grows
      <3> QED
        BY ZenonT(60), <3>1, <3>2
    <2>4. works'[w].at = row.at /\ works'[w].text = works[w].text /\ works'[w].input = works[w].input
      BY ZenonT(60), <1>1, <2>2 DEF Grows
    <2>5. works[w].input \in 1..Len(journal) /\ journal'[works[w].input] = journal[works[w].input]
      BY ZenonT(60), <1>1 DEF GatewayInvariant, TypeOK, Grows
    <2>6. TriggerVerified(c, w)'
      BY ZenonT(60), <1>2, <2>2, <2>4, <2>5 DEF TriggerVerified
    <2>7. QueuedVerified(c, w)'
      <3>1. journal'[row.receipt.cursor] = journal[row.receipt.cursor]
        BY ZenonT(60), <1>1, GrownLengths
      <3> QED
        BY <1>2, <2>2, <3>1, Zenon DEF QueuedVerified
    <2>8. MessageVerified(c)'
      BY ZenonT(60), <1>2, <2>2, <2>3, <2>4, <2>6, <2>7 DEF MessageVerified, MessageHash
    <2> QED
      BY ZenonT(60), <1>1, <1>2, <1>6, <1>7, <2>8 DEF RowSound
  <1>8. ASSUME row.kind # "message" PROVE RowSound(c)'
    <2>1. commands'[c].hash = CancelHash(c[2], commands'[c].receipt.work)
      BY ZenonT(60), <1>1, <1>2, <1>8 DEF RowSound
    <2> QED
      BY ZenonT(60), <1>1, <1>2, <1>6, <1>8, <2>1 DEF RowSound, CancelHash
  <1> QED
    BY <1>2, <1>4, <1>5, <1>7, <1>8, Zenon DEF RowHolds

(* A row that stays keeps every answer true that was given from it.          *)
LEMMA GrownRequest ==
    ASSUME Grows, NEW q, RequestSound(q)
    PROVE  RequestSound(q)'
  <1>1. Recorded(q) /\ q.kind # "spent" => Recorded(q)'
    <2> SUFFICES ASSUME Recorded(q), q.kind # "spent" PROVE Recorded(q)'
      BY ZenonT(60)
    <2>1. commands[Identity(q)] # NoRow /\ Identity(q) \in Identities
      BY ZenonT(60) DEF Recorded, RequestSound
    <2>2. commands'[Identity(q)] = commands[Identity(q)]
      BY <2>1 DEF Grows
    <2> QED
      BY <2>1, <2>2 DEF Recorded, CommandMatches, Hash, MessageHash, CancelHash, Identity
  <1> QED
    BY ZenonT(60), <1>1 DEF RequestSound, Identity, Hash, MessageHash, CancelHash, Hashes,
       Pending, Finished

(* The works that were there stay explained, each in the state it has now.   *)
LEMMA GrownWork ==
    ASSUME GatewayInvariant, Grows, NEW w \in 1..Len(works)
    PROVE  WorkHolds(w)'
  <1> DEFINE c == <<works[w].device, works[w].key>>
  <1>1. /\ commands[c] # NoRow /\ commands[c].kind = "message" /\ commands[c].receipt.work = w
        /\ \E o \in 1..Len(journal) : journal[o].work = w /\ journal[o].to = works[w].state
    BY ZenonT(60) DEF GatewayInvariant, WorksExplained, WorkExplained
  <1>2. works[w] \in WorkRows /\ works[w].input \in 1..Len(journal)
    BY DEF GatewayInvariant, TypeOK
  <1>3. c \in Identities
    BY ZenonT(60), <1>2 DEF WorkRows, Identities
  <1>4. <<works'[w].device, works'[w].key>> = c /\ commands'[c] = commands[c]
    BY <1>1, <1>3 DEF Grows
  <1>5. Len(journal) \in Nat /\ Len(journal') \in Nat /\ Len(journal) <= Len(journal')
    BY ZenonT(60), GrownLengths
  <1>6. works'[w].input \in 1..Len(journal')
    BY <1>2, <1>5 DEF Grows
  <1>7. \E o \in 1..Len(journal') : journal'[o].work = w /\ journal'[o].to = works'[w].state
    <2>1. PICK o \in 1..Len(journal) : journal[o].work = w /\ journal[o].to = works[w].state
      BY ZenonT(60), <1>1
    <2>2. o \in 1..Len(journal') /\ journal'[o] = journal[o]
      BY <1>5 DEF Grows
    <2>3. \/ works'[w].state = works[w].state
          \/ \E p \in 1..Len(journal') :
                journal'[p].work = w /\ journal'[p].to = works'[w].state
      BY ZenonT(60) DEF Grows
    <2> QED
      BY ZenonT(60), <2>1, <2>2, <2>3
  <1> QED
    BY <1>1, <1>4, <1>6, <1>7, Zenon DEF WorkHolds, WorkExplained

(* The tables hold when each row and each work does.                         *)
LEMMA TablesHold ==
    ASSUME \A w \in 1..Len(works') : WorkHolds(w)',
           \A c \in Identities : commands'[c] # NoRow => RowHolds(c)'
    PROVE  /\ WorksExplained' /\ ReceiptsStayTrue'
           /\ \A c \in Identities : commands'[c] # NoRow => RowSound(c)'
           /\ \A w \in 1..Len(works') : works'[w].input \in 1..Len(journal')
           /\ \A c \in Identities : commands'[c] # NoRow =>
                 /\ commands'[c].receipt.work \in 1..Len(works')
                 /\ commands'[c].receipt.cursor \in 1..Len(journal')
  <1>1. WorksExplained' /\ \A w \in 1..Len(works') : works'[w].input \in 1..Len(journal')
    BY Zenon DEF WorkHolds, WorksExplained
  <1>2. ReceiptsStayTrue'
    BY Zenon DEF RowHolds, ReceiptsStayTrue
  <1> QED
    BY <1>1, <1>2, Zenon DEF RowHolds

(* A cancellation stays verified, and so does its event, as long as no new    *)
(* event can be mistaken for its own.                                        *)
LEMMA GrownCancellation ==
    ASSUME GatewayInvariant, Grows,
           NEW c \in Identities, commands[c] # NoRow, CancellationVerified(c),
           \A o \in 1..Len(journal') : o > Len(journal) =>
               ~UserCancellation(journal'[o]) \/ journal'[o].at # commands[c].at
    PROVE  CancellationVerified(c)'
  <1> DEFINE row == commands[c]
             w == row.receipt.work
  <1>1. w \in 1..Len(works) /\ row.receipt.cursor \in 1..Len(journal)
    BY ZenonT(60) DEF GatewayInvariant, TypeOK
  <1>2. commands'[c] = row
    BY ZenonT(60) DEF Grows
  <1>3. Len(journal) \in Nat /\ Len(journal') \in Nat /\ Len(journal) <= Len(journal')
    BY ZenonT(60), GrownLengths
  <1>4. \A o \in 1..Len(journal) : o \in 1..Len(journal') /\ journal'[o] = journal[o]
    BY ZenonT(60), GrownLengths
  <1>5. row.hash = CancelHash(c[2], w)
    BY ZenonT(60) DEF CancellationVerified
  <1>6. CASE CausedBy(journal[row.receipt.cursor], c)
    <2>1. CausedBy(journal[row.receipt.cursor], c)'
      BY ZenonT(60), <1>1, <1>2, <1>4, <1>6 DEF CausedBy, UserCancellation
    <2> QED
      BY ZenonT(60), <1>2, <1>5, <2>1 DEF CancellationVerified, CancelHash
  <1>7. CASE /\ ~ \E o \in 1..Len(journal) : CausedBy(journal[o], c)
             /\ CompatibleNoOp(c)
    <2>1. ~ \E o \in 1..Len(journal') : CausedBy(journal[o], c)'
      <3> SUFFICES ASSUME NEW o \in 1..Len(journal'), CausedBy(journal[o], c)' PROVE FALSE
        BY ZenonT(60)
      <3>1. UserCancellation(journal'[o]) /\ journal'[o].at = row.at
        BY ZenonT(60), <1>2 DEF CausedBy, UserCancellation
      <3>2. o \in 1..Len(journal)
        BY <1>3, <3>1
      <3>3. CausedBy(journal[o], c)
        BY ZenonT(60), <1>2, <1>4, <3>2 DEF CausedBy, UserCancellation
      <3> QED
        BY ZenonT(60), <1>7, <3>2, <3>3
    <2>2. \A o \in 1..row.receipt.cursor : o \in 1..Len(journal)
      BY <1>1, <1>3
    <2>3. \/ works'[w].state = works[w].state
          \/ /\ works[w].state \notin Terminal
             /\ works[w].state = "cancel_requested" => works'[w].state \in Terminal
      BY ZenonT(60), <1>1 DEF Grows
    <2> DEFINE reached == \E o \in 1..row.receipt.cursor :
                             journal[o].work = w /\ journal[o].to = row.receipt.state
               reachedNow == \E o \in 1..row.receipt.cursor :
                             journal'[o].work = w /\ journal'[o].to = row.receipt.state
    <2>4. reached => reachedNow
      BY <1>4, <2>2
    <2>5. \/ /\ row.receipt.state = "cancel_requested"
             /\ works[w].state \in {"cancel_requested"} \cup Terminal
             /\ reached
          \/ row.receipt.state \in Terminal /\ works[w].state = row.receipt.state /\ reached
      BY ZenonT(60), <1>7 DEF CompatibleNoOp
    <2> HIDE DEF reached
    <2>6. \/ /\ row.receipt.state = "cancel_requested"
             /\ works'[w].state \in {"cancel_requested"} \cup Terminal
             /\ reachedNow
          \/ row.receipt.state \in Terminal /\ works'[w].state = row.receipt.state /\ reachedNow
      BY ZenonT(60), <2>3, <2>4, <2>5
    <2>7. CompatibleNoOp(c)'
      BY ZenonT(60), <1>2, <2>6 DEF CompatibleNoOp
    <2> QED
      BY ZenonT(60), <1>2, <1>5, <2>1, <2>7 DEF CancellationVerified, CancelHash
  <1> QED
    BY ZenonT(60), <1>6, <1>7 DEF CancellationVerified

LEMMA GrownEvent ==
    ASSUME GatewayInvariant, Grows, NEW o \in 1..Len(journal), CancellationEventVerified(o)
    PROVE  CancellationEventVerified(o)'
  <1>1. journal'[o] = journal[o]
    BY ZenonT(60) DEF Grows
  <1> SUFFICES ASSUME UserCancellation(journal[o])
               PROVE  CancellationEventVerified(o)'
    BY ZenonT(60), <1>1 DEF CancellationEventVerified, UserCancellation
  <1>2. PICK c \in Identities :
           /\ commands[c] # NoRow /\ commands[c].kind = "cancel"
           /\ commands[c].receipt.cursor = o /\ CausedBy(journal[o], c)
    BY ZenonT(60) DEF CancellationEventVerified
  <1>3. commands'[c] = commands[c]
    BY ZenonT(60), <1>2 DEF Grows
  <1>4. CausedBy(journal[o], c)'
    BY ZenonT(60), <1>1, <1>2, <1>3 DEF CausedBy, UserCancellation
  <1>5. journal[o].actor \in Devices
    BY DEF CancellationEventVerified
  <1> QED
    BY ZenonT(60), <1>1, <1>2, <1>3, <1>4, <1>5 DEF CancellationEventVerified

(* The runtime moves works on and records events, none of them a client's.   *)
LEMMA RuntimeGrown ==
    ASSUME GatewayInvariant, Grows,
           UNCHANGED <<health, admission, restarts, clock, devices, commands, published, requests>>,
           Len(works') = Len(works),
           \A o \in 1..Len(journal') : o > Len(journal) => ~UserCancellation(journal'[o])
    PROVE  GatewayInvariant'
  <1>1. Len(journal) \in Nat /\ Len(journal') \in Nat /\ Len(journal) <= Len(journal')
    BY GrownLengths
  <1>2. \A w \in 1..Len(works') : WorkHolds(w)'
    BY GrownWork, Zenon
  <1>3. \A c \in Identities : commands'[c] # NoRow => RowHolds(c)'
    BY GrownRows, Zenon
  <1>4. TypeOK'
    <2>1. published \subseteq 1..Len(journal)
      BY Zenon DEF GatewayInvariant, TypeOK
    <2>2. published' \subseteq 1..Len(journal')
      BY <1>1, <2>1
    <2> QED
      BY <1>2, <1>3, <2>2, TablesHold, Zenon DEF GatewayInvariant, TypeOK, Grows
  <1>5. HandlersLive'
    BY ZenonT(60) DEF GatewayInvariant, HandlersLive, HoldsPermit
  <1>6. RequestsSound'
    BY GrownRequest DEF GatewayInvariant, RequestsSound
  <1>7. /\ WorksExplained' /\ ReceiptsStayTrue'
        /\ \A c \in Identities : commands'[c] # NoRow => RowSound(c)'
    BY <1>2, <1>3, TablesHold, Zenon
  <1>8. AnnouncedOrOwed' /\ FatalNeedsForeignConversation'
    BY ZenonT(60), AnnouncementsStay
  <1>9. DevicesVerified'
    BY DEF GatewayInvariant, DevicesVerified, DeviceVerified
  <1>10. ASSUME Clock = "distinct" PROVE ReadingsDistinct'
    <2>1. ReadingsDistinct
      BY <1>10 DEF GatewayInvariant
    <2>2. \A c \in Identities : commands[c] # NoRow /\ commands[c].kind = "cancel"
             => CancellationVerified(c)'
      BY ZenonT(60), <2>1, GrownCancellation DEF ReadingsDistinct
    <2>3. \A o \in 1..Len(journal') : CancellationEventVerified(o)'
      <3> SUFFICES ASSUME NEW o \in 1..Len(journal') PROVE CancellationEventVerified(o)'
        BY ZenonT(60)
      <3>1. CASE o \in 1..Len(journal)
        BY ZenonT(60), <2>1, <3>1, GrownEvent DEF ReadingsDistinct
      <3>2. CASE o \notin 1..Len(journal)
        <4>1. o > Len(journal)
          BY <1>1, <3>2
        <4> QED
          BY <4>1 DEF CancellationEventVerified, UserCancellation
      <3> QED
        BY <3>1, <3>2
    <2> QED
      BY ZenonT(60), <2>1, <2>2, <2>3 DEF ReadingsDistinct
  <1> QED
    BY <1>4, <1>5, <1>6, <1>7, <1>8, <1>9, <1>10, Zenon DEF GatewayInvariant

-----------------------------------------------------------------------------
(* The two transactions that decide a command.                             *)

(* A first commit: a new row under the request's own key, and what it says   *)
(* of the tables it is committed with.                                       *)
Commits(i, q, c, receipt) ==
    /\ q = requests[i] /\ q.pc = "permitted" /\ q.kind # "spent"
    /\ c = Identity(q) /\ commands[c] = NoRow
    /\ requests' = [requests EXCEPT ![i].pc = "stored", ![i].outcome = Outcome(FALSE, receipt)]
    /\ commands' = [commands EXCEPT ![c] = Row(q, receipt)]
    /\ UNCHANGED <<health, admission, restarts, clock, devices, published>>
    /\ RowHolds(c)' /\ \A w \in 1..Len(works') : w > Len(works) => WorkHolds(w)'
    /\ \A o \in 1..Len(journal') : o > Len(journal) /\ UserCancellation(journal'[o])
          => journal'[o].at = q.at /\ CancellationEventVerified(o)'
    /\ q.kind = "cancel" /\ Clock = "distinct" => CancellationVerified(c)'

LEMMA CommitKept ==
    ASSUME GatewayInvariant, Grows,
           NEW i \in 1..Len(requests), NEW q, NEW c, NEW receipt \in Receipts,
           Commits(i, q, c, receipt)
    PROVE  GatewayInvariant'
  <1>0. /\ q = requests[i] /\ q.pc = "permitted" /\ q.kind # "spent"
        /\ c = Identity(q) /\ commands[c] = NoRow
        /\ requests' = [requests EXCEPT ![i].pc = "stored", ![i].outcome = Outcome(FALSE, receipt)]
        /\ commands' = [commands EXCEPT ![c] = Row(q, receipt)]
        /\ UNCHANGED <<health, admission, restarts, clock, devices, published>>
    BY DEF Commits
  <1>h. RowHolds(c)' /\ \A w \in 1..Len(works') : w > Len(works) => WorkHolds(w)'
    BY DEF Commits
  <1>e. \A o \in 1..Len(journal') : o > Len(journal) /\ UserCancellation(journal'[o])
          => journal'[o].at = q.at /\ CancellationEventVerified(o)'
    BY DEF Commits
  <1>v. q.kind = "cancel" /\ Clock = "distinct" => CancellationVerified(c)'
    BY ZenonT(60) DEF Commits
  <1>1. /\ q \in Requests /\ RequestSound(q) /\ requests \in Seq(Requests)
        /\ commands \in [Identities -> CommandRows \cup {NoRow}]
    BY <1>0 DEF GatewayInvariant, RequestsSound, TypeOK
  <1>2. c \in Identities /\ Hash(q) \in Hashes
    BY ZenonT(60), <1>0, <1>1 DEF RequestSound
  <1>3. PICK new \in CommandRows :
           /\ new = Row(q, receipt)
           /\ new # NoRow /\ new.kind = q.kind /\ new.hash = Hash(q)
           /\ new.receipt = receipt /\ new.at = q.at
    <2>1. q.kind \in {"message", "cancel"} /\ q.at \in Nat
      BY ZenonT(60), <1>0, <1>1 DEF Requests
    <2>2. HttpStatus(q.kind, receipt) \in {200, 202}
      BY DEF HttpStatus
    <2>3. Row(q, receipt) \in CommandRows
      BY ZenonT(60), <1>2, <2>1, <2>2 DEF Row, CommandRows
    <2> QED
      BY ZenonT(60), <2>3, GatewayAssumption DEF Row
  <1>4. Outcome(FALSE, receipt) \in Outcomes
    BY DEF Outcome, Outcomes, Codes
  <1>5. PICK r \in Requests :
           /\ requests' = [requests EXCEPT ![i] = r]
           /\ r.pc = "stored" /\ r.outcome = Outcome(FALSE, receipt)
           /\ r.device = q.device /\ r.key = q.key /\ r.kind = q.kind /\ r.body = q.body
           /\ r.conv = q.conv
    <2> DEFINE r == [q EXCEPT !.pc = "stored", !.outcome = Outcome(FALSE, receipt)]
    <2>1. requests' = [requests EXCEPT ![i] = r]
      BY ZenonT(60), <1>0
    <2>2. /\ r \in Requests /\ r.pc = "stored" /\ r.outcome = Outcome(FALSE, receipt)
          /\ r.device = q.device /\ r.key = q.key /\ r.kind = q.kind /\ r.body = q.body
          /\ r.conv = q.conv
      BY ZenonT(60), <1>1, <1>4 DEF Requests
    <2> HIDE DEF r
    <2> QED
      BY ZenonT(60), <2>1, <2>2
  <1>7. Identity(r) = c /\ Hash(r) = Hash(q)
    BY <1>0, <1>5 DEF Identity, Hash, MessageHash, CancelHash
  <1>8. Updated(i, r)
    BY ZenonT(60), <1>5, UpdateOne DEF GatewayInvariant
  <1>9. /\ requests' \in Seq(Requests) /\ Len(requests') = Len(requests) /\ requests'[i] = r
        /\ \A j \in 1..Len(requests) : j # i => requests'[j] = requests[j]
    BY ZenonT(60), <1>8 DEF Updated
  <1>10. /\ commands' \in [Identities -> CommandRows \cup {NoRow}] /\ commands'[c] = new
         /\ \A d \in Identities : d # c => commands'[d] = commands[d]
    BY ZenonT(60), <1>0, <1>1, <1>2, <1>3
  <1>11. \A d \in Identities : commands'[d] # NoRow => RowHolds(d)'
    <2>1. \A d \in Identities : d # c /\ commands'[d] # NoRow => RowHolds(d)'
      BY <1>0, <1>10, GrownRows, Zenon
    <2> QED
      BY <1>h, <2>1, Zenon
  <1>12. Len(journal) \in Nat /\ Len(journal') \in Nat /\ Len(journal) <= Len(journal')
    BY ZenonT(60), GrownLengths
  <1>13. Len(works) \in Nat /\ Len(works') \in Nat
    BY GrownLengths
  <1>14. \A w \in 1..Len(works') : WorkHolds(w)'
    <2>1. \A w \in 1..Len(works') : w \in 1..Len(works) \/ w > Len(works)
      BY <1>13
    <2> QED
      BY <1>h, <2>1, GrownWork, Zenon
  <1>15. TypeOK'
    <2>1. published \subseteq 1..Len(journal)
      BY Zenon DEF GatewayInvariant, TypeOK
    <2>2. published' \subseteq 1..Len(journal')
      BY <1>0, <1>12, <2>1
    <2> QED
      BY <1>0, <1>9, <1>10, <1>11, <1>14, <2>2, TablesHold, Zenon DEF GatewayInvariant,
         TypeOK, Grows
  <1>16. HandlersLive'
    BY <1>0, <1>5, <1>9 DEF GatewayInvariant, HandlersLive, HoldsPermit
  <1>17. RequestsSound'
    <2>1. Recorded(r)'
      BY <1>0, <1>2, <1>3, <1>5, <1>7, <1>10 DEF Recorded, CommandMatches, Outcome,
         Identity, Hash,
         MessageHash, CancelHash
    <2>2. RequestSound(r)'
      BY <1>0, <1>2, <1>5, <1>7, <2>1 DEF RequestSound, Outcome, Identity, Hash,
         MessageHash, CancelHash,
         Hashes
    <2>3. \A p : RequestSound(p) => RequestSound(p)'
      BY GrownRequest
    <2>4. \A j \in 1..Len(requests) : RequestSound(requests[j])
      BY ZenonT(60) DEF GatewayInvariant, RequestsSound
    <2>5. \A j \in 1..Len(requests') : \E p : p = requests'[j] /\ RequestSound(p)'
      BY ZenonT(60), <1>9, <2>2, <2>3, <2>4
    <2> QED
      BY ZenonT(60), <2>5 DEF RequestsSound
  <1>18. /\ WorksExplained' /\ ReceiptsStayTrue'
         /\ \A d \in Identities : commands'[d] # NoRow => RowSound(d)'
    BY <1>11, <1>14, TablesHold, Zenon
  <1>19. AnnouncedOrOwed'
    <2> SUFFICES ASSUME NEW d \in Identities, commands'[d] # NoRow,
                        commands'[d].receipt.state \in {"queued", "cancel_requested"},
                        commands'[d].receipt.cursor \notin published
                 PROVE  AnnouncementOwed(d)'
      BY <1>0 DEF AnnouncedOrOwed
    <2>1. CASE d = c
      <3>1. Outcome(FALSE, receipt).replay = FALSE /\ Outcome(FALSE, receipt).receipt = receipt
        BY DEF Outcome
      <3>2. /\ i \in 1..Len(requests') /\ Identity(requests'[i]) = d
            /\ requests'[i].pc = "stored" /\ ~requests'[i].outcome.replay
            /\ requests'[i].outcome.receipt = commands'[d].receipt
        BY ZenonT(60), <1>3, <1>5, <1>7, <1>9, <1>10, <2>1, <3>1
      <3> QED
        BY <3>2, Zenon DEF AnnouncementOwed, Identity
    <2>2. CASE d # c
      <3>1. commands'[d] = commands[d]
        BY ZenonT(60), <1>10, <2>2
      <3>2. PICK j \in 1..Len(requests) :
               /\ Identity(requests[j]) = d
               /\ requests[j].pc = "stored" \/ requests[j].outcome.code = "abandoned"
               /\ ~requests[j].outcome.replay
               /\ requests[j].outcome.receipt = commands[d].receipt
        BY ZenonT(60), <3>1 DEF GatewayInvariant, AnnouncedOrOwed, AnnouncementOwed
      <3>3. requests'[j] = requests[j]
        BY ZenonT(60), <1>0, <1>9, <2>2, <3>2
      <3>4. j \in 1..Len(requests')
        BY ZenonT(60), <1>9, <3>2
      <3>5. /\ Identity(requests'[j]) = d
            /\ requests'[j].pc = "stored" \/ requests'[j].outcome.code = "abandoned"
            /\ ~requests'[j].outcome.replay
            /\ requests'[j].outcome.receipt = commands'[d].receipt
        BY ZenonT(60), <3>1, <3>2, <3>3
      <3> QED
        BY ZenonT(60), <3>4, <3>5 DEF AnnouncementOwed, Identity
    <2> QED
      BY ZenonT(60), <2>1, <2>2
  <1>20. DevicesVerified' /\ FatalNeedsForeignConversation'
    BY <1>0, <1>5, <1>9 DEF GatewayInvariant, DevicesVerified, DeviceVerified,
       FatalNeedsForeignConversation
  <1>21. ASSUME Clock = "distinct" PROVE ReadingsDistinct'
    <2>1. ReadingsDistinct
      BY <1>21 DEF GatewayInvariant
    <2>2. q.at \in 1..clock /\ \A d \in Identities : commands[d] # NoRow => commands[d].at # q.at
      BY ZenonT(60), <1>0, <2>1 DEF ReadingsDistinct
    <2>3. \A d \in Identities : commands'[d] # NoRow /\ commands'[d].kind = "cancel"
             => CancellationVerified(d)'
      <3> SUFFICES ASSUME NEW d \in Identities, commands'[d] # NoRow, commands'[d].kind = "cancel"
                   PROVE  CancellationVerified(d)'
        BY ZenonT(60)
      <3>1. CASE d = c
        BY ZenonT(60), <1>v, <1>3, <1>10, <1>21, <3>1
      <3>2. CASE d # c
        <4>1. commands[d] = commands'[d] /\ CancellationVerified(d) /\ commands[d].at # q.at
          BY ZenonT(60), <1>10, <2>1, <2>2, <3>2 DEF ReadingsDistinct
        <4>2. \A o \in 1..Len(journal') : o > Len(journal) =>
                 ~UserCancellation(journal'[o]) \/ journal'[o].at # commands[d].at
          BY ZenonT(60), <1>e, <4>1
        <4> QED
          BY ZenonT(60), <4>1, <4>2, GrownCancellation
      <3> QED
        BY ZenonT(60), <3>1, <3>2
    <2>4. \A o \in 1..Len(journal') : CancellationEventVerified(o)'
      <3> SUFFICES ASSUME NEW o \in 1..Len(journal') PROVE CancellationEventVerified(o)'
        BY ZenonT(60)
      <3>1. CASE o \in 1..Len(journal)
        BY ZenonT(60), <2>1, <3>1, GrownEvent DEF ReadingsDistinct
      <3>2. CASE o \notin 1..Len(journal)
        <4>1. o > Len(journal)
          BY <1>12, <3>2
        <4> QED
          BY ZenonT(60), <1>e, <4>1 DEF CancellationEventVerified, UserCancellation
      <3> QED
        BY ZenonT(60), <3>1, <3>2
    <2>5. \A d \in Identities : commands'[d] # NoRow =>
             /\ commands'[d].at \in 1..clock
             /\ \A e \in Identities \ {d} : commands'[e] # NoRow => commands'[d].at # commands'[e].at
      BY <1>3, <1>10, <2>1, <2>2 DEF ReadingsDistinct
    <2>6. \A j \in 1..Len(requests') : requests'[j].pc = "permitted" =>
             /\ j # i /\ requests'[j] = requests[j] /\ requests[j].pc = "permitted"
      BY ZenonT(60), <1>5, <1>9
    <2>7. \A j \in 1..Len(requests') : requests'[j].pc = "permitted" =>
             /\ requests'[j].at \in 1..clock
             /\ \A d \in Identities : commands'[d] # NoRow => commands'[d].at # requests'[j].at
             /\ \A k \in 1..Len(requests') \ {j} :
                   requests'[k].pc = "permitted" => requests'[k].at # requests'[j].at
      BY <1>0, <1>3, <1>9, <1>10, <2>1, <2>6 DEF ReadingsDistinct
    <2> QED
      BY ZenonT(60), <1>0, <2>3, <2>4, <2>5, <2>7 DEF ReadingsDistinct
  <1> QED
    BY <1>15, <1>16, <1>17, <1>18, <1>19, <1>20, <1>21, Zenon DEF GatewayInvariant
=============================================================================
