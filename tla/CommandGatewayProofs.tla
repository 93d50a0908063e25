------------------------ MODULE CommandGatewayProofs ------------------------
(***************************************************************************)
(* The command gateway for every number of devices, keys, texts, requests, *)
(* works and restarts: what it promises its clients (CommandLedger), what  *)
(* a database it leaves behind looks like, and that nothing is committed   *)
(* once admission is closed.                                               *)
(***************************************************************************)
EXTENDS CommandGatewayLemmas

(* RuntimeStep, RuntimeRecords: the work of the message is driven on.        *)
LEMMA RuntimeKept ==
    ASSUME GatewayInvariant, NEW w \in 1..Len(works), RuntimeStep(w) \/ RuntimeRecords(w)
    PROVE  GatewayInvariant'
  <1>0. /\ works \in Seq(WorkRows) /\ journal \in Seq(Events) /\ works[w] \in WorkRows
        /\ Len(works) \in Nat /\ Len(journal) \in Nat /\ w \in Nat
    BY DEF GatewayInvariant, TypeOK
  <1>1. PICK e \in Events, to \in States :
           /\ journal' = Append(journal, e) /\ works' = [works EXCEPT ![w].state = to]
           /\ ~UserCancellation(e)
           /\ \/ to = works[w].state
              \/ /\ works[w].state \notin Terminal
                 /\ works[w].state = "cancel_requested" => to \in Terminal
                 /\ e.work = w /\ e.to = to
    <2>1. CASE RuntimeStep(w)
      <3>1. PICK to \in RuntimeTarget(works[w].state) :
               /\ works' = [works EXCEPT ![w].state = to]
               /\ journal' = Append(journal,
                     Event("work_transition", w, NoDevice, works[w].state, to, 0))
        BY ZenonT(60), <2>1 DEF RuntimeStep
      <3>2. works[w].state \in States
        BY ZenonT(60), <1>0 DEF WorkRows
      <3>3. /\ to \in States /\ works[w].state \notin Terminal
            /\ works[w].state = "cancel_requested" => to \in Terminal
        BY <3>2 DEF RuntimeTarget, States, Terminal
      <3> DEFINE e == Event("work_transition", w, NoDevice, works[w].state, to, 0)
      <3>4. e \in Events /\ ~UserCancellation(e) /\ e.work = w /\ e.to = to
        BY <1>0, <3>2, <3>3 DEF Event, Events, EventTypes, UserCancellation
      <3> HIDE DEF e
      <3>5. journal' = Append(journal, e)
        BY <3>1 DEF e
      <3> QED
        BY ZenonT(60), <3>1, <3>3, <3>4, <3>5
    <2>2. CASE RuntimeRecords(w)
      <3> DEFINE e == Event("attempt", w, NoDevice, "none", "none", 0)
      <3>1. journal' = Append(journal, e) /\ works' = works
        BY <2>2 DEF RuntimeRecords
      <3>2. e \in Events /\ ~UserCancellation(e)
        BY <1>0 DEF Event, Events, EventTypes, UserCancellation
      <3>3. works[w].state \in States
        BY <1>0 DEF WorkRows
      <3>4. works' = [works EXCEPT ![w].state = works[w].state]
        BY <1>0, <3>1 DEF WorkRows
      <3> HIDE DEF e
      <3> QED
        BY ZenonT(60), <3>1, <3>2, <3>3, <3>4
    <2> QED
      BY <2>1, <2>2
  <1> DEFINE row == [works[w] EXCEPT !.state = to]
  <1>2. /\ row \in WorkRows /\ row.state = to /\ row.device = works[w].device
        /\ row.key = works[w].key /\ row.text = works[w].text /\ row.at = works[w].at
        /\ row.input = works[w].input
    BY ZenonT(60), <1>0 DEF WorkRows
  <1>3. works' = [works EXCEPT ![w] = row]
    BY <1>1
  <1> HIDE DEF row
  <1>4. /\ works' \in Seq(WorkRows) /\ Len(works') = Len(works) /\ works'[w] = row
        /\ \A v \in 1..Len(works) : v # w => works'[v] = works[v]
    BY <1>0, <1>2, <1>3, ReplaceOne
  <1>5. /\ journal' \in Seq(Events) /\ Len(journal') = Len(journal) + 1
        /\ journal'[Len(journal) + 1] = e
        /\ \A o \in 1..Len(journal) : journal'[o] = journal[o]
    BY <1>0, <1>1
  <1>6. UNCHANGED <<health, admission, restarts, clock, devices, commands, published, requests>>
    BY ZenonT(60) DEF RuntimeStep, RuntimeRecords
  <1>7. Grows
    <2>1. \A v \in 1..Len(works) :
             /\ works'[v].device = works[v].device /\ works'[v].key = works[v].key
             /\ works'[v].text = works[v].text /\ works'[v].at = works[v].at
             /\ works'[v].input = works[v].input
      BY ZenonT(60), <1>2, <1>4
    <2>2. \A v \in 1..Len(works) :
             \/ works'[v].state = works[v].state
             \/ /\ works[v].state \notin Terminal
                /\ works[v].state = "cancel_requested" => works'[v].state \in Terminal
                /\ \E o \in 1..Len(journal') :
                      journal'[o].work = v /\ journal'[o].to = works'[v].state
      <3> SUFFICES ASSUME NEW v \in 1..Len(works), works'[v].state # works[v].state
                   PROVE  /\ works[v].state \notin Terminal
                          /\ works[v].state = "cancel_requested" => works'[v].state \in Terminal
                          /\ \E o \in 1..Len(journal') :
                                journal'[o].work = v /\ journal'[o].to = works'[v].state
        BY ZenonT(60)
      <3>1. v = w /\ works'[v].state = to /\ to # works[w].state
        BY ZenonT(60), <1>2, <1>4
      <3>2. Len(journal) + 1 \in 1..Len(journal')
        BY <1>0, <1>5
      <3> QED
        BY ZenonT(60), <1>1, <1>5, <3>1, <3>2
    <2>3. Len(journal) <= Len(journal') /\ Len(works) <= Len(works')
      BY <1>0, <1>4, <1>5
    <2>4. \A v \in 1..Len(works') : ~(v > Len(works))
      BY <1>0, <1>4
    <2>5. \A c \in Identities : commands'[c] = commands[c]
      BY <1>6
    <2> QED
      BY ZenonT(60), <1>4, <1>5, <2>1, <2>2, <2>3, <2>4, <2>5 DEF Grows
  <1>8. \A o \in 1..Len(journal') : o > Len(journal) => ~UserCancellation(journal'[o])
    <2>1. \A o \in 1..Len(journal') : o > Len(journal) => o = Len(journal) + 1
      BY <1>0, <1>5
    <2> QED
      BY ZenonT(60), <1>1, <1>5, <2>1
  <1> QED
    BY ZenonT(60), <1>4, <1>6, <1>7, <1>8, RuntimeGrown

(* accept_message_inner: a work, its message and their two events.           *)
LEMMA AcceptMessageKept ==
    ASSUME GatewayInvariant, NEW i \in 1..Len(requests), requests[i].pc = "permitted",
           AcceptMessage(i), UNCHANGED <<admission, restarts, clock, devices, published>>
    PROVE  GatewayInvariant'
  <1>1. PICK q \in Requests : q = requests[i]
    BY DEF GatewayInvariant, TypeOK
  <1>2. PICK c : c = Identity(q)
    OBVIOUS
  <1>3. PICK w : w = Len(works) + 1
    OBVIOUS
  <1>4. PICK n : n = Len(journal)
    BY ZenonT(60)
  <1>5. PICK work : work = [state |-> "queued", device |-> q.device, key |-> q.key,
                            text |-> q.body, at |-> q.at, input |-> n + 1]
    BY ZenonT(60)
  <1>6. PICK e1 : e1 = Event("message_accepted", w, q.device, "none", "none", q.at)
    OBVIOUS
  <1>7. PICK e2 : e2 = Event("work_queued", w, NoDevice, "none", "queued", q.at)
    OBVIOUS
  <1>8. PICK receipt : receipt = Receipt(w, "queued", n + 2)
    BY ZenonT(60)
  <1>9. /\ commands[c] = NoRow /\ q.kind = "message" /\ q.pc = "permitted"
        /\ q.conv = Primary /\ devices[q.device].state = "active"
        /\ works' = Append(works, work) /\ journal' = journal \o <<e1, e2>>
        /\ commands' = [commands EXCEPT ![c] = Row(q, receipt)]
        /\ requests' = [requests EXCEPT ![i].pc = "stored", ![i].outcome = Outcome(FALSE, receipt)]
        /\ health' = health
    BY ZenonT(60), <1>1, <1>2, <1>3, <1>4, <1>5, <1>6, <1>7, <1>8
       DEF AcceptMessage, AdmittedEvents, TopologyHolds
  <1>10. /\ works \in Seq(WorkRows) /\ Len(works) \in Nat /\ journal \in Seq(Events) /\ n \in Nat
         /\ w \in Nat
    BY <1>3, <1>4 DEF GatewayInvariant, TypeOK
  <1>11. RequestSound(q)
    BY ZenonT(60), <1>1 DEF GatewayInvariant, RequestsSound
  <1>12. c \in Identities /\ Hash(q) \in Hashes
    BY ZenonT(60), <1>2, <1>9, <1>11 DEF RequestSound
  <1>13. c[1] = q.device /\ c[2] = q.key /\ c = <<q.device, q.key>>
    BY <1>2 DEF Identity
  <1>14. q.device \in Devices /\ q.key \in Keys
    BY ZenonT(60), <1>12, <1>13 DEF Identities
  <1>15. q.body \in Texts /\ Hash(q) = MessageHash(q.key, Primary, q.body)
    BY ZenonT(60), <1>9, <1>12 DEF Hash, MessageHash, Hashes
  <1>16. q.at \in Nat
    BY ZenonT(60), <1>1 DEF Requests
  <1>17. /\ work \in WorkRows /\ work.state = "queued" /\ work.device = q.device
         /\ work.key = q.key /\ work.text = q.body /\ work.at = q.at /\ work.input = n + 1
    BY <1>5, <1>10, <1>14, <1>15, <1>16 DEF WorkRows, States
  <1>18. /\ e1 \in Events /\ e1.type = "message_accepted" /\ e1.work = w /\ e1.actor = q.device
    BY ZenonT(60), <1>6, <1>10, <1>14, <1>16 DEF Event, Events, EventTypes, States
  <1>19. /\ e2 \in Events /\ e2.type = "work_queued" /\ e2.work = w /\ e2.to = "queued"
    BY ZenonT(60), <1>7, <1>10, <1>14, <1>16 DEF Event, Events, EventTypes, States
  <1>20. /\ receipt \in Receipts /\ receipt.work = w /\ receipt.state = "queued"
         /\ receipt.cursor = n + 2
    BY <1>8, <1>10 DEF Receipt, Receipts, States
  <1>21. /\ works' \in Seq(WorkRows) /\ Len(works') = w /\ works'[w] = work
         /\ \A v \in 1..Len(works) : works'[v] = works[v]
    BY <1>3, <1>9, <1>10, <1>17
  <1>22. /\ journal' \in Seq(Events) /\ Len(journal') = n + 2
         /\ journal'[n + 1] = e1 /\ journal'[n + 2] = e2
         /\ \A o \in 1..Len(journal) : journal'[o] = journal[o]
    <2>1. <<e1, e2>> \in Seq(Events) /\ Len(<<e1, e2>>) = 2
      BY <1>18, <1>19
    <2>2. journal' \in Seq(Events) /\ Len(journal') = n + 2
      BY <1>4, <1>9, <1>10, <2>1
    <2> QED
      BY <1>4, <1>9, <1>10, <2>1, <2>2
  <1>23. \A v \in 1..Len(works') : v > Len(works) => v = w
    BY <1>3, <1>10, <1>21
  <1>24. Grows
    <2>1. Len(journal) <= Len(journal') /\ Len(works) <= Len(works')
      BY <1>3, <1>4, <1>10, <1>21, <1>22
    <2>2. \A v \in 1..Len(works') :
             v > Len(works) => commands[<<works'[v].device, works'[v].key>>] = NoRow
      BY ZenonT(60), <1>9, <1>13, <1>17, <1>21, <1>23
    <2>3. \A d \in Identities : commands[d] # NoRow => commands'[d] = commands[d]
      BY <1>9 DEF GatewayInvariant, TypeOK
    <2> QED
      BY ZenonT(60), <1>21, <1>22, <2>1, <2>2, <2>3 DEF Grows
  <1>25. w \in 1..Len(works') /\ n + 1 \in 1..Len(journal') /\ n + 2 \in 1..Len(journal')
    BY <1>3, <1>10, <1>21, <1>22
  <1>26. RowSound(c)'
    <2>1. commands'[c] = Row(q, receipt)
      BY ZenonT(60), <1>9, <1>12 DEF GatewayInvariant, TypeOK
    <2>2. /\ commands'[c].kind = "message" /\ commands'[c].hash = Hash(q)
          /\ commands'[c].status = HttpStatus("message", receipt)
          /\ commands'[c].receipt = receipt /\ commands'[c].at = q.at
      BY <1>9, <2>1 DEF Row
    <2>3. devices'[c[1]].state # "absent"
      BY ZenonT(60), <1>9, <1>13
    <2>4. ReceiptDecodes(commands[c])'
      BY ZenonT(60), <1>20, <2>2 DEF ReceiptDecodes, HttpStatus
    <2>5. {v \in 1..Len(works') : <<works'[v].device, works'[v].key>> = c} = {w}
      <3>1. \A v \in 1..Len(works) : <<works'[v].device, works'[v].key>> # c
        BY ZenonT(60), <1>9, <1>21 DEF GatewayInvariant, WorksExplained, WorkExplained
      <3>2. \A v \in 1..Len(works') : v # w => v \in 1..Len(works)
        BY <1>3, <1>10, <1>21
      <3>3. <<works'[w].device, works'[w].key>> = c
        BY ZenonT(60), <1>13, <1>17, <1>21
      <3> QED
        BY ZenonT(60), <1>25, <3>1, <3>2, <3>3
    <2>6. works'[w].at = q.at /\ Hash(q) = MessageHash(c[2], Primary, works'[w].text)
      BY ZenonT(60), <1>13, <1>15, <1>17, <1>21
    <2>7. TriggerVerified(c, w)'
      BY ZenonT(60), <1>13, <1>17, <1>18, <1>21, <1>22 DEF TriggerVerified
    <2>8. QueuedVerified(c, w)'
      BY ZenonT(60), <1>19, <1>20, <1>22, <2>2 DEF QueuedVerified
    <2>9. MessageVerified(c)'
      BY ZenonT(60), <1>20, <2>2, <2>5, <2>6, <2>7, <2>8 DEF MessageVerified, MessageHash
    <2> QED
      BY <2>2, <2>3, <2>4, <2>9 DEF RowSound
  <1>27. \A v \in 1..Len(works') : v > Len(works) => WorkHolds(v)'
    <2>1. /\ <<works'[w].device, works'[w].key>> = c /\ works'[w].input \in 1..Len(journal')
          /\ journal'[n + 2].work = w /\ journal'[n + 2].to = works'[w].state
      BY ZenonT(60), <1>13, <1>17, <1>19, <1>21, <1>22, <1>25
    <2>2. commands'[c] # NoRow /\ commands'[c].kind = "message" /\ commands'[c].receipt.work = w
      BY <1>9, <1>12, <1>15, <1>16, <1>20, GatewayAssumption DEF GatewayInvariant, TypeOK,
         Row, CommandRows, HttpStatus
    <2>3. WorkHolds(w)'
      BY <1>25, <2>1, <2>2, Zenon DEF WorkHolds, WorkExplained
    <2> QED
      BY <1>23, <2>3, Zenon
  <1>28. \A o \in 1..Len(journal') : o > Len(journal) => ~UserCancellation(journal'[o])
    <2>1. \A o \in 1..Len(journal') : o > Len(journal) => o = n + 1 \/ o = n + 2
      BY <1>4, <1>10, <1>22
    <2> QED
      BY ZenonT(60), <1>18, <1>19, <1>22, <2>1 DEF UserCancellation
  <1>29. RowHolds(c)'
    <2>1. commands'[c].receipt = receipt /\ commands'[c].kind = "message"
      BY ZenonT(60), <1>9, <1>12 DEF GatewayInvariant, TypeOK, Row
    <2> QED
      BY ZenonT(60), <1>20, <1>25, <1>26, <2>1 DEF RowHolds
  <1>30. q.kind # "spent" /\ q.kind # "cancel"
    BY <1>9
  <1>31. UNCHANGED <<health, admission, restarts, clock, devices, published>>
    BY <1>9
  <1>32. \A o \in 1..Len(journal') : o > Len(journal) /\ UserCancellation(journal'[o])
               => journal'[o].at = q.at /\ CancellationEventVerified(o)'
    BY <1>28, Zenon
  <1>33. Commits(i, q, c, receipt)
    BY <1>1, <1>2, <1>9, <1>27, <1>29, <1>30, <1>31, <1>32, Zenon DEF Commits
  <1> QED
    BY ZenonT(60), <1>20, <1>24, <1>33, CommitKept

(* cancellation_inner: the decision, one event when it changes the work, and  *)
(* a receipt that names the event or the head of the journal.                *)
LEMMA CancelWorkKept ==
    ASSUME GatewayInvariant, NEW i \in 1..Len(requests), requests[i].pc = "permitted",
           CancelWork(i), UNCHANGED <<admission, restarts, clock, devices, published>>
    PROVE  GatewayInvariant'
  <1>1. PICK q \in Requests : q = requests[i]
    BY DEF GatewayInvariant, TypeOK
  <1>2. PICK c : c = Identity(q)
    OBVIOUS
  <1>3. PICK w : w = q.body
    OBVIOUS
  <1>4. PICK n : n = Len(journal)
    BY ZenonT(60)
  <1>5. PICK from : from = works[w].state
    OBVIOUS
  <1>6. PICK to : to = CancellationResult(from)
    OBVIOUS
  <1>7. PICK e : e = Event(CancelType(to), w, q.device, from, to, q.at)
    OBVIOUS
  <1>8. PICK cursor : cursor = IF from = to THEN n ELSE n + 1
    BY ZenonT(60)
  <1>9. PICK receipt : receipt = Receipt(w, to, cursor)
    BY ZenonT(60)
  <1>10. CancellationEvents(w, q) = IF from = to THEN <<>> ELSE <<e>>
    BY ZenonT(60), <1>5, <1>6, <1>7 DEF CancellationEvents
  <1>11. n \in Nat /\ Len(works) \in Nat
    BY <1>4 DEF GatewayInvariant, TypeOK
  <1>12. CancellationCursor(w, q) = cursor
    BY <1>4, <1>8, <1>10, <1>11 DEF CancellationCursor
  <1>13. /\ commands[c] = NoRow /\ q.kind = "cancel" /\ q.pc = "permitted"
         /\ w \in 1..Len(works) /\ devices[q.device].state = "active"
         /\ works' = [works EXCEPT ![w].state = to]
         /\ journal' = journal \o CancellationEvents(w, q)
         /\ commands' = [commands EXCEPT ![c] = Row(q, receipt)]
         /\ requests' = [requests EXCEPT ![i].pc = "stored", ![i].outcome = Outcome(FALSE, receipt)]
         /\ health' = health
    BY ZenonT(60), <1>1, <1>2, <1>3, <1>5, <1>6, <1>9, <1>12 DEF CancelWork, TargetFound
  <1>14. RequestSound(q)
    BY <1>1 DEF GatewayInvariant, RequestsSound
  <1>15. c \in Identities /\ c[1] = q.device /\ c[2] = q.key /\ Hash(q) = CancelHash(c[2], w)
    BY ZenonT(60), <1>2, <1>3, <1>13, <1>14 DEF RequestSound, Identity, Hash
  <1>16. q.device \in Devices /\ q.at \in Nat /\ w \in Nat
    BY <1>1, <1>13, <1>15 DEF Identities, Requests
  <1>17. /\ works \in Seq(WorkRows) /\ works[w] \in WorkRows /\ journal \in Seq(Events)
    BY <1>13 DEF GatewayInvariant, TypeOK
  <1>18. from \in States
    BY <1>5, <1>17 DEF WorkRows
  <1>19. /\ to \in {"cancel_requested"} \cup Terminal /\ to \in States
         /\ from # to => \/ from = "queued" /\ to = "cancelled"
                         \/ from = "running" /\ to = "cancel_requested"
    BY <1>6, <1>18 DEF CancellationResult, States, Terminal
  <1>20. PICK row : row = [works[w] EXCEPT !.state = to]
    BY ZenonT(60)
  <1>21. /\ row \in WorkRows /\ row.state = to /\ row.device = works[w].device
         /\ row.key = works[w].key /\ row.text = works[w].text /\ row.at = works[w].at
         /\ row.input = works[w].input
    BY ZenonT(60), <1>17, <1>19, <1>20 DEF WorkRows
  <1>22. works' = [works EXCEPT ![w] = row]
    BY ZenonT(60), <1>13, <1>20
  <1>23. /\ works' \in Seq(WorkRows) /\ Len(works') = Len(works) /\ works'[w] = row
         /\ \A v \in 1..Len(works) : v # w => works'[v] = works[v]
    <2>1. w \in 1..Len(works) /\ works \in Seq(WorkRows) /\ row \in WorkRows
      BY ZenonT(60), <1>13, <1>17, <1>21
    <2> QED
      BY <1>22, <2>1, ReplaceOne
  <1>24. /\ e \in Events /\ e.work = w /\ e.to = to /\ e.at = q.at /\ e.actor = q.device
         /\ e.from = from /\ e.type = CancelType(to)
    BY ZenonT(60), <1>7, <1>16, <1>18, <1>19 DEF Event, Events, EventTypes, CancelType
  <1>25. /\ journal' \in Seq(Events) /\ Len(journal') = cursor
         /\ \A o \in 1..Len(journal) : journal'[o] = journal[o]
         /\ from # to => journal'[n + 1] = e
    <2>1. CASE from = to
      BY <1>4, <1>8, <1>10, <1>13, <1>17, <2>1
    <2>2. CASE from # to
      <3>1. journal' = Append(journal, e)
        BY <1>10, <1>13, <1>17, <1>24, <2>2
      <3> QED
        BY <1>4, <1>8, <1>11, <1>17, <1>24, <2>2, <3>1
    <2> QED
      BY ZenonT(60), <2>1, <2>2
  <1>26. PICK p \in 1..n : journal[p].work = w /\ journal[p].to = from
    BY ZenonT(60), <1>4, <1>5, <1>13 DEF GatewayInvariant, WorksExplained, WorkExplained
  <1>27. cursor \in Nat /\ cursor \in 1..Len(journal') /\ n <= cursor
    BY <1>8, <1>11, <1>25, <1>26
  <1>28. /\ receipt \in Receipts /\ receipt.work = w /\ receipt.state = to
         /\ receipt.cursor = cursor
    BY ZenonT(60), <1>9, <1>16, <1>19, <1>27 DEF Receipt, Receipts
  <1>29. Grows
    <2>1. \A v \in 1..Len(works) :
             /\ works'[v].device = works[v].device /\ works'[v].key = works[v].key
             /\ works'[v].text = works[v].text /\ works'[v].at = works[v].at
             /\ works'[v].input = works[v].input
      BY <1>21, <1>23
    <2>2. \A v \in 1..Len(works) :
             \/ works'[v].state = works[v].state
             \/ /\ works[v].state \notin Terminal
                /\ works[v].state = "cancel_requested" => works'[v].state \in Terminal
                /\ \E o \in 1..Len(journal') :
                      journal'[o].work = v /\ journal'[o].to = works'[v].state
      <3> SUFFICES ASSUME NEW v \in 1..Len(works), works'[v].state # works[v].state
                   PROVE  /\ works[v].state \notin Terminal
                          /\ works[v].state = "cancel_requested" => works'[v].state \in Terminal
                          /\ \E o \in 1..Len(journal') :
                                journal'[o].work = v /\ journal'[o].to = works'[v].state
        BY ZenonT(60)
      <3>1. v = w /\ works'[v].state = to /\ to # from
        BY ZenonT(60), <1>5, <1>21, <1>23
      <3>2. n + 1 \in 1..Len(journal') /\ journal'[n + 1] = e
        BY <1>8, <1>11, <1>25, <3>1
      <3>3. from \notin Terminal /\ from # "cancel_requested"
        BY ZenonT(60), <1>19, <3>1 DEF Terminal
      <3> QED
        BY ZenonT(60), <1>5, <1>24, <3>1, <3>2, <3>3
    <2>3. Len(journal) <= Len(journal') /\ Len(works) <= Len(works')
      BY <1>4, <1>11, <1>23, <1>25, <1>27
    <2>4. \A v \in 1..Len(works') : ~(v > Len(works))
      BY <1>11, <1>23
    <2>5. \A d \in Identities : commands[d] # NoRow => commands'[d] = commands[d]
      BY ZenonT(60), <1>13 DEF GatewayInvariant, TypeOK
    <2> QED
      BY ZenonT(60), <1>23, <1>25, <2>1, <2>2, <2>3, <2>4, <2>5 DEF Grows
  <1>30. /\ commands'[c].kind = "cancel" /\ commands'[c].hash = Hash(q)
         /\ commands'[c].status = HttpStatus("cancel", receipt)
         /\ commands'[c].receipt = receipt /\ commands'[c].at = q.at /\ commands'[c] # NoRow
    <2>1. commands'[c] = Row(q, receipt)
      BY ZenonT(60), <1>13, <1>15 DEF GatewayInvariant, TypeOK
    <2>2. Row(q, receipt) \in CommandRows
      <3>1. HttpStatus(q.kind, receipt) \in {200, 202} /\ Hash(q) \in Hashes
        BY <1>13, <1>14 DEF HttpStatus, RequestSound
      <3> QED
        BY ZenonT(60), <1>13, <1>16, <1>28, <3>1 DEF Row, CommandRows
    <2> QED
      BY <1>13, <2>1, <2>2, GatewayAssumption DEF Row
  <1>31. RowSound(c)'
    <2>1. devices'[c[1]].state # "absent"
      BY ZenonT(60), <1>13, <1>15
    <2>2. ReceiptDecodes(commands[c])'
      BY ZenonT(60), <1>19, <1>28, <1>30 DEF ReceiptDecodes, HttpStatus
    <2> QED
      BY ZenonT(60), <1>15, <1>28, <1>30, <2>1, <2>2 DEF RowSound, CancelHash
  <1>32. RowHolds(c)'
    <2>1. ReceiptTrue(c)'
      BY ZenonT(60), <1>19, <1>21, <1>23, <1>28, <1>30 DEF ReceiptTrue, CleanupPending
    <2>2. receipt.work \in 1..Len(works') /\ receipt.cursor \in 1..Len(journal')
      BY ZenonT(60), <1>13, <1>23, <1>27, <1>28
    <2> QED
      BY ZenonT(60), <1>30, <1>31, <2>1, <2>2 DEF RowHolds
  <1>33. from # to => CausedBy(journal[n + 1], c)' /\ UserCancellation(journal'[n + 1])
    <2> SUFFICES ASSUME from # to PROVE CausedBy(journal[n + 1], c)' /\ UserCancellation(journal'[n + 1])
      BY ZenonT(60)
    <2>1. UserCancellation(e)
      BY ZenonT(60), <1>19, <1>24 DEF UserCancellation, CancelType
    <2>2. n' = n /\ journal'[n + 1] = e
      BY ZenonT(60), <1>25
    <2> QED
      BY ZenonT(60), <1>15, <1>24, <1>28, <1>30, <2>1, <2>2 DEF CausedBy, UserCancellation

  <1>34. \A o \in 1..Len(journal') : o > Len(journal) => from # to /\ o = n + 1
    BY <1>4, <1>8, <1>11, <1>25
  <1>35. \A o \in 1..Len(journal') : o > Len(journal) /\ UserCancellation(journal'[o])
            => journal'[o].at = q.at /\ CancellationEventVerified(o)'
    <2> SUFFICES ASSUME NEW o \in 1..Len(journal'), o > Len(journal)
                 PROVE  journal'[o].at = q.at /\ CancellationEventVerified(o)'
      BY ZenonT(60)
    <2>1. from # to /\ o = n + 1 /\ journal'[o] = e /\ cursor = o
      BY ZenonT(60), <1>8, <1>25, <1>34
    <2>2. CausedBy(journal[o], c)'
      BY ZenonT(60), <1>33, <2>1
    <2> QED
      BY ZenonT(60), <1>15, <1>16, <1>24, <1>28, <1>30, <2>1,
         <2>2 DEF CancellationEventVerified
  <1>36. ASSUME Clock = "distinct" PROVE CancellationVerified(c)'
    <2>1. commands'[c].hash = CancelHash(c[2], commands'[c].receipt.work)
      BY ZenonT(60), <1>15, <1>28, <1>30
    <2>2. CASE from # to
      <3>1. CausedBy(journal[commands[c].receipt.cursor], c)'
        BY ZenonT(60), <1>8, <1>28, <1>30, <1>33, <2>2
      <3> QED
        BY ZenonT(60), <2>1, <3>1 DEF CancellationVerified, CancelHash
    <2>3. CASE from = to
      <3>1. /\ q.at \in 1..clock /\ \A d \in Identities : commands[d] # NoRow => commands[d].at # q.at
            /\ \A o \in 1..Len(journal) : CancellationEventVerified(o)
        BY ZenonT(60), <1>1, <1>13, <1>36 DEF GatewayInvariant, ReadingsDistinct
      <3>2. Len(journal') = n /\ Len(journal) = n /\ cursor = n
        BY ZenonT(60), <1>4, <1>8, <1>25, <2>3
      <3>3. ~ \E o \in 1..Len(journal') : CausedBy(journal[o], c)'
        <4> SUFFICES ASSUME NEW o \in 1..n, CausedBy(journal[o], c)' PROVE FALSE
          BY ZenonT(60), <3>2
        <4>1. journal'[o] = journal[o]
          BY ZenonT(60), <1>25, <3>2
        <4>2. UserCancellation(journal[o]) /\ journal[o].at = q.at
          BY ZenonT(60), <1>30, <4>1 DEF CausedBy, UserCancellation
        <4>3. PICK d \in Identities : commands[d] # NoRow /\ CausedBy(journal[o], d)
          BY ZenonT(60), <3>1, <3>2, <4>2 DEF CancellationEventVerified
        <4>4. journal[o].at = commands[d].at
          BY ZenonT(60), <4>3 DEF CausedBy
        <4> QED
          BY ZenonT(60), <3>1, <4>2, <4>3, <4>4
      <3>4. p \in 1..cursor /\ journal'[p].work = w /\ journal'[p].to = to
        BY ZenonT(60), <1>25, <1>26, <2>3, <3>2
      <3>5. works'[w].state = to
        BY ZenonT(60), <1>21, <1>23
      <3>6. \E o \in 1..commands'[c].receipt.cursor :
               journal'[o].work = w /\ journal'[o].to = to
        BY ZenonT(60), <1>28, <1>30, <3>4
      <3>7. CompatibleNoOp(c)'
        BY ZenonT(60), <1>19, <1>28, <1>30, <3>5, <3>6 DEF CompatibleNoOp
      <3> QED
        BY ZenonT(60), <2>1, <3>3, <3>7 DEF CancellationVerified, CancelHash
    <2> QED
      BY ZenonT(60), <2>2, <2>3
  <1>37. Commits(i, q, c, receipt)
    <2>1. q.kind # "spent"
      BY ZenonT(60), <1>13
    <2>2. UNCHANGED <<health, admission, restarts, clock, devices, published>>
      BY ZenonT(60), <1>13
    <2>3. \A v \in 1..Len(works') : ~(v > Len(works))
      BY <1>11, <1>23
    <2> QED
      BY <1>1, <1>2, <1>13, <1>32, <1>35, <1>36, <2>1, <2>2, <2>3, Zenon DEF Commits
  <1> QED
    BY ZenonT(60), <1>28, <1>29, <1>37, CommitKept

(* The transaction, whichever way it goes.  Only a foreign conversation can   *)
(* make the topology fail: the device has stayed active since the request    *)
(* was authenticated.                                                        *)
LEMMA TransactKept ==
    ASSUME GatewayInvariant, NEW i \in 1..Len(requests), Transact(i)
    PROVE  GatewayInvariant'
  <1>1. requests[i].pc = "permitted" /\ UNCHANGED <<admission, restarts, clock, devices, published>>
    BY ZenonT(60) DEF Transact
  <1>2. CASE Replay(i)
    BY ZenonT(60), <1>1, <1>2, ReplayKept
  <1>3. CASE AcceptMessage(i)
    BY ZenonT(60), <1>1, <1>3, AcceptMessageKept
  <1>4. CASE CancelWork(i)
    BY <1>1, <1>4, CancelWorkKept
  <1>5. {"internal", "not_found", "service_unavailable"} \subseteq Codes \ {"receipt"}
    BY DEF Codes
  <1>6. CASE Rejected(i)
    <2>1. devices[requests[i].device].state = "active"
      BY ZenonT(60), <1>1 DEF GatewayInvariant, HandlersLive
    <2>2. /\ requests[i].conv # Primary /\ requests' = Ended(i, "internal") /\ health' = "fatal"
          /\ UNCHANGED store
      BY ZenonT(60), <1>6, <2>1 DEF Rejected, TopologyHolds
    <2> QED
      BY ZenonT(60), <1>1, <1>5, <2>2, EndKept
  <1>7. CASE TargetMissing(i)
    <2>1. requests' = Ended(i, "not_found") /\ UNCHANGED <<health, store>>
      BY ZenonT(60), <1>7 DEF TargetMissing
    <2> QED
      BY ZenonT(60), <1>1, <1>5, <2>1, EndKept
  <1>8. CASE StoreFails(i)
    <2>1. requests' = Ended(i, "service_unavailable") /\ UNCHANGED <<health, store>>
      BY <1>8 DEF StoreFails
    <2> QED
      BY ZenonT(60), <1>1, <1>5, <2>1, EndKept
  <1> QED
    BY ZenonT(60), <1>2, <1>3, <1>4, <1>6, <1>7, <1>8 DEF Transact

(* The service starts with an empty database and no request.                 *)
LEMMA GatewayStarts ==
    ASSUME Init
    PROVE  GatewayInvariant
  <1>1. /\ Len(works) = 0 /\ Len(journal) = 0 /\ Len(requests) = 0
        /\ \A c \in Identities : commands[c] = NoRow
        /\ \A d \in Devices : devices[d] = NoDeviceRow
    BY DEF Init
  <1>2. NoDeviceRow \in DeviceRows /\ NoDeviceRow.state = "absent"
    BY DEF NoDeviceRow, DeviceRows
  <1>3. MaxClock \in Nat /\ MaxRestarts \in Nat
    BY ZenonT(60), GatewayAssumption DEF GatewayConstants
  <1>4. TypeOK
    <2>1. devices \in [Devices -> DeviceRows]
      BY <1>2 DEF Init
    <2>2. restarts \in 0..MaxRestarts /\ clock \in 0..MaxClock
      BY <1>3 DEF Init
    <2>3. works \in Seq(WorkRows) /\ journal \in Seq(Events) /\ requests \in Seq(Requests)
      BY DEF Init
    <2>4. commands \in [Identities -> CommandRows \cup {NoRow}]
      BY DEF Init
    <2> QED
      BY <1>1, <2>1, <2>2, <2>3, <2>4 DEF Init, TypeOK, HealthStates
  <1>5. HandlersLive /\ RequestsSound /\ WorksExplained
    BY <1>1 DEF Init, HandlersLive, RequestsSound, WorksExplained
  <1>6. ReceiptsStayTrue /\ AnnouncedOrOwed /\ ReadingsDistinct
    BY <1>1 DEF ReceiptsStayTrue, AnnouncedOrOwed, ReadingsDistinct
  <1>7. DevicesVerified /\ FatalNeedsForeignConversation
    BY <1>1, <1>2 DEF Init, DevicesVerified, DeviceVerified, FatalNeedsForeignConversation
  <1> QED
    BY ZenonT(60), <1>1, <1>4, <1>5, <1>6, <1>7 DEF GatewayInvariant

(* Every step keeps the invariant.                                           *)
LEMMA GatewayKept ==
    ASSUME GatewayInvariant, [Next]_vars
    PROVE  GatewayInvariant'
  <1>0. /\ health \in HealthStates /\ admission \in {"open", "closing", "closed"}
        /\ restarts \in 0..MaxRestarts /\ MaxRestarts \in Nat
    BY ZenonT(60), GatewayAssumption DEF GatewayInvariant, TypeOK, GatewayConstants
  <1>1. CASE \E d \in Devices : Provision(d) \/ Revoke(d)
    BY <1>1, AdminKept
  <1>2. CASE ClientSends
    BY ZenonT(60), <1>2, SubmitKept
  <1>3. ASSUME NEW i \in 1..Len(requests), HandlerStep(i) \/ Abandon(i) PROVE GatewayInvariant'
    BY ZenonT(60), <1>3, TakePermitKept, TransactKept, PostCommitKept,
       AbandonKept DEF HandlerStep
  <1>4. CASE \E w \in 1..Len(works) : RuntimeStep(w) \/ RuntimeRecords(w)
    BY <1>4, RuntimeKept
  <1>5. CASE MarkReady
    BY ZenonT(60), <1>0, <1>5, ServiceKept DEF MarkReady, HealthStates, GatewayInvariant,
       HandlersLive
  <1>6. CASE BeginDrain
    BY ZenonT(60), <1>0, <1>6, ServiceKept DEF BeginDrain, HealthStates
  <1>7. CASE CloseAdmission
    BY ZenonT(60), <1>0, <1>7, ServiceKept DEF CloseAdmission
  <1>8. CASE Quiesce
    <2>1. health # "down"
      BY ZenonT(60), <1>8 DEF Quiesce, GatewayInvariant, HandlersLive
    <2> QED
      BY ZenonT(60), <1>0, <1>8, <2>1, ServiceKept DEF Quiesce
  <1>9. CASE Stop
    BY <1>9, StopKept
  <1>10. CASE StartService
    <2>1. /\ restarts' \in 0..MaxRestarts /\ health' = "live_unready" /\ admission' = admission
          /\ UNCHANGED <<clock, devices, store, published, requests>>
      BY <1>0, <1>10 DEF StartService
    <2> QED
      BY ZenonT(60), <1>0, <2>1, ServiceKept DEF HealthStates
  <1>11. CASE UNCHANGED vars
    <2>1. /\ UNCHANGED <<clock, devices, store, published, requests>>
          /\ UNCHANGED <<health, admission, restarts>>
      BY <1>11 DEF vars, store
    <2> QED
      BY ZenonT(60), <1>0, <2>1, ServiceKept DEF GatewayInvariant, HandlersLive
  <1> QED
    BY ZenonT(60), <1>1, <1>2, <1>3, <1>4, <1>5, <1>6, <1>7, <1>8, <1>9, <1>10,
       <1>11 DEF Next

(* The inductive invariant holds throughout: the tables explain one another,  *)
(* and every handler stands where the gate and the tables say.               *)
THEOREM GatewayHolds == Spec => []GatewayInvariant
  <1>1. Init => GatewayInvariant
    BY GatewayStarts
  <1>2. GatewayInvariant /\ [Next]_vars => GatewayInvariant'
    BY GatewayKept
  <1> QED
    BY <1>1, <1>2, PTL DEF Spec

(* What a cancellation receipt says stays true for good, every commit has     *)
(* been announced or is owed, device rows pass verify_devices, only a foreign *)
(* conversation is fatal, and with distinct readings the database passes      *)
(* verify_stage9_consistency at every moment the service may stop: for any    *)
(* number of devices, keys, requests, works, crashes and restarts.            *)
THEOREM CommandsSafe == Spec => []GatewaySafe
  <1>1. ASSUME GatewayInvariant, Clock = "distinct" PROVE Stage9Consistent
    <2>1. \A c \in Identities : commands[c] # NoRow =>
             /\ devices[c[1]].state # "absent"
             /\ commands[c].receipt.cursor \in 1..Len(journal)
             /\ ReceiptDecodes(commands[c])
      BY ZenonT(60), <1>1 DEF GatewayInvariant, RowSound, TypeOK
    <2>2. \A c \in Identities : commands[c] # NoRow =>
             IF commands[c].kind = "message" THEN MessageVerified(c) ELSE CancellationVerified(c)
      <3> SUFFICES ASSUME NEW c \in Identities, commands[c] # NoRow
                   PROVE  IF commands[c].kind = "message" THEN MessageVerified(c)
                                                          ELSE CancellationVerified(c)
        BY ZenonT(60)
      <3>1. commands[c] \in CommandRows
        BY ZenonT(60), <1>1 DEF GatewayInvariant, TypeOK
      <3>2. commands[c].kind \in {"message", "cancel"}
        BY ZenonT(60), <3>1 DEF CommandRows
      <3> QED
        BY ZenonT(60), <1>1, <3>2 DEF GatewayInvariant, RowSound, ReadingsDistinct
    <2>3. \A o \in 1..Len(journal) : CancellationEventVerified(o)
      BY ZenonT(60), <1>1 DEF GatewayInvariant, ReadingsDistinct
    <2> QED
      BY ZenonT(60), <1>1, <2>1, <2>2, <2>3 DEF GatewayInvariant, DevicesVerified,
         Stage9Consistent
  <1>2. GatewayInvariant => GatewaySafe
    BY <1>1 DEF GatewayInvariant, GatewaySafe, StartupAccepts
  <1> QED
    BY <1>2, GatewayHolds, PTL

(* Once close_and_wait has returned, no command changes the database and      *)
(* nothing is announced any more, however the other handlers are scheduled.   *)
THEOREM ClosedIsQuiet == Spec => ClosedMeansQuiet
  <1>1. ASSUME GatewayInvariant, [Next]_vars, admission = "closed", health # "down"
        PROVE  UNCHANGED <<commands, published>>
    <2>1. \A i \in 1..Len(requests) : requests[i].pc \notin {"permitted", "stored"}
      BY <1>1 DEF GatewayInvariant, HandlersLive, HoldsPermit
    <2>2. CASE \E d \in Devices : Provision(d) \/ Revoke(d)
      BY ZenonT(60), <2>2 DEF Provision, Revoke, store
    <2>3. CASE ClientSends
      BY <2>3 DEF ClientSends, Submit, store
    <2>4. ASSUME NEW i \in 1..Len(requests), HandlerStep(i) \/ Abandon(i)
          PROVE  UNCHANGED <<commands, published>>
      BY ZenonT(60), <2>1, <2>4 DEF HandlerStep, TakePermit, Transact, PostCommit, Abandon,
         store
    <2>5. CASE \E w \in 1..Len(works) : RuntimeStep(w) \/ RuntimeRecords(w)
      BY ZenonT(60), <2>5 DEF RuntimeStep, RuntimeRecords
    <2>6. CASE MarkReady \/ BeginDrain \/ CloseAdmission \/ Quiesce \/ Stop \/ StartService
      BY <2>6 DEF MarkReady, BeginDrain, CloseAdmission, Quiesce, Stop, StartService, store
    <2>7. CASE UNCHANGED vars
      BY <2>7 DEF vars
    <2> QED
      BY ZenonT(60), <1>1, <2>2, <2>3, <2>4, <2>5, <2>6, <2>7 DEF Next
  <1>2. GatewayInvariant /\ [Next]_vars => [QuietWhenClosed]_vars
    BY <1>1 DEF QuietWhenClosed
  <1> QED
    BY <1>2, GatewayHolds, PTL DEF Spec, ClosedMeansQuiet

-----------------------------------------------------------------------------
(* The gateway implements the ledger.                                      *)

(* The rows as decisions, and the answers with a receipt.                    *)
Decided == [c \in Identities |-> IF commands[c] = NoRow THEN NoRow ELSE Decision(commands[c])]

TellsReceipt(q) == q.pc = "done" /\ Answered(q.outcome)

Told == {ToldBy(requests[i]) : i \in {j \in 1..Len(requests) : TellsReceipt(requests[j])}}

(* A step that answers nobody with a receipt leaves what clients were told.   *)
LEMMA ToldStays ==
    ASSUME \A j \in 1..Len(requests) :
               /\ j \in 1..Len(requests')
               /\ \/ requests'[j] = requests[j]
                  \/ ~TellsReceipt(requests[j]) /\ ~TellsReceipt(requests'[j]),
           \A j \in 1..Len(requests') : j \notin 1..Len(requests) => ~TellsReceipt(requests'[j])
    PROVE  Told' = Told
  <1>1. Told' = {ToldBy(requests'[i]) : i \in {j \in 1..Len(requests') : TellsReceipt(requests'[j])}}
    BY ZenonT(60) DEF Told, TellsReceipt, Answered, ToldBy, Identity, Hash, MessageHash,
       CancelHash
  <1>2. {j \in 1..Len(requests') : TellsReceipt(requests'[j])}
            = {j \in 1..Len(requests) : TellsReceipt(requests[j])}
    BY ZenonT(60)
  <1>3. \A j \in {k \in 1..Len(requests) : TellsReceipt(requests[k])} : requests'[j] = requests[j]
    BY ZenonT(60)
  <1> QED
    BY ZenonT(60), <1>1, <1>2, <1>3 DEF Told

LEMMA UpdateTellsNobody ==
    ASSUME NEW i \in 1..Len(requests), NEW r, Updated(i, r),
           ~TellsReceipt(requests[i]), ~TellsReceipt(r)
    PROVE  Told' = Told
  BY ToldStays DEF Updated

(* Nothing is decided or told.                                               *)
LEMMA LedgerStutters ==
    ASSUME commands' = commands, Told' = Told
    PROVE  LedgerStep
  <1>1. Ledger!ledgerVars = <<Decided, Told>>
    BY ZenonT(60) DEF Ledger!ledgerVars, Decided, Told, TellsReceipt
  <1>2. Decided' = Decided
    BY ZenonT(60) DEF Decided, Decision
  <1>3. (Ledger!ledgerVars)' = <<Decided', Told'>>
    BY DEF Ledger!ledgerVars, Decided, Told, TellsReceipt
  <1> QED
    BY ZenonT(60), <1>1, <1>2, <1>3 DEF LedgerStep

(* A new row decides its command.                                            *)
LEMMA LedgerDecides ==
    ASSUME TypeOK, NEW c \in Identities, NEW row \in CommandRows,
           commands[c] = NoRow, commands' = [commands EXCEPT ![c] = row], Told' = Told
    PROVE  LedgerStep
  <1>1. /\ commands'[c] = row /\ row # NoRow
        /\ \A d \in Identities : d # c => commands'[d] = commands[d]
    BY ZenonT(60), GatewayAssumption DEF TypeOK
  <1>2. Decision(row) # NoRow
    <2>1. Decision(row) \in Decisions
      BY ZenonT(60) DEF Decision, Decisions, CommandRows
    <2> QED
      BY ZenonT(60), <2>1, GatewayAssumption
  <1>3. Decided[c] = NoRow /\ Decided'[c] = Decision(row)
    BY <1>1 DEF Decided, Decision
  <1>4. Decided' = [Decided EXCEPT ![c] = Decided'[c]]
    BY ZenonT(60), <1>1, <1>3 DEF Decided, Decision
  <1>5. Ledger!Decide(c)
    BY ZenonT(60), <1>2, <1>3, <1>4 DEF Ledger!Decide, Decided, Told, TellsReceipt
  <1> QED
    BY ZenonT(60), <1>5 DEF LedgerStep, Ledger!LedgerNext

(* The reply of a first commit or a replay tells the decision of the row.     *)
LEMMA LedgerTells ==
    ASSUME GatewayInvariant, NEW i \in 1..Len(requests), PostCommit(i)
    PROVE  LedgerStep
  <1>1. PICK q \in Requests : q = requests[i]
    BY DEF GatewayInvariant, TypeOK
  <1>2. RequestSound(q) /\ q.pc = "stored" /\ commands' = commands
    BY <1>1 DEF PostCommit, GatewayInvariant, RequestsSound, store
  <1>3. PICK c \in Identities : c = Identity(q)
    BY ZenonT(60), <1>2 DEF RequestSound
  <1>4. /\ commands[c] # NoRow /\ commands[c].hash = Hash(q)
        /\ commands[c].receipt = q.outcome.receipt /\ q.outcome.code = "receipt"
    BY <1>2, <1>3 DEF RequestSound, Recorded, CommandMatches
  <1>5. PICK r \in Requests :
           /\ requests' = [requests EXCEPT ![i] = r]
           /\ r.pc = "done" /\ r.outcome = q.outcome /\ r.device = q.device /\ r.key = q.key
           /\ r.kind = q.kind /\ r.body = q.body /\ r.conv = q.conv
    <2> DEFINE r == [q EXCEPT !.pc = "done"]
    <2>1. requests' = [requests EXCEPT ![i] = r]
      BY <1>1 DEF PostCommit
    <2>2. /\ r \in Requests /\ r.pc = "done" /\ r.outcome = q.outcome /\ r.device = q.device
          /\ r.key = q.key /\ r.kind = q.kind /\ r.body = q.body /\ r.conv = q.conv
      BY ZenonT(60) DEF Requests
    <2> HIDE DEF r
    <2> QED
      BY ZenonT(60), <2>1, <2>2
  <1>6. /\ Len(requests') = Len(requests) /\ requests'[i] = r
        /\ \A j \in 1..Len(requests) : j # i => requests'[j] = requests[j]
    BY <1>5, UpdateOne DEF GatewayInvariant, Updated
  <1>7. ToldBy(r) = <<c, Decision(commands[c])>> /\ TellsReceipt(r) /\ ~TellsReceipt(q)
    BY ZenonT(60), <1>2, <1>3, <1>4, <1>5 DEF ToldBy, Identity, Hash, Decision,
       TellsReceipt, Answered
  <1>8. Told' = Told \cup {<<c, Decision(commands[c])>>}
    <2>1. Told' = {ToldBy(requests'[k]) : k \in {j \in 1..Len(requests') : TellsReceipt(requests'[j])}}
      BY ZenonT(60) DEF Told, TellsReceipt, Answered, ToldBy, Identity, Hash, MessageHash,
         CancelHash
    <2>2. {j \in 1..Len(requests') : TellsReceipt(requests'[j])}
              = {j \in 1..Len(requests) : TellsReceipt(requests[j])} \cup {i}
      BY ZenonT(60), <1>6, <1>7
    <2>3. i \notin {j \in 1..Len(requests) : TellsReceipt(requests[j])}
      BY ZenonT(60), <1>1, <1>7
    <2>4. \A j \in {k \in 1..Len(requests) : TellsReceipt(requests[k])} : requests'[j] = requests[j]
      BY <1>6, <2>3
    <2> QED
      BY ZenonT(60), <1>6, <1>7, <2>1, <2>2, <2>4 DEF Told
  <1>9. Decided[c] = Decision(commands[c]) /\ Decided' = Decided
    BY ZenonT(60), <1>2, <1>4 DEF Decided, Decision
  <1>10. Decision(commands[c]) # NoRow
    <2>1. commands[c] \in CommandRows
      BY ZenonT(60), <1>4 DEF GatewayInvariant, TypeOK
    <2>2. Decision(commands[c]) \in Decisions
      BY <2>1 DEF Decision, Decisions, CommandRows
    <2> QED
      BY ZenonT(60), <2>2, GatewayAssumption
  <1>11. Ledger!Tell(c)
    BY ZenonT(60), <1>8, <1>9, <1>10 DEF Ledger!Tell, Decided, Told, TellsReceipt
  <1> QED
    BY <1>11 DEF LedgerStep, Ledger!LedgerNext

(* The handlers' other steps: refusals, permits, transactions, drops.         *)
LEMMA HandlerLedger ==
    ASSUME GatewayInvariant, NEW i \in 1..Len(requests),
           TakePermit(i) \/ Transact(i) \/ Abandon(i)
    PROVE  LedgerStep
  <1>1. PICK q \in Requests : q = requests[i]
    BY DEF GatewayInvariant, TypeOK
  <1>2. RequestSound(q) /\ q.pc # "done" /\ ~TellsReceipt(requests[i])
    BY <1>1 DEF GatewayInvariant, RequestsSound, TakePermit, Transact, Abandon, Live,
       TellsReceipt
  <1>3. ASSUME NEW r \in Requests, requests' = [requests EXCEPT ![i] = r], ~TellsReceipt(r)
        PROVE  Told' = Told
    BY ZenonT(60), <1>2, <1>3, UpdateOne, UpdateTellsNobody DEF GatewayInvariant
  <1>4. ASSUME NEW code \in Codes, code # "receipt", requests' = Ended(i, code)
        PROVE  Told' = Told
    <2>1. /\ Spent(q, code) \in Requests /\ Spent(q, code).kind = "spent"
          /\ RequestSound(Spent(q, code))
      BY <1>4, SpentIsSound
    <2>2. ~TellsReceipt(Spent(q, code))
      BY ZenonT(60), <2>1 DEF RequestSound, TellsReceipt, Answered
    <2>3. requests' = [requests EXCEPT ![i] = Spent(q, code)]
      BY <1>1, <1>4 DEF Ended
    <2> QED
      BY ZenonT(60), <1>3, <2>1, <2>2, <2>3
  <1>5. ASSUME NEW outcome \in Outcomes,
               requests' = [requests EXCEPT ![i].pc = "stored", ![i].outcome = outcome]
        PROVE  Told' = Told
    <2> DEFINE r == [q EXCEPT !.pc = "stored", !.outcome = outcome]
    <2>1. requests' = [requests EXCEPT ![i] = r]
      BY ZenonT(60), <1>1, <1>5
    <2>2. r \in Requests /\ r.pc = "stored"
      BY ZenonT(60) DEF Requests
    <2>3. ~TellsReceipt(r)
      BY <2>2 DEF TellsReceipt
    <2> HIDE DEF r
    <2> QED
      BY ZenonT(60), <1>3, <2>1, <2>2, <2>3
  <1>6. {"service_unavailable", "idempotency_conflict", "internal", "not_found"} \subseteq Codes \ {"receipt"}
    BY DEF Codes
  <1>7. CASE TakePermit(i)
    <2>1. commands' = commands
      BY ZenonT(60), <1>7 DEF TakePermit, store
    <2>2. CASE requests' = Ended(i, "service_unavailable")
      BY ZenonT(60), <1>4, <1>6, <2>1, <2>2, LedgerStutters
    <2>3. ASSUME NEW t \in 1..MaxClock, requests' = [requests EXCEPT ![i].pc = "permitted", ![i].at = t]
          PROVE  LedgerStep
      <3> DEFINE r == [q EXCEPT !.pc = "permitted", !.at = t]
      <3>1. requests' = [requests EXCEPT ![i] = r]
        BY ZenonT(60), <1>1, <2>3
      <3>2. t \in Nat
        BY GatewayAssumption DEF GatewayConstants
      <3>3. r \in Requests /\ r.pc = "permitted"
        BY ZenonT(60), <3>2 DEF Requests
      <3>4. ~TellsReceipt(r)
        BY <3>3 DEF TellsReceipt
      <3> HIDE DEF r
      <3> QED
        BY ZenonT(60), <1>3, <2>1, <3>1, <3>3, <3>4, LedgerStutters
    <2> QED
      BY ZenonT(60), <1>7, <2>2, <2>3 DEF TakePermit
  <1>8. CASE Abandon(i)
    <2>1. commands' = commands /\ requests' = [requests EXCEPT ![i] = Dropped(q)]
      BY <1>1, <1>8 DEF Abandon, store
    <2>2. Dropped(q) \in Requests /\ Dropped(q).outcome.code = "abandoned"
      BY ZenonT(60), <1>2, DroppedIsSound
    <2>3. ~TellsReceipt(Dropped(q))
      BY <2>2 DEF TellsReceipt, Answered
    <2> QED
      BY ZenonT(60), <1>3, <2>1, <2>2, <2>3, LedgerStutters
  <1>9. CASE Replay(i)
    <2>1. commands' = commands
      BY ZenonT(60), <1>9 DEF Replay, store
    <2>2. CASE requests' = Ended(i, "idempotency_conflict")
      BY ZenonT(60), <1>4, <1>6, <2>1, <2>2, LedgerStutters
    <2>3. CASE CommandMatches(commands[Identity(requests[i])], requests[i])
      <3>1. commands[Identity(q)] # NoRow /\ q.kind # "spent"
        BY ZenonT(60), <1>1, <1>2, <1>9 DEF Replay, RequestSound
      <3>2. commands[Identity(q)] \in CommandRows
        BY ZenonT(60), <1>2, <3>1 DEF GatewayInvariant, TypeOK, RequestSound
      <3>3. commands[Identity(q)].receipt \in Receipts
        BY ZenonT(60), <3>2 DEF CommandRows
      <3>4. Outcome(TRUE, commands[Identity(q)].receipt) \in Outcomes
        BY ZenonT(60), <3>3 DEF Outcome, Outcomes, Codes
      <3>5. requests' = [requests EXCEPT ![i].pc = "stored",
                                         ![i].outcome = Outcome(TRUE, commands[Identity(q)].receipt)]
        BY ZenonT(60), <1>1, <1>9, <2>3 DEF Replay
      <3> QED
        BY ZenonT(60), <1>5, <2>1, <3>4, <3>5, LedgerStutters
    <2> QED
      BY ZenonT(60), <1>9, <2>2, <2>3 DEF Replay
  <1>10. CASE Rejected(i) \/ TargetMissing(i) \/ StoreFails(i)
    <2>1. /\ commands' = commands
          /\ \E code \in {"service_unavailable", "internal", "not_found"} : requests' = Ended(i, code)
      BY ZenonT(60), <1>10 DEF Rejected, TargetMissing, StoreFails, store
    <2> QED
      BY ZenonT(60), <1>4, <1>6, <2>1, LedgerStutters
  <1>11. ASSUME NEW receipt \in Receipts, q.kind # "spent", commands[Identity(q)] = NoRow,
                commands' = [commands EXCEPT ![Identity(q)] = Row(q, receipt)],
                requests' = [requests EXCEPT ![i].pc = "stored", ![i].outcome = Outcome(FALSE, receipt)]
         PROVE  LedgerStep
    <2>1. Outcome(FALSE, receipt) \in Outcomes
      BY DEF Outcome, Outcomes, Codes
    <2>2. Told' = Told
      BY ZenonT(60), <1>5, <1>11, <2>1
    <2>3. PICK c \in Identities : c = Identity(q)
      BY ZenonT(60), <1>2, <1>11 DEF RequestSound
    <2>4. PICK row \in CommandRows : row = Row(q, receipt)
      <3>1. HttpStatus(q.kind, receipt) \in {200, 202} /\ Hash(q) \in Hashes
        BY <1>2, <1>11 DEF HttpStatus, RequestSound
      <3>2. q.kind \in {"message", "cancel"} /\ q.at \in Nat
        BY <1>11 DEF Requests
      <3>3. Row(q, receipt) \in CommandRows
        BY ZenonT(60), <1>11, <3>1, <3>2 DEF Row, CommandRows
      <3> QED
        BY ZenonT(60), <3>3
    <2> QED
      BY ZenonT(60), <1>11, <2>2, <2>3, <2>4, LedgerDecides DEF GatewayInvariant
  <1>12. CASE AcceptMessage(i)
    <2>1. PICK receipt : receipt = Receipt(Len(works) + 1, "queued", Len(journal) + 2)
      BY ZenonT(60)
    <2>2. receipt \in Receipts
      BY <2>1 DEF Receipt, Receipts, States, GatewayInvariant, TypeOK
    <2>3. /\ q.kind # "spent" /\ commands[Identity(q)] = NoRow
          /\ commands' = [commands EXCEPT ![Identity(q)] = Row(q, receipt)]
          /\ requests' = [requests EXCEPT ![i].pc = "stored", ![i].outcome = Outcome(FALSE, receipt)]
      BY ZenonT(60), <1>1, <1>12, <2>1 DEF AcceptMessage
    <2> QED
      BY ZenonT(60), <1>11, <2>2, <2>3
  <1>13. CASE CancelWork(i)
    <2>1. PICK receipt : receipt = Receipt(q.body, CancellationResult(works[q.body].state),
                                           CancellationCursor(q.body, q))
      BY ZenonT(60)
    <2>2. /\ q.kind # "spent" /\ commands[Identity(q)] = NoRow
          /\ commands' = [commands EXCEPT ![Identity(q)] = Row(q, receipt)]
          /\ requests' = [requests EXCEPT ![i].pc = "stored", ![i].outcome = Outcome(FALSE, receipt)]
          /\ q.body \in 1..Len(works)
      BY ZenonT(60), <1>1, <1>13, <2>1 DEF CancelWork, TargetFound
    <2>3. works[q.body] \in WorkRows /\ q.body \in Nat /\ Len(journal) \in Nat
      BY <2>2 DEF GatewayInvariant, TypeOK
    <2>4. CancellationResult(works[q.body].state) \in States
      BY ZenonT(60), <2>3 DEF CancellationResult, WorkRows, States, Terminal
    <2>5. CancellationCursor(q.body, q) \in Nat
      <3>1. Len(CancellationEvents(q.body, q)) \in {0, 1}
        BY DEF CancellationEvents
      <3> QED
        BY <2>3, <3>1 DEF CancellationCursor
    <2>6. receipt \in Receipts
      BY ZenonT(60), <2>1, <2>3, <2>4, <2>5 DEF Receipt, Receipts
    <2> QED
      BY ZenonT(60), <1>11, <2>2, <2>6
  <1> QED
    BY ZenonT(60), <1>7, <1>8, <1>9, <1>10, <1>12, <1>13 DEF Transact

(* Every step of the gateway is a step of the ledger or leaves it alone.      *)
LEMMA StepLedger ==
    ASSUME GatewayInvariant, [Next]_vars
    PROVE  LedgerStep
  <1>1. ASSUME UNCHANGED <<commands, requests>> PROVE LedgerStep
    <2>1. Told' = Told
      BY ZenonT(60), <1>1, ToldStays
    <2> QED
      BY ZenonT(60), <1>1, <2>1, LedgerStutters
  <1>2. CASE \E d \in Devices : Provision(d) \/ Revoke(d)
    BY ZenonT(60), <1>1, <1>2 DEF Provision, Revoke, store
  <1>3. CASE ClientSends
    <2>1. PICK q \in Requests :
             /\ q.kind # "spent" /\ q.pc = "checked" /\ q.outcome = Pending
             /\ Identity(q) \in Identities /\ Hash(q) \in Hashes
             /\ Submit(q)
      BY ZenonT(60), <1>3, ClientSendsSound
    <2>2. PICK r : r = Entered(q)
      OBVIOUS
    <2>3. r \in Requests /\ ~TellsReceipt(r)
      BY ZenonT(60), <2>1, <2>2, EnteredIsSound DEF TellsReceipt, Answered, RequestSound
    <2>4. requests' = Append(requests, r) /\ commands' = commands
      BY ZenonT(60), <2>1, <2>2 DEF Submit, store
    <2>5. /\ Len(requests) \in Nat /\ Len(requests') = Len(requests) + 1
          /\ requests'[Len(requests) + 1] = r
          /\ \A j \in 1..Len(requests) : requests'[j] = requests[j]
      BY <2>3, <2>4 DEF GatewayInvariant, TypeOK
    <2>6. /\ \A j \in 1..Len(requests') : j \notin 1..Len(requests) => j = Len(requests) + 1
          /\ \A j \in 1..Len(requests) : j \in 1..Len(requests')
      BY <2>5
    <2>7. Told' = Told
      BY ZenonT(60), <2>3, <2>5, <2>6, ToldStays
    <2> QED
      BY ZenonT(60), <2>4, <2>7, LedgerStutters
  <1>4. ASSUME NEW i \in 1..Len(requests), HandlerStep(i) \/ Abandon(i) PROVE LedgerStep
    BY ZenonT(60), <1>4, HandlerLedger, LedgerTells DEF HandlerStep
  <1>5. CASE \E w \in 1..Len(works) : RuntimeStep(w) \/ RuntimeRecords(w)
    BY ZenonT(60), <1>1, <1>5 DEF RuntimeStep, RuntimeRecords
  <1>6. CASE MarkReady \/ BeginDrain \/ CloseAdmission \/ Quiesce \/ StartService
    BY ZenonT(60), <1>1, <1>6 DEF MarkReady, BeginDrain, CloseAdmission, Quiesce,
       StartService, store
  <1>7. CASE Stop
    <2>1. /\ commands' = commands
          /\ requests' = [i \in 1..Len(requests) |->
                IF Live(requests[i]) THEN Dropped(requests[i]) ELSE requests[i]]
      BY ZenonT(60), <1>7 DEF Stop, store
    <2>2. requests \in Seq(Requests) /\ Len(requests) \in Nat
      BY DEF GatewayInvariant, TypeOK
    <2>3. Len(requests') = Len(requests)
      BY <2>1, <2>2
    <2>4. \A j \in 1..Len(requests) :
             \/ requests'[j] = requests[j]
             \/ ~TellsReceipt(requests[j]) /\ ~TellsReceipt(requests'[j])
      <3> SUFFICES ASSUME NEW j \in 1..Len(requests), Live(requests[j])
                   PROVE  ~TellsReceipt(requests[j]) /\ ~TellsReceipt(requests'[j])
        BY ZenonT(60), <2>1
      <3>1. requests'[j] = Dropped(requests[j])
        BY ZenonT(60), <2>1
      <3>2. requests[j] \in Requests /\ RequestSound(requests[j]) /\ requests[j].pc # "done"
        BY DEF GatewayInvariant, RequestsSound, TypeOK, Live
      <3>3. Dropped(requests[j]).outcome.code = "abandoned"
        BY ZenonT(60), <3>2, DroppedIsSound
      <3> QED
        BY ZenonT(60), <3>1, <3>2, <3>3 DEF TellsReceipt, Answered
    <2>5. Told' = Told
      BY ZenonT(60), <2>3, <2>4, ToldStays
    <2> QED
      BY ZenonT(60), <2>1, <2>5, LedgerStutters
  <1>8. CASE UNCHANGED vars
    BY <1>1, <1>8 DEF vars
  <1> QED
    BY ZenonT(60), <1>2, <1>3, <1>4, <1>5, <1>6, <1>7, <1>8 DEF Next

(* The gateway implements CommandLedger: a command is decided once, and every *)
(* answer with a receipt, first or replayed, is the decision recorded for     *)
(* exactly the material that was decided.                                     *)
THEOREM GatewayImplementsLedger == Spec => ImplementsLedger
  <1>1. Init => Ledger!LedgerInit
    <2> SUFFICES ASSUME Init PROVE Ledger!LedgerInit
      OBVIOUS
    <2>1. Decided = [c \in Identities |-> NoRow] /\ Told = {}
      BY DEF Init, Decided, Told
    <2> QED
      BY ZenonT(60), <2>1 DEF Ledger!LedgerInit, Decided, Told, TellsReceipt
  <1>2. GatewayInvariant /\ [Next]_vars => [LedgerStep]_vars
    BY StepLedger
  <1> QED
    BY <1>1, <1>2, GatewayHolds, PTL DEF Spec, ImplementsLedger
=============================================================================
