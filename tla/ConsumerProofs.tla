--------------------------- MODULE ConsumerProofs ---------------------------
(***************************************************************************)
(* Theorems about Consumer, for every topic and every number of crashes,    *)
(* rejoins and failures.  The first ones use nothing about the handler:     *)
(* whatever Handle does, the loop settles a message before it commits its   *)
(* offset.  The last ones put the loop over the stock ledger.               *)
(***************************************************************************)
EXTENDS Consumer, TLAPS

Busy == {"handle", "dlq", "commit"}

Settled == answered \cup Reported \cup abandoned

\* The message the loop works on is the last one it read.
OffsetsOK ==
    /\ position \in [Partitions -> Nat]
    /\ committed \in [Partitions -> Nat]
    /\ pc \in Busy \cup {"down", "poll"}
    /\ pc \in Busy => current \in Slot /\ current[2] = position[current[1]]
    /\ pc # "down" => \A p \in Partitions : committed[p] =< position[p]

\* Everything the running loop has read is settled, but for the message it
\* still works on.  A restart goes back to the committed offset, so that
\* CommittedSettled has to be part of the invariant.
ReadSettled ==
    pc # "down" =>
        \A s \in Slot : s[2] =< position[s[1]] =>
            \/ s \in Settled
            \/ pc \in {"handle", "dlq"} /\ s = current

SettledInv == OffsetsOK /\ ReadSettled /\ CommittedSettled

LEMMA SlotMember ==
    \A s : s \in Slot <=> \E p \in Partitions :
                              \E n \in 1 .. Len(Topic[p]) : s = <<p, n>>
BY TopicAssumption DEF Slot

LEMMA SlotParts ==
    ASSUME NEW s \in Slot
    PROVE  /\ s[1] \in Partitions /\ s[2] \in Nat /\ s[2] > 0
           /\ s = <<s[1], s[2]>>
<1>1. PICK p \in Partitions : \E n \in 1 .. Len(Topic[p]) : s = <<p, n>>
  BY SlotMember
<1>2. Len(Topic[p]) \in Nat
  BY TopicAssumption
<1> QED BY <1>1, <1>2

LEMMA InitSettled == Init => SettledInv
BY SlotParts
   DEF Init, SettledInv, OffsetsOK, ReadSettled, CommittedSettled, Covered, Busy

\* A step that keeps the committed offsets and forgets no settled message
\* keeps CommittedSettled.
LEMMA KeepCommitted ==
    ASSUME CommittedSettled, UNCHANGED committed, Settled \subseteq Settled'
    PROVE  CommittedSettled'
BY DEF CommittedSettled, Covered, Settled

LEMMA SettledStep == SettledInv /\ [Next]_vars => SettledInv'
<1> SUFFICES ASSUME SettledInv, [Next]_vars PROVE SettledInv'
  OBVIOUS
<1> USE DEF SettledInv
<1>1. CASE UNCHANGED vars
  BY <1>1 DEF vars, ghosts, OffsetsOK, ReadSettled, CommittedSettled, Covered,
              Settled, Reported
<1>2. ASSUME NEW p \in Partitions, Read(p) PROVE SettledInv'
  <2>1. UNCHANGED <<committed, answered, dlq, abandoned>>
    BY <1>2 DEF Read, ghosts
  <2>2. Settled' = Settled /\ CommittedSettled'
    BY <2>1, KeepCommitted DEF Settled, Reported
  <2>3. position[p] + 1 \in 1 .. Len(Topic[p])
    BY <1>2, TopicAssumption DEF Read, OffsetsOK
  <2>4. current' \in Slot
    BY <1>2, <2>3, SlotMember DEF Read
  <2>5. OffsetsOK'
    BY <1>2, <2>1, <2>4 DEF Read, OffsetsOK, Busy
  <2>6. ReadSettled'
    <3> SUFFICES ASSUME NEW s \in Slot, s[2] =< position'[s[1]]
                 PROVE  s \in Settled' \/ s = current'
      BY <1>2 DEF Read, ReadSettled
    <3>1. CASE s[2] =< position[s[1]]
      BY <1>2, <2>2, <3>1 DEF Read, ReadSettled
    <3>2. CASE ~(s[2] =< position[s[1]])
      <4>1. s[1] = p /\ s[2] = position[p] + 1
        BY <1>2, <3>2, SlotParts DEF Read, OffsetsOK
      <4> QED BY <1>2, <4>1, SlotParts DEF Read
    <3> QED BY <3>1, <3>2
  <2> QED BY <2>2, <2>5, <2>6
<1>3. CASE DecodeFails
  <2>1. /\ UNCHANGED <<position, committed, current, answered, dlq, abandoned>>
        /\ pc = "handle" /\ pc' = "dlq"
    BY <1>3 DEF DecodeFails, ghosts
  <2>2. Settled' = Settled /\ CommittedSettled'
    BY <2>1, KeepCommitted DEF Settled, Reported
  <2> QED BY <2>1, <2>2 DEF OffsetsOK, ReadSettled, Busy
<1>4. CASE HandleMessage
  <2>1. /\ UNCHANGED <<position, committed, current, dlq, abandoned>>
        /\ pc = "handle"
        /\ \/ pc' = "commit" /\ answered' = answered \cup {current}
           \/ pc' = "dlq" /\ answered' = answered
    BY <1>4 DEF HandleMessage
  <2>2. Settled \subseteq Settled' /\ CommittedSettled'
    BY <2>1, KeepCommitted DEF Settled, Reported
  <2>3. pc' = "commit" => current \in Settled'
    BY <2>1 DEF Settled
  <2> QED BY <2>1, <2>2, <2>3 DEF OffsetsOK, ReadSettled, Busy
<1>5. CASE DlqDelivered
  <2>1. /\ UNCHANGED <<position, committed, current, answered, abandoned>>
        /\ pc = "dlq" /\ pc' = "commit" /\ dlq' = dlq \cup {Record}
    BY <1>5 DEF DlqDelivered, ghosts
  <2>2. Reported \subseteq Reported' /\ current \in Reported'
    <3>1. Record \in dlq' /\ Record.slot = current
      BY <2>1 DEF Record
    <3>2. Reported' = {r.slot : r \in dlq'}
      BY DEF Reported
    <3> QED BY <2>1, <3>1, <3>2 DEF Reported
  <2>3. Settled \subseteq Settled' /\ CommittedSettled'
    BY <2>1, <2>2, KeepCommitted DEF Settled
  <2> QED BY <2>1, <2>2, <2>3 DEF OffsetsOK, ReadSettled, Busy, Settled
<1>6. CASE DlqFails \/ DlqTimesOut
  <2>1. /\ UNCHANGED <<position, committed, current, answered>>
        /\ pc = "dlq" /\ pc' = "poll" /\ dlq \subseteq dlq'
        /\ abandoned' = abandoned \cup {current}
    BY <1>6 DEF DlqFails, DlqTimesOut
  <2>2. Reported \subseteq Reported'
    BY <2>1 DEF Reported
  <2>3. Settled \subseteq Settled' /\ CommittedSettled'
    BY <2>1, <2>2, KeepCommitted DEF Settled
  <2>4. current \in Settled'
    BY <2>1 DEF Settled
  <2> QED BY <2>1, <2>3, <2>4 DEF OffsetsOK, ReadSettled, Busy
<1>7. CASE Commit \/ CommitFails
  <2>1. /\ UNCHANGED <<position, current, answered, dlq, abandoned>>
        /\ pc = "commit" /\ pc' = "poll"
        /\ committed' \in {committed,
                           [committed EXCEPT ![current[1]] = current[2]]}
    BY <1>7 DEF Commit, CommitFails, ghosts
  <2>2. current[1] \in Partitions /\ current[2] = position[current[1]]
    BY <2>1, SlotParts DEF OffsetsOK, Busy
  <2>3. OffsetsOK'
    BY <2>1, <2>2 DEF OffsetsOK, Busy
  <2>4. Settled' = Settled
    BY <2>1 DEF Settled, Reported
  <2>5. ReadSettled'
    BY <2>1, <2>4 DEF ReadSettled
  <2>6. CommittedSettled'
    <3> SUFFICES ASSUME NEW s \in Slot, s[2] =< committed'[s[1]]
                 PROVE  s \in Settled'
      BY DEF CommittedSettled, Covered, Settled
    <3>1. s[2] =< position[s[1]]
      BY <2>3, <2>1, SlotParts DEF OffsetsOK
    <3> QED BY <2>1, <2>4, <3>1 DEF ReadSettled
  <2> QED BY <2>3, <2>5, <2>6
<1>8. CASE ReadNothing
  BY <1>1, <1>8 DEF ReadNothing
<1>9. CASE Crash
  <2>1. UNCHANGED <<position, committed, answered, dlq, abandoned>> /\ pc' = "down"
    BY <1>9 DEF Crash, ghosts
  <2>2. CommittedSettled'
    BY <2>1, KeepCommitted DEF Settled, Reported
  <2> QED BY <2>1, <2>2 DEF OffsetsOK, ReadSettled, Busy
<1>10. CASE Start \/ Rejoin
  <2>1. /\ UNCHANGED <<committed, answered, dlq, abandoned>>
        /\ position' = committed /\ pc' = "poll"
    BY <1>10 DEF Start, Rejoin, ghosts
  <2>2. Settled' = Settled /\ CommittedSettled'
    BY <2>1, KeepCommitted DEF Settled, Reported
  <2>3. OffsetsOK'
    BY <2>1 DEF OffsetsOK, Busy
  <2>4. ReadSettled'
    BY <2>1, <2>2 DEF ReadSettled, CommittedSettled, Covered, Settled
  <2> QED BY <2>2, <2>3, <2>4
<1>11. CASE DeliverLate
  <2>1. UNCHANGED <<position, committed, current, pc, answered, abandoned>>
        /\ dlq \subseteq dlq'
    BY <1>11 DEF DeliverLate, ghosts
  <2>2. Reported \subseteq Reported'
    BY <2>1 DEF Reported
  <2>3. Settled \subseteq Settled' /\ CommittedSettled'
    BY <2>1, <2>2, KeepCommitted DEF Settled
  <2> QED BY <2>1, <2>3 DEF OffsetsOK, ReadSettled, Busy
<1> QED BY <1>1, <1>2, <1>3, <1>4, <1>5, <1>6, <1>7, <1>8, <1>9, <1>10, <1>11
        DEF Next, Loop

\* A committed offset covers only messages that were answered, reported or
\* given up with a log line, in every reachable state.
THEOREM CommittedAlwaysSettled == Spec => []CommittedSettled
<1>1. Spec => []SettledInv
  BY InitSettled, SettledStep, PTL DEF Spec
<1>2. SettledInv => CommittedSettled
  BY DEF SettledInv
<1> QED BY <1>1, <1>2, PTL

\* No step sets a committed offset back.
THEOREM CommitsNeverRewind == Spec => CommitsForward
<1>1. SettledInv /\ [Next]_vars =>
        [\A p \in Partitions : committed'[p] >= committed[p]]_vars
  <2> SUFFICES ASSUME SettledInv, Next
               PROVE  \A p \in Partitions : committed'[p] >= committed[p]
    OBVIOUS
  <2>1. CASE Commit \/ CommitFails
    <3>1. current \in Slot /\ current[2] = position[current[1]]
          /\ pc = "commit"
      BY <2>1 DEF Commit, CommitFails, SettledInv, OffsetsOK, Busy
    <3> QED BY <2>1, <3>1, SlotParts
            DEF Commit, CommitFails, SettledInv, OffsetsOK
  <2>2. CASE UNCHANGED committed
    BY <2>2 DEF SettledInv, OffsetsOK
  <2> QED BY <2>1, <2>2
          DEF Next, Loop, Read, DecodeFails, HandleMessage, DlqDelivered,
              DlqFails, DlqTimesOut, ReadNothing, Crash, Start, Rejoin,
              DeliverLate, vars
<1>2. Spec => []SettledInv
  BY InitSettled, SettledStep, PTL DEF Spec
<1> QED BY <1>1, <1>2, PTL DEF Spec, CommitsForward

-----------------------------------------------------------------------------
(* The loop over the stock ledger: whatever it reads again after a crash or *)
(* a rejoin, the books move as StockLedger says.  The theorems of the       *)
(* handler are about calls of Handle, and the loop calls Handle; they are   *)
(* used here through an instance of their module.                           *)

L == INSTANCE LedgerProofs

\* What Consumer's instance H and this one call Handle is the same action.
LEMMA SameHandle == ASSUME NEW e, H!Handle(e) PROVE L!Handle(e)
<1> USE DEF H!CompleteOrder, L!CompleteOrder, H!Count, L!Count,
      H!MoveBetween, L!MoveBetween, H!OneRow, L!OneRow, H!Checked, L!Checked,
      H!Decline, L!Decline, H!Accepted, L!Accepted, H!Return, L!Return,
      H!tables, L!tables, H!Stamped, L!Stamped, H!Dispatched, L!Dispatched,
      H!ValidProductZoneQty, L!ValidProductZoneQty, H!IsOld, L!IsOld,
      H!IsOldZoneEvent, L!IsOldZoneEvent, H!IsOldOrderEvent,
      L!IsOldOrderEvent, H!ValidItems, L!ValidItems, H!NormalizeOrderItems,
      L!NormalizeOrderItems, H!TooFewAvailable, L!TooFewAvailable,
      H!TooFewReserved, L!TooFewReserved, H!ExecBatch, L!ExecBatch,
      H!PutInventory, L!PutInventory, H!PutZoneInventory, L!PutZoneInventory,
      H!PutTotals, L!PutTotals, H!PutHistory, L!PutHistory, H!Reconcile,
      L!Reconcile, H!OneLine, L!OneLine, H!Change, L!Change, H!ProductsOf,
      L!ProductsOf, H!Ok, L!Ok, H!Validation, L!Validation, H!Processing,
      L!Processing, H!Keys, L!Keys, H!SumOver, L!SumOver, H!Units, L!Units,
      H!MaxOf, L!MaxOf, H!Cardinality, L!Cardinality
<1>1. CASE H!RejectUnstamped(e)
  BY <1>1, Zenon DEF H!RejectUnstamped, L!Handle, L!RejectUnstamped
<1>2. CASE H!StoreFails(e)
  BY <1>2, Zenon DEF H!StoreFails, L!Handle, L!StoreFails
<1>3. CASE H!SkipDuplicate(e)
  BY <1>3, Zenon DEF H!SkipDuplicate, L!Handle, L!SkipDuplicate
<1>4. CASE H!RejectUnknown(e)
  BY <1>4, Zenon DEF H!RejectUnknown, L!Handle, L!RejectUnknown
<1>5. CASE H!HandleProductReceived(e)
  <2>1. L!HandleProductReceived(e)
    BY <1>5, ZenonT(30) DEF H!HandleProductReceived, L!HandleProductReceived
  <2> QED BY <2>1, Zenon DEF L!Handle
<1>6. CASE H!HandleProductShipped(e)
  <2>1. L!HandleProductShipped(e)
    BY <1>6, ZenonT(30) DEF H!HandleProductShipped, L!HandleProductShipped
  <2> QED BY <2>1, Zenon DEF L!Handle
<1>7. CASE H!HandleProductMoved(e)
  <2>1. L!HandleProductMoved(e)
    BY <1>7, ZenonT(30) DEF H!HandleProductMoved, L!HandleProductMoved
  <2> QED BY <2>1, Zenon DEF L!Handle
<1>8. CASE H!HandleProductReserved(e)
  <2>1. L!HandleProductReserved(e)
    BY <1>8, ZenonT(30) DEF H!HandleProductReserved, L!HandleProductReserved
  <2> QED BY <2>1, Zenon DEF L!Handle
<1>9. CASE H!HandleProductReleased(e)
  <2>1. L!HandleProductReleased(e)
    BY <1>9, ZenonT(30) DEF H!HandleProductReleased, L!HandleProductReleased
  <2> QED BY <2>1, Zenon DEF L!Handle
<1>10. CASE H!HandleInventoryCounted(e)
  <2>1. L!HandleInventoryCounted(e)
    BY <1>10, ZenonT(30) DEF H!HandleInventoryCounted, L!HandleInventoryCounted
  <2> QED BY <2>1, Zenon DEF L!Handle
<1>11. CASE H!HandleOrderCreated(e)
  <2>1. L!HandleOrderCreated(e)
    BY <1>11, ZenonT(30) DEF H!HandleOrderCreated, L!HandleOrderCreated
  <2> QED BY <2>1, Zenon DEF L!Handle
<1>12. CASE H!HandleOrderCompleted(e)
  <2>1. L!HandleOrderCompleted(e)
    BY <1>12, ZenonT(30) DEF H!HandleOrderCompleted, L!HandleOrderCompleted
  <2> QED BY <2>1, Zenon DEF L!Handle
<1>13. H!Handle(e)
  OBVIOUS
<1> QED BY <1>1, <1>2, <1>3, <1>4, <1>5, <1>6, <1>7, <1>8, <1>9, <1>10,
        <1>11, <1>12, <1>13, Zenon DEF H!Handle

LEMMA SameAssumptions ==
    ASSUME H!EventsAssumption, H!SetsAssumption
    PROVE  L!EventsAssumption /\ L!SetsAssumption
BY DEF H!EventsAssumption, L!EventsAssumption, H!SetsAssumption,
       L!SetsAssumption, H!Event, L!Event, H!Payload, L!Payload, H!Line,
       L!Line, H!Quantity, L!Quantity, H!IsFiniteSet, L!IsFiniteSet

LEMMA SameTypes == H!TypeOK <=> L!TypeOK
BY DEF H!TypeOK, L!TypeOK, H!Row, L!Row, H!Cells, L!Cells, H!Order, L!Order,
       H!Keys, L!Keys, H!Ok, L!Ok, H!Validation, L!Validation,
       H!Processing, L!Processing

LEMMA SameInit == H!Init <=> L!Init
BY DEF H!Init, L!Init, H!Keys, L!Keys, H!ZeroRow, L!ZeroRow, H!ZeroCells,
       L!ZeroCells, H!NoOrder, L!NoOrder, H!Ok, L!Ok

LEMMA SameBooks == H!Books = L!Books /\ H!Books' = L!Books'
BY DEF H!Books, L!Books, H!Keys, L!Keys

LEMMA SameLedgerInit == H!Ledger!Init <=> L!Ledger!Init
BY SameBooks, Zenon
   DEF H!Ledger!Init, L!Ledger!Init, H!Ledger!Keys, L!Ledger!Keys

LEMMA SamePost == ASSUME NEW id PROVE H!Ledger!Post(id) <=> L!Ledger!Post(id)
BY ZenonT(30)
   DEF H!Books, L!Books, H!Keys, L!Keys, H!Ledger!Post, L!Ledger!Post, H!Ledger!Keys, L!Ledger!Keys,
       H!Ledger!Account, L!Ledger!Account, H!Ledger!Available,
       L!Ledger!Available, H!Ledger!Reserved, L!Ledger!Reserved,
       H!Ledger!Only, L!Ledger!Only, H!Ledger!Receive, L!Ledger!Receive,
       H!Ledger!Ship, L!Ledger!Ship, H!Ledger!Move, L!Ledger!Move,
       H!Ledger!Reserve, L!Ledger!Reserve, H!Ledger!Release,
       L!Ledger!Release, H!Ledger!Recount, L!Ledger!Recount,
       H!Ledger!Consume, L!Ledger!Consume

-----------------------------------------------------------------------------
(* The loop.                                                               *)

Codes == {H!Validation, H!Processing}

Records == [slot : Slot, code : Codes]

\* What TypeOK says of the loop.  An event goes to the DLQ with an error code,
\* which the type of the records needs.
LoopTypeOK ==
    /\ position \in [Partitions -> Nat] /\ committed \in [Partitions -> Nat]
    /\ current \in Slot \cup {None}
    /\ pc \in {"down", "poll", "handle", "dlq", "commit"}
    /\ pc \in {"handle", "dlq", "commit"} => current \in Slot
    /\ pc = "dlq" => err \in Codes
    /\ dlq \subseteq Records /\ late \subseteq Records
    /\ resets \in 0 .. MaxResets /\ failures \in 0 .. MaxFailures
    /\ answered \subseteq Slot /\ abandoned \subseteq Slot

LoopInv == L!StoreInv /\ LoopTypeOK

LEMMA LoopInvTypes == LoopInv => TypeOK
BY SameTypes DEF LoopInv, L!StoreInv, LoopTypeOK, TypeOK, Records, Codes

LEMMA SlotOf ==
    /\ \A p \in Partitions : \A n \in 1 .. Len(Topic[p]) : <<p, n>> \in Slot
    /\ \A s \in Slot : s[1] \in Partitions /\ s[2] \in Nat
    /\ \A s \in Slot : Topic[s[1]][s[2]] \in Events \cup {Undecodable}
<1>1. ASSUME NEW p \in Partitions
      PROVE  /\ DOMAIN Topic[p] = 1 .. Len(Topic[p]) /\ Len(Topic[p]) \in Nat
             /\ \A n \in DOMAIN Topic[p] :
                  Topic[p][n] \in Events \cup {Undecodable}
  BY TopicAssumption
<1>2. \A s : s \in Slot <=> \E p \in Partitions : s \in {p} \X DOMAIN Topic[p]
  BY DEF Slot
<1> QED BY <1>1, <1>2

LEMMA InitLoop ==
    ASSUME H!EventsAssumption, H!SetsAssumption, Init
    PROVE  LoopInv /\ L!Ledger!Init
<1>1. L!EventsAssumption /\ L!SetsAssumption
  BY SameAssumptions
<1>2. L!StoreInv /\ L!Ledger!Init
  BY <1>1, SameInit, L!InitInLedger DEF Init
<1>3. LoopTypeOK
  BY TopicAssumption DEF Init, LoopTypeOK
<1> QED BY <1>2, <1>3 DEF LoopInv

\* A step that is no call of Handle leaves the tables alone.  DecodeFails
\* sets the error code.
LEMMA StoreAlone ==
    ASSUME L!StoreInv, UNCHANGED tables, err' \in {err, H!Processing}
    PROVE  L!StoreInv'
<1>1. L!TypeOK'
  BY DEF tables, L!StoreInv, L!TypeOK, L!Processing, H!Processing
<1>2. L!StockInv'
  BY DEF tables, L!StoreInv, L!StockInv, L!NonNegative, L!TotalsCoverZones,
         L!AvailableIn
<1>3. L!OrdersHaveItems'
  BY DEF tables, L!StoreInv, L!OrdersHaveItems
<1> QED BY <1>1, <1>2, <1>3 DEF L!StoreInv

\* One step of the consumer: the handler's invariant and the loop's types are
\* kept, and the books are posted to or left alone.
LEMMA LoopStep ==
    ASSUME H!EventsAssumption, H!SetsAssumption, LoopInv, [Next]_vars
    PROVE  LoopInv' /\ [L!Ledger!Next]_<<L!Books, processed>>
<1> USE DEF LoopInv
<1>0. L!EventsAssumption /\ L!SetsAssumption
  BY SameAssumptions
<1>1. CASE HandleMessage
  <2>1. Message \in Events
    BY <1>1, SlotOf DEF HandleMessage, Message, LoopTypeOK
  <2>2. L!Handle(Message)
    BY <1>1, SameHandle DEF HandleMessage
  <2>3. /\ L!StoreInv'
        /\ \/ UNCHANGED <<L!Books, processed>>
           \/ Message.id \in EventIds /\ L!Ledger!Post(Message.id)
    BY <1>0, <2>1, <2>2, L!HandleInLedger
  <2>4. L!TypeOK'
    BY <2>3 DEF L!StoreInv
  <2>5. err' \in {H!Ok, H!Validation, H!Processing}
    BY <2>4 DEF L!TypeOK, L!Ok, L!Validation, L!Processing,
                H!Ok, H!Validation, H!Processing
  <2>6. LoopTypeOK'
    BY <1>1, <2>5 DEF HandleMessage, LoopTypeOK, bounds, Codes, Records
  <2> QED BY <2>3, <2>6 DEF L!Ledger!Next
<1>2. CASE UNCHANGED tables /\ err' \in {err, H!Processing} /\ LoopTypeOK'
  <2>1. UNCHANGED <<L!Books, processed>>
    BY <1>2 DEF tables, L!Books
  <2> QED BY <1>2, <2>1, StoreAlone
<1>3. CASE UNCHANGED vars
  BY <1>2, <1>3 DEF vars, store, tables, bounds, ghosts, LoopTypeOK
<1> USE <1>2 DEF LoopTypeOK, store, bounds, ghosts
<1>4. ASSUME NEW p \in Partitions, Read(p)
      PROVE  UNCHANGED store /\ LoopTypeOK'
  <2>1. position[p] + 1 \in 1 .. Len(Topic[p])
    BY <1>4, TopicAssumption DEF Read
  <2>2. current' \in Slot
    BY <1>4, <2>1, SlotOf DEF Read
  <2> QED BY <1>4, <2>2 DEF Read
<1>5. CASE DecodeFails
  BY <1>5 DEF DecodeFails, Codes
<1>6. CASE DlqDelivered \/ DlqFails \/ DlqTimesOut
  <2>1. Record \in Records /\ current \in Slot
    BY <1>6 DEF DlqDelivered, DlqFails, DlqTimesOut, Record, Records
  <2>2. UNCHANGED store /\ LoopTypeOK'
    BY <1>6, <2>1, TopicAssumption DEF DlqDelivered, DlqFails, DlqTimesOut
  <2> QED BY <2>2
<1>7. CASE Commit \/ CommitFails
  <2>1. current[1] \in Partitions /\ current[2] \in Nat
    BY <1>7, SlotOf DEF Commit, CommitFails
  <2>2. committed' \in [Partitions -> Nat]
    BY <1>7, <2>1 DEF Commit, CommitFails
  <2>3. UNCHANGED store /\ failures' \in 0 .. MaxFailures
    BY <1>7, TopicAssumption DEF Commit, CommitFails
  <2> QED BY <1>7, <2>2, <2>3 DEF Commit, CommitFails
<1>8. CASE Crash \/ Start \/ Rejoin
  <2>1. UNCHANGED store /\ LoopTypeOK'
    BY <1>8, TopicAssumption DEF Crash, Start, Rejoin
  <2> QED BY <2>1
<1>9. CASE DeliverLate
  <2>1. UNCHANGED store /\ LoopTypeOK'
    BY <1>9 DEF DeliverLate
  <2> QED BY <2>1
<1> QED BY <1>1, <1>3, <1>4, <1>5, <1>6, <1>7, <1>8, <1>9
        DEF Next, Loop, ReadNothing

\* Every variable of the consumer and of its tables keeps its type, and every
\* record of the DLQ names a message of the topic and an error code.
THEOREM ConsumerTypeCorrect ==
    ASSUME H!EventsAssumption, H!SetsAssumption
    PROVE  Spec => []TypeOK
<1>1. Init => LoopInv
  BY InitLoop
<1>2. LoopInv /\ [Next]_vars => LoopInv'
  BY LoopStep
<1> QED BY <1>1, <1>2, LoopInvTypes, PTL DEF Spec

\* The consumer implements the stock ledger.  However often the loop delivers
\* a message, after crashes, rejoins, failed commits and answers that come as
\* errors, an event id posts at most once and the books move in no other way
\* (consumer.go:60-158).
THEOREM ConsumerImplementsLedger ==
    ASSUME H!EventsAssumption, H!SetsAssumption
    PROVE  Spec => LedgerSpec
<1>1. Init => LoopInv /\ H!Ledger!Init
  BY InitLoop, SameLedgerInit
<1>2. LoopInv /\ [Next]_vars =>
        LoopInv' /\ [H!Ledger!Next]_<<H!Books, processed>>
  BY LoopStep, SamePost, SameBooks DEF L!Ledger!Next, H!Ledger!Next
<1> QED BY <1>1, <1>2, PTL DEF Spec, LedgerSpec, H!LedgerSpec, H!Ledger!Spec
=============================================================================
