---------------------------- MODULE MetricsProofs ----------------------------
(***************************************************************************)
(* Theorems about Metrics, for every topic and every number of restarts and *)
(* failures: what the lag gauges and the counters show is no less, and no    *)
(* more, than what the loop did.                                            *)
(***************************************************************************)
EXTENDS Metrics, TLAPS

Busy == {"handle", "dlq", "commit"}

\* The running loop has read what it has committed, and works on the message
\* it read last (OffsetsOK in ConsumerProofs).
OffsetsOK ==
    /\ position \in [Partitions -> Nat]
    /\ committed \in [Partitions -> Nat]
    /\ pc \in Busy =>
         /\ current[1] \in Partitions /\ current[2] = position[current[1]]
    /\ pc # "down" => \A p \in Partitions : committed[p] =< position[p]

\* While the tracker goes from partition to partition the committed offsets it
\* knows may become old, and too small, but never too large; so an answer that
\* waits to be shown is no less above them than above the ones of its moment.
TrackerOK ==
    /\ high \in [Partitions -> Nat]
    /\ left \subseteq Partitions
    /\ left # {} => /\ asked \in [Partitions -> Nat]
                    /\ \A p \in Partitions : asked[p] =< committed[p]
    /\ answer # None =>
         /\ answer.partition \in left
         /\ answer.high \in Nat /\ answer.lag \in Int
         /\ answer.lag =< answer.high - asked[answer.partition]

\* A gauge for every partition.
GaugesOK == DOMAIN ConsumerLag = Partitions

LagInv == OffsetsOK /\ TrackerOK /\ GaugesOK

\* A message goes to the DLQ with an error code.
CodesOK ==
    /\ pc = "dlq" => err \in Codes
    /\ failures \in Nat
    /\ CassandraWriteErrorsTotal \in Nat
    /\ DLQEventsTotal \in [Codes -> Nat]

CountersInv == CodesOK /\ CountersTrue

-----------------------------------------------------------------------------
(* The loop.                                                               *)

\* The steps of the metrics are steps of the consumer, or none of its.
LEMMA ConsumerStep ==
    ASSUME [Next]_vars
    PROVE  [C!Next]_(C!vars)
<1>1. CASE Loop
  BY <1>1 DEF Loop, Work, HandleMessage, Report, C!Next, C!Loop
<1>2. CASE Other \/ Crash \/ Start
  BY <1>2 DEF Other, Crash, Start, C!Next
<1>3. CASE UNCHANGED consumer
  BY <1>3 DEF consumer, store, C!vars, C!store, C!tables, C!bounds, C!ghosts
<1>4. ASSUME TrackLag \/ UNCHANGED vars \/ \E p \in Partitions : Publish(p)
      PROVE  UNCHANGED consumer
  BY <1>4 DEF TrackLag, AskCommitted, AnswerQuery, SetLag, QueryFails, Publish,
              vars
<1> QED BY <1>1, <1>2, <1>3, <1>4 DEF Next

LEMMA OffsetsStep ==
    ASSUME OffsetsOK, [C!Next]_(C!vars)
    PROVE  /\ OffsetsOK'
           /\ \A p \in Partitions : committed'[p] >= committed[p]
<1> USE DEF OffsetsOK, Busy
<1>1. CASE UNCHANGED <<position, committed, current>>
           /\ (pc' \in Busy => pc \in Busy) /\ (pc' # "down" => pc # "down")
  BY <1>1
<1>2. CASE UNCHANGED C!vars \/ C!ReadNothing
  BY <1>1, <1>2 DEF C!vars, C!ReadNothing
<1>3. ASSUME NEW p \in Partitions, C!Read(p)
      PROVE  /\ OffsetsOK'
             /\ \A q \in Partitions : committed'[q] >= committed[q]
  BY <1>3 DEF C!Read
<1>4. CASE C!DecodeFails \/ C!HandleMessage
  BY <1>1, <1>4 DEF C!DecodeFails, C!HandleMessage
<1>5. CASE C!DlqDelivered \/ C!DlqFails \/ C!DlqTimesOut
  BY <1>1, <1>5 DEF C!DlqDelivered, C!DlqFails, C!DlqTimesOut
<1>6. CASE C!Commit \/ C!CommitFails
  <2>1. /\ UNCHANGED <<position, current>>
        /\ pc = "commit" /\ pc' = "poll"
        /\ committed' \in {committed,
                           [committed EXCEPT ![current[1]] = current[2]]}
    BY <1>6 DEF C!Commit, C!CommitFails
  <2> QED BY <2>1
<1>7. CASE C!Crash
  BY <1>7 DEF C!Crash
<1>8. CASE C!Start \/ C!Rejoin
  <2>1. UNCHANGED committed /\ position' = committed /\ pc' = "poll"
    BY <1>8 DEF C!Start, C!Rejoin
  <2> QED BY <2>1
<1>9. CASE C!DeliverLate
  BY <1>1, <1>9 DEF C!DeliverLate
<1> QED BY <1>2, <1>3, <1>4, <1>5, <1>6, <1>7, <1>8, <1>9 DEF C!Next, C!Loop

-----------------------------------------------------------------------------
(* The gauges.                                                             *)

LEMMA InitLag == Init => LagInv
BY DEF Init, C!Init, Fresh, LagInv, OffsetsOK, TrackerOK, GaugesOK, Busy

LEMMA LagStep ==
    ASSUME LagInv, [Next]_vars
    PROVE  LagInv'
<1> USE DEF LagInv
<1>1. /\ OffsetsOK'
      /\ \A p \in Partitions : committed'[p] >= committed[p]
  BY ConsumerStep, OffsetsStep
<1>2. committed \in [Partitions -> Nat] /\ committed' \in [Partitions -> Nat]
  BY <1>1 DEF OffsetsOK
<1>3. ASSUME UNCHANGED <<high, tracker>>
      PROVE  TrackerOK'
  <2>1. ASSUME asked \in [Partitions -> Nat], NEW p \in Partitions,
               asked[p] =< committed[p]
        PROVE  asked[p] =< committed'[p]
    BY <1>1, <1>2, <2>1
  <2> QED BY <1>3, <2>1 DEF TrackerOK, tracker
<1>4. CASE Loop \/ Other \/ Start \/ UNCHANGED vars
  <2>1. UNCHANGED <<high, ConsumerLag, tracker>>
    BY <1>4 DEF Loop, Other, Start, vars
  <2> QED BY <1>1, <1>3, <2>1 DEF GaugesOK
<1>5. CASE Crash
  BY <1>1, <1>5 DEF Crash, Fresh, TrackerOK, GaugesOK
<1>6. ASSUME NEW p \in Partitions, Publish(p)
      PROVE  LagInv'
  <2>1. high' \in [Partitions -> Nat]
    BY <1>6 DEF Publish, TrackerOK
  <2>2. UNCHANGED <<committed, ConsumerLag, tracker>>
    BY <1>6 DEF Publish, consumer
  <2> QED BY <1>1, <2>1, <2>2 DEF TrackerOK, GaugesOK, tracker
<1>7. CASE AskCommitted
  <2>1. \A p \in Partitions : committed[p] =< committed[p]
    BY <1>2
  <2>2. answer' = answer /\ asked' = committed /\ left' = Partitions
    BY <1>7 DEF AskCommitted
  <2>3. UNCHANGED <<high, ConsumerLag, committed>>
    BY <1>7 DEF AskCommitted, consumer
  <2>4. answer = None
    BY <1>7 DEF AskCommitted, TrackerOK
  <2> QED BY <1>1, <1>2, <2>1, <2>2, <2>3, <2>4 DEF TrackerOK, GaugesOK
<1>8. ASSUME NEW p \in Partitions, AnswerQuery(p)
      PROVE  LagInv'
  <2>1. /\ p \in left
        /\ answer' = [partition |-> p, high |-> high[p], lag |-> RealLag(p)]
        /\ UNCHANGED <<high, ConsumerLag, asked, left, committed>>
    BY <1>8 DEF AnswerQuery, Turn, consumer
  <2>2. /\ high[p] \in Nat /\ committed[p] \in Nat /\ asked[p] \in Nat
        /\ asked[p] =< committed[p]
    BY <1>2, <2>1 DEF TrackerOK
  <2>3. RealLag(p) \in Int /\ RealLag(p) =< high[p] - asked[p]
    BY <2>2 DEF RealLag
  <2> QED BY <1>1, <2>1, <2>2, <2>3 DEF TrackerOK, GaugesOK
<1>9. ASSUME SetLag \/ \E p \in Partitions : QueryFails(p)
      PROVE  LagInv'
  <2>1. /\ left # {} /\ left' \subseteq left /\ (left' # {} => asked' = asked)
        /\ answer' = None
        /\ UNCHANGED <<high, committed>>
        /\ DOMAIN ConsumerLag' = DOMAIN ConsumerLag
    BY <1>9 DEF SetLag, QueryFails, Leave, Turn, consumer
  <2> QED BY <1>1, <2>1 DEF TrackerOK, GaugesOK
<1> QED BY <1>4, <1>5, <1>6, <1>7, <1>8, <1>9 DEF Next, TrackLag

LEMMA GaugeStep ==
    ASSUME LagInv, [Next]_vars, answer # None, answer' = None, pc' # "down"
    PROVE  ConsumerLag'[answer.partition] >= answer.lag
<1>1. ~Crash
  BY DEF Crash, C!Crash
<1>2. SetLag
  BY <1>1 DEF Next, Loop, Other, Start, Publish, TrackLag, AskCommitted,
              AnswerQuery, QueryFails, tracker, vars
<1> DEFINE p == answer.partition
<1>3. ConsumerLag' = [ConsumerLag EXCEPT ![p] = Lag(answer.high, asked[p])]
  BY <1>2 DEF SetLag
<1>4. /\ p \in Partitions
      /\ answer.high \in Nat /\ answer.lag \in Int /\ asked[p] \in Nat
      /\ answer.lag =< answer.high - asked[p]
  BY DEF LagInv, TrackerOK
<1>5. ConsumerLag'[p] = Lag(answer.high, asked[p])
  BY <1>3, <1>4 DEF LagInv, GaugesOK
<1> HIDE DEF p
<1> QED BY <1>4, <1>5 DEF Lag, p

\* A gauge that is set shows no less than the lag its partition had when the
\* broker answered for its watermark, whatever is read, committed and
\* published around the tracker's two queries (metrics.go:67-81).
THEOREM LagNotUnderstated == Spec => NeverUnderstated
<1>1. LagInv /\ [Next]_vars => LagInv'
  BY LagStep
<1>2. LagInv /\ [Next]_vars =>
        [answer # None /\ answer' = None /\ pc' # "down"
           => ConsumerLag'[answer.partition] >= answer.lag]_vars
  BY GaugeStep
<1> QED BY <1>1, <1>2, InitLag, PTL DEF Spec, NeverUnderstated

-----------------------------------------------------------------------------
(* The counters.                                                           *)

\* Handle returns nil or an error with one of the codes.
LEMMA HandleCodes ==
    ASSUME NEW e, C!H!Handle(e)
    PROVE  err' \in Codes \cup {C!H!Ok}
<1> USE DEF Codes, C!H!Return
<1>1. CASE \/ C!H!RejectUnstamped(e) \/ C!H!StoreFails(e)
           \/ C!H!SkipDuplicate(e) \/ C!H!RejectUnknown(e)
  BY <1>1 DEF C!H!RejectUnstamped, C!H!StoreFails, C!H!SkipDuplicate,
              C!H!RejectUnknown
<1>2. ASSUME NEW lines, NEW supplier, NEW summed, NEW newOrders,
             C!H!ExecBatch(e, lines, supplier, summed, newOrders)
      PROVE  err' \in Codes \cup {C!H!Ok}
  BY <1>2 DEF C!H!ExecBatch
<1>3. ASSUME NEW valid, NEW old, NEW short, C!H!Decline(valid, old, short)
      PROVE  err' \in Codes \cup {C!H!Ok}
  BY <1>3 DEF C!H!Decline
<1>4. ASSUME NEW valid, NEW short, NEW a, NEW r, NEW supplier, NEW summed,
             C!H!OneRow(e, valid, short, a, r, supplier, summed)
      PROVE  err' \in Codes \cup {C!H!Ok}
  BY <1>2, <1>3, <1>4 DEF C!H!OneRow, C!H!Checked
<1>5. CASE \/ C!H!HandleProductReceived(e) \/ C!H!HandleProductShipped(e)
           \/ C!H!HandleProductReserved(e) \/ C!H!HandleProductReleased(e)
           \/ C!H!HandleInventoryCounted(e)
  BY <1>4, <1>5
     DEF C!H!HandleProductReceived, C!H!HandleProductShipped,
         C!H!HandleProductReserved, C!H!HandleProductReleased,
         C!H!HandleInventoryCounted, C!H!Count
<1>6. CASE C!H!HandleProductMoved(e)
  BY <1>2, <1>3, <1>6 DEF C!H!HandleProductMoved, C!H!MoveBetween, C!H!Checked
<1>7. CASE C!H!HandleOrderCreated(e)
  BY <1>2, <1>3, <1>7 DEF C!H!HandleOrderCreated, C!H!Checked
<1>8. CASE C!H!HandleOrderCompleted(e)
  BY <1>2, <1>3, <1>8 DEF C!H!HandleOrderCompleted, C!H!CompleteOrder,
                          C!H!Checked
<1> QED BY <1>1, <1>5, <1>6, <1>7, <1>8 DEF C!H!Handle

LEMMA InitCounters == Init => CountersInv
<1> SUFFICES ASSUME Init PROVE CountersInv
  OBVIOUS
<1>1. DLQEventsTotal = [c \in Codes |-> 0] /\ CassandraWriteErrorsTotal = 0
  BY DEF Init, Fresh
<1>2. pc = "poll" /\ failures = 0
  BY DEF Init, C!Init
<1>3. CodesOK
  BY <1>1, <1>2 DEF CodesOK
<1>4. CountersTrue
  BY <1>1, <1>2 DEF CountersTrue, Codes
<1> QED BY <1>3, <1>4 DEF CountersInv

\* A loop step that counts nothing moves an error towards the DLQ, or ends
\* with a failure.
LEMMA UncountedStep ==
    ASSUME CountersInv, UNCHANGED counters, dlq \subseteq dlq',
           \/ pc' # "dlq" /\ pc # "dlq" /\ failures' = failures
           \/ pc' = pc /\ err' = err /\ failures' = failures
           \/ pc' = "dlq" /\ pc # "dlq" /\ err' \in Codes /\ failures' = failures
           \/ pc' # "dlq" /\ failures' = failures + 1
    PROVE  CountersInv'
<1>1. CodesOK'
  BY DEF CountersInv, CodesOK, counters
<1>2. /\ DLQEventsTotal[C!H!Validation] \in Nat
      /\ DLQEventsTotal[C!H!Processing] \in Nat
      /\ failures \in Nat /\ CassandraWriteErrorsTotal \in Nat
  BY DEF CountersInv, CodesOK, Codes
<1>3. CountersTrue'
  BY <1>2 DEF CountersInv, CountersTrue, counters
<1> QED BY <1>1, <1>3 DEF CountersInv

LEMMA CountersStep ==
    ASSUME CountersInv, [Next]_vars
    PROVE  CountersInv'
<1>0. /\ DLQEventsTotal[C!H!Validation] \in Nat
      /\ DLQEventsTotal[C!H!Processing] \in Nat
      /\ failures \in Nat /\ CassandraWriteErrorsTotal \in Nat
      /\ DLQEventsTotal \in [Codes -> Nat]
  BY DEF CountersInv, CodesOK, Codes
<1>1. CASE HandleMessage
  <2>1. /\ pc = "handle" /\ UNCHANGED <<dlq, failures, DLQEventsTotal>>
        /\ \/ /\ err' = C!H!Ok /\ pc' = "commit"
              /\ CassandraWriteErrorsTotal' = CassandraWriteErrorsTotal
           \/ /\ err' # C!H!Ok /\ pc' = "dlq"
              /\ CassandraWriteErrorsTotal' = CassandraWriteErrorsTotal + 1
    BY <1>1 DEF HandleMessage, C!HandleMessage, C!bounds
  <2>2. err' \in Codes \cup {C!H!Ok}
    BY <1>1, HandleCodes DEF HandleMessage, C!HandleMessage
  <2>3. CodesOK'
    BY <1>0, <2>1, <2>2 DEF CodesOK
  <2>4. CountersTrue'
    BY <1>0, <2>1 DEF CountersInv, CountersTrue
  <2> QED BY <2>3, <2>4 DEF CountersInv
<1>2. CASE Report
  <2>1. /\ pc = "dlq" /\ pc' = "commit" /\ UNCHANGED <<failures, err>>
        /\ dlq' = dlq \cup {C!Record} /\ C!Record.code = err
        /\ UNCHANGED CassandraWriteErrorsTotal
        /\ DLQEventsTotal' = [DLQEventsTotal EXCEPT ![err] = @ + 1]
    BY <1>2 DEF Report, CountDlq, C!DlqDelivered, C!Record, C!store, C!bounds
  <2>2. err \in Codes
    BY <2>1 DEF CountersInv, CodesOK
  <2>3. CodesOK'
    BY <1>0, <2>1, <2>2 DEF CodesOK
  <2>4. ASSUME NEW c \in Codes, DLQEventsTotal'[c] > 0
        PROVE  \E r \in dlq' : r.code = c
    <3>1. CASE c = err
      BY <2>1, <3>1
    <3>2. CASE c # err
      BY <1>0, <2>1, <2>4, <3>2 DEF CountersInv, CountersTrue
    <3> QED BY <3>1, <3>2
  <2>5. DLQEventsTotal'[C!H!Validation] + DLQEventsTotal'[C!H!Processing]
          >= DLQEventsTotal[C!H!Validation] + DLQEventsTotal[C!H!Processing] + 1
    BY <1>0, <2>1, <2>2 DEF Codes
  <2>6. /\ DLQEventsTotal'[C!H!Validation] \in Nat
        /\ DLQEventsTotal'[C!H!Processing] \in Nat
    BY <2>3 DEF CodesOK, Codes
  <2>7. CountersTrue'
    BY <1>0, <2>1, <2>4, <2>5, <2>6 DEF CountersInv, CountersTrue
  <2> QED BY <2>3, <2>7 DEF CountersInv
<1>3. CASE Work
  <2>1. UNCHANGED counters
    BY <1>3 DEF Work
  <2>2. ASSUME NEW p \in Partitions, C!Read(p)
        PROVE  CountersInv'
    BY <2>1, <2>2, UncountedStep DEF C!Read, C!bounds
  <2>3. CASE C!DecodeFails
    BY <2>1, <2>3, UncountedStep DEF C!DecodeFails, C!bounds, Codes
  <2>4. CASE C!DlqFails \/ C!DlqTimesOut
    BY <2>1, <2>4, UncountedStep DEF C!DlqFails, C!DlqTimesOut
  <2>5. CASE C!Commit \/ C!CommitFails
    BY <2>1, <2>5, UncountedStep DEF C!Commit, C!CommitFails, C!bounds
  <2> QED BY <1>3, <2>2, <2>3, <2>4, <2>5 DEF Work
<1>4. CASE Other \/ Start
  <2>1. UNCHANGED counters
    BY <1>4 DEF Other, Start
  <2>2. CASE C!ReadNothing \/ C!Rejoin \/ C!DeliverLate \/ C!Start
    <3>1. /\ UNCHANGED <<err, failures>> /\ dlq \subseteq dlq'
          /\ pc' = pc \/ (pc = "down" /\ pc' = "poll")
      BY <2>2 DEF C!ReadNothing, C!Rejoin, C!DeliverLate, C!Start, C!vars,
                  C!store, C!bounds
    <3> QED BY <2>1, <3>1, UncountedStep
  <2> QED BY <1>4, <2>2 DEF Other, Start
<1>5. CASE Crash
  <2>1. /\ pc' = "down" /\ failures' = failures
        /\ CassandraWriteErrorsTotal' = 0
        /\ DLQEventsTotal' = [c \in Codes |-> 0]
    BY <1>5 DEF Crash, C!Crash, Fresh
  <2>2. CodesOK'
    BY <1>0, <2>1 DEF CodesOK
  <2>3. /\ DLQEventsTotal'[C!H!Validation] = 0
        /\ DLQEventsTotal'[C!H!Processing] = 0
    BY <2>1 DEF Codes
  <2>4. CountersTrue'
    BY <1>0, <2>1, <2>3 DEF CountersTrue
  <2> QED BY <2>2, <2>4 DEF CountersInv
<1>6. CASE TrackLag \/ UNCHANGED vars \/ \E p \in Partitions : Publish(p)
  <2>1. UNCHANGED <<consumer, counters>>
    BY <1>6 DEF TrackLag, AskCommitted, AnswerQuery, SetLag, QueryFails,
                Publish, vars
  <2> QED BY <2>1, UncountedStep DEF consumer, store
<1> QED BY <1>1, <1>2, <1>3, <1>4, <1>5, <1>6 DEF Next, Loop

\* What the counters of a process say of the DLQ is there, and every error
\* that was counted is in the DLQ, on its way, or its send failed
\* (consumer.go:122-125, 150-154).
THEOREM CountersAlwaysTrue == Spec => []CountersTrue
<1>1. CountersInv /\ [Next]_vars => CountersInv'
  BY CountersStep
<1>2. CountersInv => CountersTrue
  BY DEF CountersInv
<1> QED BY <1>1, <1>2, InitCounters, PTL DEF Spec
=============================================================================
