--------------------------- MODULE ProducerProofs ---------------------------
(***************************************************************************)
(* Theorems about Producer, for all flags, partitions and bounds: whatever  *)
(* librdkafka and the broker do, the command says it published what the     *)
(* topic holds.                                                            *)
(***************************************************************************)
EXTENDS Producer, FiniteSetTheorems, SequenceTheorems, TLAPS

\* The count flag of every invocation is a number.
FlagsTyped ==
    /\ Len(Invocations) \in Nat
    /\ \A r \in 1 .. Len(Invocations) : Invocations[r].count \in Int

\* The messages of the command's invocations.
Messages == {BuildEvent(r, i) : r \in Nat, i \in Nat}

Has(t, e) == \E p \in Partitions : \E j \in DOMAIN t[p] : t[p][j] = e

\* What main has counted and what it will be told: numbers of messages the
\* loop has produced, and, where a delivery is confirmed, stored.
ReportsTrue ==
    /\ \A i \in waited : i \in 1 .. built /\ Has(topic, BuildEvent(run, i))
    /\ \A j \in DOMAIN delivery :
         delivery[j].stored => Has(topic, BuildEvent(run, delivery[j].number))

\* Nothing is in flight when no invocation runs; the wait begins when the loop
\* has produced all messages.
RunOK ==
    /\ run \in 0 .. Len(Invocations)
    /\ built \in Nat
    /\ queue \in [Partitions -> Seq(1 .. built)]
    /\ delivery \in Seq([number : 1 .. built, stored : BOOLEAN])
    /\ topic \in [Partitions -> Seq(Messages)]
    /\ pc \in {"exited", "loop", "wait"}
    /\ pc = "exited" => \A p \in Partitions : queue[p] = << >>
    /\ pc # "exited" => run > 0 /\ built =< flags.count
    /\ pc = "wait" => built = flags.count

AllStored ==
    \A r \in published : \A i \in Numbers(r) : Has(topic, BuildEvent(r, i))

StoredInv == RunOK /\ ReportsTrue /\ AllStored

LEMMA InitStored == FlagsTyped /\ Init => StoredInv
BY DEF FlagsTyped, Init, StoredInv, RunOK, ReportsTrue, AllStored

\* What is in the topic stays there.
LEMMA TopicGrows ==
    ASSUME FlagsTyped, RunOK, NEW p \in Partitions, queue[p] # << >>, Stored(p)
    PROVE  /\ topic' \in [Partitions -> Seq(Messages)]
           /\ \A e : Has(topic, e) => Has(topic', e)
           /\ Has(topic', BuildEvent(run, Head(queue[p])))
<1> DEFINE e0 == BuildEvent(run, Head(queue[p]))
<1>1. /\ run \in Nat
      /\ Head(queue[p]) \in Nat
      /\ topic \in [Partitions -> Seq(Messages)]
  <2>1. queue[p] \in Seq(1 .. built) /\ built \in Nat
    BY DEF RunOK
  <2>2. Head(queue[p]) \in 1 .. built
    BY <2>1
  <2> QED BY <2>1, <2>2 DEF RunOK, FlagsTyped
<1>2. e0 \in Messages
  BY <1>1 DEF Messages
<1>3. topic' = [topic EXCEPT ![p] = Append(@, e0)]
  BY DEF Stored
<1> HIDE DEF e0
<1>4. topic' \in [Partitions -> Seq(Messages)]
  BY <1>1, <1>2, <1>3
<1>5. \A q \in Partitions : \A j \in DOMAIN topic[q] :
        j \in DOMAIN topic'[q] /\ topic'[q][j] = topic[q][j]
  BY <1>1, <1>2, <1>3
<1>6. /\ Len(topic[p]) + 1 \in DOMAIN topic'[p]
      /\ topic'[p][Len(topic[p]) + 1] = e0
  BY <1>1, <1>2, <1>3
<1>7. \A e : Has(topic, e) => Has(topic', e)
  BY <1>5 DEF Has
<1>8. Has(topic', e0)
  BY <1>6 DEF Has
<1> QED BY <1>4, <1>7, <1>8 DEF e0

\* A step that leaves the topic and the published invocations alone.
LEMMA KeepStored ==
    ASSUME AllStored, UNCHANGED <<topic, published>>
    PROVE  AllStored'
BY DEF AllStored, Has

LEMMA StoredStep ==
    ASSUME FlagsTyped, StoredInv, [Next]_vars
    PROVE  StoredInv'
<1> USE DEF StoredInv
<1>1. CASE UNCHANGED vars
  BY <1>1 DEF vars, bounds, RunOK, ReportsTrue, AllStored, Numbers, flags
<1>2. CASE Start
  <2>1. RunOK'
    BY <1>2 DEF Start, RunOK, FlagsTyped, BadFlags, flags
  <2>2. ReportsTrue'
    BY <1>2 DEF Start, ReportsTrue
  <2> QED BY <1>2, <2>1, <2>2, KeepStored DEF Start
<1>3. CASE BuildAndProduce
  <2>1. RunOK'
    <3>1. built' = built + 1 /\ built \in Nat /\ built' =< flags.count
      BY <1>3 DEF BuildAndProduce, RunOK, FlagsTyped, flags
    <3>2. PICK p : queue' = [queue EXCEPT ![p] = Append(@, built')]
      BY <1>3 DEF BuildAndProduce
    <3>3. queue' \in [Partitions -> Seq(1 .. built')]
      <4>1. queue \in [Partitions -> Seq(1 .. built')]
        <5>1. \A q \in Partitions : queue[q] \in Seq(1 .. built')
          <6>1. 1 .. built \subseteq 1 .. built'
            BY <3>1
          <6>2. \A q \in Partitions : queue[q] \in Seq(1 .. built)
            BY DEF RunOK
          <6> QED BY <6>1, <6>2, SeqMonotonic
        <5> QED BY <5>1 DEF RunOK
      <4>2. built' \in 1 .. built'
        BY <3>1
      <4>3. \A q \in Partitions : /\ queue[q] \in Seq(1 .. built')
                                  /\ Append(queue[q], built') \in Seq(1 .. built')
        BY <4>1, <4>2, AppendProperties
      <4> QED BY <3>2, <4>1, <4>3
    <3>4. delivery' \in Seq([number : 1 .. built', stored : BOOLEAN])
      <4>1. /\ delivery' = delivery
            /\ delivery \in Seq([number : 1 .. built, stored : BOOLEAN])
        BY <1>3 DEF BuildAndProduce, RunOK
      <4>2. [number : 1 .. built, stored : BOOLEAN]
              \subseteq [number : 1 .. built', stored : BOOLEAN]
        BY <3>1
      <4> QED BY <4>1, <4>2, SeqMonotonic
    <3> QED BY <1>3, <3>1, <3>3, <3>4 DEF BuildAndProduce, RunOK, flags
  <2>2. ReportsTrue'
    BY <1>3 DEF BuildAndProduce, ReportsTrue, RunOK
  <2> QED BY <1>3, <2>1, <2>2, KeepStored DEF BuildAndProduce
<1>4. CASE LoopFails
  BY <1>4, KeepStored DEF LoopFails, Exit, RunOK, ReportsTrue
<1>5. CASE LoopEnds
  BY <1>5, KeepStored DEF LoopEnds, RunOK, ReportsTrue, flags
<1>6. CASE ReceiveReport
  <2>1. /\ delivery \in Seq([number : 1 .. built, stored : BOOLEAN])
        /\ delivery # << >> /\ delivery' = Tail(delivery)
        /\ UNCHANGED <<run, built, topic, published>>
    BY <1>6 DEF ReceiveReport, RunOK
  <2>2. /\ delivery' \in Seq([number : 1 .. built, stored : BOOLEAN])
        /\ \A j \in DOMAIN delivery' : /\ j + 1 \in DOMAIN delivery
                                       /\ delivery'[j] = delivery[j + 1]
        /\ 1 \in DOMAIN delivery /\ Head(delivery) = delivery[1]
        /\ Head(delivery).number \in 1 .. built
    <3> DEFINE S == [number : 1 .. built, stored : BOOLEAN]
    <3>1. /\ Tail(delivery) \in Seq(S) /\ Head(delivery) \in S
          /\ Len(Tail(delivery)) = Len(delivery) - 1
          /\ \A j \in 1 .. Len(Tail(delivery)) : Tail(delivery)[j] = delivery[j + 1]
      BY <2>1, HeadTailProperties
    <3>2. /\ Len(delivery) \in Nat \ {0}
          /\ DOMAIN delivery = 1 .. Len(delivery)
          /\ DOMAIN Tail(delivery) = 1 .. Len(Tail(delivery))
      BY <2>1, <3>1, EmptySeq, LenProperties
    <3>3. Head(delivery) = delivery[1]
      BY <2>1
    <3> QED BY <2>1, <3>1, <3>2, <3>3
  <2>3. RunOK'
    <3>1. /\ queue' \in [Partitions -> Seq(1 .. built')]
          /\ pc' = "exited" => \A q \in Partitions : queue'[q] = << >>
      <4>1. CASE UNCHANGED <<pc, queue>>
        BY <2>1, <4>1 DEF RunOK
      <4>2. CASE Exit
        <5>1. << >> \in Seq(1 .. built')
          BY EmptySeq
        <5> QED BY <4>2, <5>1 DEF Exit
      <4> QED BY <1>6, <4>1, <4>2 DEF ReceiveReport
    <3>2. pc' \in {pc, "exited"}
      BY <1>6 DEF ReceiveReport, Exit
    <3>3. delivery' \in Seq([number : 1 .. built', stored : BOOLEAN])
      BY <2>1, <2>2
    <3>4. UNCHANGED <<run, built, topic>>
      BY <2>1
    <3> QED BY <3>1, <3>2, <3>3, <3>4 DEF RunOK, flags
  <2>4. \A i \in waited' : \/ i \in waited
                           \/ i = Head(delivery).number /\ Head(delivery).stored
    BY <1>6 DEF ReceiveReport
  <2>5. ReportsTrue'
    BY <2>1, <2>2, <2>4 DEF ReportsTrue
  <2> QED BY <2>1, <2>3, <2>5, KeepStored
<1>7. CASE TimeOut
  BY <1>7, KeepStored DEF TimeOut, Exit, RunOK, ReportsTrue
<1>8. CASE Announce
  <2>1. RunOK' /\ ReportsTrue'
    BY <1>8 DEF Announce, Exit, RunOK, ReportsTrue
  <2>2. built = flags.count /\ built \in Nat
    BY <1>8 DEF Announce, RunOK
  <2>3. waited \subseteq 1 .. built
    BY DEF ReportsTrue
  <2>4. IsFiniteSet(1 .. built) /\ Cardinality(1 .. built) = built
    <3>1. /\ IsFiniteSet(1 .. built)
          /\ Cardinality(1 .. built) = IF 1 > built THEN 0 ELSE built - 1 + 1
      <4>1. 1 \in Int /\ built \in Int
        BY <2>2
      <4> QED BY <4>1, FS_Interval, Zenon
    <3> QED BY <2>2, <3>1
  <2>5. Cardinality(waited) = Cardinality(1 .. built)
    BY <1>8, <2>2, <2>4 DEF Announce
  <2>6. waited = 1 .. built
    BY <2>3, <2>4, <2>5, FS_Subset
  <2>7. \A i \in Numbers(run) : Has(topic, BuildEvent(run, i))
    BY <2>2, <2>6 DEF ReportsTrue, Numbers, flags
  <2>8. published' = published \cup {run} /\ topic' = topic
    BY <1>8 DEF Announce
  <2>9. AllStored'
    BY <2>7, <2>8 DEF AllStored
  <2> QED BY <2>1, <2>9
<1>9. CASE Broker
  <2>1. PICK p \in Partitions :
          Deliver(p) \/ DeliveryFails(p) \/ LoseAck(p) \/ Delay(p)
    BY <1>9 DEF Broker
  <2>2. queue[p] \in Seq(1 .. built) /\ built \in Nat
    BY DEF RunOK
  <2>3. ASSUME NEW s \in BOOLEAN, queue[p] # << >>, Report(p, s)
        PROVE  /\ queue' \in [Partitions -> Seq(1 .. built)]
               /\ \A q \in Partitions : queue[q] = << >> => queue'[q] = << >>
               /\ delivery' \in Seq([number : 1 .. built, stored : BOOLEAN])
               /\ \A j \in DOMAIN delivery' :
                    \/ j \in DOMAIN delivery /\ delivery'[j] = delivery[j]
                    \/ delivery'[j] = [number |-> Head(queue[p]), stored |-> s]
    <3>1. Head(queue[p]) \in 1 .. built /\ Tail(queue[p]) \in Seq(1 .. built)
      BY <2>2, <2>3, HeadTailProperties
    <3>2. /\ queue \in [Partitions -> Seq(1 .. built)]
          /\ delivery \in Seq([number : 1 .. built, stored : BOOLEAN])
      BY DEF RunOK
    <3>3. queue' = [queue EXCEPT ![p] = Tail(queue[p])]
      BY <2>3 DEF Report
    <3> DEFINE report == [number |-> Head(queue[p]), stored |-> s]
    <3>4. delivery' = Append(delivery, report)
      BY <2>3 DEF Report
    <3>5. report \in [number : 1 .. built, stored : BOOLEAN]
      BY <3>1
    <3> HIDE DEF report
    <3>6. /\ delivery' \in Seq([number : 1 .. built, stored : BOOLEAN])
          /\ \A j \in DOMAIN delivery' :
               \/ j \in DOMAIN delivery /\ delivery'[j] = delivery[j]
               \/ delivery'[j] = report
      BY <3>2, <3>4, <3>5
    <3>7. queue' \in [Partitions -> Seq(1 .. built)]
      BY <3>1, <3>2, <3>3
    <3>8. \A q \in Partitions : queue[q] = << >> => queue'[q] = << >>
      BY <2>3, <3>2, <3>3
    <3> QED BY <3>6, <3>7, <3>8 DEF report
  <2>4. CASE Deliver(p)
    <3>1. /\ queue[p] # << >> /\ Stored(p) /\ Report(p, TRUE)
          /\ UNCHANGED <<run, pc, built, waited, published>>
      BY <2>4 DEF Deliver
    <3>2. RunOK'
      BY <2>3, <3>1, TopicGrows DEF RunOK, flags
    <3>3. ReportsTrue'
      <4>1. /\ \A f : Has(topic, f) => Has(topic', f)
            /\ Has(topic', BuildEvent(run, Head(queue[p])))
        BY <3>1, TopicGrows
      <4>2. \A j \in DOMAIN delivery' :
              \/ j \in DOMAIN delivery /\ delivery'[j] = delivery[j]
              \/ delivery'[j] = [number |-> Head(queue[p]), stored |-> TRUE]
        BY <2>3, <3>1
      <4>3. \A j \in DOMAIN delivery' : delivery'[j].stored =>
              Has(topic', BuildEvent(run, delivery'[j].number))
        BY <4>1, <4>2 DEF ReportsTrue
      <4>4. \A i \in waited : i \in 1 .. built /\ Has(topic', BuildEvent(run, i))
        BY <4>1 DEF ReportsTrue
      <4> QED BY <3>1, <4>3, <4>4 DEF ReportsTrue
    <3>4. AllStored'
      BY <3>1, TopicGrows DEF AllStored
    <3> QED BY <3>2, <3>3, <3>4
  <2>5. CASE DeliveryFails(p)
    <3>1. /\ queue[p] # << >> /\ Report(p, FALSE)
          /\ UNCHANGED <<run, pc, built, waited, topic, published>>
      BY <2>5 DEF DeliveryFails
    <3>2. RunOK'
      BY <2>3, <3>1 DEF RunOK, flags
    <3>3. ReportsTrue'
      <4>1. \A j \in DOMAIN delivery' :
              \/ j \in DOMAIN delivery /\ delivery'[j] = delivery[j]
              \/ delivery'[j] = [number |-> Head(queue[p]), stored |-> FALSE]
        BY <2>3, <3>1
      <4>2. \A j \in DOMAIN delivery' : delivery'[j].stored =>
              Has(topic, BuildEvent(run, delivery'[j].number))
        BY <4>1 DEF ReportsTrue
      <4> QED BY <3>1, <4>2 DEF ReportsTrue
    <3> QED BY <3>1, <3>2, <3>3, KeepStored
  <2>6. CASE LoseAck(p)
    <3>1. /\ queue[p] # << >> /\ Stored(p)
          /\ UNCHANGED <<run, pc, built, queue, delivery, waited, published>>
      BY <2>6 DEF LoseAck
    <3>2. RunOK'
      BY <3>1, TopicGrows DEF RunOK, flags
    <3>3. ReportsTrue'
      BY <3>1, TopicGrows DEF ReportsTrue
    <3>4. AllStored'
      BY <3>1, TopicGrows DEF AllStored
    <3> QED BY <3>2, <3>3, <3>4
  <2>7. CASE Delay(p)
    <3>1. /\ Len(queue[p]) > 1
          /\ queue' = [queue EXCEPT ![p] =
               << queue[p][2], queue[p][1] >> \o SubSeq(queue[p], 3, Len(queue[p]))]
          /\ UNCHANGED <<run, pc, built, delivery, waited, topic, published>>
      BY <2>7 DEF Delay
    <3>2. /\ << queue[p][2], queue[p][1] >> \in Seq(1 .. built)
          /\ SubSeq(queue[p], 3, Len(queue[p])) \in Seq(1 .. built)
      BY <2>2, <3>1
    <3>3. queue' \in [Partitions -> Seq(1 .. built)]
      BY <3>1, <3>2 DEF RunOK
    <3>4. pc # "exited"
      BY <2>2, <3>1 DEF RunOK
    <3>5. RunOK'
      BY <3>1, <3>3, <3>4 DEF RunOK, flags
    <3>6. ReportsTrue'
      BY <3>1 DEF ReportsTrue
    <3> QED BY <3>1, <3>5, <3>6, KeepStored
  <2> QED BY <2>1, <2>4, <2>5, <2>6, <2>7
<1> QED BY <1>1, <1>2, <1>3, <1>4, <1>5, <1>6, <1>7, <1>8, <1>9
        DEF Next, Main

\* An invocation that says it published n events has n events in the topic,
\* whatever was retried, refused, delayed or lost.
THEOREM PublishedIsStored ==
    ASSUME FlagsTyped
    PROVE  Spec => []PublishedStored
<1>1. StoredInv => PublishedStored
  BY DEF StoredInv, AllStored, Has, PublishedStored, InTopic
<1> QED BY <1>1, InitStored, StoredStep, PTL DEF Spec
=============================================================================
