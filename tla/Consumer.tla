------------------------------ MODULE Consumer ------------------------------
(***************************************************************************)
(* The consumer process (internal/kafka/consumer.go, dlq.go, and main.go   *)
(* of warehouse-consumer) between the topic warehouse-events, the handler  *)
(* and the topic warehouse-events-dlq.                                     *)
(*                                                                         *)
(* It is one goroutine: it reads a message, handles it, reports a failure  *)
(* to the DLQ and commits the offset.  A crash may come between any two of *)
(* these; the container is restarted (docker-compose.yml:164) and reads on *)
(* from the committed offsets.  Offsets are counted from 1 here, so that   *)
(* committed[p] is the number of messages of p the group has committed.    *)
(***************************************************************************)
EXTENDS Integers, FiniteSets, Sequences

CONSTANTS
    Products, Zones, Orders, EventIds, Suppliers, None, Events,
    Partitions,   \* the partitions of warehouse-events
    Undecodable,  \* a message value that is no WarehouseEvent
    Topic,        \* the messages of each partition
    MaxResets,    \* bound: crashes and rejoins of the group
    MaxFailures   \* bound: failed sends to the DLQ and failed commits

VARIABLES
    inventory, byZone, totals, orders, processed, history, err,
    position,   \* the consumer's position in each partition, in its memory
    committed,  \* the committed offset of each partition, at the broker
    current,    \* the message the loop works on
    pc,         \* what the loop does next
    dlq,        \* the records of warehouse-events-dlq
    late,       \* DLQ records the consumer gave up waiting for
    resets, failures,       \* counters for the bounds
    answered, abandoned     \* ghosts: messages Handle returned nil for, and
                            \* messages dropped with a log line alone

H == INSTANCE Handler

tables == <<inventory, byZone, totals, orders, processed, history>>
store  == <<tables, err>>
bounds == <<resets, failures>>
ghosts == <<answered, abandoned>>
vars   == <<store, position, committed, current, pc, dlq, late, bounds, ghosts>>

Slot == UNION {{p} \X DOMAIN Topic[p] : p \in Partitions}

ASSUME TopicAssumption ==
    /\ IsFiniteSet(Partitions)
    /\ Topic \in [Partitions -> Seq(Events \cup {Undecodable})]
    /\ None \notin Slot
    /\ MaxResets \in Nat /\ MaxFailures \in Nat

Message == Topic[current[1]][current[2]]

\* A DLQ record carries the partition and offset of its message and the code.
Record == [slot |-> current, code |-> err]

Init ==
    /\ H!Init
    /\ position = [p \in Partitions |-> 0]
    /\ committed = [p \in Partitions |-> 0]    \* auto.offset.reset: earliest
    /\ current = None
    /\ pc = "poll"
    /\ dlq = {} /\ late = {}
    /\ resets = 0 /\ failures = 0
    /\ answered = {} /\ abandoned = {}

-----------------------------------------------------------------------------
(* The loop.                                                               *)

\* Mutant of Read: the offset is committed when the message is read.
ReadAutoCommits(p) ==
    /\ pc = "poll"
    /\ position[p] < Len(Topic[p])
    /\ position' = [position EXCEPT ![p] = @ + 1]
    /\ committed' = [committed EXCEPT ![p] = position[p] + 1]
    /\ current' = <<p, position[p] + 1>>
    /\ pc' = "handle"
    /\ UNCHANGED <<store, dlq, late, bounds, ghosts>>

\* Mutant of Read: the end of the partition is passed.
ReadPastEnd(p) ==
    /\ pc = "poll"
    /\ position[p] =< Len(Topic[p])
    /\ position' = [position EXCEPT ![p] = @ + 1]
    /\ current' = <<p, position[p] + 1>>
    /\ pc' = "handle"
    /\ UNCHANGED <<store, committed, dlq, late, bounds, ghosts>>

\* ReadMessage returns the next message of some partition.
Read(p) ==
    /\ pc = "poll"
    /\ position[p] < Len(Topic[p])
    /\ position' = [position EXCEPT ![p] = @ + 1]
    /\ current' = <<p, position[p] + 1>>
    /\ pc' = "handle"
    /\ UNCHANGED <<store, committed, dlq, late, bounds, ghosts>>

\* ReadMessage times out, or fails and is logged.
ReadNothing == pc = "poll" /\ UNCHANGED vars

\* The value is no WarehouseEvent, or Schema Registry does not answer.
DecodeFails ==
    /\ pc = "handle"
    /\ err' = H!Processing
    /\ pc' = "dlq"
    /\ UNCHANGED <<tables, position, committed, current, dlq, late, bounds,
                   ghosts>>

\* Mutant of HandleMessage: a failed event is committed and not reported.
HandleAndCommit ==
    /\ pc = "handle"
    /\ Message # Undecodable
    /\ H!Handle(Message)
    /\ pc' = "commit"
    /\ answered' = IF err' = H!Ok THEN answered \cup {current} ELSE answered
    /\ UNCHANGED <<position, committed, current, dlq, late, bounds, abandoned>>

HandleMessage ==
    /\ pc = "handle"
    /\ Message # Undecodable
    /\ H!Handle(Message)
    /\ \/ /\ err' = H!Ok
          /\ pc' = "commit"
          /\ answered' = answered \cup {current}
       \/ /\ err' # H!Ok
          /\ pc' = "dlq"
          /\ UNCHANGED answered
    /\ UNCHANGED <<position, committed, current, dlq, late, bounds, abandoned>>

\* Mutant of DlqDelivered: the offset of a reported message is not committed.
DlqDeliveredOnly ==
    /\ pc = "dlq"
    /\ dlq' = dlq \cup {Record}
    /\ pc' = "poll"
    /\ UNCHANGED <<store, position, committed, current, late, bounds, ghosts>>

\* The delivery report of the DLQ record arrives without an error.
DlqDelivered ==
    /\ pc = "dlq"
    /\ dlq' = dlq \cup {Record}
    /\ pc' = "commit"
    /\ UNCHANGED <<store, position, committed, current, late, bounds, ghosts>>

\* Produce or the delivery report fails; the record may be written all the
\* same.  The failure is logged and the loop goes on without a commit.
DlqFails ==
    /\ pc = "dlq"
    /\ failures < MaxFailures
    /\ failures' = failures + 1
    /\ dlq' \in {dlq, dlq \cup {Record}}
    /\ abandoned' = abandoned \cup {current}
    /\ pc' = "poll"
    /\ UNCHANGED <<store, position, committed, current, late, resets, answered>>

\* No delivery report within 10 seconds: the record stays with the producer.
DlqTimesOut ==
    /\ pc = "dlq"
    /\ failures < MaxFailures
    /\ failures' = failures + 1
    /\ late' = late \cup {Record}
    /\ abandoned' = abandoned \cup {current}
    /\ pc' = "poll"
    /\ UNCHANGED <<store, position, committed, current, dlq, resets, answered>>

\* CommitMessage commits the offset after the message's own.
Commit ==
    /\ pc = "commit"
    /\ committed' = [committed EXCEPT ![current[1]] = current[2]]
    /\ pc' = "poll"
    /\ UNCHANGED <<store, position, current, dlq, late, bounds, ghosts>>

\* The failure is logged and the loop goes on; the commit may have been made.
CommitFails ==
    /\ pc = "commit"
    /\ failures < MaxFailures
    /\ failures' = failures + 1
    /\ committed' \in {committed,
                       [committed EXCEPT ![current[1]] = current[2]]}
    /\ pc' = "poll"
    /\ UNCHANGED <<store, position, current, dlq, late, resets, ghosts>>

-----------------------------------------------------------------------------
(* The process and its group.                                              *)

\* The process ends: killed between two steps, or told to stop, which ends
\* the loop at its next turn.  Close does not flush the DLQ producer.
Crash ==
    /\ pc # "down"
    /\ resets < MaxResets
    /\ resets' = resets + 1
    /\ pc' = "down"
    /\ current' = None
    /\ late' = {}
    /\ UNCHANGED <<store, position, committed, dlq, failures, ghosts>>

\* Mutant of Start: the group's offsets are ignored.
StartFromEarliest ==
    /\ pc = "down"
    /\ position' = [p \in Partitions |-> 0]
    /\ pc' = "poll"
    /\ UNCHANGED <<store, committed, current, dlq, late, bounds, ghosts>>

\* The restarted process joins the group and reads from its offsets.
Start ==
    /\ pc = "down"
    /\ position' = committed
    /\ pc' = "poll"
    /\ UNCHANGED <<store, committed, current, dlq, late, bounds, ghosts>>

\* A call of ReadMessage finds that the consumer was put out of the group: no
\* poll within max.poll.interval.ms, or a lost session.  It rejoins.
Rejoin ==
    /\ pc = "poll"
    /\ resets < MaxResets
    /\ resets' = resets + 1
    /\ position' = committed
    /\ UNCHANGED <<store, committed, current, pc, dlq, late, failures, ghosts>>

\* The producer delivers a record its caller no longer waits for.
DeliverLate ==
    \E r \in late :
        /\ late' = late \ {r}
        /\ dlq' = dlq \cup {r}
        /\ UNCHANGED <<store, position, committed, current, pc, bounds, ghosts>>

-----------------------------------------------------------------------------
Loop ==
    \/ \E p \in Partitions : Read(p)
    \/ DecodeFails \/ HandleMessage
    \/ DlqDelivered \/ DlqFails \/ DlqTimesOut
    \/ Commit \/ CommitFails

Next == Loop \/ ReadNothing \/ Crash \/ Start \/ Rejoin \/ DeliverLate

\* The loop is one goroutine whose every call returns (ReadMessage after
\* 500 ms, a query at its timeout, SendToDLQ after 10 s), and docker restarts
\* a process that ended.  Nothing promises that a late record is delivered.
Fairness == WF_vars(Loop) /\ WF_vars(Start)

Spec == Init /\ [][Next]_vars /\ Fairness

-----------------------------------------------------------------------------
(* Properties.                                                             *)

TypeOK ==
    /\ H!TypeOK
    /\ position \in [Partitions -> Nat] /\ committed \in [Partitions -> Nat]
    /\ current \in Slot \cup {None}
    /\ pc \in {"down", "poll", "handle", "dlq", "commit"}
    /\ pc \in {"handle", "dlq", "commit"} => current \in Slot
    /\ dlq \subseteq [slot : Slot, code : {H!Validation, H!Processing}]
    /\ late \subseteq [slot : Slot, code : {H!Validation, H!Processing}]
    /\ resets \in 0 .. MaxResets /\ failures \in 0 .. MaxFailures
    /\ answered \subseteq Slot /\ abandoned \subseteq Slot

Reported == {r.slot : r \in dlq}

Covered == {s \in Slot : s[2] =< committed[s[1]]}

\* A committed offset covers only messages that Handle answered without an
\* error, that the DLQ holds, or whose DLQ record failed and was given up,
\* whatever crashes, rejoins and redeliveries come in between
\* (consumer.go:108-158).
CommittedSettled == Covered \subseteq answered \cup Reported \cup abandoned

\* An offset is committed only after the event was written, or reported to the
\* DLQ with a confirmed delivery (README.md:91).
CommittedAcknowledged == Covered \subseteq answered \cup Reported

\* The committed offset of a partition never goes back, although positions do
\* at every restart (consumer.go:128, 155).
CommitsForward ==
    [][\A p \in Partitions : committed'[p] >= committed[p]]_vars

\* When the consumer has read everything, the group's lag returns to 0
\* (DEMO.md:344).
LagReturnsToZero ==
    (\A p \in Partitions : position[p] = Len(Topic[p]))
        ~> (\A p \in Partitions : committed[p] = Len(Topic[p]))

\* The books move only by postings of the stock ledger, one for each event id,
\* however often the loop delivers the message (consumer.go:60-158).
LedgerSpec == H!LedgerSpec
=============================================================================
