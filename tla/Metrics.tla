------------------------------ MODULE Metrics ------------------------------
(***************************************************************************)
(* The consumer's metrics (internal/metrics/metrics.go): the counters its  *)
(* loop increments, and the lag gauges, set by TrackLag, a goroutine that  *)
(* asks the broker for the committed offsets and then, one partition after *)
(* the other, for the high watermark, while the loop reads and commits and *)
(* producers publish.  All of them live in the process's memory.           *)
(***************************************************************************)
EXTENDS Integers, FiniteSets, Sequences

CONSTANTS
    Products, Zones, Orders, EventIds, Suppliers, None, Events,
    Partitions, Undecodable, Topic, MaxResets, MaxFailures

VARIABLES
    inventory, byZone, totals, orders, processed, history, err,
    position, committed, current, pc, dlq, late, resets, failures,
    answered, abandoned,
    high,        \* the high watermark: how much of Topic is published
    ConsumerLag, \* the gauge of each partition, None before it is first set
    asked,       \* what TrackLag's call of Committed returned, None when idle
    left,        \* the partitions of asked still to be set
    answer,      \* the watermark the broker answered, None before; with it,
                 \* a ghost, the lag at that moment
    EventsProcessedTotal, CassandraWriteErrorsTotal,
    DLQEventsTotal   \* by error code

C == INSTANCE Consumer

store    == <<inventory, byZone, totals, orders, processed, history, err>>
consumer == <<store, position, committed, current, pc, dlq, late, resets,
              failures, answered, abandoned>>
tracker  == <<asked, left, answer>>
counters == <<EventsProcessedTotal, CassandraWriteErrorsTotal, DLQEventsTotal>>
vars     == <<consumer, high, ConsumerLag, tracker, counters>>

Codes == {C!H!Validation, C!H!Processing}

\* The collectors of a process that has just been started.
Fresh ==
    [lag |-> [p \in Partitions |-> None], total |-> 0,
     dlq |-> [c \in Codes |-> 0]]

Init ==
    /\ C!Init
    /\ high = [p \in Partitions |-> 0]
    /\ ConsumerLag = Fresh.lag
    /\ asked = None /\ left = {} /\ answer = None
    /\ EventsProcessedTotal = Fresh.total
    /\ CassandraWriteErrorsTotal = Fresh.total
    /\ DLQEventsTotal = Fresh.dlq

-----------------------------------------------------------------------------
(* The loop and its counters.                                              *)

\* A producer's message is stored.
Publish(p) ==
    /\ high[p] < Len(Topic[p])
    /\ high' = [high EXCEPT ![p] = @ + 1]
    /\ UNCHANGED <<consumer, ConsumerLag, tracker, counters>>

\* The steps of the loop that count nothing.
Work ==
    /\ \/ \E p \in Partitions : position[p] < high[p] /\ C!Read(p)
       \/ C!DecodeFails \/ C!DlqFails \/ C!DlqTimesOut
       \/ C!Commit \/ C!CommitFails
    /\ UNCHANGED counters

HandleMessage ==
    /\ C!HandleMessage
    /\ \/ /\ err' = C!H!Ok
          /\ EventsProcessedTotal' = EventsProcessedTotal + 1
          /\ UNCHANGED CassandraWriteErrorsTotal
       \/ /\ err' # C!H!Ok
          /\ CassandraWriteErrorsTotal' = CassandraWriteErrorsTotal + 1
          /\ UNCHANGED EventsProcessedTotal
    /\ UNCHANGED DLQEventsTotal

CountDlq == DLQEventsTotal' = [DLQEventsTotal EXCEPT ![err] = @ + 1]

\* Mutant of Report: a record is counted whether or not it is delivered.
ReportCountedFirst ==
    /\ C!DlqDelivered \/ C!DlqFails
    /\ CountDlq
    /\ UNCHANGED <<EventsProcessedTotal, CassandraWriteErrorsTotal>>

Report ==
    /\ C!DlqDelivered
    /\ CountDlq
    /\ UNCHANGED <<EventsProcessedTotal, CassandraWriteErrorsTotal>>

Loop == (Work \/ HandleMessage \/ Report) /\ UNCHANGED <<high, ConsumerLag, tracker>>

Other ==
    /\ C!ReadNothing \/ C!Rejoin \/ C!DeliverLate
    /\ UNCHANGED <<high, ConsumerLag, tracker, counters>>

Crash ==
    /\ C!Crash
    /\ ConsumerLag' = Fresh.lag
    /\ EventsProcessedTotal' = Fresh.total
    /\ CassandraWriteErrorsTotal' = Fresh.total
    /\ DLQEventsTotal' = Fresh.dlq
    /\ asked' = None /\ left' = {} /\ answer' = None
    /\ UNCHANGED high

Start == C!Start /\ UNCHANGED <<high, ConsumerLag, tracker, counters>>

-----------------------------------------------------------------------------
(* TrackLag.                                                               *)

RealLag(p) == high[p] - committed[p]

\* A tick: the committed offsets of the assigned partitions.
AskCommitted ==
    /\ pc # "down"
    /\ left = {}
    /\ asked' = committed /\ left' = Partitions
    /\ UNCHANGED <<consumer, high, ConsumerLag, answer, counters>>

\* The partitions come one after the other, in the order of the assignment.
Turn(p) == left # {} /\ p = CHOOSE q \in left : TRUE

\* The broker answers the query for the watermark of partition p.
AnswerQuery(p) ==
    /\ Turn(p)
    /\ answer = None
    /\ answer' = [partition |-> p, high |-> high[p], lag |-> RealLag(p)]
    /\ UNCHANGED <<consumer, high, ConsumerLag, asked, left, counters>>

\* The tracker is done with partition p.
Leave(p) ==
    /\ Turn(p)
    /\ left' = left \ {p}
    /\ asked' = IF left' = {} THEN None ELSE asked
    /\ answer' = None

Lag(h, offset) == IF h > offset THEN h - offset ELSE 0

\* Mutant of SetLag: the consumer's position stands for the committed offset.
SetLagOfPosition ==
    /\ answer # None
    /\ Leave(answer.partition)
    /\ ConsumerLag' = [ConsumerLag EXCEPT ![answer.partition] =
                          Lag(answer.high, position[answer.partition])]
    /\ UNCHANGED <<consumer, high, counters>>

\* The gauge of the partition is set from the two answers.
SetLag ==
    /\ answer # None
    /\ Leave(answer.partition)
    /\ ConsumerLag' = [ConsumerLag EXCEPT ![answer.partition] =
                          Lag(answer.high, asked[answer.partition])]
    /\ UNCHANGED <<consumer, high, counters>>

\* Mutant of QueryFails: the gauge is cleared.
QueryClears(p) ==
    /\ answer = None
    /\ Leave(p)
    /\ ConsumerLag' = [ConsumerLag EXCEPT ![p] = 0]
    /\ UNCHANGED <<consumer, high, counters>>

\* The query for partition p fails: the gauge keeps its value.
QueryFails(p) ==
    /\ answer = None
    /\ Leave(p)
    /\ UNCHANGED <<consumer, high, ConsumerLag, counters>>

TrackLag ==
    \/ AskCommitted \/ SetLag
    \/ \E p \in Partitions : AnswerQuery(p) \/ QueryFails(p)

Next ==
    \/ \E p \in Partitions : Publish(p)
    \/ Loop \/ Other \/ Crash \/ Start \/ TrackLag

\* As in Consumer; the ticker fires every 10 seconds, and of the queries that
\* it repeats for one partition some succeed.
Fairness ==
    /\ WF_vars(Loop) /\ WF_vars(Start) /\ WF_vars(AskCommitted)
    /\ WF_vars(SetLag)
    /\ \A p \in Partitions : /\ WF_vars(AnswerQuery(p) \/ QueryFails(p))
                             /\ SF_vars(AnswerQuery(p))

Spec == Init /\ [][Next]_vars /\ Fairness

-----------------------------------------------------------------------------
(* Properties.                                                             *)

\* A gauge is never set below the lag its partition had when the broker
\* answered the query for its watermark, whatever the loop commits around the
\* two queries: the committed offsets are asked for first and only advance.
\* What is published after the answer is missing from it (metrics.go:67-81).
NeverUnderstated ==
    [][answer # None /\ answer' = None /\ pc' # "down"
         => ConsumerLag'[answer.partition] >= answer.lag]_vars

\* When nothing more is published, read or committed, each gauge comes to show
\* the lag of its partition and keeps it, after restarts too.
LagShown == \A p \in Partitions : <>[](ConsumerLag[p] = RealLag(p))

\* The gauges return to zero again and again, unless a send to the DLQ or a
\* commit failed (consumer.go:128, 150, 155; scripts/e2e.py:613).
GaugesReturnToZero ==
    \/ []<>(\A p \in Partitions : ConsumerLag[p] = 0)
    \/ <>(failures > 0)

\* Every message that is published is answered, reported or given up in the
\* end: a restart repeats messages and skips none (consumer.go:60-158).
EverySettled ==
    \A s \in C!Slot :
        s[2] =< high[s[1]] ~> s \in answered \cup C!Reported \cup abandoned

\* What the counters of a process say of the DLQ is there: a code is counted
\* when a record with it was delivered, and an error that was counted has gone
\* to the DLQ, is on its way, or its send failed (consumer.go:122-125, 150-154).
CountersTrue ==
    /\ \A c \in Codes : DLQEventsTotal[c] > 0 => \E r \in dlq : r.code = c
    /\ CassandraWriteErrorsTotal =<
           DLQEventsTotal[C!H!Validation] + DLQEventsTotal[C!H!Processing]
             + failures + (IF pc = "dlq" THEN 1 ELSE 0)
=============================================================================
