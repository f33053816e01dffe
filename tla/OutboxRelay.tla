---------------------------- MODULE OutboxRelay ----------------------------
(***************************************************************************)
(* The transactional outbox of apps/api: OutboxService.enqueue writes rows *)
(* of platform_outbox_events in the caller's transaction, and every API    *)
(* process runs one OutboxRelayWorker that polls the table and sends the   *)
(* rows to Kafka (outbox-relay.service.ts, kafka-outbox.publisher.ts).     *)
(*                                                                         *)
(* A relay is one process: its `running` flag is pc # "idle", its local    *)
(* variables are batch (the rows of `events` still to come), current (the  *)
(* row of this iteration) and snapshot (the `attempts` each row had when   *)
(* it was selected).  Every await of publishBatch ends a step.             *)
(***************************************************************************)
EXTENDS Integers, Sequences, FiniteSets

CONSTANTS
    MaxEvents,      \* number of enqueue calls explored
    Transactions,   \* business transactions that enqueue through a manager
    Relays,         \* API processes, each with its own relay worker
    Undeliverable,  \* events whose topic the broker rejects on every attempt
    BatchSize,      \* rows a relay takes per poll (50 in the code)
    MaxClock,       \* readings of the database clock explored
    MaxAttempts,    \* `attempts` saturates here
    MaxFaults,      \* environment faults explored
    None,           \* the NULL and undefined of the code
    Own             \* writer of a row saved outside any caller's transaction

\* Rows are numbered in the order of the enqueue calls that write them.
Events == 1..MaxEvents

ASSUME MaxEventsAssumption   == MaxEvents \in Nat
ASSUME RelaysAssumption      == IsFiniteSet(Relays)
ASSUME UndeliverableAssumption == Undeliverable \subseteq Events
ASSUME BatchSizeAssumption   == BatchSize \in Nat \ {0}
ASSUME MaxClockAssumption    == MaxClock \in Nat
ASSUME MaxAttemptsAssumption == MaxAttempts \in Nat
ASSUME MaxFaultsAssumption   == MaxFaults \in Nat
ASSUME NamesAssumption ==
    /\ None \notin Transactions \cup {Own}
    /\ Own \notin Transactions
    /\ None \notin Events

VARIABLES
    transaction,  \* idle, open, committed or rolledBack, per transaction
    startedAt,    \* what now() returns inside a transaction: its start
    clock,        \* the database clock
    lastEnqueued, \* number of enqueue calls so far
    writer,       \* the transaction that inserted the row, Own, or None: no row
    occurredAt,   \* column occurred_at, DEFAULT now()
    row,          \* columns published_at, attempts and last_error
    pc,           \* where each relay is in publishBatch
    batch,        \* rows of this poll that the loop has not reached
    current,      \* the loop variable `event`
    snapshot,     \* event.attempts of the selected rows
    topic,        \* the Kafka log: the events in the order they were appended
    faults        \* environment faults so far

producerVars == <<transaction, startedAt, clock, lastEnqueued, writer, occurredAt>>
relayVars    == <<pc, batch, current, snapshot>>
vars         == <<producerVars, relayVars, row, topic, faults>>

Statuses == {"idle", "open", "committed", "rolledBack"}
Rows     == [published : BOOLEAN, attempts : 0..MaxAttempts, error : BOOLEAN]
Steps    == {"idle", "selected", "publishing", "marking", "counting", "noting"}

----------------------------------------------------------------------------
(* Helpers *)

\* READ COMMITTED: a row is seen by others once its transaction committed.
Visible(e) ==
    \/ writer[e] = Own
    \/ writer[e] \in Transactions /\ transaction[writer[e]] = "committed"

\* FOR UPDATE locks live until the selecting transaction commits.
Locked(e) == \E r \in Relays : pc[r] = "selected" /\ e \in batch[r]

\* Seeded fault: the poll forgets WHERE published_at IS NULL.
CandidatesAnyRow == {e \in Events : Visible(e) /\ ~Locked(e)}

\* What WHERE published_at IS NULL ... SKIP LOCKED lets a poll see.
Candidates == {e \in Events : Visible(e) /\ ~row[e].published /\ ~Locked(e)}

\* ORDER BY occurred_at ASC: nothing breaks a tie.
Oldest(S) == {e \in S : \A f \in S : occurredAt[e] <= occurredAt[f]}

\* Seeded fault: the query has no ORDER BY.
BatchesUnordered ==
    {S \in SUBSET Candidates :
        /\ Cardinality(S) <= BatchSize
        /\ S = Candidates \/ Cardinality(S) = BatchSize}

\* The possible results of the query: the oldest candidates, up to BatchSize.
Batches ==
    {S \in SUBSET Candidates :
        /\ Cardinality(S) <= BatchSize
        /\ S = Candidates \/ Cardinality(S) = BatchSize
        /\ \A e \in S, f \in Candidates \ S : occurredAt[e] <= occurredAt[f]}

Saturate(n) == IF n > MaxAttempts THEN MaxAttempts ELSE n

OnTopic == {topic[i] : i \in DOMAIN topic}
Copies(e) == Cardinality({i \in DOMAIN topic : topic[i] = e})

\* A fault that the environment may inject: a failed call, a crash.
Fault == faults < MaxFaults /\ faults' = faults + 1

----------------------------------------------------------------------------
Init ==
    /\ transaction = [t \in Transactions |-> "idle"]
    /\ startedAt = [t \in Transactions |-> 0]
    /\ clock = 0
    /\ lastEnqueued = 0
    /\ writer = [e \in Events |-> None]
    /\ occurredAt = [e \in Events |-> 0]
    /\ row = [e \in Events |-> [published |-> FALSE, attempts |-> 0, error |-> FALSE]]
    /\ pc = [r \in Relays |-> "idle"]
    /\ batch = [r \in Relays |-> {}]
    /\ current = [r \in Relays |-> None]
    /\ snapshot = [r \in Relays |-> [e \in Events |-> 0]]
    /\ topic = <<>>
    /\ faults = 0

----------------------------------------------------------------------------
(* The callers of OutboxService.enqueue *)

ClockTicks ==
    /\ clock < MaxClock
    /\ clock' = clock + 1
    /\ UNCHANGED <<transaction, startedAt, lastEnqueued, writer, occurredAt,
                   relayVars, row, topic, faults>>

BeginTransaction(t) ==
    /\ transaction[t] = "idle"
    /\ transaction' = [transaction EXCEPT ![t] = "open"]
    /\ startedAt' = [startedAt EXCEPT ![t] = clock]
    /\ UNCHANGED <<clock, lastEnqueued, writer, occurredAt, relayVars, row, topic, faults>>

\* The row created by `create({...input, publishedAt: null, attempts: 0, ...})`.
InsertRow(e, w, time) ==
    /\ e \in Events
    /\ lastEnqueued' = e
    /\ writer' = [writer EXCEPT ![e] = w]
    /\ occurredAt' = [occurredAt EXCEPT ![e] = time]
    /\ row' = [row EXCEPT ![e] = [published |-> FALSE, attempts |-> 0, error |-> FALSE]]

\* enqueue(input, manager): the insert is part of the caller's transaction.
EnqueueInTransaction(t) ==
    /\ transaction[t] = "open"
    /\ InsertRow(lastEnqueued + 1, t, startedAt[t])
    /\ UNCHANGED <<transaction, startedAt, clock, relayVars, topic, faults>>

\* enqueue(input) without a manager: save() commits on its own.
EnqueueAlone ==
    /\ InsertRow(lastEnqueued + 1, Own, clock)
    /\ UNCHANGED <<transaction, startedAt, clock, relayVars, topic, faults>>

EndTransaction(t, outcome) ==
    /\ transaction[t] = "open"
    /\ transaction' = [transaction EXCEPT ![t] = outcome]
    /\ UNCHANGED <<startedAt, clock, lastEnqueued, writer, occurredAt, relayVars,
                   row, topic, faults>>

Producer ==
    \/ ClockTicks
    \/ EnqueueAlone
    \/ \E t \in Transactions :
        \/ BeginTransaction(t)
        \/ EnqueueInTransaction(t)
        \/ EndTransaction(t, "committed")
        \/ EndTransaction(t, "rolledBack")

----------------------------------------------------------------------------
(* OutboxRelayService.publishBatch, step by step *)

Goto(r, step) == pc' = [pc EXCEPT ![r] = step]

\* publishBatch returned or threw; runOnce's finally clears `running`.
GoIdle(r) ==
    /\ Goto(r, "idle")
    /\ batch' = [batch EXCEPT ![r] = {}]
    /\ current' = [current EXCEPT ![r] = None]
    /\ snapshot' = [snapshot EXCEPT ![r] = [e \in Events |-> 0]]

\* Seeded fault: the loop runs once too often.
NextInLoopPastEnd(r) ==
    /\ Goto(r, "publishing")
    /\ \/ batch[r] = {} /\ UNCHANGED <<batch, current>>
       \/ \E e \in Oldest(batch[r]) :
            /\ current' = [current EXCEPT ![r] = e]
            /\ batch' = [batch EXCEPT ![r] = @ \ {e}]
    /\ UNCHANGED snapshot

\* The loop header: take the next row, or leave the loop.
NextInLoop(r) ==
    \/ batch[r] = {} /\ GoIdle(r)
    \/ \E e \in Oldest(batch[r]) :
        /\ Goto(r, "publishing")
        /\ current' = [current EXCEPT ![r] = e]
        /\ batch' = [batch EXCEPT ![r] = @ \ {e}]
        /\ UNCHANGED snapshot

\* A timer tick finds the relay not running: START TRANSACTION and the SELECT.
SelectBatch(r) ==
    /\ pc[r] = "idle"
    /\ Goto(r, "selected")
    /\ \E S \in Batches :
        /\ batch' = [batch EXCEPT ![r] = S]
        /\ snapshot' = [snapshot EXCEPT ![r] =
                          [e \in Events |-> IF e \in S THEN row[e].attempts ELSE 0]]
    /\ UNCHANGED <<producerVars, current, row, topic, faults>>

\* COMMIT releases the row locks before anything has been published.
CommitSelection(r) ==
    /\ pc[r] = "selected"
    /\ NextInLoop(r)
    /\ UNCHANGED <<producerVars, row, topic, faults>>

\* `await this.publisher.publish(event)` returns: the broker has the message.
Publish(r) ==
    /\ pc[r] = "publishing"
    /\ current[r] \notin Undeliverable
    /\ topic' = Append(topic, current[r])
    /\ Goto(r, "marking")
    /\ UNCHANGED <<producerVars, batch, current, snapshot, row, faults>>

\* The broker has no such topic: publish() throws on every attempt.
PublishRejected(r) ==
    /\ pc[r] = "publishing"
    /\ current[r] \in Undeliverable
    /\ Goto(r, "counting")
    /\ UNCHANGED <<producerVars, batch, current, snapshot, row, topic, faults>>

RowUnlocked(r) == ~Locked(current[r])

\* Seeded fault: success starts the count of attempts over.
WriteMarkStartsOver(r) ==
    /\ RowUnlocked(r)
    /\ row' = [row EXCEPT ![current[r]] =
                 [published |-> TRUE, attempts |-> 0, error |-> FALSE]]

\* update(id, {publishedAt, attempts: event.attempts + 1, lastError: null})
WriteMark(r) ==
    /\ RowUnlocked(r)
    /\ row' = [row EXCEPT ![current[r]] =
                 [published |-> TRUE,
                  attempts  |-> Saturate(snapshot[r][current[r]] + 1),
                  error     |-> FALSE]]

MarkPublished(r) ==
    /\ pc[r] = "marking"
    /\ WriteMark(r)
    /\ NextInLoop(r)
    /\ UNCHANGED <<producerVars, topic, faults>>

\* increment({id}, 'attempts', 1) in the catch block
WriteCount(r) ==
    /\ RowUnlocked(r)
    /\ row' = [row EXCEPT ![current[r]].attempts = Saturate(@ + 1)]

CountFailure(r) ==
    /\ pc[r] = "counting"
    /\ WriteCount(r)
    /\ Goto(r, "noting")
    /\ UNCHANGED <<producerVars, batch, current, snapshot, topic, faults>>

\* update(id, {lastError: message}), then the loop goes on with the next row
WriteError(r) ==
    /\ RowUnlocked(r)
    /\ row' = [row EXCEPT ![current[r]].error = TRUE]

NoteError(r) ==
    /\ pc[r] = "noting"
    /\ WriteError(r)
    /\ NextInLoop(r)
    /\ UNCHANGED <<producerVars, topic, faults>>

RelayStep(r) ==
    \/ SelectBatch(r)
    \/ CommitSelection(r)
    \/ Publish(r)
    \/ PublishRejected(r)
    \/ MarkPublished(r)
    \/ CountFailure(r)
    \/ NoteError(r)

----------------------------------------------------------------------------
(* Faults.  A call that fails may or may not have had its effect. *)

\* Seeded fault: publish() is not awaited, so its failure goes unnoticed.
PublishFailsUnnoticed(r) ==
    /\ pc[r] = "publishing"
    /\ Fault
    /\ Goto(r, "marking")
    /\ UNCHANGED <<producerVars, batch, current, snapshot, row, topic>>

\* publish() throws: connection lost before or after the broker appended.
PublishFails(r) ==
    /\ pc[r] = "publishing"
    /\ Fault
    /\ topic' \in {topic} \cup {Append(topic, e) : e \in {current[r]} \ Undeliverable}
    /\ Goto(r, "counting")
    /\ UNCHANGED <<producerVars, batch, current, snapshot, row>>

\* KafkaJS resends inside send() after an acknowledgement was lost.
ProducerResends(r) ==
    /\ pc[r] = "publishing"
    /\ current[r] \notin Undeliverable
    /\ Fault
    /\ topic' = Append(topic, current[r])
    /\ UNCHANGED <<producerVars, relayVars, row>>

\* The update after publish() throws, and the catch block counts a failure.
MarkFails(r) ==
    /\ pc[r] = "marking"
    /\ Fault
    /\ WriteMark(r) \/ UNCHANGED row
    /\ Goto(r, "counting")
    /\ UNCHANGED <<producerVars, batch, current, snapshot, topic>>

\* Seeded fault: runOnce has no finally, `running` stays true after an error.
CatchFailsStaysRunning(r) ==
    /\ Fault
    /\ pc[r] \in {"counting", "noting"}
    /\ Goto(r, "selecting")
    /\ UNCHANGED <<producerVars, batch, current, snapshot, row, topic>>

\* A write of the catch block throws out of publishBatch: the rest of the
\* batch is abandoned and runOnce logs.
CatchFails(r) ==
    /\ Fault
    /\ \/ pc[r] = "counting" /\ (WriteCount(r) \/ UNCHANGED row)
       \/ pc[r] = "noting" /\ (WriteError(r) \/ UNCHANGED row)
    /\ GoIdle(r)
    /\ UNCHANGED <<producerVars, topic>>

\* The process dies (nothing closes the application on SIGTERM, main.ts:5-13)
\* or the selecting transaction fails: locks go, rows stay as they are.
Crash(r) ==
    /\ pc[r] # "idle"
    /\ Fault
    /\ GoIdle(r)
    /\ UNCHANGED <<producerVars, row, topic>>

RelayFault(r) ==
    \/ PublishFails(r)
    \/ ProducerResends(r)
    \/ MarkFails(r)
    \/ CatchFails(r)
    \/ Crash(r)

Next ==
    \/ Producer
    \/ \E r \in Relays : RelayStep(r) \/ RelayFault(r)

Spec == Init /\ [][Next]_vars

\* setInterval keeps calling runOnce, and PostgreSQL and Kafka answer.
FairSpec == Spec /\ \A r \in Relays : WF_vars(RelayStep(r))

----------------------------------------------------------------------------
(* Properties *)

\* The type invariant of the table, the relays and the topic.
TypeOK ==
    /\ transaction \in [Transactions -> Statuses]
    /\ startedAt \in [Transactions -> 0..MaxClock]
    /\ clock \in 0..MaxClock
    /\ lastEnqueued \in 0..MaxEvents
    /\ writer \in [Events -> Transactions \cup {Own, None}]
    /\ occurredAt \in [Events -> 0..MaxClock]
    /\ row \in [Events -> Rows]
    /\ pc \in [Relays -> Steps]
    /\ batch \in [Relays -> SUBSET Events]
    /\ current \in [Relays -> Events \cup {None}]
    /\ snapshot \in [Relays -> [Events -> 0..MaxAttempts]]
    /\ topic \in Seq(Events)
    /\ faults \in 0..MaxFaults

\* published_at is set only on rows Kafka really holds, whatever calls failed
\* or crashed in between: nothing is lost (outbox-relay.service.ts:41-46).
PublishedIsOnTopic == \A e \in Events : row[e].published => e \in OnTopic

\* Kafka only carries facts whose transaction committed (ARCHITECTURE.md:8).
TopicOnlyCommitted == \A e \in OnTopic : Visible(e)

\* A poll of each relay sends an event at most once, so its copies are bounded
\* by the relays that had it in a batch plus the faults that made one retry.
CopiesBounded == \A e \in Events : Copies(e) <= Cardinality(Relays) + faults

\* Once published_at is set no later write of any relay clears it, not even the
\* catch block of a relay that holds a stale copy of the row.
PublishedForever ==
    [][\A e \in Events : row[e].published => row'[e].published]_vars

\* attempts never goes back although the mark writes a value computed from the
\* copy read at selection time.  Holds with one relay: with two, a stale mark
\* overwrites the increments of the other.
AttemptsNeverDecrease ==
    [][\A e \in Events : row[e].attempts <= row'[e].attempts]_vars

\* Every committed event that the broker accepts is marked as published in the
\* end (docs/IMPLEMENTATION_ROADMAP.md:351).
EventuallyPublished ==
    \A e \in Events \ Undeliverable : Visible(e) ~> row[e].published

\* What order a single relay does keep: an event that was committed before a
\* later one was reaches the topic first, over as many polls and batches as it
\* takes, unless the database clock read the same for both or a call failed.
CommitOrderKept ==
    \A e \in Events \ Undeliverable, f \in Events :
        [](Visible(e) /\ ~Visible(f) =>
             [](faults = 0 /\ occurredAt[e] < occurredAt[f] /\ f \in OnTopic
                  => e \in OnTopic))

\* The outbox implements the abstract publication: a row is committed when it
\* is visible, delivered when Kafka has a copy, acknowledged when marked.
Publication == INSTANCE EventPublication WITH
    Facts        <- Events,
    committed    <- {e \in Events : Visible(e)},
    delivered    <- OnTopic,
    acknowledged <- {e \in Events : row[e].published}

ImplementsPublication == Publication!Spec

\* Events of one aggregate reach the topic in the order of the enqueue calls of
\* the transaction that wrote them (docs/EVENTS.md:35); here all events belong
\* to one aggregate.
PublishedInOrder ==
    \A e, f \in Events :
        (e < f /\ writer[f] \in Transactions /\ writer[e] = writer[f] /\ f \in OnTopic)
            => e \in OnTopic
============================================================================
