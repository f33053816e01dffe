------------------------- MODULE OutboxRelayProofs -------------------------
(***************************************************************************)
(* Safety of the outbox for every number of events, relays, transactions   *)
(* and faults and every batch size: type correctness, no event lost, only  *)
(* committed facts in Kafka, the refinement of EventPublication, a bound   *)
(* on copies, and when undeliverable rows starve the others; with one      *)
(* relay also that attempts only grow and commit order is kept.            *)
(***************************************************************************)
EXTENDS OutboxRelay, FiniteSetTheorems, TLAPS

----------------------------------------------------------------------------
(* The inductive invariant *)

\* Rows that no enqueue call has written yet have no writer.
RowsInOrder == \A e \in Events : e > lastEnqueued => writer[e] = None

\* A poll only returns committed rows, and they stay committed.
BatchesVisible == \A r \in Relays : \A e \in batch[r] : Visible(e)

InLoop == {"publishing", "marking", "counting", "noting"}

\* Inside the loop there is a loop variable, and it is a committed row.
CurrentVisible ==
    \A r \in Relays : pc[r] \in InLoop => current[r] \in Events /\ Visible(current[r])

\* Between publish() and the update the event is in Kafka.
MarkingIsOnTopic == \A r \in Relays : pc[r] = "marking" => current[r] \in OnTopic

IInv ==
    /\ TypeOK
    /\ RowsInOrder
    /\ BatchesVisible
    /\ CurrentVisible
    /\ MarkingIsOnTopic
    /\ PublishedIsOnTopic
    /\ TopicOnlyCommitted

----------------------------------------------------------------------------
(* Lemmas *)

\* The elements of a sequence after an append.
LEMMA AppendElements ==
    ASSUME NEW S, NEW s \in Seq(S), NEW e \in S
    PROVE  {Append(s, e)[i] : i \in DOMAIN Append(s, e)}
               = {s[i] : i \in DOMAIN s} \cup {e}
  <1>1. /\ DOMAIN Append(s, e) = 1..(Len(s) + 1)
        /\ DOMAIN s = 1..Len(s)
        /\ Len(s) \in Nat
    OBVIOUS
  <1>2. \A i \in 1..Len(s) : Append(s, e)[i] = s[i]
    OBVIOUS
  <1>3. Append(s, e)[Len(s) + 1] = e
    OBVIOUS
  <1>4. 1..(Len(s) + 1) = 1..Len(s) \cup {Len(s) + 1}
    BY <1>1
  <1>5. QED
    BY <1>1, <1>2, <1>3, <1>4

LEMMA SaturateType == \A n \in Nat : Saturate(n) \in 0..MaxAttempts
  BY MaxAttemptsAssumption DEF Saturate

LEMMA OldestSubset == \A S : Oldest(S) \subseteq S
  BY DEF Oldest

\* What the loop header does to the local variables of a relay.
LEMMA NextInLoopEffect ==
    ASSUME TypeOK, NEW r \in Relays, NextInLoop(r)
    PROVE  /\ pc' \in [Relays -> Steps]
           /\ batch' \in [Relays -> SUBSET Events]
           /\ current' \in [Relays -> Events \cup {None}]
           /\ snapshot' \in [Relays -> [Events -> 0..MaxAttempts]]
           /\ pc'[r] \in {"idle", "publishing"}
           /\ pc'[r] = "publishing" => current'[r] \in batch[r]
           /\ batch'[r] \subseteq batch[r]
           /\ \A q \in Relays \ {r} :
                pc'[q] = pc[q] /\ batch'[q] = batch[q] /\ current'[q] = current[q]
  <1>1. CASE batch[r] = {} /\ GoIdle(r)
    BY <1>1, MaxAttemptsAssumption DEF TypeOK, GoIdle, Goto, Steps
  <1>2. ASSUME NEW e \in Oldest(batch[r]),
               /\ Goto(r, "publishing")
               /\ current' = [current EXCEPT ![r] = e]
               /\ batch' = [batch EXCEPT ![r] = @ \ {e}]
               /\ UNCHANGED snapshot
        PROVE  /\ pc' \in [Relays -> Steps]
               /\ batch' \in [Relays -> SUBSET Events]
               /\ current' \in [Relays -> Events \cup {None}]
               /\ snapshot' \in [Relays -> [Events -> 0..MaxAttempts]]
               /\ pc'[r] \in {"idle", "publishing"}
               /\ pc'[r] = "publishing" => current'[r] \in batch[r]
               /\ batch'[r] \subseteq batch[r]
               /\ \A q \in Relays \ {r} :
                    pc'[q] = pc[q] /\ batch'[q] = batch[q] /\ current'[q] = current[q]
    <2>1. e \in batch[r] /\ e \in Events
      BY OldestSubset DEF TypeOK
    <2>2. QED
      BY <1>2, <2>1 DEF TypeOK, Goto, Steps
  <1>3. QED
    BY <1>1, <1>2 DEF NextInLoop

LEMMA GoIdleEffect ==
    ASSUME TypeOK, NEW r \in Relays, GoIdle(r)
    PROVE  /\ pc' \in [Relays -> Steps]
           /\ batch' \in [Relays -> SUBSET Events]
           /\ current' \in [Relays -> Events \cup {None}]
           /\ snapshot' \in [Relays -> [Events -> 0..MaxAttempts]]
           /\ pc'[r] = "idle"
           /\ batch'[r] = {}
           /\ \A q \in Relays \ {r} :
                pc'[q] = pc[q] /\ batch'[q] = batch[q] /\ current'[q] = current[q]
  BY MaxAttemptsAssumption DEF TypeOK, GoIdle, Goto, Steps

\* What the three writes of the loop do to the table.
LEMMA RowWrites ==
    ASSUME TypeOK, NEW r \in Relays, current[r] \in Events,
           \/ WriteMark(r) \/ WriteCount(r) \/ WriteError(r) \/ UNCHANGED row
    PROVE  /\ row' \in [Events -> Rows]
           /\ \A e \in Events : row[e].published => row'[e].published
           /\ \A e \in Events \ {current[r]} : row'[e].published = row[e].published
           /\ ~WriteMark(r) => \A e \in Events : row'[e].published = row[e].published
  <1>1. CASE WriteMark(r)
    <2>1. snapshot[r][current[r]] \in Nat
      BY MaxAttemptsAssumption DEF TypeOK
    <2>2. Saturate(snapshot[r][current[r]] + 1) \in 0..MaxAttempts
      BY <2>1, SaturateType
    <2>3. QED
      BY <1>1, <2>2 DEF TypeOK, WriteMark, Rows
  <1>2. CASE WriteCount(r)
    <2>1. row[current[r]].attempts \in Nat
      BY MaxAttemptsAssumption DEF TypeOK, Rows
    <2>2. Saturate(row[current[r]].attempts + 1) \in 0..MaxAttempts
      BY <2>1, SaturateType
    <2> DEFINE counted == [row[current[r]] EXCEPT !.attempts = Saturate(@ + 1)]
    <2>3. counted \in Rows /\ counted.published = row[current[r]].published
      BY <2>2 DEF TypeOK, Rows
    <2>4. row' = [row EXCEPT ![current[r]] = counted]
      BY <1>2 DEF WriteCount
    <2> HIDE DEF counted
    <2>5. QED
      BY <2>3, <2>4 DEF TypeOK
  <1>3. CASE WriteError(r)
    <2> DEFINE noted == [row[current[r]] EXCEPT !.error = TRUE]
    <2>1. noted \in Rows /\ noted.published = row[current[r]].published
      BY DEF TypeOK, Rows
    <2>2. row' = [row EXCEPT ![current[r]] = noted]
      BY <1>3 DEF WriteError
    <2> HIDE DEF noted
    <2>3. QED
      BY <2>1, <2>2 DEF TypeOK
  <1>4. CASE UNCHANGED row
    BY <1>4 DEF TypeOK
  <1>5. QED
    BY <1>1, <1>2, <1>3, <1>4

----------------------------------------------------------------------------
(* Every step of a relay, faulty or not, in one summary *)

\* What relay r may do to the local variables of publishBatch.
LocalEffect(r) ==
    /\ pc' \in [Relays -> Steps]
    /\ batch' \in [Relays -> SUBSET Events]
    /\ current' \in [Relays -> Events \cup {None}]
    /\ snapshot' \in [Relays -> [Events -> 0..MaxAttempts]]
    /\ \A q \in Relays \ {r} :
         pc'[q] = pc[q] /\ batch'[q] = batch[q] /\ current'[q] = current[q]
    /\ batch'[r] \subseteq batch[r] \cup Candidates
    /\ pc'[r] \in InLoop =>
         \/ pc[r] \in InLoop /\ current'[r] = current[r]
         \/ pc'[r] = "publishing" /\ current'[r] \in batch[r]

\* What it may do to the topic.
TopicEffect(r) ==
    /\ topic' = topic \/ (pc[r] = "publishing" /\ topic' = Append(topic, current[r]))
    /\ pc'[r] = "marking" =>
         /\ pc[r] = "publishing"
         /\ current'[r] = current[r]
         /\ topic' = Append(topic, current[r])

\* What it may do to the table.
TableEffect(r) ==
    /\ row' \in [Events -> Rows]
    /\ \A e \in Events : row[e].published => row'[e].published
    /\ \A e \in Events : row'[e].published =>
         row[e].published \/ (pc[r] = "marking" /\ e = current[r])

LEMMA GotoEffect ==
    ASSUME TypeOK, NEW r \in Relays, NEW step \in Steps, Goto(r, step),
           UNCHANGED <<batch, current, snapshot>>,
           step \in InLoop => pc[r] \in InLoop
    PROVE  LocalEffect(r) /\ pc'[r] = step
  BY DEF TypeOK, Goto, LocalEffect, Steps

LEMMA LoopEffect ==
    ASSUME TypeOK, NEW r \in Relays, NextInLoop(r) \/ GoIdle(r)
    PROVE  LocalEffect(r) /\ pc'[r] \in {"idle", "publishing"}
  BY NextInLoopEffect, GoIdleEffect DEF LocalEffect, InLoop

LEMMA RowUnchangedEffect ==
    ASSUME TypeOK, NEW r \in Relays, UNCHANGED row
    PROVE  TableEffect(r)
  BY DEF TypeOK, TableEffect

LEMMA RowWriteEffect ==
    ASSUME TypeOK, NEW r \in Relays, current[r] \in Events,
           \/ pc[r] = "marking" /\ WriteMark(r)
           \/ WriteCount(r)
           \/ WriteError(r)
           \/ UNCHANGED row
    PROVE  TableEffect(r)
  <1>1. CASE pc[r] = "marking" /\ WriteMark(r)
    BY <1>1, RowWrites DEF TableEffect
  <1>2. CASE WriteCount(r)
    <2>1. \A e \in Events : row'[e].published = row[e].published
      BY <1>2 DEF WriteCount, TypeOK, Rows
    <2>2. QED
      BY <1>2, <2>1, RowWrites DEF TableEffect
  <1>3. CASE WriteError(r)
    <2>1. \A e \in Events : row'[e].published = row[e].published
      BY <1>3 DEF WriteError, TypeOK, Rows
    <2>2. QED
      BY <1>3, <2>1, RowWrites DEF TableEffect
  <1>4. CASE UNCHANGED row
    BY <1>4, RowUnchangedEffect
  <1>5. QED
    BY <1>1, <1>2, <1>3, <1>4

LEMMA FaultType == TypeOK /\ (Fault \/ UNCHANGED faults) => faults' \in 0..MaxFaults
  BY MaxFaultsAssumption DEF TypeOK, Fault

\* Each step and each fault of a relay has only these effects.
LEMMA RelayEffect ==
    ASSUME TypeOK, CurrentVisible, NEW r \in Relays, RelayStep(r) \/ RelayFault(r)
    PROVE  /\ LocalEffect(r)
           /\ TopicEffect(r)
           /\ TableEffect(r)
           /\ faults' \in 0..MaxFaults
           /\ UNCHANGED producerVars
  <1>1. CASE SelectBatch(r)
    <2>1. PICK S \in Batches :
            /\ batch' = [batch EXCEPT ![r] = S]
            /\ snapshot' = [snapshot EXCEPT ![r] =
                              [e \in Events |-> IF e \in S THEN row[e].attempts ELSE 0]]
      BY <1>1 DEF SelectBatch
    <2>2. S \subseteq Candidates /\ S \subseteq Events
      BY <2>1 DEF Batches, Candidates
    <2>3. [e \in Events |-> IF e \in S THEN row[e].attempts ELSE 0]
             \in [Events -> 0..MaxAttempts]
      BY MaxAttemptsAssumption DEF TypeOK, Rows
    <2>4. snapshot' \in [Relays -> [Events -> 0..MaxAttempts]]
      BY <2>1, <2>3 DEF TypeOK
    <2>5. /\ pc' = [pc EXCEPT ![r] = "selected"]
          /\ UNCHANGED <<producerVars, current, row, topic, faults>>
      BY <1>1 DEF SelectBatch, Goto
    <2>6. LocalEffect(r) /\ pc'[r] = "selected"
      BY <2>1, <2>2, <2>4, <2>5 DEF TypeOK, Steps, LocalEffect, InLoop
    <2>7. QED
      BY <2>5, <2>6, RowUnchangedEffect DEF TopicEffect, TypeOK
  <1>2. CASE CommitSelection(r)
    BY <1>2, LoopEffect, RowUnchangedEffect DEF CommitSelection, TopicEffect, TypeOK
  <1>3. CASE Publish(r)
    <2>1. LocalEffect(r)
      BY <1>3, GotoEffect DEF Publish, InLoop, Steps
    <2>2. QED
      BY <1>3, <2>1, RowUnchangedEffect DEF Publish, TopicEffect, TypeOK
  <1>4. CASE PublishRejected(r)
    <2>1. LocalEffect(r) /\ pc'[r] = "counting"
      BY <1>4, GotoEffect DEF PublishRejected, InLoop, Steps
    <2>2. QED
      BY <1>4, <2>1, RowUnchangedEffect DEF PublishRejected, TopicEffect, TypeOK
  <1>5. CASE MarkPublished(r)
    <2>1. current[r] \in Events /\ pc[r] = "marking"
      BY <1>5 DEF CurrentVisible, MarkPublished, InLoop
    <2>2. TableEffect(r)
      BY <1>5, <2>1, RowWriteEffect DEF MarkPublished
    <2>3. QED
      BY <1>5, <2>2, LoopEffect DEF MarkPublished, TopicEffect, TypeOK
  <1>6. CASE CountFailure(r)
    <2>1. current[r] \in Events /\ pc[r] = "counting"
      BY <1>6 DEF CurrentVisible, CountFailure, InLoop
    <2>2. TableEffect(r)
      BY <1>6, <2>1, RowWriteEffect DEF CountFailure
    <2>3. LocalEffect(r) /\ pc'[r] = "noting"
      BY <1>6, <2>1, GotoEffect DEF CountFailure, InLoop, Steps
    <2>4. QED
      BY <1>6, <2>2, <2>3 DEF CountFailure, TopicEffect, TypeOK
  <1>7. CASE NoteError(r)
    <2>1. current[r] \in Events
      BY <1>7 DEF CurrentVisible, NoteError, InLoop
    <2>2. TableEffect(r)
      BY <1>7, <2>1, RowWriteEffect DEF NoteError
    <2>3. QED
      BY <1>7, <2>2, LoopEffect DEF NoteError, TopicEffect, TypeOK
  <1>8. CASE PublishFails(r)
    <2>1. LocalEffect(r) /\ pc'[r] = "counting"
      BY <1>8, GotoEffect DEF PublishFails, InLoop, Steps
    <2>2. TopicEffect(r)
      BY <1>8, <2>1 DEF PublishFails, TopicEffect
    <2>3. QED
      BY <1>8, <2>1, <2>2, FaultType, RowUnchangedEffect DEF PublishFails
  <1>9. CASE ProducerResends(r)
    <2>1. LocalEffect(r) /\ pc'[r] = "publishing"
      BY <1>9 DEF ProducerResends, relayVars, LocalEffect, InLoop, TypeOK
    <2>2. TopicEffect(r)
      BY <1>9, <2>1 DEF ProducerResends, TopicEffect
    <2>3. QED
      BY <1>9, <2>1, <2>2, FaultType, RowUnchangedEffect DEF ProducerResends
  <1>10. CASE MarkFails(r)
    <2>1. current[r] \in Events /\ pc[r] = "marking"
      BY <1>10 DEF CurrentVisible, MarkFails, InLoop
    <2>2. TableEffect(r)
      BY <1>10, <2>1, RowWriteEffect DEF MarkFails
    <2>3. LocalEffect(r) /\ pc'[r] = "counting"
      BY <1>10, <2>1, GotoEffect DEF MarkFails, InLoop, Steps
    <2>4. QED
      BY <1>10, <2>2, <2>3, FaultType DEF MarkFails, TopicEffect
  <1>11. CASE CatchFails(r)
    <2>1. current[r] \in Events
      BY <1>11 DEF CurrentVisible, CatchFails, InLoop
    <2>2. TableEffect(r)
      BY <1>11, <2>1, RowWriteEffect DEF CatchFails
    <2>3. QED
      BY <1>11, <2>2, LoopEffect, FaultType DEF CatchFails, TopicEffect
  <1>12. CASE Crash(r)
    BY <1>12, LoopEffect, FaultType, RowUnchangedEffect DEF Crash, TopicEffect
  <1>13. QED
    BY <1>1, <1>2, <1>3, <1>4, <1>5, <1>6, <1>7, <1>8, <1>9, <1>10, <1>11, <1>12
       DEF RelayStep, RelayFault

----------------------------------------------------------------------------
(* Steps of the callers of enqueue *)

\* A row that no enqueue call has reached is neither in Kafka nor published.
LEMMA FreshRow ==
    ASSUME IInv, NEW e \in Events, e > lastEnqueued
    PROVE  ~Visible(e) /\ e \notin OnTopic /\ ~row[e].published
  BY NamesAssumption DEF IInv, RowsInOrder, Visible, PublishedIsOnTopic, TopicOnlyCommitted

\* Producers leave the relays and the topic alone, keep what is visible
\* visible, and change no published_at.
ProducerEffect ==
    /\ UNCHANGED <<relayVars, topic, faults>>
    /\ transaction' \in [Transactions -> Statuses]
    /\ startedAt' \in [Transactions -> 0..MaxClock]
    /\ clock' \in 0..MaxClock
    /\ lastEnqueued' \in 0..MaxEvents
    /\ writer' \in [Events -> Transactions \cup {Own, None}]
    /\ occurredAt' \in [Events -> 0..MaxClock]
    /\ row' \in [Events -> Rows]
    /\ RowsInOrder'
    /\ \A e \in Events : Visible(e) => Visible(e)'
    /\ \A e \in Events : row'[e].published = row[e].published

LEMMA InsertEffect ==
    ASSUME IInv, NEW w \in Transactions \cup {Own}, NEW time \in 0..MaxClock,
           InsertRow(lastEnqueued + 1, w, time),
           UNCHANGED <<transaction, startedAt, clock, relayVars, topic, faults>>
    PROVE  ProducerEffect
  <1> DEFINE e == lastEnqueued + 1
  <1>1. /\ e \in Events /\ e > lastEnqueued
        /\ lastEnqueued' = e
        /\ writer' = [writer EXCEPT ![e] = w]
        /\ occurredAt' = [occurredAt EXCEPT ![e] = time]
        /\ row' = [row EXCEPT ![e] = [published |-> FALSE, attempts |-> 0, error |-> FALSE]]
    BY MaxEventsAssumption DEF InsertRow, IInv, TypeOK
  <1>2. ~Visible(e) /\ ~row[e].published
    BY <1>1, FreshRow
  <1> HIDE DEF e
  <1>3. /\ writer' \in [Events -> Transactions \cup {Own, None}]
        /\ occurredAt' \in [Events -> 0..MaxClock]
        /\ lastEnqueued' \in 0..MaxEvents
    BY <1>1, MaxEventsAssumption DEF IInv, TypeOK, Events
  <1>4. row' \in [Events -> Rows]
    <2>1. [published |-> FALSE, attempts |-> 0, error |-> FALSE] \in Rows
      BY MaxAttemptsAssumption DEF Rows
    <2>2. QED
      BY <1>1, <2>1 DEF IInv, TypeOK
  <1>5. \A f \in Events : row'[f].published = row[f].published
    <2>1. row'[e].published = FALSE /\ row[e].published = FALSE
      BY <1>1, <1>2 DEF IInv, TypeOK, Rows
    <2>2. \A f \in Events \ {e} : row'[f] = row[f]
      BY <1>1 DEF IInv, TypeOK
    <2>3. QED
      BY <2>1, <2>2
  <1>6. \A f \in Events : Visible(f) => Visible(f)'
    <2>1. \A f \in Events \ {e} : writer'[f] = writer[f]
      BY <1>1 DEF IInv, TypeOK
    <2>2. QED
      BY <1>2, <2>1 DEF Visible
  <1>7. RowsInOrder'
    <2> SUFFICES ASSUME NEW f \in Events, f > lastEnqueued'
                 PROVE  writer'[f] = None
      BY DEF RowsInOrder, Events
    <2>1. f > lastEnqueued /\ f # e
      BY <1>1, MaxEventsAssumption DEF Events, IInv, TypeOK
    <2>2. QED
      BY <1>1, <2>1 DEF IInv, TypeOK, RowsInOrder
  <1>8. QED
    BY <1>3, <1>4, <1>5, <1>6, <1>7 DEF ProducerEffect, IInv, TypeOK

LEMMA ProducerHasEffect ==
    ASSUME IInv, Producer
    PROVE  ProducerEffect
  <1>1. CASE ClockTicks
    BY <1>1, MaxClockAssumption DEF ClockTicks, ProducerEffect, IInv, TypeOK, Visible, RowsInOrder
  <1>2. CASE EnqueueAlone
    BY <1>2, InsertEffect DEF EnqueueAlone, IInv, TypeOK
  <1>3. ASSUME NEW t \in Transactions, BeginTransaction(t)
        PROVE  ProducerEffect
    <2>1. transaction' \in [Transactions -> Statuses] /\ startedAt' \in [Transactions -> 0..MaxClock]
      BY <1>3 DEF BeginTransaction, IInv, TypeOK, Statuses
    <2>2. \A u \in Transactions : transaction[u] = "committed" => transaction'[u] = "committed"
      BY <1>3 DEF BeginTransaction, IInv, TypeOK
    <2>3. QED
      BY <1>3, <2>1, <2>2 DEF BeginTransaction, ProducerEffect, IInv, TypeOK, Visible, RowsInOrder
  <1>4. ASSUME NEW t \in Transactions, EnqueueInTransaction(t)
        PROVE  ProducerEffect
    BY <1>4, InsertEffect DEF EnqueueInTransaction, IInv, TypeOK
  <1>5. ASSUME NEW t \in Transactions, NEW outcome \in {"committed", "rolledBack"},
               EndTransaction(t, outcome)
        PROVE  ProducerEffect
    <2>1. transaction' \in [Transactions -> Statuses]
      BY <1>5 DEF EndTransaction, IInv, TypeOK, Statuses
    <2>2. \A u \in Transactions : transaction[u] = "committed" => transaction'[u] = "committed"
      BY <1>5 DEF EndTransaction, IInv, TypeOK
    <2>3. QED
      BY <1>5, <2>1, <2>2 DEF EndTransaction, ProducerEffect, IInv, TypeOK, Visible, RowsInOrder
  <1>6. QED
    BY <1>1, <1>2, <1>3, <1>4, <1>5 DEF Producer

----------------------------------------------------------------------------
(* The invariant is inductive *)

LEMMA InitIInv == Init => IInv
  <1> SUFFICES ASSUME Init PROVE IInv
    OBVIOUS
  <1>1. TypeOK
    BY MaxEventsAssumption, MaxClockAssumption, MaxAttemptsAssumption, MaxFaultsAssumption
       DEF Init, TypeOK, Statuses, Rows, Steps
  <1>2. OnTopic = {}
    BY DEF Init, OnTopic
  <1>3. QED
    BY <1>1, <1>2 DEF Init, IInv, RowsInOrder, BatchesVisible, CurrentVisible, InLoop,
                      MarkingIsOnTopic, PublishedIsOnTopic, TopicOnlyCommitted

LEMMA ProducerKeepsIInv ==
    ASSUME IInv, Producer
    PROVE  IInv'
  <1>1. ProducerEffect
    BY ProducerHasEffect
  <1>2. OnTopic' = OnTopic
    BY <1>1 DEF ProducerEffect, OnTopic
  <1>3. TypeOK' /\ RowsInOrder'
    BY <1>1 DEF ProducerEffect, IInv, TypeOK, relayVars
  <1>4. BatchesVisible' /\ CurrentVisible' /\ MarkingIsOnTopic'
    BY <1>1, <1>2 DEF ProducerEffect, IInv, TypeOK, relayVars, BatchesVisible, CurrentVisible,
                      MarkingIsOnTopic
  <1>5. PublishedIsOnTopic' /\ TopicOnlyCommitted'
    <2>1. OnTopic \subseteq Events
      BY DEF IInv, TypeOK, OnTopic
    <2>2. QED
      BY <1>1, <1>2, <2>1 DEF ProducerEffect, IInv, PublishedIsOnTopic, TopicOnlyCommitted
  <1>6. QED
    BY <1>3, <1>4, <1>5 DEF IInv

\* Appending keeps what is on the topic and adds at most the current row.
LEMMA TopicGrows ==
    ASSUME IInv, NEW r \in Relays, TopicEffect(r)
    PROVE  /\ topic' \in Seq(Events)
           /\ OnTopic \subseteq OnTopic'
           /\ OnTopic' \subseteq OnTopic \cup {e \in Events : Visible(e)}
           /\ pc'[r] = "marking" => current'[r] \in OnTopic'
  <1>1. CASE topic' = topic /\ pc'[r] # "marking"
    BY <1>1 DEF OnTopic, IInv, TypeOK
  <1>2. CASE pc[r] = "publishing" /\ topic' = Append(topic, current[r])
    <2>1. current[r] \in Events /\ Visible(current[r]) /\ topic \in Seq(Events)
      BY <1>2 DEF IInv, TypeOK, CurrentVisible, InLoop
    <2>2. OnTopic' = OnTopic \cup {current[r]}
      BY <1>2, <2>1, AppendElements DEF OnTopic
    <2>3. topic' \in Seq(Events)
      BY <1>2, <2>1
    <2>4. QED
      BY <2>1, <2>2, <2>3 DEF TopicEffect
  <1>3. QED
    BY <1>1, <1>2 DEF TopicEffect

LEMMA RelayKeepsIInv ==
    ASSUME IInv, NEW r \in Relays, RelayStep(r) \/ RelayFault(r)
    PROVE  IInv'
  <1>1. /\ LocalEffect(r)
        /\ TopicEffect(r)
        /\ TableEffect(r)
        /\ faults' \in 0..MaxFaults
        /\ UNCHANGED producerVars
    BY RelayEffect DEF IInv
  <1>2. /\ topic' \in Seq(Events)
        /\ OnTopic \subseteq OnTopic'
        /\ OnTopic' \subseteq OnTopic \cup {e \in Events : Visible(e)}
        /\ pc'[r] = "marking" => current'[r] \in OnTopic'
    BY <1>1, TopicGrows
  <1>3. \A e \in Events : Visible(e)' <=> Visible(e)
    BY <1>1 DEF Visible, producerVars
  <1>4. TypeOK'
    BY <1>1, <1>2 DEF IInv, TypeOK, LocalEffect, TableEffect, producerVars
  <1>5. RowsInOrder'
    BY <1>1 DEF IInv, RowsInOrder, producerVars
  <1>6. BatchesVisible'
    <2> SUFFICES ASSUME NEW q \in Relays, NEW e \in batch'[q]
                 PROVE  Visible(e)'
      BY DEF BatchesVisible
    <2>1. e \in Events
      BY <1>4 DEF TypeOK
    <2>2. e \in batch[q] \/ e \in Candidates
      BY <1>1 DEF LocalEffect
    <2>3. QED
      BY <1>3, <2>1, <2>2 DEF IInv, BatchesVisible, Candidates
  <1>7. CurrentVisible'
    <2> SUFFICES ASSUME NEW q \in Relays, pc'[q] \in InLoop
                 PROVE  (current[q] \in Events /\ Visible(current[q]))'
      BY DEF CurrentVisible
    <2>1. CASE q # r
      BY <1>1, <1>3, <2>1 DEF LocalEffect, IInv, CurrentVisible
    <2>2. CASE q = r /\ pc[r] \in InLoop /\ current'[r] = current[r]
      BY <1>3, <2>2 DEF IInv, CurrentVisible
    <2>3. CASE q = r /\ current'[r] \in batch[r]
      BY <1>3, <2>3 DEF IInv, TypeOK, BatchesVisible
    <2>4. QED
      BY <1>1, <2>1, <2>2, <2>3 DEF LocalEffect
  <1>8. MarkingIsOnTopic'
    <2> SUFFICES ASSUME NEW q \in Relays, pc'[q] = "marking"
                 PROVE  current'[q] \in OnTopic'
      BY DEF MarkingIsOnTopic
    <2>1. CASE q # r
      BY <1>1, <1>2, <2>1 DEF LocalEffect, IInv, MarkingIsOnTopic
    <2>2. CASE q = r
      BY <1>2, <2>2
    <2>3. QED
      BY <2>1, <2>2
  <1>9. PublishedIsOnTopic'
    BY <1>1, <1>2 DEF TableEffect, IInv, PublishedIsOnTopic, MarkingIsOnTopic
  <1>10. TopicOnlyCommitted'
    <2>1. OnTopic \subseteq Events
      BY DEF IInv, TypeOK, OnTopic
    <2>2. QED
      BY <1>2, <1>3, <2>1 DEF IInv, TopicOnlyCommitted
  <1>11. QED
    BY <1>4, <1>5, <1>6, <1>7, <1>8, <1>9, <1>10 DEF IInv

LEMMA StutterKeepsIInv == IInv /\ UNCHANGED vars => IInv'
  BY DEF IInv, vars, producerVars, relayVars, TypeOK, RowsInOrder, BatchesVisible,
         CurrentVisible, InLoop, MarkingIsOnTopic, PublishedIsOnTopic, TopicOnlyCommitted,
         Visible, OnTopic

LEMMA NextKeepsIInv == IInv /\ [Next]_vars => IInv'
  BY ProducerKeepsIInv, RelayKeepsIInv, StutterKeepsIInv DEF Next

THEOREM Invariance == Spec => []IInv
  BY InitIInv, NextKeepsIInv, PTL DEF Spec

----------------------------------------------------------------------------
(* Theorems *)

\* Type correctness of the table, the relays and the topic.
THEOREM TypeCorrect == Spec => []TypeOK
  BY Invariance, PTL DEF IInv

\* No event is lost: whatever fails between publish() and the update
\* (outbox-relay.service.ts:41-51), a row with published_at is in Kafka.
THEOREM NothingLost == Spec => []PublishedIsOnTopic
  BY Invariance, PTL DEF IInv

\* Kafka only carries facts of committed transactions (ARCHITECTURE.md:8).
THEOREM OnlyCommittedFacts == Spec => []TopicOnlyCommitted
  BY Invariance, PTL DEF IInv

LEMMA NextKeepsPublished ==
    IInv /\ [Next]_vars => \A e \in Events : row[e].published => row'[e].published
  <1> SUFFICES ASSUME IInv, [Next]_vars
               PROVE  \A e \in Events : row[e].published => row'[e].published
    OBVIOUS
  <1>1. CASE Producer
    BY <1>1, ProducerHasEffect DEF ProducerEffect
  <1>2. ASSUME NEW r \in Relays, RelayStep(r) \/ RelayFault(r)
        PROVE  \A e \in Events : row[e].published => row'[e].published
    BY <1>2, RelayEffect DEF IInv, TableEffect
  <1>3. CASE UNCHANGED vars
    BY <1>3 DEF vars
  <1>4. QED
    BY <1>1, <1>2, <1>3 DEF Next

\* published_at is never cleared, however stale the copy a relay writes from.
THEOREM PublishedStays == Spec => PublishedForever
  <1>1. IInv /\ [Next]_vars => [\A e \in Events : row[e].published => row'[e].published]_vars
    BY NextKeepsPublished
  <1>2. QED
    BY <1>1, Invariance, PTL DEF Spec, PublishedForever

LEMMA InitPublication == Init => Publication!Init
  BY NamesAssumption DEF Init, Publication!Init, Visible, OnTopic

\* A producer's step commits a set of facts, or stutters.
LEMMA ProducerImplements ==
    ASSUME IInv, Producer
    PROVE  [Publication!Next]_(Publication!vars)
  <1>1. ProducerEffect
    BY ProducerHasEffect
  <1>2. OnTopic' = OnTopic
    BY <1>1 DEF ProducerEffect, OnTopic
  <1>3. {e \in Events : row[e].published}' = {e \in Events : row[e].published}
    BY <1>1 DEF ProducerEffect
  <1> DEFINE S == {e \in Events : Visible(e)' /\ ~Visible(e)}
  <1>4. {e \in Events : Visible(e)}' = {e \in Events : Visible(e)} \cup S
    BY <1>1 DEF ProducerEffect
  <1>5. S \in SUBSET (Events \ {e \in Events : Visible(e)})
    OBVIOUS
  <1> HIDE DEF S
  <1>6. Publication!CommitFacts
    BY <1>2, <1>3, <1>4, <1>5 DEF Publication!CommitFacts
  <1>7. QED
    BY <1>6 DEF Publication!Next

\* A relay's step delivers the current row, acknowledges it, or stutters.
LEMMA RelayImplements ==
    ASSUME IInv, NEW r \in Relays, RelayStep(r) \/ RelayFault(r)
    PROVE  [Publication!Next]_(Publication!vars)
  <1>1. /\ LocalEffect(r)
        /\ TopicEffect(r)
        /\ TableEffect(r)
        /\ UNCHANGED producerVars
    BY RelayEffect DEF IInv
  <1>2. {e \in Events : Visible(e)}' = {e \in Events : Visible(e)}
    BY <1>1 DEF Visible, producerVars
  <1>3. CASE topic' = topic /\ pc[r] = "marking"
    <2> DEFINE e == current[r]
    <2>1. e \in Events /\ e \in OnTopic
      BY <1>3 DEF IInv, CurrentVisible, MarkingIsOnTopic, InLoop
    <2>2. OnTopic' = OnTopic
      BY <1>3 DEF OnTopic
    <2>3. \/ {f \in Events : row[f].published}' = {f \in Events : row[f].published} \cup {e}
          \/ {f \in Events : row[f].published}' = {f \in Events : row[f].published}
      BY <1>1, <2>1 DEF TableEffect
    <2> HIDE DEF e
    <2>4. CASE {f \in Events : row[f].published}' = {f \in Events : row[f].published} \cup {e}
      <3>1. Publication!Acknowledge
        BY <1>2, <2>1, <2>2, <2>4 DEF Publication!Acknowledge
      <3>2. QED
        BY <3>1 DEF Publication!Next
    <2>5. CASE {f \in Events : row[f].published}' = {f \in Events : row[f].published}
      BY <1>2, <2>2, <2>5 DEF Publication!vars
    <2>6. QED
      BY <2>3, <2>4, <2>5
  <1>4. CASE pc[r] # "marking"
    <2>1. {f \in Events : row[f].published}' = {f \in Events : row[f].published}
      BY <1>1, <1>4 DEF TableEffect
    <2>2. CASE topic' = topic
      <3>1. OnTopic' = OnTopic
        BY <2>2 DEF OnTopic
      <3>2. QED
        BY <1>2, <2>1, <3>1 DEF Publication!vars
    <2>3. CASE pc[r] = "publishing" /\ topic' = Append(topic, current[r])
      <3> DEFINE e == current[r]
      <3>1. e \in Events /\ Visible(e) /\ topic \in Seq(Events)
        BY <2>3 DEF IInv, TypeOK, CurrentVisible, InLoop
      <3>2. OnTopic' = OnTopic \cup {e}
        BY <2>3, <3>1, AppendElements DEF OnTopic
      <3>3. e \in {f \in Events : Visible(f)}
        BY <3>1
      <3> HIDE DEF e
      <3>4. Publication!Deliver
        BY <1>2, <2>1, <3>2, <3>3 DEF Publication!Deliver
      <3>5. QED
        BY <3>4 DEF Publication!Next
    <2>4. QED
      BY <1>1, <2>2, <2>3 DEF TopicEffect
  <1>5. QED
    BY <1>1, <1>3, <1>4 DEF TopicEffect

LEMMA StutterImplements == UNCHANGED vars => UNCHANGED Publication!vars
  BY DEF vars, producerVars, Publication!vars, Visible, OnTopic

\* The outbox implements the abstract publication of committed facts.
THEOREM Refinement == Spec => ImplementsPublication
  <1>1. IInv /\ [Next]_vars => [Publication!Next]_(Publication!vars)
    BY ProducerImplements, RelayImplements, StutterImplements DEF Next
  <1>2. QED
    BY <1>1, InitPublication, Invariance, PTL DEF Spec, ImplementsPublication, Publication!Spec

----------------------------------------------------------------------------
(* How many copies of an event Kafka may hold *)

\* Relays that may still publish e in their poll.
Pending(e) ==
    {r \in Relays : e \in batch[r] \/ (pc[r] = "publishing" /\ current[r] = e)}

\* Relays that have just published e and not yet marked it.
Marking(e) == {r \in Relays : pc[r] = "marking" /\ current[r] = e}

\* The loop variable has left the batch.
CurrentTaken == \A r \in Relays : pc[r] \in InLoop => current[r] \notin batch[r]

\* Copies of an unmarked row are owed to relays about to mark it, or to faults.
UnmarkedCopies ==
    \A e \in Events :
        ~row[e].published => Copies(e) <= Cardinality(Marking(e)) + faults

\* Every relay that may still publish a row counts as a copy of it.
CopiesAndPending ==
    \A e \in Events : Copies(e) + Cardinality(Pending(e)) <= Cardinality(Relays) + faults

CopiesInv == CurrentTaken /\ UnmarkedCopies /\ CopiesAndPending

\* Two finite sets that differ at most in x.
LEMMA CardinalityExceptOne ==
    ASSUME NEW S, NEW T, NEW x, IsFiniteSet(S), IsFiniteSet(T), S \ {x} = T \ {x}
    PROVE  /\ x \in S /\ x \in T => Cardinality(S) = Cardinality(T)
           /\ x \notin S /\ x \notin T => Cardinality(S) = Cardinality(T)
           /\ x \in S /\ x \notin T => Cardinality(S) = Cardinality(T) + 1
  <1>1. /\ Cardinality(S \ {x}) = IF x \in S THEN Cardinality(S) - 1 ELSE Cardinality(S)
        /\ Cardinality(T \ {x}) = IF x \in T THEN Cardinality(T) - 1 ELSE Cardinality(T)
    BY FS_RemoveElement
  <1>2. Cardinality(S) \in Nat /\ Cardinality(T) \in Nat
    BY FS_CardinalityType
  <1>3. QED
    BY <1>1, <1>2

\* The index set whose size is Copies(e), and how an append changes it.
LEMMA CopiesType ==
    ASSUME NEW s \in Seq(Events), NEW e
    PROVE  /\ IsFiniteSet({i \in DOMAIN s : s[i] = e})
           /\ Cardinality({i \in DOMAIN s : s[i] = e}) \in Nat
  <1>1. DOMAIN s = 1..Len(s) /\ Len(s) \in Nat
    OBVIOUS
  <1>2. IsFiniteSet(1..Len(s))
    BY <1>1, FS_Interval
  <1>3. {i \in DOMAIN s : s[i] = e} \in SUBSET (1..Len(s))
    BY <1>1
  <1>4. IsFiniteSet({i \in DOMAIN s : s[i] = e})
    BY <1>2, <1>3, FS_Subset
  <1>5. QED
    BY <1>4, FS_CardinalityType

LEMMA CopiesNatural == topic \in Seq(Events) => \A e : Copies(e) \in Nat
  BY CopiesType DEF Copies

LEMMA CopiesAfterAppend ==
    ASSUME topic \in Seq(Events), NEW c \in Events, topic' = Append(topic, c), NEW e
    PROVE  /\ c = e => Copies(e)' = Copies(e) + 1
           /\ c # e => Copies(e)' = Copies(e)
  <1> DEFINE old == {i \in DOMAIN topic : topic[i] = e}
             new == {i \in DOMAIN Append(topic, c) : Append(topic, c)[i] = e}
  <1>1. /\ DOMAIN Append(topic, c) = 1..(Len(topic) + 1)
        /\ DOMAIN topic = 1..Len(topic)
        /\ Len(topic) \in Nat
        /\ \A i \in 1..Len(topic) : Append(topic, c)[i] = topic[i]
        /\ Append(topic, c)[Len(topic) + 1] = c
    OBVIOUS
  <1>2. 1..(Len(topic) + 1) = 1..Len(topic) \cup {Len(topic) + 1} /\ Len(topic) + 1 \notin 1..Len(topic)
    BY <1>1
  <1>3. IsFiniteSet(old) /\ Len(topic) + 1 \notin old
    BY <1>1, <1>2, CopiesType
  <1>4. c = e => new = old \cup {Len(topic) + 1}
    BY <1>1, <1>2
  <1>5. c # e => new = old
    BY <1>1, <1>2
  <1>6. Copies(e) = Cardinality(old) /\ Copies(e)' = Cardinality(new)
    BY DEF Copies
  <1> HIDE DEF old, new
  <1>7. c = e => Cardinality(new) = Cardinality(old) + 1
    BY <1>3, <1>4, FS_AddElement
  <1>8. QED
    BY <1>5, <1>6, <1>7

\* The four kinds of step of a relay, as far as copies are concerned.
Polls(r) ==
    /\ pc[r] = "idle" /\ pc'[r] = "selected"
    /\ batch'[r] \subseteq Candidates
    /\ UNCHANGED <<topic, faults, row>>

\* It takes no new row, and a row it has published is marked or cost a fault.
MovesOn(r) ==
    /\ topic' = topic
    /\ faults' = faults \/ faults' = faults + 1
    /\ pc'[r] # "marking"
    /\ batch'[r] \subseteq batch[r]
    /\ pc'[r] = "publishing" =>
         current'[r] \in batch[r] \/ (pc[r] = "publishing" /\ current'[r] = current[r])
    /\ pc[r] = "marking" => row'[current[r]].published \/ faults' = faults + 1

Delivers(r) ==
    /\ pc[r] = "publishing" /\ pc'[r] = "marking"
    /\ topic' = Append(topic, current[r])
    /\ UNCHANGED <<batch, current, faults>>

DeliversWithFault(r) ==
    /\ pc[r] = "publishing" /\ pc'[r] \in {"publishing", "counting"}
    /\ topic' = Append(topic, current[r])
    /\ faults' = faults + 1
    /\ UNCHANGED <<batch, current>>

LEMMA StepKinds ==
    ASSUME IInv, CurrentTaken, NEW r \in Relays, RelayStep(r) \/ RelayFault(r)
    PROVE  /\ Polls(r) \/ MovesOn(r) \/ Delivers(r) \/ DeliversWithFault(r)
           /\ pc'[r] \in InLoop => current'[r] \notin batch'[r]
  <1> USE DEF IInv
  <1>1. CASE SelectBatch(r)
    BY <1>1 DEF SelectBatch, Goto, Batches, Polls, TypeOK, InLoop
  <1>2. ASSUME NextInLoop(r), UNCHANGED topic, faults' = faults \/ faults' = faults + 1,
               pc[r] = "marking" => row'[current[r]].published
        PROVE  MovesOn(r) /\ (pc'[r] \in InLoop => current'[r] \notin batch'[r])
    <2>1. /\ pc'[r] \in {"idle", "publishing"}
          /\ pc'[r] = "publishing" => current'[r] \in batch[r]
          /\ batch'[r] \subseteq batch[r]
      BY <1>2, NextInLoopEffect
    <2>2. pc'[r] \in InLoop => current'[r] \notin batch'[r]
      BY <1>2 DEF NextInLoop, GoIdle, Goto, TypeOK, InLoop
    <2>3. QED
      BY <1>2, <2>1, <2>2 DEF MovesOn
  <1>3. ASSUME GoIdle(r), UNCHANGED topic, faults' = faults + 1
        PROVE  MovesOn(r) /\ (pc'[r] \in InLoop => current'[r] \notin batch'[r])
    BY <1>3, GoIdleEffect DEF MovesOn, InLoop
  <1>4. ASSUME NEW step \in {"counting", "noting"}, Goto(r, step),
               UNCHANGED <<batch, current, topic>>, pc[r] \in InLoop,
               \/ faults' = faults /\ pc[r] # "marking"
               \/ faults' = faults + 1
        PROVE  MovesOn(r) /\ (pc'[r] \in InLoop => current'[r] \notin batch'[r])
    BY <1>4 DEF MovesOn, Goto, TypeOK, CurrentTaken
  <1>5. CASE CommitSelection(r)
    BY <1>2, <1>5 DEF CommitSelection
  <1>6. CASE Publish(r)
    BY <1>6 DEF Publish, Goto, TypeOK, Delivers, CurrentTaken, InLoop
  <1>7. CASE PublishRejected(r)
    BY <1>4, <1>7 DEF PublishRejected, InLoop
  <1>8. CASE MarkPublished(r)
    <2>1. current[r] \in Events
      BY <1>8 DEF MarkPublished, CurrentVisible, InLoop
    <2>2. row'[current[r]].published
      BY <1>8, <2>1 DEF MarkPublished, WriteMark, TypeOK
    <2>3. QED
      BY <1>2, <1>8, <2>2 DEF MarkPublished
  <1>9. CASE CountFailure(r)
    BY <1>4, <1>9 DEF CountFailure, InLoop
  <1>10. CASE NoteError(r)
    BY <1>2, <1>10 DEF NoteError
  <1>11. CASE PublishFails(r)
    <2>1. CASE topic' = topic
      BY <1>4, <1>11, <2>1 DEF PublishFails, Fault, InLoop
    <2>2. CASE topic' = Append(topic, current[r])
      BY <1>11, <2>2 DEF PublishFails, Fault, Goto, TypeOK, DeliversWithFault, CurrentTaken, InLoop
    <2>3. QED
      BY <1>11, <2>1, <2>2 DEF PublishFails
  <1>12. CASE ProducerResends(r)
    BY <1>12 DEF ProducerResends, Fault, relayVars, DeliversWithFault, CurrentTaken, InLoop
  <1>13. CASE MarkFails(r)
    BY <1>4, <1>13 DEF MarkFails, Fault, InLoop
  <1>14. CASE CatchFails(r)
    BY <1>3, <1>14 DEF CatchFails, Fault
  <1>15. CASE Crash(r)
    BY <1>3, <1>15 DEF Crash, Fault
  <1>16. QED
    BY <1>1, <1>5, <1>6, <1>7, <1>8, <1>9, <1>10, <1>11, <1>12, <1>13, <1>14, <1>15
       DEF RelayStep, RelayFault

\* Only relay r enters or leaves the sets of relays that have to do with e.
LEMMA OthersStay ==
    ASSUME NEW r \in Relays, LocalEffect(r), NEW e
    PROVE  /\ Pending(e)' \ {r} = Pending(e) \ {r}
           /\ Marking(e)' \ {r} = Marking(e) \ {r}
  BY DEF LocalEffect, Pending, Marking

LEMMA RelaySets ==
    ASSUME NEW e
    PROVE  /\ IsFiniteSet(Pending(e)) /\ IsFiniteSet(Marking(e))
           /\ IsFiniteSet(Pending(e)') /\ IsFiniteSet(Marking(e)')
           /\ Cardinality(Pending(e)) \in Nat /\ Cardinality(Pending(e)') \in Nat
           /\ Cardinality(Marking(e)) \in Nat /\ Cardinality(Marking(e)') \in Nat
           /\ Cardinality(Relays) \in Nat
  <1>1. /\ Pending(e) \in SUBSET Relays /\ Marking(e) \in SUBSET Relays
        /\ Pending(e)' \in SUBSET Relays /\ Marking(e)' \in SUBSET Relays
    BY DEF Pending, Marking
  <1>2. /\ IsFiniteSet(Pending(e)) /\ IsFiniteSet(Marking(e))
        /\ IsFiniteSet(Pending(e)') /\ IsFiniteSet(Marking(e)')
    BY <1>1, RelaysAssumption, FS_Subset
  <1>3. QED
    BY <1>2, RelaysAssumption, FS_CardinalityType

\* A relay that is marking e has no second copy of it in its batch.
LEMMA Disjoint ==
    ASSUME CurrentTaken, NEW e
    PROVE  Cardinality(Pending(e)) + Cardinality(Marking(e)) <= Cardinality(Relays)
  <1>1. Pending(e) \cap Marking(e) = {}
    BY DEF CurrentTaken, InLoop, Pending, Marking
  <1>2. Pending(e) \cup Marking(e) \in SUBSET Relays
    BY DEF Pending, Marking
  <1>3. Cardinality(Pending(e) \cup Marking(e)) <= Cardinality(Relays)
    BY <1>2, RelaysAssumption, FS_Subset
  <1>4. Cardinality(Pending(e) \cup Marking(e))
          = Cardinality(Pending(e)) + Cardinality(Marking(e))
              - Cardinality(Pending(e) \cap Marking(e))
    BY RelaySets, FS_Union
  <1>5. Cardinality(Pending(e) \cap Marking(e)) = 0
    BY <1>1, FS_EmptySet
  <1>6. QED
    BY <1>3, <1>4, <1>5, RelaySets

LEMMA RelayKeepsCopies ==
    ASSUME IInv, CopiesInv, NEW r \in Relays, RelayStep(r) \/ RelayFault(r)
    PROVE  CopiesInv'
  <1>1. /\ LocalEffect(r)
        /\ TableEffect(r)
    BY RelayEffect DEF IInv
  <1>2. /\ Polls(r) \/ MovesOn(r) \/ Delivers(r) \/ DeliversWithFault(r)
        /\ pc'[r] \in InLoop => current'[r] \notin batch'[r]
    BY StepKinds DEF CopiesInv
  <1>3. CurrentTaken'
    BY <1>1, <1>2 DEF CopiesInv, CurrentTaken, LocalEffect
  <1> SUFFICES ASSUME NEW e \in Events
               PROVE  /\ ~row'[e].published =>
                            Copies(e)' <= Cardinality(Marking(e)') + faults'
                      /\ Copies(e)' + Cardinality(Pending(e)') <= Cardinality(Relays) + faults'
    BY <1>3 DEF CopiesInv, UnmarkedCopies, CopiesAndPending
  <1> DEFINE c == Copies(e)
             p == Cardinality(Pending(e))
             m == Cardinality(Marking(e))
             n == Cardinality(Relays)
  <1>4. /\ ~row[e].published => c <= m + faults
        /\ c + p <= n + faults
        /\ ~row'[e].published => ~row[e].published
    BY <1>1 DEF CopiesInv, UnmarkedCopies, CopiesAndPending, TableEffect
  <1>5. /\ c \in Nat /\ p \in Nat /\ p' \in Nat /\ m \in Nat /\ m' \in Nat
        /\ n \in Nat /\ faults \in Nat
    <2>1. c \in Nat /\ faults \in Nat
      BY CopiesNatural, MaxFaultsAssumption DEF IInv, TypeOK
    <2>2. QED
      BY <2>1, RelaySets
  <1>6. /\ r \in Pending(e) /\ r \in Pending(e)' => p' = p
        /\ r \notin Pending(e) /\ r \notin Pending(e)' => p' = p
        /\ r \in Pending(e) /\ r \notin Pending(e)' => p = p' + 1
        /\ r \notin Pending(e) /\ r \in Pending(e)' => p' = p + 1
        /\ r \in Marking(e) /\ r \in Marking(e)' => m' = m
        /\ r \notin Marking(e) /\ r \notin Marking(e)' => m' = m
        /\ r \in Marking(e) /\ r \notin Marking(e)' => m = m' + 1
        /\ r \notin Marking(e) /\ r \in Marking(e)' => m' = m + 1
    BY <1>1, OthersStay, RelaySets, CardinalityExceptOne
  <1>7. /\ r \in Pending(e) <=> (e \in batch[r] \/ (pc[r] = "publishing" /\ current[r] = e))
        /\ r \in Pending(e)' <=> (e \in batch'[r] \/ (pc'[r] = "publishing" /\ current'[r] = e))
        /\ r \in Marking(e) <=> (pc[r] = "marking" /\ current[r] = e)
        /\ r \in Marking(e)' <=> (pc'[r] = "marking" /\ current'[r] = e)
    BY DEF Pending, Marking
  <1>8. topic' = topic => c' = c
    BY DEF Copies
  <1>9. pc[r] = "publishing" /\ topic' = Append(topic, current[r])
          => c' = IF current[r] = e THEN c + 1 ELSE c
    <2>1. topic \in Seq(Events) /\ (pc[r] = "publishing" => current[r] \in Events)
      BY DEF IInv, TypeOK, CurrentVisible, InLoop
    <2>2. QED
      BY <2>1, CopiesAfterAppend
  <1>10. CASE Polls(r)
    <2>1. r \notin Marking(e) /\ r \notin Marking(e)' /\ c' = c /\ faults' = faults
      BY <1>7, <1>8, <1>10 DEF Polls
    <2>2. m' = m /\ row' = row
      BY <1>6, <1>10, <2>1 DEF Polls
    <2>3. CASE r \in Pending(e)'
      <3>1. ~row[e].published
        BY <1>7, <1>10, <2>3 DEF Polls, Candidates
      <3>2. p' + m' <= n
        <4>1. (Cardinality(Pending(e)) + Cardinality(Marking(e)) <= Cardinality(Relays))'
          BY <1>3, Disjoint, PTL
        <4>2. QED
          BY <4>1
      <3>3. QED
        BY <1>4, <1>5, <2>1, <2>2, <3>1, <3>2
    <2>4. CASE r \notin Pending(e)'
      <3>1. p' <= p
        BY <1>5, <1>6, <2>4
      <3>2. QED
        BY <1>4, <1>5, <2>1, <2>2, <3>1
    <2>5. QED
      BY <2>3, <2>4
  <1>11. CASE MovesOn(r)
    <2>1. r \in Pending(e)' => r \in Pending(e)
      BY <1>7, <1>11 DEF MovesOn
    <2>2. p' <= p
      BY <1>5, <1>6, <2>1
    <2>3. r \notin Marking(e)'
      BY <1>7, <1>11 DEF MovesOn
    <2>4. m' = m \/ (m = m' + 1 /\ (row'[e].published \/ faults' = faults + 1))
      BY <1>6, <1>7, <1>11, <2>3 DEF MovesOn
    <2>5. c' = c /\ (faults' = faults \/ faults' = faults + 1)
      BY <1>8, <1>11 DEF MovesOn
    <2>6. QED
      BY <1>4, <1>5, <2>2, <2>4, <2>5
  <1>12. CASE Delivers(r)
    <2>1. r \notin Marking(e) /\ faults' = faults
      BY <1>7, <1>12 DEF Delivers
    <2>2. CASE current[r] = e
      <3>1. r \in Pending(e) /\ r \notin Pending(e)' /\ r \in Marking(e)'
        BY <1>7, <1>12, <2>2 DEF Delivers, CopiesInv, CurrentTaken, InLoop
      <3>2. c' = c + 1 /\ p = p' + 1 /\ m' = m + 1
        BY <1>6, <1>9, <1>12, <2>1, <2>2, <3>1 DEF Delivers
      <3>3. QED
        BY <1>4, <1>5, <2>1, <3>2
    <2>3. CASE current[r] # e
      <3>1. r \notin Marking(e)' /\ (r \in Pending(e) <=> r \in Pending(e)')
        BY <1>7, <1>12, <2>3 DEF Delivers
      <3>2. c' = c /\ p' = p /\ m' = m
        BY <1>6, <1>9, <1>12, <2>1, <2>3, <3>1 DEF Delivers
      <3>3. QED
        BY <1>4, <1>5, <2>1, <3>2
    <2>4. QED
      BY <2>2, <2>3
  <1>13. CASE DeliversWithFault(r)
    <2>1. r \notin Marking(e) /\ r \notin Marking(e)' /\ (r \in Pending(e)' => r \in Pending(e))
      BY <1>7, <1>13 DEF DeliversWithFault
    <2>2. m' = m /\ p' <= p
      BY <1>5, <1>6, <2>1
    <2>3. c' <= c + 1 /\ c' \in Nat /\ faults' = faults + 1
      BY <1>5, <1>9, <1>13 DEF DeliversWithFault
    <2>4. QED
      BY <1>4, <1>5, <2>2, <2>3
  <1>14. QED
    BY <1>2, <1>10, <1>11, <1>12, <1>13

LEMMA ProducerKeepsCopies ==
    ASSUME IInv, CopiesInv, Producer
    PROVE  CopiesInv'
  <1>1. /\ UNCHANGED <<relayVars, topic, faults>>
        /\ \A e \in Events : row'[e].published = row[e].published
    BY ProducerHasEffect DEF ProducerEffect
  <1>2. \A e \in Events :
          Copies(e)' = Copies(e) /\ Pending(e)' = Pending(e) /\ Marking(e)' = Marking(e)
    BY <1>1 DEF Copies, Pending, Marking, relayVars
  <1>3. CurrentTaken'
    BY <1>1 DEF CopiesInv, CurrentTaken, relayVars
  <1>4. QED
    BY <1>1, <1>2, <1>3 DEF CopiesInv, UnmarkedCopies, CopiesAndPending

LEMMA InitCopies == Init => CopiesInv
  <1> SUFFICES ASSUME Init PROVE CopiesInv
    OBVIOUS
  <1>1. CurrentTaken
    BY DEF Init, CurrentTaken, InLoop
  <1>2. ASSUME NEW e \in Events
        PROVE  Copies(e) = 0 /\ Cardinality(Pending(e)) = 0
    <2>1. {i \in DOMAIN topic : topic[i] = e} = {} /\ Pending(e) = {}
      BY DEF Init, Pending
    <2>2. QED
      BY <2>1, FS_EmptySet DEF Copies
  <1>3. \A e \in Events : Cardinality(Marking(e)) \in Nat
    BY RelaySets
  <1>4. Cardinality(Relays) \in Nat /\ faults = 0
    BY RelaySets DEF Init
  <1>5. QED
    BY <1>1, <1>2, <1>3, <1>4 DEF CopiesInv, UnmarkedCopies, CopiesAndPending

THEOREM CopiesInvariance == Spec => []CopiesInv
  <1>1. IInv /\ CopiesInv /\ [Next]_vars => CopiesInv'
    <2> SUFFICES ASSUME IInv, CopiesInv, [Next]_vars PROVE CopiesInv'
      OBVIOUS
    <2>1. CASE UNCHANGED vars
      BY <2>1 DEF CopiesInv, CurrentTaken, UnmarkedCopies, CopiesAndPending, Copies, Pending,
                  Marking, InLoop, vars, relayVars
    <2>2. QED
      BY <2>1, RelayKeepsCopies, ProducerKeepsCopies DEF Next
  <1>2. QED
    BY <1>1, InitCopies, Invariance, PTL DEF Spec

\* A fact reaches Kafka at most once per relay and once per fault: what the
\* relays' unlocked batches and retries may repeat, and no more.
THEOREM RepetitionIsBounded == Spec => []CopiesBounded
  <1>1. IInv /\ CopiesInv => CopiesBounded
    <2> SUFFICES ASSUME IInv, CopiesInv, NEW e \in Events
                 PROVE  Copies(e) <= Cardinality(Relays) + faults
      BY DEF CopiesBounded
    <2>1. /\ Copies(e) \in Nat /\ Cardinality(Pending(e)) \in Nat
          /\ Cardinality(Relays) \in Nat /\ faults \in Nat
      BY CopiesNatural, RelaySets, MaxFaultsAssumption DEF IInv, TypeOK
    <2>2. QED
      BY <2>1 DEF CopiesInv, CopiesAndPending
  <1>2. QED
    BY <1>1, Invariance, CopiesInvariance, PTL

----------------------------------------------------------------------------
(* One relay never takes an attempt back *)

\* Rows that no enqueue call has written yet have no attempts.
FreshAttempts == \A e \in Events : e > lastEnqueued => row[e].attempts = 0

\* What r read of the rows it has still to settle is what they hold.
SnapshotIsRow(r) ==
    /\ \A e \in batch[r] : snapshot[r][e] = row[e].attempts
    /\ pc[r] \in {"publishing", "marking"} =>
         snapshot[r][current[r]] = row[current[r]].attempts

AttemptsInv == CurrentTaken /\ FreshAttempts /\ \A r \in Relays : SnapshotIsRow(r)

AttemptsGrow == \A e \in Events : row[e].attempts <= row'[e].attempts

LEMMA SaturateGrows == \A n \in 0..MaxAttempts : n <= Saturate(n + 1)
  BY MaxAttemptsAssumption DEF Saturate

LEMMA WritesGrow ==
    ASSUME TypeOK, NEW r \in Relays, current[r] \in Events,
           \/ WriteMark(r) /\ snapshot[r][current[r]] = row[current[r]].attempts
           \/ WriteCount(r)
           \/ WriteError(r)
           \/ UNCHANGED row
    PROVE  /\ AttemptsGrow
           /\ \A e \in Events \ {current[r]} : row'[e] = row[e]
  <1>1. \A e \in Events : row[e].attempts \in 0..MaxAttempts
    BY DEF TypeOK, Rows
  <1>2. CASE WriteMark(r) /\ snapshot[r][current[r]] = row[current[r]].attempts
    <2>1. row'[current[r]].attempts = Saturate(row[current[r]].attempts + 1)
      BY <1>2 DEF WriteMark, TypeOK
    <2>2. \A e \in Events \ {current[r]} : row'[e] = row[e]
      BY <1>2 DEF WriteMark, TypeOK
    <2>3. QED
      BY <1>1, <2>1, <2>2, SaturateGrows, MaxAttemptsAssumption DEF AttemptsGrow
  <1>3. CASE WriteCount(r)
    <2>1. row'[current[r]].attempts = Saturate(row[current[r]].attempts + 1)
      BY <1>3 DEF WriteCount, TypeOK, Rows
    <2>2. \A e \in Events \ {current[r]} : row'[e] = row[e]
      BY <1>3 DEF WriteCount, TypeOK
    <2>3. QED
      BY <1>1, <2>1, <2>2, SaturateGrows, MaxAttemptsAssumption DEF AttemptsGrow
  <1>4. CASE WriteError(r)
    <2>1. row'[current[r]].attempts = row[current[r]].attempts
      BY <1>4 DEF WriteError, TypeOK, Rows
    <2>2. \A e \in Events \ {current[r]} : row'[e] = row[e]
      BY <1>4 DEF WriteError, TypeOK
    <2>3. QED
      BY <1>1, <2>1, <2>2, MaxAttemptsAssumption DEF AttemptsGrow
  <1>5. CASE UNCHANGED row
    BY <1>1, <1>5, MaxAttemptsAssumption DEF AttemptsGrow
  <1>6. QED
    BY <1>2, <1>3, <1>4, <1>5

\* The loop header settles what is left of the batch from the same snapshot.
LEMMA LoopKeepsSnapshot ==
    ASSUME TypeOK, NEW r \in Relays, NextInLoop(r) \/ GoIdle(r),
           \A e \in batch[r] : snapshot[r][e] = row'[e].attempts
    PROVE  SnapshotIsRow(r)'
  <1>1. CASE GoIdle(r)
    BY <1>1 DEF GoIdle, Goto, TypeOK, SnapshotIsRow
  <1>2. ASSUME NEW e \in batch[r],
               /\ Goto(r, "publishing")
               /\ current' = [current EXCEPT ![r] = e]
               /\ batch' = [batch EXCEPT ![r] = @ \ {e}]
               /\ UNCHANGED snapshot
        PROVE  SnapshotIsRow(r)'
    BY <1>2 DEF Goto, TypeOK, SnapshotIsRow
  <1>3. QED
    BY <1>1, <1>2, OldestSubset DEF NextInLoop

\* A step of the only relay.
LEMMA RelayKeepsAttempts ==
    ASSUME IInv, AttemptsInv, NEW r \in Relays, RelayStep(r) \/ RelayFault(r)
    PROVE  SnapshotIsRow(r)' /\ AttemptsGrow /\ \A e \in Events :
             (~Visible(e) => row'[e] = row[e])
  <1>0. /\ TypeOK
        /\ SnapshotIsRow(r)
        /\ batch[r] \subseteq Events
        /\ pc[r] \in InLoop => current[r] \in Events /\ current[r] \notin batch[r]
                               /\ Visible(current[r])
    BY DEF IInv, TypeOK, CurrentVisible, AttemptsInv, CurrentTaken
  <1>1. UNCHANGED row => AttemptsGrow /\ \A e \in Events : row'[e] = row[e]
    <2>1. \A e \in Events : row[e].attempts \in 0..MaxAttempts
      BY <1>0 DEF TypeOK, Rows
    <2>2. QED
      BY <2>1, MaxAttemptsAssumption DEF AttemptsGrow
  <1>2. ASSUME pc[r] \in InLoop,
               \/ pc[r] = "marking" /\ WriteMark(r)
               \/ WriteCount(r)
               \/ WriteError(r)
               \/ UNCHANGED row
        PROVE  /\ AttemptsGrow
               /\ \A e \in Events : ~Visible(e) => row'[e] = row[e]
               /\ \A e \in batch[r] : snapshot[r][e] = row'[e].attempts
    <2>1. AttemptsGrow /\ \A e \in Events \ {current[r]} : row'[e] = row[e]
      BY <1>0, <1>2, WritesGrow DEF SnapshotIsRow
    <2>2. QED
      BY <1>0, <1>2, <2>1 DEF SnapshotIsRow
  <1>3. ASSUME NEW step \in {"counting", "noting"}, Goto(r, step), pc[r] \in InLoop,
               UNCHANGED <<batch, current, snapshot>>,
               \A e \in batch[r] : snapshot[r][e] = row'[e].attempts
        PROVE  SnapshotIsRow(r)'
    BY <1>0, <1>3 DEF Goto, TypeOK, SnapshotIsRow
  <1>4. CASE SelectBatch(r)
    <2>1. PICK S \in Batches :
            /\ batch' = [batch EXCEPT ![r] = S]
            /\ snapshot' = [snapshot EXCEPT ![r] =
                              [e \in Events |-> IF e \in S THEN row[e].attempts ELSE 0]]
      BY <1>4 DEF SelectBatch
    <2>2. S \subseteq Events
      BY <2>1 DEF Batches, Candidates
    <2>3. batch'[r] = S /\ \A e \in S : snapshot'[r][e] = row[e].attempts
      BY <1>0, <2>1, <2>2 DEF TypeOK
    <2>4. pc'[r] = "selected" /\ row' = row
      BY <1>0, <1>4 DEF SelectBatch, Goto, TypeOK
    <2>5. QED
      BY <1>1, <2>3, <2>4 DEF SnapshotIsRow
  <1>5. CASE CommitSelection(r)
    BY <1>0, <1>1, <1>5, LoopKeepsSnapshot DEF CommitSelection, SnapshotIsRow
  <1>6. CASE Publish(r)
    BY <1>0, <1>1, <1>6 DEF Publish, Goto, TypeOK, SnapshotIsRow
  <1>7. CASE PublishRejected(r)
    BY <1>2, <1>3, <1>7 DEF PublishRejected, InLoop
  <1>8. CASE MarkPublished(r)
    BY <1>0, <1>2, <1>8, LoopKeepsSnapshot DEF MarkPublished, InLoop
  <1>9. CASE CountFailure(r)
    BY <1>2, <1>3, <1>9 DEF CountFailure, InLoop
  <1>10. CASE NoteError(r)
    BY <1>0, <1>2, <1>10, LoopKeepsSnapshot DEF NoteError, InLoop
  <1>11. CASE PublishFails(r)
    BY <1>2, <1>3, <1>11 DEF PublishFails, InLoop
  <1>12. CASE ProducerResends(r)
    BY <1>0, <1>1, <1>12 DEF ProducerResends, relayVars, SnapshotIsRow
  <1>13. CASE MarkFails(r)
    BY <1>2, <1>3, <1>13 DEF MarkFails, InLoop
  <1>14. CASE CatchFails(r)
    BY <1>0, <1>2, <1>14, LoopKeepsSnapshot DEF CatchFails, InLoop
  <1>15. CASE Crash(r)
    BY <1>0, <1>1, <1>15, LoopKeepsSnapshot, GoIdleEffect DEF Crash, SnapshotIsRow
  <1>16. QED
    BY <1>4, <1>5, <1>6, <1>7, <1>8, <1>9, <1>10, <1>11, <1>12, <1>13, <1>14, <1>15
       DEF RelayStep, RelayFault

\* An enqueue call writes only a row that had no attempts and no reader.
LEMMA ProducerKeepsAttempts ==
    ASSUME IInv, AttemptsInv, Producer
    PROVE  AttemptsInv' /\ AttemptsGrow
  <1>1. /\ UNCHANGED relayVars
        /\ lastEnqueued' \in 0..MaxEvents
    BY ProducerHasEffect DEF ProducerEffect
  <1>2. /\ lastEnqueued' >= lastEnqueued
        /\ \A e \in Events :
             row'[e] = row[e] \/ (e > lastEnqueued /\ row'[e].attempts = 0)
    <2>1. ASSUME NEW w, NEW time, InsertRow(lastEnqueued + 1, w, time)
          PROVE  /\ lastEnqueued' >= lastEnqueued
                 /\ \A e \in Events :
                      row'[e] = row[e] \/ (e > lastEnqueued /\ row'[e].attempts = 0)
      BY <2>1 DEF InsertRow, IInv, TypeOK
    <2>2. CASE UNCHANGED <<row, lastEnqueued>>
      BY <2>2 DEF IInv, TypeOK
    <2>3. QED
      BY <2>1, <2>2 DEF Producer, ClockTicks, EnqueueAlone, BeginTransaction,
                        EnqueueInTransaction, EndTransaction
  <1>3. \A e \in Events : row[e].attempts \in 0..MaxAttempts
    BY DEF IInv, TypeOK, Rows
  <1>4. AttemptsGrow
    BY <1>2, <1>3, MaxAttemptsAssumption DEF AttemptsGrow, AttemptsInv, FreshAttempts
  <1>5. FreshAttempts'
    <2>1. lastEnqueued \in Int /\ lastEnqueued' \in Int /\ Events \subseteq Int
      BY <1>1, MaxEventsAssumption DEF IInv, TypeOK, Events
    <2>2. QED
      BY <1>2, <2>1 DEF AttemptsInv, FreshAttempts
  <1>6. CurrentTaken'
    BY <1>1 DEF AttemptsInv, CurrentTaken, relayVars
  <1>7. ASSUME NEW r \in Relays
        PROVE  SnapshotIsRow(r)'
    <2>1. \A e \in Events : Visible(e) => row'[e] = row[e]
      BY <1>2, FreshRow
    <2>2. /\ batch[r] \subseteq Events /\ \A e \in batch[r] : Visible(e)
          /\ pc[r] \in InLoop => current[r] \in Events /\ Visible(current[r])
      BY DEF IInv, TypeOK, BatchesVisible, CurrentVisible
    <2>3. QED
      BY <1>1, <2>1, <2>2 DEF AttemptsInv, SnapshotIsRow, relayVars, InLoop
  <1>8. QED
    BY <1>4, <1>5, <1>6, <1>7 DEF AttemptsInv

LEMMA NextKeepsAttempts ==
    ASSUME \A q, r \in Relays : q = r, IInv, AttemptsInv, [Next]_vars
    PROVE  AttemptsInv' /\ (AttemptsGrow \/ UNCHANGED vars)
  <1>1. CASE UNCHANGED vars
    BY <1>1 DEF vars, producerVars, relayVars, AttemptsInv, CurrentTaken, FreshAttempts,
                SnapshotIsRow, InLoop
  <1>2. CASE Producer
    BY <1>2, ProducerKeepsAttempts
  <1>3. ASSUME NEW r \in Relays, RelayStep(r) \/ RelayFault(r)
        PROVE  AttemptsInv' /\ AttemptsGrow
    <2>1. /\ SnapshotIsRow(r)' /\ AttemptsGrow
          /\ \A e \in Events : ~Visible(e) => row'[e] = row[e]
      BY <1>3, RelayKeepsAttempts
    <2>2. \A q \in Relays : SnapshotIsRow(q)'
      BY <2>1
    <2>3. CurrentTaken'
      BY <1>3, StepKinds DEF AttemptsInv, CurrentTaken
    <2>4. FreshAttempts'
      <3>1. lastEnqueued' = lastEnqueued
        BY <1>3, RelayEffect DEF IInv, producerVars
      <3>2. \A e \in Events : e > lastEnqueued => ~Visible(e)
        BY FreshRow
      <3>3. QED
        BY <2>1, <3>1, <3>2 DEF AttemptsInv, FreshAttempts
    <2>5. QED
      BY <2>1, <2>2, <2>3, <2>4 DEF AttemptsInv
  <1>4. QED
    BY <1>1, <1>2, <1>3 DEF Next

\* With one relay attempts never goes back, although success writes it from the
\* copy of the row read before publishing (outbox-relay.service.ts:42-46).
THEOREM OneRelayCountsUp ==
    ASSUME \A q, r \in Relays : q = r
    PROVE  Spec => AttemptsNeverDecrease
  <1>1. Init => AttemptsInv
    BY DEF Init, AttemptsInv, CurrentTaken, FreshAttempts, SnapshotIsRow, InLoop
  <1>2. IInv /\ AttemptsInv /\ [Next]_vars => AttemptsInv'
    BY NextKeepsAttempts
  <1>3. IInv /\ AttemptsInv /\ [Next]_vars
          => [\A e \in Events : row[e].attempts <= row'[e].attempts]_vars
    BY NextKeepsAttempts DEF AttemptsGrow
  <1>4. QED
    BY <1>1, <1>2, <1>3, Invariance, PTL DEF Spec, AttemptsNeverDecrease

----------------------------------------------------------------------------
(* The order one relay keeps *)

\* Relay r has not got to f, and if f is in its batch it settles e before f.
Ahead(e, f, r) ==
    /\ pc[r] \in InLoop => current[r] # f
    /\ f \in batch[r] => e \in batch[r] \/ (pc[r] = "publishing" /\ current[r] = e)

FirstInLine(e, f) == e \in OnTopic \/ (f \notin OnTopic /\ \A r \in Relays : Ahead(e, f, r))

\* What stays true from the instant on at which e is committed and f is not.
InOrder(e, f) ==
    /\ Visible(e)
    /\ faults = 0 /\ occurredAt[e] < occurredAt[f] => FirstInLine(e, f)

\* No relay has ever seen a row that is not committed.
LEMMA UnseenIsLater ==
    ASSUME IInv, NEW e \in Events, NEW f \in Events, ~Visible(f)
    PROVE  FirstInLine(e, f)
  BY DEF IInv, TopicOnlyCommitted, BatchesVisible, CurrentVisible, FirstInLine, Ahead

\* The loop takes the row that occurred first, so never f while e is left.
LEMMA LoopKeepsAhead ==
    ASSUME IInv, NEW r \in Relays, NextInLoop(r), pc[r] # "publishing",
           NEW e \in Events, NEW f \in Events, occurredAt[e] < occurredAt[f], Ahead(e, f, r)
    PROVE  Ahead(e, f, r)'
  <1>1. f \in batch[r] => e \in batch[r]
    BY DEF Ahead
  <1>2. CASE GoIdle(r)
    BY <1>2, GoIdleEffect DEF IInv, Ahead, InLoop
  <1>3. ASSUME NEW g \in Oldest(batch[r]),
               /\ Goto(r, "publishing")
               /\ current' = [current EXCEPT ![r] = g]
               /\ batch' = [batch EXCEPT ![r] = @ \ {g}]
        PROVE  Ahead(e, f, r)'
    <2>1. /\ pc'[r] = "publishing" /\ current'[r] = g /\ batch'[r] = batch[r] \ {g}
          /\ batch[r] \subseteq Events
      BY <1>3 DEF IInv, TypeOK, Goto
    <2>2. g # f
      <3>1. occurredAt[e] \in Int /\ occurredAt[f] \in Int
        BY MaxClockAssumption DEF IInv, TypeOK
      <3>2. g = f => e \in batch[r] /\ occurredAt[f] <= occurredAt[e]
        BY <1>1 DEF Oldest
      <3>3. QED
        BY <3>1, <3>2
    <2>3. QED
      BY <1>1, <2>1, <2>2 DEF Ahead
  <1>4. QED
    BY <1>2, <1>3 DEF NextInLoop

\* A poll that returns f returns e as well: e is a candidate and occurred first.
LEMMA PollKeepsAhead ==
    ASSUME \A q, s \in Relays : q = s, IInv, NEW r \in Relays, SelectBatch(r),
           NEW e \in Events, NEW f \in Events, Visible(e), e \notin OnTopic,
           occurredAt[e] < occurredAt[f]
    PROVE  Ahead(e, f, r)'
  <1>1. PICK S \in Batches : batch' = [batch EXCEPT ![r] = S]
    BY DEF SelectBatch
  <1>2. /\ pc[r] = "idle" /\ pc'[r] = "selected" /\ batch'[r] = S
        /\ occurredAt[e] \in Int /\ occurredAt[f] \in Int
    BY <1>1, MaxClockAssumption DEF SelectBatch, Goto, IInv, TypeOK
  <1>3. e \in Candidates
    <2>1. ~row[e].published
      BY DEF IInv, PublishedIsOnTopic
    <2>2. ~Locked(e)
      BY <1>2 DEF Locked
    <2>3. QED
      BY <2>1, <2>2 DEF Candidates
  <1>4. f \in S => e \in S
    BY <1>2, <1>3 DEF Batches
  <1>5. QED
    BY <1>2, <1>4 DEF Ahead, InLoop

LEMMA RelayKeepsLine ==
    ASSUME \A q, s \in Relays : q = s, IInv, NEW r \in Relays, RelayStep(r),
           NEW e \in Events \ Undeliverable, NEW f \in Events, Visible(e),
           occurredAt[e] < occurredAt[f], FirstInLine(e, f)
    PROVE  FirstInLine(e, f)'
  <1>1. OnTopic \subseteq OnTopic'
    BY RelayEffect, TopicGrows DEF IInv
  <1>2. CASE e \in OnTopic
    BY <1>1, <1>2 DEF FirstInLine
  <1>3. CASE e \notin OnTopic
    <2>1. f \notin OnTopic /\ Ahead(e, f, r)
      BY <1>3 DEF FirstInLine
    <2>2. ASSUME topic' = topic, Ahead(e, f, r)'
          PROVE  FirstInLine(e, f)'
      BY <2>1, <2>2 DEF FirstInLine, OnTopic
    <2>3. CASE SelectBatch(r)
      BY <1>3, <2>2, <2>3, PollKeepsAhead DEF SelectBatch
    <2>4. CASE CommitSelection(r) \/ MarkPublished(r) \/ NoteError(r)
      BY <2>1, <2>2, <2>4, LoopKeepsAhead DEF CommitSelection, MarkPublished, NoteError
    <2>5. CASE Publish(r)
      <3>1. /\ pc[r] = "publishing" /\ current[r] \in Events /\ current[r] # f
            /\ topic \in Seq(Events) /\ topic' = Append(topic, current[r])
            /\ pc'[r] = "marking" /\ UNCHANGED <<current, batch>>
        BY <2>1, <2>5 DEF Publish, Goto, IInv, TypeOK, CurrentVisible, Ahead, InLoop
      <3>2. OnTopic' = OnTopic \cup {current[r]}
        BY <3>1, AppendElements DEF OnTopic
      <3>3. QED
        BY <2>1, <3>1, <3>2 DEF FirstInLine, Ahead, InLoop
    <2>6. CASE PublishRejected(r)
      <3>1. /\ pc[r] = "publishing" /\ current[r] # e /\ topic' = topic
            /\ pc'[r] = "counting" /\ UNCHANGED <<current, batch>>
        BY <2>6 DEF PublishRejected, Goto, IInv, TypeOK
      <3>2. QED
        BY <2>1, <2>2, <3>1 DEF Ahead, InLoop
    <2>7. CASE CountFailure(r)
      <3>1. /\ pc[r] = "counting" /\ topic' = topic
            /\ pc'[r] = "noting" /\ UNCHANGED <<current, batch>>
        BY <2>7 DEF CountFailure, Goto, IInv, TypeOK
      <3>2. QED
        BY <2>1, <2>2, <3>1 DEF Ahead, InLoop
    <2>8. QED
      BY <2>3, <2>4, <2>5, <2>6, <2>7 DEF RelayStep
  <1>4. QED
    BY <1>2, <1>3

\* The time of a committed row is never written again.
LEMMA TimesStay ==
    ASSUME IInv, Producer, NEW e \in Events, Visible(e)
    PROVE  occurredAt'[e] = occurredAt[e]
  <1>1. ASSUME NEW w, NEW time, InsertRow(lastEnqueued + 1, w, time)
        PROVE  occurredAt'[e] = occurredAt[e]
    <2>1. e # lastEnqueued + 1
      BY <1>1, FreshRow DEF InsertRow, IInv, TypeOK
    <2>2. QED
      BY <1>1, <2>1 DEF InsertRow, IInv, TypeOK
  <1>2. CASE UNCHANGED occurredAt
    BY <1>2
  <1>3. QED
    BY <1>1, <1>2 DEF Producer, ClockTicks, EnqueueAlone, BeginTransaction,
                      EnqueueInTransaction, EndTransaction

LEMMA NextKeepsOrder ==
    ASSUME \A q, s \in Relays : q = s, IInv, [Next]_vars,
           NEW e \in Events \ Undeliverable, NEW f \in Events, InOrder(e, f)
    PROVE  InOrder(e, f)'
  <1>1. CASE Producer
    <2>1. UNCHANGED <<relayVars, topic, faults>> /\ Visible(e)'
      BY <1>1, ProducerHasEffect DEF ProducerEffect, InOrder
    <2>2. FirstInLine(e, f) => FirstInLine(e, f)'
      BY <2>1 DEF FirstInLine, Ahead, OnTopic, relayVars
    <2>3. CASE ~Visible(f)
      BY <2>1, <2>2, <2>3, UnseenIsLater DEF InOrder
    <2>4. CASE Visible(f)
      BY <1>1, <2>1, <2>2, <2>4, TimesStay DEF InOrder
    <2>5. QED
      BY <2>3, <2>4
  <1>2. ASSUME NEW r \in Relays, RelayStep(r) \/ RelayFault(r)
        PROVE  InOrder(e, f)'
    <2>1. UNCHANGED producerVars
      BY <1>2, RelayEffect DEF IInv
    <2>2. Visible(e)' /\ UNCHANGED occurredAt
      BY <2>1 DEF producerVars, Visible, InOrder
    <2>3. CASE RelayFault(r)
      <3>1. faults' = faults + 1 /\ faults \in Nat
        BY <2>3, MaxFaultsAssumption DEF RelayFault, PublishFails, ProducerResends, MarkFails,
           CatchFails, Crash, Fault, IInv, TypeOK
      <3>2. QED
        BY <2>2, <3>1 DEF InOrder
    <2>4. CASE RelayStep(r)
      <3>1. faults' = faults
        BY <2>4 DEF RelayStep, SelectBatch, CommitSelection, Publish, PublishRejected,
                    MarkPublished, CountFailure, NoteError
      <3>2. QED
        BY <2>2, <2>4, <3>1, RelayKeepsLine DEF InOrder
    <2>5. QED
      BY <1>2, <2>3, <2>4
  <1>3. CASE UNCHANGED vars
    BY <1>3 DEF vars, producerVars, relayVars, InOrder, FirstInLine, Ahead, OnTopic, Visible
  <1>4. QED
    BY <1>1, <1>2, <1>3 DEF Next

\* One pair of events, as a temporal formula.
LEMMA OrderForGood ==
    ASSUME \A q, s \in Relays : q = s,
           NEW e \in Events \ Undeliverable, NEW f \in Events
    PROVE  Spec => [](Visible(e) /\ ~Visible(f) =>
                        [](faults = 0 /\ occurredAt[e] < occurredAt[f] /\ f \in OnTopic
                             => e \in OnTopic))
  <1> DEFINE Kept == faults = 0 /\ occurredAt[e] < occurredAt[f] /\ f \in OnTopic
                       => e \in OnTopic
  <1>1. IInv /\ Visible(e) /\ ~Visible(f) => InOrder(e, f)
    BY UnseenIsLater DEF InOrder
  <1>2. IInv /\ InOrder(e, f) /\ [Next]_vars => InOrder(e, f)'
    BY NextKeepsOrder
  <1>3. InOrder(e, f) => Kept
    BY DEF InOrder, FirstInLine
  <1> HIDE DEF Kept
  <1>4. Spec => [](Visible(e) /\ ~Visible(f) => []Kept)
    BY <1>1, <1>2, <1>3, Invariance, PTL DEF Spec
  <1>5. QED
    BY <1>4 DEF Kept

\* With one relay, any batch size and any number of events and polls: what was
\* committed before another event was, and at an earlier instant, reaches the
\* topic first as long as no call fails.
THEOREM OneRelayKeepsCommitOrder ==
    ASSUME \A q, s \in Relays : q = s
    PROVE  Spec => CommitOrderKept
  <1>1. ASSUME NEW e \in Events \ Undeliverable, NEW f \in Events
        PROVE  Spec => [](Visible(e) /\ ~Visible(f) =>
                            [](faults = 0 /\ occurredAt[e] < occurredAt[f] /\ f \in OnTopic
                                 => e \in OnTopic))
    BY OrderForGood
  <1>2. QED
    BY <1>1 DEF CommitOrderKept

----------------------------------------------------------------------------
(* A batch full of undeliverable rows *)

\* Kafka never holds an event whose topic the broker rejects.
NoneDelivered == \A f \in Undeliverable : f \notin OnTopic

\* The relays neither have e nor have had it published.
Unreached(e) ==
    /\ e \notin OnTopic
    /\ \A r \in Relays : e \notin batch[r] /\ (pc[r] \in InLoop => current[r] # e)

\* e waits behind the older rows of S.
Behind(S, e) ==
    /\ Visible(e) /\ Unreached(e)
    /\ \A f \in S : Visible(f) /\ occurredAt[f] < occurredAt[e]

LEMMA RelayKeepsNoneDelivered ==
    ASSUME IInv, NoneDelivered, NEW r \in Relays, RelayStep(r) \/ RelayFault(r)
    PROVE  /\ NoneDelivered'
           /\ OnTopic' = OnTopic \/ (pc[r] = "publishing" /\ OnTopic' = OnTopic \cup {current[r]})
  <1>1. CASE topic' = topic
    BY <1>1 DEF NoneDelivered, OnTopic
  <1>2. CASE pc[r] = "publishing" /\ current[r] \notin Undeliverable
             /\ topic' = Append(topic, current[r])
    <2>1. current[r] \in Events /\ topic \in Seq(Events)
      BY <1>2 DEF IInv, TypeOK, CurrentVisible, InLoop
    <2>2. OnTopic' = OnTopic \cup {current[r]}
      BY <1>2, <2>1, AppendElements DEF OnTopic
    <2>3. QED
      BY <1>2, <2>2 DEF NoneDelivered
  <1>3. QED
    BY <1>1, <1>2 DEF RelayStep, SelectBatch, CommitSelection, Publish, PublishRejected,
       MarkPublished, CountFailure, NoteError, RelayFault, PublishFails, ProducerResends,
       MarkFails, CatchFails, Crash

\* Only a poll puts rows into a batch.
LEMMA BatchesShrink ==
    ASSUME IInv, NEW r \in Relays, RelayStep(r) \/ RelayFault(r), ~SelectBatch(r)
    PROVE  batch'[r] \subseteq batch[r]
  <1>1. CASE NextInLoop(r) \/ GoIdle(r)
    BY <1>1, NextInLoopEffect, GoIdleEffect DEF IInv
  <1>2. CASE UNCHANGED batch
    BY <1>2
  <1>3. QED
    BY <1>1, <1>2 DEF RelayStep, CommitSelection, Publish, PublishRejected, MarkPublished,
       CountFailure, NoteError, RelayFault, PublishFails, ProducerResends, MarkFails,
       CatchFails, Crash, relayVars

\* No batch is larger than the poll's LIMIT.
BatchesSmall == \A r \in Relays : Cardinality(batch[r]) <= BatchSize

\* Sets of at most k elements, as many as D has, cover at most |D| * k elements.
LEMMA CoveredSize ==
    ASSUME NEW D, IsFiniteSet(D), NEW k \in Nat, NEW part,
           \A d \in D : IsFiniteSet(part[d]) /\ Cardinality(part[d]) <= k,
           NEW U, \A x \in U : \E d \in D : x \in part[d]
    PROVE  IsFiniteSet(U) /\ Cardinality(U) <= Cardinality(D) * k
  <1> DEFINE Numbering(d) == CHOOSE b : b \in Bijection(1..Cardinality(part[d]), part[d])
             Place(d, x) == CHOOSE i \in 1..Cardinality(part[d]) : Numbering(d)[i] = x
             Home(x) == CHOOSE d \in D : x \in part[d]
             F == [x \in U |-> <<Home(x), Place(Home(x), x)>>]
  <1>1. ASSUME NEW d \in D, NEW x \in part[d]
        PROVE  Place(d, x) \in 1..k /\ Numbering(d)[Place(d, x)] = x
    <2>1. Numbering(d) \in Bijection(1..Cardinality(part[d]), part[d])
      BY FS_CardinalityType DEF ExistsBijection
    <2> HIDE DEF Numbering
    <2>2. \E i \in 1..Cardinality(part[d]) : Numbering(d)[i] = x
      BY <2>1 DEF Bijection, Surjection
    <2>3. Place(d, x) \in 1..Cardinality(part[d]) /\ Numbering(d)[Place(d, x)] = x
      BY <2>2
    <2>4. Cardinality(part[d]) \in Nat /\ Cardinality(part[d]) <= k
      BY FS_CardinalityType
    <2> HIDE DEF Place
    <2>5. QED
      BY <2>3, <2>4
  <1>2. \A x \in U : Home(x) \in D /\ x \in part[Home(x)]
    OBVIOUS
  <1> HIDE DEF Numbering, Place, Home
  <1>3. F \in [U -> D \X (1..k)]
    BY <1>1, <1>2
  <1>4. \A x, y \in U : F[x] = F[y] => x = y
    <2> SUFFICES ASSUME NEW x \in U, NEW y \in U, F[x] = F[y]
                 PROVE  x = y
      OBVIOUS
    <2>1. Home(x) = Home(y) /\ Place(Home(x), x) = Place(Home(y), y)
      OBVIOUS
    <2>2. QED
      BY <1>1, <1>2, <2>1
  <1>5. F \in Injection(U, D \X (1..k))
    BY <1>3, <1>4 DEF Injection, IsInjective
  <1> HIDE DEF F
  <1>6. IsFiniteSet(1..k) /\ Cardinality(1..k) = k
    BY FS_Interval
  <1>7. IsFiniteSet(D \X (1..k)) /\ Cardinality(D \X (1..k)) = Cardinality(D) * k
    BY <1>6, FS_Product
  <1>8. QED
    BY <1>5, <1>7, FS_Injection

LEMMA EventsFinite == IsFiniteSet(Events)
  BY FS_Interval, MaxEventsAssumption DEF Events

\* The other relays cannot lock all of as many rows as all relays' batches hold.
LEMMA EnoughUnlocked ==
    ASSUME IInv, BatchesSmall, NEW r \in Relays, pc[r] = "idle",
           NEW S \in SUBSET Events, Cardinality(S) = Cardinality(Relays) * BatchSize
    PROVE  Cardinality({f \in S : ~Locked(f)}) >= BatchSize
  <1> DEFINE U == {f \in S : Locked(f)}
             Free == {f \in S : ~Locked(f)}
  <1>1. /\ IsFiniteSet(Relays \ {r})
        /\ Cardinality(Relays \ {r}) = Cardinality(Relays) - 1
        /\ Cardinality(Relays) \in Nat
    BY RelaysAssumption, FS_RemoveElement, FS_CardinalityType
  <1>2. \A q \in Relays \ {r} : IsFiniteSet(batch[q]) /\ Cardinality(batch[q]) <= BatchSize
    BY EventsFinite, FS_Subset DEF BatchesSmall, IInv, TypeOK
  <1>3. \A f \in U : \E q \in Relays \ {r} : f \in batch[q]
    BY DEF Locked
  <1>4. IsFiniteSet(S) /\ IsFiniteSet(U) /\ IsFiniteSet(Free)
    BY EventsFinite, FS_Subset
  <1> HIDE DEF U, Free
  <1>5. Cardinality(U) <= (Cardinality(Relays) - 1) * BatchSize
    BY <1>1, <1>2, <1>3, CoveredSize, BatchSizeAssumption
  <1>6. Cardinality(S) = Cardinality(U) + Cardinality(Free)
    <2>1. S = U \cup Free /\ U \cap Free = {}
      BY DEF U, Free
    <2>2. Cardinality(S) = Cardinality(U) + Cardinality(Free) - Cardinality({})
      BY <1>4, <2>1, FS_Union
    <2>3. Cardinality(U) \in Nat /\ Cardinality(Free) \in Nat /\ Cardinality({}) = 0
      BY <1>4, FS_CardinalityType, FS_EmptySet
    <2>4. QED
      BY <2>2, <2>3
  <1>7. \A n, k \in Nat : (n - 1) * k = n * k - k
    OBVIOUS
  <1>8. Cardinality(U) \in Nat /\ Cardinality(Free) \in Nat
    BY <1>4, FS_CardinalityType
  <1>9. Cardinality(Free) >= BatchSize
    <2> DEFINE nk == Cardinality(Relays) * BatchSize
    <2>1. nk \in Nat
      BY <1>1, BatchSizeAssumption
    <2>2. Cardinality(U) <= nk - BatchSize
      BY <1>1, <1>5, <1>7, BatchSizeAssumption
    <2>3. nk = Cardinality(U) + Cardinality(Free)
      BY <1>6
    <2> HIDE DEF nk
    <2>4. QED
      BY <1>8, <2>1, <2>2, <2>3, BatchSizeAssumption
  <1>10. QED
    BY <1>9 DEF Free

\* BatchSize older candidates leave no place for e in a batch.
LEMMA NoPlaceLeft ==
    ASSUME IInv, BatchesSmall, NoneDelivered, NEW r \in Relays, SelectBatch(r),
           NEW S \in SUBSET Undeliverable, Cardinality(S) = Cardinality(Relays) * BatchSize,
           NEW e \in Events, Behind(S, e)
    PROVE  e \notin batch'[r]
  <1> DEFINE Free == {f \in S : ~Locked(f)}
  <1>1. PICK T \in Batches : batch' = [batch EXCEPT ![r] = T]
    BY DEF SelectBatch
  <1>2. batch'[r] = T /\ T \subseteq Events /\ Cardinality(T) <= BatchSize
    BY <1>1 DEF IInv, TypeOK, Batches, Candidates
  <1>3. S \subseteq Events /\ IsFiniteSet(Free) /\ IsFiniteSet(T) /\ e \notin Free
    <2>1. S \subseteq Events
      BY UndeliverableAssumption
    <2>2. e \notin S
      BY MaxClockAssumption DEF Behind, IInv, TypeOK
    <2>3. QED
      BY <1>2, <2>1, <2>2, EventsFinite, FS_Subset
  <1>4. Cardinality(Free) >= BatchSize
    BY <1>3, EnoughUnlocked DEF SelectBatch
  <1>5. Free \subseteq Candidates
    <2> SUFFICES ASSUME NEW f \in S, ~Locked(f)
                 PROVE  f \in Candidates
      OBVIOUS
    <2>1. ~row[f].published
      BY <1>3 DEF NoneDelivered, IInv, PublishedIsOnTopic
    <2>2. QED
      BY <1>3, <2>1 DEF Candidates, Behind
  <1>6. e \in T => Free \cup {e} \subseteq T
    <2> SUFFICES ASSUME e \in T, NEW f \in Free
                 PROVE  f \in T
      OBVIOUS
    <2>1. occurredAt[f] < occurredAt[e] /\ occurredAt[f] \in Int /\ occurredAt[e] \in Int
      BY <1>3, MaxClockAssumption DEF Behind, IInv, TypeOK
    <2>2. f \notin T => occurredAt[e] <= occurredAt[f]
      BY <1>5 DEF Batches
    <2>3. QED
      BY <2>1, <2>2
  <1> HIDE DEF Free
  <1>7. Cardinality(Free \cup {e}) = Cardinality(Free) + 1 /\ Cardinality(Free) \in Int
    BY <1>3, FS_AddElement, FS_CardinalityType
  <1>8. e \in T => Cardinality(Free \cup {e}) <= Cardinality(T) /\ Cardinality(T) \in Int
    BY <1>3, <1>6, FS_Subset, FS_CardinalityType
  <1>9. QED
    BY <1>2, <1>4, <1>7, <1>8, BatchSizeAssumption

LEMMA RelayKeepsSmall ==
    ASSUME IInv, BatchesSmall, NEW r \in Relays, RelayStep(r) \/ RelayFault(r)
    PROVE  BatchesSmall'
  <1>1. \A q \in Relays \ {r} : batch'[q] = batch[q]
    BY RelayEffect DEF IInv, LocalEffect
  <1>2. CASE SelectBatch(r)
    <2>1. Cardinality(batch'[r]) <= BatchSize
      BY <1>2 DEF SelectBatch, Batches, IInv, TypeOK
    <2>2. QED
      BY <1>1, <2>1 DEF BatchesSmall
  <1>3. CASE ~SelectBatch(r)
    <2>1. batch'[r] \subseteq batch[r] /\ batch[r] \subseteq Events
      BY <1>3, BatchesShrink DEF IInv, TypeOK
    <2>2. IsFiniteSet(batch[r])
      BY <2>1, EventsFinite, FS_Subset
    <2>3. Cardinality(batch'[r]) <= Cardinality(batch[r])
          /\ Cardinality(batch[r]) \in Nat /\ Cardinality(batch'[r]) \in Nat
      BY <2>1, <2>2, FS_Subset, FS_CardinalityType
    <2>4. Cardinality(batch'[r]) <= BatchSize
      BY <2>3, BatchSizeAssumption DEF BatchesSmall
    <2>5. QED
      BY <1>1, <2>4 DEF BatchesSmall
  <1>4. QED
    BY <1>2, <1>3

LEMMA PollsAreSmall == Spec => []BatchesSmall
  <1>1. Init => BatchesSmall
    BY FS_EmptySet, BatchSizeAssumption DEF Init, BatchesSmall
  <1>2. IInv /\ BatchesSmall /\ [Next]_vars => BatchesSmall'
    <2> SUFFICES ASSUME IInv, BatchesSmall, [Next]_vars PROVE BatchesSmall'
      OBVIOUS
    <2>1. CASE Producer \/ UNCHANGED vars
      <3>1. batch' = batch
        BY <2>1, ProducerHasEffect DEF ProducerEffect, relayVars, vars
      <3>2. QED
        BY <3>1 DEF BatchesSmall
    <2>2. QED
      BY <2>1, RelayKeepsSmall DEF Next
  <1>3. QED
    BY <1>1, <1>2, Invariance, PTL DEF Spec

LEMMA RelayLeavesBehind ==
    ASSUME IInv, BatchesSmall, NoneDelivered, NEW r \in Relays,
           RelayStep(r) \/ RelayFault(r),
           NEW S \in SUBSET Undeliverable, Cardinality(S) = Cardinality(Relays) * BatchSize,
           NEW e \in Events, Behind(S, e)
    PROVE  Unreached(e)'
  <1>1. e \notin OnTopic /\ e \notin batch[r] /\ (pc[r] \in InLoop => current[r] # e)
    BY DEF Behind, Unreached
  <1>2. e \notin OnTopic'
    BY <1>1, RelayKeepsNoneDelivered DEF InLoop
  <1>3. e \notin batch'[r]
    BY <1>1, NoPlaceLeft, BatchesShrink
  <1>4. pc'[r] \in InLoop => current'[r] # e
    BY <1>1, RelayEffect DEF IInv, LocalEffect
  <1>5. \A q \in Relays \ {r} : batch'[q] = batch[q] /\ pc'[q] = pc[q] /\ current'[q] = current[q]
    BY RelayEffect DEF IInv, LocalEffect
  <1>6. QED
    BY <1>2, <1>3, <1>4, <1>5 DEF Unreached, Behind

LEMMA NextLeavesBehind ==
    ASSUME IInv, BatchesSmall, NoneDelivered, [Next]_vars,
           NEW S \in SUBSET Undeliverable, Cardinality(S) = Cardinality(Relays) * BatchSize,
           NEW e \in Events, Behind(S, e)
    PROVE  Behind(S, e)'
  <1>1. S \subseteq Events
    BY UndeliverableAssumption
  <1>2. CASE Producer
    <2>1. UNCHANGED <<relayVars, topic>> /\ \A f \in Events : Visible(f) => Visible(f)'
      BY <1>2, ProducerHasEffect DEF ProducerEffect
    <2>2. \A f \in S \cup {e} : occurredAt'[f] = occurredAt[f] /\ Visible(f)'
      BY <1>1, <1>2, <2>1, TimesStay DEF Behind
    <2>3. Unreached(e)'
      BY <2>1 DEF Behind, Unreached, OnTopic, relayVars
    <2>4. QED
      BY <2>2, <2>3 DEF Behind
  <1>3. ASSUME NEW r \in Relays, RelayStep(r) \/ RelayFault(r)
        PROVE  Behind(S, e)'
    <2>1. UNCHANGED producerVars
      BY <1>3, RelayEffect DEF IInv
    <2>2. Unreached(e)'
      BY <1>3, RelayLeavesBehind
    <2>3. QED
      BY <2>1, <2>2 DEF Behind, producerVars, Visible
  <1>4. CASE UNCHANGED vars
    BY <1>4 DEF vars, producerVars, relayVars, Behind, Unreached, OnTopic, Visible
  <1>5. QED
    BY <1>2, <1>3, <1>4 DEF Next

LEMMA NeverDelivered == Spec => []NoneDelivered
  <1>1. Init => NoneDelivered
    BY DEF Init, NoneDelivered, OnTopic
  <1>2. IInv /\ NoneDelivered /\ [Next]_vars => NoneDelivered'
    <2> SUFFICES ASSUME IInv, NoneDelivered, [Next]_vars
                 PROVE  NoneDelivered'
      OBVIOUS
    <2>1. CASE UNCHANGED topic
      BY <2>1 DEF NoneDelivered, OnTopic
    <2>2. CASE Producer
      BY <2>1, <2>2, ProducerHasEffect DEF ProducerEffect
    <2>3. QED
      BY <2>1, <2>2, RelayKeepsNoneDelivered DEF Next, vars
  <1>3. QED
    BY <1>1, <1>2, Invariance, PTL DEF Spec

\* For every number of relays and every batch size: behind as many older rows that
\* the broker rejects as all relays' batches hold together no relay ever reaches an
\* event again, whatever is retried, whatever else is enqueued and however often the
\* relays restart (outbox-relay.service.ts:29-35; the rejected rows stay the oldest,
\* since attempts is never looked at, and relays can only lock some of them).
THEOREM FullBatchesStarve ==
    ASSUME NEW S \in SUBSET Undeliverable, Cardinality(S) = Cardinality(Relays) * BatchSize,
           NEW e \in Events
    PROVE  Spec => [](Behind(S, e) => []Unreached(e))
  <1>1. IInv /\ BatchesSmall /\ NoneDelivered /\ Behind(S, e) /\ [Next]_vars => Behind(S, e)'
    BY NextLeavesBehind
  <1>2. Behind(S, e) => Unreached(e)
    BY DEF Behind
  <1>3. QED
    BY <1>1, <1>2, Invariance, PollsAreSmall, NeverDelivered, PTL DEF Spec
============================================================================
