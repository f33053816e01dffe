--------------------------- MODULE EventPipeline ---------------------------
(***************************************************************************)
(* The outbox and the consumers together, from the transaction that        *)
(* commits a fact to the row of the ledger that records its handling: if   *)
(* Kafka invents nothing on the way, the two stages, each of which         *)
(* implements EventPublication, implement it once more from end to end.    *)
(*                                                                         *)
(* The system is the conjunction of the two specifications: they share no  *)
(* variable and meet in Kafka, whose topic the relays write and whose      *)
(* partition the consumers read.                                           *)
(***************************************************************************)
EXTENDS Integers, TLAPS

CONSTANTS
    MaxEvents, Transactions, Relays, Undeliverable, BatchSize, MaxClock, MaxAttempts,
    MaxRelayFaults, Own,                        \* of the outbox
    Empty, Poison, Groups, Members, GroupOf, MaxMessages,
    MaxConsumerFaults,                          \* of the consumers
    None

VARIABLES
    transaction, startedAt, clock, lastEnqueued, writer, occurredAt, row,
    relayAt, batch, current, snapshot, topic,
    relayFaults,                                \* of the outbox
    log, start, committed, owner, position, pc, offset, ledger, handled,
    consumerFaults                              \* of the consumers

Events == 1..MaxEvents

Relay == INSTANCE OutboxRelayProofs WITH
    pc <- relayAt, faults <- relayFaults, MaxFaults <- MaxRelayFaults

Consumer == INSTANCE EventConsumerProofs WITH
    faults <- consumerFaults, MaxFaults <- MaxConsumerFaults

----------------------------------------------------------------------------
(* The system *)

\* Kafka delivers no event that no relay has appended to the topic.
KafkaAddsNothing == \A i \in DOMAIN log : log[i] \in Events => log[i] \in Relay!OnTopic

\* A step is one of the outbox or one of the consumers.
Separate == UNCHANGED Relay!vars \/ UNCHANGED Consumer!vars

System ==
    /\ Relay!Spec
    /\ Consumer!Spec
    /\ []KafkaAddsNothing
    /\ [][Separate]_<<Relay!vars, Consumer!vars>>

\* How far a fact has come: its transaction has committed, a handler has run for it, it
\* has a row in the ledger.
Committed == {e \in Events : Relay!Visible(e)}
Handled   == {e \in Events : \E g \in Groups : handled[g][e] > 0}
Recorded  == {e \in Events : ledger[e] # None}

\* The promise from end to end.
Publication == INSTANCE EventPublication WITH
    Facts        <- Events,
    committed    <- Committed,
    delivered    <- Handled,
    acknowledged <- Recorded

\* Handlers run for committed facts only, and the ledger records nothing that was
\* not handled.
OnlyFactsHandled == Handled \subseteq Committed /\ Recorded \subseteq Handled

\* The assumptions of both modules.
Assumptions ==
    /\ Relay!MaxEventsAssumption /\ Relay!RelaysAssumption
    /\ Relay!UndeliverableAssumption /\ Relay!BatchSizeAssumption
    /\ Relay!MaxClockAssumption /\ Relay!MaxAttemptsAssumption
    /\ Relay!MaxFaultsAssumption /\ Relay!NamesAssumption
    /\ Consumer!GroupOfAssumption /\ Consumer!MembersAssumption
    /\ Consumer!MaxMessagesAssumption /\ Consumer!MaxFaultsAssumption
    /\ Consumer!NamesAssumption

----------------------------------------------------------------------------
(* Proofs *)

LEMMA SameEvents == Relay!Events = Events
  BY DEF Relay!Events, Events

LEMMA InitPublication ==
    ASSUME Relay!Publication!Init, Consumer!Consumption!Init
    PROVE  Publication!Init
  BY SameEvents DEF Relay!Publication!Init, Consumer!Consumption!Init, Publication!Init,
     Committed, Handled, Recorded

\* A step of the outbox leaves the consumers alone and takes no fact back.
LEMMA OutboxImplements ==
    ASSUME [Relay!Publication!Next]_(Relay!Publication!vars), UNCHANGED Consumer!vars
    PROVE  [Publication!Next]_(Publication!vars)
  <1>1. Handled' = Handled /\ Recorded' = Recorded
    BY DEF Consumer!vars, Handled, Recorded
  <1>2. Committed \subseteq Committed'
    BY SameEvents DEF Committed, Relay!Publication!Next, Relay!Publication!vars,
       Relay!Publication!CommitFacts, Relay!Publication!Deliver, Relay!Publication!Acknowledge
  <1> DEFINE S == Committed' \ Committed
  <1>3. Committed' = Committed \cup S /\ S \in SUBSET (Events \ Committed)
    BY <1>2 DEF Committed
  <1> HIDE DEF S
  <1>4. Publication!CommitFacts
    BY <1>1, <1>3 DEF Publication!CommitFacts
  <1>5. QED
    BY <1>4 DEF Publication!Next

\* A step of the consumers handles or records what Kafka holds, hence a fact.
LEMMA ConsumersImplement ==
    ASSUME [Consumer!Consumption!Next]_(Consumer!Consumption!vars), UNCHANGED Relay!vars,
           KafkaAddsNothing, Relay!TopicOnlyCommitted
    PROVE  [Publication!Next]_(Publication!vars)
  <1>1. Committed' = Committed
    BY DEF Relay!vars, Relay!producerVars, Committed, Relay!Visible
  <1>2. \A e \in Events : (\E i \in DOMAIN log : log[i] = e) => e \in Committed
    BY DEF KafkaAddsNothing, Relay!TopicOnlyCommitted, Committed
  <1>3. CASE UNCHANGED Consumer!Consumption!vars \/ Consumer!Consumption!CommitFacts
    BY <1>1, <1>3 DEF Consumer!Consumption!vars, Consumer!Consumption!CommitFacts,
       Publication!vars, Handled, Recorded
  <1>4. CASE Consumer!Consumption!Deliver
    <2>1. Publication!Deliver
      BY <1>1, <1>2, <1>4 DEF Consumer!Consumption!Deliver, Publication!Deliver, Handled, Recorded
    <2>2. QED
      BY <2>1 DEF Publication!Next
  <1>5. CASE Consumer!Consumption!Acknowledge
    <2>1. Publication!Acknowledge
      BY <1>1, <1>5 DEF Consumer!Consumption!Acknowledge, Publication!Acknowledge, Handled, Recorded
    <2>2. QED
      BY <2>1 DEF Publication!Next
  <1>6. QED
    BY <1>3, <1>4, <1>5 DEF Consumer!Consumption!Next

\* From the transaction to the ledger: the outbox and any number of consumer groups
\* together handle committed facts only, record only what was handled, and take
\* nothing back, whatever fails, crashes, repeats or is rebalanced in either.
THEOREM EndToEnd ==
    ASSUME Assumptions
    PROVE  System => Publication!Spec
  <1>1. Relay!Spec => Relay!ImplementsPublication /\ []Relay!TopicOnlyCommitted
    BY Relay!Refinement, Relay!OnlyCommittedFacts, PTL DEF Assumptions
  <1>2. Consumer!Spec => Consumer!ImplementsConsumption
    BY Consumer!ConsumerRefinement, PTL DEF Assumptions
  <1>3. /\ [Relay!Publication!Next]_(Relay!Publication!vars)
        /\ [Consumer!Consumption!Next]_(Consumer!Consumption!vars)
        /\ [Separate]_<<Relay!vars, Consumer!vars>>
        /\ KafkaAddsNothing /\ Relay!TopicOnlyCommitted
        => [Publication!Next]_(Publication!vars)
    BY OutboxImplements, ConsumersImplement DEF Separate
  <1>4. QED
    BY <1>1, <1>2, <1>3, InitPublication, PTL
       DEF System, Publication!Spec, Relay!ImplementsPublication, Relay!Publication!Spec,
           Consumer!ImplementsConsumption, Consumer!Consumption!Spec

\* What that means in a state: no handler runs, and no row is written, for a fact
\* that was not committed, and none is recorded before it was handled.
THEOREM NothingInvented ==
    ASSUME Assumptions
    PROVE  System => []OnlyFactsHandled
  <1>1. Publication!Init => OnlyFactsHandled
    BY DEF Publication!Init, OnlyFactsHandled
  <1>2. OnlyFactsHandled /\ [Publication!Next]_(Publication!vars) => OnlyFactsHandled'
    BY DEF Publication!Next, Publication!vars, Publication!CommitFacts, Publication!Deliver,
       Publication!Acknowledge, OnlyFactsHandled
  <1>3. Publication!Spec => []OnlyFactsHandled
    BY <1>1, <1>2, PTL DEF Publication!Spec
  <1>4. QED
    BY <1>3, EndToEnd, PTL
============================================================================
