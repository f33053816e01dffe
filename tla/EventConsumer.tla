--------------------------- MODULE EventConsumer ---------------------------
(***************************************************************************)
(* KafkaEventConsumer of apps/api: members of consumer groups process one  *)
(* partition of a topic message by message, and record the events they     *)
(* have handled in the ledger platform_consumed_events.                    *)
(*                                                                         *)
(* KafkaJS is external: it calls process() for the messages of the         *)
(* partition a member owns, in offset order, calls it again for the same   *)
(* message when it threw, and commits the offset of messages it resolved.  *)
(* The handler is a field of the class; whatever handler is put there, a   *)
(* run of it is counted in `handled`.                                      *)
(***************************************************************************)
EXTENDS Integers, Sequences, FiniteSets

CONSTANTS
    Events,       \* event ids
    Empty,        \* a message without a value
    Poison,       \* a message that is not JSON or has no id or type
    Groups,       \* consumer groups (KAFKA_CONSUMER_GROUP)
    Members,      \* API processes that consume
    GroupOf,      \* the group of each member
    MaxMessages,  \* length of the log explored
    MaxFaults,    \* faults explored
    None          \* no owner, no ledger row

Messages == Events \cup {Empty, Poison}

ASSUME GroupOfAssumption     == GroupOf \in [Members -> Groups]
ASSUME MembersAssumption     == IsFiniteSet(Members)
ASSUME MaxMessagesAssumption == MaxMessages \in Nat
ASSUME MaxFaultsAssumption   == MaxFaults \in Nat
ASSUME NamesAssumption ==
    /\ None \notin Groups \cup Members
    /\ Empty \notin Events /\ Poison \notin Events

VARIABLES
    log,        \* the messages of the partition
    start,      \* where a group first subscribed, -1 before
    committed,  \* offsets committed by a group: messages 1..committed are done
    owner,      \* the member of a group that owns the partition
    position,   \* messages a member has resolved since it became owner
    pc,         \* where a member is in process()
    offset,     \* the message it is processing
    ledger,     \* rows of platform_consumed_events: event id -> consumer_group
    handled,    \* runs of the handler, per group and event
    faults

memberVars == <<position, pc, offset>>
vars == <<log, start, committed, owner, memberVars, ledger, handled, faults>>

Init ==
    /\ log = <<>>
    /\ start = [g \in Groups |-> -1]
    /\ committed = [g \in Groups |-> 0]
    /\ owner = [g \in Groups |-> None]
    /\ position = [m \in Members |-> 0]
    /\ pc = [m \in Members |-> "idle"]
    /\ offset = [m \in Members |-> 0]
    /\ ledger = [e \in Events |-> None]
    /\ handled = [g \in Groups |-> [e \in Events |-> 0]]
    /\ faults = 0

Fault == faults < MaxFaults /\ faults' = faults + 1

----------------------------------------------------------------------------
(* Kafka and KafkaJS *)

\* The topic receives events, possibly again: relays deliver at least once.
Produce(message) ==
    /\ Len(log) < MaxMessages
    /\ log' = Append(log, message)
    /\ UNCHANGED <<start, committed, owner, memberVars, ledger, handled, faults>>

\* subscribe({topic, fromBeginning: false}): a group without offsets starts at
\* the end of the log as it is now.
Subscribe(g) ==
    /\ start[g] = -1
    /\ start' = [start EXCEPT ![g] = Len(log)]
    /\ committed' = [committed EXCEPT ![g] = Len(log)]
    /\ UNCHANGED <<log, owner, memberVars, ledger, handled, faults>>

\* The group coordinator gives the partition to a member.
Assign(m) ==
    LET g == GroupOf[m] IN
    /\ start[g] # -1
    /\ pc[m] = "idle"
    /\ owner' = [owner EXCEPT ![g] = m]
    /\ position' = [position EXCEPT ![m] = committed[g]]
    /\ UNCHANGED <<log, start, committed, pc, offset, ledger, handled>>

Join(m) ==
    /\ owner[GroupOf[m]] = None
    /\ Assign(m)
    /\ UNCHANGED faults

\* A rebalance takes the partition from a live member, which may be inside
\* process() and does not notice before it returns.
Rebalance(m) ==
    /\ owner[GroupOf[m]] \notin {None, m}
    /\ Fault
    /\ Assign(m)

\* Offsets of resolved messages are committed some time after process().
CommitOffset(m) ==
    LET g == GroupOf[m] IN
    /\ owner[g] = m
    /\ position[m] > committed[g]
    /\ committed' = [committed EXCEPT ![g] = position[m]]
    /\ UNCHANGED <<log, start, owner, memberVars, ledger, handled, faults>>

----------------------------------------------------------------------------
(* process() *)

Event(m) == log[offset[m]]

\* process() returned: the message is resolved, if the member still owns it.
Resolve(m, i) ==
    /\ pc' = [pc EXCEPT ![m] = "idle"]
    /\ offset' = [offset EXCEPT ![m] = 0]
    /\ position' = [position EXCEPT ![m] = IF owner[GroupOf[m]] = m THEN i ELSE @]

\* process() threw: the message will be delivered again.
Throw(m) ==
    /\ pc' = [pc EXCEPT ![m] = "idle"]
    /\ offset' = [offset EXCEPT ![m] = 0]
    /\ UNCHANGED position

\* The synchronous part: a message without a value is resolved at once, one
\* that is no event throws every time (no step), an event reaches the ledger.
Receive(m) ==
    LET next == position[m] + 1 IN
    /\ owner[GroupOf[m]] = m
    /\ pc[m] = "idle"
    /\ next <= Len(log)
    /\ \/ log[next] = Empty /\ Resolve(m, next)
       \/ /\ log[next] \in Events
          /\ pc' = [pc EXCEPT ![m] = "checking"]
          /\ offset' = [offset EXCEPT ![m] = next]
          /\ UNCHANGED position
    /\ UNCHANGED <<log, start, committed, owner, ledger, handled, faults>>

\* Seeded fault: the ledger is not looked at.
CheckNothing(m) ==
    /\ pc[m] = "checking"
    /\ pc' = [pc EXCEPT ![m] = "handling"]
    /\ UNCHANGED <<position, offset, log, start, committed, owner, ledger, handled, faults>>

InsertRow(m) ==
    /\ ledger[Event(m)] = None
    /\ ledger' = [ledger EXCEPT ![Event(m)] = GroupOf[m]]

\* Seeded fault: the event is recorded before it is handled.
CheckRecordsFirst(m) ==
    /\ pc[m] = "checking"
    /\ \/ ledger[Event(m)] # None /\ UNCHANGED ledger /\ Resolve(m, offset[m])
       \/ /\ InsertRow(m)
          /\ pc' = [pc EXCEPT ![m] = "handling"]
          /\ UNCHANGED <<position, offset>>
    /\ UNCHANGED <<log, start, committed, owner, handled, faults>>

\* Seeded fault: an event that is in the ledger is treated as an error.
CheckThrowsWhenKnown(m) ==
    /\ pc[m] = "checking"
    /\ \/ ledger[Event(m)] # None /\ Throw(m)
       \/ /\ ledger[Event(m)] = None
          /\ pc' = [pc EXCEPT ![m] = "handling"]
          /\ UNCHANGED <<position, offset>>
    /\ UNCHANGED <<log, start, committed, owner, ledger, handled, faults>>

\* findOneBy({eventId}): an event in the ledger is skipped.
Check(m) ==
    /\ pc[m] = "checking"
    /\ \/ ledger[Event(m)] # None /\ Resolve(m, offset[m])
       \/ /\ ledger[Event(m)] = None
          /\ pc' = [pc EXCEPT ![m] = "handling"]
          /\ UNCHANGED <<position, offset>>
    /\ UNCHANGED <<log, start, committed, owner, ledger, handled, faults>>

RunHandler(m) == handled' = [handled EXCEPT ![GroupOf[m]][Event(m)] = @ + 1]

Handle(m) ==
    /\ pc[m] = "handling"
    /\ RunHandler(m)
    /\ pc' = [pc EXCEPT ![m] = "inserting"]
    /\ UNCHANGED <<log, start, committed, owner, position, offset, ledger, faults>>

\* insert(): the primary key event_id refuses a second row.
Insert(m) ==
    /\ pc[m] = "inserting"
    /\ \/ InsertRow(m) /\ Resolve(m, offset[m])
       \/ ledger[Event(m)] # None /\ UNCHANGED ledger /\ Throw(m)
    /\ UNCHANGED <<log, start, committed, owner, handled, faults>>

\* Seeded fault: process() catches the error and returns.
ProcessFailsQuietly(m) ==
    /\ Fault
    /\ pc[m] # "idle"
    /\ Resolve(m, offset[m])
    /\ UNCHANGED <<log, start, committed, owner, ledger, handled>>

\* A query or the handler rejects, with or without having had its effect.
ProcessFails(m) ==
    /\ Fault
    /\ \/ pc[m] = "checking" /\ UNCHANGED <<ledger, handled>>
       \/ pc[m] = "handling" /\ UNCHANGED ledger /\ (RunHandler(m) \/ UNCHANGED handled)
       \/ pc[m] = "inserting" /\ UNCHANGED handled /\ (InsertRow(m) \/ UNCHANGED ledger)
    /\ Throw(m)
    /\ UNCHANGED <<log, start, committed, owner>>

\* The process dies; the coordinator takes the partition back.
Crash(m) ==
    /\ pc[m] # "idle" \/ owner[GroupOf[m]] = m
    /\ Fault
    /\ Throw(m)
    /\ owner' = [owner EXCEPT ![GroupOf[m]] = IF @ = m THEN None ELSE @]
    /\ UNCHANGED <<log, start, committed, ledger, handled>>

MemberStep(m) ==
    \/ Join(m)
    \/ CommitOffset(m)
    \/ Receive(m)
    \/ Check(m)
    \/ Handle(m)
    \/ Insert(m)

MemberFault(m) == Rebalance(m) \/ ProcessFails(m) \/ Crash(m)

Next ==
    \/ \E message \in Messages : Produce(message)
    \/ \E g \in Groups : Subscribe(g)
    \/ \E m \in Members : MemberStep(m) \/ MemberFault(m)

Spec == Init /\ [][Next]_vars

\* KafkaJS keeps polling, and the database and the handler answer.
FairSpec == Spec /\ \A m \in Members : WF_vars(MemberStep(m))

----------------------------------------------------------------------------
(* Properties *)

\* The type invariant.
TypeOK ==
    /\ log \in Seq(Messages) /\ Len(log) <= MaxMessages
    /\ start \in [Groups -> -1..MaxMessages]
    /\ committed \in [Groups -> 0..MaxMessages]
    /\ owner \in [Groups -> Members \cup {None}]
    /\ position \in [Members -> 0..MaxMessages]
    /\ pc \in [Members -> {"idle", "checking", "handling", "inserting"}]
    /\ offset \in [Members -> 0..MaxMessages]
    /\ ledger \in [Events -> Groups \cup {None}]
    /\ handled \in [Groups -> [Events -> 0..(1 + MaxFaults)]]
    /\ faults \in 0..MaxFaults

\* The events at committed offsets of a group, from its first subscription on.
Done(g) == {i \in 1..committed[g] : start[g] # -1 /\ i > start[g] /\ log[i] \in Events}

\* An offset is committed only after the group's handler has run for its event
\* (docs/EVENTS.md:49), across retries, rebalances and crashes.
CommittedMeansHandled == \A g \in Groups : \A i \in Done(g) : handled[g][log[i]] > 0

\* Copies of an event in the topic do not run the handler again: each run
\* beyond the first is owed to a fault between the handler and the ledger.
HandledOncePerFault == \A g \in Groups, e \in Events : handled[g][e] <= 1 + faults

\* No message up to i that the group must read is unreadable.
Readable(g, i) == \A j \in 1..i : j > start[g] => log[j] # Poison

\* The consumer is the next stage of the same promise: what the topic holds is
\* committed, what a handler has run for is delivered, what the ledger records is
\* acknowledged.  Handlers run for nothing else, nothing is recorded before its
\* handler ran, and no error, crash or rebalance takes anything back.
Consumption == INSTANCE EventPublication WITH
    Facts        <- Events,
    committed    <- {e \in Events : \E i \in DOMAIN log : log[i] = e},
    delivered    <- {e \in Events : \E g \in Groups : handled[g][e] > 0},
    acknowledged <- {e \in Events : ledger[e] # None}

ImplementsConsumption == Consumption!Spec

\* Each event the group must read is done in the end, unless an unreadable
\* message comes before it.
EventuallyDone ==
    \A g \in Groups, i \in 1..MaxMessages :
        (start[g] # -1 /\ i > start[g] /\ i <= Len(log) /\ Readable(g, i))
            ~> committed[g] >= i
============================================================================
