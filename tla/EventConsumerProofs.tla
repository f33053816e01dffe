------------------------ MODULE EventConsumerProofs ------------------------
(***************************************************************************)
(* What consumers of a partition guarantee, for any number of members,     *)
(* messages and faults.  With any groups: how often the handler runs, the  *)
(* refinement of EventPublication, and that a committed event has been     *)
(* handled by some group; with one group, that it was handled by that one. *)
(***************************************************************************)
EXTENDS EventConsumer, FiniteSetTheorems, TLAPS

----------------------------------------------------------------------------
(* Types *)

\* TypeOK without the bounds that rest on more than one variable.
Types ==
    /\ log \in Seq(Messages) /\ Len(log) <= MaxMessages
    /\ start \in [Groups -> -1..MaxMessages]
    /\ committed \in [Groups -> Nat]
    /\ owner \in [Groups -> Members \cup {None}]
    /\ position \in [Members -> Nat]
    /\ pc \in [Members -> {"idle", "checking", "handling", "inserting"}]
    /\ offset \in [Members -> Nat]
    /\ ledger \in [Events -> Groups \cup {None}]
    /\ handled \in [Groups -> [Events -> Nat]]
    /\ faults \in 0..MaxFaults

\* Offsets point into the log, and a member in process() is at an event; the
\* owner is at the message after those it has resolved.
Places ==
    /\ \A g \in Groups : committed[g] <= Len(log)
    /\ \A m \in Members :
        /\ position[m] <= Len(log)
        /\ offset[m] <= Len(log)
        /\ pc[m] # "idle" => offset[m] > 0 /\ log[offset[m]] \in Events
        /\ pc[m] # "idle" /\ owner[GroupOf[m]] = m => offset[m] = position[m] + 1

Basics == Types /\ Places

USE GroupOfAssumption, MaxMessagesAssumption, MaxFaultsAssumption, NamesAssumption

LEMMA InitBasics == Init => Basics
  BY DEF Init, Basics, Types, Places

LEMMA ProduceKeepsBasics ==
    ASSUME Basics, NEW message \in Messages, Produce(message)
    PROVE  Basics'
  <1>1. /\ log' \in Seq(Messages) /\ Len(log') = Len(log) + 1
        /\ \A i \in 1..Len(log) : log'[i] = log[i]
    BY DEF Basics, Types, Produce
  <1>2. Types'
    BY <1>1 DEF Basics, Types, Produce, memberVars
  <1>3. Places'
    BY <1>1 DEF Basics, Types, Places, Produce, memberVars
  <1>4. QED
    BY <1>2, <1>3 DEF Basics

\* process() returns or throws, and the partition may be taken away.
LEMMA ReturnKeepsPlaces ==
    ASSUME Basics, NEW m \in Members, NEW i \in Nat, i <= Len(log),
           Resolve(m, i) \/ Throw(m),
           UNCHANGED <<log, committed>>,
           owner' \in [Groups -> Members \cup {None}],
           \A g \in Groups : owner'[g] \in {owner[g], None}
    PROVE  /\ Places'
           /\ position' \in [Members -> Nat]
           /\ offset' \in [Members -> Nat]
           /\ pc' \in [Members -> {"idle", "checking", "handling", "inserting"}]
  <1> USE DEF Basics, Types, Resolve, Throw
  <1>1. /\ position' \in [Members -> Nat]
        /\ offset' \in [Members -> Nat]
        /\ pc' \in [Members -> {"idle", "checking", "handling", "inserting"}]
        /\ pc'[m] = "idle" /\ offset'[m] = 0
        /\ position'[m] \in {position[m], i}
    <2>1. CASE Throw(m)
      BY <2>1
    <2>2. CASE Resolve(m, i)
      <3>1. position' = [position EXCEPT ![m] = IF owner[GroupOf[m]] = m THEN i ELSE position[m]]
        BY <2>2
      <3>2. QED
        BY <2>2, <3>1
    <2>3. QED
      BY <2>1, <2>2
  <1>2. \A n \in Members \ {m} :
            position'[n] = position[n] /\ offset'[n] = offset[n] /\ pc'[n] = pc[n]
    OBVIOUS
  <1>3. ASSUME NEW n \in Members
        PROVE  /\ position'[n] <= Len(log)
               /\ offset'[n] <= Len(log)
               /\ pc'[n] # "idle" => offset'[n] > 0 /\ log[offset'[n]] \in Events
               /\ pc'[n] # "idle" /\ owner'[GroupOf[n]] = n => offset'[n] = position'[n] + 1
    <2>1. CASE n = m
      BY <1>1, <2>1 DEF Places
    <2>2. CASE n # m
      <3>1. owner'[GroupOf[n]] = n => owner[GroupOf[n]] = n
        OBVIOUS
      <3>2. QED
        BY <1>2, <2>2, <3>1 DEF Places
    <2>3. QED
      BY <2>1, <2>2
  <1>4. Places'
    BY <1>3 DEF Places
  <1>5. QED
    BY <1>1, <1>4

LEMMA ReceiveKeepsBasics ==
    ASSUME Basics, NEW m \in Members, Receive(m)
    PROVE  Basics'
  <1> DEFINE next == position[m] + 1
  <1> SUFFICES Types' /\ Places'
    BY DEF Basics
  <1>1. next \in Nat /\ next <= Len(log) /\ owner' \in [Groups -> Members \cup {None}]
    BY DEF Basics, Types, Receive
  <1>2. CASE Resolve(m, next)
    <2>1. /\ Places'
          /\ position' \in [Members -> Nat]
          /\ offset' \in [Members -> Nat]
          /\ pc' \in [Members -> {"idle", "checking", "handling", "inserting"}]
      BY <1>1, <1>2, ReturnKeepsPlaces DEF Receive
    <2>2. QED
      BY <2>1 DEF Basics, Types, Receive
  <1>3. CASE /\ log[next] \in Events
             /\ pc' = [pc EXCEPT ![m] = "checking"]
             /\ offset' = [offset EXCEPT ![m] = next]
             /\ UNCHANGED position
    BY <1>1, <1>3 DEF Basics, Types, Places, Receive
  <1>4. QED
    BY <1>2, <1>3 DEF Receive

\* A row of the ledger is inserted, a handler runs, a fault happens, or not.
Effects ==
    /\ ledger' \in [Events -> Groups \cup {None}]
    /\ handled' \in [Groups -> [Events -> Nat]]
    /\ faults' \in 0..MaxFaults

LEMMA EffectsKeepTypes ==
    ASSUME Basics, NEW m \in Members, MemberStep(m) \/ MemberFault(m)
    PROVE  Effects
  <1> USE DEF Basics, Types, Effects, memberVars
  <1>0. /\ GroupOf[m] \in Groups
        /\ pc[m] # "idle" => Event(m) \in Events
    BY DEF Places, Event
  <1>h. ASSUME RunHandler(m), pc[m] # "idle"
        PROVE  handled' \in [Groups -> [Events -> Nat]]
    <2>1. [handled[GroupOf[m]] EXCEPT ![Event(m)] = @ + 1] \in [Events -> Nat]
      BY <1>0, <1>h
    <2>2. QED
      BY <1>0, <1>h, <2>1 DEF RunHandler
  <1>i. ASSUME InsertRow(m), pc[m] # "idle"
        PROVE  ledger' \in [Events -> Groups \cup {None}]
    BY <1>0, <1>i DEF InsertRow
  <1>1. CASE Join(m) \/ CommitOffset(m) \/ Receive(m) \/ Check(m)
    BY <1>1 DEF Join, CommitOffset, Receive, Check, Assign
  <1>2. CASE Handle(m)
    BY <1>2, <1>h DEF Handle
  <1>3. CASE Insert(m)
    BY <1>3, <1>i DEF Insert
  <1>4. CASE Rebalance(m) \/ Crash(m)
    BY <1>4 DEF Rebalance, Crash, Fault, Assign
  <1>5. CASE ProcessFails(m)
    BY <1>5, <1>h, <1>i DEF ProcessFails, Fault
  <1>6. QED
    BY <1>1, <1>2, <1>3, <1>4, <1>5 DEF MemberStep, MemberFault

LEMMA MemberKeepsBasics ==
    ASSUME Basics, NEW m \in Members, MemberStep(m) \/ MemberFault(m)
    PROVE  Basics'
  <1>1. Effects
    BY EffectsKeepTypes
  <1>2. CASE Join(m)
    BY <1>2 DEF Basics, Types, Places, Join, Assign
  <1>3. CASE CommitOffset(m)
    BY <1>3 DEF Basics, Types, Places, CommitOffset, memberVars
  <1>4. CASE Receive(m)
    BY <1>4, ReceiveKeepsBasics
  <1>5. CASE (Check(m) /\ pc'[m] = "handling") \/ Handle(m)
    BY <1>1, <1>5 DEF Basics, Types, Places, Check, Handle, Resolve, Effects
  <1>6. CASE (Check(m) \/ Insert(m) \/ ProcessFails(m) \/ Crash(m)) /\ pc'[m] # "handling"
    <2>1. /\ offset[m] \in Nat /\ offset[m] <= Len(log)
          /\ Resolve(m, offset[m]) \/ Throw(m)
      BY <1>6 DEF Basics, Types, Places, Check, Insert, ProcessFails, Crash
    <2>2. /\ UNCHANGED <<log, committed, start>>
          /\ owner' \in [Groups -> Members \cup {None}]
          /\ \A g \in Groups : owner'[g] \in {owner[g], None}
      BY <1>6 DEF Basics, Types, Check, Insert, ProcessFails, Crash
    <2>3. /\ Places'
          /\ position' \in [Members -> Nat]
          /\ offset' \in [Members -> Nat]
          /\ pc' \in [Members -> {"idle", "checking", "handling", "inserting"}]
      BY <2>1, <2>2, ReturnKeepsPlaces
    <2>4. QED
      BY <1>1, <2>2, <2>3 DEF Basics, Types, Effects
  <1>7. CASE Rebalance(m)
    BY <1>1, <1>7 DEF Basics, Types, Places, Rebalance, Assign, Effects
  <1>8. CASE (Insert(m) \/ ProcessFails(m) \/ Crash(m)) /\ pc'[m] = "handling"
    BY <1>8 DEF Basics, Types, Insert, ProcessFails, Crash, Resolve, Throw
  <1>9. QED
    BY <1>2, <1>3, <1>4, <1>5, <1>6, <1>7, <1>8 DEF MemberStep, MemberFault

LEMMA NextKeepsBasics == Basics /\ [Next]_vars => Basics'
  <1> SUFFICES ASSUME Basics, [Next]_vars PROVE Basics'
    OBVIOUS
  <1>1. ASSUME NEW message \in Messages, Produce(message)
        PROVE  Basics'
    BY <1>1, ProduceKeepsBasics
  <1>2. ASSUME NEW g \in Groups, Subscribe(g)
        PROVE  Basics'
    BY <1>2 DEF Basics, Types, Places, Subscribe, memberVars
  <1>3. ASSUME NEW m \in Members, MemberStep(m) \/ MemberFault(m)
        PROVE  Basics'
    BY <1>3, MemberKeepsBasics
  <1>4. CASE UNCHANGED vars
    BY <1>4 DEF Basics, Types, Places, vars, memberVars
  <1>5. QED
    BY <1>1, <1>2, <1>3, <1>4 DEF Next

LEMMA BasicsInvariance == Spec => []Basics
  BY InitBasics, NextKeepsBasics, PTL DEF Spec

----------------------------------------------------------------------------
(* How often the handler runs *)

\* Member m is inside process() with event e.
IsAt(m, e) == pc[m] # "idle" /\ Event(m) = e

\* Members of a group that will run the handler for e if nothing goes wrong.
AboutToHandle(g, e) ==
    {m \in Members :
        /\ GroupOf[m] = g
        /\ IsAt(m, e)
        /\ pc[m] = "handling" \/ (pc[m] = "checking" /\ ledger[e] = None)}

\* The owner of the group's partition is inside process() with e.
OwnerIsAt(g, e) == owner[g] \in Members /\ IsAt(owner[g], e)

\* Runs of the handler, past and coming, beyond the first are owed to faults; and
\* so is the first while the ledger is empty and the owner not at the event.
Counted(g, e) ==
    LET runs == handled[g][e] + Cardinality(AboutToHandle(g, e)) IN
    /\ runs <= 1 + faults
    /\ ledger[e] = None /\ ~OwnerIsAt(g, e) => runs <= faults

CountInv == Basics /\ \A g \in Groups, e \in Events : Counted(g, e)

\* Cardinalities of sets of members that differ by at most one member.
LEMMA MemberSets ==
    ASSUME NEW S \in SUBSET Members, NEW T \in SUBSET Members
    PROVE  /\ Cardinality(S) \in Nat /\ Cardinality(T) \in Nat
           /\ T \subseteq S => Cardinality(T) <= Cardinality(S)
           /\ \A m \in S : T \subseteq S \ {m} => Cardinality(T) + 1 <= Cardinality(S)
           /\ \A m \in Members : T \subseteq S \cup {m} => Cardinality(T) <= Cardinality(S) + 1
  <1>1. IsFiniteSet(S) /\ IsFiniteSet(T) /\ Cardinality(S) \in Nat /\ Cardinality(T) \in Nat
    BY MembersAssumption, FS_Subset, FS_CardinalityType
  <1>2. T \subseteq S => Cardinality(T) <= Cardinality(S)
    BY <1>1, FS_Subset
  <1>3. ASSUME NEW m \in S, T \subseteq S \ {m}
        PROVE  Cardinality(T) + 1 <= Cardinality(S)
    <2>1. IsFiniteSet(S \ {m}) /\ Cardinality(S \ {m}) = Cardinality(S) - 1
      BY <1>1, FS_RemoveElement
    <2>2. Cardinality(T) <= Cardinality(S \ {m})
      BY <1>3, <2>1, FS_Subset
    <2>3. QED
      BY <1>1, <2>1, <2>2
  <1>4. ASSUME NEW m \in Members, T \subseteq S \cup {m}
        PROVE  Cardinality(T) <= Cardinality(S) + 1
    <2>1. /\ IsFiniteSet(S \cup {m})
          /\ Cardinality(S \cup {m}) = Cardinality(S) \/ Cardinality(S \cup {m}) = Cardinality(S) + 1
      BY <1>1, FS_AddElement
    <2>2. Cardinality(T) <= Cardinality(S \cup {m})
      BY <1>4, <2>1, FS_Subset
    <2>3. QED
      BY <1>1, <2>1, <2>2
  <1>5. QED
    BY <1>1, <1>2, <1>3, <1>4

LEMMA InitCountInv == Init => CountInv
  <1> SUFFICES ASSUME Init PROVE CountInv
    OBVIOUS
  <1>1. Basics
    BY InitBasics
  <1>2. ASSUME NEW g \in Groups, NEW e \in Events
        PROVE  Counted(g, e)
    <2>1. AboutToHandle(g, e) = {}
      BY DEF Init, AboutToHandle, IsAt
    <2>2. Cardinality(AboutToHandle(g, e)) = 0
      BY <2>1, FS_EmptySet
    <2>3. QED
      BY <2>2 DEF Init, Counted
  <1>3. QED
    BY <1>1, <1>2 DEF CountInv

\* Steps after which no member of the group is newly about to handle the event,
\* and whose departures from it are faults or leave a row in the ledger.
LEMMA NobodyNew ==
    ASSUME CountInv, Basics', NEW g \in Groups, NEW e \in Events,
           AboutToHandle(g, e)' \subseteq AboutToHandle(g, e),
           handled'[g][e] = handled[g][e],
           faults' \in {faults, faults + 1},
           ledger'[e] = None => ledger[e] = None,
           ledger'[e] = None /\ OwnerIsAt(g, e) => OwnerIsAt(g, e)' \/ faults' = faults + 1
    PROVE  Counted(g, e)'
  <1> DEFINE S == AboutToHandle(g, e)
             T == AboutToHandle(g, e)'
  <1>1. S \in SUBSET Members /\ T \in SUBSET Members
    BY DEF AboutToHandle
  <1>2. Cardinality(S) \in Nat /\ Cardinality(T) \in Nat /\ Cardinality(T) <= Cardinality(S)
    BY <1>1, MemberSets
  <1>3. faults \in Nat /\ handled[g][e] \in Nat
    BY DEF CountInv, Basics, Types
  <1>4. Counted(g, e)
    BY DEF CountInv
  <1> HIDE DEF S, T
  <1>5. Cardinality(T) = Cardinality(AboutToHandle(g, e))'
    BY DEF T
  <1>6. QED
    BY <1>2, <1>3, <1>4, <1>5 DEF Counted, S

\* A member of the group runs the handler and is not about to any more.
LEMMA OneHasRun ==
    ASSUME CountInv, Basics', NEW g \in Groups, NEW e \in Events, NEW m \in AboutToHandle(g, e),
           AboutToHandle(g, e)' \subseteq AboutToHandle(g, e) \ {m},
           handled'[g][e] = handled[g][e] + 1,
           faults' \in {faults, faults + 1},
           ledger'[e] = ledger[e],
           OwnerIsAt(g, e) => OwnerIsAt(g, e)' \/ faults' = faults + 1
    PROVE  Counted(g, e)'
  <1> DEFINE S == AboutToHandle(g, e)
             T == AboutToHandle(g, e)'
  <1>1. S \in SUBSET Members /\ T \in SUBSET Members
    BY DEF AboutToHandle
  <1>2. Cardinality(S) \in Nat /\ Cardinality(T) \in Nat /\ Cardinality(T) + 1 <= Cardinality(S)
    BY <1>1, MemberSets
  <1>3. faults \in Nat /\ handled[g][e] \in Nat
    BY DEF CountInv, Basics, Types
  <1>4. Counted(g, e)
    BY DEF CountInv
  <1> HIDE DEF S, T
  <1>5. Cardinality(T) = Cardinality(AboutToHandle(g, e))'
    BY DEF T
  <1>6. QED
    BY <1>2, <1>3, <1>4, <1>5 DEF Counted, S

\* Member m moves, the others stay where they are.
Alone(m) ==
    /\ log' = log
    /\ \A n \in Members \ {m} : pc'[n] = pc[n] /\ offset'[n] = offset[n]

LEMMA OthersStay ==
    ASSUME NEW m \in Members, Alone(m), NEW e \in Events
    PROVE  \A n \in Members \ {m} : IsAt(n, e)' <=> IsAt(n, e)
  BY DEF Alone, IsAt, Event

LEMMA Leaving ==
    ASSUME NEW m \in Members, Alone(m), pc'[m] = "idle",
           NEW g \in Groups, NEW e \in Events, ledger'[e] = None => ledger[e] = None
    PROVE  AboutToHandle(g, e)' \subseteq AboutToHandle(g, e) \ {m}
  <1>1. SUFFICES ASSUME NEW n \in AboutToHandle(g, e)'
                 PROVE  n \in AboutToHandle(g, e) \ {m}
    OBVIOUS
  <1>2. /\ n \in Members /\ GroupOf[n] = g /\ IsAt(n, e)'
        /\ pc'[n] = "handling" \/ (pc'[n] = "checking" /\ ledger'[e] = None)
    BY DEF AboutToHandle
  <1>3. n # m
    BY <1>2
  <1>4. pc'[n] = pc[n] /\ IsAt(n, e)
    BY <1>2, <1>3, OthersStay DEF Alone
  <1>5. QED
    BY <1>2, <1>3, <1>4 DEF AboutToHandle

LEMMA JoinKeepsCount ==
    ASSUME CountInv, Basics', NEW m \in Members, Join(m) \/ Rebalance(m) \/ CommitOffset(m),
           NEW g \in Groups, NEW e \in Events
    PROVE  Counted(g, e)'
  <1>1. /\ log' = log /\ pc' = pc /\ offset' = offset /\ ledger' = ledger /\ handled' = handled
        /\ faults' \in {faults, faults + 1}
    BY DEF Join, Rebalance, CommitOffset, Assign, Fault, memberVars
  <1>2. AboutToHandle(g, e)' = AboutToHandle(g, e)
    BY <1>1 DEF AboutToHandle, IsAt, Event
  <1>3. OwnerIsAt(g, e) => OwnerIsAt(g, e)' \/ faults' = faults + 1
    <2>1. CASE Join(m)
      BY <1>1, <2>1 DEF Join, Assign, OwnerIsAt, IsAt, Event, CountInv, Basics, Types
    <2>2. CASE Rebalance(m)
      BY <2>2 DEF Rebalance, Fault
    <2>3. CASE CommitOffset(m)
      BY <1>1, <2>3 DEF CommitOffset, OwnerIsAt, IsAt, Event
    <2>4. QED
      BY <2>1, <2>2, <2>3
  <1>4. QED
    BY <1>1, <1>2, <1>3, NobodyNew

LEMMA ReceiveKeepsCount ==
    ASSUME CountInv, Basics', NEW m \in Members, Receive(m),
           NEW g \in Groups, NEW e \in Events
    PROVE  Counted(g, e)'
  <1> DEFINE next == position[m] + 1
  <1>1. /\ Alone(m) /\ owner' = owner /\ ledger' = ledger /\ handled' = handled /\ faults' = faults
        /\ owner[GroupOf[m]] = m /\ pc[m] = "idle"
    BY DEF Receive, Resolve, Alone, CountInv, Basics, Types
  <1>2. OwnerIsAt(g, e) => OwnerIsAt(g, e)'
    <2>1. OwnerIsAt(g, e) => owner[g] \in Members \ {m}
      BY <1>1 DEF OwnerIsAt, IsAt
    <2>2. QED
      BY <1>1, <2>1, OthersStay DEF OwnerIsAt
  <1>3. CASE pc'[m] = "idle"
    BY <1>1, <1>2, <1>3, Leaving, NobodyNew
  <1>4. CASE pc'[m] = "checking" /\ offset'[m] = next /\ (GroupOf[m] # g \/ log[next] # e \/ ledger[e] # None)
    <2>1. AboutToHandle(g, e)' \subseteq AboutToHandle(g, e)
      BY <1>1, <1>4, OthersStay DEF AboutToHandle, IsAt, Event, Alone
    <2>2. QED
      BY <1>1, <1>2, <2>1, NobodyNew
  <1>5. CASE pc'[m] = "checking" /\ offset'[m] = next /\ GroupOf[m] = g /\ log[next] = e /\ ledger[e] = None
    <2> DEFINE S == AboutToHandle(g, e)
               T == AboutToHandle(g, e)'
    <2>1. T \subseteq S \cup {m}
      BY <1>1, <1>5, OthersStay DEF AboutToHandle, Alone
    <2>2. S \in SUBSET Members /\ T \in SUBSET Members
      BY DEF AboutToHandle
    <2>3. Cardinality(S) \in Nat /\ Cardinality(T) \in Nat /\ Cardinality(T) <= Cardinality(S) + 1
      BY <2>1, <2>2, MemberSets
    <2>4. ~OwnerIsAt(g, e) /\ OwnerIsAt(g, e)'
      BY <1>1, <1>5 DEF OwnerIsAt, IsAt, Event, Alone
    <2>5. handled[g][e] + Cardinality(S) <= faults
      BY <1>5, <2>4 DEF CountInv, Counted
    <2>6. faults \in Nat /\ handled[g][e] \in Nat
      BY DEF CountInv, Basics, Types
    <2> HIDE DEF S, T
    <2>7. Cardinality(T) = Cardinality(AboutToHandle(g, e))'
      BY DEF T
    <2>8. QED
      BY <1>1, <2>3, <2>4, <2>5, <2>6, <2>7 DEF Counted
  <1>6. QED
    BY <1>3, <1>4, <1>5 DEF Receive, Resolve, CountInv, Basics, Types

LEMMA CheckKeepsCount ==
    ASSUME CountInv, Basics', NEW m \in Members, Check(m),
           NEW g \in Groups, NEW e \in Events
    PROVE  Counted(g, e)'
  <1>1. /\ Alone(m) /\ owner' = owner /\ ledger' = ledger /\ handled' = handled /\ faults' = faults
        /\ pc[m] = "checking"
    BY DEF Check, Resolve, Alone, CountInv, Basics, Types
  <1>2. CASE ledger[Event(m)] # None /\ Resolve(m, offset[m])
    <2>1. pc'[m] = "idle"
      BY <1>2 DEF Resolve, CountInv, Basics, Types
    <2>2. ledger'[e] = None /\ OwnerIsAt(g, e) => OwnerIsAt(g, e)'
      <3>1. ledger'[e] = None /\ OwnerIsAt(g, e) => owner[g] \in Members \ {m}
        BY <1>1, <1>2 DEF OwnerIsAt, IsAt
      <3>2. QED
        BY <1>1, <3>1, OthersStay DEF OwnerIsAt
    <2>3. QED
      BY <1>1, <2>1, <2>2, Leaving, NobodyNew
  <1>3. CASE ledger[Event(m)] = None /\ pc'[m] = "handling" /\ offset' = offset
    <2>1. IsAt(m, e)' <=> IsAt(m, e)
      BY <1>1, <1>3 DEF IsAt, Event, Alone
    <2>2. AboutToHandle(g, e)' \subseteq AboutToHandle(g, e)
      BY <1>1, <1>3, <2>1, OthersStay DEF AboutToHandle, Alone, IsAt
    <2>3. OwnerIsAt(g, e) => OwnerIsAt(g, e)'
      BY <1>1, <2>1, OthersStay DEF OwnerIsAt
    <2>4. QED
      BY <1>1, <2>2, <2>3, NobodyNew
  <1>4. QED
    BY <1>2, <1>3 DEF Check, CountInv, Basics, Types

\* What RunHandler does to the counter of one group and event.
LEMMA HandlerCounts ==
    ASSUME Basics, NEW m \in Members, pc[m] # "idle", RunHandler(m),
           NEW g \in Groups, NEW e \in Events
    PROVE  handled'[g][e] = IF g = GroupOf[m] /\ e = Event(m) THEN handled[g][e] + 1 ELSE handled[g][e]
  BY DEF Basics, Types, Places, Event, RunHandler

LEMMA HandleKeepsCount ==
    ASSUME CountInv, Basics', NEW m \in Members, Handle(m),
           NEW g \in Groups, NEW e \in Events
    PROVE  Counted(g, e)'
  <1>1. /\ Alone(m) /\ owner' = owner /\ ledger' = ledger /\ offset' = offset /\ faults' = faults
        /\ pc[m] = "handling" /\ pc'[m] = "inserting"
    BY DEF Handle, Alone, CountInv, Basics, Types
  <1>2. IsAt(m, e)' <=> IsAt(m, e)
    BY <1>1 DEF IsAt, Event, Alone
  <1>3. AboutToHandle(g, e)' \subseteq AboutToHandle(g, e) \ {m}
    BY <1>1, OthersStay DEF AboutToHandle, Alone
  <1>4. OwnerIsAt(g, e) => OwnerIsAt(g, e)'
    BY <1>1, <1>2, OthersStay DEF OwnerIsAt
  <1>5. handled'[g][e] = IF g = GroupOf[m] /\ e = Event(m) THEN handled[g][e] + 1 ELSE handled[g][e]
    BY <1>1, HandlerCounts DEF CountInv, Handle
  <1>6. CASE g = GroupOf[m] /\ e = Event(m)
    <2>1. m \in AboutToHandle(g, e)
      BY <1>1, <1>6 DEF AboutToHandle, IsAt
    <2>2. QED
      BY <1>1, <1>3, <1>4, <1>5, <1>6, <2>1, OneHasRun
  <1>7. CASE ~(g = GroupOf[m] /\ e = Event(m))
    BY <1>1, <1>3, <1>4, <1>5, <1>7, NobodyNew
  <1>8. QED
    BY <1>6, <1>7

LEMMA InsertKeepsCount ==
    ASSUME CountInv, Basics', NEW m \in Members, Insert(m),
           NEW g \in Groups, NEW e \in Events
    PROVE  Counted(g, e)'
  <1>1. /\ Alone(m) /\ owner' = owner /\ handled' = handled /\ faults' = faults
        /\ pc[m] = "inserting" /\ pc'[m] = "idle"
    BY DEF Insert, Resolve, Throw, Alone, CountInv, Basics, Types
  <1>2. GroupOf[m] \in Groups /\ Event(m) \in Events
    BY <1>1 DEF CountInv, Basics, Types, Places, Event
  <1>3. ledger'[e] = None => ledger[e] = None /\ Event(m) # e
    BY <1>2 DEF Insert, InsertRow, CountInv, Basics, Types
  <1>4. ledger'[e] = None /\ OwnerIsAt(g, e) => OwnerIsAt(g, e)'
    <2>1. ledger'[e] = None /\ OwnerIsAt(g, e) => owner[g] \in Members \ {m}
      BY <1>3 DEF OwnerIsAt, IsAt
    <2>2. QED
      BY <1>1, <2>1, OthersStay DEF OwnerIsAt
  <1>5. QED
    BY <1>1, <1>3, <1>4, Leaving, NobodyNew

LEMMA FaultsKeepCount ==
    ASSUME CountInv, Basics', NEW m \in Members, ProcessFails(m) \/ Crash(m),
           NEW g \in Groups, NEW e \in Events
    PROVE  Counted(g, e)'
  <1>1. Alone(m) /\ pc'[m] = "idle" /\ faults' = faults + 1
    BY DEF ProcessFails, Crash, Fault, Throw, Alone, CountInv, Basics, Types
  <1>2. CASE pc[m] = "handling" /\ RunHandler(m) /\ ledger' = ledger
    <2>1. AboutToHandle(g, e)' \subseteq AboutToHandle(g, e) \ {m}
      BY <1>1, <1>2, Leaving
    <2>2. handled'[g][e] = IF g = GroupOf[m] /\ e = Event(m) THEN handled[g][e] + 1 ELSE handled[g][e]
      BY <1>2, HandlerCounts DEF CountInv
    <2>3. CASE g = GroupOf[m] /\ e = Event(m)
      <3>1. m \in AboutToHandle(g, e)
        BY <1>2, <2>3 DEF AboutToHandle, IsAt
      <3>2. QED
        BY <1>1, <1>2, <2>1, <2>2, <2>3, <3>1, OneHasRun
    <2>4. CASE ~(g = GroupOf[m] /\ e = Event(m))
      BY <1>1, <1>2, <2>1, <2>2, <2>4, NobodyNew
    <2>5. QED
      BY <2>3, <2>4
  <1>3. CASE handled' = handled /\ (ledger' = ledger \/ (pc[m] = "inserting" /\ InsertRow(m)))
    <2>1. ledger'[e] = None => ledger[e] = None
      BY <1>3 DEF InsertRow, CountInv, Basics, Types, Places, Event
    <2>2. AboutToHandle(g, e)' \subseteq AboutToHandle(g, e)
      BY <1>1, <2>1, Leaving
    <2>3. QED
      BY <1>1, <1>3, <2>1, <2>2, NobodyNew
  <1>4. QED
    BY <1>2, <1>3 DEF ProcessFails, Crash

LEMMA NextKeepsCountInv == CountInv /\ [Next]_vars => CountInv'
  <1> SUFFICES ASSUME CountInv, [Next]_vars PROVE CountInv'
    OBVIOUS
  <1>1. Basics'
    BY NextKeepsBasics DEF CountInv
  <1> SUFFICES ASSUME NEW g \in Groups, NEW e \in Events PROVE Counted(g, e)'
    BY <1>1 DEF CountInv
  <1>2. ASSUME NEW message \in Messages, Produce(message)
        PROVE  Counted(g, e)'
    <2>1. /\ pc' = pc /\ offset' = offset /\ owner' = owner /\ ledger' = ledger
          /\ handled' = handled /\ faults' = faults
      BY <1>2 DEF Produce, memberVars
    <2>2. \A n \in Members : IsAt(n, e)' <=> IsAt(n, e)
      BY <1>2, <2>1 DEF IsAt, Event, Produce, CountInv, Basics, Types, Places
    <2>3. AboutToHandle(g, e)' = AboutToHandle(g, e)
      BY <2>1, <2>2 DEF AboutToHandle
    <2>4. OwnerIsAt(g, e)' <=> OwnerIsAt(g, e)
      BY <2>1, <2>2 DEF OwnerIsAt
    <2>5. QED
      BY <1>1, <2>1, <2>3, <2>4, NobodyNew
  <1>3. CASE (\E h \in Groups : Subscribe(h)) \/ UNCHANGED vars
    <2>1. /\ pc' = pc /\ offset' = offset /\ owner' = owner /\ ledger' = ledger
          /\ handled' = handled /\ faults' = faults /\ log' = log
      BY <1>3 DEF Subscribe, vars, memberVars
    <2>2. AboutToHandle(g, e)' = AboutToHandle(g, e) /\ (OwnerIsAt(g, e)' <=> OwnerIsAt(g, e))
      BY <2>1 DEF AboutToHandle, OwnerIsAt, IsAt, Event
    <2>3. QED
      BY <1>1, <2>1, <2>2, NobodyNew
  <1>4. ASSUME NEW m \in Members, MemberStep(m) \/ MemberFault(m)
        PROVE  Counted(g, e)'
    BY <1>1, <1>4, JoinKeepsCount, ReceiveKeepsCount, CheckKeepsCount, HandleKeepsCount,
       InsertKeepsCount, FaultsKeepCount DEF MemberStep, MemberFault
  <1>5. QED
    BY <1>2, <1>3, <1>4 DEF Next

LEMMA CountInvariance == Spec => []CountInv
  BY InitCountInv, NextKeepsCountInv, PTL DEF Spec

\* Type correctness of the consumers.
THEOREM ConsumerTypeCorrect == Spec => []TypeOK
  <1>1. CountInv => TypeOK
    <2> SUFFICES ASSUME CountInv PROVE TypeOK
      OBVIOUS
    <2>1. ASSUME NEW g \in Groups, NEW e \in Events
          PROVE  handled[g][e] \in 0..(1 + MaxFaults)
      <3>1. Cardinality(AboutToHandle(g, e)) \in Nat
        BY MemberSets DEF AboutToHandle
      <3>2. handled[g][e] + Cardinality(AboutToHandle(g, e)) <= 1 + faults
        BY DEF CountInv, Counted
      <3>3. QED
        BY <3>1, <3>2 DEF CountInv, Basics, Types
    <2>2. handled \in [Groups -> [Events -> 0..(1 + MaxFaults)]]
      BY <2>1 DEF CountInv, Basics, Types
    <2>3. QED
      BY <2>2 DEF CountInv, Basics, Types, Places, TypeOK
  <1>2. QED
    BY <1>1, CountInvariance, PTL

\* The handler of a group runs once for an event, and once more per fault, however
\* many copies the topic holds, members the group has and groups share the ledger.
THEOREM HandledOnce == Spec => []HandledOncePerFault
  <1>1. CountInv => HandledOncePerFault
    <2> SUFFICES ASSUME CountInv, NEW g \in Groups, NEW e \in Events
                 PROVE  handled[g][e] <= 1 + faults
      BY DEF HandledOncePerFault
    <2>1. Cardinality(AboutToHandle(g, e)) \in Nat
      BY MemberSets DEF AboutToHandle
    <2>2. handled[g][e] + Cardinality(AboutToHandle(g, e)) <= 1 + faults
      BY DEF CountInv, Counted
    <2>3. QED
      BY <2>1, <2>2 DEF CountInv, Basics, Types
  <1>2. QED
    BY <1>1, CountInvariance, PTL

----------------------------------------------------------------------------
(* The handler runs before the ledger is written *)

\* What the handler has run for stays so.
Grows ==
    /\ start' = start
    /\ Len(log') >= Len(log) /\ \A i \in 1..Len(log) : log'[i] = log[i]
    /\ \A g \in Groups, e \in Events : handled[g][e] > 0 => handled'[g][e] > 0

LEMMA MemberGrows ==
    ASSUME Basics, NEW m \in Members, MemberStep(m) \/ MemberFault(m)
    PROVE  Grows
  <1>1. log' = log /\ start' = start
    BY DEF MemberStep, MemberFault, Join, CommitOffset, Receive, Check, Handle, Insert,
           Rebalance, ProcessFails, Crash, Assign
  <1>2. handled' = handled \/ (pc[m] = "handling" /\ RunHandler(m))
    BY DEF MemberStep, MemberFault, Join, CommitOffset, Receive, Check, Handle, Insert,
           Rebalance, ProcessFails, Crash, Assign
  <1>3. ASSUME NEW g \in Groups, NEW e \in Events, handled[g][e] > 0
        PROVE  handled'[g][e] > 0
    <2>1. handled[g][e] \in Nat
      BY DEF Basics, Types
    <2>2. CASE pc[m] = "handling" /\ RunHandler(m)
      <3>1. handled'[g][e] \in {handled[g][e], handled[g][e] + 1}
        BY <2>2, HandlerCounts
      <3>2. QED
        BY <1>3, <2>1, <3>1
    <2>3. QED
      BY <1>2, <1>3, <2>2
  <1>4. QED
    BY <1>1, <1>3 DEF Grows, Basics, Types

\* A member that is about to write the ledger has run the handler of its group.
InsertingIsHandled ==
    \A m \in Members : pc[m] = "inserting" => handled[GroupOf[m]][Event(m)] > 0

\* The event a member is at stays the same while the log grows.
LEMMA EventStays ==
    ASSUME Basics, Grows, NEW m \in Members, pc[m] # "idle", offset'[m] = offset[m]
    PROVE  Event(m)' = Event(m) /\ Event(m) \in Events /\ GroupOf[m] \in Groups
  <1>1. GroupOf[m] \in Groups /\ Len(log) \in Nat /\ offset[m] \in Nat
    BY DEF Basics, Types
  <1>2. offset[m] > 0 /\ offset[m] <= Len(log) /\ log[offset[m]] \in Events
    BY DEF Basics, Places
  <1>3. log'[offset[m]] = log[offset[m]]
    BY <1>1, <1>2 DEF Grows
  <1>4. QED
    BY <1>1, <1>2, <1>3 DEF Event

LEMMA MemberKeepsInserting ==
    ASSUME Basics, InsertingIsHandled, NEW m \in Members, MemberStep(m) \/ MemberFault(m)
    PROVE  InsertingIsHandled'
  <1>1. Grows
    BY MemberGrows
  <1>2. SUFFICES ASSUME NEW n \in Members, pc'[n] = "inserting"
                 PROVE  handled'[GroupOf[n]][Event(n)'] > 0
    BY DEF InsertingIsHandled
  <1>3. CASE pc[n] = "inserting" /\ offset'[n] = offset[n]
    <2>1. Event(n)' = Event(n) /\ Event(n) \in Events /\ GroupOf[n] \in Groups
      BY <1>1, <1>3, EventStays
    <2>2. handled[GroupOf[n]][Event(n)] > 0
      BY <1>3 DEF InsertingIsHandled
    <2>3. QED
      BY <1>1, <2>1, <2>2 DEF Grows
  <1>4. CASE n = m /\ Handle(m)
    <2>1. /\ GroupOf[m] \in Groups /\ Event(m) \in Events /\ pc[m] # "idle" /\ RunHandler(m)
          /\ Event(m)' = Event(m)
      BY <1>4 DEF Basics, Places, Types, Event, Handle
    <2>2. handled'[GroupOf[m]][Event(m)] = handled[GroupOf[m]][Event(m)] + 1
      BY <2>1, HandlerCounts
    <2>3. handled[GroupOf[m]][Event(m)] \in Nat
      BY <2>1 DEF Basics, Types
    <2>4. QED
      BY <1>4, <2>1, <2>2, <2>3
  <1>5. (pc[n] = "inserting" /\ offset'[n] = offset[n]) \/ (n = m /\ Handle(m))
    <2>1. CASE n # m
      BY <1>2, <2>1 DEF MemberStep, MemberFault, Join, CommitOffset, Receive, Check, Handle, Insert,
         Rebalance, ProcessFails, Crash, Assign, Resolve, Throw, memberVars, Basics, Types
    <2>2. CASE n = m
      BY <1>2, <2>2 DEF MemberStep, MemberFault, Join, CommitOffset, Receive, Check, Insert,
         Rebalance, ProcessFails, Crash, Assign, Resolve, Throw, memberVars, Basics, Types
    <2>3. QED
      BY <2>1, <2>2
  <1>6. QED
    BY <1>3, <1>4, <1>5

LEMMA NextKeepsInserting == Basics /\ InsertingIsHandled /\ [Next]_vars => InsertingIsHandled'
  <1> SUFFICES ASSUME Basics, InsertingIsHandled, [Next]_vars PROVE InsertingIsHandled'
    OBVIOUS
  <1>1. ASSUME NEW message \in Messages, Produce(message)
        PROVE  InsertingIsHandled'
    <2>1. Grows
      BY <1>1 DEF Produce, Grows, Basics, Types
    <2>2. pc' = pc /\ offset' = offset /\ handled' = handled
      BY <1>1 DEF Produce, memberVars
    <2>3. QED
      BY <2>1, <2>2, EventStays DEF InsertingIsHandled
  <1>2. CASE UNCHANGED vars \/ \E g \in Groups : Subscribe(g)
    BY <1>2 DEF vars, Subscribe, memberVars, InsertingIsHandled, Event
  <1>3. ASSUME NEW m \in Members, MemberStep(m) \/ MemberFault(m)
        PROVE  InsertingIsHandled'
    BY <1>3, MemberKeepsInserting
  <1>4. QED
    BY <1>1, <1>2, <1>3 DEF Next

LEMMA InsertingInvariance == Spec => []InsertingIsHandled
  <1>1. Init => InsertingIsHandled
    BY DEF Init, InsertingIsHandled
  <1>2. QED
    BY <1>1, BasicsInvariance, NextKeepsInserting, PTL DEF Spec

----------------------------------------------------------------------------
(* Consumption, the next stage of the publication *)

OnLog   == {e \in Events : \E i \in DOMAIN log : log[i] = e}
HasRun  == {e \in Events : \E g \in Groups : handled[g][e] > 0}
InTable == {e \in Events : ledger[e] # None}

LEMMA InitConsumption == Init => Consumption!Init
  BY DEF Init, Consumption!Init

\* A new message commits its event, or stutters.
LEMMA ProduceImplements ==
    ASSUME Basics, NEW message \in Messages, Produce(message)
    PROVE  [Consumption!Next]_(Consumption!vars)
  <1>1. HasRun' = HasRun /\ InTable' = InTable
    BY DEF Produce, HasRun, InTable
  <1> DEFINE S == OnLog' \ OnLog
  <1>2. log' = Append(log, message) /\ log \in Seq(Messages)
    BY DEF Produce, Basics, Types
  <1>3. \A i \in DOMAIN log : i \in DOMAIN log' /\ log'[i] = log[i]
    BY <1>2
  <1>4. OnLog \subseteq OnLog'
    BY <1>3 DEF OnLog
  <1>5. OnLog' = OnLog \cup S /\ S \in SUBSET (Events \ OnLog)
    BY <1>4 DEF OnLog
  <1> HIDE DEF S
  <1>6. Consumption!CommitFacts
    BY <1>1, <1>5 DEF Consumption!CommitFacts, OnLog, HasRun, InTable
  <1>7. QED
    BY <1>6 DEF Consumption!Next

\* What a member's step does to the facts: it runs the handler, or writes a row,
\* for the message it is at, or neither.
LEMMA MemberWrites ==
    ASSUME Basics, NEW m \in Members, MemberStep(m) \/ MemberFault(m)
    PROVE  /\ log' = log
           /\ \/ handled' = handled /\ ledger' = ledger
              \/ pc[m] = "handling" /\ RunHandler(m) /\ ledger' = ledger
              \/ pc[m] = "inserting" /\ InsertRow(m) /\ handled' = handled
  BY DEF MemberStep, MemberFault, Join, CommitOffset, Receive, Check, Handle, Insert,
         Rebalance, ProcessFails, Crash, Assign

\* A member's step delivers its event, acknowledges it, or stutters.
LEMMA MemberImplements ==
    ASSUME Basics, InsertingIsHandled, NEW m \in Members, MemberStep(m) \/ MemberFault(m)
    PROVE  [Consumption!Next]_(Consumption!vars)
  <1>1. OnLog' = OnLog
    BY MemberWrites DEF OnLog
  <1>2. CASE handled' = handled /\ ledger' = ledger
    BY <1>1, <1>2 DEF Consumption!vars, OnLog
  <1>3. pc[m] # "idle" => Event(m) \in OnLog /\ GroupOf[m] \in Groups
    BY DEF Basics, Types, Places, Event, OnLog
  <1>4. CASE pc[m] = "handling" /\ RunHandler(m) /\ ledger' = ledger
    <2>1. ASSUME NEW g \in Groups, NEW e \in Events
          PROVE  /\ handled[g][e] \in Nat
                 /\ handled'[g][e] = IF g = GroupOf[m] /\ e = Event(m) THEN handled[g][e] + 1 ELSE handled[g][e]
      <3>1. handled[g][e] \in Nat
        BY DEF Basics, Types
      <3>2. QED
        BY <1>4, <3>1, HandlerCounts
    <2>2. ASSUME NEW e \in Events
          PROVE  (\E g \in Groups : handled'[g][e] > 0) <=> e = Event(m) \/ \E g \in Groups : handled[g][e] > 0
      <3>1. CASE e = Event(m)
        BY <1>3, <1>4, <2>1, <3>1
      <3>2. CASE e # Event(m)
        BY <2>1, <3>2
      <3>3. QED
        BY <3>1, <3>2
    <2>3. HasRun' = HasRun \cup {Event(m)}
      BY <1>3, <1>4, <2>2 DEF HasRun, OnLog
    <2>4. Consumption!Deliver
      BY <1>1, <1>3, <1>4, <2>3 DEF Consumption!Deliver, OnLog, HasRun
    <2>5. QED
      BY <2>4 DEF Consumption!Next
  <1>5. CASE pc[m] = "inserting" /\ InsertRow(m) /\ handled' = handled
    <2>1. Event(m) \in Events /\ Event(m) \in HasRun
      BY <1>3, <1>5 DEF InsertingIsHandled, OnLog, HasRun
    <2>2. InTable' = InTable \cup {Event(m)}
      BY <1>3, <1>5, <2>1 DEF InsertRow, InTable, Basics, Types
    <2>3. Consumption!Acknowledge
      BY <1>1, <1>5, <2>1, <2>2 DEF Consumption!Acknowledge, OnLog, HasRun, InTable
    <2>4. QED
      BY <2>3 DEF Consumption!Next
  <1>6. QED
    BY <1>2, <1>4, <1>5, MemberWrites

\* A consumer of any number of groups and members implements the abstract publication
\* of what the topic holds: the handler runs only for what arrived, the ledger records
\* only what a handler has run for, and no error, crash or rebalance takes it back.
THEOREM ConsumerRefinement == Spec => ImplementsConsumption
  <1>1. Basics /\ InsertingIsHandled /\ [Next]_vars => [Consumption!Next]_(Consumption!vars)
    <2> SUFFICES ASSUME Basics, InsertingIsHandled, [Next]_vars
                 PROVE  [Consumption!Next]_(Consumption!vars)
      OBVIOUS
    <2>1. CASE UNCHANGED vars \/ \E g \in Groups : Subscribe(g)
      BY <2>1 DEF vars, Subscribe, Consumption!vars
    <2>2. QED
      BY <2>1, ProduceImplements, MemberImplements DEF Next
  <1>2. QED
    BY <1>1, InitConsumption, BasicsInvariance, InsertingInvariance, PTL
       DEF Spec, ImplementsConsumption, Consumption!Spec

----------------------------------------------------------------------------
(* Offsets follow the handler *)

\* Some group's handler has run for the event.
Ran(e) == \E g \in Groups : handled[g][e] > 0

\* A handler has run for the events up to i that the group must read.
HandledUpTo(g, i) ==
    \A j \in 1..i : j > start[g] /\ log[j] \in Events => Ran(log[j])

\* A row of the ledger, a member about to insert one, a resolved message and a
\* committed offset each mean that the handler has run.
Evidence ==
    /\ \A e \in Events : ledger[e] # None => Ran(e)
    /\ InsertingIsHandled
    /\ \A m \in Members : HandledUpTo(GroupOf[m], position[m])
    /\ \A g \in Groups : HandledUpTo(g, committed[g])

EvidenceInv == Basics /\ Evidence

LEMMA InitEvidence == Init => EvidenceInv
  <1> SUFFICES ASSUME Init PROVE EvidenceInv
    OBVIOUS
  <1>1. Basics
    BY InitBasics
  <1>2. Evidence
    BY DEF Init, Evidence, HandledUpTo, InsertingIsHandled
  <1>3. QED
    BY <1>1, <1>2 DEF EvidenceInv

LEMMA StaysHandled ==
    ASSUME Types, Grows, NEW g \in Groups, NEW i \in Nat, i <= Len(log), HandledUpTo(g, i)
    PROVE  HandledUpTo(g, i)'
  <1>1. Len(log) \in Nat
    BY DEF Types
  <1>2. SUFFICES ASSUME NEW j \in 1..i, j > start'[g], log'[j] \in Events
                 PROVE  Ran(log[j])'
    BY DEF HandledUpTo
  <1>3. j \in 1..Len(log) /\ log'[j] = log[j] /\ start'[g] = start[g]
    BY <1>1 DEF Grows
  <1>4. log[j] \in Events /\ Ran(log[j])
    BY <1>2, <1>3 DEF HandledUpTo
  <1>5. QED
    BY <1>3, <1>4 DEF Grows, Ran

\* One more message: no event, or one the handler has run for.
LEMMA OneMoreHandled ==
    ASSUME Types, NEW g \in Groups, NEW i \in Nat, i + 1 <= Len(log), HandledUpTo(g, i),
           log[i + 1] \in Events => Ran(log[i + 1])
    PROVE  HandledUpTo(g, i + 1)
  BY DEF HandledUpTo, Types

\* A member resolves at most the next message, and only if it is no event, is in
\* the ledger, or has just been handled.
LEMMA ResolvedIsHandled ==
    ASSUME EvidenceInv, NEW m \in Members, MemberStep(m) \/ MemberFault(m)
    PROVE  \/ position'[m] = position[m]
           \/ position'[m] = committed[GroupOf[m]]
           \/ /\ position'[m] = position[m] + 1 /\ position[m] + 1 <= Len(log)
              /\ log[position[m] + 1] \in Events => Ran(log[position[m] + 1])
  <1>0. GroupOf[m] \in Groups /\ position[m] \in Nat
    BY DEF EvidenceInv, Basics, Types
  <1>1. CASE Join(m) \/ Rebalance(m)
    BY <1>1 DEF Join, Rebalance, Assign, EvidenceInv, Basics, Types
  <1>2. CASE CommitOffset(m) \/ Handle(m) \/ ProcessFails(m) \/ Crash(m)
    BY <1>2 DEF CommitOffset, Handle, ProcessFails, Crash, Throw, memberVars
  <1>3. CASE Receive(m)
    BY <1>3, <1>0 DEF Receive, Resolve, EvidenceInv, Basics, Types
  <1>4. CASE (Check(m) \/ Insert(m)) /\ position'[m] # position[m]
    <2>1. /\ owner[GroupOf[m]] = m /\ position'[m] = offset[m] /\ pc[m] # "idle"
          /\ pc[m] = "inserting" \/ ledger[Event(m)] # None
      BY <1>4 DEF Check, Insert, Resolve, Throw, EvidenceInv, Basics, Types
    <2>2. offset[m] = position[m] + 1 /\ offset[m] <= Len(log) /\ Event(m) \in Events
      BY <2>1 DEF EvidenceInv, Basics, Places, Event
    <2>3. Ran(Event(m))
      BY <1>0, <2>1, <2>2 DEF EvidenceInv, Evidence, InsertingIsHandled, Ran
    <2>4. QED
      BY <2>1, <2>2, <2>3 DEF Event
  <1>5. QED
    BY <1>1, <1>2, <1>3, <1>4 DEF MemberStep, MemberFault

LEMMA MemberKeepsEvidence ==
    ASSUME EvidenceInv, Basics', NEW m \in Members, MemberStep(m) \/ MemberFault(m)
    PROVE  Evidence'
  <1>1. Types /\ Grows
    BY MemberGrows DEF EvidenceInv, Basics
  <1>2. ASSUME NEW e \in Events, ledger'[e] # None
        PROVE  Ran(e)'
    <2>1. CASE ledger[e] # None
      BY <1>1, <2>1 DEF EvidenceInv, Evidence, Grows, Ran
    <2>2. CASE ledger[e] = None
      <3>1. pc[m] = "inserting" /\ InsertRow(m) /\ handled' = handled
        BY <1>2, <2>2, MemberWrites DEF EvidenceInv
      <3>2. Event(m) = e /\ GroupOf[m] \in Groups
        BY <1>2, <2>2, <3>1 DEF InsertRow, EvidenceInv, Basics, Types
      <3>3. handled[GroupOf[m]][e] > 0
        BY <3>1, <3>2 DEF EvidenceInv, Evidence, InsertingIsHandled
      <3>4. QED
        BY <3>1, <3>2, <3>3 DEF Ran
    <2>3. QED
      BY <2>1, <2>2
  <1>3. InsertingIsHandled'
    BY MemberKeepsInserting DEF EvidenceInv, Evidence
  <1>4. ASSUME NEW n \in Members
        PROVE  HandledUpTo(GroupOf[n], position[n])'
    <2>0. /\ GroupOf[n] \in Groups /\ position[n] \in Nat /\ position[n] <= Len(log)
          /\ committed[GroupOf[n]] \in Nat /\ committed[GroupOf[n]] <= Len(log)
          /\ HandledUpTo(GroupOf[n], position[n]) /\ HandledUpTo(GroupOf[n], committed[GroupOf[n]])
      BY DEF EvidenceInv, Evidence, Basics, Types, Places
    <2>1. CASE position'[n] = position[n]
      <3>1. \A i \in {position[n]} : HandledUpTo(GroupOf[n], i)'
        BY <1>1, <2>0, StaysHandled
      <3>2. QED
        BY <2>1, <3>1 DEF HandledUpTo
    <2>2. CASE n = m /\ position'[m] = committed[GroupOf[m]]
      <3>1. HandledUpTo(GroupOf[n], committed[GroupOf[n]])
        BY <2>0
      <3>2. \A i \in {committed[GroupOf[n]]} : HandledUpTo(GroupOf[n], i)'
        BY <1>1, <2>0, StaysHandled
      <3>3. QED
        BY <2>2, <3>2 DEF HandledUpTo
    <2>3. CASE /\ n = m /\ position'[m] = position[m] + 1 /\ position[m] + 1 <= Len(log)
               /\ log[position[m] + 1] \in Events => Ran(log[position[m] + 1])
      <3>1. HandledUpTo(GroupOf[m], position[m] + 1)
        BY <1>1, <2>0, <2>3, OneMoreHandled
      <3>2. \A i \in {position[m] + 1} : HandledUpTo(GroupOf[m], i)'
        BY <1>1, <2>0, <2>3, <3>1, StaysHandled
      <3>3. QED
        BY <2>3, <3>2 DEF HandledUpTo
    <2>4. n # m => position'[n] = position[n]
      BY DEF MemberStep, MemberFault, Join, CommitOffset, Receive, Check, Handle, Insert,
         Rebalance, ProcessFails, Crash, Assign, Resolve, Throw, memberVars, EvidenceInv, Basics, Types
    <2>5. QED
      BY <2>1, <2>2, <2>3, <2>4, ResolvedIsHandled
  <1>5. ASSUME NEW g \in Groups
        PROVE  HandledUpTo(g, committed[g])'
    <2>0. /\ committed[g] \in Nat /\ committed[g] <= Len(log) /\ HandledUpTo(g, committed[g])
          /\ position[m] \in Nat /\ position[m] <= Len(log) /\ HandledUpTo(GroupOf[m], position[m])
      BY DEF EvidenceInv, Evidence, Basics, Types, Places
    <2>1. committed'[g] = committed[g] \/ (g = GroupOf[m] /\ committed'[g] = position[m])
      BY DEF MemberStep, MemberFault, Join, CommitOffset, Receive, Check, Handle, Insert,
         Rebalance, ProcessFails, Crash, Assign, EvidenceInv, Basics, Types
    <2>2. \A i \in {committed[g]} : HandledUpTo(g, i)'
      BY <1>1, <2>0, StaysHandled
    <2>3. g = GroupOf[m] => \A i \in {position[m]} : HandledUpTo(g, i)'
      BY <1>1, <2>0, StaysHandled
    <2>4. QED
      BY <2>1, <2>2, <2>3 DEF HandledUpTo
  <1>6. QED
    BY <1>2, <1>3, <1>4, <1>5 DEF Evidence

LEMMA NextKeepsEvidence == EvidenceInv /\ [Next]_vars => EvidenceInv'
  <1> SUFFICES ASSUME EvidenceInv, [Next]_vars PROVE EvidenceInv'
    OBVIOUS
  <1>1. Basics'
    BY NextKeepsBasics DEF EvidenceInv
  <1>2. InsertingIsHandled'
    BY NextKeepsInserting DEF EvidenceInv, Evidence
  <1>3. ASSUME NEW message \in Messages, Produce(message)
        PROVE  Evidence'
    <2>1. Types /\ Grows
      BY <1>3 DEF Produce, Grows, EvidenceInv, Basics, Types
    <2>2. ASSUME NEW m \in Members
          PROVE  HandledUpTo(GroupOf[m], position[m])'
      <3>1. \A i \in {position[m]} : HandledUpTo(GroupOf[m], i)'
        BY <2>1, StaysHandled DEF EvidenceInv, Evidence, Basics, Types, Places
      <3>2. QED
        BY <1>3, <3>1 DEF Produce, memberVars, HandledUpTo, Ran
    <2>3. ASSUME NEW g \in Groups
          PROVE  HandledUpTo(g, committed[g])'
      <3>1. \A i \in {committed[g]} : HandledUpTo(g, i)'
        BY <2>1, StaysHandled DEF EvidenceInv, Evidence, Basics, Types, Places
      <3>2. QED
        BY <1>3, <3>1 DEF Produce, memberVars, HandledUpTo, Ran
    <2>4. \A e \in Events : ledger'[e] # None => Ran(e)'
      BY <1>3 DEF Produce, EvidenceInv, Evidence, Ran
    <2>5. QED
      BY <1>2, <2>2, <2>3, <2>4 DEF Evidence
  <1>4. ASSUME NEW g \in Groups, Subscribe(g)
        PROVE  Evidence'
    <2>1. \A h \in Groups : start'[h] >= start[h]
      BY <1>4 DEF Subscribe, EvidenceInv, Basics, Types
    <2>2. ASSUME NEW m \in Members
          PROVE  HandledUpTo(GroupOf[m], position[m])'
      BY <1>4, <2>1 DEF Subscribe, memberVars, HandledUpTo, Ran, EvidenceInv, Evidence, Basics, Types
    <2>3. ASSUME NEW h \in Groups
          PROVE  HandledUpTo(h, committed[h])'
      BY <1>4 DEF Subscribe, HandledUpTo, Ran, EvidenceInv, Evidence, Basics, Types
    <2>4. QED
      BY <1>2, <1>4, <2>2, <2>3 DEF Subscribe, Evidence, EvidenceInv, Ran
  <1>5. ASSUME NEW m \in Members, MemberStep(m) \/ MemberFault(m)
        PROVE  Evidence'
    BY <1>1, <1>5, MemberKeepsEvidence
  <1>6. CASE UNCHANGED vars
    <2>1. UNCHANGED <<log, start, committed, position, pc, offset, ledger, handled>>
      BY <1>6 DEF vars, memberVars
    <2>2. \A m \in Members : HandledUpTo(GroupOf[m], position[m])'
      BY <2>1 DEF EvidenceInv, Evidence, HandledUpTo, Ran
    <2>3. \A g \in Groups : HandledUpTo(g, committed[g])'
      BY <2>1 DEF EvidenceInv, Evidence, HandledUpTo, Ran
    <2>4. Evidence'
      BY <1>2, <2>1, <2>2, <2>3 DEF EvidenceInv, Evidence, Ran
    <2>5. QED
      BY <1>1, <2>4 DEF EvidenceInv
  <1>7. QED
    BY <1>1, <1>3, <1>4, <1>5, <1>6 DEF Next, EvidenceInv

LEMMA EvidenceInvariance == Spec => []EvidenceInv
  BY InitEvidence, NextKeepsEvidence, PTL DEF Spec

\* A committed offset is that of an event some group has handled.
CommittedIsNotLost == \A g \in Groups : \A i \in Done(g) : Ran(log[i])

\* Whatever the groups: no event passes the consumers without any handler having run.
\* What groups that share the ledger lose is their own run, not the only one.
THEOREM CommitsFollowSomeHandler == Spec => []CommittedIsNotLost
  <1>1. EvidenceInv => CommittedIsNotLost
    BY DEF EvidenceInv, Evidence, HandledUpTo, CommittedIsNotLost, Done
  <1>2. QED
    BY <1>1, EvidenceInvariance, PTL

\* All members belong to one consumer group.
OneGroup == \A g \in Groups, h \in Groups : g = h

\* A group commits the offset of an event only after its handler has run for it, if
\* no other group shares the ledger.
THEOREM CommitsFollowHandler ==
    ASSUME OneGroup
    PROVE  Spec => []CommittedMeansHandled
  <1>1. CommittedIsNotLost => CommittedMeansHandled
    BY DEF OneGroup, CommittedIsNotLost, CommittedMeansHandled, Ran
  <1>2. QED
    BY <1>1, CommitsFollowSomeHandler, PTL
=============================================================================
