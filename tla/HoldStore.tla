----------------------------- MODULE HoldStore -----------------------------
(***************************************************************************)
(* Holds of the availability service at rest and under concurrent callers: *)
(* the table availability_holds (persistence/holds.go, schema.sql), the    *)
(* Redis key of each hold (coordination/redis.go) and callers that settle  *)
(* a hold by FindByID, Confirm or Release on their copy, and Update.       *)
(*                                                                         *)
(* The repository has no handler yet that makes these calls.  A caller is  *)
(* any process that reads, settles and writes back one hold, and, when     *)
(* Coordinated, brackets this with Acquire and Release of the coordinator. *)
(***************************************************************************)
EXTENDS HoldDomain

CONSTANTS
    Holds,        \* hold identifiers
    Callers,      \* concurrent callers, in any number of service instances
    Coordinated,  \* the callers that use the HoldCoordinator
    MaxLosses     \* how often Redis may lose its data

ASSUME CoordinatedAssumption == Coordinated \subseteq Callers
ASSUME MaxLossesAssumption   == MaxLosses \in Nat
ASSUME HoldsAssumption       == None \notin Holds

VARIABLES
    now,     \* time.Now(), one clock for all instances
    row,     \* the row of each hold, None before its INSERT
    key,     \* the instant at which the Redis key lapses, 0: no key
    losses,  \* data losses of Redis so far
    pc,      \* where each caller is
    target,  \* the hold a caller works on
    copy,    \* the domain.Hold value it has read
    ttl      \* the ttl that Acquire has computed

callerVars == <<pc, target, copy, ttl>>
vars == <<now, row, key, losses, callerVars>>

CallerSteps == {"idle", "acquiring", "reading", "settling", "saving", "leaving"}

Init ==
    /\ now = 0
    /\ row = [h \in Holds |-> None]
    /\ key = [h \in Holds |-> 0]
    /\ losses = 0
    /\ pc = [c \in Callers |-> "idle"]
    /\ target = [c \in Callers |-> None]
    /\ copy = [c \in Callers |-> None]
    /\ ttl = [c \in Callers |-> 0]

----------------------------------------------------------------------------
(* Time and the repository operations that need no copy *)

Tick ==
    /\ now < MaxTime
    /\ now' = now + 1
    /\ UNCHANGED <<row, key, losses, callerVars>>

\* Create: INSERT, refused by the primary key when the row exists.
Create(h, expiresAt) ==
    /\ row[h] = None
    /\ row' = [row EXCEPT ![h] = NewHold(expiresAt)]
    /\ UNCHANGED <<now, key, losses, callerVars>>

\* Seeded fault: the sweep also takes settled holds.
SweptAnyStatus(hold, time) ==
    IF hold.expiresAt <= time THEN [hold EXCEPT !.status = "EXPIRED"] ELSE hold

\* Seeded fault: the sweep leaves out the instant of expiry itself.
SweptStrictly(hold, time) ==
    IF hold.status = "ACTIVE" /\ hold.expiresAt < time
    THEN [hold EXCEPT !.status = "EXPIRED"]
    ELSE hold

\* What the UPDATE of Expire makes of a row.
Swept(hold, time) ==
    IF hold.status = "ACTIVE" /\ hold.expiresAt <= time
    THEN [hold EXCEPT !.status = "EXPIRED"]
    ELSE hold

\* Expire(ctx, time): one UPDATE; `time` was read some time before it runs.
Expire(time) ==
    /\ row' = [h \in Holds |-> IF row[h] = None THEN None ELSE Swept(row[h], time)]
    /\ UNCHANGED <<now, key, losses, callerVars>>

----------------------------------------------------------------------------
(* HoldCoordinator *)

Goto(c, step) == pc' = [pc EXCEPT ![c] = step]

ToIdle(c) ==
    /\ Goto(c, "idle")
    /\ target' = [target EXCEPT ![c] = None]
    /\ copy' = [copy EXCEPT ![c] = None]
    /\ ttl' = [ttl EXCEPT ![c] = 0]

\* Seeded fault: a fixed ttl instead of the time until expiry.
BeginAcquireFixedTtl(c, h) ==
    /\ c \in Coordinated
    /\ pc[c] = "idle"
    /\ row[h] # None
    /\ row[h].expiresAt - now > 0
    /\ ttl' = [ttl EXCEPT ![c] = 1]
    /\ target' = [target EXCEPT ![c] = h]
    /\ Goto(c, "acquiring")
    /\ UNCHANGED <<now, row, key, losses, copy>>

\* Acquire up to `ttl := time.Until(expiresAt)` and its check.
BeginAcquire(c, h) ==
    /\ c \in Coordinated
    /\ pc[c] = "idle"
    /\ row[h] # None
    /\ row[h].expiresAt - now > 0
    /\ ttl' = [ttl EXCEPT ![c] = row[h].expiresAt - now]
    /\ target' = [target EXCEPT ![c] = h]
    /\ Goto(c, "acquiring")
    /\ UNCHANGED <<now, row, key, losses, copy>>

\* Seeded fault: SET instead of SETNX.
WriteKeyWithoutNX(c) ==
    /\ now + ttl[c] <= MaxTime
    /\ key' = [key EXCEPT ![target[c]] = now + ttl[c]]

\* Seeded fault: SETNX without a ttl.
WriteKeyForGood(c) ==
    /\ key[target[c]] = 0
    /\ key' = [key EXCEPT ![target[c]] = MaxTime + 1]

\* The bound now + ttl <= MaxTime keeps the key's end inside the explored time.
WriteKey(c) ==
    /\ key[target[c]] = 0
    /\ now + ttl[c] <= MaxTime
    /\ key' = [key EXCEPT ![target[c]] = now + ttl[c]]

\* SetNX created the key.
AcquireSucceeds(c) ==
    /\ pc[c] = "acquiring"
    /\ WriteKey(c)
    /\ ttl' = [ttl EXCEPT ![c] = 0]
    /\ Goto(c, "reading")
    /\ UNCHANGED <<now, row, losses, target, copy>>

\* ErrHoldAlreadyCoordinated, or an error of Redis that hides whether the key
\* was written: the caller gives up and has no key of its own to delete.
AcquireFails(c) ==
    /\ pc[c] = "acquiring"
    /\ UNCHANGED key \/ WriteKey(c)
    /\ ToIdle(c)
    /\ UNCHANGED <<now, row, losses>>

\* Release of the coordinator: an unconditional DEL, which may fail.
Leave(c) ==
    /\ pc[c] = "leaving"
    /\ \/ UNCHANGED key
       \/ c \in Coordinated /\ key' = [key EXCEPT ![target[c]] = 0]
    /\ ToIdle(c)
    /\ UNCHANGED <<now, row, losses>>

KeyLapses(h) ==
    /\ key[h] # 0
    /\ key[h] <= now
    /\ key' = [key EXCEPT ![h] = 0]
    /\ UNCHANGED <<now, row, losses, callerVars>>

\* A restart or failover of Redis forgets every key.
RedisLosesData ==
    /\ losses < MaxLosses
    /\ losses' = losses + 1
    /\ key' = [h \in Holds |-> 0]
    /\ UNCHANGED <<now, row, callerVars>>

----------------------------------------------------------------------------
(* A caller's read, settle, write *)

BeginAlone(c, h) ==
    /\ c \notin Coordinated
    /\ pc[c] = "idle"
    /\ row[h] # None
    /\ target' = [target EXCEPT ![c] = h]
    /\ Goto(c, "reading")
    /\ UNCHANGED <<now, row, key, losses, copy, ttl>>

FindByID(c) ==
    /\ pc[c] = "reading"
    /\ copy' = [copy EXCEPT ![c] = row[target[c]]]
    /\ Goto(c, "settling")
    /\ UNCHANGED <<now, row, key, losses, target, ttl>>

\* The caller keeps what Confirm or Release made of its copy and saves it
\* when it was settled or found expired.
Settled(c, result) ==
    /\ copy' = [copy EXCEPT ![c] = result.hold]
    /\ Goto(c, IF result.error \in {"nil", "ErrHoldExpired"} THEN "saving" ELSE "leaving")
    /\ UNCHANGED <<now, row, key, losses, target, ttl>>

ConfirmCopy(c, bookingID) ==
    /\ pc[c] = "settling"
    /\ Settled(c, Confirm(copy[c], now, bookingID))

ReleaseCopy(c, reason) ==
    /\ pc[c] = "settling"
    /\ Settled(c, Release(copy[c], now, reason))

\* Seeded fault: without NULLIF an absent booking is stored as ''.
WriteRowWithoutNullif(c) ==
    row' = [row EXCEPT
              ![target[c]].status        = copy[c].status,
              ![target[c]].bookingID     = IF copy[c].bookingID = None THEN "" ELSE copy[c].bookingID,
              ![target[c]].releaseReason = copy[c].releaseReason]

\* UPDATE ... SET status, booking_id, release_reason WHERE id: nothing checks
\* that the row is still as it was read.
WriteRow(c) ==
    row' = [row EXCEPT ![target[c]].status        = copy[c].status,
                       ![target[c]].bookingID     = copy[c].bookingID,
                       ![target[c]].releaseReason = copy[c].releaseReason]

\* Update returns nil, or an error that hides whether the row was written.
Update(c) ==
    /\ pc[c] = "saving"
    /\ WriteRow(c) \/ UNCHANGED row
    /\ Goto(c, "leaving")
    /\ UNCHANGED <<now, key, losses, target, copy, ttl>>

\* The caller's process dies; its key stays until it lapses.
Crash(c) ==
    /\ pc[c] # "idle"
    /\ ToIdle(c)
    /\ UNCHANGED <<now, row, key, losses>>

Caller(c) ==
    \/ \E h \in Holds : BeginAcquire(c, h) \/ BeginAlone(c, h)
    \/ AcquireSucceeds(c)
    \/ AcquireFails(c)
    \/ FindByID(c)
    \/ \E b \in Bookings \cup {None} : ConfirmCopy(c, b)
    \/ \E r \in Reasons \cup {None} : ReleaseCopy(c, r)
    \/ Update(c)
    \/ Leave(c)
    \/ Crash(c)

Next ==
    \/ Tick
    \/ \E h \in Holds, expiresAt \in 0..MaxTime : Create(h, expiresAt)
    \/ \E time \in 0..now : Expire(time)
    \/ \E h \in Holds : KeyLapses(h)
    \/ RedisLosesData
    \/ \E c \in Callers : Caller(c)

Spec == Init /\ [][Next]_vars

\* Time passes and Redis removes keys whose ttl is over.  Nothing is assumed
\* of the callers, which may stop anywhere.
FairSpec == Spec /\ WF_vars(Tick) /\ \A h \in Holds : WF_vars(KeyLapses(h))

----------------------------------------------------------------------------
(* Properties *)

\* The type invariant.
TypeOK ==
    /\ now \in 0..MaxTime
    /\ row \in [Holds -> HoldRecords \cup {None}]
    /\ key \in [Holds -> 0..MaxTime]
    /\ losses \in 0..MaxLosses
    /\ pc \in [Callers -> CallerSteps]
    /\ target \in [Callers -> Holds \cup {None}]
    /\ copy \in [Callers -> HoldRecords \cup {None}]
    /\ ttl \in [Callers -> 0..MaxTime]

Stored(h) == row[h] # None

\* A booking is recorded exactly on confirmed holds and a reason exactly on
\* released ones, whatever stale copies are written over each other
\* (holds.go:65-71 writes the three columns together, hold.go:54-55 and 71-72).
RowCoherent ==
    \A h \in Holds : Stored(h) =>
        /\ row[h].status = "CONFIRMED" <=> row[h].bookingID # None
        /\ row[h].status = "RELEASED" <=> row[h].releaseReason # None

\* No hold is recorded as expired before its time, by a caller or by the sweep.
ExpiredOnlyAfterExpiry ==
    \A h \in Holds : Stored(h) /\ row[h].status = "EXPIRED" => row[h].expiresAt <= now

\* The SQL sweep and the domain agree on the instant of expiry: whenever
\* Expire(time) runs it gives every row the status that EffectiveStatus of the
\* row is at that time.
SweepAgreesWithDomain ==
    \A h \in Holds, time \in 0..now : Stored(h) =>
        Swept(row[h], time).status = EffectiveStatus(row[h], time)

Coordinating(c, h) ==
    target[c] = h /\ pc[c] \in {"reading", "settling", "saving", "leaving"}

\* Until a hold expires at most one coordinated caller works on it, although
\* DEL is unconditional and keys lapse by themselves (redis.go:25-43).
OneCoordinator ==
    \A h \in Holds, c, d \in Callers :
        Stored(h) /\ now < row[h].expiresAt /\ Coordinating(c, h) /\ Coordinating(d, h)
            => c = d

\* A hold that was confirmed for a booking is never released or confirmed for
\* another one (hold_test.go:47-57 says so of a single copy of the hold).
NeverResold ==
    [][\A h \in Holds : Stored(h) /\ row[h].status = "CONFIRMED" =>
         /\ row'[h].status # "RELEASED"
         /\ row'[h].status = "CONFIRMED" => row'[h].bookingID = row[h].bookingID]_vars

ConfirmedFor(h, b) == Stored(h) /\ row[h].status = "CONFIRMED" /\ row[h].bookingID = b

\* Confirmed for b, or EXPIRED by a late copy.
OnlyFor(h, b) ==
    /\ Stored(h)
    /\ row[h].status \in {"CONFIRMED", "EXPIRED"}
    /\ row[h].status = "CONFIRMED" => row[h].bookingID = b

\* A hold is confirmed for one booking at most over its whole life.  Another
\* caller's late copy may turn it EXPIRED (holds.go:65), but also after that it
\* is never released, sold to another booking or ACTIVE again.
SoldOnce ==
    \A h \in Holds, b \in Bookings : [](ConfirmedFor(h, b) => []OnlyFor(h, b))

\* The key of a hold goes away in the end even if every caller crashes.
KeyEventuallyFree == \A h \in Holds : key[h] # 0 ~> key[h] = 0
=============================================================================
