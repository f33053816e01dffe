-------------------------- MODULE HoldStoreProofs --------------------------
(***************************************************************************)
(* Safety of the holds for every number of holds and callers and every     *)
(* stretch of time: what races cannot break in the table, and what Redis   *)
(* adds to it as long as it keeps its data.                                *)
(***************************************************************************)
EXTENDS HoldStore, TLAPS

----------------------------------------------------------------------------
(* Lemmas about the domain *)

Coherent(hold) ==
    /\ hold.status = "CONFIRMED" <=> hold.bookingID # None
    /\ hold.status = "RELEASED" <=> hold.releaseReason # None

SettledStatuses == {"CONFIRMED", "RELEASED"}

\* What Confirm and Release may make of a hold.
Outcome(hold, time, result) ==
    /\ result.hold \in HoldRecords
    /\ result.hold.expiresAt = hold.expiresAt
    /\ Coherent(hold) => Coherent(result.hold)
    /\ result.hold.status = "EXPIRED" => hold.status = "EXPIRED" \/ hold.expiresAt <= time
    /\ result.error = "nil" =>
         hold.status = "ACTIVE" /\ time < hold.expiresAt /\ result.hold.status \in SettledStatuses
    /\ result.error = "ErrHoldExpired" => result.hold.status = "EXPIRED"

\* The same for the common course, given what `settled` is.
LEMMA SettleOutcome ==
    ASSUME NEW hold \in HoldRecords, NEW time \in 0..MaxTime, NEW argument,
           NEW missing, missing \notin {"nil", "ErrHoldExpired"},
           NEW settled,
           argument # None /\ hold.status = "ACTIVE" =>
               /\ settled \in HoldRecords
               /\ settled.expiresAt = hold.expiresAt
               /\ settled.status \in SettledStatuses
               /\ Coherent(hold) => Coherent(settled)
    PROVE  Outcome(hold, time, Settle(hold, time, argument, missing, settled))
  <1> DEFINE result == Settle(hold, time, argument, missing, settled)
             expired == [hold EXCEPT !.status = "EXPIRED"]
  <1>1. CASE argument = None
    <2>1. result = [hold |-> hold, error |-> missing]
      BY <1>1 DEF Settle
    <2>2. QED
      BY <2>1 DEF Outcome
  <1>2. CASE argument # None /\ EffectiveStatus(hold, time) = "EXPIRED"
    <2>1. result = [hold |-> expired, error |-> "ErrHoldExpired"]
      BY <1>2 DEF Settle
    <2>2. /\ expired \in HoldRecords
          /\ expired.status = "EXPIRED"
          /\ expired.expiresAt = hold.expiresAt
          /\ expired.bookingID = hold.bookingID
          /\ expired.releaseReason = hold.releaseReason
      BY DEF HoldRecords, HoldStatuses
    <2>3. hold.status = "EXPIRED" \/ (hold.status = "ACTIVE" /\ hold.expiresAt <= time)
      BY <1>2, MaxTimeAssumption DEF EffectiveStatus, HoldRecords
    <2> HIDE DEF expired
    <2>4. QED
      BY <2>1, <2>2, <2>3 DEF Outcome, Coherent
  <1>3. CASE argument # None /\ EffectiveStatus(hold, time) \notin {"ACTIVE", "EXPIRED"}
    <2>1. result = [hold |-> hold, error |-> "ErrHoldNotActive"]
      BY <1>3 DEF Settle
    <2>2. QED
      BY <2>1 DEF Outcome
  <1>4. CASE argument # None /\ EffectiveStatus(hold, time) = "ACTIVE"
    <2>1. result = [hold |-> settled, error |-> "nil"]
      BY <1>4 DEF Settle
    <2>2. hold.status = "ACTIVE" /\ time < hold.expiresAt
      BY <1>4, MaxTimeAssumption DEF EffectiveStatus, HoldRecords
    <2>3. QED
      BY <1>4, <2>1, <2>2 DEF Outcome, SettledStatuses
  <1>5. QED
    BY <1>1, <1>2, <1>3, <1>4

LEMMA ConfirmOutcome ==
    ASSUME NEW hold \in HoldRecords, NEW time \in 0..MaxTime, NEW b \in Bookings \cup {None}
    PROVE  Outcome(hold, time, Confirm(hold, time, b))
  <1> DEFINE settled == [hold EXCEPT !.status = "CONFIRMED", !.bookingID = b]
  <1>1. /\ settled \in HoldRecords
        /\ settled.expiresAt = hold.expiresAt
        /\ settled.status = "CONFIRMED"
        /\ settled.bookingID = b
        /\ settled.releaseReason = hold.releaseReason
    BY DEF HoldRecords, HoldStatuses
  <1> HIDE DEF settled
  <1>2. Outcome(hold, time, Settle(hold, time, b, "ErrBookingIDRequired", settled))
    BY <1>1, SettleOutcome DEF Coherent, SettledStatuses
  <1>3. QED
    BY <1>2 DEF Confirm, settled

LEMMA ReleaseOutcome ==
    ASSUME NEW hold \in HoldRecords, NEW time \in 0..MaxTime, NEW r \in Reasons \cup {None}
    PROVE  Outcome(hold, time, Release(hold, time, r))
  <1> DEFINE settled == [hold EXCEPT !.status = "RELEASED", !.releaseReason = r]
  <1>1. /\ settled \in HoldRecords
        /\ settled.expiresAt = hold.expiresAt
        /\ settled.status = "RELEASED"
        /\ settled.bookingID = hold.bookingID
        /\ settled.releaseReason = r
    BY DEF HoldRecords, HoldStatuses
  <1> HIDE DEF settled
  <1>2. Outcome(hold, time, Settle(hold, time, r, "ErrReleaseReasonRequired", settled))
    BY <1>1, SettleOutcome DEF Coherent, SettledStatuses
  <1>3. QED
    BY <1>2 DEF Release, settled

----------------------------------------------------------------------------
(* The invariant of the table and of the copies callers hold *)

\* What is true of every hold value, stored or copied, at a time.
Good(hold, time) ==
    /\ hold \in HoldRecords
    /\ Coherent(hold)
    /\ hold.status = "EXPIRED" => hold.expiresAt <= time

\* A caller that is under way has a stored hold, and its copy belongs to it.
CallersInv ==
    \A c \in Callers :
        /\ pc[c] # "idle" => target[c] \in Holds /\ Stored(target[c])
        /\ pc[c] \in {"settling", "saving"} =>
             Good(copy[c], now) /\ copy[c].expiresAt = row[target[c]].expiresAt

RowsGood == \A h \in Holds : Stored(h) => Good(row[h], now)

StoreInv == TypeOK /\ CallersInv /\ RowsGood

\* No step removes a row or moves its expiry, and all rows stay good.
RowEffect ==
    /\ row' \in [Holds -> HoldRecords \cup {None}]
    /\ \A h \in Holds : Stored(h) => Stored(h)' /\ row'[h].expiresAt = row[h].expiresAt
    /\ RowsGood'

\* What a step of caller c does to the callers.
CallerEffect(c) ==
    /\ pc' \in [Callers -> CallerSteps]
    /\ target' \in [Callers -> Holds \cup {None}]
    /\ copy' \in [Callers -> HoldRecords \cup {None}]
    /\ ttl' \in [Callers -> 0..MaxTime]
    /\ key' \in [Holds -> 0..MaxTime]
    /\ UNCHANGED <<now, losses>>
    /\ \A d \in Callers \ {c} :
         pc'[d] = pc[d] /\ target'[d] = target[d] /\ copy'[d] = copy[d] /\ ttl'[d] = ttl[d]
    /\ pc'[c] # "idle" => target'[c] \in Holds /\ Stored(target'[c])
    /\ pc'[c] \in {"settling", "saving"} =>
         Good(copy'[c], now) /\ copy'[c].expiresAt = row[target'[c]].expiresAt

LEMMA RowUnchanged ==
    ASSUME StoreInv, UNCHANGED <<row, now>>
    PROVE  RowEffect
  BY DEF StoreInv, RowEffect, TypeOK, RowsGood, Stored

LEMMA CreateEffect ==
    ASSUME StoreInv, NEW h \in Holds, NEW expiresAt \in 0..MaxTime, Create(h, expiresAt)
    PROVE  RowEffect
  <1>1. Good(NewHold(expiresAt), now) /\ NewHold(expiresAt) # None
    BY NoneAssumption DEF Good, NewHold, Coherent, HoldRecords, HoldStatuses
  <1>2. row' = [row EXCEPT ![h] = NewHold(expiresAt)] /\ ~Stored(h) /\ now' = now
    BY DEF Create, Stored
  <1>3. QED
    BY <1>1, <1>2 DEF StoreInv, TypeOK, RowEffect, RowsGood, Stored, Good

LEMMA ExpireEffect ==
    ASSUME StoreInv, NEW time \in 0..now, Expire(time)
    PROVE  RowEffect
  <1> DEFINE hit(h) == row[h] # None /\ row[h].status = "ACTIVE" /\ row[h].expiresAt <= time
             swept(h) == [row[h] EXCEPT !.status = "EXPIRED"]
  <1>1. \A h \in Holds : row'[h] = IF hit(h) THEN swept(h) ELSE row[h]
    BY DEF Expire, Swept
  <1>2. now' = now /\ now \in Nat /\ time <= now
    BY MaxTimeAssumption DEF Expire, Swept, StoreInv, TypeOK
  <1>3. ASSUME NEW h \in Holds, hit(h)
        PROVE  Good(swept(h), now) /\ swept(h).expiresAt = row[h].expiresAt
    <2>1. Good(row[h], now) /\ row[h].expiresAt <= time
      BY <1>3 DEF StoreInv, RowsGood, Stored
    <2>2. /\ swept(h) \in HoldRecords
          /\ swept(h).status = "EXPIRED"
          /\ swept(h).expiresAt = row[h].expiresAt
          /\ swept(h).bookingID = row[h].bookingID
          /\ swept(h).releaseReason = row[h].releaseReason
      BY <2>1 DEF Good, HoldRecords, HoldStatuses
    <2>3. row[h].expiresAt <= now
      BY <1>2, <2>1, MaxTimeAssumption DEF Good, HoldRecords
    <2> HIDE DEF swept
    <2>4. QED
      BY <1>3, <2>1, <2>2, <2>3 DEF Good, Coherent
  <1>4. \A h \in Holds : swept(h) \in HoldRecords /\ hit(h) => swept(h) # None
    BY NoneAssumption
  <1>5. \A h \in Holds : row'[h] \in HoldRecords \cup {None}
    BY <1>1, <1>3 DEF Good, StoreInv, TypeOK
  <1>6. row' \in [Holds -> HoldRecords \cup {None}]
    BY <1>5 DEF Expire, Swept
  <1> HIDE DEF swept
  <1>7. \A h \in Holds : Stored(h) => Stored(h)' /\ row'[h].expiresAt = row[h].expiresAt
    BY <1>1, <1>3, <1>4 DEF Stored, Good
  <1>8. RowsGood'
    BY <1>1, <1>2, <1>3 DEF StoreInv, RowsGood, Stored
  <1>9. QED
    BY <1>6, <1>7, <1>8 DEF RowEffect

LEMMA UpdateEffect ==
    ASSUME StoreInv, NEW c \in Callers, Update(c)
    PROVE  RowEffect
  <1> DEFINE h == target[c]
             written == [row[h] EXCEPT !.status        = copy[c].status,
                                       !.bookingID     = copy[c].bookingID,
                                       !.releaseReason = copy[c].releaseReason]
  <1>1. /\ h \in Holds /\ Stored(h)
        /\ Good(copy[c], now) /\ copy[c].expiresAt = row[h].expiresAt
        /\ now' = now
    BY DEF Update, StoreInv, CallersInv
  <1>2. Good(row[h], now)
    BY <1>1 DEF StoreInv, RowsGood
  <1>3. /\ written \in HoldRecords
        /\ written.status = copy[c].status
        /\ written.expiresAt = row[h].expiresAt
        /\ written.bookingID = copy[c].bookingID
        /\ written.releaseReason = copy[c].releaseReason
    BY <1>1, <1>2 DEF Good, HoldRecords
  <1>4. row' = row \/ row' = [row EXCEPT ![h] = written]
    BY DEF Update, WriteRow
  <1> HIDE DEF written, h
  <1>5. Good(written, now) /\ written # None
    BY <1>1, <1>3, NoneAssumption DEF Good, Coherent
  <1>6. CASE row' = row
    BY <1>1, <1>6, RowUnchanged
  <1>7. CASE row' = [row EXCEPT ![h] = written]
    BY <1>1, <1>3, <1>5, <1>7 DEF StoreInv, TypeOK, RowEffect, RowsGood, Stored, Good
  <1>8. QED
    BY <1>4, <1>6, <1>7

----------------------------------------------------------------------------
(* Steps of the callers *)

LEMMA ToIdleEffect ==
    ASSUME StoreInv, NEW c \in Callers, ToIdle(c), UNCHANGED <<now, losses>>,
           key' \in [Holds -> 0..MaxTime]
    PROVE  CallerEffect(c) /\ pc'[c] = "idle"
  BY MaxTimeAssumption DEF StoreInv, TypeOK, ToIdle, Goto, CallerEffect, CallerSteps

LEMMA WriteKeyType ==
    ASSUME StoreInv, NEW c \in Callers, WriteKey(c) \/ UNCHANGED key, target[c] \in Holds
    PROVE  key' \in [Holds -> 0..MaxTime]
  <1>1. CASE WriteKey(c)
    <2>1. now + ttl[c] \in 0..MaxTime
      BY <1>1, MaxTimeAssumption DEF WriteKey, StoreInv, TypeOK
    <2>2. QED
      BY <1>1, <2>1 DEF WriteKey, StoreInv, TypeOK
  <1>2. CASE UNCHANGED key
    BY <1>2 DEF StoreInv, TypeOK
  <1>3. QED
    BY <1>1, <1>2

LEMMA SettledEffect ==
    ASSUME StoreInv, NEW c \in Callers, pc[c] = "settling", NEW result,
           Outcome(copy[c], now, result), Settled(c, result)
    PROVE  CallerEffect(c)
  <1>1. /\ target[c] \in Holds /\ Stored(target[c])
        /\ Good(copy[c], now) /\ copy[c].expiresAt = row[target[c]].expiresAt
    BY DEF StoreInv, CallersInv
  <1>2. Good(result.hold, now) /\ result.hold.expiresAt = copy[c].expiresAt
    BY <1>1 DEF Outcome, Good
  <1>3. pc'[c] \in {"saving", "leaving"} /\ pc' \in [Callers -> CallerSteps]
    BY DEF Settled, Goto, StoreInv, TypeOK, CallerSteps
  <1>4. copy' = [copy EXCEPT ![c] = result.hold]
    BY DEF Settled
  <1>5. copy' \in [Callers -> HoldRecords \cup {None}] /\ copy'[c] = result.hold
    BY <1>2, <1>4 DEF Good, StoreInv, TypeOK
  <1>6. \A d \in Callers \ {c} : pc'[d] = pc[d] /\ copy'[d] = copy[d]
    BY <1>4 DEF Settled, Goto, StoreInv, TypeOK
  <1>7. QED
    BY <1>1, <1>2, <1>3, <1>5, <1>6 DEF Settled, CallerEffect, StoreInv, TypeOK

LEMMA CallerHasEffect ==
    ASSUME StoreInv, NEW c \in Callers, Caller(c)
    PROVE  CallerEffect(c) /\ RowEffect
  <1> USE DEF CallersInv
  <1>1. ASSUME NEW h \in Holds, BeginAcquire(c, h)
        PROVE  CallerEffect(c) /\ RowEffect
    <2>1. row[h].expiresAt - now \in 0..MaxTime
      <3>1. row[h] \in HoldRecords /\ row[h].expiresAt - now > 0 /\ now \in 0..MaxTime
        BY <1>1 DEF BeginAcquire, StoreInv, TypeOK
      <3>2. QED
        BY <3>1, MaxTimeAssumption DEF HoldRecords
    <2>2. ttl' \in [Callers -> 0..MaxTime]
      BY <1>1, <2>1 DEF BeginAcquire, StoreInv, TypeOK
    <2>3. QED
      BY <1>1, <2>2, RowUnchanged
         DEF BeginAcquire, Goto, StoreInv, TypeOK, CallerEffect, CallerSteps, Stored
  <1>2. ASSUME NEW h \in Holds, BeginAlone(c, h)
        PROVE  CallerEffect(c) /\ RowEffect
    BY <1>2, RowUnchanged
       DEF BeginAlone, Goto, StoreInv, TypeOK, CallerEffect, CallerSteps, Stored
  <1>3. CASE AcquireSucceeds(c)
    <2>1. target[c] \in Holds /\ Stored(target[c])
      BY <1>3 DEF AcquireSucceeds, StoreInv
    <2>2. key' \in [Holds -> 0..MaxTime]
      BY <1>3, <2>1, WriteKeyType DEF AcquireSucceeds
    <2>3. QED
      BY <1>3, <2>1, <2>2, RowUnchanged, MaxTimeAssumption
         DEF AcquireSucceeds, Goto, StoreInv, TypeOK, CallerEffect, CallerSteps
  <1>4. CASE AcquireFails(c)
    <2>1. target[c] \in Holds
      BY <1>4 DEF AcquireFails, StoreInv
    <2>2. key' \in [Holds -> 0..MaxTime]
      BY <1>4, <2>1, WriteKeyType DEF AcquireFails
    <2>3. QED
      BY <1>4, <2>2, ToIdleEffect, RowUnchanged DEF AcquireFails
  <1>5. CASE FindByID(c)
    <2>1. target[c] \in Holds /\ Stored(target[c])
      BY <1>5 DEF FindByID, StoreInv
    <2>2. Good(row[target[c]], now)
      BY <2>1 DEF StoreInv, RowsGood
    <2>3. pc' = [pc EXCEPT ![c] = "settling"] /\ copy' = [copy EXCEPT ![c] = row[target[c]]]
      BY <1>5 DEF FindByID, Goto
    <2>4. copy' \in [Callers -> HoldRecords \cup {None}] /\ copy'[c] = row[target[c]]
      BY <2>1, <2>2, <2>3 DEF StoreInv, TypeOK, Good
    <2>5. pc' \in [Callers -> CallerSteps]
      BY <2>3 DEF StoreInv, TypeOK, CallerSteps
    <2>6. \A d \in Callers \ {c} : pc'[d] = pc[d] /\ copy'[d] = copy[d]
      BY <2>3 DEF StoreInv, TypeOK
    <2>7. QED
      BY <1>5, <2>1, <2>2, <2>4, <2>5, <2>6, RowUnchanged
         DEF FindByID, StoreInv, TypeOK, CallerEffect
  <1>6. ASSUME NEW b \in Bookings \cup {None}, ConfirmCopy(c, b)
        PROVE  CallerEffect(c) /\ RowEffect
    <2>1. copy[c] \in HoldRecords /\ now \in 0..MaxTime
      BY <1>6 DEF ConfirmCopy, StoreInv, TypeOK, Good
    <2>2. UNCHANGED <<row, now>>
      BY <1>6 DEF ConfirmCopy, Settled
    <2>3. QED
      BY <1>6, <2>1, <2>2, ConfirmOutcome, SettledEffect, RowUnchanged DEF ConfirmCopy
  <1>7. ASSUME NEW r \in Reasons \cup {None}, ReleaseCopy(c, r)
        PROVE  CallerEffect(c) /\ RowEffect
    <2>1. copy[c] \in HoldRecords /\ now \in 0..MaxTime
      BY <1>7 DEF ReleaseCopy, StoreInv, TypeOK, Good
    <2>2. UNCHANGED <<row, now>>
      BY <1>7 DEF ReleaseCopy, Settled
    <2>3. QED
      BY <1>7, <2>1, <2>2, ReleaseOutcome, SettledEffect, RowUnchanged DEF ReleaseCopy
  <1>8. CASE Update(c)
    BY <1>8, UpdateEffect DEF Update, Goto, StoreInv, TypeOK, CallerEffect, CallerSteps
  <1>9. CASE Leave(c)
    <2>1. key' \in [Holds -> 0..MaxTime]
      BY <1>9, MaxTimeAssumption DEF Leave, StoreInv, TypeOK
    <2>2. QED
      BY <1>9, <2>1, ToIdleEffect, RowUnchanged DEF Leave
  <1>10. CASE Crash(c)
    BY <1>10, ToIdleEffect, RowUnchanged DEF Crash, StoreInv, TypeOK
  <1>11. QED
    BY <1>1, <1>2, <1>3, <1>4, <1>5, <1>6, <1>7, <1>8, <1>9, <1>10 DEF Caller

----------------------------------------------------------------------------
(* StoreInv is inductive *)

LEMMA InitStoreInv == Init => StoreInv
  BY MaxTimeAssumption, MaxLossesAssumption
     DEF Init, StoreInv, TypeOK, CallersInv, RowsGood, Stored, CallerSteps

\* A step that keeps the callers as they are, given what it does to the rows.
LEMMA OthersKeepStoreInv ==
    ASSUME StoreInv, RowEffect, UNCHANGED callerVars,
           now' \in now..MaxTime, losses' \in 0..MaxLosses, key' \in [Holds -> 0..MaxTime]
    PROVE  StoreInv'
  <1>1. now \in Nat /\ now' \in 0..MaxTime /\ now <= now'
    BY MaxTimeAssumption DEF StoreInv, TypeOK
  <1>2. TypeOK' /\ RowsGood'
    BY <1>1 DEF StoreInv, TypeOK, RowEffect, callerVars
  <1>3. CallersInv'
    <2> SUFFICES ASSUME NEW c \in Callers
                 PROVE  (/\ pc[c] # "idle" => target[c] \in Holds /\ Stored(target[c])
                         /\ pc[c] \in {"settling", "saving"} =>
                              /\ Good(copy[c], now)
                              /\ copy[c].expiresAt = row[target[c]].expiresAt)'
      BY DEF CallersInv
    <2>1. \A t \in 0..MaxTime : t <= now => t <= now'
      BY <1>1, MaxTimeAssumption
    <2>2. Good(copy[c], now) => Good(copy[c], now')
      BY <2>1 DEF Good, HoldRecords
    <2>3. QED
      BY <2>2 DEF callerVars, StoreInv, CallersInv, RowEffect
  <1>4. QED
    BY <1>2, <1>3 DEF StoreInv

LEMMA CallerKeepsStoreInv ==
    ASSUME StoreInv, NEW c \in Callers, Caller(c)
    PROVE  StoreInv'
  <1>1. CallerEffect(c) /\ RowEffect
    BY CallerHasEffect
  <1>2. TypeOK' /\ RowsGood'
    BY <1>1 DEF StoreInv, TypeOK, RowEffect, CallerEffect
  <1>3. CallersInv'
    <2> SUFFICES ASSUME NEW d \in Callers
                 PROVE  (/\ pc[d] # "idle" => target[d] \in Holds /\ Stored(target[d])
                         /\ pc[d] \in {"settling", "saving"} =>
                              /\ Good(copy[d], now)
                              /\ copy[d].expiresAt = row[target[d]].expiresAt)'
      BY DEF CallersInv
    <2>1. CASE d = c
      BY <1>1, <2>1 DEF CallerEffect, RowEffect
    <2>2. CASE d # c
      BY <1>1, <2>2 DEF CallerEffect, RowEffect, StoreInv, CallersInv
    <2>3. QED
      BY <2>1, <2>2
  <1>4. QED
    BY <1>2, <1>3 DEF StoreInv

LEMMA TickEffect ==
    ASSUME StoreInv, Tick
    PROVE  RowEffect /\ now' \in now..MaxTime
  <1>1. now \in 0..MaxTime /\ now' = now + 1 /\ now < MaxTime /\ row' = row
    BY DEF Tick, StoreInv, TypeOK
  <1>2. now' \in now..MaxTime /\ \A t \in 0..MaxTime : t <= now => t <= now'
    BY <1>1, MaxTimeAssumption
  <1>3. \A h \in Holds : Stored(h) => Good(row[h], now')
    BY <1>2 DEF StoreInv, RowsGood, Good, HoldRecords
  <1>4. QED
    BY <1>1, <1>2, <1>3 DEF RowEffect, StoreInv, TypeOK, RowsGood, Stored

LEMMA NextKeepsStoreInv == StoreInv /\ [Next]_vars => StoreInv'
  <1> SUFFICES ASSUME StoreInv, [Next]_vars PROVE StoreInv'
    OBVIOUS
  <1> USE MaxTimeAssumption
  <1>1. CASE Tick
    BY <1>1, TickEffect, OthersKeepStoreInv DEF Tick, StoreInv, TypeOK
  <1>2. ASSUME NEW h \in Holds, NEW expiresAt \in 0..MaxTime, Create(h, expiresAt)
        PROVE  StoreInv'
    <2>1. UNCHANGED <<now, key, losses, callerVars>>
      BY <1>2 DEF Create
    <2>2. RowEffect
      BY <1>2, CreateEffect
    <2>3. QED
      BY <2>1, <2>2, OthersKeepStoreInv DEF StoreInv, TypeOK
  <1>3. ASSUME NEW time \in 0..now, Expire(time)
        PROVE  StoreInv'
    BY <1>3, ExpireEffect, OthersKeepStoreInv DEF Expire, Swept, StoreInv, TypeOK
  <1>4. ASSUME NEW h \in Holds, KeyLapses(h)
        PROVE  StoreInv'
    BY <1>4, RowUnchanged, OthersKeepStoreInv DEF KeyLapses, StoreInv, TypeOK
  <1>5. CASE RedisLosesData
    BY <1>5, RowUnchanged, OthersKeepStoreInv, MaxLossesAssumption
       DEF RedisLosesData, StoreInv, TypeOK
  <1>6. ASSUME NEW c \in Callers, Caller(c)
        PROVE  StoreInv'
    BY <1>6, CallerKeepsStoreInv
  <1>7. CASE UNCHANGED vars
    BY <1>7 DEF vars, callerVars, StoreInv, TypeOK, CallersInv, RowsGood, Stored
  <1>8. QED
    BY <1>1, <1>2, <1>3, <1>4, <1>5, <1>6, <1>7 DEF Next

LEMMA StoreInvariance == Spec => []StoreInv
  BY InitStoreInv, NextKeepsStoreInv, PTL DEF Spec

\* Type correctness of the table, the keys and the callers.
THEOREM HoldTypeCorrect == Spec => []TypeOK
  BY StoreInvariance, PTL DEF StoreInv

\* However stale the copies that callers write over each other, a booking is
\* recorded on confirmed holds only and a reason on released ones only.
THEOREM RowsCoherent == Spec => []RowCoherent
  <1>1. StoreInv => RowCoherent
    BY DEF StoreInv, RowsGood, RowCoherent, Good, Coherent
  <1>2. QED
    BY <1>1, StoreInvariance, PTL

\* No hold is recorded as expired before its time.
THEOREM NeverExpiredEarly == Spec => []ExpiredOnlyAfterExpiry
  <1>1. StoreInv => ExpiredOnlyAfterExpiry
    BY DEF StoreInv, RowsGood, ExpiredOnlyAfterExpiry, Good
  <1>2. QED
    BY <1>1, StoreInvariance, PTL

\* The sweep's SQL and the domain's Go agree on the instant a hold expires.
THEOREM SweepAgrees == Spec => []SweepAgreesWithDomain
  <1>1. StoreInv => SweepAgreesWithDomain
    <2> SUFFICES ASSUME StoreInv, NEW h \in Holds, NEW time \in 0..now, Stored(h)
                 PROVE  Swept(row[h], time).status = EffectiveStatus(row[h], time)
      BY DEF SweepAgreesWithDomain
    <2>1. /\ row[h] \in HoldRecords
          /\ row[h].expiresAt \in Int
          /\ now \in Int
      BY MaxTimeAssumption DEF StoreInv, TypeOK, RowsGood, Good, HoldRecords
    <2>2. QED
      BY <2>1 DEF Swept, EffectiveStatus, HoldRecords
  <1>2. QED
    BY <1>1, StoreInvariance, PTL

----------------------------------------------------------------------------
(* What coordination through Redis adds while Redis keeps its data *)

Early(h) == Stored(h) /\ now < row[h].expiresAt

\* A key that is there outlives the hold, and so would one still to be written:
\* the ttl of Acquire was computed from the hold's expiry at an earlier instant.
KeysOutliveHolds ==
    /\ \A h \in Holds : key[h] # 0 => Stored(h) /\ row[h].expiresAt <= key[h]
    /\ \A c \in Callers : pc[c] = "acquiring" =>
         ttl[c] > 0 /\ row[target[c]].expiresAt <= now + ttl[c]

\* While a hold is early, whoever works on it has put its key there.
WorkersHaveKey ==
    \A c \in Callers, h \in Holds : Early(h) /\ Coordinating(c, h) => key[h] # 0

\* While a hold is early, its only worker has seen the row as it is.
CopiesFresh ==
    \A c \in Callers : pc[c] = "settling" /\ Early(target[c]) => copy[c] = row[target[c]]

\* Caller c is about to write an outcome it decided on.
Deciding(c, h) ==
    target[c] = h /\ pc[c] = "saving" /\ copy[c].status \in SettledStatuses

\* One caller at most is about to write the outcome of a hold, and none is
\* once an outcome has been written.
OneDecision ==
    \A h \in Holds, c \in Callers : Deciding(c, h) =>
        /\ row[h].status \notin SettledStatuses
        /\ \A d \in Callers : Deciding(d, h) => d = c

CoordInv ==
    /\ StoreInv
    /\ KeysOutliveHolds
    /\ WorkersHaveKey
    /\ OneCoordinator
    /\ CopiesFresh
    /\ OneDecision

\* All callers coordinate and Redis has lost nothing.
Reliable == Coordinated = Callers /\ MaxLosses = 0

LEMMA InitCoordInv == Init => CoordInv
  BY InitStoreInv DEF Init, CoordInv, KeysOutliveHolds, WorkersHaveKey, OneCoordinator,
     CopiesFresh, OneDecision, Coordinating, Deciding, Early, Stored

\* The five parts that coordination adds to StoreInv.
CoordParts ==
    /\ KeysOutliveHolds
    /\ WorkersHaveKey
    /\ OneCoordinator
    /\ CopiesFresh
    /\ OneDecision

LEMMA TickKeepsParts ==
    ASSUME CoordInv, Tick
    PROVE  CoordParts'
  <1>1. /\ now \in 0..MaxTime /\ now' = now + 1
        /\ UNCHANGED <<row, key, pc, target, copy, ttl>>
        /\ ttl \in [Callers -> 0..MaxTime]
    BY DEF Tick, CoordInv, StoreInv, TypeOK, callerVars
  <1>2. \A h \in Holds : Stored(h) => row[h].expiresAt \in 0..MaxTime
    BY DEF CoordInv, StoreInv, RowsGood, Good, HoldRecords
  <1>3. \A h \in Holds : Early(h)' => Early(h)
    BY <1>1, <1>2, MaxTimeAssumption DEF Early, Stored
  <1>4. KeysOutliveHolds'
    <2>1. \A c \in Callers : pc[c] = "acquiring" => target[c] \in Holds /\ Stored(target[c])
      BY DEF CoordInv, StoreInv, CallersInv
    <2>2. QED
      BY <1>1, <1>2, <2>1, MaxTimeAssumption DEF CoordInv, KeysOutliveHolds, Stored
  <1>5. WorkersHaveKey'
    BY <1>1, <1>3 DEF CoordInv, WorkersHaveKey, Coordinating
  <1>6. OneCoordinator'
    BY <1>1, <1>3 DEF CoordInv, OneCoordinator, Coordinating, Early
  <1>7. CopiesFresh'
    <2>1. \A c \in Callers : pc[c] = "settling" => target[c] \in Holds
      BY DEF CoordInv, StoreInv, CallersInv
    <2>2. QED
      BY <1>1, <1>3, <2>1 DEF CoordInv, CopiesFresh
  <1>8. OneDecision'
    BY <1>1 DEF CoordInv, OneDecision, Deciding
  <1>9. QED
    BY <1>4, <1>5, <1>6, <1>7, <1>8 DEF CoordParts

LEMMA CreateKeepsParts ==
    ASSUME CoordInv, NEW h \in Holds, NEW expiresAt \in 0..MaxTime, Create(h, expiresAt)
    PROVE  CoordParts'
  <1>1. /\ ~Stored(h) /\ UNCHANGED <<now, key, pc, target, copy, ttl>>
        /\ \A g \in Holds \ {h} : row'[g] = row[g]
    BY DEF Create, Stored, CoordInv, StoreInv, TypeOK, callerVars
  <1>2. key[h] = 0
    BY <1>1 DEF CoordInv, KeysOutliveHolds
  <1>3. \A c \in Callers : pc[c] # "idle" => target[c] \in Holds \ {h}
    BY <1>1 DEF CoordInv, StoreInv, CallersInv
  <1>4. KeysOutliveHolds'
    BY <1>1, <1>2, <1>3 DEF CoordInv, KeysOutliveHolds, Stored
  <1>5. \A c \in Callers, g \in Holds : Coordinating(c, g) => g # h
    BY <1>3 DEF Coordinating
  <1>6. WorkersHaveKey' /\ OneCoordinator'
    BY <1>1, <1>5 DEF CoordInv, WorkersHaveKey, OneCoordinator, Coordinating, Early, Stored
  <1>7. CopiesFresh'
    BY <1>1, <1>3 DEF CoordInv, CopiesFresh, Early, Stored
  <1>8. OneDecision'
    BY <1>1, <1>3 DEF CoordInv, OneDecision, Deciding
  <1>9. QED
    BY <1>4, <1>6, <1>7, <1>8 DEF CoordParts

LEMMA ExpireKeepsParts ==
    ASSUME CoordInv, NEW time \in 0..now, Expire(time)
    PROVE  CoordParts'
  <1>1. /\ UNCHANGED <<now, key, pc, target, copy, ttl>>
        /\ now \in 0..MaxTime
    BY DEF Expire, Swept, callerVars, CoordInv, StoreInv, TypeOK
  <1>2. \A h \in Holds : Stored(h) => Stored(h)' /\ row'[h].expiresAt = row[h].expiresAt
    BY ExpireEffect DEF CoordInv, RowEffect
  <1>3. \A h \in Holds : ~Stored(h) => ~Stored(h)'
    BY DEF Expire, Swept, Stored
  <1>4. \A h \in Holds : Early(h)' => Early(h) /\ row'[h] = row[h]
    <2> SUFFICES ASSUME NEW h \in Holds, Early(h)'
                 PROVE  Early(h) /\ row'[h] = row[h]
      OBVIOUS
    <2>1. Early(h)
      BY <1>1, <1>2, <1>3 DEF Early
    <2>2. row[h].expiresAt \in Nat /\ ~(row[h].expiresAt <= time)
      BY <1>1, <2>1, MaxTimeAssumption
         DEF Early, CoordInv, StoreInv, RowsGood, Good, HoldRecords
    <2>3. QED
      BY <2>1, <2>2 DEF Expire, Swept
  <1>5. \A h \in Holds : Stored(h) => row'[h].status \in {row[h].status, "EXPIRED"}
    <2> SUFFICES ASSUME NEW h \in Holds, Stored(h)
                 PROVE  row'[h].status \in {row[h].status, "EXPIRED"}
      OBVIOUS
    <2>1. row[h] \in HoldRecords
      BY DEF CoordInv, StoreInv, RowsGood, Good
    <2>2. row'[h] = row[h] \/ row'[h] = [row[h] EXCEPT !.status = "EXPIRED"]
      BY DEF Expire, Swept
    <2>3. QED
      BY <2>1, <2>2 DEF HoldRecords
  <1>6. KeysOutliveHolds'
    BY <1>1, <1>2 DEF CoordInv, KeysOutliveHolds, StoreInv, CallersInv
  <1>7. WorkersHaveKey'
    BY <1>1, <1>4 DEF CoordInv, WorkersHaveKey, Coordinating
  <1>8. OneCoordinator'
    BY <1>1, <1>4 DEF CoordInv, OneCoordinator, Coordinating, Early
  <1>9. CopiesFresh'
    BY <1>1, <1>4 DEF CoordInv, CopiesFresh, StoreInv, CallersInv
  <1>10. OneDecision'
    <2>1. \A c \in Callers, h \in Holds : Deciding(c, h)' => Deciding(c, h) /\ Stored(h)
      BY <1>1 DEF Deciding, CoordInv, StoreInv, CallersInv
    <2>2. QED
      BY <1>5, <2>1 DEF CoordInv, OneDecision, SettledStatuses
  <1>11. QED
    BY <1>6, <1>7, <1>8, <1>9, <1>10 DEF CoordParts

LEMMA LapseKeepsParts ==
    ASSUME CoordInv, NEW h \in Holds, KeyLapses(h)
    PROVE  CoordParts'
  <1>1. /\ UNCHANGED <<now, row, pc, target, copy, ttl>>
        /\ key[h] # 0 /\ key[h] <= now
        /\ key' = [key EXCEPT ![h] = 0]
        /\ key \in [Holds -> 0..MaxTime] /\ now \in 0..MaxTime
    BY DEF KeyLapses, callerVars, CoordInv, StoreInv, TypeOK
  <1>2. ~Early(h)
    <2>1. Stored(h) /\ row[h].expiresAt <= key[h]
      BY <1>1 DEF CoordInv, KeysOutliveHolds
    <2>2. row[h].expiresAt \in 0..MaxTime
      BY <2>1 DEF CoordInv, StoreInv, RowsGood, Good, HoldRecords
    <2>3. QED
      BY <1>1, <2>1, <2>2, MaxTimeAssumption DEF Early
  <1>3. KeysOutliveHolds'
    BY <1>1 DEF CoordInv, KeysOutliveHolds, Stored
  <1>4. WorkersHaveKey'
    BY <1>1, <1>2 DEF CoordInv, WorkersHaveKey, Coordinating, Early, Stored
  <1>5. OneCoordinator' /\ CopiesFresh' /\ OneDecision'
    BY <1>1 DEF CoordInv, OneCoordinator, CopiesFresh, OneDecision, Coordinating, Deciding,
                Early, Stored
  <1>6. QED
    BY <1>3, <1>4, <1>5 DEF CoordParts

\* Caller c leaves: its key may go or stay, and with it c stops to work.
LEMMA IdleKeepsParts ==
    ASSUME CoordInv, NEW c \in Callers, ToIdle(c), UNCHANGED <<now, row>>,
           NEW g \in Holds,
           \A h \in Holds \ {g} : key'[h] = key[h],
           \/ key'[g] = key[g]
           \/ key'[g] = 0 /\ Coordinating(c, g)
           \/ key'[g] # 0 /\ Stored(g) /\ row[g].expiresAt <= key'[g]
    PROVE  CoordParts'
  <1>1. /\ pc'[c] = "idle"
        /\ \A d \in Callers \ {c} :
             pc'[d] = pc[d] /\ target'[d] = target[d] /\ copy'[d] = copy[d] /\ ttl'[d] = ttl[d]
    BY DEF ToIdle, Goto, CoordInv, StoreInv, TypeOK
  <1>2. \A d \in Callers, h \in Holds :
           /\ Coordinating(d, h)' => Coordinating(d, h) /\ d # c
           /\ Deciding(d, h)' => Deciding(d, h)
    BY <1>1 DEF Coordinating, Deciding
  <1>3. \A h \in Holds : Early(h)' <=> Early(h)
    BY DEF Early, Stored
  <1>4. KeysOutliveHolds'
    BY <1>1 DEF CoordInv, KeysOutliveHolds, Stored
  <1>5. WorkersHaveKey'
    BY <1>2, <1>3 DEF CoordInv, WorkersHaveKey, OneCoordinator, Early
  <1>6. OneCoordinator'
    BY <1>2 DEF CoordInv, OneCoordinator, Stored
  <1>7. CopiesFresh'
    BY <1>1 DEF CoordInv, CopiesFresh, Early, Stored
  <1>8. OneDecision'
    BY <1>2 DEF CoordInv, OneDecision
  <1>9. QED
    BY <1>4, <1>5, <1>6, <1>7, <1>8 DEF CoordParts

LEMMA BeginKeepsParts ==
    ASSUME CoordInv, NEW c \in Callers, NEW h \in Holds, BeginAcquire(c, h)
    PROVE  CoordParts'
  <1>1. /\ UNCHANGED <<now, row, key, copy>>
        /\ Stored(h)
        /\ pc' = [pc EXCEPT ![c] = "acquiring"]
        /\ target' = [target EXCEPT ![c] = h]
        /\ ttl' = [ttl EXCEPT ![c] = row[h].expiresAt - now]
        /\ row[h].expiresAt - now > 0
    BY DEF BeginAcquire, Goto, Stored
  <1>2. now \in 0..MaxTime /\ row[h].expiresAt \in 0..MaxTime
    BY <1>1 DEF CoordInv, StoreInv, TypeOK, RowsGood, Good, HoldRecords
  <1>3. /\ pc'[c] = "acquiring" /\ target'[c] = h
        /\ ttl'[c] > 0 /\ row[h].expiresAt <= now + ttl'[c]
        /\ \A d \in Callers \ {c} :
             pc'[d] = pc[d] /\ target'[d] = target[d] /\ ttl'[d] = ttl[d]
    BY <1>1, <1>2, MaxTimeAssumption DEF CoordInv, StoreInv, TypeOK
  <1>4. KeysOutliveHolds'
    BY <1>1, <1>3 DEF CoordInv, KeysOutliveHolds, Stored
  <1>5. \A d \in Callers, g \in Holds :
           /\ Coordinating(d, g)' => Coordinating(d, g)
           /\ Deciding(d, g)' => Deciding(d, g)
    BY <1>1, <1>3 DEF Coordinating, Deciding
  <1>6. WorkersHaveKey' /\ OneCoordinator' /\ OneDecision'
    BY <1>1, <1>5 DEF CoordInv, WorkersHaveKey, OneCoordinator, OneDecision, Early, Stored
  <1>7. CopiesFresh'
    BY <1>1, <1>3 DEF CoordInv, CopiesFresh, Early, Stored
  <1>8. QED
    BY <1>4, <1>6, <1>7 DEF CoordParts

\* The key a caller writes outlives the hold.
LEMMA WrittenKey ==
    ASSUME CoordInv, NEW c \in Callers, pc[c] = "acquiring", WriteKey(c)
    PROVE  /\ target[c] \in Holds /\ Stored(target[c])
           /\ key[target[c]] = 0
           /\ key'[target[c]] # 0
           /\ row[target[c]].expiresAt <= key'[target[c]]
           /\ \A h \in Holds \ {target[c]} : key'[h] = key[h]
  <1>1. target[c] \in Holds /\ Stored(target[c])
    BY DEF CoordInv, StoreInv, CallersInv
  <1>2. /\ now \in 0..MaxTime /\ ttl[c] \in 0..MaxTime /\ ttl[c] > 0
        /\ row[target[c]].expiresAt <= now + ttl[c]
    BY DEF CoordInv, StoreInv, TypeOK, KeysOutliveHolds
  <1>3. key' = [key EXCEPT ![target[c]] = now + ttl[c]] /\ key[target[c]] = 0
    BY DEF WriteKey
  <1>4. now + ttl[c] # 0
    BY <1>2, MaxTimeAssumption
  <1>5. QED
    BY <1>1, <1>2, <1>3, <1>4 DEF CoordInv, StoreInv, TypeOK

LEMMA AcquireKeepsParts ==
    ASSUME CoordInv, NEW c \in Callers, AcquireSucceeds(c)
    PROVE  CoordParts'
  <1> DEFINE g == target[c]
  <1>1. /\ g \in Holds /\ Stored(g)
        /\ key[g] = 0
        /\ key'[g] # 0
        /\ row[g].expiresAt <= key'[g]
        /\ \A h \in Holds \ {g} : key'[h] = key[h]
    BY WrittenKey DEF AcquireSucceeds
  <1>2. /\ UNCHANGED <<now, row, target, copy>>
        /\ pc[c] = "acquiring" /\ pc'[c] = "reading"
        /\ \A d \in Callers \ {c} : pc'[d] = pc[d] /\ ttl'[d] = ttl[d]
    BY DEF AcquireSucceeds, Goto, CoordInv, StoreInv, TypeOK
  <1>3. Early(g) => \A d \in Callers : ~Coordinating(d, g)
    BY <1>1 DEF CoordInv, WorkersHaveKey
  <1>4. KeysOutliveHolds'
    BY <1>1, <1>2 DEF CoordInv, KeysOutliveHolds, Stored
  <1>5. \A d \in Callers, h \in Holds :
           Coordinating(d, h)' => Coordinating(d, h) \/ (d = c /\ h = g)
    BY <1>2 DEF Coordinating
  <1>6. WorkersHaveKey'
    BY <1>1, <1>2, <1>5 DEF CoordInv, WorkersHaveKey, Early, Stored
  <1>7. OneCoordinator'
    BY <1>2, <1>3, <1>5 DEF CoordInv, OneCoordinator, Early, Stored
  <1>8. CopiesFresh' /\ OneDecision'
    BY <1>2 DEF CoordInv, CopiesFresh, OneDecision, Deciding, Early, Stored
  <1>9. QED
    BY <1>4, <1>6, <1>7, <1>8 DEF CoordParts

\* Moving on inside the work on a hold keeps the keys and the mutual exclusion.
LEMMA WorkKeepsExclusion ==
    ASSUME CoordInv, NEW c \in Callers, UNCHANGED <<now, key, target, ttl>>,
           \A h \in Holds : Stored(h) => Stored(h)' /\ row'[h].expiresAt = row[h].expiresAt,
           \A h \in Holds : Stored(h)' => Stored(h),
           pc[c] \in {"reading", "settling", "saving"},
           pc'[c] \in {"settling", "saving", "leaving"},
           \A d \in Callers \ {c} : pc'[d] = pc[d]
    PROVE  KeysOutliveHolds' /\ WorkersHaveKey' /\ OneCoordinator'
  <1>1. \A d \in Callers, h \in Holds : Coordinating(d, h)' => Coordinating(d, h)
    BY DEF Coordinating
  <1>2. \A h \in Holds : Early(h)' <=> Early(h)
    BY DEF Early
  <1>3. KeysOutliveHolds'
    BY DEF CoordInv, KeysOutliveHolds, StoreInv, CallersInv
  <1>4. WorkersHaveKey'
    BY <1>1, <1>2 DEF CoordInv, WorkersHaveKey
  <1>5. OneCoordinator'
    BY <1>1, <1>2 DEF CoordInv, OneCoordinator, Early
  <1>6. QED
    BY <1>3, <1>4, <1>5

LEMMA FindKeepsParts ==
    ASSUME CoordInv, NEW c \in Callers, FindByID(c)
    PROVE  CoordParts'
  <1>1. /\ UNCHANGED <<now, row, key, target, ttl>>
        /\ pc[c] = "reading" /\ pc'[c] = "settling"
        /\ copy'[c] = row[target[c]]
        /\ \A d \in Callers \ {c} : pc'[d] = pc[d] /\ copy'[d] = copy[d]
    BY DEF FindByID, Goto, CoordInv, StoreInv, TypeOK
  <1>2. KeysOutliveHolds' /\ WorkersHaveKey' /\ OneCoordinator'
    BY <1>1, WorkKeepsExclusion DEF Stored
  <1>3. CopiesFresh'
    BY <1>1 DEF CoordInv, CopiesFresh, Early, Stored
  <1>4. \A d \in Callers, h \in Holds : Deciding(d, h)' => Deciding(d, h)
    BY <1>1 DEF Deciding
  <1>5. OneDecision'
    BY <1>1, <1>4 DEF CoordInv, OneDecision
  <1>6. QED
    BY <1>2, <1>3, <1>5 DEF CoordParts

LEMMA SettledKeepsParts ==
    ASSUME CoordInv, NEW c \in Callers, pc[c] = "settling", NEW result,
           Outcome(copy[c], now, result), Settled(c, result)
    PROVE  CoordParts'
  <1> DEFINE g == target[c]
  <1>1. /\ UNCHANGED <<now, row, key, target, ttl>>
        /\ copy'[c] = result.hold
        /\ pc'[c] = IF result.error \in {"nil", "ErrHoldExpired"} THEN "saving" ELSE "leaving"
        /\ \A d \in Callers \ {c} : pc'[d] = pc[d] /\ copy'[d] = copy[d]
    BY DEF Settled, Goto, CoordInv, StoreInv, TypeOK
  <1>2. g \in Holds /\ Stored(g) /\ copy[c].expiresAt = row[g].expiresAt
    BY DEF CoordInv, StoreInv, CallersInv
  <1>3. KeysOutliveHolds' /\ WorkersHaveKey' /\ OneCoordinator'
    BY <1>1, WorkKeepsExclusion DEF Stored
  <1>4. CopiesFresh'
    BY <1>1 DEF CoordInv, CopiesFresh, Early, Stored
  <1>5. \A d \in Callers \ {c}, h \in Holds : Deciding(d, h)' => Deciding(d, h)
    BY <1>1 DEF Deciding
  <1>6. \A h \in Holds : Deciding(c, h)' =>
           /\ h = g
           /\ row[g].status \notin SettledStatuses
           /\ \A d \in Callers \ {c} : ~Deciding(d, g)
    <2> SUFFICES ASSUME NEW h \in Holds, Deciding(c, h)'
                 PROVE  /\ h = g
                        /\ row[g].status \notin SettledStatuses
                        /\ \A d \in Callers \ {c} : ~Deciding(d, g)
      OBVIOUS
    <2>1. h = g /\ result.hold.status \in SettledStatuses /\ pc'[c] = "saving"
      BY <1>1 DEF Deciding
    <2>2. result.error = "nil"
      BY <1>1, <2>1 DEF Outcome, SettledStatuses
    <2>3. copy[c].status = "ACTIVE" /\ Early(g)
      BY <1>2, <2>2 DEF Outcome, Early
    <2>4. copy[c] = row[g]
      BY <2>3 DEF CoordInv, CopiesFresh
    <2>5. \A d \in Callers : Coordinating(d, g) => d = c
      BY <1>2, <2>3 DEF CoordInv, OneCoordinator, Early, Coordinating
    <2>6. QED
      BY <2>1, <2>3, <2>4, <2>5 DEF SettledStatuses, Deciding, Coordinating
  <1>7. OneDecision'
    BY <1>1, <1>5, <1>6 DEF CoordInv, OneDecision
  <1>8. QED
    BY <1>3, <1>4, <1>7 DEF CoordParts

LEMMA UpdateKeepsParts ==
    ASSUME CoordInv, NEW c \in Callers, Update(c)
    PROVE  CoordParts'
  <1> DEFINE g == target[c]
  <1>1. /\ UNCHANGED <<now, key, target, copy, ttl>>
        /\ pc[c] = "saving" /\ pc'[c] = "leaving"
        /\ \A d \in Callers \ {c} : pc'[d] = pc[d]
    BY DEF Update, Goto, CoordInv, StoreInv, TypeOK
  <1>2. g \in Holds /\ Stored(g) /\ row[g] \in HoldRecords
    BY <1>1 DEF CoordInv, StoreInv, CallersInv, RowsGood, Good
  <1>3. /\ \A h \in Holds \ {g} : row'[h] = row[h]
        /\ row'[g] = row[g] \/ row'[g].status = copy[c].status
    BY <1>2 DEF Update, WriteRow, CoordInv, StoreInv, TypeOK, HoldRecords
  <1>4. \A h \in Holds : Stored(h) => Stored(h)' /\ row'[h].expiresAt = row[h].expiresAt
    BY UpdateEffect DEF CoordInv, RowEffect
  <1>5. \A h \in Holds : Stored(h)' => Stored(h)
    BY <1>2, <1>3 DEF Stored
  <1>6. KeysOutliveHolds' /\ WorkersHaveKey' /\ OneCoordinator'
    BY <1>1, <1>4, <1>5, WorkKeepsExclusion
  <1>7. CopiesFresh'
    <2> SUFFICES ASSUME NEW d \in Callers, pc'[d] = "settling", Early(target[d])'
                 PROVE  copy'[d] = row'[target'[d]]
      BY DEF CopiesFresh
    <2>1. d # c /\ pc[d] = "settling" /\ target[d] \in Holds /\ target'[d] = target[d]
      BY <1>1 DEF CoordInv, StoreInv, CallersInv
    <2>2. Early(target[d])
      BY <1>1, <1>4, <1>5, <2>1 DEF Early
    <2>3. target[d] # g
      BY <1>1, <1>2, <2>1, <2>2 DEF CoordInv, OneCoordinator, Coordinating, Early
    <2>4. QED
      BY <1>1, <1>3, <2>1, <2>2, <2>3 DEF CoordInv, CopiesFresh
  <1>8. OneDecision'
    <2>1. \A d \in Callers, h \in Holds : Deciding(d, h)' => Deciding(d, h) /\ d # c
      BY <1>1 DEF Deciding
    <2>2. ASSUME NEW d \in Callers, NEW h \in Holds, h = g, Deciding(d, h)'
          PROVE  row'[h].status \notin SettledStatuses
      <3>1. Deciding(d, h) /\ d # c
        BY <2>1, <2>2
      <3>2. ~Deciding(c, h) /\ row[h].status \notin SettledStatuses
        BY <3>1 DEF CoordInv, OneDecision
      <3>3. copy[c].status \notin SettledStatuses
        BY <1>1, <2>2, <3>2 DEF Deciding
      <3>4. QED
        BY <1>3, <2>2, <3>2, <3>3
    <2>3. QED
      BY <1>1, <1>3, <2>1, <2>2 DEF CoordInv, OneDecision
  <1>9. QED
    BY <1>6, <1>7, <1>8 DEF CoordParts

LEMMA CallerKeepsParts ==
    ASSUME CoordInv, Reliable, NEW c \in Callers, Caller(c)
    PROVE  CoordParts'
  <1>1. ASSUME NEW h \in Holds, BeginAcquire(c, h) \/ BeginAlone(c, h)
        PROVE  CoordParts'
    BY <1>1, BeginKeepsParts DEF BeginAlone, Reliable
  <1>2. CASE AcquireSucceeds(c)
    BY <1>2, AcquireKeepsParts
  <1>3. CASE AcquireFails(c)
    <2>1. pc[c] = "acquiring" /\ target[c] \in Holds
      BY <1>3 DEF AcquireFails, CoordInv, StoreInv, CallersInv
    <2>2. CASE UNCHANGED key
      BY <1>3, <2>1, <2>2, IdleKeepsParts DEF AcquireFails
    <2>3. CASE WriteKey(c)
      BY <1>3, <2>1, <2>3, WrittenKey, IdleKeepsParts DEF AcquireFails
    <2>4. QED
      BY <1>3, <2>2, <2>3 DEF AcquireFails
  <1>4. CASE FindByID(c)
    BY <1>4, FindKeepsParts
  <1>5. ASSUME NEW b \in Bookings \cup {None}, ConfirmCopy(c, b)
        PROVE  CoordParts'
    <2>1. copy[c] \in HoldRecords /\ now \in 0..MaxTime
      BY <1>5 DEF ConfirmCopy, CoordInv, StoreInv, TypeOK, CallersInv, Good
    <2>2. QED
      BY <1>5, <2>1, ConfirmOutcome, SettledKeepsParts DEF ConfirmCopy
  <1>6. ASSUME NEW r \in Reasons \cup {None}, ReleaseCopy(c, r)
        PROVE  CoordParts'
    <2>1. copy[c] \in HoldRecords /\ now \in 0..MaxTime
      BY <1>6 DEF ReleaseCopy, CoordInv, StoreInv, TypeOK, CallersInv, Good
    <2>2. QED
      BY <1>6, <2>1, ReleaseOutcome, SettledKeepsParts DEF ReleaseCopy
  <1>7. CASE Update(c)
    BY <1>7, UpdateKeepsParts
  <1>8. CASE Leave(c)
    <2>1. target[c] \in Holds /\ Coordinating(c, target[c])
      BY <1>8 DEF Leave, CoordInv, StoreInv, CallersInv, Coordinating
    <2>2. /\ \A h \in Holds \ {target[c]} : key'[h] = key[h]
          /\ key'[target[c]] = key[target[c]] \/ key'[target[c]] = 0
      BY <1>8, <2>1 DEF Leave, CoordInv, StoreInv, TypeOK
    <2>3. QED
      BY <1>8, <2>1, <2>2, IdleKeepsParts DEF Leave
  <1>9. CASE Crash(c)
    <2>1. target[c] \in Holds
      BY <1>9 DEF Crash, CoordInv, StoreInv, CallersInv
    <2>2. QED
      BY <1>9, <2>1, IdleKeepsParts DEF Crash
  <1>10. QED
    BY <1>1, <1>2, <1>3, <1>4, <1>5, <1>6, <1>7, <1>8, <1>9 DEF Caller

LEMMA NextKeepsCoordInv ==
    ASSUME Reliable, CoordInv, [Next]_vars
    PROVE  CoordInv'
  <1>1. StoreInv'
    BY NextKeepsStoreInv DEF CoordInv
  <1>2. CoordParts'
    <2>1. CASE Tick
      BY <2>1, TickKeepsParts
    <2>2. ASSUME NEW h \in Holds, NEW expiresAt \in 0..MaxTime, Create(h, expiresAt)
          PROVE  CoordParts'
      BY <2>2, CreateKeepsParts
    <2>3. ASSUME NEW time \in 0..now, Expire(time)
          PROVE  CoordParts'
      BY <2>3, ExpireKeepsParts
    <2>4. ASSUME NEW h \in Holds, KeyLapses(h)
          PROVE  CoordParts'
      BY <2>4, LapseKeepsParts
    <2>5. CASE RedisLosesData
      BY <2>5 DEF RedisLosesData, Reliable, CoordInv, StoreInv, TypeOK
    <2>6. ASSUME NEW c \in Callers, Caller(c)
          PROVE  CoordParts'
      BY <2>6, CallerKeepsParts
    <2>7. CASE UNCHANGED vars
      BY <2>7 DEF vars, callerVars, CoordInv, CoordParts, KeysOutliveHolds, WorkersHaveKey,
         OneCoordinator, CopiesFresh, OneDecision, Coordinating, Deciding, Early, Stored
    <2>8. QED
      BY <2>1, <2>2, <2>3, <2>4, <2>5, <2>6, <2>7 DEF Next
  <1>3. QED
    BY <1>1, <1>2 DEF CoordInv, CoordParts

LEMMA CoordInvariance ==
    ASSUME Reliable
    PROVE  Spec => []CoordInv
  <1>1. CoordInv /\ [Next]_vars => CoordInv'
    BY NextKeepsCoordInv
  <1>2. QED
    BY <1>1, InitCoordInv, PTL DEF Spec

\* Until a hold expires at most one caller works on it, although DEL is
\* unconditional and SETNX may run long after its ttl was computed.
THEOREM CoordinationExcludes ==
    ASSUME Coordinated = Callers, MaxLosses = 0
    PROVE  Spec => []OneCoordinator
  <1>1. Reliable
    BY DEF Reliable
  <1>2. CoordInv => OneCoordinator
    BY DEF CoordInv
  <1>3. QED
    BY <1>1, <1>2, CoordInvariance, PTL

\* What a step makes of a stored row: itself, EXPIRED, or a copy being saved.
LEMMA RowStep ==
    ASSUME StoreInv, [Next]_vars, NEW h \in Holds, Stored(h)
    PROVE  \/ row'[h] = row[h]
           \/ row[h].status = "ACTIVE" /\ row'[h].status = "EXPIRED"
           \/ \E c \in Callers : /\ target[c] = h /\ pc[c] = "saving"
                               /\ row'[h].status = copy[c].status
  <1>1. row[h] \in HoldRecords
    BY DEF StoreInv, RowsGood, Good
  <1>2. ASSUME NEW g \in Holds, NEW expiresAt \in 0..MaxTime, Create(g, expiresAt)
        PROVE  row'[h] = row[h]
    BY <1>2 DEF Create, Stored, StoreInv, TypeOK
  <1>3. ASSUME NEW time \in 0..now, Expire(time), row'[h] # row[h]
        PROVE  row[h].status = "ACTIVE" /\ row'[h].status = "EXPIRED"
    BY <1>1, <1>3 DEF Expire, Swept, HoldRecords
  <1>4. ASSUME NEW c \in Callers, Update(c), row'[h] # row[h]
        PROVE  target[c] = h /\ pc[c] = "saving" /\ row'[h].status = copy[c].status
    <2>1. target[c] \in Holds /\ pc[c] = "saving"
      BY <1>4 DEF Update, StoreInv, CallersInv
    <2>2. QED
      BY <1>1, <1>4, <2>1 DEF Update, WriteRow, StoreInv, TypeOK, HoldRecords
  <1>5. ASSUME NEW c \in Callers, Caller(c), row'[h] # row[h]
        PROVE  Update(c)
    BY <1>5 DEF Caller, BeginAcquire, BeginAlone, AcquireSucceeds, AcquireFails, FindByID,
                ConfirmCopy, ReleaseCopy, Settled, Leave, Crash
  <1>6. CASE Tick \/ RedisLosesData \/ (\E g \in Holds : KeyLapses(g)) \/ UNCHANGED vars
    BY <1>6 DEF Tick, RedisLosesData, KeyLapses, vars
  <1>7. QED
    BY <1>2, <1>3, <1>4, <1>5, <1>6 DEF Next

\* Only Update writes a CONFIRMED row, and then only with EXPIRED.
LEMMA ConfirmedRowStep ==
    ASSUME Reliable, CoordInv, [Next]_vars, NEW h \in Holds,
           Stored(h), row[h].status = "CONFIRMED"
    PROVE  /\ row'[h].status # "RELEASED"
           /\ row'[h].status = "CONFIRMED" => row'[h].bookingID = row[h].bookingID
  <1>1. \A c \in Callers : ~Deciding(c, h)
    BY DEF CoordInv, OneDecision, SettledStatuses
  <1>2. row'[h] = row[h] \/ row'[h].status \notin SettledStatuses
    BY <1>1, RowStep DEF CoordInv, Deciding, SettledStatuses
  <1>3. QED
    BY <1>2 DEF SettledStatuses

\* A confirmed hold is never released and never goes to another booking.
THEOREM CoordinationPreventsResale ==
    ASSUME Coordinated = Callers, MaxLosses = 0
    PROVE  Spec => NeverResold
  <1>1. Reliable
    BY DEF Reliable
  <1> DEFINE Kept(h) ==
        Stored(h) /\ row[h].status = "CONFIRMED" =>
            /\ row'[h].status # "RELEASED"
            /\ row'[h].status = "CONFIRMED" => row'[h].bookingID = row[h].bookingID
  <1>2. CoordInv /\ [Next]_vars => [\A h \in Holds : Kept(h)]_vars
    BY <1>1, ConfirmedRowStep
  <1>3. QED
    BY <1>1, <1>2, CoordInvariance, PTL DEF Spec, NeverResold

----------------------------------------------------------------------------
(* The whole life of a confirmed hold *)

\* For every hold, time and argument: Confirm and Release refuse a hold that is
\* no longer ACTIVE and leave it as it is (hold_test.go:47-57 tries one case).
THEOREM SettlingIsFinal ==
    ASSUME NEW hold \in HoldRecords, hold.status # "ACTIVE", NEW time \in 0..MaxTime,
           NEW b \in Bookings \cup {None}, NEW r \in Reasons \cup {None}
    PROVE  /\ Confirm(hold, time, b).hold = hold /\ Confirm(hold, time, b).error # "nil"
           /\ Release(hold, time, r).hold = hold /\ Release(hold, time, r).error # "nil"
  <1>1. EffectiveStatus(hold, time) = hold.status
    BY DEF EffectiveStatus
  <1>2. hold.status = "EXPIRED" => [hold EXCEPT !.status = "EXPIRED"] = hold
    BY DEF HoldRecords
  <1>3. ASSUME NEW argument, NEW missing, missing # "nil", NEW settled
        PROVE  LET result == Settle(hold, time, argument, missing, settled)
               IN  result.hold = hold /\ result.error # "nil"
    <2>1. CASE argument = None
      BY <1>3, <2>1 DEF Settle
    <2>2. CASE argument # None /\ hold.status = "EXPIRED"
      <3>1. Settle(hold, time, argument, missing, settled) =
              [hold |-> [hold EXCEPT !.status = "EXPIRED"], error |-> "ErrHoldExpired"]
        BY <1>1, <2>2 DEF Settle
      <3>2. QED
        BY <1>2, <2>2, <3>1
    <2>3. CASE argument # None /\ hold.status # "EXPIRED"
      <3>1. Settle(hold, time, argument, missing, settled) =
              [hold |-> hold, error |-> "ErrHoldNotActive"]
        BY <1>1, <2>3 DEF Settle
      <3>2. QED
        BY <3>1
    <2>4. QED
      BY <2>1, <2>2, <2>3
  <1>4. QED
    BY <1>3 DEF Confirm, Release

\* A row that is there stays there.
LEMMA NextKeepsStored ==
    ASSUME StoreInv, [Next]_vars, NEW h \in Holds, Stored(h)
    PROVE  Stored(h)'
  <1>1. ASSUME NEW g \in Holds, NEW expiresAt \in 0..MaxTime, Create(g, expiresAt)
        PROVE  Stored(h)'
    BY <1>1, CreateEffect DEF RowEffect
  <1>2. ASSUME NEW time \in 0..now, Expire(time)
        PROVE  Stored(h)'
    BY <1>2, ExpireEffect DEF RowEffect
  <1>3. ASSUME NEW c \in Callers, Caller(c)
        PROVE  Stored(h)'
    BY <1>3, CallerHasEffect DEF RowEffect
  <1>4. QED
    BY <1>1, <1>2, <1>3 DEF Next, Tick, RedisLosesData, KeyLapses, Stored, vars

\* What is about to be written is never ACTIVE.
SavesOutcome == \A c \in Callers : pc[c] = "saving" => copy[c].status # "ACTIVE"

\* The outcome a caller decides on now.
LEMMA SavesWhatItSettled ==
    ASSUME StoreInv, NEW c \in Callers, pc[c] = "settling", NEW result,
           Outcome(copy[c], now, result), Settled(c, result), pc'[c] = "saving"
    PROVE  /\ copy'[c].status # "ACTIVE"
           /\ copy'[c].status \in SettledStatuses =>
                copy[c].status = "ACTIVE" /\ now < copy[c].expiresAt
  <1>1. copy'[c] = result.hold /\ result.error \in {"nil", "ErrHoldExpired"}
    BY DEF Settled, Goto, StoreInv, TypeOK
  <1>2. QED
    BY <1>1 DEF Outcome, SettledStatuses

\* A caller comes to save only by settling its copy.
LEMMA SavingBegins ==
    ASSUME StoreInv, [Next]_vars, NEW c \in Callers, pc'[c] = "saving"
    PROVE  \/ pc[c] = "saving" /\ copy'[c] = copy[c] /\ target'[c] = target[c]
           \/ /\ pc[c] = "settling" /\ target'[c] = target[c]
              /\ copy'[c].status # "ACTIVE"
              /\ copy'[c].status \in SettledStatuses =>
                   copy[c].status = "ACTIVE" /\ now < copy[c].expiresAt
  <1> DEFINE Begins ==
        /\ pc[c] = "settling" /\ target'[c] = target[c]
        /\ copy'[c].status # "ACTIVE"
        /\ copy'[c].status \in SettledStatuses =>
             copy[c].status = "ACTIVE" /\ now < copy[c].expiresAt
  <1>1. CASE UNCHANGED callerVars
    BY <1>1 DEF callerVars
  <1>2. ASSUME NEW d \in Callers, Caller(d), d # c
        PROVE  pc[c] = "saving" /\ copy'[c] = copy[c] /\ target'[c] = target[c]
    BY <1>2, CallerHasEffect DEF CallerEffect
  <1>3. ASSUME NEW b \in Bookings \cup {None}, ConfirmCopy(c, b)
        PROVE  Begins
    <2>1. copy[c] \in HoldRecords /\ now \in 0..MaxTime
      BY <1>3 DEF ConfirmCopy, StoreInv, TypeOK, CallersInv, Good
    <2>2. QED
      BY <1>3, <2>1, ConfirmOutcome, SavesWhatItSettled DEF ConfirmCopy, Settled
  <1>4. ASSUME NEW r \in Reasons \cup {None}, ReleaseCopy(c, r)
        PROVE  Begins
    <2>1. copy[c] \in HoldRecords /\ now \in 0..MaxTime
      BY <1>4 DEF ReleaseCopy, StoreInv, TypeOK, CallersInv, Good
    <2>2. QED
      BY <1>4, <2>1, ReleaseOutcome, SavesWhatItSettled DEF ReleaseCopy, Settled
  <1>5. ASSUME NEW h \in Holds, BeginAcquire(c, h) \/ BeginAlone(c, h)
        PROVE  FALSE
    BY <1>5 DEF BeginAcquire, BeginAlone, Goto, StoreInv, TypeOK
  <1>6. ASSUME AcquireSucceeds(c) \/ AcquireFails(c) \/ FindByID(c) \/ Update(c)
                \/ Leave(c) \/ Crash(c)
        PROVE  FALSE
    BY <1>6 DEF AcquireSucceeds, AcquireFails, FindByID, Update, Leave, Crash, ToIdle, Goto,
                StoreInv, TypeOK
  <1>7. ASSUME Caller(c)
        PROVE  Begins
    BY <1>3, <1>4, <1>5, <1>6, <1>7 DEF Caller
  <1>8. QED
    BY <1>1, <1>2, <1>7 DEF Next, Tick, Create, Expire, KeyLapses, RedisLosesData, vars

LEMMA SavesOutcomeInvariance == Spec => []SavesOutcome
  <1>1. Init => SavesOutcome
    BY DEF Init, SavesOutcome
  <1>2. StoreInv /\ SavesOutcome /\ [Next]_vars => SavesOutcome'
    BY SavingBegins DEF SavesOutcome
  <1>3. QED
    BY <1>1, <1>2, StoreInvariance, PTL DEF Spec

\* With any callers, coordinated or not, and whatever Redis loses: no stale copy
\* makes a hold ACTIVE again that was settled or has expired.
THEOREM NeverActiveAgain ==
    Spec => [][\A h \in Holds : Stored(h) /\ row[h].status # "ACTIVE" =>
                 Stored(h)' /\ row'[h].status # "ACTIVE"]_vars
  <1> DEFINE Stays == \A h \in Holds : Stored(h) /\ row[h].status # "ACTIVE" =>
                        Stored(h)' /\ row'[h].status # "ACTIVE"
  <1>1. ASSUME StoreInv, SavesOutcome, [Next]_vars, NEW h \in Holds,
               Stored(h), row[h].status # "ACTIVE"
        PROVE  Stored(h)' /\ row'[h].status # "ACTIVE"
    <2>1. row'[h].status # "ACTIVE"
      BY <1>1, RowStep DEF SavesOutcome
    <2>2. Stored(h)'
      BY <1>1, NextKeepsStored
    <2>3. QED
      BY <2>1, <2>2
  <1>2. StoreInv /\ SavesOutcome /\ [Next]_vars => [Stays]_vars
    BY <1>1
  <1>3. QED
    BY <1>2, StoreInvariance, SavesOutcomeInvariance, PTL DEF Spec

\* The state of a hold from its confirmation for b on: nobody is about to write
\* an outcome, and none can be decided any more since no early copy is ACTIVE.
SoldTo(h, b) ==
    /\ OnlyFor(h, b)
    /\ \A c \in Callers : ~Deciding(c, h)

LEMMA ConfirmedIsSold ==
    ASSUME CoordInv, NEW h \in Holds, NEW b \in Bookings, ConfirmedFor(h, b)
    PROVE  SoldTo(h, b)
  BY DEF ConfirmedFor, OnlyFor, SoldTo, CoordInv, OneDecision, SettledStatuses

LEMMA SoldStays ==
    ASSUME CoordInv, SavesOutcome, [Next]_vars, NEW h \in Holds, NEW b \in Bookings,
           SoldTo(h, b)
    PROVE  SoldTo(h, b)'
  <1>1. StoreInv /\ Stored(h)
    BY DEF CoordInv, SoldTo, OnlyFor
  <1>2. Stored(h)'
    BY <1>1, NextKeepsStored
  <1>3. row'[h] = row[h] \/ row'[h].status = "EXPIRED"
    <2>1. ASSUME NEW c \in Callers, target[c] = h, pc[c] = "saving"
          PROVE  copy[c].status = "EXPIRED"
      <3>1. copy[c].status \in HoldStatuses
        BY <1>1, <2>1 DEF StoreInv, CallersInv, Good, HoldRecords
      <3>2. copy[c].status \notin SettledStatuses /\ copy[c].status # "ACTIVE"
        BY <2>1 DEF SoldTo, Deciding, SavesOutcome
      <3>3. QED
        BY <3>1, <3>2 DEF HoldStatuses, SettledStatuses
    <2>2. QED
      BY <1>1, <2>1, RowStep
  <1>4. ASSUME NEW c \in Callers, Deciding(c, h)'
        PROVE  FALSE
    <2>1. ~Deciding(c, h) /\ pc'[c] = "saving" /\ target'[c] = h
      BY <1>4 DEF SoldTo, Deciding
    <2>2. /\ pc[c] = "settling" /\ target[c] = h
          /\ copy[c].status = "ACTIVE" /\ now < copy[c].expiresAt
      BY <1>1, <1>4, <2>1, SavingBegins DEF Deciding
    <2>3. Early(h)
      BY <1>1, <2>2 DEF StoreInv, CallersInv, Early
    <2>4. copy[c] = row[h]
      BY <2>2, <2>3 DEF CoordInv, CopiesFresh
    <2>5. QED
      BY <2>2, <2>4 DEF SoldTo, OnlyFor
  <1>5. QED
    BY <1>2, <1>3, <1>4 DEF SoldTo, OnlyFor

\* The same for one hold and one booking, as a temporal formula.
LEMMA SoldForGood ==
    ASSUME Reliable, NEW h \in Holds, NEW b \in Bookings
    PROVE  Spec => [](ConfirmedFor(h, b) => []OnlyFor(h, b))
  <1>1. CoordInv /\ ConfirmedFor(h, b) => SoldTo(h, b)
    BY ConfirmedIsSold
  <1>2. CoordInv /\ SavesOutcome /\ SoldTo(h, b) /\ [Next]_vars => SoldTo(h, b)'
    BY SoldStays
  <1>3. SoldTo(h, b) => OnlyFor(h, b)
    BY DEF SoldTo
  <1>4. QED
    BY <1>1, <1>2, <1>3, CoordInvariance, SavesOutcomeInvariance, PTL DEF Spec

\* Once confirmed for a booking a hold is for that booking for good, also after
\* a late copy has turned it EXPIRED, if Redis keeps its data.
THEOREM CoordinationSellsOnce ==
    ASSUME Coordinated = Callers, MaxLosses = 0
    PROVE  Spec => SoldOnce
  <1>1. Reliable
    BY DEF Reliable
  <1>2. ASSUME NEW h \in Holds, NEW b \in Bookings
        PROVE  Spec => [](ConfirmedFor(h, b) => []OnlyFor(h, b))
    BY <1>1, SoldForGood
  <1>3. QED
    BY <1>2 DEF SoldOnce
=============================================================================
