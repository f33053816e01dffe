----------------------------- MODULE HoldDomain -----------------------------
(***************************************************************************)
(* domain/hold.go of the availability service: a hold on a parking space   *)
(* and the rules that settle it.  Confirm and Release mutate the hold they *)
(* are called on, also when they return an error; here they return the     *)
(* hold as they leave it together with the error.                          *)
(***************************************************************************)
EXTENDS Integers

CONSTANTS
    Bookings,   \* booking identifiers
    Reasons,    \* release reasons
    MaxTime,    \* instants explored: 0..MaxTime
    None        \* the empty string, NULL, nil

HoldStatuses == {"ACTIVE", "CONFIRMED", "RELEASED", "EXPIRED"}

HoldRecords ==
    [status        : HoldStatuses,
     expiresAt     : 0..MaxTime,
     bookingID     : Bookings \cup {None},
     releaseReason : Reasons \cup {None}]

ASSUME MaxTimeAssumption == MaxTime \in Nat
ASSUME NoneAssumption ==
    /\ None \notin Bookings \cup Reasons
    /\ None \notin HoldRecords

NewHold(expiresAt) ==
    [status |-> "ACTIVE", expiresAt |-> expiresAt,
     bookingID |-> None, releaseReason |-> None]

\* Seeded fault: the comparison with expiresAt is turned round.
EffectiveStatusInverted(hold, now) ==
    IF hold.status = "ACTIVE" /\ now < hold.expiresAt THEN "EXPIRED" ELSE hold.status

\* Seeded fault: the hold lives one instant too long.
EffectiveStatusLate(hold, now) ==
    IF hold.status = "ACTIVE" /\ now > hold.expiresAt THEN "EXPIRED" ELSE hold.status

\* An ACTIVE hold counts as expired from the instant expiresAt on.
EffectiveStatus(hold, now) ==
    IF hold.status = "ACTIVE" /\ now >= hold.expiresAt THEN "EXPIRED" ELSE hold.status

\* The common course of Confirm and Release: argument check, expiry, status.
Settle(hold, now, argument, missing, settled) ==
    CASE argument = None -> [hold |-> hold, error |-> missing]
      [] argument # None /\ EffectiveStatus(hold, now) = "EXPIRED" ->
           [hold |-> [hold EXCEPT !.status = "EXPIRED"], error |-> "ErrHoldExpired"]
      [] argument # None /\ EffectiveStatus(hold, now) \notin {"ACTIVE", "EXPIRED"} ->
           [hold |-> hold, error |-> "ErrHoldNotActive"]
      [] OTHER -> [hold |-> settled, error |-> "nil"]

Confirm(hold, now, bookingID) ==
    Settle(hold, now, bookingID, "ErrBookingIDRequired",
           [hold EXCEPT !.status = "CONFIRMED", !.bookingID = bookingID])

Release(hold, now, reason) ==
    Settle(hold, now, reason, "ErrReleaseReasonRequired",
           [hold EXCEPT !.status = "RELEASED", !.releaseReason = reason])
=============================================================================
