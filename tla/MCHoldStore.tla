---------------------------- MODULE MCHoldStore ----------------------------
(* Instances of HoldStore for TLC. *)
EXTENDS HoldStore, TLC

Symmetry == Permutations(Callers) \cup Permutations(Bookings)
=============================================================================
