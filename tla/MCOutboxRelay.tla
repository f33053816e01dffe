--------------------------- MODULE MCOutboxRelay ---------------------------
(* Instances of OutboxRelay for TLC. *)
EXTENDS OutboxRelay, TLC

\* Relays and transactions only appear in quantifiers and as function domains.
Symmetry == Permutations(Relays) \cup Permutations(Transactions)

NoEvents  == {}
FirstOnly == {1}
============================================================================
