---------------------------- MODULE MCSearchPage ----------------------------
(* Instances of SearchPage for TLC. *)
EXTENDS SearchPage, TLC

CONSTANTS t1, t2, p1, p2

\* The geocoder knows a place for the first text only; both can be picked.
MCPlaces == {p1, p2}
MCAreas  == MCPlaces \cup {Home}
MCNameOf == p1 :> t1 @@ p2 :> t2
MCFirstMatch == t1 :> p1 @@ t2 :> Nowhere
=============================================================================
