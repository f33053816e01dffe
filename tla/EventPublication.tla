------------------------- MODULE EventPublication -------------------------
(***************************************************************************)
(* What the outbox promises to the rest of the platform, with the table,   *)
(* the relays and Kafka abstracted away (docs/EVENTS.md:40-43): facts are   *)
(* committed, only committed facts are delivered, only delivered facts are *)
(* acknowledged, and nothing is ever taken back.  Delivery of a fact that  *)
(* was delivered before is a stuttering step: consumers see at least once. *)
(* EventConsumer implements it once more, for the way from Kafka through   *)
(* the handler to the ledger.                                              *)
(***************************************************************************)
CONSTANT Facts

VARIABLES
    committed,     \* facts whose database transaction has committed
    delivered,     \* facts of which a copy is in Kafka
    acknowledged   \* facts the outbox will not send again

vars == <<committed, delivered, acknowledged>>

Init ==
    /\ committed = {}
    /\ delivered = {}
    /\ acknowledged = {}

\* One database transaction makes all of its facts visible at once.
CommitFacts ==
    \E S \in SUBSET (Facts \ committed) :
        /\ committed' = committed \cup S
        /\ UNCHANGED <<delivered, acknowledged>>

Deliver ==
    \E f \in committed :
        /\ delivered' = delivered \cup {f}
        /\ UNCHANGED <<committed, acknowledged>>

Acknowledge ==
    \E f \in delivered :
        /\ acknowledged' = acknowledged \cup {f}
        /\ UNCHANGED <<committed, delivered>>

Next == CommitFacts \/ Deliver \/ Acknowledge

Spec == Init /\ [][Next]_vars
===========================================================================
