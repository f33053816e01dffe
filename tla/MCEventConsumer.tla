-------------------------- MODULE MCEventConsumer --------------------------
(* Instances of EventConsumer for TLC. *)
EXTENDS EventConsumer, TLC

CONSTANTS m1, m2, g1, g2

OneGroup  == {g1}
TwoGroups == {g1, g2}
TwoMembers == {m1, m2}
SameGroup  == m1 :> g1 @@ m2 :> g1
OwnGroup   == m1 :> g1 @@ m2 :> g2

============================================================================
