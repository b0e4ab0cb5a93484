--------------------------- MODULE MCEventBroker ---------------------------
(***************************************************************************)
(* Instances of EventBroker for TLC.  Sessions are interchangeable, and so *)
(* are subscriptions; every property checked is a safety property.         *)
(***************************************************************************)
EXTENDS EventBroker, TLC

Symmetry == Permutations(SessionIds) \cup Permutations(Subscriptions)

=============================================================================
