-------------------------- MODULE MCSessionManager --------------------------
(***************************************************************************)
(* Instances of SessionManager for TLC: one caller is the event loop of    *)
(* the application, two callers are threads that contend for the lock.     *)
(***************************************************************************)
EXTENDS SessionManager, TLC

ForwardClock == {1}

\* Sessions, and callers, are interchangeable; every property checked under
\* this symmetry is a safety property.
Symmetry == Permutations(SessionIds) \cup Permutations(Callers)

=============================================================================
