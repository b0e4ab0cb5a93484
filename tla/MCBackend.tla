----------------------------- MODULE MCBackend -----------------------------
(***************************************************************************)
(* Instances of Backend for TLC.  All frames have one duration, since what *)
(* durations do is checked on AudioIngest alone.                           *)
(***************************************************************************)
EXTENDS Backend, TLC

CONSTANTS MaxSequence,
  MaxHeard       \* bound on the events of a session that has been subscribed to

MCFrames ==
  {[sequence_number |-> n, duration_ms |-> 1, payload |-> 1] : n \in 0..MaxSequence}

\* A client that hears of its session makes the states many: with one, fewer
\* events are followed than without.
HeardBound ==
  \A q \in Subscriptions : session_id[q] # NoSession => published[session_id[q]] <= MaxHeard

\* Profiles are interchangeable; every property checked is a safety property.
Symmetry == Permutations(Profiles)

=============================================================================
