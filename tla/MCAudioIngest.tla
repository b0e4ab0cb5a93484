--------------------------- MODULE MCAudioIngest ---------------------------
(***************************************************************************)
(* Instances of AudioIngest for TLC.                                       *)
(***************************************************************************)
EXTENDS AudioIngest

CONSTANTS MaxSequence, Durations

\* Long frames carry more than short ones, but not in proportion: frames of
\* one duration differ in sample rate, channels and sample format.
MCFrames ==
  {[sequence_number |-> n, duration_ms |-> d, payload |-> 3 * d + 1] :
     n \in 0..MaxSequence, d \in Durations}

=============================================================================
