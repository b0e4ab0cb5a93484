--------------------------- MODULE MCAudioIntake ---------------------------
(***************************************************************************)
(* Instances of AudioIntake for TLC, with the limits that are shipped and  *)
(* messages at each limit and one beside it.                               *)
(***************************************************************************)
EXTENDS AudioIntake

CONSTANTS Rates, ChannelCounts, Durations

Excess == {-1, 0, 1}

Whole(rate, channels, duration) ==
  [length |-> 32 + ((rate * duration) \div 1000) * channels * 2, magic |-> "CTTS",
   version |-> 1, header_length |-> 32, sequence_number |-> 0, sample_rate |-> rate,
   channels |-> channels, duration_ms |-> duration, format_code |-> 1]

Plain == Whole(8000, 1, 40)

MCMessages ==
  {[Whole(r, c, d) EXCEPT !.length = @ + x] :
     r \in Rates, c \in ChannelCounts, d \in Durations, x \in Excess}
  \cup {Whole(7999, 1, 1000), Whole(192001, 1, 1000), Whole(0, 1, 40),
        Whole(8000, 0, 40), Whole(8000, 3, 40), Whole(8000, 1, 0), Whole(8000, 1, 1001),
        [Plain EXCEPT !.magic = "RIFF"], [Plain EXCEPT !.version = 2],
        [Plain EXCEPT !.header_length = 33], [Plain EXCEPT !.format_code = 2],
        [Plain EXCEPT !.length = 31], [Plain EXCEPT !.length = 32],
        [Plain EXCEPT !.sequence_number = 1]}

=============================================================================
