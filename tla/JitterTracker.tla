--------------------------- MODULE JitterTracker ---------------------------
(***************************************************************************)
(* JitterTracker of backend/audio/jitter.py: what the sequence numbers of  *)
(* a session's frames say about loss, repetition and reordering.  It keeps *)
(* the number it expects next and the last Window different numbers, once  *)
(* as a deque in order of arrival and once as a set for lookup.            *)
(*                                                                         *)
(* Sequence numbers are unsigned 64-bit fields of the frame header held in *)
(* Python integers, so expected_sequence_number does not wrap.             *)
(***************************************************************************)
EXTENDS Integers, Sequences

CONSTANTS
  Window,        \* recent_window_size
  NoSequence     \* expected_sequence_number before the first frame: None

ASSUME JitterTrackerAssumption == Window \in Nat \ {0} /\ NoSequence \notin Nat

Tracker ==
  [expected      : Nat \cup {NoSequence},   \* _expected_sequence_number
   recent        : Seq(Nat),                \* _recent_sequence_numbers
   lookup        : SUBSET Nat,              \* _recent_lookup
   missing       : Nat,                     \* _missing_sequence_numbers
   duplicates    : Nat,                     \* _duplicate_sequence_numbers
   out_of_order  : Nat,                     \* _out_of_order_frames
   queue_depth   : Nat,                     \* _queue_depth_ms
   dropped       : Nat]                     \* _dropped_diagnostic_frames

NewTracker ==
  [expected |-> NoSequence, recent |-> <<>>, lookup |-> {}, missing |-> 0,
   duplicates |-> 0, out_of_order |-> 0, queue_depth |-> 0, dropped |-> 0]

\* What a frame numbered n is to tracker t: exactly one of these five.
Duplicate(t, n)  == n \in t.lookup
First(t, n)      == ~Duplicate(t, n) /\ t.expected = NoSequence
Expected(t, n)   == ~Duplicate(t, n) /\ t.expected = n
Ahead(t, n)      == ~Duplicate(t, n) /\ t.expected # NoSequence /\ n > t.expected
OutOfOrder(t, n) == ~Duplicate(t, n) /\ t.expected # NoSequence /\ n < t.expected

\* Mutant of Remembered: an expired number stays in the lookup set.
RememberedForGood(t, n) ==
  [t EXCEPT !.recent = Append(IF Len(@) = Window THEN Tail(@) ELSE @, n),
            !.lookup = @ \cup {n}]

\* _remember: the oldest number leaves both structures when the deque is full.
Remembered(t, n) ==
  LET full == Len(t.recent) = Window
  IN [t EXCEPT !.recent = Append(IF full THEN Tail(@) ELSE @, n),
               !.lookup = (IF full THEN @ \ {Head(t.recent)} ELSE @) \cup {n}]

\* Mutants of Missing: the frame that arrived is counted as missing too; the
\* difference is taken the wrong way round.
MissingInclusive(t, n) == IF Ahead(t, n) THEN n - t.expected + 1 ELSE 0
MissingReversed(t, n)  == IF Ahead(t, n) THEN t.expected - n ELSE 0

\* The numbers skipped by a frame that is ahead.
Missing(t, n) == IF Ahead(t, n) THEN n - t.expected ELSE 0

Observed(t, n, depth) ==
  LET w == IF Duplicate(t, n) THEN t ELSE Remembered(t, n)
  IN [expected     |-> IF Duplicate(t, n) \/ OutOfOrder(t, n) THEN t.expected ELSE n + 1,
      recent       |-> w.recent,
      lookup       |-> w.lookup,
      missing      |-> t.missing + Missing(t, n),
      duplicates   |-> t.duplicates + (IF Duplicate(t, n) THEN 1 ELSE 0),
      out_of_order |-> t.out_of_order + (IF OutOfOrder(t, n) THEN 1 ELSE 0),
      queue_depth  |-> depth,
      dropped      |-> t.dropped]

Dropped(t, count) == [t EXCEPT !.dropped = @ + count]

=============================================================================
