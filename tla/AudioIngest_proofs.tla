------------------------- MODULE AudioIngest_proofs -------------------------
(***************************************************************************)
(* Theorems about AudioIngest, for every set of sessions and frames, all   *)
(* limits and every size of the window.                                    *)
(*                                                                         *)
(* The argument.  Every operation replaces, adds or removes the buffer and *)
(* the tracker of one session, so what holds for each session's pair of    *)
(* buffer and tracker on its own is preserved once the operators that      *)
(* compute the new pair preserve it: the lemmas about Appended, Remembered *)
(* and Observed below carry the proofs.                                    *)
(***************************************************************************)
EXTENDS AudioIngest, Sums_proofs, SequenceTheorems, FiniteSetTheorems, TLAPS

\* A frame that has room leaves a well-formed buffer within its limits.
LEMMA AppendedBuffer ==
  ASSUME NEW b \in Buffer, NEW f \in Frames
  PROVE  /\ Appended(b, f) \in Buffer
         /\ Len(Appended(b, f).frames) = Len(b.frames) + 1
         /\ Len(b.frames) > 0 => Appended(b, f).frames[1] = b.frames[1]
         /\ Len(b.frames) = 0 => Appended(b, f).frames[1] = f
         /\ Appended(b, f).depth_ms = b.depth_ms + f.duration_ms
<1>1. f.duration_ms \in Nat /\ f.payload \in Nat
  BY AudioRingBufferAssumption
<1>2. b.frames \in Seq(Frames) /\ b.depth_ms \in Nat /\ b.byte_count \in Nat
  BY DEF Buffer
<1>3. Append(b.frames, f) \in Seq(Frames)
  BY <1>2
<1>4. Appended(b, f) \in Buffer
  BY <1>1, <1>2, <1>3 DEF Appended, Buffer
<1>5. QED
  BY <1>2, <1>4 DEF Appended

LEMMA EmptyIsBuffer == EmptyBuffer \in Buffer /\ Len(EmptyBuffer.frames) = 0
BY DEF EmptyBuffer, Buffer

LEMMA NewIsTracker == NewTracker \in Tracker /\ WindowAgrees(NewTracker)
<1>1. NewTracker \in Tracker
  BY DEF NewTracker, Tracker
<1>2. Range(<<>>) = {} /\ IsInjective(<<>>) /\ Len(<<>>) <= Window
  BY JitterTrackerAssumption DEF Range, IsInjective
<1>3. QED
  BY <1>1, <1>2 DEF NewTracker, WindowAgrees

-----------------------------------------------------------------------------
\* The oldest number of a window of different numbers leaves it entirely.
LEMMA ExpireOldest ==
  ASSUME NEW q \in Seq(Nat), Len(q) > 0, IsInjective(q)
  PROVE  /\ Tail(q) \in Seq(Nat)
         /\ Len(Tail(q)) = Len(q) - 1
         /\ IsInjective(Tail(q))
         /\ Range(Tail(q)) = Range(q) \ {Head(q)}
<1> DEFINE r == Tail(q)
<1>1. /\ r \in Seq(Nat) /\ Len(r) = Len(q) - 1
      /\ \A i \in 1..Len(r) : r[i] = q[i + 1]
      /\ Head(q) = q[1]
  BY HeadTailProperties
<1>2. DOMAIN r = 1..Len(r) /\ DOMAIN q = 1..Len(q) /\ Len(q) \in Nat /\ Len(r) \in Nat
  BY <1>1
<1> HIDE DEF r
<1>3. \A i, j \in DOMAIN q : q[i] = q[j] => i = j
  BY DEF IsInjective
<1>4. IsInjective(r)
  <2>1. ASSUME NEW i \in DOMAIN r, NEW j \in DOMAIN r, r[i] = r[j] PROVE i = j
    <3>1. i \in Int /\ j \in Int /\ i + 1 \in DOMAIN q /\ j + 1 \in DOMAIN q
      <4>1. i \in 1..Len(r) /\ j \in 1..Len(r)
        BY <1>2
      <4>2. i + 1 \in 1..Len(q) /\ j + 1 \in 1..Len(q)
        <5>1. Len(r) = Len(q) - 1 /\ Len(r) \in Int /\ Len(q) \in Int
          BY <1>1, <1>2
        <5>2. \A k, m \in Int : \A x \in 1..k : k = m - 1 => x + 1 \in 1..m
          OBVIOUS
        <5>3. QED
          BY <4>1, <5>1, <5>2
      <4>3. i + 1 \in DOMAIN q /\ j + 1 \in DOMAIN q
        BY <1>2, <4>2
      <4>4. i \in Int /\ j \in Int
        BY <4>1
      <4>5. QED
        BY <4>3, <4>4
    <3>2. q[i + 1] = q[j + 1]
      BY <1>1, <1>2, <2>1
    <3>3. i + 1 = j + 1
      BY <1>3, <3>1, <3>2
    <3>4. QED
      BY <3>1, <3>3
  <2>2. QED
    BY <2>1 DEF IsInjective
<1>5. Range(r) = Range(q) \ {Head(q)}
  <2>1. ASSUME NEW i \in DOMAIN r PROVE r[i] \in Range(q) \ {Head(q)}
    <3>1. i + 1 \in DOMAIN q /\ 1 \in DOMAIN q /\ i + 1 # 1 /\ r[i] = q[i + 1]
      BY SMTT(30), <1>1, <1>2
    <3>2. q[i + 1] # q[1]
      BY <1>3, <3>1
    <3>3. QED
      BY <1>1, <3>1, <3>2 DEF Range
  <2>2. ASSUME NEW k \in DOMAIN q, q[k] # q[1] PROVE q[k] \in Range(r)
    <3>1. k - 1 \in DOMAIN r /\ r[k - 1] = q[k]
      BY SMTT(30), <1>1, <1>2, <2>2
    <3>2. QED
      BY <3>1 DEF Range
  <2>3. Range(r) \subseteq Range(q) \ {Head(q)}
    BY <2>1 DEF Range
  <2>4. Range(q) \ {Head(q)} \subseteq Range(r)
    BY <1>1, <2>2 DEF Range
  <2>5. QED
    BY <2>3, <2>4
<1>6. QED
  BY <1>1, <1>4, <1>5 DEF r

\* A new number joins it.
LEMMA JoinNewest ==
  ASSUME NEW q \in Seq(Nat), IsInjective(q), NEW n \in Nat, n \notin Range(q)
  PROVE  /\ Append(q, n) \in Seq(Nat)
         /\ Len(Append(q, n)) = Len(q) + 1
         /\ IsInjective(Append(q, n))
         /\ Range(Append(q, n)) = Range(q) \cup {n}
<1> DEFINE r == Append(q, n)
<1>1. /\ r \in Seq(Nat) /\ Len(r) = Len(q) + 1
      /\ \A i \in 1..Len(q) : r[i] = q[i]
      /\ r[Len(q) + 1] = n
  BY AppendProperties
<1>2. /\ DOMAIN r = 1..(Len(q) + 1) /\ DOMAIN q = 1..Len(q) /\ Len(q) \in Nat
  BY <1>1
<1> HIDE DEF r
<1>3. IsInjective(r)
  <2>1. ASSUME NEW i \in DOMAIN r, NEW j \in DOMAIN r, r[i] = r[j] PROVE i = j
    <3>1. CASE i \in DOMAIN q /\ j \in DOMAIN q
      BY <1>1, <1>2, <2>1, <3>1 DEF IsInjective
    <3>2. CASE i \notin DOMAIN q /\ j \notin DOMAIN q
      BY <1>2, <3>2
    <3>3. CASE i \in DOMAIN q /\ j \notin DOMAIN q
      <4>1. r[i] \in Range(q) /\ r[j] = n
        BY <1>1, <1>2, <3>3 DEF Range
      <4>2. QED
        BY <2>1, <4>1
    <3>4. CASE i \notin DOMAIN q /\ j \in DOMAIN q
      <4>1. r[j] \in Range(q) /\ r[i] = n
        BY <1>1, <1>2, <3>4 DEF Range
      <4>2. QED
        BY <2>1, <4>1
    <3>5. QED
      BY <3>1, <3>2, <3>3, <3>4
  <2>2. QED
    BY <2>1 DEF IsInjective
<1>4. Range(r) = Range(q) \cup {n}
  <2>1. ASSUME NEW i \in DOMAIN r PROVE r[i] \in Range(q) \cup {n}
    BY <1>1, <1>2 DEF Range
  <2>2. ASSUME NEW i \in DOMAIN q PROVE q[i] \in Range(r)
    <3>1. i \in DOMAIN r /\ r[i] = q[i]
      BY <1>1, <1>2
    <3>2. QED
      BY <3>1 DEF Range
  <2>3. Len(q) + 1 \in DOMAIN r /\ n \in Range(r)
    BY <1>1, <1>2 DEF Range
  <2>4. QED
    BY <2>1, <2>2, <2>3 DEF Range
<1>5. QED
  BY <1>1, <1>3, <1>4 DEF r

\* Remembering a number that is not in the window keeps deque and set alike.
LEMMA RememberedWindow ==
  ASSUME NEW t \in Tracker, WindowAgrees(t), NEW n \in Nat, n \notin t.lookup
  PROVE  \E q \in Seq(Nat), known \in SUBSET Nat :
           /\ Remembered(t, n) = [t EXCEPT !.recent = q, !.lookup = known]
           /\ Len(q) <= Window /\ IsInjective(q) /\ known = Range(q)
           /\ known \subseteq t.lookup \cup {n}
<1>1. /\ t.recent \in Seq(Nat) /\ t.lookup = Range(t.recent) /\ IsInjective(t.recent)
      /\ Len(t.recent) <= Window /\ Len(t.recent) \in Nat
      /\ Window \in Nat /\ Window > 0
      /\ t.lookup \subseteq Nat
  BY JitterTrackerAssumption DEF Tracker, WindowAgrees
<1>2. CASE Len(t.recent) = Window
  <2> DEFINE kept == Tail(t.recent)
  <2>1. /\ kept \in Seq(Nat) /\ Len(kept) = Window - 1
        /\ IsInjective(kept) /\ Range(kept) = t.lookup \ {Head(t.recent)}
    BY <1>1, <1>2, ExpireOldest
  <2>2. n \notin Range(kept)
    BY <2>1
  <2>3. /\ Append(kept, n) \in Seq(Nat) /\ Len(Append(kept, n)) = Len(kept) + 1
        /\ IsInjective(Append(kept, n)) /\ Range(Append(kept, n)) = Range(kept) \cup {n}
    BY <2>1, <2>2, JoinNewest
  <2>4. Remembered(t, n) = [t EXCEPT !.recent = Append(kept, n), !.lookup = Range(kept) \cup {n}]
    BY <1>2, <2>1 DEF Remembered
  <2>5. Range(kept) \cup {n} \in SUBSET Nat
    BY <1>1, <2>1
  <2>6. Len(Append(kept, n)) <= Window
    BY <1>1, <2>1, <2>3
  <2> HIDE DEF kept
  <2>7. QED
    BY <2>1, <2>3, <2>4, <2>5, <2>6
<1>3. CASE Len(t.recent) # Window
  <2>1. /\ Append(t.recent, n) \in Seq(Nat) /\ Len(Append(t.recent, n)) = Len(t.recent) + 1
        /\ IsInjective(Append(t.recent, n)) /\ Range(Append(t.recent, n)) = t.lookup \cup {n}
    BY <1>1, JoinNewest
  <2>2. Remembered(t, n) = [t EXCEPT !.recent = Append(t.recent, n), !.lookup = t.lookup \cup {n}]
    BY <1>3 DEF Remembered
  <2>3. Len(Append(t.recent, n)) <= Window
    BY <1>1, <1>3, <2>1
  <2>4. t.lookup \cup {n} \in SUBSET Nat
    BY <1>1
  <2>5. QED
    BY <2>1, <2>2, <2>3, <2>4
<1>4. QED
  BY <1>2, <1>3

\* What observing number n makes of the counters of tracker t: the first number
\* sets the expected one, and later each step of the expected one is explained.
Explained(t, o, n) ==
  /\ o.expected \in Nat
  /\ t.expected = NoSequence =>
       /\ o.expected = n + 1
       /\ o.missing = t.missing
       /\ o.duplicates = t.duplicates
       /\ o.out_of_order = t.out_of_order
  /\ t.expected # NoSequence =>
       o.missing - t.missing + 1 =
         (o.expected - t.expected) + (o.duplicates - t.duplicates)
         + (o.out_of_order - t.out_of_order)

\* The counters stay in balance: what explained the distance from number f
\* with k frames explains it with one frame more.
LEMMA Balance ==
  ASSUME NEW t \in Tracker, NEW o \in Tracker, NEW n \in Nat, Explained(t, o, n),
         NEW k \in Int, NEW f \in Int, t.expected \in Nat,
         t.missing + k = (t.expected - f) + t.duplicates + t.out_of_order
  PROVE  o.missing + (k + 1) = (o.expected - f) + o.duplicates + o.out_of_order
<1>1. /\ t.missing \in Int /\ t.expected \in Int /\ t.duplicates \in Int
      /\ t.out_of_order \in Int /\ o.missing \in Int /\ o.expected \in Int
      /\ o.duplicates \in Int /\ o.out_of_order \in Int
  BY DEF Tracker, Explained
<1>2. o.missing - t.missing + 1 =
         (o.expected - t.expected) + (o.duplicates - t.duplicates)
         + (o.out_of_order - t.out_of_order)
  BY JitterTrackerAssumption DEF Explained
<1>3. \A m, e, d, l, m1, e1, d1, l1 \in Int :
        m1 - m + 1 = (e1 - e) + (d1 - d) + (l1 - l) /\ m + k = (e - f) + d + l
          => m1 + (k + 1) = (e1 - f) + d1 + l1
  OBVIOUS
<1>4. QED
  BY <1>1, <1>2, <1>3

\* Observing a number: the five cases it can be, and what each does.
LEMMA ObservedTracker ==
  ASSUME NEW t \in Tracker, WindowAgrees(t), NEW n \in Nat, NEW d \in Nat
  PROVE  /\ Observed(t, n, d) \in Tracker
         /\ WindowAgrees(Observed(t, n, d))
         /\ Observed(t, n, d).queue_depth = d
         /\ Explained(t, Observed(t, n, d), n)
<1> DEFINE o == Observed(t, n, d)
<1>1. /\ t.expected \in Nat \cup {NoSequence} /\ NoSequence \notin Nat
      /\ t.recent \in Seq(Nat) /\ t.lookup \in SUBSET Nat
      /\ t.missing \in Nat /\ t.duplicates \in Nat /\ t.out_of_order \in Nat
      /\ t.queue_depth \in Nat /\ t.dropped \in Nat
  BY JitterTrackerAssumption DEF Tracker
<1>2. /\ Len(t.recent) <= Window /\ IsInjective(t.recent) /\ t.lookup = Range(t.recent)
      /\ \A m \in t.lookup : t.expected # NoSequence /\ m < t.expected
  BY DEF WindowAgrees
<1>3. CASE Duplicate(t, n)
  <2>1. t.expected \in Nat
    BY <1>1, <1>2, <1>3 DEF Duplicate
  <2>2. Missing(t, n) = 0 /\ ~OutOfOrder(t, n)
    BY <1>3 DEF Missing, Ahead, OutOfOrder
  <2>3. /\ o.missing = t.missing + 0 /\ o.duplicates = t.duplicates + 1
        /\ o.out_of_order = t.out_of_order + 0 /\ o.expected = t.expected
        /\ o.queue_depth = d /\ o.recent = t.recent /\ o.lookup = t.lookup
    BY <1>3, <2>2 DEF Observed
  <2>4. /\ o.missing = t.missing /\ o.duplicates \in Nat /\ o.out_of_order = t.out_of_order
    BY <1>1, <2>3
  <2>5. o \in Tracker
    <3>1. o = [expected |-> o.expected, recent |-> o.recent, lookup |-> o.lookup,
               missing |-> o.missing, duplicates |-> o.duplicates,
               out_of_order |-> o.out_of_order, queue_depth |-> o.queue_depth,
               dropped |-> t.dropped]
      BY DEF Observed
    <3> HIDE DEF o
    <3>2. QED
      BY <1>1, <2>1, <2>3, <2>4, <3>1 DEF Tracker
  <2>6. WindowAgrees(o)
    BY <2>3 DEF WindowAgrees
  <2> HIDE DEF o
  <2>7. Explained(t, o, n)
    BY SMTT(30), <1>1, <2>1, <2>3, <2>4 DEF Explained
  <2>8. QED
    BY <2>3, <2>5, <2>6, <2>7 DEF o
<1>4. CASE ~Duplicate(t, n)
  <2>1. PICK q \in Seq(Nat), known \in SUBSET Nat :
           /\ Remembered(t, n) = [t EXCEPT !.recent = q, !.lookup = known]
           /\ Len(q) <= Window /\ IsInjective(q) /\ known = Range(q)
           /\ known \subseteq t.lookup \cup {n}
    BY <1>4, RememberedWindow DEF Duplicate
  <2> DEFINE next == IF OutOfOrder(t, n) THEN t.expected ELSE n + 1
             late == IF OutOfOrder(t, n) THEN 1 ELSE 0
             skipped == Missing(t, n)
  <2>2. /\ next \in Nat /\ late \in Nat /\ skipped \in Nat
        /\ n < next
        /\ t.expected # NoSequence => t.expected <= next
        /\ t.expected = NoSequence => next = n + 1 /\ late = 0 /\ skipped = 0
        /\ t.expected # NoSequence => skipped + 1 = (next - t.expected) + late
    BY <1>1, <1>4 DEF OutOfOrder, Missing, Ahead
  <2>3. Remembered(t, n).recent = q /\ Remembered(t, n).lookup = known
    BY <2>1 DEF Tracker
  <2>4. /\ o = [expected |-> next, recent |-> q, lookup |-> known,
                missing |-> t.missing + skipped, duplicates |-> t.duplicates + 0,
                out_of_order |-> t.out_of_order + late, queue_depth |-> d,
                dropped |-> t.dropped]
        /\ o.expected = next /\ o.missing = t.missing + skipped
        /\ o.duplicates = t.duplicates + 0 /\ o.out_of_order = t.out_of_order + late
        /\ o.queue_depth = d /\ o.recent = q /\ o.lookup = known
    BY <1>4, <2>3 DEF Observed
  <2> HIDE DEF next, late, skipped, o
  <2>5. /\ t.missing + skipped \in Nat /\ t.out_of_order + late \in Nat
         /\ t.duplicates + 0 = t.duplicates
    <3>1. /\ skipped \in Nat /\ late \in Nat
          /\ t.missing \in Nat /\ t.duplicates \in Nat /\ t.out_of_order \in Nat
      BY <1>1, <2>2
    <3>2. QED
      BY <3>1
  <2>6. o \in Tracker
    BY <1>1, <2>1, <2>2, <2>4, <2>5 DEF Tracker
  <2>7. ASSUME NEW m \in known PROVE m < next
    <3>1. CASE m = n
      BY <2>2, <3>1
    <3>2. CASE m \in t.lookup
      <4>1. t.expected # NoSequence /\ m < t.expected /\ m \in Nat
        BY <1>1, <1>2, <3>2
      <4>2. t.expected \in Nat /\ t.expected <= next /\ next \in Nat
        BY <1>1, <2>2, <4>1
      <4>3. QED
        BY <4>1, <4>2
    <3>3. QED
      BY <2>1, <3>1, <3>2
  <2>8. next # NoSequence
    BY <1>1, <2>2
  <2>9. WindowAgrees(o)
    BY <2>1, <2>4, <2>7, <2>8 DEF WindowAgrees
  <2>10. Explained(t, o, n)
    <3>1. CASE t.expected = NoSequence
      BY <1>1, <2>2, <2>4, <3>1 DEF Explained
    <3>2. CASE t.expected # NoSequence
      <4>1. t.expected \in Nat /\ skipped + 1 = (next - t.expected) + late
        BY <1>1, <2>2, <3>2
      <4>2. o.missing - t.missing = skipped /\ o.duplicates - t.duplicates = 0
            /\ o.out_of_order - t.out_of_order = late
        BY SMTT(30), <1>1, <2>2, <2>4
      <4>3. skipped + 1 = (next - t.expected) + 0 + late
        BY <2>2, <4>1
      <4>4. QED
        BY <2>2, <2>4, <3>2, <4>2, <4>3 DEF Explained
    <3>3. QED
      BY <3>1, <3>2
  <2>11. QED
    BY <2>4, <2>9, <2>10, <2>6 DEF o
<1>5. QED
  BY <1>3, <1>4

\* Counting dropped events touches nothing else.
LEMMA DroppedTracker ==
  ASSUME NEW t \in Tracker, NEW count \in Nat
  PROVE  Dropped(t, count) \in Tracker
BY SMTT(30) DEF Dropped, Tracker

-----------------------------------------------------------------------------
(* What the counters mean.                                                 *)

\* The numbers buffer b holds, and those tracker t has passed that it does not.
HeardIn(b) == {b.frames[i].sequence_number : i \in DOMAIN b.frames}

Skipped(b, t) ==
  IF t.expected = NoSequence THEN {}
  ELSE (b.frames[1].sequence_number .. (t.expected - 1)) \ HeardIn(b)

\* The bounds of HonestStatistics on sets and counters.
Bounds(lost, repeats, t) ==
  /\ lost <= t.missing /\ t.missing <= lost + t.out_of_order
  /\ t.duplicates <= repeats /\ repeats <= t.duplicates + t.out_of_order

\* They need that the window remembers only what was heard, and that all that
\* was heard is behind the expected number.
Honest(b, t) ==
  /\ t.lookup \subseteq HeardIn(b)
  /\ \A n \in HeardIn(b) : n \in Nat /\ t.expected \in Nat /\ n < t.expected
  /\ Bounds(Cardinality(Skipped(b, t)), Len(b.frames) - Cardinality(HeardIn(b)), t)

\* Observing number n, counter by counter.
LEMMA ObservedCounters ==
  ASSUME NEW t \in Tracker, WindowAgrees(t), NEW n \in Nat, NEW d \in Nat, NEW o,
         o = Observed(t, n, d)
  PROVE  /\ o.lookup \subseteq t.lookup \cup {n}
         /\ Duplicate(t, n) =>
              /\ o.expected = t.expected /\ o.missing = t.missing
              /\ o.duplicates = t.duplicates + 1 /\ o.out_of_order = t.out_of_order
         /\ ~Duplicate(t, n) /\ t.expected = NoSequence =>
              /\ o.expected = n + 1 /\ o.missing = t.missing
              /\ o.duplicates = t.duplicates /\ o.out_of_order = t.out_of_order
         /\ ~Duplicate(t, n) /\ t.expected \in Nat /\ n >= t.expected =>
              /\ o.expected = n + 1 /\ o.missing = t.missing + (n - t.expected)
              /\ o.duplicates = t.duplicates /\ o.out_of_order = t.out_of_order
         /\ ~Duplicate(t, n) /\ t.expected \in Nat /\ n < t.expected =>
              /\ o.expected = t.expected /\ o.missing = t.missing
              /\ o.duplicates = t.duplicates /\ o.out_of_order = t.out_of_order + 1
<1>1. /\ t.missing \in Nat /\ t.duplicates \in Nat /\ t.out_of_order \in Nat
      /\ NoSequence \notin Nat
  BY JitterTrackerAssumption DEF Tracker
<1>2. /\ o.expected = IF Duplicate(t, n) \/ OutOfOrder(t, n) THEN t.expected ELSE n + 1
      /\ o.missing = t.missing + Missing(t, n)
      /\ o.duplicates = t.duplicates + (IF Duplicate(t, n) THEN 1 ELSE 0)
      /\ o.out_of_order = t.out_of_order + (IF OutOfOrder(t, n) THEN 1 ELSE 0)
      /\ o.lookup = (IF Duplicate(t, n) THEN t ELSE Remembered(t, n)).lookup
  BY DEF Observed
<1>3. o.lookup \subseteq t.lookup \cup {n}
  <2>1. CASE Duplicate(t, n)
    BY <1>2, <2>1
  <2>2. CASE ~Duplicate(t, n)
    <3>1. PICK q \in Seq(Nat), known \in SUBSET Nat :
            /\ Remembered(t, n) = [t EXCEPT !.recent = q, !.lookup = known]
            /\ Len(q) <= Window /\ IsInjective(q) /\ known = Range(q)
            /\ known \subseteq t.lookup \cup {n}
      BY <2>2, RememberedWindow DEF Duplicate
    <3>2. Remembered(t, n).lookup = known
      BY <3>1 DEF Tracker
    <3>3. QED
      BY <1>2, <2>2, <3>1, <3>2
  <2>3. QED
    BY <2>1, <2>2
<1>4. CASE Duplicate(t, n)
  <2>1. Missing(t, n) = 0 /\ ~OutOfOrder(t, n)
    BY <1>4 DEF Missing, Ahead, OutOfOrder
  <2>2. QED
    BY <1>1, <1>2, <1>3, <1>4, <2>1
<1>5. CASE ~Duplicate(t, n) /\ t.expected = NoSequence
  <2>1. Missing(t, n) = 0 /\ ~OutOfOrder(t, n)
    BY <1>5 DEF Missing, Ahead, OutOfOrder
  <2>2. QED
    BY <1>1, <1>2, <1>3, <1>5, <2>1
<1>6. CASE ~Duplicate(t, n) /\ t.expected \in Nat /\ n >= t.expected
  <2>1. Missing(t, n) = n - t.expected /\ ~OutOfOrder(t, n)
    BY <1>1, <1>6 DEF Missing, Ahead, OutOfOrder
  <2>2. QED
    BY <1>1, <1>2, <1>3, <1>6, <2>1
<1>7. CASE ~Duplicate(t, n) /\ t.expected \in Nat /\ n < t.expected
  <2>1. Missing(t, n) = 0 /\ OutOfOrder(t, n)
    BY <1>1, <1>7 DEF Missing, Ahead, OutOfOrder
  <2>2. QED
    BY <1>1, <1>2, <1>3, <1>7, <2>1
<1>8. QED
  <2>1. t.expected = NoSequence \/ (t.expected \in Nat /\ (n >= t.expected \/ n < t.expected))
    BY DEF Tracker
  <2>2. QED
    BY <1>3, <1>4, <1>5, <1>6, <1>7, <2>1

LEMMA AppendedHeard ==
  ASSUME NEW b \in Buffer, NEW f \in Frames
  PROVE  HeardIn(Appended(b, f)) = HeardIn(b) \cup {f.sequence_number}
<1> DEFINE c == Appended(b, f)
<1>1. b.frames \in Seq(Frames) /\ c.frames = Append(b.frames, f)
  BY DEF Buffer, Appended
<1>2. /\ DOMAIN c.frames = 1..(Len(b.frames) + 1) /\ DOMAIN b.frames = 1..Len(b.frames)
      /\ \A i \in 1..Len(b.frames) : c.frames[i] = b.frames[i]
      /\ c.frames[Len(b.frames) + 1] = f /\ Len(b.frames) \in Nat
  BY <1>1
<1> HIDE DEF c
<1>3. ASSUME NEW i \in DOMAIN c.frames
      PROVE  c.frames[i].sequence_number \in HeardIn(b) \cup {f.sequence_number}
  <2>1. CASE i \in DOMAIN b.frames
    BY <1>2, <2>1 DEF HeardIn
  <2>2. CASE i = Len(b.frames) + 1
    BY <1>2, <2>2
  <2>3. QED
    BY <1>2, <2>1, <2>2
<1>4. ASSUME NEW i \in DOMAIN b.frames PROVE b.frames[i].sequence_number \in HeardIn(c)
  BY <1>2 DEF HeardIn
<1>5. f.sequence_number \in HeardIn(c)
  <2>1. Len(b.frames) + 1 \in DOMAIN c.frames
    BY <1>2
  <2>2. QED
    BY <1>2, <2>1 DEF HeardIn
<1>6. HeardIn(c) \subseteq HeardIn(b) \cup {f.sequence_number}
  BY <1>3 DEF HeardIn
<1>7. HeardIn(b) \cup {f.sequence_number} \subseteq HeardIn(c)
  BY <1>4, <1>5 DEF HeardIn
<1>8. QED
  BY <1>6, <1>7 DEF c

\* The numbers from first on that are below e and not in H.
Between(first, e, H) == (first .. (e - 1)) \ H

\* What becomes of the numbers S heard, and of those skipped from lo to hi,
\* when k arrives: T is then heard.
HeardMore(lo, hi, k, S, T) ==
  /\ Cardinality(S) \in Nat /\ Cardinality(Between(lo, hi, S)) \in Nat
  /\ Cardinality(T) = Cardinality(S) + (IF k \in S THEN 0 ELSE 1)
  /\ k < hi => Cardinality(Between(lo, hi, T)) =
                 Cardinality(Between(lo, hi, S)) - (IF k \in Between(lo, hi, S) THEN 1 ELSE 0)
  /\ k >= hi => Cardinality(Between(lo, k + 1, T)) =
                  Cardinality(Between(lo, hi, S)) + (k - hi)

LEMMA GapAfter ==
  ASSUME NEW lo \in Nat, NEW hi \in Nat, NEW k \in Nat, NEW S \in SUBSET Nat, NEW T,
         \A m \in S : m < hi, lo <= hi, T = S \cup {k}
  PROVE  HeardMore(lo, hi, k, S, T)
<1> DEFINE below == (lo .. (hi - 1)) \ S
           after == IF k < hi THEN (lo .. (hi - 1)) \ (S \cup {k})
                    ELSE (lo .. k) \ (S \cup {k})
<1>0. PICK G, K : /\ G = (lo .. (hi - 1)) \ S
                  /\ k < hi => K = (lo .. (hi - 1)) \ (S \cup {k})
                  /\ k >= hi => K = (lo .. k) \ (S \cup {k})
  <2>1. /\ below = (lo .. (hi - 1)) \ S
        /\ k < hi => after = (lo .. (hi - 1)) \ (S \cup {k})
        /\ k >= hi => after = (lo .. k) \ (S \cup {k})
    OBVIOUS
  <2> HIDE DEF below, after
  <2>2. QED
    BY <2>1, Zenon
<1> HIDE DEF below, after
<1>1. IsFiniteSet(S) /\ IsFiniteSet(G)
  <2>1. IsFiniteSet(0 .. (hi - 1)) /\ IsFiniteSet(lo .. (hi - 1))
    BY FS_Interval
  <2>2. S \in SUBSET (0 .. (hi - 1)) /\ G \in SUBSET (lo .. (hi - 1))
    BY <1>0
  <2>3. QED
    BY <2>1, <2>2, FS_Subset
<1>2. Cardinality(S) \in Nat /\ Cardinality(G) \in Nat
  BY <1>1, FS_CardinalityType
<1>3. Cardinality(S \cup {k}) = Cardinality(S) + (IF k \in S THEN 0 ELSE 1)
  <2>1. Cardinality(S \cup {k}) = IF k \in S THEN Cardinality(S) ELSE Cardinality(S) + 1
    BY <1>1, FS_AddElement
  <2>2. QED
    BY <1>2, <2>1
<1>4. ASSUME k < hi
      PROVE  Cardinality(K) = Cardinality(G) - (IF k \in G THEN 1 ELSE 0)
  <2>1. \A X : IsFiniteSet(X) =>
          Cardinality(X \ {k}) = IF k \in X THEN Cardinality(X) - 1 ELSE Cardinality(X)
    BY FS_RemoveElement
  <2>2. PICK U : U = G \ {k}
    OBVIOUS
  <2>3. Cardinality(U) = IF k \in G THEN Cardinality(G) - 1 ELSE Cardinality(G)
    BY <1>1, <2>1, <2>2
  <2>4. K = U
    BY <1>0, <1>4, <2>2
  <2>5. QED
    BY <1>2, <2>3, <2>4
<1>5. ASSUME k >= hi
      PROVE  Cardinality(K) = Cardinality(G) + (k - hi)
  <2>1. PICK A : A = hi .. (k - 1)
    OBVIOUS
  <2>2. K = G \cup A
    <3>1. ASSUME NEW x \in K PROVE x \in G \cup A
      BY <1>0, <1>5, <2>1
    <3>2. ASSUME NEW x \in G PROVE x \in K
      BY <1>0, <1>5
    <3>3. ASSUME NEW x \in A PROVE x \in K
      BY <1>0, <1>5, <2>1
    <3>4. QED
      BY <3>1, <3>2, <3>3
  <2>3. G \cap A = {}
    BY <1>0, <2>1
  <2>4. IsFiniteSet(A) /\ Cardinality(A) = k - hi
    <3>1. hi \in Int /\ k - 1 \in Int
      OBVIOUS
    <3>2. IsFiniteSet(A) /\ Cardinality(A) = IF hi > k - 1 THEN 0 ELSE (k - 1) - hi + 1
      BY <2>1, <3>1, FS_Interval
    <3>3. QED
      BY <1>5, <3>2
  <2>5. Cardinality(G \cup A) = Cardinality(G) + Cardinality(A) - Cardinality(G \cap A)
    BY <1>1, <2>4, FS_Union
  <2>6. Cardinality(G \cap A) = 0
    BY <2>3, FS_EmptySet
  <2>7. QED
    BY <1>2, <2>2, <2>4, <2>5, <2>6
<1>6. (k + 1) - 1 = k
  OBVIOUS
<1>7. Between(lo, hi, S) = G /\ T = S \cup {k}
  BY <1>0 DEF Between
<1>8. k < hi => Between(lo, hi, T) = K
  BY <1>0 DEF Between
<1>9. k >= hi => Between(lo, k + 1, T) = K
  BY <1>0, <1>6 DEF Between
<1>10. QED
  BY <1>2, <1>3, <1>4, <1>5, <1>7, <1>8, <1>9 DEF HeardMore

LEMMA HonestNew == Honest(EmptyBuffer, NewTracker)
<1>1. HeardIn(EmptyBuffer) = {} /\ Skipped(EmptyBuffer, NewTracker) = {}
  BY DEF HeardIn, Skipped, EmptyBuffer, NewTracker
<1>2. Len(EmptyBuffer.frames) = 0 /\ Cardinality({}) = 0
  BY FS_EmptySet DEF EmptyBuffer
<1>3. /\ NewTracker.lookup = {} /\ NewTracker.missing = 0
      /\ NewTracker.duplicates = 0 /\ NewTracker.out_of_order = 0
  BY DEF NewTracker
<1>4. Bounds(0, 0 - 0, NewTracker)
  BY <1>3 DEF Bounds
<1>5. QED
  BY <1>1, <1>2, <1>3, <1>4 DEF Honest

\* The bounds survive each of the four things a number can do to the counters:
\* repeat one remembered, come next or ahead, or come late.
LEMMA BoundsMove ==
  ASSUME NEW t, NEW o, NEW lost \in Nat, NEW repeats \in Int, Bounds(lost, repeats, t),
         t.missing \in Nat, t.duplicates \in Nat, t.out_of_order \in Nat
  PROVE  /\ o.missing = t.missing /\ o.duplicates = t.duplicates + 1
              /\ o.out_of_order = t.out_of_order
            => Bounds(lost, repeats + 1, o)
         /\ \A k \in Nat :
              o.missing = t.missing + k /\ o.duplicates = t.duplicates
                /\ o.out_of_order = t.out_of_order
              => Bounds(lost + k, repeats, o)
         /\ \A found, repeated \in {0, 1} :
              o.missing = t.missing /\ o.duplicates = t.duplicates
                /\ o.out_of_order = t.out_of_order + 1 /\ found + repeated <= 1
              => Bounds(lost - found, repeats + repeated, o)
BY DEF Bounds

\* Observing what the buffer has taken keeps the counters honest.
LEMMA HonestObserved ==
  ASSUME NEW b \in Buffer, NEW t \in Tracker, WindowAgrees(t), Honest(b, t),
         Len(b.frames) = 0 => /\ t.expected = NoSequence /\ t.missing = 0
                              /\ t.duplicates = 0 /\ t.out_of_order = 0,
         Len(b.frames) # 0 => t.expected \in Nat,
         NEW f \in Frames, NEW d \in Nat, NEW c, c = Appended(b, f),
         NEW o, o = Observed(t, f.sequence_number, d)
  PROVE  Honest(c, o)
<1> DEFINE n == f.sequence_number
           H == HeardIn(b)
<1>1. n \in Nat /\ NoSequence \notin Nat
  BY AudioRingBufferAssumption, JitterTrackerAssumption
<1>2. /\ Len(b.frames) \in Nat /\ Len(c.frames) = Len(b.frames) + 1
      /\ Len(b.frames) > 0 => c.frames[1] = b.frames[1]
      /\ Len(b.frames) = 0 => c.frames[1] = f
  <2>1. Len(b.frames) \in Nat
    BY DEF Buffer
  <2>2. /\ Len(Appended(b, f).frames) = Len(b.frames) + 1
        /\ Len(b.frames) > 0 => Appended(b, f).frames[1] = b.frames[1]
        /\ Len(b.frames) = 0 => Appended(b, f).frames[1] = f
    BY AppendedBuffer
  <2>3. QED
    BY <2>1, <2>2
<1>3. HeardIn(c) = H \cup {n}
  BY AppendedHeard
<1>4. /\ t.missing \in Nat /\ t.duplicates \in Nat /\ t.out_of_order \in Nat
  BY DEF Tracker
<1>5. o.lookup \subseteq HeardIn(c)
  BY <1>1, <1>3, ObservedCounters DEF Honest
<1>6. CASE Len(b.frames) = 0
  <2>1. /\ t.expected = NoSequence /\ t.missing = 0 /\ t.duplicates = 0 /\ t.out_of_order = 0
    BY <1>6
  <2>2. H = {}
    BY <1>1, <2>1 DEF Honest
  <2>3. ~Duplicate(t, n)
    BY <2>2 DEF Duplicate, Honest
  <2>4. o.expected = n + 1 /\ o.missing = 0 /\ o.duplicates = 0 /\ o.out_of_order = 0
    BY <1>1, <2>1, <2>3, ObservedCounters
  <2>5. HeardIn(c) = {n} /\ Skipped(c, o) = {}
    <3>1. HeardIn(c) = {n}
      BY <1>3, <2>2
    <3>2. o.expected # NoSequence /\ c.frames[1].sequence_number = n
      BY <1>1, <1>2, <1>6, <2>4
    <3>3. (n .. (o.expected - 1)) \ {n} = {}
      BY <1>1, <2>4
    <3>4. QED
      BY <3>1, <3>2, <3>3 DEF Skipped
  <2>6. Cardinality({n}) = 1 /\ Cardinality({}) = 0
    BY FS_Singleton, FS_EmptySet
  <2>7. \A m \in HeardIn(c) : m \in Nat /\ o.expected \in Nat /\ m < o.expected
    BY <1>1, <2>4, <2>5
  <2>8. Bounds(0, Len(c.frames) - 1, o)
    BY <1>2, <1>6, <2>4 DEF Bounds
  <2>9. QED
    BY <1>5, <2>5, <2>6, <2>7, <2>8 DEF Honest
<1>7. CASE Len(b.frames) # 0
  <2> DEFINE first == b.frames[1].sequence_number
             e     == t.expected
             G     == Skipped(b, t)
             K     == Skipped(c, o)
             L     == Len(b.frames)
  <2>1. e \in Nat /\ e # NoSequence
    BY <1>1, <1>7
  <2>2. H \in SUBSET Nat /\ \A m \in H : m < e
    BY DEF Honest
  <2>3. first \in Nat /\ first <= e /\ c.frames[1].sequence_number = first
    <3>1. 1 \in DOMAIN b.frames
      BY <1>2, <1>7 DEF Buffer
    <3>2. first \in H
      BY <3>1 DEF HeardIn
    <3>3. QED
      BY <1>2, <1>7, <2>1, <2>2, <3>2
  <2>4. G = (first .. (e - 1)) \ H
    BY <2>1 DEF Skipped
  <2>5. Bounds(Cardinality(G), L - Cardinality(H), t)
    BY DEF Honest
  <2>6. L \in Nat /\ Len(c.frames) = L + 1
    BY <1>2
  <2>7. ASSUME o.expected \in Nat
        PROVE  K = (first .. (o.expected - 1)) \ (H \cup {n})
    BY <1>1, <1>3, <2>3, <2>7 DEF Skipped
  <2>8. /\ Duplicate(t, n) =>
             /\ n \in H /\ o.expected = e /\ o.missing = t.missing
             /\ o.duplicates = t.duplicates + 1 /\ o.out_of_order = t.out_of_order
        /\ ~Duplicate(t, n) /\ n >= e =>
             /\ o.expected = n + 1 /\ o.missing = t.missing + (n - e)
             /\ o.duplicates = t.duplicates /\ o.out_of_order = t.out_of_order
        /\ ~Duplicate(t, n) /\ n < e =>
             /\ o.expected = e /\ o.missing = t.missing
             /\ o.duplicates = t.duplicates /\ o.out_of_order = t.out_of_order + 1
    <3>1. Duplicate(t, n) => n \in H
      BY DEF Duplicate, Honest
    <3>2. QED
      BY <1>1, <2>1, <3>1, ObservedCounters
  <2>9. /\ o.expected \in Nat /\ e <= o.expected /\ n < o.expected
        /\ n < e => o.expected = e
        /\ n >= e => o.expected = n + 1 /\ ~Duplicate(t, n) /\ n \notin H
    BY <1>1, <2>1, <2>2, <2>8
  <2>10. n \in G => n \notin H
    BY <2>4
  <2>11. /\ n < e => K = (first .. (e - 1)) \ (H \cup {n})
         /\ n >= e => K = (first .. n) \ (H \cup {n})
    <3>1. (n + 1) - 1 = n
      BY <1>1
    <3>2. QED
      BY <2>7, <2>9, <3>1
  <2>12. \A m \in HeardIn(c) : m \in Nat /\ o.expected \in Nat /\ m < o.expected
    BY <1>1, <1>3, <2>1, <2>2, <2>9
  <2> HIDE DEF first, e, G, K, L, n, H
  <2>13. /\ Cardinality(H) \in Nat /\ Cardinality(G) \in Nat
         /\ Cardinality(HeardIn(c)) = Cardinality(H) + (IF n \in H THEN 0 ELSE 1)
         /\ n < e => Cardinality(K) = Cardinality(G) - (IF n \in G THEN 1 ELSE 0)
         /\ n >= e => Cardinality(K) = Cardinality(G) + (n - e)
    <3>1. PICK J : J = H \cup {n}
      OBVIOUS
    <3>2. HeardMore(first, e, n, H, J)
      BY <1>1, <2>1, <2>2, <2>3, <3>1, GapAfter
    <3>3. /\ Between(first, e, H) = G
          /\ n < e => Between(first, e, J) = K
          /\ n >= e => Between(first, n + 1, J) = K
      <4>1. (n + 1) - 1 = n
        BY <1>1
      <4>2. QED
        BY <2>4, <2>11, <3>1, <4>1 DEF Between
    <3>4. HeardIn(c) = J
      BY <1>3, <3>1
    <3>5. QED
      BY <3>2, <3>3, <3>4 DEF HeardMore
  <2>14. PICK lost \in Nat, repeats \in Int :
           lost = Cardinality(G) /\ repeats = L - Cardinality(H) /\ Bounds(lost, repeats, t)
    BY <2>5, <2>6, <2>13
  <2>15. Bounds(Cardinality(K), Len(c.frames) - Cardinality(HeardIn(c)), o)
    <3>1. CASE Duplicate(t, n)
      <4>1. Bounds(lost, repeats + 1, o)
        BY <1>4, <2>8, <2>14, <3>1, BoundsMove
      <4>2. n \in H /\ n < e /\ n \notin G
        BY <2>2, <2>8, <2>10, <3>1
      <4>3. Cardinality(K) = lost /\ Len(c.frames) - Cardinality(HeardIn(c)) = repeats + 1
        BY <2>6, <2>13, <2>14, <4>2
      <4>4. QED
        BY <4>1, <4>3
    <3>2. CASE ~Duplicate(t, n) /\ n >= e
      <4>1. n - e \in Nat
        BY <1>1, <2>1, <3>2
      <4>2. Bounds(lost + (n - e), repeats, o)
        BY <1>4, <2>8, <2>14, <3>2, <4>1, BoundsMove
      <4>3. Cardinality(K) = lost + (n - e) /\ Len(c.frames) - Cardinality(HeardIn(c)) = repeats
        BY <2>6, <2>9, <2>13, <2>14, <3>2
      <4>4. QED
        BY <4>2, <4>3
    <3>3. CASE ~Duplicate(t, n) /\ n < e
      <4>1. PICK found \in {0, 1}, repeated \in {0, 1} :
              /\ found = IF n \in G THEN 1 ELSE 0
              /\ repeated = IF n \in H THEN 1 ELSE 0
              /\ found + repeated <= 1
        BY <2>10
      <4>2. Bounds(lost - found, repeats + repeated, o)
        BY <1>4, <2>8, <2>14, <3>3, <4>1, BoundsMove
      <4>3. /\ Cardinality(K) = lost - found
            /\ Len(c.frames) - Cardinality(HeardIn(c)) = repeats + repeated
        BY <2>6, <2>13, <2>14, <3>3, <4>1
      <4>4. QED
        BY <4>2, <4>3
    <3>4. QED
      BY <1>1, <2>1, <3>1, <3>2, <3>3
  <2>16. QED
    BY <1>5, <2>12, <2>15 DEF Honest, K
<1>8. QED
  BY <1>6, <1>7

-----------------------------------------------------------------------------
\* The totals of a buffer, on the buffer alone.
Totals(b) ==
  /\ b.depth_ms = SumFunction([i \in DOMAIN b.frames |-> b.frames[i].duration_ms])
  /\ b.byte_count = SumFunction([i \in DOMAIN b.frames |-> b.frames[i].payload])

LEMMA TotalsEmpty == Totals(EmptyBuffer)
<1>1. EmptyBuffer.frames = <<>> /\ EmptyBuffer.depth_ms = 0 /\ EmptyBuffer.byte_count = 0
  BY DEF EmptyBuffer
<1>2. \A f : DOMAIN f = {} => SumFunction(f) = 0
  BY SumEmpty DEF SumFunction
<1>3. /\ DOMAIN [i \in DOMAIN EmptyBuffer.frames |-> EmptyBuffer.frames[i].duration_ms] = {}
      /\ DOMAIN [i \in DOMAIN EmptyBuffer.frames |-> EmptyBuffer.frames[i].payload] = {}
  BY <1>1
<1>4. QED
  BY <1>1, <1>2, <1>3 DEF Totals

LEMMA TotalsAppended ==
  ASSUME NEW b \in Buffer, Totals(b), NEW f \in Frames
  PROVE  Totals(Appended(b, f))
<1>1. PICK w, n : w = b.frames /\ n = Len(w) /\ n \in Nat
  BY DEF Buffer
<1>2. PICK v : v = Append(w, f)
  OBVIOUS
<1>3. /\ DOMAIN w = 1..n /\ DOMAIN v = 1..(n + 1)
      /\ v[n + 1] = f
      /\ \A i \in 1..n : w[i] \in Frames /\ v[i] = w[i]
  BY <1>1, <1>2 DEF Buffer
<1>4. /\ Appended(b, f).frames = v
      /\ Appended(b, f).depth_ms = b.depth_ms + f.duration_ms
      /\ Appended(b, f).byte_count = b.byte_count + f.payload
  BY <1>1, <1>2 DEF Appended
<1>5. \A x \in Frames : x.duration_ms \in Nat /\ x.payload \in Nat
  BY AudioRingBufferAssumption
<1>6. SumFunction([i \in DOMAIN v |-> v[i].duration_ms]) =
        SumFunction([i \in DOMAIN w |-> w[i].duration_ms]) + f.duration_ms
  <2>1. PICK g, h : /\ g = [i \in DOMAIN w |-> w[i].duration_ms]
                    /\ h = [i \in DOMAIN v |-> v[i].duration_ms]
    OBVIOUS
  <2>2. /\ DOMAIN g = 1..n /\ DOMAIN h = 1..(n + 1)
        /\ \A i \in 1..n : g[i] \in Nat /\ h[i] = g[i]
        /\ h[n + 1] \in Nat /\ h[n + 1] = f.duration_ms
    BY <1>1, <1>3, <1>5, <2>1
  <2>3. SumFunction(h) = SumFunction(g) + h[n + 1]
    BY <1>1, <2>2, SumAppended
  <2>4. QED
    BY <2>1, <2>2, <2>3
<1>7. SumFunction([i \in DOMAIN v |-> v[i].payload]) =
        SumFunction([i \in DOMAIN w |-> w[i].payload]) + f.payload
  <2>1. PICK g, h : /\ g = [i \in DOMAIN w |-> w[i].payload]
                    /\ h = [i \in DOMAIN v |-> v[i].payload]
    OBVIOUS
  <2>2. /\ DOMAIN g = 1..n /\ DOMAIN h = 1..(n + 1)
        /\ \A i \in 1..n : g[i] \in Nat /\ h[i] = g[i]
        /\ h[n + 1] \in Nat /\ h[n + 1] = f.payload
    BY <1>1, <1>3, <1>5, <2>1
  <2>3. SumFunction(h) = SumFunction(g) + h[n + 1]
    BY <1>1, <2>2, SumAppended
  <2>4. QED
    BY <2>1, <2>2, <2>3
<1>8. /\ b.depth_ms = SumFunction([i \in DOMAIN w |-> w[i].duration_ms])
      /\ b.byte_count = SumFunction([i \in DOMAIN w |-> w[i].payload])
  BY <1>1 DEF Totals
<1>9. QED
  BY <1>4, <1>6, <1>7, <1>8 DEF Totals

-----------------------------------------------------------------------------
\* The inductive invariant, session by session: a pair of buffer and tracker
\* that agree.  An absent one counts as empty, which is how the service
\* treats it.
Agree(b, t) ==
  IF Len(b.frames) = 0
  THEN t.expected = NoSequence /\ t.missing = 0 /\ t.duplicates = 0 /\ t.out_of_order = 0
  ELSE /\ t.expected \in Nat
       /\ t.queue_depth = b.depth_ms
       /\ t.missing + Len(b.frames) =
            (t.expected - b.frames[1].sequence_number) + t.duplicates + t.out_of_order

PairInv(b, t) ==
  /\ b \in Buffer /\ Len(b.frames) <= MaxFrames /\ b.depth_ms <= MaxDepthMs
  /\ t \in Tracker /\ WindowAgrees(t)
  /\ Agree(b, t)
  /\ Honest(b, t)
  /\ Totals(b)

IngestInv ==
  /\ DOMAIN buffers \subseteq SessionIds /\ DOMAIN trackers \subseteq SessionIds
  /\ \A s \in SessionIds : PairInv(BufferOf(s), TrackerOf(s))

LEMMA NewPair == PairInv(EmptyBuffer, NewTracker)
<1>1. EmptyBuffer.depth_ms <= MaxDepthMs /\ Len(EmptyBuffer.frames) <= MaxFrames
  BY EmptyIsBuffer, AudioRingBufferAssumption DEF EmptyBuffer
<1>2. Agree(EmptyBuffer, NewTracker)
  BY EmptyIsBuffer DEF Agree, NewTracker
<1>3. QED
  BY <1>1, <1>2, EmptyIsBuffer, NewIsTracker, HonestNew, TotalsEmpty DEF PairInv

LEMMA AcceptedPair ==
  ASSUME NEW b, NEW t, PairInv(b, t), NEW f \in Frames, HasRoom(b, f)
  PROVE  PairInv(Appended(b, f),
                 Observed(t, f.sequence_number, Appended(b, f).depth_ms))
<1> DEFINE c == Appended(b, f)
           o == Observed(t, f.sequence_number, c.depth_ms)
<1>1. /\ b \in Buffer /\ t \in Tracker /\ WindowAgrees(t) /\ Agree(b, t)
      /\ f.sequence_number \in Nat /\ f.duration_ms \in Nat
      /\ Len(b.frames) \in Nat /\ b.depth_ms \in Nat
      /\ MaxFrames \in Nat /\ MaxDepthMs \in Nat
      /\ b.frames \in Seq(Frames)
  BY AudioRingBufferAssumption DEF PairInv, Buffer
<1>2. /\ c \in Buffer /\ Len(c.frames) = Len(b.frames) + 1
      /\ Len(b.frames) > 0 => c.frames[1] = b.frames[1]
      /\ Len(b.frames) = 0 => c.frames[1] = f
      /\ c.depth_ms = b.depth_ms + f.duration_ms
  BY <1>1, AppendedBuffer
<1> HIDE DEF c
<1>3. Len(c.frames) <= MaxFrames /\ c.depth_ms <= MaxDepthMs /\ c.depth_ms \in Nat
  BY <1>1, <1>2 DEF HasRoom
<1>4. /\ o \in Tracker /\ WindowAgrees(o) /\ o.queue_depth = c.depth_ms
      /\ Explained(t, o, f.sequence_number)
  BY <1>1, <1>3, ObservedTracker
<1> HIDE DEF o
<1>5. Agree(c, o)
  <2>1. /\ t.missing \in Nat /\ t.duplicates \in Nat /\ t.out_of_order \in Nat
        /\ o.missing \in Nat /\ o.duplicates \in Nat /\ o.out_of_order \in Nat
    BY <1>1, <1>4 DEF Tracker
  <2>2. CASE Len(b.frames) = 0
    <3>1. /\ t.expected = NoSequence /\ t.missing = 0 /\ t.duplicates = 0
          /\ t.out_of_order = 0
      BY <1>1, <2>2 DEF Agree
    <3>2. Len(c.frames) = 1 /\ c.frames[1] = f
      BY <1>2, <2>2
    <3>3. /\ o.missing = 0 /\ o.duplicates = 0 /\ o.out_of_order = 0
          /\ o.expected = f.sequence_number + 1
      BY <1>4, <3>1 DEF Explained
    <3>4. QED
      BY <1>1, <1>4, <3>2, <3>3 DEF Agree
  <2>3. CASE Len(b.frames) # 0
    <3>1. /\ t.expected \in Nat
          /\ t.missing + Len(b.frames) =
              (t.expected - b.frames[1].sequence_number) + t.duplicates + t.out_of_order
      BY <1>1, <2>3 DEF Agree
    <3>2. c.frames[1] = b.frames[1] /\ Len(c.frames) # 0
      BY <1>1, <1>2, <2>3
    <3>3. b.frames[1].sequence_number \in Nat
      <4>1. b.frames[1] \in Frames
        BY <1>1, <2>3
      <4>2. QED
        BY <4>1, AudioRingBufferAssumption
    <3>4. t.expected # NoSequence
      BY <3>1, JitterTrackerAssumption
    <3>5. o.missing + Len(c.frames) =
              (o.expected - b.frames[1].sequence_number) + o.duplicates + o.out_of_order
      <4>1. Len(c.frames) = Len(b.frames) + 1 /\ Len(b.frames) \in Int
        BY <1>1, <1>2
      <4>2. o.missing + (Len(b.frames) + 1) =
              (o.expected - b.frames[1].sequence_number) + o.duplicates + o.out_of_order
        BY SMTT(30), <1>1, <1>4, <3>1, <3>3, <4>1, Balance
      <4>3. QED
        BY <4>1, <4>2
    <3>6. QED
      BY <1>4, <3>2, <3>5 DEF Agree, Explained
  <2>4. QED
    BY <2>2, <2>3
<1>6. Honest(c, o)
  <2>1. Honest(b, t)
    BY DEF PairInv
  <2>2. /\ Len(b.frames) = 0 => /\ t.expected = NoSequence /\ t.missing = 0
                                /\ t.duplicates = 0 /\ t.out_of_order = 0
        /\ Len(b.frames) # 0 => t.expected \in Nat
    BY <1>1 DEF Agree
  <2>3. QED
    BY <1>1, <1>3, <2>1, <2>2, HonestObserved DEF c, o
<1>7. Totals(c)
  BY <1>1, TotalsAppended DEF PairInv, c
<1>8. QED
  BY <1>2, <1>3, <1>4, <1>5, <1>6, <1>7 DEF PairInv, c, o

LEMMA DroppedPair ==
  ASSUME NEW b, NEW t, PairInv(b, t), NEW count \in Nat
  PROVE  PairInv(b, Dropped(t, count))
<1> DEFINE o == Dropped(t, count)
<1>1. o \in Tracker /\ t \in Tracker
  BY DroppedTracker DEF PairInv
<1>2. /\ o.expected = t.expected /\ o.recent = t.recent /\ o.lookup = t.lookup
      /\ o.missing = t.missing /\ o.duplicates = t.duplicates
      /\ o.out_of_order = t.out_of_order /\ o.queue_depth = t.queue_depth
  BY <1>1 DEF Dropped, Tracker
<1> HIDE DEF o
<1>3. WindowAgrees(o) /\ Agree(b, o) /\ Honest(b, o)
  BY <1>2 DEF PairInv, WindowAgrees, Agree, Honest, Skipped, Bounds
<1>4. QED
  BY <1>1, <1>3 DEF PairInv, o

-----------------------------------------------------------------------------
LEMMA IngestInitial == Init => IngestInv
<1> SUFFICES ASSUME Init PROVE IngestInv
  OBVIOUS
<1>1. DOMAIN buffers = {} /\ DOMAIN trackers = {}
  BY DEF Init
<1>2. QED
  BY <1>1, NewPair DEF IngestInv, BufferOf, TrackerOf

\* It is enough to look at the session a step is about.
LEMMA OnePair ==
  ASSUME IngestInv, NEW s \in SessionIds,
         DOMAIN buffers' \subseteq DOMAIN buffers \cup {s},
         DOMAIN trackers' \subseteq DOMAIN trackers \cup {s},
         \A x \in SessionIds \ {s} : BufferOf(x)' = BufferOf(x) /\ TrackerOf(x)' = TrackerOf(x),
         PairInv(BufferOf(s)', TrackerOf(s)')
  PROVE  IngestInv'
<1>1. ASSUME NEW x \in SessionIds PROVE PairInv(BufferOf(x), TrackerOf(x))'
  <2>1. CASE x = s
    BY <2>1 DEF PairInv, Agree, WindowAgrees, Honest, Skipped, HeardIn, Bounds, Totals
  <2>2. CASE x # s
    <3>1. PairInv(BufferOf(x), TrackerOf(x))
      BY DEF IngestInv
    <3>2. BufferOf(x)' = BufferOf(x) /\ TrackerOf(x)' = TrackerOf(x)
      BY <2>2
    <3>3. QED
      BY ZenonT(40), <3>1, <3>2 DEF PairInv, Agree, WindowAgrees, Honest, Skipped, HeardIn, Bounds, Totals
  <2>3. QED
    BY <2>1, <2>2
<1>2. QED
  BY <1>1 DEF IngestInv

LEMMA IngestStep == IngestInv /\ [Next]_vars => IngestInv'
<1> SUFFICES ASSUME IngestInv, [Next]_vars PROVE IngestInv'
  OBVIOUS
<1>1. ASSUME NEW s \in SessionIds, NEW f \in Frames, AcceptFrame(s, f)
      PROVE  IngestInv'
  <2> DEFINE c == Appended(BufferOf(s), f)
             o == Observed(TrackerOf(s), f.sequence_number, c.depth_ms)
  <2>1. HasRoom(BufferOf(s), f) /\ buffers' = With(buffers, s, c) /\ trackers' = With(trackers, s, o)
    BY <1>1 DEF AcceptFrame
  <2>2. PairInv(c, o)
    BY <2>1, AcceptedPair DEF IngestInv
  <2> HIDE DEF c, o
  <2>3. /\ DOMAIN buffers' = DOMAIN buffers \cup {s}
        /\ DOMAIN trackers' = DOMAIN trackers \cup {s}
        /\ \A x \in SessionIds \ {s} : BufferOf(x)' = BufferOf(x) /\ TrackerOf(x)' = TrackerOf(x)
        /\ BufferOf(s)' = c /\ TrackerOf(s)' = o
    BY <2>1 DEF With, BufferOf, TrackerOf
  <2>4. QED
    BY <2>2, <2>3, OnePair
<1>2. ASSUME NEW s \in SessionIds, NEW f \in Frames, RefuseFrame(s, f)
      PROVE  IngestInv'
  <2>1. buffers' = With(buffers, s, BufferOf(s)) /\ trackers' = trackers
    BY <1>2 DEF RefuseFrame
  <2>2. /\ DOMAIN buffers' = DOMAIN buffers \cup {s}
        /\ \A x \in SessionIds : BufferOf(x)' = BufferOf(x) /\ TrackerOf(x)' = TrackerOf(x)
    BY <2>1 DEF With, BufferOf, TrackerOf
  <2>3. PairInv(BufferOf(s)', TrackerOf(s)')
    BY <2>2 DEF IngestInv
  <2>4. QED
    BY <2>1, <2>2, <2>3, OnePair
<1>3. ASSUME NEW s \in SessionIds, NEW count \in 1..MaxDropped,
             RecordDroppedDiagnosticFrames(s, count)
      PROVE  IngestInv'
  <2> DEFINE o == Dropped(TrackerOf(s), count)
  <2>1. trackers' = With(trackers, s, o) /\ buffers' = buffers /\ count \in Nat
    BY <1>3, AudioIngestAssumption DEF RecordDroppedDiagnosticFrames
  <2>2. PairInv(BufferOf(s), o)
    BY <2>1, DroppedPair DEF IngestInv
  <2> HIDE DEF o
  <2>3. /\ DOMAIN trackers' = DOMAIN trackers \cup {s}
        /\ \A x \in SessionIds \ {s} : BufferOf(x)' = BufferOf(x) /\ TrackerOf(x)' = TrackerOf(x)
        /\ BufferOf(s)' = BufferOf(s) /\ TrackerOf(s)' = o
    BY <2>1 DEF With, BufferOf, TrackerOf
  <2>4. QED
    BY <2>1, <2>2, <2>3, OnePair
<1>4. ASSUME NEW s \in SessionIds, ClearSession(s) PROVE IngestInv'
  <2>1. /\ DOMAIN buffers' = DOMAIN buffers \ {s} /\ DOMAIN trackers' = DOMAIN trackers \ {s}
        /\ \A x \in SessionIds \ {s} : BufferOf(x)' = BufferOf(x) /\ TrackerOf(x)' = TrackerOf(x)
        /\ BufferOf(s)' = EmptyBuffer /\ TrackerOf(s)' = NewTracker
    BY <1>4 DEF ClearSession, Without, BufferOf, TrackerOf
  <2>2. QED
    BY <2>1, NewPair, OnePair
<1>5. CASE UNCHANGED vars
  <2>1. buffers' = buffers /\ trackers' = trackers
    BY <1>5 DEF vars
  <2>2. ASSUME NEW x \in SessionIds PROVE PairInv(BufferOf(x), TrackerOf(x))'
    <3>1. BufferOf(x)' = BufferOf(x) /\ TrackerOf(x)' = TrackerOf(x)
      BY <2>1 DEF BufferOf, TrackerOf
    <3>2. PairInv(BufferOf(x), TrackerOf(x))
      BY DEF IngestInv
    <3>3. QED
      BY <3>1, <3>2 DEF PairInv, Agree, WindowAgrees, Honest, Skipped, HeardIn, Bounds, Totals
  <2>3. QED
    BY <2>1, <2>2 DEF IngestInv
<1>6. QED
  BY <1>1, <1>2, <1>3, <1>4, <1>5 DEF Next

THEOREM IngestInvariant == Spec => []IngestInv
BY IngestInitial, IngestStep, PTL DEF Spec

\* What each session's pair says of the two stores.
LEMMA StoresHold ==
  ASSUME IngestInv
  PROVE  TypeOK /\ WithinLimits /\ WindowsAgree /\ ObservedOnce /\ HonestStatistics
         /\ TotalsAddUp
<1>1. \A s \in DOMAIN buffers : s \in SessionIds /\ BufferOf(s) = buffers[s]
  BY DEF IngestInv, BufferOf
<1>2. \A s \in DOMAIN trackers : s \in SessionIds /\ TrackerOf(s) = trackers[s]
  BY DEF IngestInv, TrackerOf
<1>3. TypeOK
  BY <1>1, <1>2 DEF TypeOK, IngestInv, PairInv
<1>4. WithinLimits
  BY <1>1 DEF WithinLimits, IngestInv, PairInv
<1>5. WindowsAgree
  BY <1>2 DEF WindowsAgree, IngestInv, PairInv
<1>6. ASSUME NEW s \in SessionIds
      PROVE  LET b == BufferOf(s)
                 t == TrackerOf(s)
             IN IF Len(b.frames) = 0
                THEN t.expected = NoSequence /\ t.missing + t.duplicates + t.out_of_order = 0
                ELSE /\ t.expected # NoSequence
                     /\ t.queue_depth = b.depth_ms
                     /\ t.missing + Len(b.frames) =
                         (t.expected - b.frames[1].sequence_number) + t.duplicates + t.out_of_order
  <2>1. Agree(BufferOf(s), TrackerOf(s))
    BY DEF IngestInv, PairInv
  <2>2. QED
    BY <2>1, JitterTrackerAssumption DEF Agree
<1>7. HonestStatistics
  <2>1. ASSUME NEW s \in SessionIds
        PROVE  /\ Honest(BufferOf(s), TrackerOf(s))
               /\ Heard(s) = HeardIn(BufferOf(s))
               /\ Gap(s) = Skipped(BufferOf(s), TrackerOf(s))
    <3>1. Honest(BufferOf(s), TrackerOf(s))
      BY DEF IngestInv, PairInv
    <3>2. Heard(s) = HeardIn(BufferOf(s))
      BY DEF Heard, HeardIn
    <3>3. QED
      BY <3>1, <3>2 DEF Gap, Skipped
  <2>2. QED
    BY <2>1 DEF HonestStatistics, Honest, Bounds
<1>8. TotalsAddUp
  BY <1>1 DEF TotalsAddUp, Totals, IngestInv, PairInv
<1>9. QED
  BY <1>3, <1>4, <1>5, <1>6, <1>7, <1>8 DEF ObservedOnce

\* The stores are well typed and no counter ever goes negative.
THEOREM TypeCorrect == Spec => []TypeOK
BY IngestInvariant, StoresHold, PTL

\* No session holds more frames or milliseconds than the configuration allows.
THEOREM BufferBounded == Spec => []WithinLimits
BY IngestInvariant, StoresHold, PTL

\* The two structures of the jitter window never come apart, whatever numbers
\* arrive and however small the window is.
THEOREM WindowCorrect == Spec => []WindowsAgree
BY IngestInvariant, StoresHold, PTL

\* Buffer and tracker agree on what was accepted: the counters explain the
\* distance from the first buffered number to the expected one.
THEOREM AccountedFor == Spec => []ObservedOnce
BY IngestInvariant, StoresHold, PTL

\* What the counters say of loss and repetition is right as far as a window of
\* any size lets them know: what is missing lies between missing less
\* out_of_order and missing, what is repeated between duplicates and duplicates
\* plus out_of_order (jitter.py:56-77).
THEOREM CountersHonest == Spec => []HonestStatistics
BY IngestInvariant, StoresHold, PTL

\* The duration and the size a buffer reports are the sums over the frames it
\* holds, however many (ring_buffer.py:66-105).
THEOREM TotalsCorrect == Spec => []TotalsAddUp
BY IngestInvariant, StoresHold, PTL

=============================================================================
