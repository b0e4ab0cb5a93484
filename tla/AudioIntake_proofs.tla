------------------------- MODULE AudioIntake_proofs -------------------------
(***************************************************************************)
(* The parser and the ingest together, for all limits, all messages and    *)
(* any number of sessions: no exception of the header model escapes, the   *)
(* bytes held follow the milliseconds held, and what the ingest sees is a  *)
(* behaviour of AudioIngest, so that what is proved of it holds here.      *)
(***************************************************************************)
EXTENDS AudioIntake, TLAPS

\* The checks a message has passed when it is accepted.
LEMMA AcceptsMeans ==
  ASSUME NEW d, Accepts(d)
  PROVE  /\ d.length >= HeaderLength
         /\ InRange(d.sample_rate, MinSampleRate, MaxSampleRate)
         /\ InRange(d.channels, MinChannels, MaxChannels)
         /\ InRange(d.duration_ms, MinDuration, MaxDuration)
         /\ WholeSamples(d) /\ PayloadLength(d) = ExpectedPayloadLength(d)
<1>1. DOMAIN Checks(d) = 1..11
  BY DEF Checks
<1>2. /\ Checks(d)[1].holds /\ Checks(d)[6].holds /\ Checks(d)[7].holds
      /\ Checks(d)[8].holds /\ Checks(d)[10].holds /\ Checks(d)[11].holds
  BY <1>1 DEF Accepts
<1>3. QED
  BY <1>2 DEF Checks

\* A message that is not accepted has a first check it fails.
LEMMA SomeFirstFailed ==
  ASSUME NEW d, ~Accepts(d)
  PROVE  \E i \in 1..11 : FirstFailed(d, i)
<1> DEFINE P(i) == Checks(d)[i].holds
<1>1. DOMAIN Checks(d) = 1..11
  BY DEF Checks
<1>2. SUFFICES ASSUME \A i \in 1..11 : ~FirstFailed(d, i) PROVE FALSE
  OBVIOUS
<1>3. \A i \in 1..11 : P(i) \/ \E j \in 1..(i - 1) : ~P(j)
  BY <1>2 DEF FirstFailed
<1>4. P(1) /\ P(2) /\ P(3) /\ P(4)
  BY <1>3
<1>5. P(5) /\ P(6) /\ P(7) /\ P(8)
  BY <1>3, <1>4
<1>6. P(9) /\ P(10) /\ P(11)
  BY <1>3, <1>4, <1>5
<1>7. \A i \in 1..11 : P(i)
  BY <1>4, <1>5, <1>6
<1>8. QED
  BY <1>1, <1>7 DEF Accepts

\* What the range checks let through, the header model lets through.
LEMMA RaisedIsCode ==
  ASSUME NEW d \in Message, ~Accepts(d)
  PROVE  Raised(d) # "ValidationError"
<1>1. DOMAIN Checks(d) = 1..11
  BY DEF Checks
<1> DEFINE i == CHOOSE i \in DOMAIN Checks(d) : FirstFailed(d, i)
<1>2. i \in 1..11 /\ FirstFailed(d, i)
  BY SomeFirstFailed, <1>1
<1>3. i # 9
  <2>1. SUFFICES ASSUME i = 9 PROVE FALSE
    OBVIOUS
  <2>2. ~Checks(d)[9].holds /\ Checks(d)[6].holds /\ Checks(d)[7].holds
    <3>1. FirstFailed(d, 9)
      BY <1>2, <2>1
    <3>2. QED
      BY <3>1 DEF FirstFailed
  <2>3. /\ ~HeaderValid(d)
        /\ InRange(d.sample_rate, MinSampleRate, MaxSampleRate)
        /\ InRange(d.channels, MinChannels, MaxChannels)
    BY <2>2 DEF Checks
  <2>4. QED
    BY <2>3, AudioFrameAssumption DEF Message, InRange, HeaderValid, MinChannels
<1>4. Raised(d) = Checks(d)[i].code
  BY DEF Raised
<1>5. \A j \in 1..11 : Checks(d)[j].code = "ValidationError" => j = 9
  BY DEF Checks
<1>6. QED
  BY <1>2, <1>3, <1>4, <1>5

\* Products of naturals are monotone.
LEMMA Monotone ==
  ASSUME NEW a \in Nat, NEW b \in Nat, NEW c \in Nat, a <= b
  PROVE  a * c <= b * c /\ a * c \in Nat /\ b * c \in Nat
<1>1. PICK k \in Nat : b = a + k
  <2>1. b - a \in Nat /\ b = a + (b - a)
    OBVIOUS
  <2>2. QED
    BY <2>1
<1>2. a * c \in Nat /\ k * c \in Nat /\ b * c = a * c + k * c
  BY <1>1
<1>3. QED
  BY <1>2

\* The bytes a millisecond of the thinnest and of the richest stream takes,
\* times a thousand.
Least == MinSampleRate * MinChannels * BytesPerSample
Most  == MaxSampleRate * MaxChannels * BytesPerSample

\* The payload of a frame lies between the two.
LEMMA FrameBytes ==
  ASSUME NEW f \in Frames
  PROVE  /\ f.sequence_number \in Nat /\ f.duration_ms \in Nat \ {0} /\ f.payload \in Nat
         /\ 1000 * f.payload <= f.duration_ms * Most
         /\ f.duration_ms * Least <= 1000 * f.payload
<1>1. PICK d \in Messages : Accepts(d) /\ f = FrameOf(d)
  BY DEF Frames
<1> DEFINE r == d.sample_rate
           c == d.channels
           t == d.duration_ms
           n == (r * t) \div 1000
<1>2. /\ d \in Message /\ r \in Nat /\ c \in Nat /\ t \in Nat \ {0} /\ d.length \in Nat
      /\ d.sequence_number \in Nat
      /\ MinSampleRate <= r /\ r <= MaxSampleRate /\ 1 <= c /\ c <= MaxChannels
  BY <1>1, AcceptsMeans, AudioIntakeAssumption
     DEF Message, InRange, MinChannels, MinDuration
<1>3. r * t \in Nat /\ (r * t) % 1000 = 0 /\ f.payload = n * c * 2
  BY <1>1, <1>2, AcceptsMeans
     DEF WholeSamples, SampleMilliseconds, ExpectedPayloadLength, FrameOf, BytesPerSample
<1>4. n \in Nat /\ 1000 * n = r * t
  BY <1>3
<1>5. n * c \in Nat /\ f.payload \in Nat /\ 1000 * f.payload = (1000 * n) * (c * 2)
  BY <1>2, <1>3, <1>4
<1>6. 1000 * f.payload = (r * t) * (c * 2)
  BY <1>4, <1>5
<1>7. (r * t) * (c * 2) <= (MaxSampleRate * t) * (MaxChannels * 2)
  <2>1. r * t <= MaxSampleRate * t /\ MaxSampleRate * t \in Nat
    BY <1>2, Monotone, AudioFrameAssumption
  <2>2. (r * t) * (c * 2) <= (MaxSampleRate * t) * (c * 2)
    BY <1>2, <1>3, <2>1, Monotone
  <2>3. (c * 2) * (MaxSampleRate * t) <= (MaxChannels * 2) * (MaxSampleRate * t)
    BY <1>2, <2>1, Monotone, AudioFrameAssumption
  <2>4. QED
    BY <1>2, <1>3, <2>1, <2>2, <2>3, AudioFrameAssumption
<1>8. (MinSampleRate * t) * 2 <= (r * t) * (c * 2)
  <2>1. MinSampleRate * t <= r * t /\ MinSampleRate * t \in Nat
    BY <1>2, Monotone, AudioFrameAssumption
  <2>2. (r * t) * 2 <= (r * t) * (c * 2)
    <3>1. 2 <= c * 2 /\ c * 2 \in Nat
      BY <1>2
    <3>2. 2 * (r * t) <= (c * 2) * (r * t)
      BY <1>3, <3>1, Monotone
    <3>3. QED
      BY <1>2, <1>3, <3>1, <3>2
  <2>3. QED
    BY <1>2, <1>3, <2>1, <2>2
<1>9. /\ (MaxSampleRate * t) * (MaxChannels * 2) = t * Most
      /\ (MinSampleRate * t) * 2 = t * Least
  BY <1>2, AudioFrameAssumption DEF Most, Least, MinChannels, BytesPerSample
<1>10. f.duration_ms = t /\ f.sequence_number = d.sequence_number
  BY <1>1 DEF FrameOf
<1>11. QED
  BY <1>2, <1>5, <1>6, <1>7, <1>8, <1>9, <1>10

\* The frames the parser lets through are what the ring buffer assumes.
LEMMA FramesFit ==
  Frames \subseteq [sequence_number : Nat, duration_ms : Nat \ {0}, payload : Nat]
<1>1. ASSUME NEW f \in Frames
      PROVE  f = [sequence_number |-> f.sequence_number, duration_ms |-> f.duration_ms,
                  payload |-> f.payload]
  BY DEF Frames, FrameOf
<1>2. QED
  BY <1>1, FrameBytes

-----------------------------------------------------------------------------
\* The inductive invariant: of each buffer, what BytesFollowDepth says, and
\* that its totals are numbers.
BufferInv(b) ==
  /\ b.depth_ms \in Nat /\ b.byte_count \in Nat
  /\ 1000 * b.byte_count <= b.depth_ms * Most
  /\ b.depth_ms * Least <= 1000 * b.byte_count

BytesInv == \A s \in DOMAIN buffers : BufferInv(buffers[s])

LEMMA RatesAreNumbers == Most \in Nat /\ Least \in Nat
BY AudioFrameAssumption DEF Most, Least, MinChannels, BytesPerSample

LEMMA EmptyBytes == BufferInv(Ingest!EmptyBuffer)
BY RatesAreNumbers DEF BufferInv, Ingest!EmptyBuffer

LEMMA AppendedBytes ==
  ASSUME NEW b, BufferInv(b), NEW f \in Frames
  PROVE  BufferInv(Ingest!Appended(b, f))
<1> DEFINE a == Ingest!Appended(b, f)
<1>1. a.depth_ms = b.depth_ms + f.duration_ms /\ a.byte_count = b.byte_count + f.payload
  BY DEF Ingest!Appended
<1>2. /\ b.depth_ms \in Nat /\ b.byte_count \in Nat /\ f.duration_ms \in Nat /\ f.payload \in Nat
      /\ Most \in Nat /\ Least \in Nat
  BY FrameBytes, RatesAreNumbers DEF BufferInv
<1>3. /\ a.depth_ms * Most = b.depth_ms * Most + f.duration_ms * Most
      /\ a.depth_ms * Least = b.depth_ms * Least + f.duration_ms * Least
      /\ b.depth_ms * Most \in Nat /\ f.duration_ms * Most \in Nat
      /\ b.depth_ms * Least \in Nat /\ f.duration_ms * Least \in Nat
  BY <1>1, <1>2
<1>4. QED
  BY <1>1, <1>2, <1>3, FrameBytes DEF BufferInv

LEMMA BytesInitial == Init => BytesInv
BY DEF Init, Ingest!Init, BytesInv

LEMMA BytesStep == BytesInv /\ [Next]_vars => BytesInv'
<1> SUFFICES ASSUME BytesInv, [Next]_vars PROVE BytesInv'
  OBVIOUS
<1>1. ASSUME NEW s \in SessionIds PROVE BufferInv(Ingest!BufferOf(s))
  BY EmptyBytes DEF BytesInv, Ingest!BufferOf
<1>2. ASSUME NEW s \in SessionIds, NEW b, BufferInv(b), buffers' = Ingest!With(buffers, s, b)
      PROVE  BytesInv'
  BY <1>2 DEF BytesInv, Ingest!With
<1>3. ASSUME NEW d \in Messages, NEW s \in SessionIds, Accepted(s, d)
      PROVE  BytesInv'
  <2>1. FrameOf(d) \in Frames
    BY <1>3 DEF Accepted, Frames
  <2>2. BufferInv(Ingest!Appended(Ingest!BufferOf(s), FrameOf(d)))
    BY <1>1, <2>1, AppendedBytes
  <2>3. QED
    BY <1>2, <1>3, <2>2 DEF Accepted, Ingest!AcceptFrame
<1>4. ASSUME NEW d \in Messages, NEW s \in SessionIds, NotBuffered(s, d)
      PROVE  BytesInv'
  BY <1>1, <1>2, <1>4 DEF NotBuffered, Ingest!RefuseFrame
<1>5. ASSUME NEW d \in Messages, Invalid(d)
      PROVE  BytesInv'
  BY <1>5 DEF Invalid, BytesInv
<1>6. CASE UNCHANGED vars
  BY <1>6 DEF vars, BytesInv
<1>7. QED
  BY <1>3, <1>4, <1>5, <1>6 DEF Next

\* The milliseconds a session holds bound its bytes from both sides, for all
\* limits and all messages.
THEOREM BytesBounded == Spec => []BytesFollowDepth
<1>1. BytesInv => BytesFollowDepth
  BY DEF BytesInv, BufferInv, BytesFollowDepth, Most, Least
<1>2. QED
  BY <1>1, BytesInitial, BytesStep, PTL DEF Spec

\* No message makes the header model raise.
THEOREM NothingEscapes == Spec => []NoEscape
<1> DEFINE I == message \in Messages /\ NoEscape
<1>1. Init => I
  BY DEF Init, NoEscape
<1>2. I /\ [Next]_vars => I'
  <2> SUFFICES ASSUME I, [Next]_vars PROVE I'
    OBVIOUS
  <2>1. ASSUME NEW d \in Messages, NEW s \in SessionIds, Accepted(s, d) \/ NotBuffered(s, d)
        PROVE  I'
    BY <2>1 DEF Accepted, NotBuffered, Ends, NoEscape
  <2>2. ASSUME NEW d \in Messages, Invalid(d)
        PROVE  I'
    BY <2>2, RaisedIsCode, AudioIntakeAssumption DEF Invalid, Ends, NoEscape
  <2>3. CASE UNCHANGED vars
    BY <2>3 DEF vars, NoEscape
  <2>4. QED
    BY <2>1, <2>2, <2>3 DEF Next
<1>3. QED
  BY <1>1, <1>2, PTL DEF Spec

\* Each step of the intake is a step of the ingest or leaves it alone, so all
\* that is proved of AudioIngest holds of the frames the parser lets through.
THEOREM IngestImplemented == Spec => Ingest!Spec
<1>1. Init => Ingest!Init
  BY DEF Init
<1>2. [Next]_vars => [Ingest!Next]_(Ingest!vars)
  <2> SUFFICES ASSUME [Next]_vars PROVE [Ingest!Next]_(Ingest!vars)
    OBVIOUS
  <2>1. ASSUME NEW d \in Messages, NEW s \in SessionIds, Accepted(s, d) \/ NotBuffered(s, d)
        PROVE  Ingest!Next
    <3>1. FrameOf(d) \in Frames
      BY <2>1 DEF Accepted, NotBuffered, Frames
    <3>2. QED
      BY <2>1, <3>1 DEF Accepted, NotBuffered, Ingest!Next
  <2>2. ASSUME NEW d \in Messages, Invalid(d)
        PROVE  UNCHANGED Ingest!vars
    BY <2>2 DEF Invalid, Ingest!vars
  <2>3. CASE UNCHANGED vars
    BY <2>3 DEF vars, Ingest!vars
  <2>4. QED
    BY <2>1, <2>2, <2>3 DEF Next
<1>3. QED
  BY <1>1, <1>2, PTL DEF Spec, Ingest!Spec

-----------------------------------------------------------------------------
(* What the checks amount to.                                              *)

LEMMA DivMod ==
  ASSUME NEW x \in Nat, NEW b \in Nat \ {0}
  PROVE  /\ x \div b \in Nat /\ x % b \in 0..(b - 1)
         /\ x = b * (x \div b) + (x % b)
OBVIOUS

\* A multiple of b is divided by b without remainder.
LEMMA Multiple ==
  ASSUME NEW a \in Nat, NEW b \in Nat \ {0}
  PROVE  (a * b) % b = 0 /\ (a * b) \div b = a
<1>1. PICK q \in Nat, r \in 0..(b - 1) :
        q = (a * b) \div b /\ r = (a * b) % b /\ a * b = b * q + r
  <2>1. a * b \in Nat
    OBVIOUS
  <2>2. QED
    BY <2>1, DivMod
<1>2. CASE a > q
  <2>1. PICK k \in Nat : a = q + k + 1
    <3>1. a - q - 1 \in Nat /\ a = q + (a - q - 1) + 1
      BY <1>2
    <3>2. QED
      BY <3>1
  <2>2. a * b = b * q + b * k + b /\ b * k \in Nat /\ b * q \in Nat
    BY <2>1
  <2>3. QED
    BY <1>1, <2>2
<1>3. CASE a < q
  <2>1. PICK k \in Nat : q = a + k + 1
    <3>1. q - a - 1 \in Nat /\ q = a + (q - a - 1) + 1
      BY <1>3
    <3>2. QED
      BY <3>1
  <2>2. b * q = a * b + b * k + b /\ b * k \in Nat /\ a * b \in Nat
    BY <2>1
  <2>3. QED
    BY <1>1, <2>2
<1>4. CASE a = q
  <2>1. b * q = a * b /\ a * b \in Nat
    BY <1>4
  <2>2. QED
    BY <1>1, <1>4, <2>1
<1>5. QED
  BY <1>2, <1>3, <1>4

\* The payload has the length that sample rate p and duration t call for exactly
\* if it is a whole number of blocks that last exactly t.
LEMMA PayloadMatches ==
  ASSUME NEW p \in Nat, NEW c \in Nat \ {0}, NEW bytes \in Nat
  PROVE  p % 1000 = 0 /\ bytes = (p \div 1000) * c * 2
           <=> bytes % (2 * c) = 0 /\ 1000 * (bytes \div (2 * c)) = p
<1> DEFINE block == 2 * c
<1>1. block \in Nat \ {0}
  OBVIOUS
<1>2. ASSUME p % 1000 = 0, bytes = (p \div 1000) * c * 2
      PROVE  bytes % block = 0 /\ 1000 * (bytes \div block) = p
  <2>1. PICK n \in Nat : n = p \div 1000 /\ 1000 * n = p
    BY <1>2, DivMod
  <2>2. bytes = n * block
    BY <1>2, <2>1
  <2>3. bytes % block = 0 /\ bytes \div block = n
    BY <1>1, <2>2, Multiple
  <2>4. QED
    BY <2>1, <2>3
<1>3. ASSUME bytes % block = 0, 1000 * (bytes \div block) = p
      PROVE  p % 1000 = 0 /\ bytes = (p \div 1000) * c * 2
  <2>1. PICK n \in Nat : n = bytes \div block /\ bytes = block * n
    <3>1. bytes \div block \in Nat /\ bytes = block * (bytes \div block) + (bytes % block)
      BY <1>1, DivMod
    <3>2. bytes = block * (bytes \div block)
      <4>1. block * (bytes \div block) \in Nat
        BY <1>1, <3>1
      <4>2. QED
        BY <1>3, <3>1, <4>1
    <3>3. QED
      BY <3>1, <3>2
  <2>2. p = n * 1000
    BY <1>3, <2>1
  <2>3. p % 1000 = 0 /\ p \div 1000 = n
    BY <2>2, Multiple
  <2>4. bytes = n * c * 2
    BY <2>1
  <2>5. QED
    BY <2>3, <2>4
<1>4. QED
  BY <1>2, <1>3

\* What SoundExactly says of a message that is let through.
WellFormed(d) ==
  /\ d.length \in Nat /\ d.length >= 32
  /\ d.magic = "CTTS"
  /\ <<d.version, d.header_length, d.format_code>> = <<1, 32, 1>>
  /\ d.sample_rate \in MinSampleRate..MaxSampleRate
  /\ d.channels \in 1..MaxChannels
  /\ d.duration_ms \in 1..MaxDuration
  /\ LET bytes == d.length - 32
         block == 2 * d.channels
     IN /\ bytes % block = 0
        /\ 1000 * (bytes \div block) = d.sample_rate * d.duration_ms

\* The eleven checks, one by one.
Passes(d) ==
  /\ d.length >= HeaderLength /\ d.magic = Magic /\ d.version = Version
  /\ d.header_length = HeaderLength /\ d.format_code = Format
  /\ InRange(d.sample_rate, MinSampleRate, MaxSampleRate)
  /\ InRange(d.channels, MinChannels, MaxChannels)
  /\ InRange(d.duration_ms, MinDuration, MaxDuration)
  /\ HeaderValid(d) /\ WholeSamples(d)
  /\ PayloadLength(d) = ExpectedPayloadLength(d)

LEMMA AcceptsPasses ==
  ASSUME NEW d
  PROVE  Accepts(d) <=> Passes(d)
<1>1. DOMAIN Checks(d) = 1..11
  BY DEF Checks
<1>2. Accepts(d) <=>
        /\ Checks(d)[1].holds /\ Checks(d)[2].holds /\ Checks(d)[3].holds
        /\ Checks(d)[4].holds /\ Checks(d)[5].holds /\ Checks(d)[6].holds
        /\ Checks(d)[7].holds /\ Checks(d)[8].holds /\ Checks(d)[9].holds
        /\ Checks(d)[10].holds /\ Checks(d)[11].holds
  <2>1. \A i \in 1..11 : i \in {1, 2, 3, 4, 5, 6, 7, 8, 9, 10, 11}
    OBVIOUS
  <2>2. QED
    BY <1>1, <2>1 DEF Accepts
<1>3. /\ Checks(d)[1].holds = (d.length >= HeaderLength)
      /\ Checks(d)[2].holds = (d.magic = Magic)
      /\ Checks(d)[3].holds = (d.version = Version)
      /\ Checks(d)[4].holds = (d.header_length = HeaderLength)
      /\ Checks(d)[5].holds = (d.format_code = Format)
      /\ Checks(d)[6].holds = InRange(d.sample_rate, MinSampleRate, MaxSampleRate)
      /\ Checks(d)[7].holds = InRange(d.channels, MinChannels, MaxChannels)
      /\ Checks(d)[8].holds = InRange(d.duration_ms, MinDuration, MaxDuration)
      /\ Checks(d)[9].holds = HeaderValid(d)
      /\ Checks(d)[10].holds = WholeSamples(d)
      /\ Checks(d)[11].holds = (PayloadLength(d) = ExpectedPayloadLength(d))
  BY DEF Checks
<1>4. QED
  BY <1>2, <1>3 DEF Passes

LEMMA AcceptsExactly ==
  ASSUME NEW d \in Message
  PROVE  Accepts(d) <=> WellFormed(d)
<1>1. /\ d.length \in Nat /\ d.version \in Nat /\ d.header_length \in Nat
      /\ d.sample_rate \in Nat /\ d.channels \in Nat /\ d.duration_ms \in Nat
      /\ d.format_code \in Nat
  BY DEF Message
<1>2. /\ MinSampleRate \in Nat \ {0} /\ MaxSampleRate \in Nat \ {0}
      /\ MaxChannels \in Nat \ {0} /\ MaxDuration \in Nat \ {0}
  BY AudioFrameAssumption
<1> DEFINE In == /\ d.length >= 32 /\ d.magic = "CTTS"
                 /\ d.version = 1 /\ d.header_length = 32 /\ d.format_code = 1
                 /\ MinSampleRate <= d.sample_rate /\ d.sample_rate <= MaxSampleRate
                 /\ 1 <= d.channels /\ d.channels <= MaxChannels
                 /\ 1 <= d.duration_ms /\ d.duration_ms <= MaxDuration
           p     == d.sample_rate * d.duration_ms
           bytes == d.length - 32
           c     == d.channels
<1>3. Passes(d) <=> In /\ p % 1000 = 0 /\ bytes = (p \div 1000) * c * 2
  BY <1>1, <1>2
     DEF Passes, HeaderLength, Magic, Version, Format, InRange, MinChannels, MinDuration,
         HeaderValid, WholeSamples, SampleMilliseconds, PayloadLength, ExpectedPayloadLength,
         BytesPerSample
<1>4. WellFormed(d) <=> In /\ bytes % (2 * c) = 0 /\ 1000 * (bytes \div (2 * c)) = p
  BY <1>1, <1>2 DEF WellFormed
<1>5. In => p \in Nat /\ bytes \in Nat /\ c \in Nat \ {0}
  BY <1>1
<1> HIDE DEF p, bytes, c, In
<1>6. In => (p % 1000 = 0 /\ bytes = (p \div 1000) * c * 2
               <=> bytes % (2 * c) = 0 /\ 1000 * (bytes \div (2 * c)) = p)
  BY <1>5, PayloadMatches
<1>7. QED
  BY <1>3, <1>4, <1>6, AcceptsPasses

\* The codes of a refused message are none of the outcomes of one let through.
LEMMA RaisedIsRefusal ==
  ASSUME NEW d, ~Accepts(d)
  PROVE  Raised(d) \notin {"accepted", "audio_buffer_full"}
<1>1. DOMAIN Checks(d) = 1..11
  BY DEF Checks
<1> DEFINE i == CHOOSE i \in DOMAIN Checks(d) : FirstFailed(d, i)
<1>2. i \in 1..11
  BY SomeFirstFailed, <1>1
<1>3. Raised(d) = Checks(d)[i].code
  BY DEF Raised
<1>4. \A j \in 1..11 : Checks(d)[j].code \notin {"accepted", "audio_buffer_full"}
  BY DEF Checks
<1>5. QED
  BY <1>2, <1>3, <1>4

\* A message is let through exactly when its payload is a whole number of samples
\* per channel that last exactly as long as its header says, and no field is out
\* of its limits, for all limits and all messages (ingest.py:166-303): the checks,
\* one after the other, are equivalent to that by the arithmetic of division.
THEOREM ParserExact == Spec => []SoundExactly
<1> DEFINE I == /\ message \in Messages
                /\ outcome # "none" =>
                     (outcome \in {"accepted", "audio_buffer_full"} <=> Accepts(message))
<1>1. Init => I
  BY DEF Init
<1>2. I /\ [Next]_vars => I'
  <2> SUFFICES ASSUME I, [Next]_vars PROVE I'
    OBVIOUS
  <2>1. ASSUME NEW d \in Messages, NEW s \in SessionIds, Accepted(s, d) \/ NotBuffered(s, d)
        PROVE  I'
    BY <2>1 DEF Accepted, NotBuffered, Ends
  <2>2. ASSUME NEW d \in Messages, Invalid(d)
        PROVE  I'
    BY <2>2, RaisedIsRefusal DEF Invalid, Ends
  <2>3. CASE UNCHANGED vars
    BY <2>3 DEF vars
  <2>4. QED
    BY <2>1, <2>2, <2>3 DEF Next
<1>3. I => SoundExactly
  <2>1. message \in Messages => (Accepts(message) <=> WellFormed(message))
    BY AcceptsExactly, AudioIntakeAssumption
  <2>2. QED
    BY <2>1 DEF SoundExactly, WellFormed
<1>4. QED
  BY <1>1, <1>2, <1>3, PTL DEF Spec

=============================================================================
