----------------------------- MODULE AudioFrame -----------------------------
(***************************************************************************)
(* parse_audio_frame of backend/audio/ingest.py: what the server makes of  *)
(* one binary message of an audio client.  A message is its length and the *)
(* fields that unpack_from reads from its first 32 bytes; those of a       *)
(* shorter message are never looked at.  The capture time and the flags    *)
(* are passed on unread and left out.  The fields are unsigned and of      *)
(* fixed width, but Python computes with unbounded integers, so no product *)
(* of them wraps.                                                          *)
(***************************************************************************)
EXTENDS Integers

CONSTANTS          \* AudioValidationLimits
  MinSampleRate, MaxSampleRate,
  MaxChannels,
  MaxDuration

\* The bounds AudioConfig puts on its settings (config.py:48-51).
ASSUME AudioFrameAssumption ==
  /\ MinSampleRate \in Nat \ {0} /\ MaxSampleRate \in Nat \ {0}
  /\ MaxChannels \in Nat \ {0}
  /\ MaxDuration \in Nat \ {0}

MinChannels == 1
MinDuration == 1

HeaderLength   == 32
BytesPerSample == 2     \* of pcm_s16le, the only format
Magic          == "CTTS"
Version        == 1
Format         == 1

Message ==
  [length          : Nat,
   magic           : STRING,
   version         : Nat,
   header_length   : Nat,
   sequence_number : Nat,
   sample_rate     : Nat,
   channels        : Nat,
   duration_ms     : Nat,
   format_code     : Nat]

PayloadLength(d) == d.length - HeaderLength

\* Mutants of InRange: the upper limit is exclusive; there is no lower one.
InRangeExclusive(v, least, most) == least <= v /\ v < most
InRangeUnbounded(v, least, most) == v <= most

InRange(v, least, most) == least <= v /\ v <= most

\* What AudioEnvelopeHeader asks of its fields; they are unsigned anyway.
HeaderValid(d) == d.sample_rate > 0 /\ d.channels > 0

SampleMilliseconds(d) == d.sample_rate * d.duration_ms

WholeSamples(d) == SampleMilliseconds(d) % 1000 = 0

\* expected_pcm_payload_length, where it does not raise.
ExpectedPayloadLength(d) ==
  (SampleMilliseconds(d) \div 1000) * d.channels * BytesPerSample

\* The checks in their order, with what each raises.  All but ValidationError
\* are codes of an AudioFrameValidationError.
Checks(d) ==
  <<[code |-> "audio_frame_too_short",        holds |-> d.length >= HeaderLength],
    [code |-> "invalid_audio_magic",          holds |-> d.magic = Magic],
    [code |-> "invalid_audio_version",        holds |-> d.version = Version],
    [code |-> "invalid_audio_header_length",  holds |-> d.header_length = HeaderLength],
    [code |-> "unsupported_audio_format",     holds |-> d.format_code = Format],
    [code |-> "invalid_audio_sample_rate",
     holds |-> InRange(d.sample_rate, MinSampleRate, MaxSampleRate)],
    [code |-> "invalid_audio_channels",
     holds |-> InRange(d.channels, MinChannels, MaxChannels)],
    [code |-> "invalid_audio_duration",
     holds |-> InRange(d.duration_ms, MinDuration, MaxDuration)],
    [code |-> "ValidationError",              holds |-> HeaderValid(d)],
    [code |-> "invalid_audio_duration",       holds |-> WholeSamples(d)],
    [code |-> "invalid_audio_payload_length",
     holds |-> PayloadLength(d) = ExpectedPayloadLength(d)]>>

Accepts(d) == \A i \in DOMAIN Checks(d) : Checks(d)[i].holds

FirstFailed(d, i) ==
  /\ ~Checks(d)[i].holds
  /\ \A j \in 1..(i - 1) : Checks(d)[j].holds

\* What parse_audio_frame raises for a message it does not accept.
Raised(d) == Checks(d)[CHOOSE i \in DOMAIN Checks(d) : FirstFailed(d, i)].code

\* What the ingest looks at of the frame it returns.
FrameOf(d) ==
  [sequence_number |-> d.sequence_number,
   duration_ms     |-> d.duration_ms,
   payload         |-> PayloadLength(d)]

=============================================================================
