---------------------------- MODULE AudioIntake ----------------------------
(***************************************************************************)
(* The way of a binary message of an audio client through accept_frame:    *)
(* parsed by AudioFrame, then buffered and observed by AudioIngest.  Here  *)
(* the frames the ingest deals with are those the parser lets through,     *)
(* which is what ties the bytes held in memory to the configured limits.   *)
(***************************************************************************)
EXTENDS AudioFrame, FiniteSets

CONSTANTS
  SessionIds,
  Messages,                \* messages that may arrive
  MaxDepthMs, MaxFrames,   \* of the ring buffer
  Window, NoSequence       \* of the jitter tracker

ASSUME AudioIntakeAssumption ==
  /\ Messages \subseteq Message
  /\ MaxDepthMs \in Nat \ {0} /\ MaxFrames \in Nat \ {0}
  /\ Window \in Nat \ {0} /\ NoSequence \notin Nat

VARIABLES
  buffers, trackers,       \* as in AudioIngest
  message,                 \* history: the message that came last
  outcome                  \* history: what accept_frame did with it

vars == <<buffers, trackers, message, outcome>>

Frames == {FrameOf(d) : d \in {m \in Messages : Accepts(m)}}

Ingest == INSTANCE AudioIngest WITH MaxDropped <- 0

Init ==
  /\ Ingest!Init
  /\ message \in Messages
  /\ outcome = "none"

Ends(d, o) == message' = d /\ outcome' = o

\* Mutant of Accepted: the frame is counted with the length of the message.
AcceptedWhole(s, d) ==
  /\ Accepts(d) /\ Ends(d, "accepted")
  /\ Ingest!AcceptFrame(s, [FrameOf(d) EXCEPT !.payload = d.length])

Accepted(s, d) ==
  Accepts(d) /\ Ingest!AcceptFrame(s, FrameOf(d)) /\ Ends(d, "accepted")

NotBuffered(s, d) ==
  Accepts(d) /\ Ingest!RefuseFrame(s, FrameOf(d)) /\ Ends(d, "audio_buffer_full")

Invalid(d) ==
  ~Accepts(d) /\ Ends(d, Raised(d)) /\ UNCHANGED <<buffers, trackers>>

Next ==
  \E d \in Messages :
    \/ \E s \in SessionIds : Accepted(s, d) \/ NotBuffered(s, d)
    \/ Invalid(d)

Spec == Init /\ [][Next]_vars

-----------------------------------------------------------------------------
(* Properties.                                                             *)

\* The variables have their types, and so do the frames the ingest gets
\* (ingest.py:90-98, 166-282).
TypeOK ==
  /\ Frames \subseteq [sequence_number : Nat, duration_ms : Nat \ {0}, payload : Nat]
  /\ Ingest!TypeOK
  /\ message \in Messages
  /\ outcome \in STRING

\* A message is let through exactly when its payload is a whole number of
\* samples per channel that last exactly as long as its header says, and no
\* field is out of its limits (ingest.py:166-303).
SoundExactly ==
  outcome # "none" =>
    (outcome \in {"accepted", "audio_buffer_full"} <=>
       /\ message.length \in Nat /\ message.length >= 32
       /\ message.magic = "CTTS"
       /\ <<message.version, message.header_length, message.format_code>> = <<1, 32, 1>>
       /\ message.sample_rate \in MinSampleRate..MaxSampleRate
       /\ message.channels \in 1..MaxChannels
       /\ message.duration_ms \in 1..MaxDuration
       /\ LET bytes == message.length - 32
              block == 2 * message.channels      \* one sample of each channel
          IN /\ bytes % block = 0
             /\ 1000 * (bytes \div block) = message.sample_rate * message.duration_ms)

\* Nothing the limits let through is refused by the header model: that
\* exception is not one the audio handler catches, and would end it without a
\* word to the client (ingest.py:238-268; protocol.py:123-135; main.py:215).
NoEscape == outcome # "ValidationError"

\* The bytes a session holds are what its milliseconds allow: between the
\* thinnest and the richest stream the limits let through.  So the depth in
\* milliseconds bounds the memory, although bytes are never compared with
\* anything (ingest.py:238-303; ring_buffer.py:66-82).
BytesFollowDepth ==
  \A s \in DOMAIN buffers :
    LET b == buffers[s] IN
      /\ 1000 * b.byte_count <= b.depth_ms * (MaxSampleRate * MaxChannels * BytesPerSample)
      /\ b.depth_ms * (MinSampleRate * MinChannels * BytesPerSample) <= 1000 * b.byte_count

=============================================================================
