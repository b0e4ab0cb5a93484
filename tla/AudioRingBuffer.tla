-------------------------- MODULE AudioRingBuffer --------------------------
(***************************************************************************)
(* AudioRingBuffer of backend/audio/ring_buffer.py: the frames a session   *)
(* has sent, with their total duration and total size kept beside them.    *)
(* Despite its name it refuses a frame it has no room for instead of       *)
(* overwriting the oldest one.                                             *)
(*                                                                         *)
(* A frame is the three things the buffer and the jitter tracker look at:  *)
(* its sequence number, its duration, and the length of its payload.       *)
(* Nothing in the program takes a frame out again.                         *)
(***************************************************************************)
EXTENDS Integers, Sequences

CONSTANTS
  Frames,        \* frames that pass parse_audio_frame
  MaxDepthMs,    \* max_depth_ms
  MaxFrames      \* max_frames

ASSUME AudioRingBufferAssumption ==
  /\ Frames \subseteq [sequence_number : Nat, duration_ms : Nat \ {0}, payload : Nat]
  /\ MaxDepthMs \in Nat \ {0}
  /\ MaxFrames \in Nat \ {0}

Buffer == [frames : Seq(Frames), depth_ms : Nat, byte_count : Nat]

EmptyBuffer == [frames |-> <<>>, depth_ms |-> 0, byte_count |-> 0]

\* Mutant of HasRoom: room is judged before the frame is counted.
HasRoomBefore(b, f) ==
  /\ Len(b.frames) < MaxFrames
  /\ b.depth_ms < MaxDepthMs

\* append raises AudioBufferFullError, and changes nothing, unless this holds.
HasRoom(b, f) ==
  /\ Len(b.frames) < MaxFrames
  /\ b.depth_ms + f.duration_ms <= MaxDepthMs

\* Mutant of Appended: the size of the payload is added to the duration.
AppendedMixedUp(b, f) ==
  [frames     |-> Append(b.frames, f),
   depth_ms   |-> b.depth_ms + f.duration_ms,
   byte_count |-> b.byte_count + f.duration_ms]

Appended(b, f) ==
  [frames     |-> Append(b.frames, f),
   depth_ms   |-> b.depth_ms + f.duration_ms,
   byte_count |-> b.byte_count + f.payload]

=============================================================================
