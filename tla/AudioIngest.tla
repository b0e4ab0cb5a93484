---------------------------- MODULE AudioIngest ----------------------------
(***************************************************************************)
(* AudioIngestService of backend/audio/ingest.py: one buffer and one       *)
(* jitter tracker per session, each made when it is first needed.  All its *)
(* operations hold an asyncio lock and await nothing while they do, so     *)
(* each is one step.                                                       *)
(*                                                                         *)
(* The frames given to AcceptFrame are those parse_audio_frame accepts: it *)
(* runs before the lock is taken, and a frame it rejects changes nothing.  *)
(***************************************************************************)
EXTENDS AudioRingBuffer, JitterTracker, FiniteSets, Functions

CONSTANTS
  SessionIds,    \* session ids, never checked here against the manager's
  MaxDropped     \* bound on the count of dropped diagnostic events

ASSUME AudioIngestAssumption == MaxDropped \in Nat

VARIABLES
  buffers,       \* _buffers: id -> buffer
  trackers       \* _jitter: id -> tracker

vars == <<buffers, trackers>>

Init ==
  /\ buffers = [s \in {} |-> EmptyBuffer]
  /\ trackers = [s \in {} |-> NewTracker]

With(f, s, v) == [x \in DOMAIN f \cup {s} |-> IF x = s THEN v ELSE f[x]]
Without(f, s) == [x \in DOMAIN f \ {s} |-> f[x]]

BufferOf(s)  == IF s \in DOMAIN buffers THEN buffers[s] ELSE EmptyBuffer
TrackerOf(s) == IF s \in DOMAIN trackers THEN trackers[s] ELSE NewTracker

\* Mutant of AcceptFrame: the frame is observed before the buffer takes it.
AcceptFrameObservedFirst(s, f) ==
  LET b == IF HasRoom(BufferOf(s), f) THEN Appended(BufferOf(s), f) ELSE BufferOf(s)
  IN /\ buffers' = With(buffers, s, b)
     /\ trackers' = With(trackers, s, Observed(TrackerOf(s), f.sequence_number, b.depth_ms))

AcceptFrame(s, f) ==
  LET b == Appended(BufferOf(s), f)
  IN /\ HasRoom(BufferOf(s), f)
     /\ buffers' = With(buffers, s, b)
     /\ trackers' = With(trackers, s, Observed(TrackerOf(s), f.sequence_number, b.depth_ms))

\* AudioBufferFullError: all that is left of the call is the session's buffer,
\* made if it was not there.
RefuseFrame(s, f) ==
  /\ ~HasRoom(BufferOf(s), f)
  /\ buffers' = With(buffers, s, BufferOf(s))
  /\ UNCHANGED trackers

RecordDroppedDiagnosticFrames(s, count) ==
  /\ TrackerOf(s).dropped + count <= MaxDropped
  /\ trackers' = With(trackers, s, Dropped(TrackerOf(s), count))
  /\ UNCHANGED buffers

ClearSession(s) ==
  /\ buffers' = Without(buffers, s)
  /\ trackers' = Without(trackers, s)

Next ==
  \E s \in SessionIds :
    \/ \E f \in Frames : AcceptFrame(s, f) \/ RefuseFrame(s, f)
    \/ \E count \in 1..MaxDropped : RecordDroppedDiagnosticFrames(s, count)
    \/ ClearSession(s)

Spec == Init /\ [][Next]_vars

-----------------------------------------------------------------------------
(* Properties.                                                             *)

\* The variables have their types; in particular no counter goes negative.
TypeOK ==
  /\ DOMAIN buffers \subseteq SessionIds
  /\ DOMAIN trackers \subseteq SessionIds
  /\ \A s \in DOMAIN buffers : buffers[s] \in Buffer
  /\ \A s \in DOMAIN trackers : trackers[s] \in Tracker

\* No session holds more audio than the configuration allows, in frames or in
\* milliseconds (ring_buffer.py:66-82).
WithinLimits ==
  \A s \in DOMAIN buffers :
    /\ Len(buffers[s].frames) <= MaxFrames
    /\ buffers[s].depth_ms <= MaxDepthMs

\* The totals a buffer reports are those of the frames it holds, after any
\* mix of accepted, refused and cleared frames (ring_buffer.py:66-105).
TotalsAddUp ==
  \A s \in DOMAIN buffers :
    LET b == buffers[s] IN
      /\ b.depth_ms = SumFunction([i \in DOMAIN b.frames |-> b.frames[i].duration_ms])
      /\ b.byte_count = SumFunction([i \in DOMAIN b.frames |-> b.frames[i].payload])

\* The deque and the lookup set of a tracker stay the same set of different
\* numbers as old ones expire, and every number in them is behind the expected
\* one, so a frame that is not a duplicate and not behind is new
\* (jitter.py:57-77, 100-105).
WindowAgrees(t) ==
  /\ Len(t.recent) <= Window
  /\ t.lookup = Range(t.recent)
  /\ IsInjective(t.recent)
  /\ \A n \in t.lookup : t.expected # NoSequence /\ n < t.expected

WindowsAgree == \A s \in DOMAIN trackers : WindowAgrees(trackers[s])

\* Buffer and tracker never disagree on what was accepted: each buffered frame
\* was observed exactly once and no refused or forgotten frame was, so the
\* distance from the first buffered number to the expected one is explained by
\* the counters (ingest.py:111-124, 160-163; jitter.py:56-77).
ObservedOnce ==
  \A s \in SessionIds :
    LET b == BufferOf(s)
        t == TrackerOf(s)
    IN IF Len(b.frames) = 0
       THEN t.expected = NoSequence /\ t.missing + t.duplicates + t.out_of_order = 0
       ELSE /\ t.expected # NoSequence
            /\ t.queue_depth = b.depth_ms
            /\ t.missing + Len(b.frames) =
                 (t.expected - b.frames[1].sequence_number) + t.duplicates + t.out_of_order

Heard(s) == {BufferOf(s).frames[i].sequence_number : i \in DOMAIN BufferOf(s).frames}

Gap(s) ==
  IF TrackerOf(s).expected = NoSequence THEN {}
  ELSE (BufferOf(s).frames[1].sequence_number .. (TrackerOf(s).expected - 1)) \ Heard(s)

\* What the reported counters mean although the window forgets: at most
\* missing numbers are really missing, and of those reported as missing no
\* more arrived late than were counted out of order; a frame counted as a
\* duplicate really is a repetition, and a repetition the window has forgotten
\* is counted out of order instead (jitter.py:56-77).
HonestStatistics ==
  \A s \in SessionIds :
    LET t       == TrackerOf(s)
        lost    == Cardinality(Gap(s))
        repeats == Len(BufferOf(s).frames) - Cardinality(Heard(s))
    IN /\ lost <= t.missing /\ t.missing <= lost + t.out_of_order
       /\ t.duplicates <= repeats /\ repeats <= t.duplicates + t.out_of_order

\* What the message of AudioBufferFullError and the transport.error event say,
\* "Audio queue is full" (ring_buffer.py:22, main.py:236): a frame is refused only when
\* frames are waiting in the queue.
RefusedOnlyWhenFull ==
  [][\A s \in SessionIds, f \in Frames :
       RefuseFrame(s, f) => Len(BufferOf(s).frames) > 0]_vars

=============================================================================
