\* The shipped limits, a hundredth of their size: max_buffer_ms 500 and
\* max_frame_duration_ms 1000 (config/default.yml).
SPECIFICATION Spec
CONSTANTS
  SessionIds = {s1, s2}
  Frames <- MCFrames
  MaxSequence = 1
  Durations = {2, 5, 10}
  MaxDepthMs = 5
  MaxFrames = 3
  Window = 2
  NoSequence = NoSequence
  MaxDropped = 1
PROPERTY RefusedOnlyWhenFull
