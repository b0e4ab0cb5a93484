\* One session; room for five short frames, a window of two numbers.
SPECIFICATION Spec
CONSTANTS
  SessionIds = {s1}
  Frames <- MCFrames
  MaxSequence = 4
  Durations = {1, 2, 9}
  MaxDepthMs = 8
  MaxFrames = 5
  Window = 2
  NoSequence = NoSequence
  MaxDropped = 2
INVARIANTS TypeOK WithinLimits TotalsAddUp WindowsAgree ObservedOnce HonestStatistics
