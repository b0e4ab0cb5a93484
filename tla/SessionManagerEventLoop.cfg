\* The event loop is the only caller; two sessions; the clock only advances.
SPECIFICATION Spec
CONSTANTS
  SessionIds = {s1, s2}
  Profiles = {balanced, accuracy}
  Versions = {v1}
  NoVersion = NoVersion
  Stamped = Stamped
  StaleAfter = 1
  Callers = {loop}
  NoCall = NoCall
  NewId = NewId
  ClockJumps <- ForwardClock
  MaxTime = 3
INVARIANT TypeOK
PROPERTY KeepAlive
SYMMETRY Symmetry
CHECK_DEADLOCK FALSE
