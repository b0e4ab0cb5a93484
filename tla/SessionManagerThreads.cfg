\* Two threads contend for the lock; two sessions; the clock only advances.
SPECIFICATION Spec
CONSTANTS
  SessionIds = {s1, s2}
  Profiles = {balanced}
  Versions = {}
  NoVersion = NoVersion
  Stamped = Stamped
  StaleAfter = 1
  Callers = {t1, t2}
  NoCall = NoCall
  NewId = NewId
  ClockJumps <- ForwardClock
  MaxTime = 2
INVARIANT ActivityOrder
PROPERTY LifecycleSpec
SYMMETRY Symmetry
CHECK_DEADLOCK FALSE
