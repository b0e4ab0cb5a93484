\* One session, whose frames may come after it has ended.
SPECIFICATION Spec
CONSTANTS
  SessionIds = {s1}
  Profiles = {balanced}
  Versions = {}
  NoVersion = NoVersion
  Stamped = Stamped
  StaleAfter = 1
  AudioLinks = {a1}
  ControlLinks = {c1}
  Subscriptions = {q1}
  NoSession = NoSession
  QueueSize = 1
  MaxEvents = 5
  MaxHeard = 5
  MaxTime = 2
  Frames <- MCFrames
  MaxSequence = 0
  MaxDepthMs = 2
  MaxFrames = 2
  Window = 1
  NoSequence = NoSequence
PROPERTY NotAccepted
CHECK_DEADLOCK FALSE
