\* One session, which may change its profile, with an audio link, a control link
\* and a subscription.
SPECIFICATION Spec
CONSTANTS
  SessionIds = {s1}
  Profiles = {balanced, realtime}
  Versions = {}
  NoVersion = NoVersion
  Stamped = Stamped
  StaleAfter = 1
  AudioLinks = {a1}
  ControlLinks = {c1}
  Subscriptions = {q1}
  NoSession = NoSession
  QueueSize = 1
  MaxEvents = 7
  MaxHeard = 4
  MaxTime = 2
  Frames <- MCFrames
  MaxSequence = 0
  MaxDepthMs = 2
  MaxFrames = 2
  Window = 1
  NoSequence = NoSequence
INVARIANTS TypeOK OnlyKnownSessions DroppedAgree StreamsTellTruth EndingsAreFinal
PROPERTIES UsedStayAlive PauseHolds GoneGoesQuiet LifecycleSpec
CONSTRAINT HeardBound
SYMMETRY Symmetry
CHECK_DEADLOCK FALSE
