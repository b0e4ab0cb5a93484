\* Two sessions, three subscriptions, queues of two events.
SPECIFICATION Spec
CONSTANTS
  SessionIds = {s1, s2}
  Subscriptions = {q1, q2, q3}
  QueueSize = 2
  NoSession = NoSession
  MaxEvents = 4
INVARIANTS TypeOK Registered NewestInOrder NothingUnaccounted DropsAddUp
PROPERTY LogSpec
SYMMETRY Symmetry
CHECK_DEADLOCK FALSE
