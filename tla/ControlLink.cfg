\* Two clients of one session: one that reads its answers and sends two messages,
\* one that may stop reading and sends one.
SPECIFICATION Spec
CONSTANTS
  SessionIds = {s1}
  Profiles = {balanced}
  Versions = {}
  NoVersion = NoVersion
  Stamped = Stamped
  StaleAfter = 1
  Links = {c1, c2}
  Readers = {c1}
  Absent = Absent
  Null = Null
  Number = Number
  Collection = Collection
  Messages <- Several
  MaxMessages <- Uneven
  MaxTime = 2
PROPERTIES RetriesAreSafe EveryMessageDecided
CHECK_DEADLOCK FALSE
