\* One client that sends one message of any form.
SPECIFICATION Spec
CONSTANTS
  SessionIds = {s1}
  Profiles = {balanced}
  Versions = {}
  NoVersion = NoVersion
  Stamped = Stamped
  StaleAfter = 1
  Links = {c1}
  Readers = {c1}
  Absent = Absent
  Null = Null
  Number = Number
  Collection = Collection
  Messages <- Forms
  MaxMessages <- One
  MaxTime = 0
PROPERTY InvalidJsonIsNotJson
CHECK_DEADLOCK FALSE
