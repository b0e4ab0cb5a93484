\* A session that clients use over HTTP while it expires, and a websocket for it.
SPECIFICATION AuthSpec
CONSTANTS
  SessionIds = {s1}
  Profiles = {balanced}
  DefaultProfile = balanced
  Versions = {v1}
  NoVersion = NoVersion
  Stamped = Stamped
  StaleAfter = 1
  MaxTime = 2
  Links = {c1}
  NotAscii = NotAscii
  NoString = NoString
  Wrong = Wrong
  Parts <- MCParts
  Headers <- MCHeaders
  Messages <- MCMessages
PROPERTIES RepeatsAreSafe NotFoundIsFinal RefusalsChangeNothing OfferedTokenAdmits
CHECK_DEADLOCK FALSE
