CONSTANTS
  c1 = c1
  c2 = c2
  s1 = s1
  Calls = {c1}
  Sessions = {s1}
  NoCall = NoCall
  NoSession = NoSession
  SessionOf <- OneCall
  Abortable = {c1}
SPECIFICATION FairSpec
PROPERTIES
  CallsEnd
  CommandsEnd
CHECK_DEADLOCK FALSE
