CONSTANTS
  r1 = r1
  r2 = r2
  r3 = r3
  s1 = s1
  s2 = s2
  o1 = o1
  NoRequest = NoRequest
  Requests = {r1, r2, r3}
  Sessions = {s1, s2}
  SessionOf <- TwoTabs
  Grammars = {r1}
  Cancellable = {r3}
  Closing = {s2}
  Operators = {o1}
SPECIFICATION FairSpec
INVARIANTS
  TypeOK
  OnlyActiveIsServed
  QueueIsDriven
  FallbackSticks
  SlotMirrorsActive
PROPERTIES
  FirstComeFirstServed
  QueueDrains
CHECK_DEADLOCK FALSE
