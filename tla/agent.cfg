CONSTANTS
  r1 = r1
  r2 = r2
  v1 = v1
  Requests = {r1, r2}
  Views = {v1}
  NoRequest = NoRequest
  NoView = NoView
  ViewOf <- TwoOfOneView
  Stoppable = {r1}
  MaxSteps <- TwoAndOne
  MaxStrikes = 2
  MaxParts <- TwoOfTheFirst
  MaxDepth = 2
  MaxReads <- TwoOfTheFirst
SPECIFICATION Spec
INVARIANTS TypeOK 
PROPERTIES AskedWhenAlone RequestsEnd
CHECK_DEADLOCK FALSE
