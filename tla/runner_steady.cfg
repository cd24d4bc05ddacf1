CONSTANTS
  v1 = v1
  v2 = v2
  v3 = v3
  pa = pa
  pb = pb
  r1 = r1
  r2 = r2
  r3 = r3
  NoRequest = NoRequest
  NoView = NoView
  Requests = {r1, r2, r3}
  Views = {v1, v3}
  Panes = {pa, pb}
  PaneOf <- TwoPanes
  InitialViews = {v1, v3}
  MaxStops = 1
SPECIFICATION SteadySpec
INVARIANTS
  QueueIsDriven
PROPERTIES
  QueueMoves
  RequestsEnd
