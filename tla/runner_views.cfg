CONSTANTS
  v1 = v1
  v2 = v2
  v3 = v3
  pa = pa
  pb = pb
  r1 = r1
  r2 = r2
  r3 = r3
  NoRequest = NoRequest
  NoView = NoView
  Requests = {r1, r2, r3}
  Views = {v1, v2, v3}
  Panes = {pa, pb}
  PaneOf <- ViewPane
  InitialViews = {v1}
  MaxStops = 1
SYMMETRY Symmetric
SPECIFICATION Spec
INVARIANTS
  TypeOK
  BusyIsJustified
  ShownRequestIsPending
  EachRequestInOnePlace
  HandoverIsLive
PROPERTIES
  PausedQueueIsHeld
  ServiceSpec
