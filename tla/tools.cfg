CONSTANTS
  c1 = c1
  c2 = c2
  s1 = s1
  Calls = {c1, c2}
  Sessions = {s1}
  NoCall = NoCall
  NoSession = NoSession
  SessionOf <- OneView
  Abortable = {c1}
SPECIFICATION Spec
INVARIANTS
  TypeOK
  PendingIsAwaited
  RunToCancelIsPending
  OutcomeIsHonest
PROPERTIES
  ReportIsTrue
  GateSpec
CHECK_DEADLOCK FALSE
