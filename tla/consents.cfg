CONSTANTS
  c1 = c1
  c2 = c2
  c3 = c3
  c4 = c4
  s1 = s1
  s2 = s2
  Calls = {c1, c2, c3, c4}
  Sessions = {s1, s2}
  NoCall = NoCall
  NoSession = NoSession
  SessionOf <- TwoViews
SPECIFICATION ConsentSpec
INVARIANTS
  DialogIsCurrent
  OneViewHidesAtMost
CHECK_DEADLOCK FALSE
