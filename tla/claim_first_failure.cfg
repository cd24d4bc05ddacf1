CONSTANTS
  Flows = 2
  Steps = 2
  Views = 1
SPECIFICATION Spec
INVARIANT StopsAtTheFirstFailure
CHECK_DEADLOCK FALSE
