CONSTANTS
  Flows = 2
  Steps = 2
  Views = 2
SPECIFICATION FairSpec
INVARIANTS
  TypeOK
  WaiterIsCurrent
  OrderlyWhenAlone
PROPERTY StepsEnd
CHECK_DEADLOCK FALSE
