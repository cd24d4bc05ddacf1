CONSTANTS
  Callers = {c1, c2}
  Chunks = 3
  MaxRetries = 1
  MaxStarts = 3
  NoCaller = NoCaller
SPECIFICATION FairSpec
INVARIANTS
  TypeOK
  FileIsWhole
PROPERTIES
  ProgressIsKept
  ServiceSpec
  CallsEnd
