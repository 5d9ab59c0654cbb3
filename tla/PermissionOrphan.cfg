SPECIFICATION FairSpec
CONSTANTS
  MaxCalls = 2
  Kinds = 2
  Parallel = 1
  Failures = {}
CHECK_DEADLOCK FALSE
INVARIANT NoOrphan
