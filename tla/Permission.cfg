SPECIFICATION FairSpec
CONSTANTS
  MaxCalls = 2
  Kinds = 2
  Parallel = 2
  Failures = {"llm", "log", "hook", "master", "drop"}
CHECK_DEADLOCK FALSE
INVARIANTS OnRecord SlotIsShown
PROPERTY SlotSettles
