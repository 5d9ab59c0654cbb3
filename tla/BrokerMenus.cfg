SPECIFICATION Spec
CONSTANTS
  Launches = {"resumed"}
  Hooks = {"input", "ask", "tool"}
  Requests = {"shutdown"}
  Failures = {"injection", "transcript"}
  MaxTools = 2
  MaxIds = 3
  MaxJobs = 3
  BudgetMax = 1
CHECK_DEADLOCK FALSE
INVARIANTS TypeOK MenuReported
PROPERTY ClaimKept
