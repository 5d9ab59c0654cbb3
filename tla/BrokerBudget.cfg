SPECIFICATION Spec
CONSTANTS
  Launches = {"resumed"}
  Hooks = {"input", "ask", "stop"}
  Requests = {}
  Failures = {}
  MaxTools = 1
  MaxIds = 1
  MaxJobs = 3
  BudgetMax = 1
CHECK_DEADLOCK FALSE
INVARIANT BudgetRespected
