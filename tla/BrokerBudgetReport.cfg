SPECIFICATION Spec
CONSTANTS
  Launches = {"resumed"}
  Hooks = {"input", "ask", "stop"}
  Requests = {"send_prompt"}
  Failures = {}
  MaxTools = 1
  MaxIds = 1
  MaxJobs = 3
  BudgetMax = 2
CHECK_DEADLOCK FALSE
INVARIANT BudgetAgrees
