SPECIFICATION Spec
CONSTANTS
  Launches = {"resumed"}
  Hooks = {"input", "ask", "stop", "watchdog"}
  Requests = {}
  Failures = {}
  MaxTools = 1
  MaxIds = 2
  MaxJobs = 4
  BudgetMax = 1
CHECK_DEADLOCK FALSE
INVARIANT MenuAgrees
