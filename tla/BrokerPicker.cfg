SPECIFICATION Spec
CONSTANTS
  Launches = {"resumed"}
  Hooks = {"input", "ask", "watchdog"}
  Requests = {}
  Failures = {"injection"}
  MaxTools = 2
  MaxIds = 2
  MaxJobs = 3
  BudgetMax = 1
CHECK_DEADLOCK FALSE
INVARIANT PickerClaimed
