SPECIFICATION FairSpec
CONSTANTS
  Launches = {"resumed"}
  Hooks = {"input", "stop", "permission", "watchdog"}
  Requests = {}
  Failures = {"hook"}
  MaxTools = 0
  MaxIds = 1
  MaxJobs = 3
  BudgetMax = 1
CHECK_DEADLOCK FALSE
PROPERTY LostStopRecovered
