SPECIFICATION FairSpec
CONSTANTS
  Launches = {"resumed"}
  Hooks = {"input", "stop", "stop_failure", "watchdog"}
  Requests = {"dispatch", "send_prompt", "clarify"}
  Failures = {"hook", "pane"}
  MaxTools = 0
  MaxIds = 2
  MaxJobs = 3
  BudgetMax = 1
CHECK_DEADLOCK FALSE
INVARIANTS MasterAgrees ClarifyBound
PROPERTIES DecisionAnswered LostStopRecovered
