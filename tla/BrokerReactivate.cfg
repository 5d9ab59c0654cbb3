SPECIFICATION Spec
CONSTANTS
  Launches = {"resumed_completed"}
  Hooks = {"input", "stop"}
  Requests = {"reactivate", "send_prompt"}
  Failures = {}
  MaxTools = 0
  MaxIds = 1
  MaxJobs = 4
  BudgetMax = 1
CHECK_DEADLOCK FALSE
INVARIANT OneReactivation
