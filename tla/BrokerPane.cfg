SPECIFICATION Spec
CONSTANTS
  Launches = {"resumed"}
  Hooks = {"input", "permission"}
  Requests = {"send_prompt"}
  Failures = {}
  MaxTools = 0
  MaxIds = 1
  MaxJobs = 3
  BudgetMax = 1
CHECK_DEADLOCK FALSE
INVARIANT NothingTypedIntoPrompt
