SPECIFICATION Spec
CONSTANTS
  Launches = {"fresh", "resumed_completed"}
  Hooks = {"input", "stop", "permission", "watchdog", "session_end"}
  Requests = {"approve", "reactivate", "dispatch", "send_prompt"}
  Failures = {"pane", "llm", "master", "hook"}
  MaxTools = 0
  MaxIds = 2
  MaxJobs = 3
  BudgetMax = 1
CHECK_DEADLOCK FALSE
INVARIANTS OneDecisionTyped DrivingMeansResolved HandsOff ApprovalBlocks
