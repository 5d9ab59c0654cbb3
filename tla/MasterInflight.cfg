SPECIFICATION Spec
CONSTANTS
  MaxSessions = 1
  EscalationIds = {e1}
  PaneIds = {}
  ProposalIds = {}
  Statuses = {}
  MaxDispatches = 1
  None = None
INVARIANT InflightIsUnconfirmed
