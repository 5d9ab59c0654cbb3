SPECIFICATION Spec
CONSTANTS
  MaxSessions = 2
  EscalationIds = {e1, e2}
  PaneIds = {p1, p2}
  ProposalIds = {}
  Statuses = {"driving"}
  MaxDispatches = 0
  None = None
SYMMETRY SymmetricIds
INVARIANTS QueuedSessionKnown HeadAnnounced
CONSTRAINT PanesOrStatuses
