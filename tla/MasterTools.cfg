SPECIFICATION Spec
CONSTANTS
  MaxSessions = 2
  EscalationIds = {e1, e2}
  PaneIds = {}
  ProposalIds = {r1}
  Statuses = {"driving"}
  MaxDispatches = 1
  None = None
SYMMETRY SymmetricIds
INVARIANTS OneLivePerSession InflightNeverWaits
PROPERTIES StrictFifo ShownUntilGone
CONSTRAINT FirstLife
