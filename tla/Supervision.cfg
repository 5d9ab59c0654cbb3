\* Two sessions, two escalations; one call may outlive its timeout, and dispatch
\* may read its ACK after the confirmation.
CONSTANTS
  Sessions = {s1, s2}
  MaxIds = 2
  MaxJobs = 1
  MaxFaults = 1
  Faults = {"slow", "late_ack"}
SPECIFICATION Spec
INVARIANT NeverRefused
PROPERTIES ImplementsLife
