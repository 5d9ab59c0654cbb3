\* A crash of the master while a broker reports to it.
CONSTANTS
  Sessions = {s1}
  MaxIds = 2
  MaxJobs = 2
  MaxFaults = 1
  Faults = {"crash"}
SPECIFICATION Spec
INVARIANT NeverRefused
