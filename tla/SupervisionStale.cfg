\* A notification slower than the broker's patience.
CONSTANTS
  Sessions = {s1}
  MaxIds = 1
  MaxJobs = 1
  MaxFaults = 1
  Faults = {"slow"}
SPECIFICATION Spec
PROPERTIES TypedWhileShown
