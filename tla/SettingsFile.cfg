SPECIFICATION Spec
CONSTANTS
  Rest = {NoKeys, keys}
  NoKeys = NoKeys
  NoFile = NoFile
  Partial = Partial
  Written <- MCWritten
  Projects = {p1, p2}
  Faults = {"crash", "write", "unlink"}
  MaxTemps = 1
INVARIANTS
  NeverTorn
  SilenceMeansInEffect
PROPERTIES
  BackedUp
  OthersKept
