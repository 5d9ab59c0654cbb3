SPECIFICATION Spec
CONSTANTS
  Paths = {p1, p2}
  a = a
  b = b
  x = x
  y = y
  Contents <- MCContents
  Plain = Plain
  Absent = Absent
  Runs = {r1, r2}
  BatchMax = 1
  MaxEdits = 1
SYMMETRY Symmetry
CHECK_DEADLOCK FALSE
INVARIANT EdgesCurrent
