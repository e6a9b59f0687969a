\* Liveness on two IDs and two callers, without symmetry; the clock stands
\* still, as nothing in the manager waits for it.
SPECIFICATION FairSpec
CONSTANTS
  IDs = {i1, i2}
  Objects = {o1, o2}
  Callers = {c1, c2}
  None = None
  MaxRetained = 1
  MaxTime = 0
PROPERTIES CallsReturn
