\* Two callers over three IDs, three allocations: an ID is created again after
\* its eviction, two ended executions compete for eviction, and one Create
\* overshoots the limit of one.
SPECIFICATION Spec
CONSTANTS
  IDs = {i1, i2, i3}
  Objects = {o1, o2, o3}
  Callers = {c1, c2}
  None = None
  MaxRetained = 1
  MaxTime = 1
SYMMETRY Symmetry
INVARIANTS PointerNotStale RetentionBound
PROPERTIES EvictsOnlyEnded EvictsOldest VerdictIsFinal ImplementsLifecycle
