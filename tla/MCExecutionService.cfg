\* A driven execution and one run by Execute, with two cancellers; the manager
\* retains one, so that a verdict can be evicted before its event is out.
\* Without symmetry, for liveness.
SPECIFICATION FairSpec
CONSTANTS
  IDs = {e1, x1}
  SyncIDs = {x1}
  Cancellers = {k1, k2}
  NoID = NoID
  MaxRetained = 1
INVARIANTS
  NeverRefused LogInOrder NotAheadOfStatus CancelledByCaller
  OneCancelAccepted Cancellable NoLeak
PROPERTIES RunsEnd ContextDecides
CHECK_DEADLOCK FALSE
