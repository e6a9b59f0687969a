\* A second run arrives when the first has ended.
SPECIFICATION Spec
CONSTANTS
  Runs = {r1, r2}
  Clients = {a}
  NoClient = NoClient
  MaxConcurrent = 1
  MaxRequests = 2
  Cancellers = {k}
  NoID = NoID
  MaxRetained = 1
INVARIANTS AdmittedOnceEnded
CHECK_DEADLOCK FALSE
