\* Five requests of two clients over four instants: two windows pass, a client
\* is forgotten and comes back, and two slots are fought over.
SPECIFICATION Spec
CONSTANTS
  Requests = {r1, r2, r3, r4, r5}
  Clients = {a, b}
  NoClient = NoClient
  MaxConcurrent = 2
  MaxRequests = 2
  Window = 2
  MaxTime = 3
SYMMETRY Symmetry
INVARIANTS SlotsConserved TrailingWindow
PROPERTIES RefusedForCause
CHECK_DEADLOCK FALSE
