\* One run of each of two clients, or two of one, that compete for its slot; one
\* is retained, so the run that ends first is evicted while its goroutine, or its
\* client, still uses it.  Without symmetry, for liveness.
SPECIFICATION FairSpec
CONSTANTS
  Runs = {r1, r2}
  Clients = {a, b}
  NoClient = NoClient
  MaxConcurrent = 1
  MaxRequests = 2
  Cancellers = {k}
  NoID = NoID
  MaxRetained = 1
INVARIANTS AcceptedIsKnown InFlightBounded
PROPERTIES SlotReturned
CHECK_DEADLOCK FALSE
