\* Five requests of one client over four instants: enough for a late decision
\* to put three admissions into a window that may hold two, however dated.
SPECIFICATION HistorySpec
CONSTANTS
  Requests = {r1, r2, r3, r4, r5}
  Clients = {a}
  NoClient = NoClient
  MaxConcurrent = 5
  MaxRequests = 2
  Window = 2
  MaxTime = 3
SYMMETRY Symmetry
INVARIANTS EveryWindow
CHECK_DEADLOCK FALSE
