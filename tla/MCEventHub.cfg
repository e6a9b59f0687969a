\* Three executions of which two are retained, three events each, and channels
\* of one event: replays overflow, histories are evicted and come back.
SPECIFICATION Spec
CONSTANTS
  Executions = {e1, e2, e3}
  Subscriptions = {s1, s2}
  None = None
  BufferSize = 1
  HistorySize = 2
  MaxRetained = 2
  MaxEvents = 3
SYMMETRY Symmetry
INVARIANTS InOrderOnce NothingMissed NoSendAfterClose HistoryConsistent
CHECK_DEADLOCK FALSE
