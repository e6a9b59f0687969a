\* Two clients with channels of one event, and an execution of three events; connections
\* fail at any moment and clients stall as they like.
SPECIFICATION FairSpec
CONSTANTS
  Executions = {e1}
  Subscriptions = {s1, s2}
  None = None
  BufferSize = 1
  HistorySize = 3
  MaxRetained = 1
  MaxEvents = 3
INVARIANTS EndsClean
PROPERTIES ImplementsStream HandlerEnds EventsArrive PublishReturns
CHECK_DEADLOCK FALSE
