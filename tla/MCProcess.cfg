\* Two requests, and settings that are negative, zero, positive, unset or malformed.
SPECIFICATION FairProcessSpec
CONSTANTS
  HTTPRequests = {r1, r2}
  Numbers <- SmallNumbers
  Unset = Unset
  Malformed = Malformed
  Default <- SmallDefault
  Fallback <- SmallFallback
INVARIANTS WiredAsAssumed GracefulExit
PROPERTIES ProcessEnds
CHECK_DEADLOCK FALSE
