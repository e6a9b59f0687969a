\* Sizes around the lengths of the smallest bodies, counts around the limits.
SPECIFICATION AdmissionSpec
CONSTANTS
  Requests <- SmallRequests
  Bytes <- SmallBytes
  BaseLength <- SmallBodies
  Targets <- SmallTargets
  Bases <- SmallBases
  Field = 2
  MaxCount = 3
  MaxRequests = 3
  MaxRequestBodyBytes = 12
  MaxResponseBodyBytes = 12
  MaxAggregateRequestBytes = 24
  MaxAggregateResponseBytes = 24
INVARIANTS SizeIsMet AdmittedAsDeclared
CHECK_DEADLOCK FALSE
