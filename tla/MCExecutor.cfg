\* Four requests for two tokens: two wait while two hold one.
SPECIFICATION FairSpec
CONSTANTS
  RequestCount = 4
  MaxConcurrent = 2
INVARIANTS TokensConserved NothingLeftBehind
PROPERTIES ImplementsPromise Returns
CHECK_DEADLOCK FALSE
