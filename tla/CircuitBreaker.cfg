SPECIFICATION FairSpec
CONSTANTS
  Calls = {c1, c2, c3}
  failureThreshold = 2
  resetTimeout = 2
  MaxFailures = 4
INVARIANTS TypeOK
PROPERTIES ImplementsPolicy NeverStuckOpen
