SPECIFICATION Spec
CONSTANTS
  c1 = c1
  c2 = c2
  c3 = c3
  None = None
  Chains = {c1, c2, c3}
  CallLimit = 2
  RetryDelay = 2
  Lag = 1
  SweepStaleAfter = 8
  MaxPairAttempts = 3
  MaxFaults = 3
SYMMETRY Symmetry
INVARIANTS
  ChainTypeOK
  OneChain
  GuardInv
PROPERTIES
  ImplementsLock
