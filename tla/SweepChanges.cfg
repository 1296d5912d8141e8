SPECIFICATION Spec
CONSTANTS
  u1 = u1
  u2 = u2
  s1 = s1
  s2 = s2
  o1 = o1
  None = None
  Libraries = {1}
  Users = {u1, u2}
  Songs = {s1, s2}
  Orders = {o1}
  Contents <- TagOrNothing
  Configs <- ManyConfigs
  HomeOrder <- HomeO1
  LostUsers = {}
  InitialListing <- ListS1
  PageSize = 2
  MaxPairAttempts = 3
  TicksPerSecond = 1
  FaultKinds = {}
  HandRatings = {0}
  InitialRatings = {0}
  MaxTime = 3
  MaxChanges = 2
  MaxFaults = 0
INVARIANTS
  ThresholdSound
  PositionSound
  IInv
