SPECIFICATION SpecAnyConfig
CONSTANTS
  u1 = u1
  u2 = u2
  s1 = s1
  s2 = s2
  o1 = o1
  None = None
  Libraries = {1}
  Users = {u1}
  Songs = {s1, s2}
  Orders = {o1}
  Contents <- OneFile
  Configs <- DryOrNot
  HomeOrder <- HomeO1
  LostUsers = {}
  InitialListing <- ListS12
  PageSize = 1
  MaxPairAttempts = 3
  TicksPerSecond = 1
  FaultKinds = {}
  HandRatings = {}
  InitialRatings = {0}
  MaxTime = 2
  MaxChanges = 2
  MaxFaults = 1
INVARIANTS
  ThresholdSound
