SPECIFICATION FairSpec
CONSTANTS
  u1 = u1
  u2 = u2
  s1 = s1
  s2 = s2
  o1 = o1
  None = None
  Libraries = {1}
  Users = {u1, u2}
  Songs = {s1, s2}
  Orders = {o1}
  Contents <- TwoRatings
  Configs <- TwoUsers
  HomeOrder <- HomeO1
  LostUsers = {u1}
  InitialListing <- ListS1
  PageSize = 2
  MaxPairAttempts = 3
  TicksPerSecond = 1
  FaultKinds = {"crash", "reload", "refuse", "clear"}
  HandRatings = {}
  InitialRatings = {0}
  MaxTime = 2
  MaxChanges = 1
  MaxFaults = 2
PROPERTIES
  SweepEnds
  RatingsArrive
INVARIANTS
  TypeOK
  OneSweep
  HuntNamesCulprit
  PositionSound
  NoFalseAlarm
