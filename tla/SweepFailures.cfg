SPECIFICATION Spec
CONSTANTS
  u1 = u1
  u2 = u2
  s1 = s1
  s2 = s2
  o1 = o1
  None = None
  Libraries = {1}
  Users = {u1, u2}
  Songs = {s1}
  Orders = {o1}
  Contents <- TwoRatings
  Configs <- TwoUsers
  HomeOrder <- HomeO1
  LostUsers = {}
  InitialListing <- ListS1
  PageSize = 1
  MaxPairAttempts = 1
  TicksPerSecond = 1
  FaultKinds = {"heartbeat", "lookup", "save", "clear", "store", "crash", "refuse", "reload", "song", "list", "access"}
  HandRatings = {}
  InitialRatings = {5}
  MaxTime = 3
  MaxChanges = 1
  MaxFaults = 1
INVARIANTS
  ThresholdSound
  PositionSound
  GateSound
PROPERTY
  KeepsLedger
