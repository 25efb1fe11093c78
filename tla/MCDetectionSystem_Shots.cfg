CONSTANTS
  Weapons = {ak47}
  Settings = {{"SILENTAIM", "INHUMAN ACCURACY"}, {"AIMBOT"}, {"IRREGULAR BEHAVIOR"}}
  MaxTick = 4
  MaxCommand = 3
  MaxConnections = 1
  MaxAhead = 1
  Horizon <- ShotsHorizon
  CommandLimit = 2
  ShotLimit = 2
  MaxShots = 3
  AimHistory = 3
  SnapWindow = 2
  Lags = {short, long}
  TrackingTicks = 3
  RearmTicks = 2
  AntiAimHistory = 3
  Threshold = 2
  InvalidWeight = 1
  ReturnWeight = 2
  SpinTicks <- Spin
  SpinSamples = 2
  JitterTicks = 1
  JitterSamples = 2
  BreakTicks = 1
  MismatchSpacing = 2
  GapTicks = 2
  PendingLimit = 2
  MinSuccesses = 1
  MinAttempts = 2
  MaxNameChanges = 2
  SlotCount = 2
  InitialDelay = 3
  ScanInterval = 3
SPECIFICATION Spec
CHECK_DEADLOCK FALSE
INVARIANTS
  OneShotPerCommand
  JudgedOnce
  HitsAreJudged
  SnapCountsOnce
  KillFindsItsAttempt
PROPERTIES
  FrozenOnceJudged
  JudgedBeforePruned
