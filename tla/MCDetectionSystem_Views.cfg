CONSTANTS
  Weapons = {ak47}
  Settings = {{"SILENTAIM", "INHUMAN ACCURACY"}, {"AIMBOT"}, {"AIMLOCK"}, {"ANTIAIM"}, {"IRREGULAR BEHAVIOR"}, {"NAMECHANGER"}, {"DLL INJECTION"}}
  MaxTick = 7
  MaxCommand = 7
  MaxConnections = 2
  MaxAhead = 1
  Horizon <- ViewsHorizon
  CommandLimit = 2
  ShotLimit = 2
  MaxShots = 1
  AimHistory = 2
  SnapWindow = 2
  Lags = {short, long}
  TrackingTicks = 3
  RearmTicks = 2
  AntiAimHistory = 3
  Threshold = 2
  InvalidWeight = 1
  ReturnWeight = 2
  SpinTicks <- Spin
  SpinSamples = 2
  JitterTicks = 1
  JitterSamples = 2
  BreakTicks = 1
  MismatchSpacing = 2
  GapTicks = 2
  PendingLimit = 2
  MinSuccesses = 1
  MinAttempts = 2
  MaxNameChanges = 2
  SlotCount = 2
  InitialDelay = 3
  ScanInterval = 3
SPECIFICATION Spec
CHECK_DEADLOCK FALSE
INVARIANTS
  TypeOK
  EvidenceIsOfThisConnection
  OnePerEpisode
  ReturnIsResolved
  TrackIsWhole
  NobodyStarves
PROPERTIES
  RearmedAfterABreak
