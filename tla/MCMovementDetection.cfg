CONSTANTS
  Grace = 1
  MaxMoves = 1
  MinAirTime = 2
  PatternWindow = 1
  MinSamples = 2
  WindowSize = 2
  PerfectChain = 2
  PatternScore = 1
  LowPattern = 2
  HighPattern = 1
  MaxPresses = 1
  MaxJumps = 2
  JumpWindow = 2
  SuspiciousBase = 2
  SuspiciousMin = 1
  Masks <- MCMasks
  NextMasks <- MCNextMasks
  Varies <- MCVaries
  MaxNumber <- MCMaxNumber
  MaxEvents = 4
  MinEvents = 3
  Required = 2
  MaxRequired = 3
  AnalogWeight = 2
  UnderlapLimit = 2
  UnderlapShare = 3
  Window <- MCWindow
  Threshold <- MCThreshold
  FrameHistory = 3
  OptimizerScore = 2
SPECIFICATION Spec
INVARIANTS
  CleanMeansJudged
  JumpsAreWhole
  EvidenceIsUnbroken
PROPERTIES
  PerfectInOneBound
  AccusedUnderTheseSettings
  AccusationsAreBacked
