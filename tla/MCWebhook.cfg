CONSTANTS
  Players = {p1, p2}
  NoPlayer = NoPlayer
  NoAvatar = NoAvatar
  NotBuilt = NotBuilt
  MaxReports = 4
  Capacity = 2
  CacheSize = 1
SPECIFICATION FairSpec
INVARIANTS
  AvatarIsOfThePlayer
PROPERTIES
  SinkSpec
  EveryReportSettles
