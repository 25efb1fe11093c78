CONSTANTS
  Services = {service}
  System = System
  Timeout = 2
  BufferLimit = 3
SPECIFICATION FairSpec
INVARIANTS
  FinishedLoadIsReported
  AnnouncedIsCurrent
PROPERTIES
  LoadEnds
