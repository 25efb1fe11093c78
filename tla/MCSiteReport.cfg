CONSTANTS
  MaxReports = 5
  Capacity = 3
SPECIFICATION FairSpec
INVARIANTS
  RequestServesHead
PROPERTIES
  SinkSpec
  EveryReportSettles
