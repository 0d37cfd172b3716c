CONSTANTS
  ReportInterval = 1
  StaleAfter = 3
  OfflineAfter = 4
SPECIFICATION FairSpec
INVARIANTS
  TypeOK
  WorkingIsShown
CHECK_DEADLOCK FALSE
PROPERTIES
  GoneIsOffline
  InstalledComesBack
