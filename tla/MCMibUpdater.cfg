CONSTANTS
  ReinitRate = 12
  Overrides = TRUE
SPECIFICATION FairSpec
INVARIANTS TypeOK BoundedOutage OutageRemembered
PROPERTIES Recovers
