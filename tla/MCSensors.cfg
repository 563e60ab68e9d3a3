CONSTANTS
  Entities <- MCEntities
  Entries <- MCEntries
  Initial <- MCInitial
  Factor <- MCFactor
  Unit = 2
  Limit = 20
  None = None
  Null = Null
  Text = Text
  Overflows = Overflows
  MaxChanges = 2
  MaxFaults = 1
SPECIFICATION FairSpec
INVARIANTS TypeOK SensorsSorted ListedHasValues
PROPERTIES Converges
