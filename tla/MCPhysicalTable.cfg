CONSTANTS
  Xcvrs = {"Ethernet0"}
  Psus = {}
  Drawers = {"drawer1"}
  Fans = {"fan1"}
  Thermals = {}
  Chassis = "chassis 1"
  Parent <- MCParent
  Position <- MCPosition
  ReinitRate = 0
  MaxChanges = 2
  MaxFaults = 1
SPECIFICATION FairSpec
INVARIANTS TypeOK Removable WaitsForAbsentParent Agreement
PROPERTIES Converges
