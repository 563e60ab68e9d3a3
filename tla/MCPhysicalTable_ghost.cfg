CONSTANTS
  Xcvrs = {}
  Psus = {}
  Drawers = {"drawer1"}
  Fans = {"fan1"}
  Thermals = {}
  Chassis = "chassis 1"
  Parent <- MCParent
  Position <- MCPosition
  ReinitRate = 0
  MaxChanges = 2
  MaxFaults = 0
SPECIFICATION Spec
INVARIANT RemovedFanIsGone
