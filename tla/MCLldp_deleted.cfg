CONSTANTS
  Ports = {1, 2}
  Neighbours <- MCNeighbours
  Descriptions = {"uplink"}
  None = None
  Processes <- MCProcesses
  MaxChanges = 3
  MaxFaults = 0
SPECIFICATION Spec
INVARIANT DeletedIsGone
