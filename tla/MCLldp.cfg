CONSTANTS
  Ports = {1, 2}
  Neighbours <- MCNeighbours
  Descriptions = {"uplink"}
  None = None
  Processes <- MCProcesses
  MaxChanges = 3
  MaxFaults = 1
SPECIFICATION FairSpec
INVARIANTS TypeOK AddressesListed RemTableSorted ValuesAreListed
PROPERTIES LocPortsImplement RemTableImplements Converges
