CONSTANTS
  Tables = {"ifTable", "ifXTable"}
  Ports = {1, 2}
  Lags = {1001}
  Vlans = {2010}
  Mgmt = {10000}
  Rifs = {61, 62}
  Owner <- MCOwner
  Width <- MCWidth
  Initial <- MCInitial
  None = None
  Raises = Raises
  MaxChanges = 3
  MaxFaults = 1
SPECIFICATION FairSpec
INVARIANTS TypeOK NotOvercounted NamesResolve
PROPERTIES Converges
