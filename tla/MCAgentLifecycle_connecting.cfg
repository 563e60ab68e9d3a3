CONSTANTS
  Updaters = {u1}
  Connections = {c1, c2}
  Signals = {s1}
  None = None
  BACKGROUND_WAIT_TIMEOUT = 4
  Frequency = 2
  Jitter = 1
  DynamicFrequency = FALSE
  UPDATE_RATE = 10
  MAX_UPDATE_INTERVAL = 60
  ExecTimes <- ExecTimesDef
SPECIFICATION FairSpec
PROPERTIES SignalLeadsToExit
