CONSTANTS
  Updaters = {u1}
  Connections = {c1, c2}
  Signals = {s1}
  None = None
  BACKGROUND_WAIT_TIMEOUT = 10
  Frequency = 5
  Jitter = 2
  DynamicFrequency = TRUE
  UPDATE_RATE = 10
  MAX_UPDATE_INTERVAL = 60
  ExecTimes <- ExecTimesDef
SPECIFICATION FairSpec
PROPERTIES ShutdownEndsOrFails
