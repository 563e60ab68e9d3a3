CONSTANTS
  Pdus <- MCPdus
  Opens <- MCOpens
  None = None
  Session = Session
  Garbled = Garbled
  MaxPdus = 5
SPECIFICATION Spec
INVARIANTS TypeOK AnswersMatch ChunkIsHandled
