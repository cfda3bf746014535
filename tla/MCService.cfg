\* Two clients use all the gateway offers, in either format, until a signal ends it at any point.
CONSTANTS
  Conn = {c1, c2}
  NoLease = NoLease
  Gone = Gone
  Network = Network
  SendQueueLimit = 2
  ClientFrames <- ServiceFrames
  NodeMessages <- NoPackets
SPECIFICATION Spec
INVARIANTS ReturnPathIntact ClientKnowsItsState StoppedClean
PROPERTIES ShutdownCompletes ImplementsMessageService
