\* A request, its sender disconnects, a second client connects.
CONSTANTS
  Conn = {c1, c2}
  NoLease = NoLease
  Gone = Gone
  Network = Network
  SendQueueLimit = 1
  ClientFrames <- RequestFrames
  NodeMessages <- NoPackets
SPECIFICATION Spec
INVARIANT OnlyOwnResponses
