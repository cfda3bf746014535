\* The send queue is full when the confirmation of a subscription is due.
CONSTANTS
  Conn = {c1}
  NoLease = NoLease
  Gone = Gone
  Network = Network
  SendQueueLimit = 2
  ClientFrames <- ConfirmationFrames
  NodeMessages <- NoPackets
SPECIFICATION Spec
INVARIANT SubscriptionsConfirmed
