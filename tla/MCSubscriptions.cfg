\* Two clients subscribe, unsubscribe and receive what a node sends to the gateway.
CONSTANTS
  Conn = {c1, c2}
  NoLease = NoLease
  Gone = Gone
  Network = Network
  SendQueueLimit = 3
  ClientFrames <- SubscriptionFrames
  NodeMessages <- SubscriptionPackets
SPECIFICATION Spec
INVARIANTS TypeOK HandlersHoldLeases FramesMatchMode ClientKnowsItsState DeliveryJustified
SYMMETRY Symmetry
