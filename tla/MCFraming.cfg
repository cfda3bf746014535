\* Two frames under way, every payload of up to three bytes; then six bytes of
\* anything, after which the receiver may end up waiting for the rest of a frame
\* that never comes: that is no deadlock of the gateway.
CONSTANTS
  UpperField = 2
  LowerField = 2
  Payload <- AllPayloads
  MaxFrames = 2
  Noise <- AnyByte
  MaxNoise = 6
SPECIFICATION Spec
INVARIANTS TypeOK RoundTrip AcceptedFitsMTU
CHECK_DEADLOCK FALSE
