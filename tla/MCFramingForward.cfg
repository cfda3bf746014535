\* The largest length-based frame is passed on to a client in escaping mode.
CONSTANTS
  UpperField = 2
  LowerField = 2
  Payload <- LongestPayloads
  MaxFrames = 1
  Noise <- NoNoise
  MaxNoise = 0
SPECIFICATION Spec
INVARIANT ForwardedFitsMTU
