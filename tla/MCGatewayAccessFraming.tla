------------------------ MODULE MCGatewayAccessFraming ------------------------
(* The framing with a length field of two bits, so that the largest frame   *)
(* has three bytes, and payloads of all bytes the escaping treats specially *)
(* together with an ordinary one.                                           *)
EXTENDS GatewayAccessFraming

SpecialBytes == {\h7D, \h7E, \h5D, \h5E}
AllPayloads == BoundedSeq(SpecialBytes, MTU - 1)
LongestPayloads == {<<>>, <<\h7E, \h7E, \h7E>>}
AnyByte == {\h7D, \h7E, \h5E, \h81, \h90, 1}
NoNoise == {}  \* nothing but frames
===============================================================================
