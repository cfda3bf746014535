---------------------- MODULE MCGatewayAccessConnection -----------------------
(* One connection with three frames of every kind from the client and one   *)
(* or two unsolicited packets.  In MCGatewayAccessConnection.cfg the send   *)
(* queue has room for all that can be sent, in                              *)
(* MCGatewayAccessCongestion.cfg for two frames.                            *)
EXTENDS GatewayAccessConnection
===============================================================================
