------------------------------- MODULE Routing --------------------------------
(***************************************************************************)
(* Routing.cpp: to which component a packet goes, given the component it   *)
(* came from and its two addresses.                                        *)
(***************************************************************************)
EXTENDS SnetServiceMessage

Component == {"HDLCD", "GWCLIENTS"}

(* Addressed to one of the services inside the gateway, or by the gateway   *)
(* or a client to the gateway itself: nobody takes it.                      *)
NotCaught(message) ==
  \/ message.dstSSA = MulticastAddressDatabase
  \/ message.dstSSA = MulticastGateway /\ message.srcSSA >= MulticastGateway

ForSensorNetwork(component, message) ==
  \/ message.dstSSA < MulticastGateway
  \/ message.dstSSA = WiredAddr /\ component = "GWCLIENTS"

PerformRouting(component, message) ==
  IF NotCaught(message) THEN "UNKNOWN"
  ELSE IF ForSensorNetwork(component, message) THEN "HDLCD"
  ELSE "GWCLIENTS"
===============================================================================
