---------------------------- MODULE AddressService ----------------------------
(***************************************************************************)
(* AddressService.cpp: the reply that tells a gateway client the address   *)
(* it was assigned when it connected.  The service only queries the lease, *)
(* it never assigns.  The UUID, which is copied from the request into the  *)
(* reply, is left out of both payloads.                                    *)
(***************************************************************************)
EXTENDS SnetServiceMessage

IsAddressRequest(message) ==
  /\ message.srcSSA = UnassignedAddr
  /\ message.dstSSA = MulticastAddressDatabase
  /\ message.srcServiceId = \hAF
  /\ message.dstServiceId = \hAE
  /\ message.token = \h10

(* Mutant: the address in host byte order. *)
AddressAssignmentReplySwapped(address) ==
  SnetServiceMessage(\hAE, \hAF, \h20, MulticastGateway, MulticastDirectChildren,
                     <<0, address % \h100, address \div \h100>>)

(* Status byte, then the address in network byte order. *)
AddressAssignmentReply(address) ==
  SnetServiceMessage(\hAE, \hAF, \h20, MulticastGateway, MulticastDirectChildren,
                     <<0, address \div \h100, address % \h100>>)

ProcessRequest(message, address) ==
  IF IsAddressRequest(message) THEN AddressAssignmentReply(address) ELSE EmptyMessage
===============================================================================
