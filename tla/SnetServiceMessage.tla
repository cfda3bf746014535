-------------------------- MODULE SnetServiceMessage --------------------------
(***************************************************************************)
(* An s-net service message, as far as the gateway looks into it.  The     *)
(* class itself is not part of the repository: what is here is what the    *)
(* code uses of it.  Header fields the gateway never reads are left out; a *)
(* payload is kept byte by byte only where one of the services reads it.   *)
(***************************************************************************)
EXTENDS Integers, Sequences

Byte == 0..\hFF
ServiceId == Byte
Token == Byte

(* The short addresses with a meaning of their own (doc/protocol.md).       *)
MulticastDirectChildren == \h3FF8
MulticastAddressDatabase == \h3FFC
UnassignedAddr == \h3FFF
MulticastGateway == \h4000
WiredAddr == \hFFFE
NonWsnAddr == \hFFFF

SSA == 0..NonWsnAddr    \* s-net short addresses

SnetServiceMessage(srcServiceId, dstServiceId, token, srcSSA, dstSSA, payload) ==
  [srcServiceId |-> srcServiceId, dstServiceId |-> dstServiceId, token |-> token,
   srcSSA |-> srcSSA, dstSSA |-> dstSSA, payload |-> payload]

Message == [srcServiceId : ServiceId, dstServiceId : ServiceId, token : Token,
            srcSSA : SSA, dstSSA : SSA, payload : Seq(Byte)]

(* What a default-constructed message looks like to its users: neither      *)
(* service ever takes it for a reply.                                       *)
EmptyMessage == SnetServiceMessage(0, 0, 0, 0, 0, <<>>)
===============================================================================
