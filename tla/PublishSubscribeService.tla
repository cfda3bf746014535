----------------------- MODULE PublishSubscribeService ------------------------
(***************************************************************************)
(* PublishSubscribeService.cpp: the subscriptions of one gateway client,   *)
(* a bitset over all 256 service identifiers, and the replies that confirm *)
(* each change.  0xFF stands for all of them.                              *)
(***************************************************************************)
EXTENDS SnetServiceMessage

SubscribeRequest == \h10
SubscribeReply == \h11
UnsubscribeRequest == \h20
UnsubscribeReply == \h21

(* Mutant: the wildcard sets one bit too many. *)
DenotedOffByOne(serviceId) == IF serviceId = \hFF THEN 0..\h100 ELSE {serviceId}

(* The bits a service identifier stands for. *)
Denoted(serviceId) == IF serviceId = \hFF THEN ServiceId ELSE {serviceId}

IsRequest(message, token) ==
  /\ message.dstSSA = MulticastGateway
  /\ message.dstServiceId = \hB0
  /\ Len(message.payload) = 1
  /\ message.token = token

Confirmation(token, message, address) ==
  SnetServiceMessage(\hB0, \hB0, token, MulticastGateway, address, <<message.payload[1], 0>>)

(* ProcessRequest: the reply, and what the subscriptions have become. *)
Reply(message, address) ==
  IF IsRequest(message, SubscribeRequest) THEN Confirmation(SubscribeReply, message, address)
  ELSE IF IsRequest(message, UnsubscribeRequest)
       THEN Confirmation(UnsubscribeReply, message, address)
  ELSE EmptyMessage

(* Mutant: unsubscribing does not know the wildcard. *)
ResubscribedWithoutWildcard(subscribed, message) ==
  IF IsRequest(message, SubscribeRequest) THEN subscribed \cup Denoted(message.payload[1])
  ELSE IF IsRequest(message, UnsubscribeRequest) THEN subscribed \ {message.payload[1]}
  ELSE subscribed

Resubscribed(subscribed, message) ==
  IF IsRequest(message, SubscribeRequest) THEN subscribed \cup Denoted(message.payload[1])
  ELSE IF IsRequest(message, UnsubscribeRequest) THEN subscribed \ Denoted(message.payload[1])
  ELSE subscribed
===============================================================================
