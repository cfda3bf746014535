------------------------ MODULE MCGatewayAccessServer -------------------------
(* Instances of the gateway access server, one set of frames and packets    *)
(* per question.  All addresses and service identifiers are the real ones.  *)
EXTENDS GatewayAccessServer, TLC

Service == \h10
JunkSSA == \h0007   \* a source address a client makes up

Subscribe(serviceId) ==
  SnetServiceMessage(\hB0, \hB0, PubSub!SubscribeRequest, JunkSSA, MulticastGateway, <<serviceId>>)
Unsubscribe(serviceId) ==
  SnetServiceMessage(\hB0, \hB0, PubSub!UnsubscribeRequest, JunkSSA, MulticastGateway, <<serviceId>>)
AddressRequest ==
  SnetServiceMessage(\hAF, \hAE, \h10, UnassignedAddr, MulticastAddressDatabase, <<\h25>>)
Packet(srcSSA, dstSSA) == SnetServiceMessage(Service, \h11, 1, srcSSA, dstSSA, <<>>)

InLength(message) == Frame("LENGTH", "data", message)
InEscaping(message) == Frame("ESCAPING", "0300", message)

(* Subscriptions, one by one and with the wildcard, in both formats.        *)
SubscriptionFrames ==
  {InLength(m) : m \in {Subscribe(Service), Unsubscribe(\hFF)}}
  \cup {InEscaping(m) : m \in {Subscribe(\hFF), Unsubscribe(Service)}}
SubscriptionPackets == {Packet(NodeSSA, MulticastGateway)}

NoPackets == {}

(* A bit of everything: an address query and a request to a node in one     *)
(* format, a subscription and a packet to whoever has subscribed in the     *)
(* other one, where nothing but the packets themselves fills the queue.     *)
ServiceFrames ==
  {InEscaping(AddressRequest), InEscaping(Packet(JunkSSA, NodeSSA)), InEscaping(NoPayload),
   InLength(Packet(JunkSSA, NonWsnAddr)), InLength(Subscribe(\hFF))}

(* A request to a node, and the empty frame that only selects the format.   *)
RequestFrames == {InLength(Packet(JunkSSA, NodeSSA)), InLength(NoPayload)}

(* A subscription, after a frame that leaves no room for its confirmation.  *)
ConfirmationFrames == {InEscaping(NoPayload), InEscaping(Subscribe(Service))}

Symmetry == Permutations(Conn)
===============================================================================
