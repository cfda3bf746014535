-------------------------- MODULE GatewayAccessServer -------------------------
(***************************************************************************)
(* The gateway access server: the handlers of all client connections with  *)
(* their collection, on top of the protocol entity, the address pool, the  *)
(* two services and the routing entity, down to the end of the process.    *)
(*                                                                         *)
(* One thread runs the event loop, so each callback is one action.  A      *)
(* value of Conn is a slot for a handler object: a later connection may    *)
(* use the slot of an earlier one.  The sensor network behind the HDLC     *)
(* daemons answers a request any number of times, at any later time or     *)
(* never (a request is also lost while no daemon is connected).            *)
(***************************************************************************)
EXTENDS GatewayAccessProtocol, Routing, FiniteSets, SequencesExt

CONSTANTS
  Conn,           \* the handlers that can exist at the same time
  NoLease,        \* the null shared_ptr<AddressLease>
  ClientFrames,   \* what clients may send
  NodeMessages,   \* what sensor nodes may send unasked
  Gone, Network   \* origins of a packet other than a connected client

ASSUME OriginAssumption == Gone \notin Conn /\ Network \notin Conn /\ Gone # Network
ASSUME FrameAssumption ==
  ClientFrames \subseteq [framing : {"ESCAPING", "LENGTH"}, id : STRING,
                         payload : Message \cup {NoPayload}]
ASSUME NodeAssumption == NodeMessages \subseteq Message
ASSUME LeaseAssumption == NoLease \notin SSA /\ IsFiniteSet(Conn)

VARIABLES
  m_NextFreeAddress, m_ReleasedAddresses, m_AddressLease,   \* the pool
  m_Registered,                        \* the handler's flag
  m_GatewayAccessServerHandlerList,    \* the collection; its order is not observable
  m_eFramingMode,
  m_SubscribedServiceIds,
  sendQueue,      \* per connection, the frames the client has not received yet
  congested,      \* the queue has been full: frames may have been refused
  view,           \* what the client knows from the frames it has received
  requests,       \* packets handed to the HDLC daemons, with their origin
  phase           \* of the process: event loop, shutdown sequence, end

poolVars == <<m_NextFreeAddress, m_ReleasedAddresses, m_AddressLease>>
collectionVars == <<m_Registered, m_GatewayAccessServerHandlerList>>
handlerVars == <<m_eFramingMode, m_SubscribedServiceIds>>
deliveryVars == <<sendQueue, congested>>
vars == <<poolVars, collectionVars, handlerVars, deliveryVars, view, requests, phase>>

FirstClientSSA == MulticastGateway + 1   \* 0x4001
FirstGroupSSA == \hFFF0                  \* from here on the subscriptions decide
SSAModulus == NonWsnAddr + 1             \* the range of uint16_t

Pool == INSTANCE AddressPool
          WITH Lessee <- Conn, FirstAddress <- FirstClientSSA, ReservedFrom <- FirstGroupSSA,
               Modulus <- SSAModulus
Addresses == INSTANCE AddressService
PubSub == INSTANCE PublishSubscribeService

NodeSSA == \h0001    \* the address from which the network answers

ClientSSA(ssa) == ssa > MulticastGateway /\ ssa < FirstGroupSSA
GroupSSA(ssa) == ssa = MulticastGateway \/ ssa >= FirstGroupSSA

NothingKnown == [ssa |-> NoLease, subscribed |-> {}]

Init ==
  /\ Pool!Init
  /\ m_Registered = [c \in Conn |-> FALSE]
  /\ m_GatewayAccessServerHandlerList = {}
  /\ m_eFramingMode = [c \in Conn |-> "UNKNOWN"]
  /\ m_SubscribedServiceIds = [c \in Conn |-> {}]
  /\ sendQueue = [c \in Conn |-> <<>>]
  /\ congested = [c \in Conn |-> FALSE]
  /\ view = [c \in Conn |-> NothingKnown]
  /\ requests = {}
  /\ phase = "running"

-------------------------------------------------------------------------------
(* The life of a handler.                                                   *)

(* DoAccept and Start: a new handler obtains a lease and registers itself.  *)
Accept(c) ==
  /\ phase = "running" /\ ~m_Registered[c]
  /\ Pool!ObtainAddressLease(c)
  /\ m_Registered' = [m_Registered EXCEPT ![c] = TRUE]
  /\ m_GatewayAccessServerHandlerList' = m_GatewayAccessServerHandlerList \cup {c}
  /\ UNCHANGED <<handlerVars, deliveryVars, view, requests, phase>>

(* The handler object is destroyed: the slot is as good as new. *)
Destroy(c) ==
  /\ m_eFramingMode' = [m_eFramingMode EXCEPT ![c] = "UNKNOWN"]
  /\ m_SubscribedServiceIds' = [m_SubscribedServiceIds EXCEPT ![c] = {}]
  /\ sendQueue' = [sendQueue EXCEPT ![c] = <<>>]
  /\ congested' = [congested EXCEPT ![c] = FALSE]
  /\ view' = [view EXCEPT ![c] = NothingKnown]

(* Mutant: the handler is not deregistered from the collection. *)
CloseStillListed(c) ==
  /\ m_Registered[c]
  /\ m_Registered' = [m_Registered EXCEPT ![c] = FALSE]
  /\ Pool!ReleaseAddressLease(c)
  /\ Destroy(c)
  /\ requests' = {IF r.origin = c THEN [r EXCEPT !.origin = Gone] ELSE r : r \in requests}
  /\ UNCHANGED m_GatewayAccessServerHandlerList

(* Mutant: the lease object outlives the handler. *)
CloseKeepsLease(c) ==
  /\ m_Registered[c]
  /\ m_Registered' = [m_Registered EXCEPT ![c] = FALSE]
  /\ m_GatewayAccessServerHandlerList' = m_GatewayAccessServerHandlerList \ {c}
  /\ Destroy(c)
  /\ requests' = {IF r.origin = c THEN [r EXCEPT !.origin = Gone] ELSE r : r \in requests}
  /\ UNCHANGED poolVars

(* Mutant: the test of m_Registered is inverted, nothing is closed. *)
CloseInverted(c) ==
  /\ m_Registered[c]
  /\ UNCHANGED <<poolVars, collectionVars, handlerVars, deliveryVars, view, requests>>

(* Close: the lease goes back to the pool, the collection drops its pointer *)
(* to the handler.  What the client sent into the network stays there.      *)
Close(c) ==
  /\ m_Registered[c]
  /\ m_Registered' = [m_Registered EXCEPT ![c] = FALSE]
  /\ Pool!ReleaseAddressLease(c)
  /\ m_GatewayAccessServerHandlerList' = m_GatewayAccessServerHandlerList \ {c}
  /\ Destroy(c)
  /\ requests' = {IF r.origin = c THEN [r EXCEPT !.origin = Gone] ELSE r : r \in requests}

(* The client hangs up, or the connection breaks. *)
OnClosed(c) == phase = "running" /\ Close(c) /\ UNCHANGED phase

-------------------------------------------------------------------------------
(* From the routing entity to the clients.                                  *)

(* Mutant: the subscriptions are not asked. *)
ForThisClientUnfiltered(c, message) ==
  ClientSSA(message.dstSSA) => message.dstSSA = m_AddressLease[c]

(* The filters of GatewayAccessServerHandler::Send. *)
ForThisClient(c, message) ==
  /\ ClientSSA(message.dstSSA) => message.dstSSA = m_AddressLease[c]
  /\ GroupSSA(message.dstSSA) => message.srcServiceId \in m_SubscribedServiceIds[c]

(* Mutant: the loop over the handlers ends with the first one that takes it.*)
DeliveredToOne(queue, mode, message) ==
  LET takers == {c \in m_GatewayAccessServerHandlerList : ForThisClient(c, message)}
  IN  [c \in Conn |-> IF c \in takers /\ c = CHOOSE t \in takers : TRUE
                      THEN Sent(mode[c], queue[c], message) ELSE queue[c]]

Delivered(queue, mode, message) ==
  [c \in Conn |-> IF c \in m_GatewayAccessServerHandlerList /\ ForThisClient(c, message)
                  THEN Sent(mode[c], queue[c], message) ELSE queue[c]]

Transmit(queue) ==
  /\ sendQueue' = queue
  /\ congested' = [c \in Conn |-> congested[c] \/ Len(queue[c]) >= SendQueueLimit]

RouteSnetPacket(component, origin, message, queue, mode) ==
  LET destination == PerformRouting(component, message)
  IN  /\ Transmit(IF destination = "GWCLIENTS" THEN Delivered(queue, mode, message) ELSE queue)
      /\ requests' = IF destination = "HDLCD"
                     THEN requests \cup {[origin |-> origin, message |-> message]}
                     ELSE requests

-------------------------------------------------------------------------------
(* One frame from a client.                                                 *)

Acknowledge(c, frame) == [sendQueue EXCEPT ![c] = Acknowledged(@, frame)]

Answer(c, frame, reply) == [Acknowledge(c, frame) EXCEPT ![c] = Sent(frame.framing, @, reply)]

FrameArrives(c, frame) ==
  /\ phase = "running" /\ m_Registered[c]
  /\ Accepts(m_eFramingMode[c], frame)
  /\ m_eFramingMode' = [m_eFramingMode EXCEPT ![c] = frame.framing]
  /\ UNCHANGED <<poolVars, collectionVars, view, phase>>

(* A session command, or a payload that is no s-net message. *)
OnFrameWithoutMessage(c, frame) ==
  /\ FrameArrives(c, frame)
  /\ ~CarriesData(frame) \/ frame.payload = NoPayload
  /\ Transmit(Acknowledge(c, frame))
  /\ UNCHANGED <<m_SubscribedServiceIds, requests>>

MessageArrives(c, frame) ==
  /\ FrameArrives(c, frame)
  /\ CarriesData(frame) /\ frame.payload # NoPayload

OnPayloadForAddressService(c, frame) ==
  /\ MessageArrives(c, frame)
  /\ frame.payload.dstSSA = MulticastAddressDatabase
  /\ LET reply == Addresses!ProcessRequest(frame.payload, m_AddressLease[c])
     IN  Transmit(IF reply.srcServiceId = \hAE THEN Answer(c, frame, reply)
                  ELSE Acknowledge(c, frame))
  /\ UNCHANGED <<m_SubscribedServiceIds, requests>>

OnPayloadForPublishSubscribe(c, frame) ==
  /\ MessageArrives(c, frame)
  /\ frame.payload.dstSSA = MulticastGateway
  /\ LET reply == PubSub!Reply(frame.payload, m_AddressLease[c])
     IN  Transmit(IF reply.srcServiceId = \hB0 THEN Answer(c, frame, reply)
                  ELSE Acknowledge(c, frame))
  /\ m_SubscribedServiceIds' =
       [m_SubscribedServiceIds EXCEPT ![c] = PubSub!Resubscribed(@, frame.payload)]
  /\ UNCHANGED requests

(* Mutant: the packet keeps the source address the client put in. *)
MasqueradedNot(c, message) == message

(* Masquerading: the source address is the client's own, whatever it chose. *)
Masqueraded(c, message) ==
  IF message.srcSSA = WiredAddr THEN message
  ELSE [message EXCEPT !.srcSSA = m_AddressLease[c]]

OnPayloadForRouting(c, frame) ==
  /\ MessageArrives(c, frame)
  /\ frame.payload.dstSSA \notin {MulticastAddressDatabase, MulticastGateway}
  /\ RouteSnetPacket("GWCLIENTS", c, Masqueraded(c, frame.payload),
                     Acknowledge(c, frame), m_eFramingMode')
  /\ UNCHANGED m_SubscribedServiceIds

(* A frame of the wrong format, or with an unknown identifier. *)
OnProtocolViolation(c, frame) ==
  /\ phase = "running"
  /\ ~Accepts(m_eFramingMode[c], frame)
  /\ Close(c)
  /\ UNCHANGED phase

OnFrame(c, frame) ==
  \/ OnFrameWithoutMessage(c, frame)
  \/ OnPayloadForAddressService(c, frame)
  \/ OnPayloadForPublishSubscribe(c, frame)
  \/ OnPayloadForRouting(c, frame)
  \/ OnProtocolViolation(c, frame)

-------------------------------------------------------------------------------
(* The client reads: replies of the services tell it what it is subscribed  *)
(* to and which address it has.                                             *)
IsReply(message, srcServiceId, token) ==
  /\ message.srcSSA = MulticastGateway
  /\ message.srcServiceId = srcServiceId
  /\ message.token = token

Learn(known, frame) ==
  LET message == frame.payload
      denoted == PubSub!Denoted(message.payload[1])
  IN  IF frame.payload = NoPayload THEN known
      ELSE IF IsReply(message, \hB0, PubSub!SubscribeReply)
           THEN [known EXCEPT !.subscribed = @ \cup denoted]
      ELSE IF IsReply(message, \hB0, PubSub!UnsubscribeReply)
           THEN [known EXCEPT !.subscribed = @ \ denoted]
      ELSE IF IsReply(message, \hAE, \h20)
           THEN [known EXCEPT !.ssa = message.payload[2] * \h100 + message.payload[3]]
      ELSE known

ClientReceives(c) ==
  /\ phase = "running" /\ sendQueue[c] # <<>>
  /\ view' = [view EXCEPT ![c] = Learn(@, Head(sendQueue[c]))]
  /\ sendQueue' = [sendQueue EXCEPT ![c] = Tail(@)]
  /\ UNCHANGED <<poolVars, collectionVars, handlerVars, congested, requests, phase>>

-------------------------------------------------------------------------------
(* The sensor network: packets from an HDLC daemon enter the routing entity.*)
OnSnetPacket(message) ==
  /\ phase = "running"
  /\ RouteSnetPacket("HDLCD", Network, message, sendQueue, m_eFramingMode)
  /\ UNCHANGED <<poolVars, collectionVars, handlerVars, view, phase>>

ReplyTo(request) ==
  SnetServiceMessage(request.dstServiceId, request.srcServiceId, request.token,
                     NodeSSA, request.srcSSA, <<>>)

NodeReplies == \E r \in requests : r.origin # Network /\ OnSnetPacket(ReplyTo(r.message))

NodeSends == \E message \in NodeMessages : OnSnetPacket(message)

-------------------------------------------------------------------------------
(* The end: a signal stops the event loop, then the collection closes the   *)
(* handlers one after the other until its list is empty.                    *)
Stop ==
  /\ phase = "running"
  /\ phase' = "stopping"
  /\ UNCHANGED <<poolVars, collectionVars, handlerVars, deliveryVars, view, requests>>

ShutdownClosesOne ==
  /\ phase = "stopping"
  /\ \E c \in m_GatewayAccessServerHandlerList : Close(c)
  /\ UNCHANGED phase

ShutdownEnds ==
  /\ phase = "stopping" /\ m_GatewayAccessServerHandlerList = {}
  /\ phase' = "stopped"
  /\ UNCHANGED <<poolVars, collectionVars, handlerVars, deliveryVars, view, requests>>

Stopped == phase = "stopped" /\ UNCHANGED vars

Next ==
  \/ \E c \in Conn : \/ Accept(c) \/ OnClosed(c) \/ ClientReceives(c)
                     \/ \E frame \in ClientFrames : OnFrame(c, frame)
  \/ NodeReplies \/ NodeSends
  \/ Stop \/ ShutdownClosesOne \/ ShutdownEnds \/ Stopped

(* The shutdown sequence is straight-line code of the main thread. *)
Spec == Init /\ [][Next]_vars /\ WF_vars(ShutdownClosesOne \/ ShutdownEnds)

-------------------------------------------------------------------------------
Payload == Message \cup {NoPayload}
FrameId == {"data", "0101", "0111", "0301", "0302"}   \* of the frames the gateway sends
Lease == SSA \cup {NoLease}
Knowledge == [ssa : Lease, subscribed : SUBSET ServiceId]

(* Every variable has its type, and no endpoint exceeds its limit.          *)
TypeOK ==
  /\ m_NextFreeAddress \in SSA
  /\ m_ReleasedAddresses \in Seq(SSA)
  /\ m_AddressLease \in [Conn -> Lease]
  /\ m_Registered \in [Conn -> BOOLEAN]
  /\ m_GatewayAccessServerHandlerList \subseteq Conn
  /\ m_eFramingMode \in [Conn -> FramingMode]
  /\ m_SubscribedServiceIds \in [Conn -> SUBSET ServiceId]
  /\ sendQueue \in [Conn -> Seq([framing : FramingMode, id : FrameId, payload : Payload])]
  /\ \A c \in Conn : Len(sendQueue[c]) <= SendQueueLimit
  /\ congested \in [Conn -> BOOLEAN]
  /\ view \in [Conn -> Knowledge]
  /\ requests \subseteq [origin : Conn \cup {Gone, Network}, message : Message]
  /\ phase \in {"running", "stopping", "stopped"}

(* The collection, the flag and the lease of a handler agree between any    *)
(* two callbacks: a listed handler can be sent to (its lease is there to be *)
(* asked for its address), Close finds a lease to return, and the shutdown  *)
(* loop closes a handler that takes itself off the list.                    *)
HandlersHoldLeases ==
  \A c \in Conn : /\ c \in m_GatewayAccessServerHandlerList <=> m_Registered[c]
                  /\ m_Registered[c] <=> m_AddressLease[c] # NoLease

(* Whoever causes a frame to be sent, the client's own frames, another      *)
(* client or the network, it has the format this client chose, and there is *)
(* none before it chose (doc/protocol.md:134).                              *)
FramesMatchMode ==
  \A c \in Conn : \A i \in DOMAIN sendQueue[c] :
    sendQueue[c][i].framing = m_eFramingMode[c]

(* As long as a client stays connected, a reply to any packet it sent into  *)
(* the network is delivered to this client and to nobody else, whichever    *)
(* source address it had put in and whoever came and went in the meantime   *)
(* ("response packets sent by sensor nodes will always be routed back to    *)
(* the originating gateway client", doc/protocol.md:161).                   *)
ReturnPathIntact ==
  \A r \in requests :
    r.origin \in Conn /\ r.message.srcSSA # WiredAddr =>
      LET reply == ReplyTo(r.message)
      IN  /\ PerformRouting("HDLCD", reply) = "GWCLIENTS"
          /\ {c \in m_GatewayAccessServerHandlerList : ForThisClient(c, reply)} = {r.origin}
          /\ m_eFramingMode[r.origin] # "UNKNOWN"

(* What the client learns from the first n frames on their way to it.       *)
Learnt(c, n) ==
  LET known[i \in 0..n] == IF i = 0 THEN view[c] ELSE Learn(known[i - 1], sendQueue[c][i])
  IN  known[n]

(* After it has read all that is on its way, a client that has kept reading *)
(* knows exactly its subscriptions.  An address it has learnt is always its *)
(* own ("multiple queries will always result in the same SSA",              *)
(* doc/protocol.md:158).                                                    *)
ClientKnowsItsState ==
  \A c \in Conn :
    LET known == Learnt(c, Len(sendQueue[c]))
    IN  /\ known.ssa \in {NoLease, m_AddressLease[c]}
        /\ ~congested[c] => known.subscribed = m_SubscribedServiceIds[c]

(* A client that keeps reading gets a group packet only while, from the     *)
(* replies it has received before, it is subscribed to the packet's         *)
(* service; a packet to a client address is for its own address.            *)
DeliveryJustified ==
  \A c \in Conn : \A i \in DOMAIN sendQueue[c] :
    LET message == sendQueue[c][i].payload
    IN  message # NoPayload =>
          /\ ClientSSA(message.dstSSA) => message.dstSSA = m_AddressLease[c]
          /\ GroupSSA(message.dstSSA) /\ ~congested[c] =>
               message.srcServiceId \in Learnt(c, i - 1).subscribed

(* A signal ends the process: the closing loop terminates ...               *)
ShutdownCompletes == phase = "stopping" ~> phase = "stopped"

(* ... and then every address that was ever assigned is back in the pool.   *)
StoppedClean ==
  phase = "stopped" => Pool!Released = FirstClientSSA..(m_NextFreeAddress - 1)

(* What all of this amounts to for the clients: a send queue is a mailbox,  *)
(* and what is delivered to several clients is put into all their mailboxes *)
(* in one step, unless they have been too slow to read ("Each gateway       *)
(* client ... receives the same stream of frames", doc/protocol.md:28).      *)
Payloads(queue) == [i \in DOMAIN queue |-> queue[i].payload]
Mailbox == [c \in Conn |-> Payloads(sendQueue[c])]
SlowClients == {c \in Conn : congested[c]}
ClientAddresses == FirstClientSSA..(FirstGroupSSA - 1)

Promised == INSTANCE MessageService WITH
  Client <- Conn, ClientAddress <- ClientAddresses, Capacity <- SendQueueLimit,
  address <- m_AddressLease, format <- m_eFramingMode, subscribed <- m_SubscribedServiceIds,
  mailbox <- Mailbox, slow <- SlowClients

ImplementsMessageService == Promised!Spec

(* "For each valid service subscribe request a related service subscribe    *)
(* reply will be created and sent back" (doc/protocol.md:271): the gateway  *)
(* holds no subscription of a client without having told it, however slowly *)
(* the client reads.                                                        *)
SubscriptionsConfirmed ==
  \A c \in Conn :
    m_SubscribedServiceIds[c] \subseteq Learnt(c, Len(sendQueue[c])).subscribed

(* "gateway clients do only receive response message related to request     *)
(* messages that they sent before" (doc/protocol.md:150).                   *)
OnlyOwnResponses ==
  \A c \in Conn : \A i \in DOMAIN sendQueue[c] :
    LET message == sendQueue[c][i].payload
    IN  message # NoPayload /\ message.srcSSA = NodeSSA /\ ClientSSA(message.dstSSA) =>
          \E r \in requests : r.origin = c /\ ReplyTo(r.message) = message
===============================================================================
