---------------------- MODULE GatewayAccessServiceProofs ----------------------
(***************************************************************************)
(* Proofs about what the clients of the gateway access server receive: the *)
(* server keeps the promises of MessageService, what a client learns from  *)
(* the replies is true of the server, and what it is sent beyond them is   *)
(* what it has asked for.                                                  *)
(*                                                                         *)
(* A send queue is a mailbox once the framing is forgotten (Payloads); the *)
(* lemmas on SendFrame say that what is queued arrives at the end of the   *)
(* mailbox, or that the queue is full and stays as it was.                 *)
(***************************************************************************)
EXTENDS GatewayAccessServerProofs, SequenceLemmas

(* The queues as mailboxes.                                                 *)
QueuesAreMailboxes ==
  /\ Mailbox = [c \in Conn |-> Mailbox[c]]
  /\ \A c \in Conn : /\ sendQueue[c] \in Seq(GatewayFrame)
                      /\ Mailbox[c] = Payloads(sendQueue[c])
                      /\ Mailbox[c] \in Seq(Payload)
                      /\ Len(Mailbox[c]) = Len(sendQueue[c])
  /\ \A c \in Conn : c \in SlowClients <=> congested[c]

LEMMA MailboxesOfQueues == QueueInv => QueuesAreMailboxes
<1> SUFFICES ASSUME QueueInv PROVE QueuesAreMailboxes
  OBVIOUS
<1>1. ASSUME NEW c \in Conn PROVE sendQueue[c] \in Seq(GatewayFrame)
  <2>1. FramesOf(m_eFramingMode[c]) \subseteq GatewayFrame
    BY DEF QueueInv, FramesOf, GatewayFrame, FramingMode
  <2>2. QED
    BY <2>1, SeqMonotonic DEF QueueInv
<1>2. QED
  BY <1>1, PayloadsOfQueue DEF QueuesAreMailboxes, Mailbox, SlowClients

LEMMA MailboxesAfterwards == QueueInv' => QueuesAreMailboxes'
BY MailboxesOfQueues, PTL

LEMMA SlowOnesWereFull ==
  ASSUME QueueInv, QueueInv', NEW queue, Transmit(queue)
  PROVE  /\ Promised!OnlyFullBoxesAreSlow
         /\ \A c \in Conn : sendQueue'[c] = queue[c] /\ (Full(queue[c]) => c \in SlowClients')
<1>1. /\ sendQueue' = queue
      /\ congested' = [c \in Conn |-> congested[c] \/ Full(queue[c])]
  BY DEF Transmit, Full
<1>2. /\ \A c \in Conn : c \in SlowClients <=> congested[c]
      /\ \A c \in Conn : c \in SlowClients' <=> congested'[c]
      /\ \A c \in Conn : Len(Mailbox'[c]) = Len(sendQueue'[c])
      /\ SlowClients \subseteq Conn /\ SlowClients' \subseteq Conn
  BY MailboxesOfQueues, MailboxesAfterwards DEF QueuesAreMailboxes, SlowClients
<1>3. QED
  BY <1>1, <1>2 DEF Promised!OnlyFullBoxesAreSlow, Full

LEMMA QueuedArrives ==
  ASSUME NEW c \in Conn, NEW before, NEW after, NEW item, Queued(before, after, item),
         Full(after) => c \in SlowClients'
  PROVE  Payloads(after) \in Promised!Arrives(c, Payloads(before), item)
BY DEF Queued, Promised!Arrives

(* A frame that is not a violation, whatever is sent in response to it.     *)
LEMMA FrameStep ==
  ASSUME LeaseInv, QueueInv, QueueInv', NEW c \in Conn, NEW frame \in ClientFrames,
         FrameArrives(c, frame), NEW sent, Transmit(sent),
         Full(Acknowledge(c, frame)[c]) => Full(sent[c])
  PROVE  /\ Promised!FrameFrom(c)
         /\ Payloads(Acknowledge(c, frame)[c]) \in Promised!Responded(c)
         /\ Acknowledge(c, frame) = [sendQueue EXCEPT ![c] = Acknowledge(c, frame)[c]]
<1>1. /\ m_Registered[c] /\ Accepts(m_eFramingMode[c], frame)
      /\ m_AddressLease' = m_AddressLease
  BY DEF FrameArrives, poolVars
<1>2. m_AddressLease[c] # NoLease
  BY <1>1, ConnectedHaveAddresses
<1>3. Promised!FrameFrom(c)
  BY <1>1, <1>2, AFrameArrives, SlowOnesWereFull DEF Promised!FrameFrom
<1>4. /\ Acknowledge(c, frame)[c] = Acknowledged(sendQueue[c], frame)
      /\ Acknowledge(c, frame) = [sendQueue EXCEPT ![c] = Acknowledge(c, frame)[c]]
  BY DEF Acknowledge, QueueInv
<1>5. /\ sendQueue[c] \in Seq(FramesOf(m_eFramingMode[c])) /\ m_eFramingMode[c] \in FramingMode
      /\ Mailbox[c] = Payloads(sendQueue[c])
      /\ m_eFramingMode'[c] = frame.framing
  BY MailboxesOfQueues, AFrameArrives DEF QueueInv, QueuesAreMailboxes
<1>6. CASE frame.framing = "LENGTH"
  <2>1. Acknowledged(sendQueue[c], frame) = sendQueue[c]
    BY <1>1, <1>5, <1>6, Responding
  <2>2. QED
    BY <1>3, <1>4, <1>5, <1>6, <2>1 DEF Promised!Responded
<1>7. CASE frame.framing = "ESCAPING"
  <2>1. Queued(sendQueue[c], Acknowledged(sendQueue[c], frame), NoPayload)
    BY <1>1, <1>5, <1>7, Responding
  <2>2. Full(Acknowledged(sendQueue[c], frame)) => c \in SlowClients'
    BY <1>4, SlowOnesWereFull
  <2>3. Payloads(Acknowledged(sendQueue[c], frame))
          \in Promised!Arrives(c, Payloads(sendQueue[c]), NoPayload)
    BY <2>1, <2>2, QueuedArrives
  <2>4. QED
    BY <1>3, <1>4, <1>5, <1>7, <2>3 DEF Promised!Responded, Promised!NoMessage, NoPayload
<1>8. QED
  BY <1>1, <1>5, <1>6, <1>7, Responding

(* The filters of Send entitle whom the promise entitles: what the routing  *)
(* entity hands to the clients is for a client address or for a group.      *)
LEMMA FiltersEntitle ==
  ASSUME LeaseInv, QueueInv', NEW message \in Message, NEW component,
         PerformRouting(component, message) = "GWCLIENTS",
         m_GatewayAccessServerHandlerList' = m_GatewayAccessServerHandlerList,
         NEW c \in Conn
  PROVE  Promised!Entitled(c, message) <=>
           /\ m_eFramingMode'[c] # "UNKNOWN"
           /\ c \in m_GatewayAccessServerHandlerList
           /\ ForThisClient(c, message)
<1>1. m_eFramingMode'[c] # "UNKNOWN" => c \in m_GatewayAccessServerHandlerList
  BY DEF QueueInv
<1>2. ~(message.dstSSA < MulticastGateway)
  BY DEF PerformRouting, ForSensorNetwork
<1>3. /\ message.dstSSA \in Int /\ MulticastGateway \in Int /\ FirstGroupSSA \in Int
      /\ FirstClientSSA = MulticastGateway + 1
  <2>1. message.dstSSA \in SSA
    BY DEF Message
  <2>2. /\ NonWsnAddr \in Int /\ MulticastGateway \in Int /\ FirstGroupSSA \in Int
        /\ FirstClientSSA = MulticastGateway + 1
    BY SMT DEF NonWsnAddr, MulticastGateway, FirstGroupSSA, FirstClientSSA
  <2>3. QED
    BY <2>1, <2>2 DEF SSA
<1>4. /\ ClientSSA(message.dstSSA) <=> message.dstSSA \in ClientAddresses
      /\ GroupSSA(message.dstSSA) <=> message.dstSSA \notin ClientAddresses
  <2>1. MulticastGateway < FirstGroupSSA
    BY SMT DEF MulticastGateway, FirstGroupSSA
  <2>2. QED
    BY <1>2, <1>3, <2>1 DEF ClientSSA, GroupSSA, ClientAddresses
<1>5. QED
  BY <1>1, <1>4 DEF ForThisClient, Promised!Entitled

(* What the routing entity sends to the clients arrives with all who are    *)
(* entitled to it, or nobody's mailbox changes.                             *)
LEMMA Multicasting ==
  ASSUME LeaseInv, QueueInv, QueueInv', NEW message \in Message, NEW component,
         PerformRouting(component, message) = "GWCLIENTS",
         m_GatewayAccessServerHandlerList' = m_GatewayAccessServerHandlerList,
         NEW queue, FitsModes(queue, m_eFramingMode'),
         Transmit(Delivered(queue, m_eFramingMode', message))
  PROVE  \/ sendQueue' = queue
         \/ /\ message \in Promised!LastItems \ {Promised!NoMessage}
            /\ Promised!Multicast([c \in Conn |-> Payloads(queue[c])], message)
<1>1. /\ m_eFramingMode' \in [Conn -> FramingMode]
      /\ queue = [c \in Conn |-> queue[c]]
      /\ \A c \in Conn : /\ queue[c] \in Seq(FramesOf(m_eFramingMode'[c]))
                          /\ m_eFramingMode'[c] \in FramingMode
  BY DEF QueueInv, FitsModes
<1>2. ASSUME NEW c \in Conn, Promised!Entitled(c, message)
      PROVE  Queued(queue[c], sendQueue'[c], message)
  <2>1. m_eFramingMode'[c] # "UNKNOWN"
        /\ sendQueue'[c] = Sent(m_eFramingMode'[c], queue[c], message)
    BY <1>2, FiltersEntitle DEF Transmit, Delivered
  <2>2. QED
    BY <1>1, <2>1, SendingAPayload DEF Payload
<1>3. ASSUME NEW c \in Conn, ~Promised!Entitled(c, message)
      PROVE  sendQueue'[c] = queue[c]
  <2>1. sendQueue'[c] \in {queue[c], Sent(m_eFramingMode'[c], queue[c], message)}
        /\ (m_eFramingMode'[c] # "UNKNOWN" => sendQueue'[c] = queue[c])
    BY <1>3, FiltersEntitle DEF Transmit, Delivered
  <2>2. QED
    BY <1>1, <2>1, SendingAPayload DEF Payload
<1>4. sendQueue' = [c \in Conn |-> sendQueue'[c]]
  BY DEF QueueInv
<1>5. /\ Mailbox' = [c \in Conn |-> Mailbox'[c]]
      /\ \A c \in Conn : Mailbox'[c] = Payloads(sendQueue'[c])
  BY MailboxesAfterwards DEF QueuesAreMailboxes
<1>6. CASE \E c \in Conn : sendQueue'[c] # queue[c]
  <2>1. PICK c \in Conn : sendQueue'[c] # queue[c]
    BY <1>6
  <2>2. Payloads(sendQueue'[c]) = Append(Payloads(queue[c]), message)
    BY <1>2, <1>3, <2>1 DEF Queued
  <2>3. queue[c] \in Seq(GatewayFrame)
    <3>1. FramesOf(m_eFramingMode'[c]) \subseteq GatewayFrame
      BY <1>1 DEF FramesOf, GatewayFrame, FramingMode
    <3>2. QED
      BY <1>1, <3>1, SeqMonotonic
  <2>4. LET box == Append(Payloads(queue[c]), message)
        IN  box # <<>> /\ box[Len(box)] = message
    BY <2>3, PayloadsOfQueue, AppendProperties DEF Payload
  <2>5. Mailbox'[c] # <<>> /\ Mailbox'[c][Len(Mailbox'[c])] = message
    BY <1>5, <2>2, <2>4
  <2>6. message \in Promised!LastItems \ {Promised!NoMessage}
    BY <2>5, MessagesAreSomething DEF Promised!LastItems, Promised!NoMessage, NoPayload
  <2>7. ASSUME NEW d \in Conn, Promised!Entitled(d, message)
        PROVE  Mailbox'[d] \in Promised!Arrives(d, Payloads(queue[d]), message)
    <3>1. Full(sendQueue'[d]) => d \in SlowClients'
      BY SlowOnesWereFull DEF Transmit
    <3>2. QED
      BY <1>2, <1>5, <2>7, <3>1, QueuedArrives
  <2>8. ASSUME NEW d \in Conn, ~Promised!Entitled(d, message)
        PROVE  Mailbox'[d] = Payloads(queue[d])
    BY <1>3, <1>5, <2>8
  <2>9. DOMAIN Mailbox' = Conn
    BY <1>5
  <2>10. Promised!Multicast([d \in Conn |-> Payloads(queue[d])], message)
    BY <2>7, <2>8, <2>9 DEF Promised!Multicast
  <2>11. QED
    BY <2>6, <2>10
<1>7. CASE \A c \in Conn : sendQueue'[c] = queue[c]
  BY <1>1, <1>4, <1>7
<1>8. QED
  BY <1>6, <1>7

LEMMA OneMailboxChanges ==
  ASSUME QueueInv, QueueInv', NEW c \in Conn, NEW queue,
         sendQueue' = [sendQueue EXCEPT ![c] = queue]
  PROVE  Mailbox' = [Mailbox EXCEPT ![c] = Payloads(queue)]
<1>1. /\ Mailbox = [d \in Conn |-> Mailbox[d]]
      /\ Mailbox' = [d \in Conn |-> Mailbox'[d]]
      /\ \A d \in Conn : /\ Mailbox[d] = Payloads(sendQueue[d])
                          /\ Mailbox'[d] = Payloads(sendQueue'[d])
  BY MailboxesOfQueues, MailboxesAfterwards DEF QueuesAreMailboxes
<1>2. sendQueue'[c] = queue /\ \A d \in Conn \ {c} : sendQueue'[d] = sendQueue[d]
  BY DEF QueueInv
<1>3. QED
  BY <1>1, <1>2

(* The frame is responded to and nothing else happens.                      *)
LEMMA ACommand ==
  ASSUME LeaseInv, QueueInv, QueueInv', NEW c \in Conn, NEW frame \in ClientFrames,
         FrameArrives(c, frame), Transmit(Acknowledge(c, frame)),
         m_SubscribedServiceIds' = m_SubscribedServiceIds
  PROVE  Promised!Command(c)
<1>1. /\ Promised!FrameFrom(c)
      /\ Payloads(Acknowledge(c, frame)[c]) \in Promised!Responded(c)
      /\ Acknowledge(c, frame) = [sendQueue EXCEPT ![c] = Acknowledge(c, frame)[c]]
  BY FrameStep
<1>2. Mailbox' = [Mailbox EXCEPT ![c] = Payloads(Acknowledge(c, frame)[c])]
  BY <1>1, OneMailboxChanges DEF Transmit
<1>3. QED
  BY <1>1, <1>2 DEF Promised!Command

(* A packet goes on: into the network, which no other client sees, or to    *)
(* the clients.                                                             *)
LEMMA APacket ==
  ASSUME LeaseInv, QueueInv, QueueInv', NEW c \in Conn, NEW frame \in ClientFrames,
         OnPayloadForRouting(c, frame)
  PROVE  Promised!Command(c) \/ Promised!Send(c)
<1> DEFINE message == Masqueraded(c, frame.payload)
           queue == Acknowledge(c, frame)
<1>1. /\ FrameArrives(c, frame) /\ m_Registered[c]
      /\ frame.payload \in Message
      /\ m_SubscribedServiceIds' = m_SubscribedServiceIds
      /\ m_GatewayAccessServerHandlerList' = m_GatewayAccessServerHandlerList
      /\ Transmit(IF PerformRouting("GWCLIENTS", message) = "GWCLIENTS"
                  THEN Delivered(queue, m_eFramingMode', message) ELSE queue)
  BY FrameAssumption DEF OnPayloadForRouting, MessageArrives, FrameArrives, RouteSnetPacket,
     collectionVars
<1>2. /\ message \in Message
      /\ message.srcSSA \in {Promised!WiredAddr, m_AddressLease[c]}
  BY <1>1, MasqueradedIsAMessage DEF WiredAddr, Promised!WiredAddr
<1>3. FitsModes(queue, m_eFramingMode') /\ m_eFramingMode' \in [Conn -> FramingMode]
  BY <1>1, AFrameArrives
<1>4. CASE PerformRouting("GWCLIENTS", message) = "GWCLIENTS"
  <2>1. Transmit(Delivered(queue, m_eFramingMode', message))
    BY <1>1, <1>4
  <2>2. CASE sendQueue' = queue
    <3>1. Transmit(queue)
      BY <2>1, <2>2 DEF Transmit
    <3>2. QED
      BY <1>1, <3>1, ACommand
  <2>3. CASE /\ message \in Promised!LastItems \ {Promised!NoMessage}
             /\ Promised!Multicast([d \in Conn |-> Payloads(queue[d])], message)
    <3>1. Full(queue[c]) => Full(Delivered(queue, m_eFramingMode', message)[c])
      BY <1>2, <1>3, DeliveredFits
    <3>2. /\ Promised!FrameFrom(c)
          /\ Payloads(queue[c]) \in Promised!Responded(c)
          /\ queue = [sendQueue EXCEPT ![c] = queue[c]]
      BY <1>1, <2>1, <3>1, FrameStep
    <3>3. [d \in Conn |-> Payloads(queue[d])] = [Mailbox EXCEPT ![c] = Payloads(queue[c])]
      <4>1. /\ Mailbox = [d \in Conn |-> Mailbox[d]]
            /\ \A d \in Conn : Mailbox[d] = Payloads(sendQueue[d])
        BY MailboxesOfQueues DEF QueuesAreMailboxes
      <4>2. \A d \in Conn \ {c} : queue[d] = sendQueue[d]
        BY <3>2 DEF QueueInv
      <4>3. QED
        BY <4>1, <4>2
    <3>4. Promised!Multicast([Mailbox EXCEPT ![c] = Payloads(queue[c])], message)
      BY <2>3, <3>3
    <3>5. Promised!Send(c)
      BY <1>1, <1>2, <2>3, <3>2, <3>4 DEF Promised!Send
    <3>6. QED
      BY <3>5
  <2>4. QED
    BY <1>1, <1>2, <1>3, <1>4, <2>1, <2>2, <2>3, Multicasting
<1>5. CASE PerformRouting("GWCLIENTS", message) # "GWCLIENTS"
  BY <1>1, <1>5, ACommand
<1>6. QED
  BY <1>4, <1>5

(* A reply of one of the services follows the response to the frame, unless *)
(* the client has been too slow.                                            *)
LEMMA AReply ==
  ASSUME LeaseInv, QueueInv, QueueInv', NEW c \in Conn, NEW frame \in ClientFrames,
         FrameArrives(c, frame), NEW reply \in Message, Transmit(Answer(c, frame, reply))
  PROVE  /\ Promised!FrameFrom(c)
         /\ \E box \in Promised!Responded(c) :
              \/ /\ Mailbox' = [Mailbox EXCEPT ![c] = Append(box, reply)]
                 /\ reply \in Promised!LastItems \ {Promised!NoMessage}
              \/ Mailbox' = [Mailbox EXCEPT ![c] = box] /\ c \in SlowClients'
<1> DEFINE queue == Acknowledge(c, frame)
           sent == Sent(frame.framing, queue[c], reply)
<1>1. /\ frame.framing \in {"ESCAPING", "LENGTH"} /\ frame.framing \in FramingMode
      /\ m_eFramingMode' \in [Conn -> FramingMode] /\ m_eFramingMode'[c] = frame.framing
      /\ FitsModes(queue, m_eFramingMode')
  <2>1. {"ESCAPING", "LENGTH"} \subseteq FramingMode
    BY DEF FramingMode
  <2>2. m_eFramingMode \in [Conn -> FramingMode]
    BY DEF QueueInv
  <2>3. /\ frame.framing \in {"ESCAPING", "LENGTH"}
        /\ m_eFramingMode' = [m_eFramingMode EXCEPT ![c] = frame.framing]
        /\ m_eFramingMode' \in [Conn -> FramingMode]
        /\ FitsModes(queue, m_eFramingMode')
    BY AFrameArrives
  <2>4. QED
    BY <2>1, <2>2, <2>3
<1>2. Answer(c, frame, reply) = [queue EXCEPT ![c] = sent]
  BY <1>1, AnswerFits
<1>3. queue[c] \in Seq(FramesOf(frame.framing)) /\ queue = [d \in Conn |-> queue[d]]
  BY <1>1 DEF FitsModes
<1>4. /\ Full(queue[c]) => Full(sent)
      /\ Queued(queue[c], sent, reply)
  BY <1>1, <1>3, SendingAPayload DEF Payload
<1>5. Answer(c, frame, reply)[c] = sent
  BY <1>2, <1>3
<1>6. /\ Promised!FrameFrom(c)
      /\ Payloads(queue[c]) \in Promised!Responded(c)
      /\ queue = [sendQueue EXCEPT ![c] = queue[c]]
  BY <1>4, <1>5, FrameStep
<1>7. Mailbox' = [Mailbox EXCEPT ![c] = Payloads(sent)]
  <2>1. sendQueue' = [sendQueue EXCEPT ![c] = sent]
    BY <1>2, <1>6 DEF Transmit, QueueInv
  <2>2. QED
    BY <2>1, OneMailboxChanges
<1>8. CASE Payloads(sent) = Append(Payloads(queue[c]), reply)
  <2>1. Payloads(queue[c]) \in Seq(Payload)
    <3>1. FramesOf(frame.framing) \subseteq GatewayFrame
      BY <1>1 DEF FramesOf, GatewayFrame
    <3>2. QED
      BY <1>3, <3>1, SeqMonotonic, PayloadsOfQueue
  <2>2. LET box == Append(Payloads(queue[c]), reply)
        IN  box # <<>> /\ box[Len(box)] = reply
    BY <2>1, AppendProperties DEF Payload
  <2>3. Mailbox'[c] = Append(Payloads(queue[c]), reply)
    BY <1>7, <1>8, MailboxesOfQueues DEF QueuesAreMailboxes
  <2>4. reply \in Promised!LastItems \ {Promised!NoMessage}
    BY <2>2, <2>3, MessagesAreSomething DEF Promised!LastItems, Promised!NoMessage, NoPayload
  <2>5. QED
    BY <1>6, <1>7, <1>8, <2>4
<1>9. CASE sent = queue[c] /\ Full(sent)
  <2>1. c \in SlowClients'
    BY <1>5, <1>9, SlowOnesWereFull
  <2>2. QED
    BY <1>6, <1>7, <1>9, <2>1
<1>10. QED
  BY <1>4, <1>8, <1>9 DEF Queued

(* The answer of the address service is the address of the client.          *)
LEMMA AnAddress ==
  ASSUME LeaseInv, QueueInv, QueueInv', NEW c \in Conn, NEW frame \in ClientFrames,
         OnPayloadForAddressService(c, frame)
  PROVE  Promised!Command(c) \/ Promised!Answered(c)
<1> DEFINE a == m_AddressLease[c]
           reply == Addresses!AddressAssignmentReply(a)
<1>1. /\ FrameArrives(c, frame) /\ m_Registered[c]
      /\ m_SubscribedServiceIds' = m_SubscribedServiceIds
  BY DEF OnPayloadForAddressService, MessageArrives, FrameArrives
<1>2. a \in SSA
  BY <1>1, ConnectedHaveAddresses
<1>3. Transmit(Acknowledge(c, frame)) \/ Transmit(Answer(c, frame, reply))
  BY <1>2, AddressServiceReplies DEF OnPayloadForAddressService
<1>4. CASE Transmit(Acknowledge(c, frame))
  BY <1>1, <1>4, ACommand
<1>5. CASE Transmit(Answer(c, frame, reply))
  <2>1. /\ reply \in Message
        /\ reply = SnetServiceMessage(\hAE, \hAF, \h20, MulticastGateway, MulticastDirectChildren,
                                      <<0, a \div \h100, a % \h100>>)
    BY <1>2, AddressReply
  <2>2. /\ reply.srcServiceId = \hAE
        /\ reply.srcSSA = MulticastGateway
        /\ reply.payload = <<0, a \div \h100, a % \h100>>
    BY <2>1, FieldsOfAMessage
  <2>3. reply.payload[2] = a \div \h100 /\ reply.payload[3] = a % \h100
    BY <2>2
  <2>4. Promised!TellsAddress(c, reply)
    BY <1>1, <2>2, <2>3, Zenon DEF Promised!TellsAddress
  <2>5. reply.srcSSA = Promised!MulticastGateway
    BY <2>2 DEF Promised!MulticastGateway, MulticastGateway
  <2>6. PICK box \in Promised!Responded(c) :
          \/ /\ Mailbox' = [Mailbox EXCEPT ![c] = Append(box, reply)]
             /\ reply \in Promised!LastItems \ {Promised!NoMessage}
          \/ Mailbox' = [Mailbox EXCEPT ![c] = box]
    BY <1>1, <1>5, <2>1, AReply
  <2>7. Promised!FrameFrom(c)
    BY <1>1, <1>5, <2>1, AReply
  <2>8. CASE Mailbox' = [Mailbox EXCEPT ![c] = box]
    BY <1>1, <2>6, <2>7, <2>8 DEF Promised!Command
  <2>9. CASE /\ Mailbox' = [Mailbox EXCEPT ![c] = Append(box, reply)]
             /\ reply \in Promised!LastItems \ {Promised!NoMessage}
    BY <2>4, <2>5, <2>6, <2>7, <2>9, Zenon DEF Promised!Answered
  <2>10. QED
    BY <2>6, <2>8, <2>9
<1>6. QED
  BY <1>3, <1>4, <1>5

(* A confirmation tells the change, or the client misses it.                *)
LEMMA AConfirmation ==
  ASSUME LeaseInv, QueueInv, QueueInv', NEW c \in Conn, NEW frame \in ClientFrames,
         MessageArrives(c, frame), Len(frame.payload.payload) = 1, NEW token \in {\h11, \h21},
         Transmit(Answer(c, frame, PubSub!Confirmation(token, frame.payload, m_AddressLease[c]))),
         Promised!Changed(c, token, frame.payload.payload[1])
  PROVE  Promised!Answered(c) \/ Promised!Unanswered(c)
<1> DEFINE a == m_AddressLease[c]
           serviceId == frame.payload.payload[1]
           reply == PubSub!Confirmation(token, frame.payload, a)
<1>1. FrameArrives(c, frame) /\ m_Registered[c] /\ frame.payload \in Message
  BY FrameAssumption DEF MessageArrives, FrameArrives
<1>2. token \in Token /\ a \in SSA
  BY <1>1, FieldValues, ConnectedHaveAddresses
<1>3. /\ reply \in Message
      /\ reply = SnetServiceMessage(\hB0, \hB0, token, MulticastGateway, a, <<serviceId, 0>>)
  BY <1>1, <1>2, ConfirmationReply
<1>4. /\ reply.srcServiceId = \hB0 /\ reply.token = token
      /\ reply.srcSSA = MulticastGateway
      /\ reply.payload = <<serviceId, 0>>
  BY <1>3, FieldsOfAMessage
<1>5. reply.payload[1] = serviceId
  BY <1>4
<1>6. Promised!TellsChange(c, reply) /\ reply.srcSSA = Promised!MulticastGateway
  <2>1. Promised!TellsChange(c, reply)
    BY <1>4, <1>5, Zenon DEF Promised!TellsChange
  <2>2. QED
    BY <1>4, <2>1 DEF Promised!MulticastGateway, MulticastGateway
<1>7. PICK box \in Promised!Responded(c) :
        \/ /\ Mailbox' = [Mailbox EXCEPT ![c] = Append(box, reply)]
           /\ reply \in Promised!LastItems \ {Promised!NoMessage}
        \/ Mailbox' = [Mailbox EXCEPT ![c] = box] /\ c \in SlowClients'
  BY <1>1, <1>3, AReply
<1>8. Promised!FrameFrom(c)
  BY <1>1, <1>3, AReply
<1>9. CASE /\ Mailbox' = [Mailbox EXCEPT ![c] = Append(box, reply)]
           /\ reply \in Promised!LastItems \ {Promised!NoMessage}
  BY <1>6, <1>7, <1>8, <1>9, Zenon DEF Promised!Answered
<1>10. CASE Mailbox' = [Mailbox EXCEPT ![c] = box] /\ c \in SlowClients'
  <2>1. serviceId \in Promised!ServiceId
    BY <1>1, FirstByte DEF Promised!ServiceId, Promised!Byte, Byte
  <2>2. QED
    BY <1>7, <1>8, <1>10, <2>1, Zenon DEF Promised!Unanswered
<1>11. QED
  BY <1>7, <1>9, <1>10

LEMMA ASubscription ==
  ASSUME LeaseInv, QueueInv, QueueInv', NEW c \in Conn, NEW frame \in ClientFrames,
         OnPayloadForPublishSubscribe(c, frame)
  PROVE  Promised!Command(c) \/ Promised!Answered(c) \/ Promised!Unanswered(c)
<1> DEFINE a == m_AddressLease[c]
           message == frame.payload
           serviceId == message.payload[1]
           reply == PubSub!Reply(message, a)
<1>1. /\ MessageArrives(c, frame) /\ FrameArrives(c, frame) /\ m_Registered[c]
      /\ message \in Message
  BY FrameAssumption DEF OnPayloadForPublishSubscribe, MessageArrives, FrameArrives
<1>2. a \in SSA
  BY <1>1, ConnectedHaveAddresses
<1>3. /\ Transmit(IF reply.srcServiceId = \hB0 THEN Answer(c, frame, reply)
                  ELSE Acknowledge(c, frame))
      /\ m_SubscribedServiceIds' =
           [m_SubscribedServiceIds EXCEPT ![c] =
              PubSub!Resubscribed(m_SubscribedServiceIds[c], message)]
      /\ m_SubscribedServiceIds \in [Conn -> SUBSET ServiceId]
  BY DEF OnPayloadForPublishSubscribe, QueueInv
<1>4. Promised!Services(serviceId) = PubSub!Denoted(serviceId)
  BY DEF Promised!Services, PubSub!Denoted, Promised!ServiceId, PubSub!ServiceId,
     Promised!Byte, PubSub!Byte
<1>5. CASE reply.srcServiceId # \hB0
  <2>1. PubSub!Resubscribed(m_SubscribedServiceIds[c], message) = m_SubscribedServiceIds[c]
    BY <1>1, <1>2, <1>5, PubSubReplies DEF PubSub!Resubscribed
  <2>2. m_SubscribedServiceIds' = m_SubscribedServiceIds
    BY <1>3, <2>1
  <2>3. QED
    BY <1>1, <1>3, <1>5, <2>2, ACommand
<1>6. CASE /\ reply.srcServiceId = \hB0
           /\ PubSub!IsRequest(message, PubSub!SubscribeRequest)
           /\ reply = PubSub!Confirmation(\h11, message, a)
  <2>1. PubSub!Resubscribed(m_SubscribedServiceIds[c], message)
          = m_SubscribedServiceIds[c] \cup Promised!Services(serviceId)
    BY <1>4, <1>6 DEF PubSub!Resubscribed
  <2>2. Promised!Changed(c, \h11, serviceId)
    BY <1>3, <2>1, Zenon DEF Promised!Changed
  <2>3. Len(message.payload) = 1
    BY <1>6 DEF PubSub!IsRequest
  <2>4. QED
    BY <1>1, <1>3, <1>6, <2>2, <2>3, AConfirmation
<1>7. CASE /\ reply.srcServiceId = \hB0
           /\ PubSub!IsRequest(message, PubSub!UnsubscribeRequest)
           /\ ~PubSub!IsRequest(message, PubSub!SubscribeRequest)
           /\ reply = PubSub!Confirmation(\h21, message, a)
  <2>1. PubSub!Resubscribed(m_SubscribedServiceIds[c], message)
          = m_SubscribedServiceIds[c] \ Promised!Services(serviceId)
    BY <1>4, <1>7 DEF PubSub!Resubscribed
  <2>2. Promised!Changed(c, \h21, serviceId)
    BY <1>3, <2>1, Zenon DEF Promised!Changed
  <2>3. Len(message.payload) = 1
    BY <1>7 DEF PubSub!IsRequest
  <2>4. QED
    BY <1>1, <1>3, <1>7, <2>2, <2>3, AConfirmation
<1>8. QED
  BY <1>1, <1>2, <1>5, <1>6, <1>7, PubSubReplies

-------------------------------------------------------------------------------
(* The steps that are not frames of a client.                               *)
StutterOr(A) == A \/ UNCHANGED <<m_AddressLease, m_eFramingMode, m_SubscribedServiceIds,
                                 sendQueue, congested>>

LEMMA APublication ==
  ASSUME LeaseInv, QueueInv, QueueInv', NEW message \in Message, OnSnetPacket(message)
  PROVE  StutterOr(Promised!Publish)
<1>1. /\ m_AddressLease' = m_AddressLease
      /\ m_eFramingMode' = m_eFramingMode
      /\ m_SubscribedServiceIds' = m_SubscribedServiceIds
      /\ m_GatewayAccessServerHandlerList' = m_GatewayAccessServerHandlerList
      /\ Transmit(IF PerformRouting("HDLCD", message) = "GWCLIENTS"
                  THEN Delivered(sendQueue, m_eFramingMode', message) ELSE sendQueue)
  BY DEF OnSnetPacket, RouteSnetPacket, poolVars, collectionVars, handlerVars
<1>2. FitsModes(sendQueue, m_eFramingMode')
  BY <1>1 DEF QueueInv, FitsModes
<1>3. ASSUME Transmit(sendQueue) PROVE StutterOr(Promised!Publish)
  <2>1. /\ sendQueue' = sendQueue
        /\ congested' = [c \in Conn |-> congested[c] \/ Full(sendQueue[c])]
    BY <1>3 DEF Transmit, Full
  <2>2. congested' = congested
    <3>1. \A c \in Conn : (congested[c] \/ Full(sendQueue[c])) = congested[c]
      BY DEF QueueInv
    <3>2. congested = [c \in Conn |-> congested[c]]
      BY DEF QueueInv
    <3>3. QED
      BY <2>1, <3>1, <3>2
  <2>3. QED
    BY <1>1, <2>1, <2>2 DEF StutterOr
<1>4. CASE PerformRouting("HDLCD", message) = "GWCLIENTS"
  <2>1. Transmit(Delivered(sendQueue, m_eFramingMode', message))
    BY <1>1, <1>4
  <2>2. CASE sendQueue' = sendQueue
    <3>1. Transmit(sendQueue)
      BY <2>1, <2>2 DEF Transmit
    <3>2. QED
      BY <1>3, <3>1
  <2>3. CASE /\ message \in Promised!LastItems \ {Promised!NoMessage}
             /\ Promised!Multicast([c \in Conn |-> Payloads(sendQueue[c])], message)
    <3>1. [c \in Conn |-> Payloads(sendQueue[c])] = Mailbox
      BY DEF Mailbox
    <3>2. Promised!Multicast(Mailbox, message)
      BY <2>3, <3>1
    <3>3. Promised!OnlyFullBoxesAreSlow
      BY <2>1, SlowOnesWereFull
    <3>4. QED
      BY <1>1, <2>3, <3>2, <3>3, Zenon DEF Promised!Publish, StutterOr
  <2>4. QED
    BY <1>1, <1>2, <1>4, <2>1, <2>2, <2>3, Multicasting
<1>5. CASE PerformRouting("HDLCD", message) # "GWCLIENTS"
  BY <1>1, <1>3, <1>5
<1>6. QED
  BY <1>4, <1>5

LEMMA AJoining ==
  ASSUME LeaseInv, LeaseInv', QueueInv, AddressesUsable', NEW c \in Conn, Accept(c)
  PROVE  Promised!Join(c)
<1>1. /\ m_eFramingMode' = m_eFramingMode /\ m_SubscribedServiceIds' = m_SubscribedServiceIds
      /\ Mailbox' = Mailbox /\ SlowClients' = SlowClients
  BY DEF Accept, handlerVars, deliveryVars, Mailbox, SlowClients
<1>2. m_AddressLease[c] = NoLease
  BY DEF Accept, LeaseInv, HandlersHoldLeases
<1>3. /\ m_AddressLease' \in [Conn -> SSA \cup {NoLease}]
      /\ m_AddressLease \in [Conn -> SSA \cup {NoLease}]
      /\ m_AddressLease'[c] # NoLease
  BY DEF Accept, LeaseInv, HandlersHoldLeases
<1>4. PICK a : m_AddressLease' = [m_AddressLease EXCEPT ![c] = a]
  BY DEF Accept, Pool!ObtainAddressLease, Pool!LeaseFresh, Pool!LeaseReclaimed
<1>5. m_AddressLease'[c] = a /\ \A d \in Conn \ {c} : m_AddressLease'[d] = m_AddressLease[d]
  BY <1>3, <1>4
<1>6. a \in ClientAddresses /\ a \notin {m_AddressLease[d] : d \in Conn}
  BY <1>2, <1>3, <1>5 DEF AddressesUsable, ClientAddresses
<1>7. QED
  BY <1>1, <1>2, <1>4, <1>6, Zenon DEF Promised!Join

LEMMA ALeaving ==
  ASSUME LeaseInv, QueueInv, QueueInv', NEW c \in Conn, Close(c)
  PROVE  Promised!Leave(c)
<1>1. /\ m_AddressLease' = [m_AddressLease EXCEPT ![c] = NoLease]
      /\ m_eFramingMode' = [m_eFramingMode EXCEPT ![c] = "UNKNOWN"]
      /\ m_SubscribedServiceIds' = [m_SubscribedServiceIds EXCEPT ![c] = {}]
      /\ sendQueue' = [sendQueue EXCEPT ![c] = <<>>]
      /\ congested' = [congested EXCEPT ![c] = FALSE]
  BY DEF Close, Destroy, Pool!ReleaseAddressLease
<1>2. m_AddressLease[c] # NoLease
  BY ConnectedHaveAddresses DEF Close
<1>3. Mailbox' = [Mailbox EXCEPT ![c] = <<>>]
  <2>1. Payloads(<<>>) = <<>>
    BY EmptySeq, PayloadsOfQueue
  <2>2. QED
    BY <1>1, <2>1, OneMailboxChanges
<1>4. SlowClients' = SlowClients \ {c}
  <2>1. ~congested'[c] /\ \A d \in Conn \ {c} : congested'[d] = congested[d]
    BY <1>1 DEF QueueInv
  <2>2. QED
    BY <2>1 DEF SlowClients
<1>5. QED
  BY <1>1, <1>2, <1>3, <1>4, Zenon DEF Promised!Leave

LEMMA AReading ==
  ASSUME QueueInv, QueueInv', NEW c \in Conn, ClientReceives(c)
  PROVE  Promised!Read(c)
<1>1. /\ sendQueue[c] # <<>>
      /\ sendQueue' = [sendQueue EXCEPT ![c] = Tail(sendQueue[c])]
      /\ m_AddressLease' = m_AddressLease
      /\ m_eFramingMode' = m_eFramingMode
      /\ m_SubscribedServiceIds' = m_SubscribedServiceIds
      /\ SlowClients' = SlowClients
  BY DEF ClientReceives, poolVars, handlerVars, SlowClients
<1>2. sendQueue[c] \in Seq(GatewayFrame) /\ Mailbox[c] = Payloads(sendQueue[c])
  BY MailboxesOfQueues DEF QueuesAreMailboxes
<1>3. Mailbox[c] # <<>> /\ Payloads(Tail(sendQueue[c])) = Tail(Mailbox[c])
  BY <1>1, <1>2, PayloadsOfTail
<1>4. Mailbox' = [Mailbox EXCEPT ![c] = Tail(Mailbox[c])]
  BY <1>1, <1>3, OneMailboxChanges
<1>5. QED
  BY <1>1, <1>3, <1>4, Zenon DEF Promised!Read

(* Every step of the server is one the promise allows.                      *)
LEMMA PromisedSteps ==
  ASSUME LeaseInv, LeaseInv', QueueInv, QueueInv', AddressesUsable', [Next]_vars
  PROVE  [Promised!Next]_(Promised!vars)
<1>1. ASSUME NEW c \in Conn, Accept(c) PROVE Promised!Next
  BY <1>1, AJoining DEF Promised!Next
<1>2. ASSUME NEW c \in Conn, Close(c) PROVE Promised!Next
  BY <1>2, ALeaving DEF Promised!Next
<1>3. ASSUME NEW c \in Conn, ClientReceives(c) PROVE Promised!Next
  BY <1>3, AReading DEF Promised!Next
<1>4. ASSUME NEW c \in Conn, NEW frame \in ClientFrames, OnFrame(c, frame) PROVE Promised!Next
  <2>1. CASE OnFrameWithoutMessage(c, frame)
    BY <2>1, ACommand DEF OnFrameWithoutMessage, Promised!Next
  <2>2. CASE OnPayloadForAddressService(c, frame)
    BY <2>2, AnAddress DEF Promised!Next
  <2>3. CASE OnPayloadForPublishSubscribe(c, frame)
    BY <2>3, ASubscription DEF Promised!Next
  <2>4. CASE OnPayloadForRouting(c, frame)
    BY <2>4, APacket DEF Promised!Next
  <2>5. CASE OnProtocolViolation(c, frame)
    BY <1>2, <2>5 DEF OnProtocolViolation
  <2>6. QED
    BY <1>4, <2>1, <2>2, <2>3, <2>4, <2>5 DEF OnFrame
<1>5. ASSUME UNCHANGED <<m_AddressLease, m_eFramingMode, m_SubscribedServiceIds,
                         sendQueue, congested>>
      PROVE  UNCHANGED Promised!vars
  BY <1>5 DEF Promised!vars, Mailbox, SlowClients
<1>6. ASSUME NEW message \in Message, OnSnetPacket(message) PROVE [Promised!Next]_(Promised!vars)
  BY <1>5, <1>6, APublication DEF StutterOr, Promised!Next
<1>7. CASE NodeReplies \/ NodeSends
  <2>1. \A r \in requests : ReplyTo(r.message) \in Message
    BY ReplyIsAMessage DEF QueueInv
  <2>2. QED
    BY <1>6, <1>7, <2>1, NodeAssumption DEF NodeReplies, NodeSends
<1>8. CASE ShutdownClosesOne
  BY <1>2, <1>8 DEF ShutdownClosesOne, LeaseInv
<1>9. CASE Stop \/ ShutdownEnds \/ UNCHANGED vars
  BY <1>5, <1>9 DEF Stop, ShutdownEnds, vars, poolVars, handlerVars, deliveryVars
<1>10. QED
  BY <1>1, <1>2, <1>3, <1>4, <1>7, <1>8, <1>9 DEF Next, OnClosed, Stopped

LEMMA PromisedInit == Init => Promised!Init
<1>1. Payloads(<<>>) = <<>>
  BY EmptySeq, PayloadsOfQueue
<1>2. Init => Mailbox = [c \in Conn |-> <<>>] /\ SlowClients = {}
  BY <1>1 DEF Init, Mailbox, SlowClients
<1>3. QED
  BY <1>2 DEF Init, Pool!Init, Promised!Init

(* The server keeps its promises to its clients as long as there are        *)
(* addresses for all of them.                                               *)
THEOREM ServerKeepsItsPromises ==
  ASSUME Pool!EnoughAddresses
  PROVE  Spec => ImplementsMessageService
<1>1. LeaseInv /\ ReturnInv /\ QueueInv /\ [Next]_vars => (LeaseInv /\ ReturnInv /\ QueueInv)'
  BY NextLeaseInv, NextReturnInv, NextQueueInv
<1>2. LeaseInv /\ LeaseInv' /\ QueueInv /\ QueueInv' /\ AddressesUsable' /\ [Next]_vars
        => [Promised!Next]_(Promised!vars)
  BY PromisedSteps
<1>3. Spec => []AddressesUsable
  BY ClientsHaveOwnAddresses
<1>4. QED
  BY InitLeaseInv, InitReturnInv, InitQueueInv, PromisedInit, <1>1, <1>2, <1>3, PTL
     DEF Spec, ImplementsMessageService, Promised!Spec

-------------------------------------------------------------------------------
(* What the clients know.  The inductive invariant says of every client     *)
(* that there is a trace of its knowledge along its queue: at each frame it *)
(* knows its own address or none, each packet finds it prepared, and in the *)
(* end it knows its subscriptions, unless the queue has been full.  A frame *)
(* put at the end makes the trace longer, a frame read takes its first      *)
(* element away.                                                            *)

(* Learnt is a recursive function; this is what it computes.                *)
IsTrace(known, start, queue) ==
  /\ known = [i \in 0..Len(queue) |-> known[i]]
  /\ known[0] = start
  /\ \A i \in 1..Len(queue) : known[i] = Learn(known[i - 1], queue[i])

LEMMA LearntFromTrace ==
  ASSUME NEW c \in Conn, Len(sendQueue[c]) \in Nat, NEW known,
         IsTrace(known, view[c], sendQueue[c]), NEW n \in 0..Len(sendQueue[c])
  PROVE  Learnt(c, n) = known[n]
<1> DEFINE queue == sendQueue[c]
           Step(f, i) == IF i = 0 THEN view[c] ELSE Learn(f[i - 1], queue[i])
           IsIt(f) == f = [i \in 0..n |-> Step(f, i)]
           it == CHOOSE f : IsIt(f)
<1>1. Learnt(c, n) = it[n]
  BY DEF Learnt
<1>2. IsIt([i \in 0..n |-> known[i]])
  <2> DEFINE f == [i \in 0..n |-> known[i]]
  <2>1. ASSUME NEW i \in 0..n PROVE known[i] = Step(f, i)
    <3>1. CASE i = 0
      BY <3>1 DEF IsTrace
    <3>2. CASE i # 0
      <4>1. i - 1 \in 0..n /\ i \in 1..Len(queue)
        BY <3>2
      <4>2. QED
        BY <3>2, <4>1 DEF IsTrace
    <3>3. QED
      BY <3>1, <3>2
  <2> HIDE DEF Step
  <2>2. QED
    BY <2>1
<1>3. IsIt(it)
  BY <1>2
<1>4. \A i \in 0..n : it[i] = Step(it, i)
  BY <1>3
<1> HIDE DEF it
<1> DEFINE bad == {i \in 0..n : it[i] # known[i]}
<1>5. ASSUME bad # {} PROVE FALSE
  <2>1. bad \in SUBSET Nat
    OBVIOUS
  <2>2. PICK m \in bad : \A i \in bad : m <= i
    <3> HIDE DEF bad
    <3>1. QED
      BY <1>5, <2>1, LeastException
  <2>3. m \in 0..n /\ it[m] # known[m]
    BY <2>2
  <2>4. m # 0
    BY <1>4, <2>3 DEF IsTrace
  <2>5. m - 1 \in 0..n /\ m - 1 \notin bad
    BY <2>2, <2>3, <2>4
  <2>6. it[m - 1] = known[m - 1]
    BY <2>5
  <2>7. m \in 1..Len(queue)
    BY <2>3, <2>4
  <2>8. it[m] = Learn(it[m - 1], queue[m]) /\ known[m] = Learn(known[m - 1], queue[m])
    BY <1>4, <2>3, <2>4, <2>7 DEF IsTrace
  <2>9. QED
    BY <2>3, <2>6, <2>8
<1>6. n \in 0..n
  OBVIOUS
<1>7. n \notin bad
  <2> HIDE DEF bad
  <2>1. QED
    BY <1>5
<1>8. it[n] = known[n]
  BY <1>6, <1>7
<1>9. QED
  BY <1>1, <1>8


(* Sensor nodes and the daemons do not use the gateway's own address as     *)
(* their source address.                                                    *)
NodesDoNotImpersonate == \A message \in NodeMessages : message.srcSSA # MulticastGateway

(* What a client with this lease may know.                                  *)
KnowledgeOf(lease) == [ssa : {NoLease, lease}, subscribed : SUBSET ServiceId]

(* What a packet to a client with this lease needs: what the client knows   *)
(* when it comes to read it.                                                *)
Justified(message, lease, slow, known) ==
  message # NoPayload =>
    /\ ClientSSA(message.dstSSA) => message.dstSSA = lease
    /\ GroupSSA(message.dstSSA) /\ ~slow => message.srcServiceId \in known.subscribed

(* A client that knows start and reads the queue knows its lease, or none,  *)
(* at any time, its subscriptions in the end, and is never surprised.       *)
InformedBy(known, queue, start, lease, subscribed, slow) ==
  /\ IsTrace(known, start, queue)
  /\ \A i \in 0..Len(queue) : known[i] \in KnowledgeOf(lease)
  /\ ~slow => known[Len(queue)].subscribed = subscribed
  /\ \A i \in 1..Len(queue) : Justified(queue[i].payload, lease, slow, known[i - 1])

Informed(queue, start, lease, subscribed, slow) ==
  \E known : InformedBy(known, queue, start, lease, subscribed, slow)

(* A frame that turns a client that knows before into one that knows after. *)
Tells(frame, lease, slow, before, after) ==
  \A known \in KnowledgeOf(lease) :
    (~slow => known.subscribed = before) =>
      /\ Learn(known, frame) \in KnowledgeOf(lease)
      /\ ~slow => Learn(known, frame).subscribed = after
      /\ Justified(frame.payload, lease, slow, known)

LEMMA InformedByOneMore ==
  ASSUME NEW queue \in Seq(GatewayFrame), NEW frame \in GatewayFrame, NEW start, NEW lease,
         NEW before, NEW after, NEW slow \in BOOLEAN,
         Informed(queue, start, lease, before, slow), Tells(frame, lease, slow, before, after)
  PROVE  Informed(Append(queue, frame), start, lease, after, slow)
<1> DEFINE n == Len(queue)
           longer == Append(queue, frame)
<1>1. PICK known : InformedBy(known, queue, start, lease, before, slow)
  BY DEF Informed
<1> DEFINE more == [i \in 0..(n + 1) |-> IF i = n + 1 THEN Learn(known[n], frame) ELSE known[i]]
<1>2. /\ n \in Nat /\ Len(longer) = n + 1
      /\ longer[n + 1] = frame
      /\ \A i \in 1..n : longer[i] = queue[i]
  BY LenProperties, AppendProperties
<1> HIDE DEF n, longer
<1>3. 0 \in 0..n /\ n \in 0..n /\ (n + 1) - 1 = n
  BY <1>2
<1>4. /\ more = [i \in 0..(n + 1) |-> more[i]]
      /\ more[n + 1] = Learn(known[n], frame)
      /\ \A i \in 0..n : more[i] = known[i]
  BY <1>2
<1> HIDE DEF more
<1>5. /\ known[0] = start
      /\ \A i \in 1..n : known[i] = Learn(known[i - 1], queue[i])
      /\ \A i \in 0..n : known[i] \in KnowledgeOf(lease)
      /\ ~slow => known[n].subscribed = before
      /\ \A i \in 1..n : Justified(queue[i].payload, lease, slow, known[i - 1])
  BY <1>1, Zenon DEF InformedBy, IsTrace, n
<1>6. /\ Learn(known[n], frame) \in KnowledgeOf(lease)
      /\ ~slow => Learn(known[n], frame).subscribed = after
      /\ Justified(frame.payload, lease, slow, known[n])
  <2>1. n \in 0..n
    BY <1>2
  <2>2. known[n] \in KnowledgeOf(lease) /\ (~slow => known[n].subscribed = before)
    BY <1>5, <2>1
  <2>3. QED
    BY <2>2, Zenon DEF Tells
<1>7. IsTrace(more, start, longer)
  <2>1. more[0] = start
    BY <1>3, <1>4, <1>5
  <2>2. ASSUME NEW i \in 1..(n + 1) PROVE more[i] = Learn(more[i - 1], longer[i])
    <3>1. CASE i = n + 1
      BY <1>3, <1>2, <1>4, <3>1
    <3>2. CASE i # n + 1
      <4>1. i \in 1..n /\ i \in 0..n /\ i - 1 \in 0..n
        BY <1>2, <3>2
      <4>2. QED
        <5>1. more[i] = known[i] /\ more[i - 1] = known[i - 1] /\ longer[i] = queue[i]
          BY <1>2, <1>4, <4>1
        <5>2. QED
          BY <1>5, <4>1, <5>1
    <3>3. QED
      BY <3>1, <3>2
  <2>3. QED
    BY <1>2, <1>4, <2>1, <2>2 DEF IsTrace
<1>8. ASSUME NEW i \in 0..(n + 1) PROVE more[i] \in KnowledgeOf(lease)
  <2>1. i \in 0..n \/ i = n + 1
    BY <1>2
  <2>2. QED
    BY <1>4, <1>5, <1>6, <2>1
<1>9. ASSUME NEW i \in 1..(n + 1) PROVE Justified(longer[i].payload, lease, slow, more[i - 1])
  <2>1. CASE i = n + 1
    <3>1. more[i - 1] = known[n] /\ longer[i] = frame
      BY <1>3, <1>2, <1>4, <2>1
    <3>2. QED
      BY <1>6, <3>1
  <2>2. CASE i # n + 1
    <3>1. i \in 1..n /\ i - 1 \in 0..n
      BY <1>2, <2>2
    <3>2. more[i - 1] = known[i - 1] /\ longer[i] = queue[i]
      BY <1>2, <1>4, <3>1
    <3>3. QED
      BY <1>5, <3>1, <3>2
  <2>3. QED
    BY <2>1, <2>2
<1>10. InformedBy(more, longer, start, lease, after, slow)
  BY <1>2, <1>4, <1>6, <1>7, <1>8, <1>9, Zenon DEF InformedBy
<1>11. QED
  BY <1>10 DEF Informed, longer

(* Of a client that was too slow nothing is said about its subscriptions.   *)
LEMMA SlowOnesMayMiss ==
  ASSUME NEW queue, NEW start, NEW lease, NEW before, NEW after,
         Informed(queue, start, lease, before, TRUE)
  PROVE  Informed(queue, start, lease, after, TRUE)
<1>1. PICK known : InformedBy(known, queue, start, lease, before, TRUE)
  BY DEF Informed
<1>2. InformedBy(known, queue, start, lease, after, TRUE)
  BY <1>1, Zenon DEF InformedBy
<1>3. QED
  BY <1>2 DEF Informed

LEMMA BecomingSlow ==
  ASSUME NEW queue, NEW start, NEW lease, NEW subscribed, NEW slow \in BOOLEAN,
         NEW slower \in BOOLEAN, slow => slower,
         Informed(queue, start, lease, subscribed, slow)
  PROVE  Informed(queue, start, lease, subscribed, slower)
<1>1. PICK known : InformedBy(known, queue, start, lease, subscribed, slow)
  BY DEF Informed
<1>2. \A message, k : Justified(message, lease, slow, k) => Justified(message, lease, slower, k)
  BY Zenon DEF Justified
<1>3. InformedBy(known, queue, start, lease, subscribed, slower)
  BY <1>1, <1>2, Zenon DEF InformedBy
<1>4. QED
  BY <1>3 DEF Informed

(* A frame is queued, or it is refused because the client is too slow.      *)
LEMMA InformedBySending ==
  ASSUME NEW queue \in Seq(GatewayFrame), NEW frame \in GatewayFrame, NEW start, NEW lease,
         NEW before, NEW after, NEW slow \in BOOLEAN, Full(queue) => slow,
         Informed(queue, start, lease, before, slow), Tells(frame, lease, slow, before, after)
  PROVE  Informed(SendFrame(queue, frame), start, lease, after, slow)
<1>1. Len(queue) \in Nat
  BY LenProperties
<1>2. CASE Full(queue)
  <2>1. slow = TRUE /\ SendFrame(queue, frame) = queue
    BY <1>1, <1>2, SendQueueAssumption DEF Full, SendFrame
  <2>2. QED
    BY <2>1, SlowOnesMayMiss
<1>3. CASE ~Full(queue)
  <2>1. SendFrame(queue, frame) = Append(queue, frame)
    BY <1>1, <1>3, SendQueueAssumption DEF Full, SendFrame
  <2>2. QED
    BY <2>1, InformedByOneMore
<1>4. QED
  BY <1>2, <1>3

(* The client has read a frame. *)
LEMMA InformedByTheRest ==
  ASSUME NEW queue \in Seq(GatewayFrame), queue # <<>>, NEW start, NEW lease, NEW subscribed,
         NEW slow \in BOOLEAN, Informed(queue, start, lease, subscribed, slow)
  PROVE  Informed(Tail(queue), Learn(start, Head(queue)), lease, subscribed, slow)
<1> DEFINE n == Len(queue)
           rest == Tail(queue)
<1>1. PICK known : InformedBy(known, queue, start, lease, subscribed, slow)
  BY DEF Informed
<1> DEFINE later == [i \in 0..(n - 1) |-> known[i + 1]]
<1>2. /\ n \in Nat \ {0} /\ Len(rest) = n - 1
      /\ Head(queue) = queue[1]
      /\ \A i \in 1..(n - 1) : rest[i] = queue[i + 1]
  <2>1. n \in Nat \ {0}
    BY LenProperties, EmptySeq
  <2>2. QED
    BY <2>1, HeadTailProperties
<1> HIDE DEF n, rest
<1>3. /\ later = [i \in 0..(n - 1) |-> later[i]]
      /\ \A i \in 0..(n - 1) : later[i] = known[i + 1]
  OBVIOUS
<1> HIDE DEF later
<1>4. /\ known[0] = start
      /\ \A i \in 1..n : known[i] = Learn(known[i - 1], queue[i])
      /\ \A i \in 0..n : known[i] \in KnowledgeOf(lease)
      /\ ~slow => known[n].subscribed = subscribed
      /\ \A i \in 1..n : Justified(queue[i].payload, lease, slow, known[i - 1])
  BY <1>1, Zenon DEF InformedBy, IsTrace, n
<1>5. /\ \A i \in 0..(n - 1) : i + 1 \in 0..n /\ i + 1 \in 1..n
      /\ \A i \in 1..(n - 1) : i - 1 \in 0..(n - 1) /\ i \in 0..(n - 1) /\ (i - 1) + 1 = i
                               /\ (i + 1) - 1 = i
      /\ 0 \in 0..(n - 1) /\ n - 1 \in 0..(n - 1) /\ (n - 1) + 1 = n /\ 0 + 1 = 1 /\ 1 - 1 = 0
  BY <1>2
<1>6. IsTrace(later, Learn(start, Head(queue)), rest)
  <2>1. later[0] = Learn(start, Head(queue))
    <3>1. known[1] = Learn(known[1 - 1], queue[1])
      <4>1. 1 \in 1..n
        BY <1>2
      <4>2. QED
        BY <1>4, <4>1
    <3>2. later[0] = known[1]
      BY <1>3, <1>5
    <3>3. QED
      BY <1>2, <1>4, <1>5, <3>1, <3>2
  <2>2. ASSUME NEW i \in 1..(n - 1) PROVE later[i] = Learn(later[i - 1], rest[i])
    <3>1. known[i + 1] = Learn(known[i], queue[i + 1])
      BY <1>4, <1>5
    <3>2. QED
      BY <1>2, <1>3, <1>5, <3>1
  <2>3. QED
    BY <1>2, <1>3, <2>1, <2>2 DEF IsTrace
<1>7. ASSUME NEW i \in 0..(n - 1) PROVE later[i] \in KnowledgeOf(lease)
  BY <1>3, <1>4, <1>5
<1>8. ~slow => later[n - 1].subscribed = subscribed
  BY <1>3, <1>4, <1>5
<1>9. ASSUME NEW i \in 1..(n - 1) PROVE Justified(rest[i].payload, lease, slow, later[i - 1])
  <2>1. Justified(queue[i + 1].payload, lease, slow, known[(i + 1) - 1])
    BY <1>4, <1>5, Zenon
  <2>2. later[i - 1] = known[i] /\ rest[i] = queue[i + 1]
    BY <1>2, <1>3, <1>5
  <2>3. QED
    BY <1>5, <2>1, <2>2
<1>10. InformedBy(later, rest, Learn(start, Head(queue)), lease, subscribed, slow)
  BY <1>2, <1>6, <1>7, <1>8, <1>9, Zenon DEF InformedBy
<1>11. QED
  BY <1>10 DEF Informed, rest

(* Before anything has been sent. *)
LEMMA InformedAtFirst ==
  ASSUME NEW start, NEW lease, start \in KnowledgeOf(lease), NEW slow
  PROVE  Informed(<<>>, start, lease, start.subscribed, slow)
<1> DEFINE known == [i \in 0..0 |-> start]
<1>1. Len(<<>>) = 0 /\ 0..0 = {0} /\ 1..0 = {} /\ known[0] = start
  BY EmptySeq
<1>2. known = [i \in 0..0 |-> known[i]]
  OBVIOUS
<1>3. IsTrace(known, start, <<>>)
  BY <1>1, <1>2 DEF IsTrace
<1>4. InformedBy(known, <<>>, start, lease, start.subscribed, slow)
  BY <1>1, <1>3 DEF InformedBy
<1>5. QED
  BY <1>4 DEF Informed


LEMMA CommandsTellNothing ==
  ASSUME NEW frame, frame.payload = NoPayload, NEW lease, NEW slow, NEW subscribed
  PROVE  Tells(frame, lease, slow, subscribed, subscribed)
<1>1. \A known : Learn(known, frame) = known
  BY DEF Learn
<1>2. QED
  BY <1>1, Zenon DEF Tells, Justified

LEMMA PacketsTellNothing ==
  ASSUME NEW message \in Message, message.srcSSA # MulticastGateway,
         NEW frame, frame.payload = message, NEW lease, NEW slow, NEW subscribed,
         ClientSSA(message.dstSSA) => message.dstSSA = lease,
         GroupSSA(message.dstSSA) => message.srcServiceId \in subscribed
  PROVE  Tells(frame, lease, slow, subscribed, subscribed)
<1>1. \A known : Learn(known, frame) = known
  BY DEF Learn, IsReply
<1>2. QED
  BY <1>1, Zenon DEF Tells, Justified

LEMMA AddressesAreNumbers == SSA \subseteq Nat
BY SMT DEF SSA, NonWsnAddr

LEMMA AddressFromBytes ==
  ASSUME NEW a \in SSA
  PROVE  (a \div \h100) * \h100 + (a % \h100) = a
<1>1. a \in Nat
  BY AddressesAreNumbers
<1>2. QED
  BY <1>1, SMT

(* What a reply may change in what a client knows.                          *)
LEMMA LearningTheAddress ==
  ASSUME NEW lease, NEW known \in KnowledgeOf(lease)
  PROVE  /\ [known EXCEPT !.ssa = lease] \in KnowledgeOf(lease)
         /\ [known EXCEPT !.ssa = lease].subscribed = known.subscribed
BY DEF KnowledgeOf

LEMMA LearningSubscriptions ==
  ASSUME NEW lease, NEW known \in KnowledgeOf(lease), NEW S \in SUBSET ServiceId
  PROVE  /\ [known EXCEPT !.subscribed = S] \in KnowledgeOf(lease)
         /\ [known EXCEPT !.subscribed = S].subscribed = S
BY DEF KnowledgeOf

(* Nobody but the gateway itself is told anything by a message below the    *)
(* client addresses.                                                        *)
LEMMA AddressReplyTells ==
  ASSUME NEW lease \in SSA, NEW frame, frame.payload = Addresses!AddressAssignmentReply(lease),
         NEW slow, NEW subscribed
  PROVE  Tells(frame, lease, slow, subscribed, subscribed)
<1> DEFINE reply == frame.payload
<1>1. /\ reply \in Message
      /\ reply = SnetServiceMessage(\hAE, \hAF, \h20, MulticastGateway, MulticastDirectChildren,
                                    <<0, lease \div \h100, lease % \h100>>)
  BY AddressReply
<1>2. /\ reply.srcServiceId = \hAE /\ reply.token = \h20
      /\ reply.srcSSA = MulticastGateway
      /\ reply.payload = <<0, lease \div \h100, lease % \h100>>
  BY <1>1, FieldsOfAMessage
<1>3. reply.dstSSA = MulticastDirectChildren
  BY <1>1 DEF SnetServiceMessage
<1>4. reply.payload[2] * \h100 + reply.payload[3] = lease
  <2>1. reply.payload[2] = lease \div \h100 /\ reply.payload[3] = lease % \h100
    BY <1>2
  <2>2. QED
    BY <2>1, AddressFromBytes
<1>5. reply # NoPayload
  BY <1>1, MessagesAreSomething
<1>6. ~ClientSSA(reply.dstSSA) /\ ~GroupSSA(reply.dstSSA)
  BY <1>3, SMT DEF ClientSSA, GroupSSA, MulticastDirectChildren, MulticastGateway, FirstGroupSSA
<1>7. \hAE # \hB0
  BY SMT
<1>8. \A known : Learn(known, frame) = [known EXCEPT !.ssa = lease]
  <2>1. ~IsReply(reply, \hB0, PubSub!SubscribeReply) /\ ~IsReply(reply, \hB0, PubSub!UnsubscribeReply)
    BY <1>2, <1>7 DEF IsReply
  <2>2. IsReply(reply, \hAE, \h20)
    BY <1>2 DEF IsReply
  <2>3. QED
    BY <1>4, <1>5, <2>1, <2>2, Zenon DEF Learn
<1>9. ASSUME NEW known \in KnowledgeOf(lease)
      PROVE  /\ Learn(known, frame) \in KnowledgeOf(lease)
             /\ Learn(known, frame).subscribed = known.subscribed
  <2>1. Learn(known, frame) = [known EXCEPT !.ssa = lease]
    BY <1>8
  <2>2. QED
    BY <2>1, LearningTheAddress
<1>10. QED
  BY <1>6, <1>9, Zenon DEF Tells, Justified

LEMMA ConfirmationTells ==
  ASSUME NEW message \in Message, Len(message.payload) = 1, NEW token \in {\h11, \h21},
         NEW lease \in SSA, ClientSSA(lease), NEW slow, NEW before, NEW after,
         token = \h11 => after = before \cup PubSub!Denoted(message.payload[1]),
         token = \h21 => after = before \ PubSub!Denoted(message.payload[1]),
         NEW frame, frame.payload = PubSub!Confirmation(token, message, lease)
  PROVE  Tells(frame, lease, slow, before, after)
<1> DEFINE reply == frame.payload
           S == PubSub!Denoted(message.payload[1])
<1>1. token \in Token
  BY FieldValues
<1>2. /\ reply \in Message
      /\ reply = SnetServiceMessage(\hB0, \hB0, token, MulticastGateway, lease,
                                    <<message.payload[1], 0>>)
  BY <1>1, ConfirmationReply
<1>3. /\ reply.srcServiceId = \hB0 /\ reply.token = token
      /\ reply.srcSSA = MulticastGateway
      /\ reply.payload = <<message.payload[1], 0>>
  BY <1>2, FieldsOfAMessage
<1>4. reply.dstSSA = lease
  BY <1>2 DEF SnetServiceMessage
<1>5. PubSub!Denoted(reply.payload[1]) = S
  BY <1>3
<1>6. reply # NoPayload
  BY <1>2, MessagesAreSomething
<1>7. ~GroupSSA(reply.dstSSA)
  <2>1. lease \in Int
    BY AddressesAreNumbers
  <2>2. QED
    BY <1>4, <2>1, SMT DEF ClientSSA, GroupSSA, MulticastGateway, FirstGroupSSA
<1>8. S \in SUBSET ServiceId
  <2>1. PubSub!ServiceId = ServiceId /\ ServiceId = Byte
    BY DEF PubSub!ServiceId, PubSub!Byte, ServiceId, Byte
  <2>2. QED
    BY <2>1, FirstByte DEF PubSub!Denoted
<1>9. PubSub!SubscribeReply = \h11 /\ PubSub!UnsubscribeReply = \h21 /\ \h11 # \h21
  BY SMT DEF PubSub!SubscribeReply, PubSub!UnsubscribeReply
<1> HIDE DEF S
<1>10. CASE token = \h11
  <2>1. IsReply(reply, \hB0, PubSub!SubscribeReply)
    BY <1>3, <1>9, <1>10 DEF IsReply
  <2>2. \A known : Learn(known, frame) = [known EXCEPT !.subscribed = @ \cup S]
    BY <1>5, <1>6, <2>1, Zenon DEF Learn
  <2>3. ASSUME NEW known \in KnowledgeOf(lease), ~slow => known.subscribed = before
        PROVE  /\ Learn(known, frame) \in KnowledgeOf(lease)
               /\ ~slow => Learn(known, frame).subscribed = after
    <3>1. known.subscribed \cup S \in SUBSET ServiceId
      BY <1>8 DEF KnowledgeOf
    <3>2. Learn(known, frame) = [known EXCEPT !.subscribed = known.subscribed \cup S]
      BY <2>2
    <3>3. ~slow => after = known.subscribed \cup S
      BY <1>9, <1>10, <2>3 DEF S
    <3>4. QED
      BY <3>1, <3>2, <3>3, LearningSubscriptions
  <2>4. QED
    BY <1>4, <1>7, <2>3, Zenon DEF Tells, Justified
<1>11. CASE token = \h21
  <2>1. /\ IsReply(reply, \hB0, PubSub!UnsubscribeReply)
        /\ ~IsReply(reply, \hB0, PubSub!SubscribeReply)
    BY <1>3, <1>9, <1>11 DEF IsReply
  <2>2. \A known : Learn(known, frame) = [known EXCEPT !.subscribed = @ \ S]
    BY <1>5, <1>6, <2>1, Zenon DEF Learn
  <2>3. ASSUME NEW known \in KnowledgeOf(lease), ~slow => known.subscribed = before
        PROVE  /\ Learn(known, frame) \in KnowledgeOf(lease)
               /\ ~slow => Learn(known, frame).subscribed = after
    <3>1. known.subscribed \ S \in SUBSET ServiceId
      BY <1>8 DEF KnowledgeOf
    <3>2. Learn(known, frame) = [known EXCEPT !.subscribed = known.subscribed \ S]
      BY <2>2
    <3>3. ~slow => after = known.subscribed \ S
      BY <1>9, <1>11, <2>3 DEF S
    <3>4. QED
      BY <3>1, <3>2, <3>3, LearningSubscriptions
  <2>4. QED
    BY <1>4, <1>7, <2>3, Zenon DEF Tells, Justified
<1>12. QED
  BY <1>10, <1>11


(* The inductive invariant. *)
ClientsInformed(queue, subscribed, slow) ==
  \A c \in Conn : Informed(queue[c], view[c], m_AddressLease[c], subscribed[c], slow[c])

ClientInv ==
  /\ view = [c \in Conn |-> view[c]]
  /\ ClientsInformed(sendQueue, m_SubscribedServiceIds, congested)

LEMMA FramesOfAMode ==
  ASSUME NEW mode \in FramingMode
  PROVE  /\ FramesOf(mode) \subseteq GatewayFrame
         /\ \A queue \in Seq(FramesOf(mode)) : queue \in Seq(GatewayFrame)
<1>1. FramesOf(mode) \subseteq GatewayFrame
  BY DEF FramesOf, GatewayFrame, FramingMode
<1>2. QED
  BY <1>1, SeqMonotonic

LEMMA InformedByAPayload ==
  ASSUME NEW mode \in FramingMode, NEW queue \in Seq(FramesOf(mode)), NEW payload \in Payload,
         NEW start, NEW lease, NEW before, NEW after, NEW slow \in BOOLEAN, Full(queue) => slow,
         Informed(queue, start, lease, before, slow),
         mode = "UNKNOWN" => after = before,
         \A frame \in GatewayFrame :
           frame.payload = payload => Tells(frame, lease, slow, before, after)
  PROVE  Informed(Sent(mode, queue, payload), start, lease, after, slow)
<1>1. CASE mode = "UNKNOWN"
  BY <1>1 DEF Sent
<1>2. CASE mode # "UNKNOWN"
  <2>1. mode \in {"ESCAPING", "LENGTH"}
    BY <1>2 DEF FramingMode
  <2>2. /\ Encapsulated(mode, payload) \in FramesOf(mode)
        /\ Encapsulated(mode, payload).payload = payload
    <3>1. Encapsulated(mode, payload) \in {Frame(mode, "0302", payload), Frame(mode, "data", payload)}
      BY <2>1 DEF Encapsulated
    <3>2. "0302" \in FrameId /\ "data" \in FrameId
      BY DEF FrameId
    <3>3. QED
      BY <2>1, <3>1, <3>2, Framing
  <2>3. Sent(mode, queue, payload) = SendFrame(queue, Encapsulated(mode, payload))
    BY <1>2 DEF Sent
  <2>4. queue \in Seq(GatewayFrame) /\ Encapsulated(mode, payload) \in GatewayFrame
    BY <2>2, FramesOfAMode
  <2>5. QED
    BY <2>2, <2>3, <2>4, InformedBySending
<1>3. QED
  BY <1>1, <1>2

LEMMA InformedByAResponse ==
  ASSUME NEW mode \in FramingMode, NEW queue \in Seq(FramesOf(mode)),
         NEW frame \in ClientFrames, Accepts(mode, frame),
         NEW start, NEW lease, NEW subscribed, NEW slow \in BOOLEAN, Full(queue) => slow,
         Informed(queue, start, lease, subscribed, slow)
  PROVE  Informed(Acknowledged(queue, frame), start, lease, subscribed, slow)
<1>1. CASE frame.framing # "ESCAPING"
  BY <1>1 DEF Acknowledged
<1>2. CASE frame.framing = "ESCAPING"
  <2>1. ResponseId[frame.id] \in FrameId
    <3>1. frame.id \in {"0100", "0110", "0300"}
      BY <1>2, FrameAssumption DEF Accepts, IdFits, RequestId
    <3>2. QED
      BY <3>1 DEF ResponseId, RequestId, FrameId
  <2> DEFINE response == Frame("ESCAPING", ResponseId[frame.id], NoPayload)
  <2>2. response \in FramesOf("ESCAPING") /\ response.payload = NoPayload
    BY <2>1, Framing DEF Payload
  <2>3. Acknowledged(queue, frame) = SendFrame(queue, response)
    BY <1>2 DEF Acknowledged
  <2> HIDE DEF response
  <2>4. queue \in Seq(GatewayFrame) /\ response \in GatewayFrame
    BY <2>2, FramesOfAMode DEF FramingMode
  <2>5. Tells(response, lease, slow, subscribed, subscribed)
    BY <2>2, CommandsTellNothing
  <2>6. QED
    BY <2>3, <2>4, <2>5, InformedBySending
<1>3. QED
  BY <1>1, <1>2

(* Whatever is sent in response to a frame, first there is the response.    *)
LEMMA RespondingInforms ==
  ASSUME QueueInv, QueueInv', ClientInv, NEW c \in Conn, NEW frame \in ClientFrames,
         FrameArrives(c, frame), NEW sent, Transmit(sent),
         \A d \in Conn : Full(Acknowledge(c, frame)[d]) => Full(sent[d])
  PROVE  /\ ClientsInformed(Acknowledge(c, frame), m_SubscribedServiceIds, congested')
         /\ \A d \in Conn : /\ congested'[d] \in BOOLEAN
                            /\ Full(Acknowledge(c, frame)[d]) => congested'[d]
<1>1. /\ congested' = [d \in Conn |-> congested[d] \/ Full(sent[d])]
      /\ congested \in [Conn -> BOOLEAN] /\ congested' \in [Conn -> BOOLEAN]
  BY DEF Transmit, Full, QueueInv
<1>2. ASSUME NEW d \in Conn
      PROVE  /\ Acknowledge(c, frame)[d] = IF d = c THEN Acknowledged(sendQueue[c], frame)
                                           ELSE sendQueue[d]
             /\ sendQueue[d] \in Seq(FramesOf(m_eFramingMode[d]))
             /\ m_eFramingMode[d] \in FramingMode
             /\ congested[d] \in BOOLEAN /\ congested'[d] \in BOOLEAN
             /\ congested[d] => congested'[d]
             /\ Full(sendQueue[d]) => congested'[d]
             /\ Full(Acknowledge(c, frame)[d]) => congested'[d]
  BY <1>1 DEF Acknowledge, QueueInv
<1>3. ASSUME NEW d \in Conn
      PROVE  Informed(sendQueue[d], view[d], m_AddressLease[d], m_SubscribedServiceIds[d],
                      congested'[d])
  <2>1. Informed(sendQueue[d], view[d], m_AddressLease[d], m_SubscribedServiceIds[d], congested[d])
    BY DEF ClientInv, ClientsInformed
  <2>2. QED
    BY <1>2, <2>1, BecomingSlow
<1>4. Accepts(m_eFramingMode[c], frame)
  BY DEF FrameArrives
<1>5. ASSUME NEW d \in Conn
      PROVE  Informed(Acknowledge(c, frame)[d], view[d], m_AddressLease[d],
                      m_SubscribedServiceIds[d], congested'[d])
  <2>1. CASE d = c
    BY <1>2, <1>3, <1>4, <2>1, InformedByAResponse
  <2>2. CASE d # c
    BY <1>2, <1>3, <2>2
  <2>3. QED
    BY <2>1, <2>2
<1>6. QED
  BY <1>2, <1>5 DEF ClientsInformed

LEMMA TransmitInforms ==
  ASSUME ClientInv, NEW queue, Transmit(queue), UNCHANGED <<view, m_AddressLease>>,
         ClientsInformed(queue, m_SubscribedServiceIds', congested')
  PROVE  ClientInv'
<1>1. sendQueue' = queue
  BY DEF Transmit
<1>2. QED
  BY <1>1 DEF ClientInv, ClientsInformed

(* One more frame, the reply of a service. *)
LEMMA AnsweringInforms ==
  ASSUME LeaseInv, QueueInv, QueueInv', ClientInv, NEW c \in Conn, NEW frame \in ClientFrames,
         FrameArrives(c, frame), NEW reply \in Message, Transmit(Answer(c, frame, reply)),
         \A d \in Conn \ {c} : m_SubscribedServiceIds'[d] = m_SubscribedServiceIds[d],
         \A f \in GatewayFrame :
           f.payload = reply => Tells(f, m_AddressLease[c], congested'[c],
                                      m_SubscribedServiceIds[c], m_SubscribedServiceIds'[c])
  PROVE  ClientInv'
<1> DEFINE queue == Acknowledge(c, frame)
           sent == Sent(frame.framing, queue[c], reply)
<1>1. /\ frame.framing \in {"ESCAPING", "LENGTH"} /\ frame.framing \in FramingMode
      /\ m_eFramingMode' \in [Conn -> FramingMode] /\ m_eFramingMode'[c] = frame.framing
      /\ FitsModes(queue, m_eFramingMode')
  <2>1. {"ESCAPING", "LENGTH"} \subseteq FramingMode
    BY DEF FramingMode
  <2>2. m_eFramingMode \in [Conn -> FramingMode]
    BY DEF QueueInv
  <2>3. /\ frame.framing \in {"ESCAPING", "LENGTH"}
        /\ m_eFramingMode' = [m_eFramingMode EXCEPT ![c] = frame.framing]
        /\ m_eFramingMode' \in [Conn -> FramingMode]
        /\ FitsModes(queue, m_eFramingMode')
    BY AFrameArrives
  <2>4. QED
    BY <2>1, <2>2, <2>3
<1>2. Answer(c, frame, reply) = [queue EXCEPT ![c] = sent]
  BY <1>1, AnswerFits
<1>3. queue[c] \in Seq(FramesOf(frame.framing)) /\ queue = [d \in Conn |-> queue[d]]
  BY <1>1 DEF FitsModes
<1>4. Full(queue[c]) => Full(sent)
  BY <1>1, <1>3, SendingAPayload DEF Payload
<1> HIDE DEF queue, sent
<1>5. /\ Answer(c, frame, reply)[c] = sent
      /\ \A d \in Conn \ {c} : Answer(c, frame, reply)[d] = queue[d]
  BY <1>2, <1>3
<1>6. \A d \in Conn : Full(queue[d]) => Full(Answer(c, frame, reply)[d])
  BY <1>4, <1>5
<1>7. /\ ClientsInformed(queue, m_SubscribedServiceIds, congested')
      /\ \A d \in Conn : congested'[d] \in BOOLEAN /\ (Full(queue[d]) => congested'[d])
  BY <1>6, RespondingInforms DEF queue
<1>8. Informed(sent, view[c], m_AddressLease[c], m_SubscribedServiceIds'[c], congested'[c])
  <2>1. Informed(queue[c], view[c], m_AddressLease[c], m_SubscribedServiceIds[c], congested'[c])
    BY <1>7 DEF ClientsInformed
  <2>2. reply \in Payload /\ frame.framing # "UNKNOWN"
    BY <1>1 DEF Payload
  <2>3. QED
    BY <1>1, <1>3, <1>7, <2>1, <2>2, InformedByAPayload DEF sent
<1>9. ClientsInformed(Answer(c, frame, reply), m_SubscribedServiceIds', congested')
  BY <1>5, <1>7, <1>8 DEF ClientsInformed
<1>10. UNCHANGED <<view, m_AddressLease>>
  BY DEF FrameArrives, poolVars
<1>11. QED
  BY <1>9, <1>10, TransmitInforms

(* What the routing entity sends to the clients is no reply of the gateway. *)
LEMMA DeliveringInforms ==
  ASSUME NEW mode \in [Conn -> FramingMode], NEW queue, FitsModes(queue, mode),
         NEW message \in Message, message.srcSSA # MulticastGateway, NEW slow,
         \A c \in Conn : slow[c] \in BOOLEAN /\ (Full(queue[c]) => slow[c]),
         ClientsInformed(queue, m_SubscribedServiceIds, slow)
  PROVE  ClientsInformed(Delivered(queue, mode, message), m_SubscribedServiceIds, slow)
<1> SUFFICES ASSUME NEW c \in Conn
             PROVE  Informed(Delivered(queue, mode, message)[c], view[c], m_AddressLease[c],
                             m_SubscribedServiceIds[c], slow[c])
  BY DEF ClientsInformed
<1>1. Informed(queue[c], view[c], m_AddressLease[c], m_SubscribedServiceIds[c], slow[c])
  BY DEF ClientsInformed
<1>2. CASE ~(c \in m_GatewayAccessServerHandlerList /\ ForThisClient(c, message))
  BY <1>1, <1>2 DEF Delivered
<1>3. CASE c \in m_GatewayAccessServerHandlerList /\ ForThisClient(c, message)
  <2>1. Delivered(queue, mode, message)[c] = Sent(mode[c], queue[c], message)
    BY <1>3 DEF Delivered
  <2>2. \A frame \in GatewayFrame :
          frame.payload = message => Tells(frame, m_AddressLease[c], slow[c],
                                           m_SubscribedServiceIds[c], m_SubscribedServiceIds[c])
    BY <1>3, PacketsTellNothing DEF ForThisClient
  <2>3. /\ mode[c] \in FramingMode /\ queue[c] \in Seq(FramesOf(mode[c]))
        /\ slow[c] \in BOOLEAN /\ (Full(queue[c]) => slow[c]) /\ message \in Payload
    BY DEF FitsModes, Payload
  <2>4. QED
    BY <1>1, <2>1, <2>2, <2>3, InformedByAPayload
<1>4. QED
  BY <1>2, <1>3


LEMMA FrameKeepsClientInv ==
  ASSUME LeaseInv, QueueInv, QueueInv', AddressesUsable, ClientInv,
         NEW c \in Conn, NEW frame \in ClientFrames, FrameArrives(c, frame), OnFrame(c, frame)
  PROVE  ClientInv'
<1> DEFINE a == m_AddressLease[c]
           message == frame.payload
<1>1. /\ m_Registered[c] /\ a \in SSA /\ a \in FirstClientSSA..(FirstGroupSSA - 1)
      /\ UNCHANGED <<view, m_AddressLease>>
  BY ConnectedHaveAddresses DEF FrameArrives, AddressesUsable, poolVars
<1>2. ClientSSA(a) /\ a # MulticastGateway
  <2>1. /\ FirstClientSSA = MulticastGateway + 1 /\ MulticastGateway \in Int /\ FirstGroupSSA \in Int
    BY SMT DEF FirstClientSSA, MulticastGateway, FirstGroupSSA
  <2> HIDE DEF a
  <2>2. QED
    BY <1>1, <2>1 DEF ClientSSA
<1> HIDE DEF a
<1>3. message # NoPayload => message \in Message
  BY FrameAssumption
<1>4. m_SubscribedServiceIds \in [Conn -> SUBSET ServiceId]
  BY DEF QueueInv
<1>5. ASSUME Transmit(Acknowledge(c, frame)), m_SubscribedServiceIds' = m_SubscribedServiceIds
      PROVE  ClientInv'
  <2>1. ClientsInformed(Acknowledge(c, frame), m_SubscribedServiceIds', congested')
    BY <1>5, RespondingInforms
  <2>2. QED
    BY <1>1, <1>5, <2>1, TransmitInforms
<1>6. CASE OnFrameWithoutMessage(c, frame)
  BY <1>5, <1>6 DEF OnFrameWithoutMessage
<1>7. CASE OnPayloadForAddressService(c, frame)
  <2> DEFINE reply == Addresses!AddressAssignmentReply(a)
  <2>1. m_SubscribedServiceIds' = m_SubscribedServiceIds
    BY <1>7 DEF OnPayloadForAddressService
  <2>2. Transmit(Acknowledge(c, frame)) \/ Transmit(Answer(c, frame, reply))
    BY <1>1, <1>7, AddressServiceReplies DEF OnPayloadForAddressService, a
  <2>3. reply \in Message
    BY <1>1, AddressReply
  <2>4. ASSUME NEW f \in GatewayFrame, f.payload = reply
        PROVE  Tells(f, a, congested'[c], m_SubscribedServiceIds[c], m_SubscribedServiceIds'[c])
    BY <1>1, <2>1, <2>4, AddressReplyTells
  <2> HIDE DEF reply
  <2>5. CASE Transmit(Answer(c, frame, reply))
    BY <2>1, <2>3, <2>4, <2>5, AnsweringInforms DEF a
  <2>6. QED
    BY <1>5, <2>1, <2>2, <2>5
<1>8. CASE OnPayloadForPublishSubscribe(c, frame)
  <2> DEFINE reply == PubSub!Reply(message, a)
             after == PubSub!Resubscribed(m_SubscribedServiceIds[c], message)
  <2>1. /\ Transmit(IF reply.srcServiceId = \hB0 THEN Answer(c, frame, reply)
                    ELSE Acknowledge(c, frame))
        /\ m_SubscribedServiceIds' = [m_SubscribedServiceIds EXCEPT ![c] = after]
        /\ message \in Message
    BY <1>3, <1>8 DEF OnPayloadForPublishSubscribe, MessageArrives, a
  <2>2. /\ m_SubscribedServiceIds'[c] = after
        /\ \A d \in Conn \ {c} : m_SubscribedServiceIds'[d] = m_SubscribedServiceIds[d]
    BY <1>4, <2>1
  <2>3. CASE reply.srcServiceId # \hB0
    <3>1. after = m_SubscribedServiceIds[c]
      BY <1>1, <2>1, <2>3, PubSubReplies DEF PubSub!Resubscribed
    <3>2. m_SubscribedServiceIds' = m_SubscribedServiceIds
      BY <1>4, <2>1, <3>1
    <3>3. QED
      BY <1>5, <2>1, <2>3, <3>2
  <2>4. ASSUME NEW token \in {\h11, \h21}, reply.srcServiceId = \hB0,
               reply = PubSub!Confirmation(token, message, a), Len(message.payload) = 1,
               token = \h11 => after = m_SubscribedServiceIds[c] \cup PubSub!Denoted(message.payload[1]),
               token = \h21 => after = m_SubscribedServiceIds[c] \ PubSub!Denoted(message.payload[1])
        PROVE  ClientInv'
    <3>1. token \in Token
      BY FieldValues
    <3>2. reply \in Message
      <4>1. a \in SSA /\ message \in Message /\ Len(message.payload) = 1
        BY <1>1, <2>1, <2>4
      <4>2. PubSub!Confirmation(token, message, a) \in Message
        BY <3>1, <4>1, ConfirmationReply
      <4>3. QED
        BY <2>4, <4>2
    <3>3. ASSUME NEW f \in GatewayFrame, f.payload = reply
          PROVE  Tells(f, a, congested'[c], m_SubscribedServiceIds[c], m_SubscribedServiceIds'[c])
      <4>1. f.payload = PubSub!Confirmation(token, message, a)
        BY <2>4, <3>3
      <4> HIDE DEF reply, after
      <4>2. Tells(f, a, congested'[c], m_SubscribedServiceIds[c], after)
        BY <1>1, <1>2, <2>1, <2>4, <4>1, ConfirmationTells
      <4>3. QED
        BY <2>2, <4>2
    <3>4. Transmit(Answer(c, frame, reply))
      BY <2>1, <2>4
    <3> HIDE DEF reply
    <3>5. QED
      BY <2>2, <3>2, <3>3, <3>4, AnsweringInforms DEF a
  <2>5. CASE /\ reply.srcServiceId = \hB0
             /\ PubSub!IsRequest(message, PubSub!SubscribeRequest)
             /\ reply = PubSub!Confirmation(\h11, message, a)
    <3>1. /\ Len(message.payload) = 1
          /\ after = m_SubscribedServiceIds[c] \cup PubSub!Denoted(message.payload[1])
      BY <2>5 DEF PubSub!IsRequest, PubSub!Resubscribed
    <3>2. QED
      BY <2>4, <2>5, <3>1, \h11 # \h21
  <2>6. CASE /\ reply.srcServiceId = \hB0
             /\ PubSub!IsRequest(message, PubSub!UnsubscribeRequest)
             /\ ~PubSub!IsRequest(message, PubSub!SubscribeRequest)
             /\ reply = PubSub!Confirmation(\h21, message, a)
    <3>1. /\ Len(message.payload) = 1
          /\ after = m_SubscribedServiceIds[c] \ PubSub!Denoted(message.payload[1])
      BY <2>6 DEF PubSub!IsRequest, PubSub!Resubscribed
    <3>2. QED
      BY <2>4, <2>6, <3>1, \h11 # \h21
  <2>7. QED
    BY <1>1, <2>1, <2>3, <2>5, <2>6, PubSubReplies
<1>9. CASE OnPayloadForRouting(c, frame)
  <2> DEFINE packet == Masqueraded(c, message)
             queue == Acknowledge(c, frame)
  <2>1. /\ m_SubscribedServiceIds' = m_SubscribedServiceIds
        /\ message \in Message
        /\ \/ Transmit(queue)
           \/ Transmit(Delivered(queue, m_eFramingMode', packet))
    BY <1>3, <1>9 DEF OnPayloadForRouting, MessageArrives, RouteSnetPacket
  <2>2. packet \in Message /\ packet.srcSSA # MulticastGateway
    <3>1. packet \in Message /\ packet.srcSSA \in {WiredAddr, a}
      BY <1>1, <2>1, MasqueradedIsAMessage DEF a
    <3>2. WiredAddr # MulticastGateway
      BY SMT DEF WiredAddr, MulticastGateway
    <3>3. QED
      BY <1>2, <3>1, <3>2
  <2>3. FitsModes(queue, m_eFramingMode') /\ m_eFramingMode' \in [Conn -> FramingMode]
    BY AFrameArrives
  <2> HIDE DEF packet, queue
  <2>4. CASE Transmit(Delivered(queue, m_eFramingMode', packet))
    <3>1. \A d \in Conn : Full(queue[d]) => Full(Delivered(queue, m_eFramingMode', packet)[d])
      BY <2>2, <2>3, DeliveredFits
    <3>2. /\ ClientsInformed(queue, m_SubscribedServiceIds, congested')
          /\ \A d \in Conn : congested'[d] \in BOOLEAN /\ (Full(queue[d]) => congested'[d])
      BY <2>4, <3>1, RespondingInforms DEF queue
    <3>3. ClientsInformed(Delivered(queue, m_eFramingMode', packet), m_SubscribedServiceIds,
                          congested')
      BY <2>2, <2>3, <3>2, DeliveringInforms
    <3>4. QED
      BY <1>1, <2>1, <2>4, <3>3, TransmitInforms
  <2>5. QED
    BY <1>5, <2>1, <2>4 DEF queue
<1>10. ~OnProtocolViolation(c, frame)
  BY DEF OnProtocolViolation, FrameArrives
<1>11. QED
  BY <1>6, <1>7, <1>8, <1>9, <1>10 DEF OnFrame

LEMMA PacketKeepsClientInv ==
  ASSUME QueueInv, QueueInv', ClientInv, NEW message \in Message,
         message.srcSSA # MulticastGateway, OnSnetPacket(message)
  PROVE  ClientInv'
<1>1. /\ m_eFramingMode' = m_eFramingMode /\ m_SubscribedServiceIds' = m_SubscribedServiceIds
      /\ UNCHANGED <<view, m_AddressLease>>
  BY DEF OnSnetPacket, handlerVars, poolVars
<1>2. PICK queue : /\ Transmit(queue)
                   /\ queue \in {sendQueue, Delivered(sendQueue, m_eFramingMode, message)}
  BY DEF OnSnetPacket, RouteSnetPacket
<1>3. FitsModes(sendQueue, m_eFramingMode) /\ m_eFramingMode \in [Conn -> FramingMode]
  BY DEF QueueInv, FitsModes
<1>4. /\ congested' = [c \in Conn |-> congested[c] \/ Full(queue[c])]
      /\ congested \in [Conn -> BOOLEAN] /\ congested' \in [Conn -> BOOLEAN]
      /\ \A c \in Conn : Full(sendQueue[c]) => congested[c]
  BY <1>2 DEF Transmit, Full, QueueInv
<1>5. \A c \in Conn : /\ congested[c] \in BOOLEAN /\ congested'[c] \in BOOLEAN
                      /\ congested[c] => congested'[c]
                      /\ Full(sendQueue[c]) => congested'[c]
  BY <1>4
<1>6. ClientsInformed(sendQueue, m_SubscribedServiceIds, congested')
  <2> SUFFICES ASSUME NEW c \in Conn
               PROVE  Informed(sendQueue[c], view[c], m_AddressLease[c],
                               m_SubscribedServiceIds[c], congested'[c])
    BY DEF ClientsInformed
  <2>1. Informed(sendQueue[c], view[c], m_AddressLease[c], m_SubscribedServiceIds[c], congested[c])
    BY DEF ClientInv, ClientsInformed
  <2>2. QED
    BY <1>5, <2>1, BecomingSlow
<1>7. ClientsInformed(queue, m_SubscribedServiceIds, congested')
  <2>1. ClientsInformed(Delivered(sendQueue, m_eFramingMode, message), m_SubscribedServiceIds,
                        congested')
    BY <1>3, <1>5, <1>6, DeliveringInforms
  <2>2. QED
    BY <1>2, <1>6, <2>1
<1>8. QED
  BY <1>1, <1>2, <1>7, TransmitInforms

LEMMA CloseKeepsClientInv ==
  ASSUME LeaseInv, QueueInv, ClientInv, NEW c \in Conn, Close(c)
  PROVE  ClientInv'
<1>1. /\ m_AddressLease' = [m_AddressLease EXCEPT ![c] = NoLease]
      /\ sendQueue' = [sendQueue EXCEPT ![c] = <<>>]
      /\ congested' = [congested EXCEPT ![c] = FALSE]
      /\ m_SubscribedServiceIds' = [m_SubscribedServiceIds EXCEPT ![c] = {}]
      /\ view' = [view EXCEPT ![c] = NothingKnown]
  BY DEF Close, Destroy, Pool!ReleaseAddressLease
<1>2. /\ m_AddressLease \in [Conn -> SSA \cup {NoLease}]
      /\ congested \in [Conn -> BOOLEAN]
      /\ m_SubscribedServiceIds \in [Conn -> SUBSET ServiceId]
      /\ sendQueue = [d \in Conn |-> sendQueue[d]]
      /\ view = [d \in Conn |-> view[d]]
  BY DEF LeaseInv, QueueInv, ClientInv
<1>3. Informed(<<>>, NothingKnown, NoLease, {}, FALSE)
  <2>1. NothingKnown \in KnowledgeOf(NoLease) /\ NothingKnown.subscribed = {}
    BY DEF NothingKnown, KnowledgeOf
  <2>2. QED
    BY <2>1, InformedAtFirst
<1>4. ASSUME NEW d \in Conn
      PROVE  Informed(sendQueue'[d], view'[d], m_AddressLease'[d], m_SubscribedServiceIds'[d],
                      congested'[d])
  <2>1. CASE d = c
    <3>1. /\ sendQueue'[d] = <<>> /\ view'[d] = NothingKnown /\ m_AddressLease'[d] = NoLease
          /\ m_SubscribedServiceIds'[d] = {} /\ congested'[d] = FALSE
      BY <1>1, <1>2, <2>1
    <3>2. QED
      BY <1>3, <3>1
  <2>2. CASE d # c
    <3>1. /\ sendQueue'[d] = sendQueue[d] /\ view'[d] = view[d]
          /\ m_AddressLease'[d] = m_AddressLease[d]
          /\ m_SubscribedServiceIds'[d] = m_SubscribedServiceIds[d]
          /\ congested'[d] = congested[d]
      BY <1>1, <1>2, <2>2
    <3>2. QED
      BY <3>1 DEF ClientInv, ClientsInformed
  <2>3. QED
    BY <2>1, <2>2
<1>5. view' = [d \in Conn |-> view'[d]]
  BY <1>1, <1>2
<1>6. QED
  BY <1>4, <1>5 DEF ClientInv, ClientsInformed

(* A new client knows nothing yet, and its address is not told yet.         *)
LEMMA AcceptKeepsClientInv ==
  ASSUME LeaseInv, QueueInv, ClientInv, NEW c \in Conn, Accept(c)
  PROVE  ClientInv'
<1>1. /\ m_AddressLease[c] = NoLease /\ m_eFramingMode[c] = "UNKNOWN"
      /\ \A d \in Conn \ {c} : m_AddressLease'[d] = m_AddressLease[d]
      /\ UNCHANGED <<sendQueue, view, m_SubscribedServiceIds, congested>>
  BY DEF LeaseInv, HandlersHoldLeases, QueueInv, Accept, handlerVars, deliveryVars,
     Pool!ObtainAddressLease, Pool!LeaseFresh, Pool!LeaseReclaimed
<1>2. sendQueue[c] = <<>>
  BY <1>1, NothingBeforeTheFormat DEF QueueInv
<1>3. \A d \in Conn : Informed(sendQueue[d], view[d], m_AddressLease[d],
                               m_SubscribedServiceIds[d], congested[d])
  BY DEF ClientInv, ClientsInformed
<1>4. Informed(<<>>, view[c], m_AddressLease'[c], m_SubscribedServiceIds[c], congested[c])
  <2>1. PICK known : InformedBy(known, <<>>, view[c], NoLease, m_SubscribedServiceIds[c], congested[c])
    BY <1>1, <1>2, <1>3 DEF Informed
  <2>2. Len(<<>>) = 0 /\ 0..0 = {0} /\ 1..0 = {}
    BY EmptySeq
  <2>3. KnowledgeOf(NoLease) \subseteq KnowledgeOf(m_AddressLease'[c])
    BY DEF KnowledgeOf
  <2>4. InformedBy(known, <<>>, view[c], m_AddressLease'[c], m_SubscribedServiceIds[c], congested[c])
    BY <2>1, <2>2, <2>3 DEF InformedBy
  <2>5. QED
    BY <2>4 DEF Informed
<1>5. QED
  BY <1>1, <1>2, <1>3, <1>4 DEF ClientInv, ClientsInformed

LEMMA ReadingKeepsClientInv ==
  ASSUME QueueInv, ClientInv, NEW c \in Conn, ClientReceives(c)
  PROVE  ClientInv'
<1>1. /\ sendQueue[c] # <<>>
      /\ view' = [view EXCEPT ![c] = Learn(view[c], Head(sendQueue[c]))]
      /\ sendQueue' = [sendQueue EXCEPT ![c] = Tail(sendQueue[c])]
      /\ UNCHANGED <<m_AddressLease, m_SubscribedServiceIds, congested>>
  BY DEF ClientReceives, poolVars, handlerVars
<1>2. /\ sendQueue[c] \in Seq(FramesOf(m_eFramingMode[c])) /\ m_eFramingMode[c] \in FramingMode
      /\ congested[c] \in BOOLEAN
      /\ sendQueue = [d \in Conn |-> sendQueue[d]]
      /\ view = [d \in Conn |-> view[d]]
  BY DEF QueueInv, ClientInv
<1>3. sendQueue[c] \in Seq(GatewayFrame)
  BY <1>2, FramesOfAMode
<1>4. \A d \in Conn : Informed(sendQueue[d], view[d], m_AddressLease[d],
                               m_SubscribedServiceIds[d], congested[d])
  BY DEF ClientInv, ClientsInformed
<1>5. Informed(Tail(sendQueue[c]), Learn(view[c], Head(sendQueue[c])), m_AddressLease[c],
               m_SubscribedServiceIds[c], congested[c])
  BY <1>1, <1>2, <1>3, <1>4, InformedByTheRest
<1>6. /\ sendQueue'[c] = Tail(sendQueue[c]) /\ view'[c] = Learn(view[c], Head(sendQueue[c]))
      /\ \A d \in Conn \ {c} : sendQueue'[d] = sendQueue[d] /\ view'[d] = view[d]
      /\ view' = [d \in Conn |-> view'[d]]
  BY <1>1, <1>2
<1>7. QED
  BY <1>1, <1>4, <1>5, <1>6 DEF ClientInv, ClientsInformed

LEMMA NextClientInv ==
  ASSUME NodesDoNotImpersonate, LeaseInv, QueueInv, QueueInv', AddressesUsable, ClientInv,
         [Next]_vars
  PROVE  ClientInv'
<1>1. ASSUME NEW c \in Conn, Accept(c) \/ Close(c) \/ ClientReceives(c) PROVE ClientInv'
  BY <1>1, AcceptKeepsClientInv, CloseKeepsClientInv, ReadingKeepsClientInv
<1>2. ASSUME NEW c \in Conn, NEW frame \in ClientFrames, OnFrame(c, frame) PROVE ClientInv'
  <2>1. CASE OnProtocolViolation(c, frame)
    BY <1>1, <2>1 DEF OnProtocolViolation
  <2>2. CASE FrameArrives(c, frame)
    BY <1>2, <2>2, FrameKeepsClientInv
  <2>3. QED
    BY <1>2, <2>1, <2>2 DEF OnFrame, OnFrameWithoutMessage, OnPayloadForAddressService,
       OnPayloadForPublishSubscribe, OnPayloadForRouting, MessageArrives
<1>3. CASE NodeReplies
  <2>1. PICK r \in requests : OnSnetPacket(ReplyTo(r.message))
    BY <1>3 DEF NodeReplies
  <2>2. ReplyTo(r.message) \in Message
    BY ReplyIsAMessage DEF QueueInv
  <2>3. ReplyTo(r.message).srcSSA # MulticastGateway
    <3>1. ReplyTo(r.message).srcSSA = NodeSSA
      BY FieldsOfAMessage DEF ReplyTo
    <3>2. NodeSSA # MulticastGateway
      BY SMT DEF NodeSSA, MulticastGateway
    <3>3. QED
      BY <3>1, <3>2
  <2>4. QED
    BY <2>1, <2>2, <2>3, PacketKeepsClientInv
<1>4. CASE NodeSends
  BY <1>4, NodeAssumption, PacketKeepsClientInv DEF NodeSends, NodesDoNotImpersonate
<1>5. CASE ShutdownClosesOne
  BY <1>1, <1>5 DEF ShutdownClosesOne, LeaseInv
<1>6. CASE Stop \/ ShutdownEnds \/ UNCHANGED vars
  BY <1>6 DEF Stop, ShutdownEnds, vars, poolVars, handlerVars, deliveryVars, ClientInv,
     ClientsInformed
<1>7. QED
  BY <1>1, <1>2, <1>3, <1>4, <1>5, <1>6 DEF Next, OnClosed, Stopped

LEMMA InitClientInv == Init => ClientInv
<1>1. Informed(<<>>, NothingKnown, NoLease, {}, FALSE)
  <2>1. NothingKnown \in KnowledgeOf(NoLease) /\ NothingKnown.subscribed = {}
    BY DEF NothingKnown, KnowledgeOf
  <2>2. QED
    BY <2>1, InformedAtFirst
<1>2. QED
  BY <1>1 DEF Init, Pool!Init, ClientInv, ClientsInformed

LEMMA ClientInvHolds ==
  ASSUME Pool!EnoughAddresses, NodesDoNotImpersonate
  PROVE  Spec => [](QueueInv /\ ClientInv)
<1>1. /\ LeaseInv /\ ReturnInv /\ QueueInv /\ [Next]_vars => (LeaseInv /\ ReturnInv /\ QueueInv)'
      /\ LeaseInv /\ QueueInv /\ QueueInv' /\ AddressesUsable /\ ClientInv /\ [Next]_vars
           => ClientInv'
  BY NextLeaseInv, NextReturnInv, NextQueueInv, NextClientInv
<1>2. Spec => []AddressesUsable
  BY ClientsHaveOwnAddresses
<1>3. QED
  BY InitLeaseInv, InitReturnInv, InitQueueInv, InitClientInv, <1>1, <1>2, PTL DEF Spec

(* The invariant in terms of Learnt. *)
LEMMA WhatAClientLearns ==
  ASSUME QueueInv, ClientInv, NEW c \in Conn
  PROVE  /\ DOMAIN sendQueue[c] = 1..Len(sendQueue[c]) /\ Len(sendQueue[c]) \in Nat
         /\ \A n \in 0..Len(sendQueue[c]) : Learnt(c, n) \in KnowledgeOf(m_AddressLease[c])
         /\ ~congested[c] => Learnt(c, Len(sendQueue[c])).subscribed = m_SubscribedServiceIds[c]
         /\ \A i \in 1..Len(sendQueue[c]) :
              Justified(sendQueue[c][i].payload, m_AddressLease[c], congested[c], Learnt(c, i - 1))
<1>1. sendQueue[c] \in Seq(FramesOf(m_eFramingMode[c]))
  BY DEF QueueInv
<1>2. DOMAIN sendQueue[c] = 1..Len(sendQueue[c]) /\ Len(sendQueue[c]) \in Nat
  BY <1>1, LenProperties
<1>3. PICK known : InformedBy(known, sendQueue[c], view[c], m_AddressLease[c],
                              m_SubscribedServiceIds[c], congested[c])
  BY DEF ClientInv, ClientsInformed, Informed
<1>4. IsTrace(known, view[c], sendQueue[c])
  BY <1>3 DEF InformedBy
<1>5. ASSUME NEW n \in 0..Len(sendQueue[c]) PROVE Learnt(c, n) = known[n]
  BY <1>2, <1>4, LearntFromTrace
<1>6. /\ Len(sendQueue[c]) \in 0..Len(sendQueue[c])
      /\ \A i \in 1..Len(sendQueue[c]) : i - 1 \in 0..Len(sendQueue[c])
  BY <1>2
<1>7. /\ \A i \in 0..Len(sendQueue[c]) : known[i] \in KnowledgeOf(m_AddressLease[c])
      /\ ~congested[c] => known[Len(sendQueue[c])].subscribed = m_SubscribedServiceIds[c]
      /\ \A i \in 1..Len(sendQueue[c]) :
           Justified(sendQueue[c][i].payload, m_AddressLease[c], congested[c], known[i - 1])
  BY <1>3, Zenon DEF InformedBy
<1>8. \A i \in 1..Len(sendQueue[c]) : Learnt(c, i - 1) = known[i - 1]
  BY <1>5, <1>6
<1>9. Learnt(c, Len(sendQueue[c])) = known[Len(sendQueue[c])]
  BY <1>5, <1>6
<1>10. \A i \in 1..Len(sendQueue[c]) :
         Justified(sendQueue[c][i].payload, m_AddressLease[c], congested[c], Learnt(c, i - 1))
  BY <1>7, <1>8
<1>11. QED
  BY <1>2, <1>5, <1>7, <1>9, <1>10

(* A client that has kept reading knows exactly its subscriptions once it   *)
(* has read all that is on its way, and an address it has learnt is always  *)
(* its own: no reply is lost, reordered or meant for a previous client.     *)
THEOREM ClientsLearnTheirState ==
  ASSUME Pool!EnoughAddresses, NodesDoNotImpersonate
  PROVE  Spec => []ClientKnowsItsState
<1>1. ASSUME QueueInv, ClientInv PROVE ClientKnowsItsState
  <2> SUFFICES ASSUME NEW c \in Conn
               PROVE  /\ Learnt(c, Len(sendQueue[c])).ssa \in {NoLease, m_AddressLease[c]}
                      /\ ~congested[c] => Learnt(c, Len(sendQueue[c])).subscribed
                                            = m_SubscribedServiceIds[c]
    BY DEF ClientKnowsItsState
  <2>1. /\ Learnt(c, Len(sendQueue[c])) \in KnowledgeOf(m_AddressLease[c])
        /\ ~congested[c] => Learnt(c, Len(sendQueue[c])).subscribed = m_SubscribedServiceIds[c]
    <3>1. Len(sendQueue[c]) \in 0..Len(sendQueue[c])
      BY <1>1, WhatAClientLearns
    <3>2. QED
      BY <1>1, <3>1, WhatAClientLearns
  <2>2. QED
    BY <2>1 DEF KnowledgeOf
<1>2. QED
  BY <1>1, ClientInvHolds, PTL

(* No client gets a group packet it does not know to be subscribed to, or a *)
(* packet for the address of somebody else, unless it has been too slow.    *)
THEOREM DeliveriesAreJustified ==
  ASSUME Pool!EnoughAddresses, NodesDoNotImpersonate
  PROVE  Spec => []DeliveryJustified
<1>1. ASSUME QueueInv, ClientInv PROVE DeliveryJustified
  <2>1. ASSUME NEW c \in Conn, NEW i \in DOMAIN sendQueue[c]
        PROVE  Justified(sendQueue[c][i].payload, m_AddressLease[c], congested[c], Learnt(c, i - 1))
    BY <1>1, WhatAClientLearns
  <2>2. QED
    BY <2>1, Zenon DEF DeliveryJustified, Justified
<1>2. QED
  BY <1>1, ClientInvHolds, PTL

(* The types of all variables of the program itself: TypeOK without what    *)
(* the clients believe to know.                                             *)
ServerTypes ==
  /\ m_NextFreeAddress \in SSA
  /\ m_ReleasedAddresses \in Seq(SSA)
  /\ m_AddressLease \in [Conn -> Lease]
  /\ m_Registered \in [Conn -> BOOLEAN]
  /\ m_GatewayAccessServerHandlerList \subseteq Conn
  /\ m_eFramingMode \in [Conn -> FramingMode]
  /\ m_SubscribedServiceIds \in [Conn -> SUBSET ServiceId]
  /\ sendQueue \in [Conn -> Seq([framing : FramingMode, id : FrameId, payload : Payload])]
  /\ \A c \in Conn : Len(sendQueue[c]) <= SendQueueLimit
  /\ congested \in [Conn -> BOOLEAN]
  /\ requests \subseteq [origin : Conn \cup {Gone, Network}, message : Message]
  /\ phase \in {"running", "stopping", "stopped"}

(* They hold whatever the network sends and however many clients there are: *)
(* even when the address counter wraps it stays an address, and no endpoint *)
(* holds more frames than its limit.                                        *)
THEOREM ServerKeepsItsTypes == Spec => []ServerTypes
<1>1. ASSUME LeaseInv, ReturnInv, QueueInv, PhaseInv PROVE ServerTypes
  <2> DEFINE AnyFrame == [framing : FramingMode, id : FrameId, payload : Payload]
  <2>1. sendQueue \in [Conn -> Seq(AnyFrame)]
    <3>1. GatewayFrame \subseteq AnyFrame
      BY DEF GatewayFrame, FramingMode
    <3>2. ASSUME NEW c \in Conn PROVE sendQueue[c] \in Seq(AnyFrame)
      <4>1. sendQueue[c] \in Seq(GatewayFrame)
        BY <1>1, MailboxesOfQueues DEF QueuesAreMailboxes
      <4> HIDE DEF AnyFrame
      <4>2. QED
        BY <3>1, <4>1, SeqMonotonic
    <3> HIDE DEF AnyFrame
    <3>3. QED
      BY <1>1, <3>2 DEF QueueInv
  <2>2. \A c \in Conn : Len(sendQueue[c]) <= SendQueueLimit
    BY <1>1 DEF QueueInv, WithinLimit
  <2>3. requests \subseteq [origin : Conn \cup {Gone, Network}, message : Message]
    <3> SUFFICES ASSUME NEW r \in requests
                 PROVE  r \in [origin : Conn \cup {Gone, Network}, message : Message]
      OBVIOUS
    <3>1. /\ r = [origin |-> r.origin, message |-> r.message]
          /\ r.origin \in Conn \cup {Gone, Network} /\ r.message \in Message
      BY <1>1 DEF ReturnInv, QueueInv
    <3>2. QED
      BY <3>1
  <2>4. QED
    BY <1>1, <2>1, <2>2, <2>3 DEF ServerTypes, LeaseInv, QueueInv, PhaseInv, Lease
<1>2. LeaseInv /\ ReturnInv /\ QueueInv /\ PhaseInv /\ [Next]_vars
        => (LeaseInv /\ ReturnInv /\ QueueInv /\ PhaseInv)'
  BY NextLeaseInv, NextReturnInv, NextQueueInv, NextPhaseInv
<1>3. Init => PhaseInv
  BY DEF Init, PhaseInv
<1>4. QED
  BY InitLeaseInv, InitReturnInv, InitQueueInv, <1>1, <1>2, <1>3, PTL DEF Spec

(* What a client believes to know are an address and services, if nobody    *)
(* poses as the gateway: the client takes both from the replies as they are.*)
THEOREM ServerTypeCorrect ==
  ASSUME Pool!EnoughAddresses, NodesDoNotImpersonate
  PROVE  Spec => []TypeOK
<1>1. ASSUME ServerTypes, QueueInv, ClientInv PROVE TypeOK
  <2>1. view \in [Conn -> Knowledge]
    <3>1. ASSUME NEW c \in Conn PROVE view[c] \in Knowledge
      <4>1. PICK known : InformedBy(known, sendQueue[c], view[c], m_AddressLease[c],
                                    m_SubscribedServiceIds[c], congested[c])
        BY <1>1 DEF ClientInv, ClientsInformed, Informed
      <4>2. 0 \in 0..Len(sendQueue[c])
        BY <1>1, WhatAClientLearns
      <4>3. view[c] \in KnowledgeOf(m_AddressLease[c])
        BY <4>1, <4>2 DEF InformedBy, IsTrace
      <4>4. m_AddressLease[c] \in Lease
        BY <1>1 DEF ServerTypes
      <4>5. QED
        BY <4>3, <4>4 DEF KnowledgeOf, Knowledge, Lease
    <3>2. QED
      BY <1>1, <3>1 DEF ClientInv
  <2>2. QED
    BY <1>1, <2>1 DEF TypeOK, ServerTypes
<1>2. QED
  BY ServerKeepsItsTypes, ClientInvHolds, <1>1, PTL
===============================================================================
