----------------------- MODULE GatewayAccessConnection ------------------------
(***************************************************************************)
(* One TCP connection between a gateway client and the gateway's protocol  *)
(* entity: frames travel to the gateway in order, each is handled in one   *)
(* callback (OnFrame), and what the gateway sends waits in the send queue  *)
(* of the frame endpoint until the client takes it.                        *)
(*                                                                         *)
(* The entity above the protocol is reduced to what it does to the         *)
(* connection: it answers a Request from within the data callback, says    *)
(* nothing to Data, and sends News whenever it likes.                      *)
(***************************************************************************)
EXTENDS GatewayAccessProtocol, SequencesExt

CONSTANTS
  Request, Data,   \* payloads a client sends
  Reply, News,     \* payloads the gateway sends
  MaxFrames,       \* bound: frames the client sends
  MaxNews          \* bound: unsolicited packets for the client

ASSUME BoundAssumption == MaxFrames \in Nat /\ MaxNews \in Nat
ASSUME PayloadAssumption == Request # NoPayload /\ News \notin {Reply, NoPayload}

VARIABLES
  m_eFramingMode,
  open,            \* the connection exists
  fromClient,      \* frames the gateway has not handled yet
  sendQueue,       \* frames the client has not received yet
  firstFraming,    \* format of the first frame the client sent
  owed,            \* frames the client is waiting for, in the order it expects
  framesSent, newsSent

vars == <<m_eFramingMode, open, fromClient, sendQueue, firstFraming, owed, framesSent, newsSent>>

ClientFrame ==
  {Frame("ESCAPING", id, NoPayload) : id \in {"0100", "0110", "unknown"}}
  \cup {Frame("ESCAPING", "0300", p) : p \in {Request, Data}}
  \cup {Frame("LENGTH", "data", p) : p \in {Request, Data}}
GatewayFrame ==
  {Frame("ESCAPING", id, NoPayload) : id \in {"0101", "0111", "0301"}}
  \cup {Encapsulated(mode, p) : mode \in FramingMode, p \in {Reply, News}}

(* What the client expects back for a frame: the response to the command,   *)
(* then the reply to the request it carries.                                *)
Expected(frame) ==
  LET response == IF frame.framing = "ESCAPING" /\ frame.id \in RequestId
                  THEN <<Frame("ESCAPING", ResponseId[frame.id], NoPayload)>> ELSE <<>>
      answer == IF frame.payload = Request THEN <<Encapsulated(frame.framing, Reply)>> ELSE <<>>
  IN response \o answer

IsNews(frame) == frame.payload = News

Init ==
  /\ m_eFramingMode = "UNKNOWN"
  /\ open = TRUE
  /\ fromClient = <<>> /\ sendQueue = <<>>
  /\ firstFraming = "UNKNOWN"
  /\ owed = <<>>
  /\ framesSent = 0 /\ newsSent = 0

ClientSends(frame) ==
  /\ open /\ framesSent < MaxFrames
  /\ fromClient' = Append(fromClient, frame)
  /\ firstFraming' = IF firstFraming = "UNKNOWN" THEN frame.framing ELSE firstFraming
  /\ owed' = owed \o Expected(frame)
  /\ framesSent' = framesSent + 1
  /\ UNCHANGED <<m_eFramingMode, open, sendQueue, newsSent>>

(* Both directions are gone with the socket. *)
Close ==
  /\ open' = FALSE
  /\ fromClient' = <<>> /\ sendQueue' = <<>> /\ owed' = <<>>

(* Mutant: the data callback runs before the response is sent. *)
FrameAcceptedDataFirst(frame) ==
  /\ Accepts(m_eFramingMode, frame)
  /\ sendQueue' = IF CarriesData(frame) /\ frame.payload = Request
                  THEN Acknowledged(Sent(frame.framing, sendQueue, Reply), frame)
                  ELSE Acknowledged(sendQueue, frame)
  /\ fromClient' = Tail(fromClient)
  /\ UNCHANGED <<open, owed>>

(* OnFrame: the response goes out before the payload is passed on, so the   *)
(* reply made in the data callback comes after it.                          *)
FrameAccepted(frame) ==
  /\ Accepts(m_eFramingMode, frame)
  /\ LET acknowledged == Acknowledged(sendQueue, frame)
     IN  sendQueue' = IF CarriesData(frame) /\ frame.payload = Request
                      THEN Sent(frame.framing, acknowledged, Reply)
                      ELSE acknowledged
  /\ fromClient' = Tail(fromClient)
  /\ UNCHANGED <<open, owed>>

(* Mutant: the frame is skipped and the connection stays. *)
FrameViolatesProtocolSkipped(frame) ==
  /\ ~Accepts(m_eFramingMode, frame)
  /\ fromClient' = Tail(fromClient)
  /\ UNCHANGED <<open, sendQueue, owed>>

FrameViolatesProtocol(frame) ==
  /\ ~Accepts(m_eFramingMode, frame)
  /\ Close

OnFrame ==
  /\ open /\ fromClient # <<>>
  /\ LET frame == Head(fromClient)
     IN  /\ FrameAccepted(frame) \/ FrameViolatesProtocol(frame)
         /\ m_eFramingMode' = ModeAfter(m_eFramingMode, frame)
  /\ UNCHANGED <<firstFraming, framesSent, newsSent>>

(* The higher layer has something for the client. *)
SendNews ==
  /\ open /\ newsSent < MaxNews
  /\ sendQueue' = Sent(m_eFramingMode, sendQueue, News)
  /\ newsSent' = newsSent + 1
  /\ UNCHANGED <<m_eFramingMode, open, fromClient, firstFraming, owed, framesSent>>

ClientReceives ==
  /\ open /\ sendQueue # <<>>
  /\ sendQueue' = Tail(sendQueue)
  /\ owed' = RemoveFirst(owed, Head(sendQueue))
  /\ UNCHANGED <<m_eFramingMode, open, fromClient, firstFraming, framesSent, newsSent>>

(* The client hangs up, or the connection breaks: FrameEndpoint calls back. *)
OnClosed ==
  /\ open
  /\ Close
  /\ UNCHANGED <<m_eFramingMode, firstFraming, framesSent, newsSent>>

Closed == ~open /\ UNCHANGED vars

Next ==
  \/ \E frame \in ClientFrame : ClientSends(frame)
  \/ OnFrame \/ SendNews \/ ClientReceives \/ OnClosed
  \/ Closed

(* The event loop keeps handling readable sockets; the client keeps reading.*)
Fairness == WF_vars(OnFrame) /\ WF_vars(ClientReceives)

Spec == Init /\ [][Next]_vars /\ Fairness

-------------------------------------------------------------------------------
(* Every variable has its type, and the endpoint respects its limit.        *)
TypeOK ==
  /\ m_eFramingMode \in FramingMode /\ firstFraming \in FramingMode
  /\ open \in BOOLEAN
  /\ fromClient \in Seq(ClientFrame)
  /\ sendQueue \in Seq(GatewayFrame) /\ Len(sendQueue) <= SendQueueLimit
  /\ owed \in Seq(GatewayFrame)
  /\ framesSent \in 0..MaxFrames /\ newsSent \in 0..MaxNews

(* The gateway never sends in a format other than that of the first frame   *)
(* the client sent, and nothing at all before that frame has arrived,       *)
(* however the sending by the higher layer falls between the client's       *)
(* frames (doc/protocol.md:131-134).                                        *)
FramesMatchFirst ==
  /\ m_eFramingMode \in {"UNKNOWN", firstFraming}
  /\ \A i \in DOMAIN sendQueue : /\ sendQueue[i].framing = firstFraming
                                 /\ m_eFramingMode = firstFraming

(* The queue has room for two frames for each frame of the client and for   *)
(* all the news, so that nothing is refused.                                *)
QueueHasRoom == 2 * MaxFrames + MaxNews <= SendQueueLimit

Solicited(queue) ==
  FlattenSeq([i \in DOMAIN queue |-> IF IsNews(queue[i]) THEN <<>> ELSE <<queue[i]>>])
Pending(queue) == FlattenSeq([i \in DOMAIN queue |-> Expected(queue[i])])

(* While nothing is refused, the frames on their way to the client, news    *)
(* left out, followed by what its unhandled frames will still produce, are  *)
(* exactly the frames it is waiting for in that order: no response is lost, *)
(* duplicated, overtaken by a later one or by the reply it precedes.        *)
ResponsesInOrder == Solicited(sendQueue) \o Pending(fromClient) = owed

(* A frame of the other format closes the connection, whatever is queued.   *)
MixedFraming == \E i \in DOMAIN fromClient : fromClient[i].framing # firstFraming
MixedFramingCloses == MixedFraming ~> ~open

(* While nothing is refused, everything the client waits for arrives unless  *)
(* the connection ends first.                                               *)
OwedFramesArrive == owed # <<>> ~> owed = <<>>

(* Every command gets its response unless the connection ends first: "for   *)
(* each command frame sent to the gateway the gateway must immediately      *)
(* reply with a response frame" (doc/protocol.md:86).                       *)
ResponseOwed == \E i \in DOMAIN owed : owed[i].payload = NoPayload
EveryCommandAnswered == ResponseOwed ~> ~ResponseOwed
===============================================================================
