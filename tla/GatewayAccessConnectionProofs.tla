--------------------- MODULE GatewayAccessConnectionProofs --------------------
(***************************************************************************)
(* Proofs about one connection, for every send queue, every number of       *)
(* frames on their way and everything the higher layer sends in between.    *)
(*                                                                         *)
(* That the gateway speaks the format of the client's first frame          *)
(* (FramesMatchFirst) relates the mode to a frame the gateway may not have  *)
(* seen yet.  What carries it is where that frame is: while the mode is     *)
(* unknown, it is the next one to be handled (FirstFrameComesFirst).        *)
(*                                                                         *)
(* That responses keep their order (ResponsesInOrder) rests on the laws of  *)
(* concatenation and flattening in SequenceLemmas, and on the room a queue  *)
(* has as long as nothing is refused (RoomInv).                             *)
(***************************************************************************)
EXTENDS GatewayAccessConnection, SequenceLemmas

FrameId == {"data", "0100", "0101", "0110", "0111", "0300", "0301", "0302", "unknown"}
AnyPayload == {Request, Data, Reply, News, NoPayload}

(* The frames of one format; there are none while no format is known.       *)
FramesOf(mode) == [framing : {mode} \ {"UNKNOWN"}, id : FrameId, payload : AnyPayload]
AnyFrame == [framing : {"ESCAPING", "LENGTH"}, id : FrameId, payload : AnyPayload]

(* While the mode is unknown, the first frame is the next to be handled.    *)
FirstFrameComesFirst ==
  open /\ m_eFramingMode = "UNKNOWN"
    => /\ fromClient = <<>> => firstFraming = "UNKNOWN"
       /\ fromClient # <<>> => firstFraming = Head(fromClient).framing

(* The inductive invariant. *)
FormatInv ==
  /\ m_eFramingMode \in FramingMode /\ firstFraming \in FramingMode
  /\ fromClient \in Seq(AnyFrame)
  /\ sendQueue \in Seq(FramesOf(m_eFramingMode))
  /\ m_eFramingMode \in {"UNKNOWN", firstFraming}
  /\ FirstFrameComesFirst

-------------------------------------------------------------------------------
LEMMA ClientFramesAreFrames == ClientFrame \subseteq AnyFrame
BY DEF ClientFrame, AnyFrame, Frame, FrameId, AnyPayload

(* The next frame, and those behind it.                                     *)
LEMMA NextFrame ==
  ASSUME NEW queue \in Seq(AnyFrame), queue # <<>>
  PROVE  /\ Head(queue) \in AnyFrame
         /\ Head(queue).framing \in {"ESCAPING", "LENGTH"}
         /\ Tail(queue) \in Seq(AnyFrame)
<1>1. Head(queue) \in AnyFrame /\ Tail(queue) \in Seq(AnyFrame)
  BY HeadTailProperties
<1>2. QED
  BY <1>1 DEF AnyFrame

LEMMA NothingHasNoFormat ==
  ASSUME NEW queue \in Seq(FramesOf("UNKNOWN"))
  PROVE  queue = <<>>
<1>1. FramesOf("UNKNOWN") = {}
  BY DEF FramesOf
<1>2. ASSUME queue # <<>> PROVE FALSE
  BY <1>1, <1>2, HeadTailProperties
<1>3. QED
  BY <1>2

(* SendFrame keeps a queue in its format.                                   *)
LEMMA SendFrameKeepsFormat ==
  ASSUME NEW mode, NEW queue \in Seq(FramesOf(mode)), NEW frame \in FramesOf(mode)
  PROVE  SendFrame(queue, frame) \in Seq(FramesOf(mode))
BY AppendProperties DEF SendFrame

(* So does Send: it adds a frame of the current mode, or none.              *)
LEMMA SentKeepsFormat ==
  ASSUME NEW mode \in FramingMode, NEW queue \in Seq(FramesOf(mode)), NEW payload \in AnyPayload
  PROVE  Sent(mode, queue, payload) \in Seq(FramesOf(mode))
<1>1. CASE mode = "UNKNOWN"
  BY <1>1 DEF Sent
<1>2. CASE mode # "UNKNOWN"
  <2>1. Encapsulated(mode, payload) \in FramesOf(mode)
    BY <1>2 DEF FramingMode, Encapsulated, Frame, FramesOf, FrameId
  <2>2. QED
    BY <1>2, <2>1, SendFrameKeepsFormat DEF Sent
<1>3. QED
  BY <1>1, <1>2

(* The response to an accepted frame has the format of that frame.          *)
LEMMA AcknowledgedKeepsFormat ==
  ASSUME NEW mode \in FramingMode, NEW queue \in Seq(FramesOf(mode)),
         NEW frame \in AnyFrame, Accepts(mode, frame)
  PROVE  Acknowledged(queue, frame) \in Seq(FramesOf(frame.framing))
<1>1. queue \in Seq(FramesOf(frame.framing))
  <2>1. CASE mode = "UNKNOWN"
    BY <2>1, NothingHasNoFormat, EmptySeq
  <2>2. CASE mode = frame.framing
    BY <2>2
  <2>3. QED
    BY <2>1, <2>2 DEF Accepts, ModeFits
<1>2. CASE frame.framing = "ESCAPING"
  <2>1. frame.id \in {"0100", "0110", "0300"}
    BY <1>2 DEF Accepts, IdFits, RequestId
  <2>2. Frame("ESCAPING", ResponseId[frame.id], NoPayload) \in FramesOf("ESCAPING")
    BY <2>1 DEF ResponseId, RequestId, Frame, FramesOf, FrameId, AnyPayload
  <2>3. QED
    BY <1>1, <1>2, <2>2, SendFrameKeepsFormat DEF Acknowledged
<1>3. CASE frame.framing # "ESCAPING"
  BY <1>1, <1>3 DEF Acknowledged
<1>4. QED
  BY <1>2, <1>3

-------------------------------------------------------------------------------
LEMMA FormatInvInit == Init => FormatInv
BY EmptySeq DEF Init, FormatInv, FirstFrameComesFirst, FramingMode

(* A closed connection needs nothing but its types.                         *)
LEMMA CloseKeepsFormatInv ==
  ASSUME FormatInv, Close, UNCHANGED firstFraming, m_eFramingMode' \in FramingMode,
         m_eFramingMode' \in {"UNKNOWN", firstFraming}
  PROVE  FormatInv'
BY EmptySeq DEF FormatInv, FirstFrameComesFirst, Close

(* A new frame is the first one only behind an empty queue.                 *)
LEMMA ClientSendsKeepsFormatInv ==
  ASSUME FormatInv, NEW frame \in ClientFrame, ClientSends(frame)
  PROVE  FormatInv'
<1>1. /\ frame \in AnyFrame
      /\ frame.framing \in {"ESCAPING", "LENGTH"}
  BY ClientFramesAreFrames DEF AnyFrame
<1>2. /\ fromClient' = Append(fromClient, frame)
      /\ firstFraming' = IF firstFraming = "UNKNOWN" THEN frame.framing ELSE firstFraming
      /\ UNCHANGED <<m_eFramingMode, open, sendQueue>>
  BY DEF ClientSends
<1>3. /\ fromClient' \in Seq(AnyFrame) /\ fromClient' # <<>>
      /\ Head(fromClient') = IF fromClient = <<>> THEN frame ELSE Head(fromClient)
  <2>1. fromClient \in Seq(AnyFrame)
    BY DEF FormatInv
  <2>2. /\ Append(fromClient, frame) \in Seq(AnyFrame) /\ Append(fromClient, frame) # <<>>
        /\ Append(fromClient, frame)[Len(fromClient) + 1] = frame
        /\ \A i \in 1..Len(fromClient) : Append(fromClient, frame)[i] = fromClient[i]
    BY <1>1, <2>1, AppendProperties
  <2>3. Head(Append(fromClient, frame)) = Append(fromClient, frame)[1]
    BY <1>1, <2>1, <2>2
  <2>4. CASE fromClient = <<>>
    BY <1>2, <2>2, <2>3, <2>4, EmptySeq
  <2>5. CASE fromClient # <<>>
    <3>1. 1 \in 1..Len(fromClient) /\ Head(fromClient) = fromClient[1]
      BY <2>1, <2>5, EmptySeq
    <3>2. QED
      BY <1>2, <2>2, <2>3, <2>5, <3>1
  <2>6. QED
    BY <2>4, <2>5
<1>4. fromClient # <<>> => Head(fromClient).framing \in {"ESCAPING", "LENGTH"}
  BY NextFrame DEF FormatInv
<1>5. FirstFrameComesFirst'
  <2>1. FirstFrameComesFirst
    BY DEF FormatInv
  <2>2. CASE fromClient = <<>>
    BY <1>1, <1>2, <1>3, <2>1, <2>2 DEF FirstFrameComesFirst
  <2>3. CASE fromClient # <<>>
    BY <1>1, <1>2, <1>3, <1>4, <2>1, <2>3 DEF FirstFrameComesFirst
  <2>4. QED
    BY <2>2, <2>3
<1>6. m_eFramingMode' \in {"UNKNOWN", firstFraming'}
  BY <1>2 DEF FormatInv
<1>7. QED
  BY <1>1, <1>2, <1>3, <1>5, <1>6 DEF FormatInv, FramingMode

(* Handling a frame, accepted or not, sets the mode to that of the first.   *)
LEMMA OnFrameKeepsFormatInv ==
  ASSUME FormatInv, OnFrame
  PROVE  FormatInv'
<1> DEFINE frame == Head(fromClient)
<1>1. /\ open /\ fromClient # <<>> /\ UNCHANGED firstFraming
      /\ m_eFramingMode' = ModeAfter(m_eFramingMode, frame)
      /\ FrameAccepted(frame) \/ FrameViolatesProtocol(frame)
  BY DEF OnFrame
<1>2. /\ frame \in AnyFrame /\ Tail(fromClient) \in Seq(AnyFrame)
      /\ frame.framing \in {"ESCAPING", "LENGTH"}
  BY <1>1, NextFrame DEF FormatInv
<1>3. m_eFramingMode = "UNKNOWN" => firstFraming = frame.framing
  <2>1. FirstFrameComesFirst
    BY DEF FormatInv
  <2>2. QED
    BY <1>1, <2>1 DEF FirstFrameComesFirst
<1>4. m_eFramingMode' \in FramingMode /\ m_eFramingMode' = firstFraming
  <2>1. /\ m_eFramingMode \in {"UNKNOWN", firstFraming}
        /\ firstFraming \in FramingMode
    BY DEF FormatInv
  <2>2. CASE ModeFits(m_eFramingMode, frame)
    <3>1. m_eFramingMode' = frame.framing /\ m_eFramingMode \in {"UNKNOWN", frame.framing}
      BY <1>1, <2>2 DEF ModeAfter, ModeFits
    <3>2. QED
      BY <1>2, <1>3, <2>1, <3>1
  <2>3. CASE ~ModeFits(m_eFramingMode, frame)
    <3>1. m_eFramingMode' = m_eFramingMode /\ m_eFramingMode # "UNKNOWN"
      BY <1>1, <2>3 DEF ModeAfter, ModeFits
    <3>2. QED
      BY <2>1, <3>1
  <2>4. QED
    BY <2>2, <2>3
<1>5. CASE FrameViolatesProtocol(frame)
  BY <1>1, <1>4, <1>5, CloseKeepsFormatInv DEF FrameViolatesProtocol
<1>6. CASE FrameAccepted(frame)
  <2>1. Accepts(m_eFramingMode, frame) /\ m_eFramingMode' = frame.framing
    BY <1>1, <1>6 DEF FrameAccepted, ModeAfter, Accepts
  <2>2. Acknowledged(sendQueue, frame) \in Seq(FramesOf(frame.framing))
    BY <1>2, <2>1, AcknowledgedKeepsFormat DEF FormatInv
  <2>3. Sent(frame.framing, Acknowledged(sendQueue, frame), Reply)
          \in Seq(FramesOf(frame.framing))
    BY <1>4, <2>1, <2>2, SentKeepsFormat DEF AnyPayload
  <2>4. sendQueue' \in Seq(FramesOf(m_eFramingMode'))
    BY <1>6, <2>1, <2>2, <2>3 DEF FrameAccepted
  <2>5. FirstFrameComesFirst'
    BY <1>2, <2>1 DEF FirstFrameComesFirst
  <2>6. QED
    BY <1>1, <1>2, <1>4, <1>6, <2>4, <2>5 DEF FormatInv, FrameAccepted
<1>7. QED
  BY <1>1, <1>5, <1>6

LEMMA FormatInvStep == FormatInv /\ [Next]_vars => FormatInv'
<1> SUFFICES ASSUME FormatInv, [Next]_vars PROVE FormatInv'
  OBVIOUS
<1>1. ASSUME NEW frame \in ClientFrame, ClientSends(frame) PROVE FormatInv'
  BY <1>1, ClientSendsKeepsFormatInv
<1>2. CASE OnFrame
  BY <1>2, OnFrameKeepsFormatInv
<1>3. CASE SendNews
  <2>1. Sent(m_eFramingMode, sendQueue, News) \in Seq(FramesOf(m_eFramingMode))
    BY SentKeepsFormat DEF FormatInv, AnyPayload
  <2>2. QED
    BY <1>3, <2>1 DEF SendNews, FormatInv, FirstFrameComesFirst
<1>4. CASE ClientReceives
  <2>1. Tail(sendQueue) \in Seq(FramesOf(m_eFramingMode))
    BY <1>4, HeadTailProperties DEF ClientReceives, FormatInv
  <2>2. QED
    BY <1>4, <2>1 DEF ClientReceives, FormatInv, FirstFrameComesFirst
<1>5. CASE OnClosed
  BY <1>5, CloseKeepsFormatInv DEF OnClosed, FormatInv
<1>6. CASE UNCHANGED vars
  BY <1>6 DEF vars, FormatInv, FirstFrameComesFirst
<1>7. QED
  BY <1>1, <1>2, <1>3, <1>4, <1>5, <1>6 DEF Next, Closed

LEMMA FormatInvImplies == FormatInv => FramesMatchFirst
<1> SUFFICES ASSUME FormatInv, NEW i \in DOMAIN sendQueue
             PROVE  sendQueue[i].framing = firstFraming /\ m_eFramingMode = firstFraming
  BY DEF FormatInv, FramesMatchFirst
<1>1. sendQueue[i] \in FramesOf(m_eFramingMode)
  BY LenProperties, ElementOfSeq DEF FormatInv
<1>2. m_eFramingMode # "UNKNOWN" /\ sendQueue[i].framing = m_eFramingMode
  BY <1>1 DEF FramesOf
<1>3. QED
  BY <1>2 DEF FormatInv

(* The gateway sends nothing but the format of the client's first frame,    *)
(* and nothing before it has handled that frame (GatewayAccessProtocol.cpp, *)
(* OnFrame and Send), whatever its limits are.                              *)
THEOREM GatewayFollowsTheClient == Spec => []FramesMatchFirst
<1>1. Spec => []FormatInv
  BY FormatInvInit, FormatInvStep, PTL DEF Spec
<1>2. QED
  BY <1>1, FormatInvImplies, PTL

-------------------------------------------------------------------------------
(* Taking one occurrence out of a sequence leaves a sequence.               *)
LEMMA RemoveFirstType ==
  ASSUME NEW S, NEW seq \in Seq(S), NEW e
  PROVE  RemoveFirst(seq, e) \in Seq(S)
<1>1. CASE \E i \in 1..Len(seq) : seq[i] = e
  <2> DEFINE I == {i \in 1..Len(seq) : seq[i] = e}
             first == SelectInSeq(seq, LAMBDA v : v = e)
  <2>1. RemoveFirst(seq, e) = RemoveAt(seq, first)
    BY <1>1 DEF RemoveFirst
  <2>2. first = Min(I)
    BY <1>1 DEF SelectInSeq
  <2>3. first \in 1..Len(seq)
    <3>1. Len(seq) \in Nat
      BY LenProperties
    <3>2. I \in SUBSET Nat /\ I # {}
      BY <1>1, <3>1
    <3>3. \E x \in I : \A y \in I : x <= y
      <4>1. IsWellFoundedOn(OpToRel(<, Nat), Nat)
        BY NatLessThanWellFounded
      <4>2. PICK x \in I : \A y \in I : ~ (<<y, x>> \in OpToRel(<, Nat))
        BY <3>2, <4>1, WFMin
      <4>3. \A y \in I : ~ (y < x)
        BY <3>2, <4>2 DEF OpToRel
      <4>4. QED
        BY <3>2, <4>3
    <3>4. Min(I) \in I
      BY <3>3 DEF Min
    <3>5. QED
      BY <2>2, <3>4
  <2> HIDE DEF first
  <2>4. \A i \in 1..Len(seq) : seq[i] \in S
    BY ElementOfSeq
  <2>5. SubSeq(seq, 1, first - 1) \in Seq(S) /\ SubSeq(seq, first + 1, Len(seq)) \in Seq(S)
    <3>1. Len(seq) \in Nat
      BY LenProperties
    <3>2. /\ \A i \in 1..(first - 1) : seq[i] \in S
          /\ \A i \in (first + 1)..Len(seq) : seq[i] \in S
      BY <2>3, <2>4, <3>1
    <3>3. first - 1 \in Int /\ first + 1 \in Int
      BY <2>3, <3>1
    <3>4. QED
      BY <3>1, <3>2, <3>3, SubSeqProperties
  <2>6. RemoveAt(seq, first) \in Seq(S)
    BY <2>5, ConcatProperties DEF RemoveAt
  <2>7. QED
    BY <2>1, <2>6
<1>2. CASE ~\E i \in 1..Len(seq) : seq[i] = e
  BY <1>2 DEF RemoveFirst
<1>3. QED
  BY <1>1, <1>2

(* What the client expects for a frame are frames of the gateway, no news.  *)
Answer == {frame \in GatewayFrame : ~IsNews(frame)}

LEMMA ExpectedAnswers ==
  ASSUME NEW frame \in ClientFrame
  PROVE  Expected(frame) \in Seq(Answer)
<1> DEFINE response == IF frame.framing = "ESCAPING" /\ frame.id \in RequestId
                       THEN <<Frame("ESCAPING", ResponseId[frame.id], NoPayload)>> ELSE <<>>
           answer == IF frame.payload = Request
                     THEN <<Encapsulated(frame.framing, Reply)>> ELSE <<>>
<1>1. response \in Seq(Answer)
  <2>1. CASE frame.framing = "ESCAPING" /\ frame.id \in RequestId
    <3>1. ResponseId[frame.id] \in {"0101", "0111", "0301"}
      BY <2>1 DEF RequestId, ResponseId
    <3>2. Frame("ESCAPING", ResponseId[frame.id], NoPayload) \in Answer
      BY <3>1, PayloadAssumption DEF GatewayFrame, Answer, IsNews, Frame
    <3>3. QED
      BY <2>1, <3>2
  <2>2. CASE ~(frame.framing = "ESCAPING" /\ frame.id \in RequestId)
    BY <2>2, EmptySeq
  <2>3. QED
    BY <2>1, <2>2
<1>2. answer \in Seq(Answer)
  <2>1. frame.framing \in FramingMode
    BY ClientFramesAreFrames DEF AnyFrame, FramingMode
  <2>2. Encapsulated(frame.framing, Reply) \in GatewayFrame
    BY <2>1 DEF GatewayFrame
  <2>3. ~IsNews(Encapsulated(frame.framing, Reply))
    BY PayloadAssumption DEF IsNews, Encapsulated, Frame
  <2>4. Encapsulated(frame.framing, Reply) \in Answer
    BY <2>2, <2>3 DEF Answer
  <2>5. QED
    BY <2>4, EmptySeq
<1>3. response \o answer \in Seq(Answer)
  BY <1>1, <1>2, ConcatProperties
<1>4. QED
  BY <1>3 DEF Expected

LEMMA ExpectedType ==
  ASSUME NEW frame \in ClientFrame
  PROVE  Expected(frame) \in Seq(GatewayFrame)
<1>1. Answer \subseteq GatewayFrame
  BY DEF Answer
<1>2. QED
  BY <1>1, ExpectedAnswers, SeqMonotonic

(* The endpoint stays within its limit.                                     *)
LEMMA SendFrameType ==
  ASSUME NEW queue \in Seq(GatewayFrame), Len(queue) <= SendQueueLimit,
         NEW frame \in GatewayFrame
  PROVE  /\ SendFrame(queue, frame) \in Seq(GatewayFrame)
         /\ Len(SendFrame(queue, frame)) <= SendQueueLimit
<1>1. Len(queue) \in Nat /\ SendQueueLimit \in Nat
  BY LenProperties, SendQueueAssumption
<1>2. QED
  BY <1>1, AppendProperties DEF SendFrame

LEMMA SentType ==
  ASSUME NEW queue \in Seq(GatewayFrame), Len(queue) <= SendQueueLimit,
         NEW mode \in FramingMode, NEW payload \in {Reply, News}
  PROVE  /\ Sent(mode, queue, payload) \in Seq(GatewayFrame)
         /\ Len(Sent(mode, queue, payload)) <= SendQueueLimit
<1>1. Encapsulated(mode, payload) \in GatewayFrame
  BY DEF GatewayFrame
<1>2. QED
  BY <1>1, SendFrameType DEF Sent

LEMMA AcknowledgedType ==
  ASSUME NEW queue \in Seq(GatewayFrame), Len(queue) <= SendQueueLimit,
         NEW frame, IdFits(frame)
  PROVE  /\ Acknowledged(queue, frame) \in Seq(GatewayFrame)
         /\ Len(Acknowledged(queue, frame)) <= SendQueueLimit
<1>1. CASE frame.framing = "ESCAPING"
  <2>1. ResponseId[frame.id] \in {"0101", "0111", "0301"}
    BY <1>1 DEF IdFits, RequestId, ResponseId
  <2>2. Frame("ESCAPING", ResponseId[frame.id], NoPayload) \in GatewayFrame
    BY <2>1 DEF GatewayFrame
  <2>3. QED
    BY <1>1, <2>2, SendFrameType DEF Acknowledged
<1>2. CASE frame.framing # "ESCAPING"
  BY <1>2 DEF Acknowledged
<1>3. QED
  BY <1>1, <1>2

-------------------------------------------------------------------------------
LEMMA TypeInit == Init => TypeOK
<1>1. 0 \in 0..MaxFrames /\ 0 \in 0..MaxNews /\ 0 <= SendQueueLimit
  BY BoundAssumption, SendQueueAssumption
<1>2. QED
  BY <1>1, EmptySeq DEF Init, TypeOK, FramingMode

LEMMA CloseType ==
  ASSUME TypeOK, Close, m_eFramingMode' \in FramingMode,
         UNCHANGED <<firstFraming, framesSent, newsSent>>
  PROVE  TypeOK'
<1>1. 0 <= SendQueueLimit
  BY SendQueueAssumption
<1>2. QED
  BY <1>1, EmptySeq DEF TypeOK, Close

LEMMA ClientSendsType ==
  ASSUME TypeOK, NEW frame \in ClientFrame, ClientSends(frame)
  PROVE  TypeOK'
<1>1. fromClient' \in Seq(ClientFrame)
  BY AppendProperties DEF TypeOK, ClientSends
<1>2. owed' \in Seq(GatewayFrame)
  BY ExpectedType, ConcatProperties DEF TypeOK, ClientSends
<1>3. firstFraming' \in FramingMode
  <2>1. frame.framing \in FramingMode
    BY ClientFramesAreFrames DEF AnyFrame, FramingMode
  <2>2. QED
    BY <2>1 DEF TypeOK, ClientSends
<1>4. framesSent' \in 0..MaxFrames
  BY BoundAssumption DEF TypeOK, ClientSends
<1>5. QED
  BY <1>1, <1>2, <1>3, <1>4 DEF TypeOK, ClientSends

LEMMA OnFrameType ==
  ASSUME TypeOK, OnFrame
  PROVE  TypeOK'
<1> DEFINE frame == Head(fromClient)
<1>1. /\ frame \in ClientFrame
      /\ Tail(fromClient) \in Seq(ClientFrame)
  BY HeadTailProperties DEF TypeOK, OnFrame
<1>2. frame.framing \in {"ESCAPING", "LENGTH"}
  BY <1>1, ClientFramesAreFrames DEF AnyFrame
<1>3. m_eFramingMode' \in FramingMode
  BY <1>2 DEF TypeOK, OnFrame, ModeAfter, FramingMode
<1>4. CASE FrameViolatesProtocol(frame)
  BY <1>3, <1>4, CloseType DEF FrameViolatesProtocol, OnFrame
<1>5. CASE FrameAccepted(frame)
  <2>1. IdFits(frame)
    BY <1>5 DEF FrameAccepted, Accepts
  <2>2. /\ Acknowledged(sendQueue, frame) \in Seq(GatewayFrame)
        /\ Len(Acknowledged(sendQueue, frame)) <= SendQueueLimit
    BY <2>1, AcknowledgedType DEF TypeOK
  <2>3. /\ Sent(frame.framing, Acknowledged(sendQueue, frame), Reply) \in Seq(GatewayFrame)
        /\ Len(Sent(frame.framing, Acknowledged(sendQueue, frame), Reply)) <= SendQueueLimit
    <3>1. frame.framing \in FramingMode
      BY <1>2 DEF FramingMode
    <3>2. QED
      BY <2>2, <3>1, SentType
  <2>4. sendQueue' \in Seq(GatewayFrame) /\ Len(sendQueue') <= SendQueueLimit
    BY <1>5, <2>2, <2>3 DEF FrameAccepted
  <2>5. fromClient' \in Seq(ClientFrame) /\ UNCHANGED <<open, owed>>
    BY <1>1, <1>5 DEF FrameAccepted
  <2>6. QED
    BY <1>3, <2>4, <2>5 DEF TypeOK, OnFrame
<1>6. QED
  BY <1>4, <1>5 DEF OnFrame

LEMMA ClientReceivesType ==
  ASSUME TypeOK, ClientReceives
  PROVE  TypeOK'
<1>1. /\ Tail(sendQueue) \in Seq(GatewayFrame)
      /\ Len(Tail(sendQueue)) = Len(sendQueue) - 1
      /\ Len(sendQueue) \in Nat
  BY HeadTailProperties, LenProperties DEF TypeOK, ClientReceives
<1>2. owed' \in Seq(GatewayFrame)
  BY RemoveFirstType DEF TypeOK, ClientReceives
<1>3. Len(sendQueue') <= SendQueueLimit
  BY <1>1, SendQueueAssumption DEF TypeOK, ClientReceives
<1>4. QED
  BY <1>1, <1>2, <1>3 DEF TypeOK, ClientReceives

LEMMA TypeStep == TypeOK /\ [Next]_vars => TypeOK'
<1> SUFFICES ASSUME TypeOK, [Next]_vars PROVE TypeOK'
  OBVIOUS
<1>1. ASSUME NEW frame \in ClientFrame, ClientSends(frame) PROVE TypeOK'
  BY <1>1, ClientSendsType
<1>2. CASE OnFrame
  BY <1>2, OnFrameType
<1>3. CASE SendNews
  <2>1. /\ Sent(m_eFramingMode, sendQueue, News) \in Seq(GatewayFrame)
        /\ Len(Sent(m_eFramingMode, sendQueue, News)) <= SendQueueLimit
    BY SentType DEF TypeOK
  <2>2. newsSent' \in 0..MaxNews
    BY <1>3, BoundAssumption DEF TypeOK, SendNews
  <2>3. QED
    BY <1>3, <2>1, <2>2 DEF TypeOK, SendNews
<1>4. CASE ClientReceives
  BY <1>4, ClientReceivesType
<1>5. CASE OnClosed
  BY <1>5, CloseType DEF OnClosed, TypeOK
<1>6. CASE UNCHANGED vars
  BY <1>6 DEF vars, TypeOK
<1>7. QED
  BY <1>1, <1>2, <1>3, <1>4, <1>5, <1>6 DEF Next, Closed

(* Every variable keeps its type, and the endpoint never holds more frames  *)
(* than its limit: nobody appends past SendFrame.                           *)
THEOREM QueueStaysWithinLimit == Spec => []TypeOK
BY TypeInit, TypeStep, PTL DEF Spec

-------------------------------------------------------------------------------
(* The two sides of ResponsesInOrder, frame by frame.                       *)
ExpectedFor == [frame \in ClientFrame |-> Expected(frame)]
KeptOf == [frame \in GatewayFrame |-> IF IsNews(frame) THEN <<>> ELSE <<frame>>]

LEMMA PendingFrames ==
  ASSUME NEW queue \in Seq(ClientFrame)
  PROVE  /\ Pending(queue) \in Seq(Answer)
         /\ queue = <<>> => Pending(queue) = <<>>
         /\ \A frame \in ClientFrame :
              Pending(Append(queue, frame)) = Pending(queue) \o Expected(frame)
         /\ queue # <<>> =>
              Pending(queue) = Expected(Head(queue)) \o Pending(Tail(queue))
<1>1. ExpectedFor \in Maps(ClientFrame, Seq(Answer))
  BY ExpectedAnswers DEF ExpectedFor, Maps
<1>2. ASSUME NEW q \in Seq(ClientFrame)
      PROVE  Pending(q) = FlattenSeq(Mapped(ExpectedFor, q))
  <2>1. \A i \in DOMAIN q : q[i] \in ClientFrame
    BY LenProperties, ElementOfSeq
  <2>2. [i \in DOMAIN q |-> Expected(q[i])] = Mapped(ExpectedFor, q)
    BY <2>1 DEF Mapped, ExpectedFor
  <2>3. QED
    BY <2>2 DEF Pending
<1>3. /\ FlattenSeq(Mapped(ExpectedFor, queue)) \in Seq(Answer)
      /\ queue = <<>> => FlattenSeq(Mapped(ExpectedFor, queue)) = <<>>
      /\ \A frame \in ClientFrame :
           FlattenSeq(Mapped(ExpectedFor, Append(queue, frame)))
             = FlattenSeq(Mapped(ExpectedFor, queue)) \o ExpectedFor[frame]
      /\ queue # <<>> =>
           FlattenSeq(Mapped(ExpectedFor, queue))
             = ExpectedFor[Head(queue)] \o FlattenSeq(Mapped(ExpectedFor, Tail(queue)))
  BY <1>1, FlattenMapped
<1>4. \A frame \in ClientFrame : ExpectedFor[frame] = Expected(frame)
  BY DEF ExpectedFor
<1>5. ASSUME NEW frame \in ClientFrame
      PROVE  Pending(Append(queue, frame)) = Pending(queue) \o Expected(frame)
  <2>1. Append(queue, frame) \in Seq(ClientFrame)
    BY AppendProperties
  <2>2. Pending(Append(queue, frame)) = FlattenSeq(Mapped(ExpectedFor, Append(queue, frame)))
    BY <1>2, <2>1
  <2>3. QED
    BY <1>2, <1>3, <1>4, <2>2
<1>6. ASSUME queue # <<>>
      PROVE  Pending(queue) = Expected(Head(queue)) \o Pending(Tail(queue))
  <2>1. Tail(queue) \in Seq(ClientFrame) /\ Head(queue) \in ClientFrame
    BY <1>6, HeadTailProperties
  <2>2. Pending(Tail(queue)) = FlattenSeq(Mapped(ExpectedFor, Tail(queue)))
    BY <1>2, <2>1
  <2>3. QED
    BY <1>2, <1>3, <1>4, <1>6, <2>1, <2>2
<1>7. QED
  BY <1>2, <1>3, <1>5, <1>6

LEMMA SolicitedFrames ==
  ASSUME NEW queue \in Seq(GatewayFrame)
  PROVE  /\ Solicited(queue) \in Seq(Answer)
         /\ queue = <<>> => Solicited(queue) = <<>>
         /\ \A frame \in GatewayFrame :
              Solicited(Append(queue, frame)) =
                Solicited(queue) \o (IF IsNews(frame) THEN <<>> ELSE <<frame>>)
         /\ queue # <<>> =>
              Solicited(queue) = (IF IsNews(Head(queue)) THEN <<>> ELSE <<Head(queue)>>)
                                   \o Solicited(Tail(queue))
<1>1. KeptOf \in Maps(GatewayFrame, Seq(Answer))
  <2>1. ASSUME NEW frame \in GatewayFrame
        PROVE  (IF IsNews(frame) THEN <<>> ELSE <<frame>>) \in Seq(Answer)
    <3>1. CASE IsNews(frame)
      BY <3>1, EmptySeq
    <3>2. CASE ~IsNews(frame)
      <4>1. frame \in Answer
        BY <3>2 DEF Answer
      <4>2. QED
        BY <3>2, <4>1
    <3>3. QED
      BY <3>1, <3>2
  <2>2. QED
    BY <2>1 DEF KeptOf, Maps
<1>2. ASSUME NEW q \in Seq(GatewayFrame)
      PROVE  Solicited(q) = FlattenSeq(Mapped(KeptOf, q))
  <2>1. \A i \in DOMAIN q : q[i] \in GatewayFrame
    BY LenProperties, ElementOfSeq
  <2>2. [i \in DOMAIN q |-> IF IsNews(q[i]) THEN <<>> ELSE <<q[i]>>] = Mapped(KeptOf, q)
    BY <2>1 DEF Mapped, KeptOf
  <2>3. QED
    BY <2>2 DEF Solicited
<1>3. /\ FlattenSeq(Mapped(KeptOf, queue)) \in Seq(Answer)
      /\ queue = <<>> => FlattenSeq(Mapped(KeptOf, queue)) = <<>>
      /\ \A frame \in GatewayFrame :
           FlattenSeq(Mapped(KeptOf, Append(queue, frame)))
             = FlattenSeq(Mapped(KeptOf, queue)) \o KeptOf[frame]
      /\ queue # <<>> =>
           FlattenSeq(Mapped(KeptOf, queue))
             = KeptOf[Head(queue)] \o FlattenSeq(Mapped(KeptOf, Tail(queue)))
  BY <1>1, FlattenMapped
<1>4. \A frame \in GatewayFrame : KeptOf[frame] = IF IsNews(frame) THEN <<>> ELSE <<frame>>
  BY DEF KeptOf
<1>5. ASSUME NEW frame \in GatewayFrame
      PROVE  Solicited(Append(queue, frame)) =
               Solicited(queue) \o (IF IsNews(frame) THEN <<>> ELSE <<frame>>)
  <2>1. Append(queue, frame) \in Seq(GatewayFrame)
    BY AppendProperties
  <2>2. Solicited(Append(queue, frame)) = FlattenSeq(Mapped(KeptOf, Append(queue, frame)))
    BY <1>2, <2>1
  <2>3. QED
    BY <1>2, <1>3, <1>4, <2>2
<1>6. ASSUME queue # <<>>
      PROVE  Solicited(queue) = (IF IsNews(Head(queue)) THEN <<>> ELSE <<Head(queue)>>)
                                  \o Solicited(Tail(queue))
  <2>1. Tail(queue) \in Seq(GatewayFrame) /\ Head(queue) \in GatewayFrame
    BY <1>6, HeadTailProperties
  <2>2. Solicited(Tail(queue)) = FlattenSeq(Mapped(KeptOf, Tail(queue)))
    BY <1>2, <2>1
  <2>3. QED
    BY <1>2, <1>3, <1>4, <1>6, <2>1, <2>2
<1>7. QED
  BY <1>2, <1>3, <1>5, <1>6

(* A frame that is not news joins the solicited ones.                       *)
LEMMA SolicitedAnswer ==
  ASSUME NEW queue \in Seq(GatewayFrame), Len(queue) < SendQueueLimit, NEW frame \in Answer
  PROVE  /\ SendFrame(queue, frame) \in Seq(GatewayFrame)
         /\ Len(SendFrame(queue, frame)) = Len(queue) + 1
         /\ Solicited(SendFrame(queue, frame)) = Solicited(queue) \o <<frame>>
<1>1. frame \in GatewayFrame /\ ~IsNews(frame)
  BY DEF Answer
<1>2. SendFrame(queue, frame) = Append(queue, frame)
  BY DEF SendFrame
<1>3. /\ Append(queue, frame) \in Seq(GatewayFrame)
      /\ Len(Append(queue, frame)) = Len(queue) + 1
  BY <1>1, AppendProperties
<1>4. Solicited(Append(queue, frame)) = Solicited(queue) \o <<frame>>
  BY <1>1, SolicitedFrames
<1>5. QED
  BY <1>2, <1>3, <1>4

(* Handling an accepted frame sends what the client expects for it.         *)
Handled(queue, frame) ==
  LET acknowledged == Acknowledged(queue, frame)
  IN  IF CarriesData(frame) /\ frame.payload = Request
      THEN Sent(frame.framing, acknowledged, Reply)
      ELSE acknowledged

LEMMA HandlingAnswers ==
  ASSUME NEW queue \in Seq(GatewayFrame), Len(queue) + 2 <= SendQueueLimit,
         NEW frame \in ClientFrame, IdFits(frame)
  PROVE  /\ Len(Handled(queue, frame)) <= Len(queue) + 2
         /\ Solicited(Handled(queue, frame)) = Solicited(queue) \o Expected(frame)
<1> DEFINE response == IF frame.framing = "ESCAPING" /\ frame.id \in RequestId
                       THEN <<Frame("ESCAPING", ResponseId[frame.id], NoPayload)>> ELSE <<>>
           answer == IF frame.payload = Request
                     THEN <<Encapsulated(frame.framing, Reply)>> ELSE <<>>
           acknowledged == Acknowledged(queue, frame)
<1>1. Len(queue) \in Nat /\ SendQueueLimit \in Nat
  BY LenProperties, SendQueueAssumption
<1>2. Solicited(queue) \in Seq(Answer)
  BY SolicitedFrames
<1>3. Solicited(queue) \o <<>> = Solicited(queue)
  BY <1>2, ConcatEmptySeq
<1>4. /\ acknowledged \in Seq(GatewayFrame) /\ Len(acknowledged) \in Nat
      /\ Len(acknowledged) <= Len(queue) + 1
      /\ Solicited(acknowledged) = Solicited(queue) \o response
      /\ response \in Seq(Answer)
  <2>1. CASE frame.framing = "ESCAPING"
    <3> DEFINE sent == Frame("ESCAPING", ResponseId[frame.id], NoPayload)
    <3>1. frame.id \in RequestId /\ ResponseId[frame.id] \in {"0101", "0111", "0301"}
      BY <2>1 DEF IdFits, RequestId, ResponseId
    <3>2. sent \in Answer
      BY <3>1, PayloadAssumption DEF GatewayFrame, Answer, IsNews, Frame
    <3>3. acknowledged = SendFrame(queue, sent) /\ response = <<sent>>
      BY <2>1, <3>1 DEF Acknowledged
    <3> HIDE DEF sent, acknowledged, response
    <3>4. Len(queue) < SendQueueLimit
      BY <1>1
    <3>5. /\ SendFrame(queue, sent) \in Seq(GatewayFrame)
          /\ Len(SendFrame(queue, sent)) = Len(queue) + 1
          /\ Solicited(SendFrame(queue, sent)) = Solicited(queue) \o <<sent>>
      BY <3>2, <3>4, SolicitedAnswer
    <3>6. <<sent>> \in Seq(Answer)
      BY <3>2
    <3>7. QED
      BY <1>1, <3>3, <3>5, <3>6
  <2>2. CASE frame.framing # "ESCAPING"
    <3>1. acknowledged = queue /\ response = <<>>
      BY <2>2 DEF Acknowledged
    <3>2. <<>> \in Seq(Answer)
      BY EmptySeq
    <3> HIDE DEF acknowledged, response
    <3>3. QED
      BY <1>1, <1>3, <3>1, <3>2
  <2>3. QED
    BY <2>1, <2>2
<1>5. Expected(frame) = response \o answer
  BY DEF Expected
<1> HIDE DEF response, acknowledged
<1>6. CASE frame.payload = Request
  <2> DEFINE sent == Encapsulated(frame.framing, Reply)
  <2>1. CarriesData(frame)
    BY <1>6, PayloadAssumption DEF ClientFrame, CarriesData, Frame
  <2>2. frame.framing \in FramingMode \ {"UNKNOWN"}
    BY ClientFramesAreFrames DEF AnyFrame, FramingMode
  <2>3. sent \in Answer
    <3>1. ~IsNews(sent)
      BY PayloadAssumption DEF IsNews, Encapsulated, Frame
    <3>2. QED
      BY <2>2, <3>1 DEF GatewayFrame, Answer
  <2>4. Handled(queue, frame) = SendFrame(acknowledged, sent)
    BY <1>6, <2>1, <2>2 DEF Handled, Sent, acknowledged
  <2>5. answer = <<sent>>
    BY <1>6
  <2> HIDE DEF sent, answer
  <2>6. Len(acknowledged) < SendQueueLimit
    BY <1>1, <1>4
  <2>7. /\ Len(SendFrame(acknowledged, sent)) = Len(acknowledged) + 1
        /\ Solicited(SendFrame(acknowledged, sent)) = Solicited(acknowledged) \o <<sent>>
    BY <1>4, <2>3, <2>6, SolicitedAnswer
  <2>8. <<sent>> \in Seq(Answer)
    BY <2>3
  <2>9. (Solicited(queue) \o response) \o <<sent>> = Solicited(queue) \o (response \o <<sent>>)
    BY <1>2, <1>4, <2>8, ConcatAssociative
  <2>10. Len(Handled(queue, frame)) <= Len(queue) + 2
    BY <1>1, <1>4, <2>4, <2>7
  <2>11. QED
    BY <1>4, <1>5, <2>4, <2>5, <2>7, <2>9, <2>10
<1>7. CASE frame.payload # Request
  <2>1. Handled(queue, frame) = acknowledged
    BY <1>7 DEF Handled, acknowledged
  <2>2. answer = <<>>
    BY <1>7
  <2> HIDE DEF answer
  <2>3. response \o <<>> = response
    BY <1>4, ConcatEmptySeq
  <2>4. Len(acknowledged) <= Len(queue) + 2
    BY <1>1, <1>4
  <2>5. QED
    BY <1>4, <1>5, <2>1, <2>2, <2>3, <2>4
<1>8. QED
  BY <1>6, <1>7

-------------------------------------------------------------------------------
(* What is queued and what is still to be handled fits into the queue: two  *)
(* frames for each of the client's and one for each of the news.            *)
RoomInv == Len(sendQueue) + 2 * Len(fromClient) <= 2 * framesSent + newsSent

(* The inductive invariant of the order.                                    *)
OrderInv == TypeOK /\ RoomInv /\ ResponsesInOrder

LEMMA OrderInit == Init => OrderInv
<1> SUFFICES ASSUME Init PROVE OrderInv
  OBVIOUS
<1>1. sendQueue = <<>> /\ fromClient = <<>> /\ owed = <<>> /\ framesSent = 0 /\ newsSent = 0
  BY DEF Init
<1>2. Solicited(<<>>) = <<>>
  <2>1. <<>> \in Seq(GatewayFrame)
    BY EmptySeq
  <2>2. QED
    BY <2>1, SolicitedFrames
<1>3. Pending(<<>>) = <<>>
  <2>1. <<>> \in Seq(ClientFrame)
    BY EmptySeq
  <2>2. QED
    BY <2>1, PendingFrames
<1>4. <<>> \o <<>> = <<>>
  BY EmptySeq, ConcatEmptySeq
<1>5. RoomInv
  BY <1>1, EmptySeq DEF RoomInv
<1>6. ResponsesInOrder
  BY <1>1, <1>2, <1>3, <1>4 DEF ResponsesInOrder
<1>7. QED
  BY <1>5, <1>6, TypeInit DEF OrderInv

(* A closed connection has nothing to order.                                *)
LEMMA CloseKeepsOrder ==
  ASSUME OrderInv, Close, UNCHANGED <<framesSent, newsSent>>
  PROVE  RoomInv' /\ ResponsesInOrder'
<1>1. sendQueue' = <<>> /\ fromClient' = <<>> /\ owed' = <<>>
  BY DEF Close
<1>2. framesSent \in Nat /\ newsSent \in Nat /\ UNCHANGED <<framesSent, newsSent>>
  BY BoundAssumption DEF OrderInv, TypeOK
<1>3. Len(<<>>) = 0
  BY EmptySeq
<1>4. Solicited(<<>>) = <<>> /\ Pending(<<>>) = <<>>
  <2>1. <<>> \in Seq(GatewayFrame) /\ <<>> \in Seq(ClientFrame)
    BY EmptySeq
  <2>2. Solicited(<<>>) = <<>>
    BY <2>1, SolicitedFrames
  <2>3. Pending(<<>>) = <<>>
    BY <2>1, PendingFrames
  <2>4. QED
    BY <2>2, <2>3
<1>5. <<>> \o <<>> = <<>>
  BY EmptySeq, ConcatEmptySeq
<1>6. RoomInv'
  BY <1>1, <1>2, <1>3 DEF RoomInv
<1>7. ResponsesInOrder'
  BY <1>1, <1>4, <1>5 DEF ResponsesInOrder
<1>8. QED
  BY <1>6, <1>7

LEMMA ClientSendsKeepsOrder ==
  ASSUME OrderInv, NEW frame \in ClientFrame, ClientSends(frame)
  PROVE  RoomInv' /\ ResponsesInOrder'
<1>1. /\ fromClient \in Seq(ClientFrame) /\ sendQueue \in Seq(GatewayFrame)
      /\ framesSent \in Nat /\ newsSent \in Nat
  BY BoundAssumption DEF OrderInv, TypeOK
<1>2. /\ fromClient' = Append(fromClient, frame) /\ owed' = owed \o Expected(frame)
      /\ framesSent' = framesSent + 1 /\ sendQueue' = sendQueue /\ newsSent' = newsSent
  BY DEF ClientSends
<1>3. Len(Append(fromClient, frame)) = Len(fromClient) + 1
  BY <1>1, AppendProperties
<1>4. RoomInv'
  <2>1. Len(sendQueue) \in Nat /\ Len(fromClient) \in Nat
    BY <1>1, LenProperties
  <2>2. QED
    BY <1>1, <1>2, <1>3, <2>1 DEF OrderInv, RoomInv
<1>5. /\ Solicited(sendQueue) \in Seq(Answer) /\ Pending(fromClient) \in Seq(Answer)
      /\ Expected(frame) \in Seq(Answer)
  BY <1>1, SolicitedFrames, PendingFrames, ExpectedAnswers
<1>6. Pending(Append(fromClient, frame)) = Pending(fromClient) \o Expected(frame)
  BY <1>1, PendingFrames
<1>7. (Solicited(sendQueue) \o Pending(fromClient)) \o Expected(frame)
        = Solicited(sendQueue) \o (Pending(fromClient) \o Expected(frame))
  BY <1>5, ConcatAssociative
<1>8. ResponsesInOrder'
  BY <1>2, <1>6, <1>7 DEF OrderInv, ResponsesInOrder
<1>9. QED
  BY <1>4, <1>8

(* What the frame at the head was to produce is now in the send queue.      *)
LEMMA OnFrameKeepsOrder ==
  ASSUME QueueHasRoom, OrderInv, OnFrame
  PROVE  RoomInv' /\ ResponsesInOrder'
<1> DEFINE frame == Head(fromClient)
<1>1. /\ fromClient \in Seq(ClientFrame) /\ sendQueue \in Seq(GatewayFrame)
      /\ framesSent \in 0..MaxFrames /\ newsSent \in 0..MaxNews
      /\ Len(sendQueue) \in Nat /\ Len(fromClient) \in Nat
  BY LenProperties DEF OrderInv, TypeOK
<1>2. fromClient # <<>> /\ UNCHANGED <<framesSent, newsSent>>
  BY DEF OnFrame
<1>3. /\ frame \in ClientFrame
      /\ Tail(fromClient) \in Seq(ClientFrame)
      /\ Len(Tail(fromClient)) = Len(fromClient) - 1
      /\ Len(fromClient) >= 1
  BY <1>1, <1>2, HeadTailProperties, EmptySeq
<1> HIDE DEF frame
<1>4. CASE FrameViolatesProtocol(frame)
  BY <1>2, <1>4, CloseKeepsOrder DEF FrameViolatesProtocol
<1>5. CASE FrameAccepted(frame)
  <2>1. /\ IdFits(frame) /\ sendQueue' = Handled(sendQueue, frame)
        /\ fromClient' = Tail(fromClient) /\ UNCHANGED owed
    BY <1>5 DEF FrameAccepted, Accepts, Handled
  <2>2. Len(sendQueue) + 2 <= SendQueueLimit
    BY <1>1, <1>3, BoundAssumption, SendQueueAssumption DEF OrderInv, RoomInv, QueueHasRoom
  <2>3. /\ Len(sendQueue') <= Len(sendQueue) + 2
        /\ Solicited(sendQueue') = Solicited(sendQueue) \o Expected(frame)
    BY <1>1, <1>3, <2>1, <2>2, HandlingAnswers
  <2>4. sendQueue' \in Seq(GatewayFrame)
    BY OnFrameType DEF OrderInv, TypeOK
  <2>5. RoomInv'
    <3>1. Len(sendQueue') \in Nat
      BY <2>4, LenProperties
    <3>2. framesSent \in Nat /\ newsSent \in Nat
      BY <1>1, BoundAssumption
    <3>3. QED
      BY <1>1, <1>2, <1>3, <2>1, <2>3, <3>1, <3>2 DEF OrderInv, RoomInv
  <2>6. Pending(fromClient) = Expected(frame) \o Pending(Tail(fromClient))
    BY <1>1, <1>2, PendingFrames DEF frame
  <2>7. /\ Solicited(sendQueue) \in Seq(Answer) /\ Expected(frame) \in Seq(Answer)
        /\ Pending(Tail(fromClient)) \in Seq(Answer)
    BY <1>1, <1>3, SolicitedFrames, PendingFrames, ExpectedAnswers
  <2>8. (Solicited(sendQueue) \o Expected(frame)) \o Pending(Tail(fromClient))
          = Solicited(sendQueue) \o (Expected(frame) \o Pending(Tail(fromClient)))
    BY <2>7, ConcatAssociative
  <2>9. ResponsesInOrder'
    BY <2>1, <2>3, <2>6, <2>8 DEF OrderInv, ResponsesInOrder
  <2>10. QED
    BY <2>5, <2>9
<1>6. QED
  BY <1>4, <1>5 DEF OnFrame, frame

(* News take a place in the queue, but none in the order.                   *)
LEMMA SendNewsKeepsOrder ==
  ASSUME OrderInv, SendNews
  PROVE  RoomInv' /\ ResponsesInOrder'
<1> DEFINE news == Encapsulated(m_eFramingMode, News)
<1>1. /\ fromClient \in Seq(ClientFrame) /\ sendQueue \in Seq(GatewayFrame)
      /\ framesSent \in Nat /\ newsSent \in Nat /\ m_eFramingMode \in FramingMode
      /\ Len(sendQueue) \in Nat /\ Len(fromClient) \in Nat
  BY BoundAssumption, LenProperties DEF OrderInv, TypeOK
<1>2. /\ sendQueue' = Sent(m_eFramingMode, sendQueue, News)
      /\ newsSent' = newsSent + 1 /\ UNCHANGED <<fromClient, owed, framesSent>>
  BY DEF SendNews
<1>3. news \in GatewayFrame /\ IsNews(news)
  BY <1>1 DEF GatewayFrame, IsNews, Encapsulated, Frame
<1>4. sendQueue' = sendQueue \/ sendQueue' = Append(sendQueue, news)
  BY <1>2 DEF Sent, SendFrame
<1> HIDE DEF news
<1>5. /\ Len(Append(sendQueue, news)) = Len(sendQueue) + 1
      /\ Solicited(Append(sendQueue, news)) = Solicited(sendQueue)
  <2>1. Len(Append(sendQueue, news)) = Len(sendQueue) + 1
    BY <1>1, <1>3, AppendProperties
  <2>2. Solicited(Append(sendQueue, news)) = Solicited(sendQueue) \o <<>>
    BY <1>1, <1>3, SolicitedFrames
  <2>3. Solicited(sendQueue) \in Seq(Answer)
    BY <1>1, SolicitedFrames
  <2>4. QED
    BY <2>1, <2>2, <2>3, ConcatEmptySeq
<1>6. RoomInv'
  BY <1>1, <1>2, <1>4, <1>5 DEF OrderInv, RoomInv
<1>7. ResponsesInOrder'
  BY <1>2, <1>4, <1>5 DEF OrderInv, ResponsesInOrder
<1>8. QED
  BY <1>6, <1>7

(* The client receives news, or the first frame it is waiting for.          *)
LEMMA ClientReceivesKeepsOrder ==
  ASSUME OrderInv, ClientReceives
  PROVE  RoomInv' /\ ResponsesInOrder'
<1> DEFINE frame == Head(sendQueue)
           rest == Tail(sendQueue)
<1>1. /\ fromClient \in Seq(ClientFrame) /\ sendQueue \in Seq(GatewayFrame)
      /\ framesSent \in Nat /\ newsSent \in Nat
      /\ Len(sendQueue) \in Nat /\ Len(fromClient) \in Nat
  BY BoundAssumption, LenProperties DEF OrderInv, TypeOK
<1>2. /\ sendQueue # <<>> /\ sendQueue' = rest /\ owed' = RemoveFirst(owed, frame)
      /\ UNCHANGED <<fromClient, framesSent, newsSent>>
  BY DEF ClientReceives
<1>3. /\ frame \in GatewayFrame /\ rest \in Seq(GatewayFrame)
      /\ Len(rest) = Len(sendQueue) - 1
  BY <1>1, <1>2, HeadTailProperties
<1>4. Solicited(sendQueue) =
        (IF IsNews(frame) THEN <<>> ELSE <<frame>>) \o Solicited(rest)
  BY <1>1, <1>2, SolicitedFrames
<1> HIDE DEF frame, rest
<1>5. Solicited(rest) \in Seq(Answer) /\ Pending(fromClient) \in Seq(Answer)
  BY <1>1, <1>3, SolicitedFrames, PendingFrames
<1>6. Solicited(rest) \o Pending(fromClient) \in Seq(Answer)
  BY <1>5, ConcatProperties
<1>7. owed = Solicited(sendQueue) \o Pending(fromClient)
  BY DEF OrderInv, ResponsesInOrder
<1>8. RoomInv'
  BY <1>1, <1>2, <1>3 DEF OrderInv, RoomInv
<1>9. RemoveFirst(owed, frame) = Solicited(rest) \o Pending(fromClient)
  <2>1. CASE IsNews(frame)
    <3>1. frame \notin Answer
      BY <2>1 DEF Answer
    <3>2. <<>> \o Solicited(rest) = Solicited(rest)
      BY <1>5, ConcatEmptySeq
    <3>3. owed = Solicited(rest) \o Pending(fromClient)
      BY <1>4, <1>7, <2>1, <3>2
    <3>4. QED
      BY <1>6, <3>1, <3>3, RemoveFirstAbsent
  <2>2. CASE ~IsNews(frame)
    <3>1. frame \in Answer
      BY <1>3, <2>2 DEF Answer
    <3>2. <<frame>> \in Seq(Answer)
      BY <3>1
    <3>3. (<<frame>> \o Solicited(rest)) \o Pending(fromClient)
            = <<frame>> \o (Solicited(rest) \o Pending(fromClient))
      BY <1>5, <3>2, ConcatAssociative
    <3>4. owed = <<frame>> \o (Solicited(rest) \o Pending(fromClient))
      BY <1>4, <1>7, <2>2, <3>3
    <3>5. QED
      BY <1>6, <3>1, <3>4, RemoveFirstHead
  <2>3. QED
    BY <2>1, <2>2
<1>10. ResponsesInOrder'
  BY <1>2, <1>9 DEF ResponsesInOrder
<1>11. QED
  BY <1>8, <1>10

LEMMA OrderStep == QueueHasRoom /\ OrderInv /\ [Next]_vars => OrderInv'
<1> SUFFICES ASSUME QueueHasRoom, OrderInv, [Next]_vars PROVE RoomInv' /\ ResponsesInOrder'
  BY TypeStep DEF OrderInv
<1>1. ASSUME NEW frame \in ClientFrame, ClientSends(frame) PROVE RoomInv' /\ ResponsesInOrder'
  BY <1>1, ClientSendsKeepsOrder
<1>2. CASE OnFrame
  BY <1>2, OnFrameKeepsOrder
<1>3. CASE SendNews
  BY <1>3, SendNewsKeepsOrder
<1>4. CASE ClientReceives
  BY <1>4, ClientReceivesKeepsOrder
<1>5. CASE OnClosed
  BY <1>5, CloseKeepsOrder DEF OnClosed
<1>6. CASE UNCHANGED vars
  BY <1>6 DEF vars, OrderInv, RoomInv, ResponsesInOrder
<1>7. QED
  BY <1>1, <1>2, <1>3, <1>4, <1>5, <1>6 DEF Next, Closed

(* While nothing is refused, no response is lost, duplicated or overtaken   *)
(* (GatewayAccessProtocol.cpp, OnFrame: the response is sent before the     *)
(* data callback runs), for any number of frames and of news.               *)
THEOREM ResponsesKeepTheirOrder == ASSUME QueueHasRoom PROVE Spec => []ResponsesInOrder
<1>1. OrderInv /\ [Next]_vars => OrderInv'
  BY OrderStep
<1>2. Spec => []OrderInv
  BY <1>1, OrderInit, PTL DEF Spec
<1>3. OrderInv => ResponsesInOrder
  BY DEF OrderInv
<1>4. QED
  BY <1>2, <1>3, PTL
===============================================================================
