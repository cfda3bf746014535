------------------------ MODULE GatewayAccessProtocol -------------------------
(***************************************************************************)
(* The protocol entity of one client connection, GatewayAccessProtocol.cpp *)
(* as operators on its framing mode and its send queue.                    *)
(*                                                                         *)
(* A frame is its format, its two-byte command or response identifier      *)
(* ("data" for a length-based frame, which has none) and its payload.      *)
(* An escaped frame of fewer than two bytes cannot carry an identifier; it *)
(* is one with an identifier outside RequestId.                            *)
(***************************************************************************)
EXTENDS Integers, Sequences

CONSTANT SendQueueLimit   \* frames the endpoint keeps before it refuses more

ASSUME SendQueueAssumption == SendQueueLimit \in Nat \ {0}

FramingMode == {"UNKNOWN", "ESCAPING", "LENGTH"}

Frame(framing, id, payload) == [framing |-> framing, id |-> id, payload |-> payload]
NoPayload == <<>>

RequestId == {"0100", "0110", "0300"}
ResponseId == [r \in RequestId |-> CASE r = "0100" -> "0101"
                                     [] r = "0110" -> "0111"
                                     [] r = "0300" -> "0301"]

(* Mutant: the mode is set without the check. *)
ModeFitsAlways(mode, frame) == TRUE

(* The first frame selects the mode; frames of the other format and unknown *)
(* requests are violations of the protocol.                                 *)
ModeFits(mode, frame) == mode \in {"UNKNOWN", frame.framing}
IdFits(frame) == frame.framing = "ESCAPING" => frame.id \in RequestId
Accepts(mode, frame) == ModeFits(mode, frame) /\ IdFits(frame)

(* OnFrame sets the mode before it looks at the identifier. *)
ModeAfter(mode, frame) == IF ModeFits(mode, frame) THEN frame.framing ELSE mode

CarriesData(frame) == frame.framing = "LENGTH" \/ frame.id = "0300"

(* FrameEndpoint::SendFrame queues the frame, or returns false and drops it.*)
SendFrame(queue, frame) ==
  IF Len(queue) < SendQueueLimit THEN Append(queue, frame) ELSE queue

(* Mutant: the response repeats the identifier of the request. *)
AcknowledgedByEcho(queue, frame) ==
  IF frame.framing = "ESCAPING"
  THEN SendFrame(queue, Frame("ESCAPING", frame.id, NoPayload))
  ELSE queue

(* The immediate response to a command; the result of SendFrame is ignored. *)
Acknowledged(queue, frame) ==
  IF frame.framing = "ESCAPING"
  THEN SendFrame(queue, Frame("ESCAPING", ResponseId[frame.id], NoPayload))
  ELSE queue

Encapsulated(mode, payload) ==
  IF mode = "ESCAPING" THEN Frame("ESCAPING", "0302", payload)
  ELSE Frame("LENGTH", "data", payload)

(* Mutant: the case FRAMING_MODE_UNKNOWN is missing. *)
SentAnyway(mode, queue, payload) == SendFrame(queue, Encapsulated(mode, payload))

(* Send: as long as the mode is unknown the payload is consumed unsent. *)
Sent(mode, queue, payload) ==
  IF mode = "UNKNOWN" THEN queue ELSE SendFrame(queue, Encapsulated(mode, payload))
===============================================================================
