------------------------- MODULE GatewayAccessFraming -------------------------
(***************************************************************************)
(* The two frame formats on a TCP byte stream: GatewayAccessFrameEscaped.h *)
(* and GatewayAccessFrameLength.h, serialized by one side and deserialized *)
(* byte by byte by the other.  How the frame endpoint feeds a frame        *)
(* (m_BytesRemaining bytes, then Deserialize) and picks the class by the   *)
(* upper nibble of the first byte is external.                             *)
(*                                                                         *)
(* The 12-bit length field is split into two fields whose ranges are       *)
(* parameters, so that TLC reaches the largest frame.                      *)
(***************************************************************************)
EXTENDS Integers, Sequences, SequencesExt

CONSTANTS
  UpperField,   \* 16: range of the length bits in the first byte
  LowerField,   \* 256: range of the second byte
  Payload,      \* the payloads that are sent
  MaxFrames,    \* bound: frames on the stream
  Noise,        \* bytes that are not part of a frame made by the serializers
  MaxNoise      \* bound: how many of them

MTU == UpperField * LowerField   \* 4096

Byte == 0..\hFF

ASSUME FieldAssumption ==
  /\ UpperField \in 1..\h10 /\ \h80 % UpperField = 0
  /\ LowerField \in 2..\h100

(* The size assertion of Create.                                            *)
ASSUME PayloadAssumption == \A payload \in Payload : payload \in Seq(Byte) /\ Len(payload) < MTU

ASSUME BoundAssumption == Noise \subseteq Byte /\ MaxFrames \in Nat /\ MaxNoise \in Nat

VARIABLES
  stream,           \* bytes sent and not read yet
  pending,          \* payloads sent and not delivered yet
  noises,           \* how many bytes of noise were sent
  m_eType,          \* which class the frame being read is of
  m_eDeserialize, m_Buffer, m_BytesRemaining

vars == <<stream, pending, noises, m_eType, m_eDeserialize, m_Buffer, m_BytesRemaining>>
frameVars == <<m_eType, m_eDeserialize, m_Buffer, m_BytesRemaining>>

-------------------------------------------------------------------------------
(* Serializers.                                                             *)
Delimiter == \h7E
EscapeCharacter == \h7D

(* Mutant: the escape character itself is not escaped. *)
EscapeDelimiterOnly(byte) ==
  IF byte = Delimiter THEN <<EscapeCharacter, \h5E>> ELSE <<byte>>

Escape(byte) ==
  IF byte = EscapeCharacter THEN <<EscapeCharacter, \h5D>>
  ELSE IF byte = Delimiter THEN <<EscapeCharacter, \h5E>>
  ELSE <<byte>>

SerializeEscaped(payload) ==
  <<Delimiter>> \o FlattenSeq([i \in DOMAIN payload |-> Escape(payload[i])]) \o <<Delimiter>>

SerializeLength(payload) ==
  <<\h80 + ((Len(payload) \div LowerField) % UpperField), Len(payload) % LowerField>> \o payload

-------------------------------------------------------------------------------
(* Deserializers.  Each case gives the next state of the frame after the    *)
(* bytes it asked for have arrived; the last of them is still in the buffer.*)
FrameState(state, buffer, remaining) ==
  [state |-> state, buffer |-> buffer, remaining |-> remaining]
Failed(buffer) == FrameState("ERROR", buffer, 0)

FrameStart(buffer) ==
  IF Last(buffer) = Delimiter THEN FrameState("UNESCAPED", Front(buffer), 1) ELSE Failed(buffer)

(* Mutant: the size is checked before the new byte is counted. *)
UnescapedOffByOne(buffer) ==
  CASE Last(buffer) = Delimiter -> FrameState("FULL", Front(buffer), 0)
    [] Last(buffer) = EscapeCharacter -> FrameState("ESCAPED", Front(buffer), 1)
    [] OTHER -> IF Len(buffer) <= MTU THEN FrameState("UNESCAPED", buffer, 1) ELSE Failed(buffer)

Unescaped(buffer) ==
  CASE Last(buffer) = Delimiter -> FrameState("FULL", Front(buffer), 0)
    [] Last(buffer) = EscapeCharacter -> FrameState("ESCAPED", Front(buffer), 1)
    [] OTHER -> IF Len(buffer) < MTU THEN FrameState("UNESCAPED", buffer, 1) ELSE Failed(buffer)

Escaped(buffer) ==
  IF Last(buffer) \in {\h5D, \h5E} /\ Len(buffer) < MTU
  THEN FrameState("UNESCAPED", Front(buffer) \o <<Last(buffer) + \h20>>, 1)
  ELSE Failed(buffer)

(* Mutant: the type nibble is not masked out of the length. *)
HeaderUnmasked(buffer) ==
  LET length == buffer[1] * LowerField + (buffer[2] % LowerField)
  IN  IF buffer[1] < \h80 THEN Failed(buffer)
      ELSE FrameState(IF length = 0 THEN "FULL" ELSE "DATA", <<>>, length)

Header(buffer) ==
  LET length == (buffer[1] % UpperField) * LowerField + (buffer[2] % LowerField)
  IN  IF buffer[1] < \h80 THEN Failed(buffer)
      ELSE FrameState(IF length = 0 THEN "FULL" ELSE "DATA", <<>>, length)

Deserialize(state, buffer) ==
  CASE state = "FRAMESTART" -> FrameStart(buffer)
    [] state = "UNESCAPED" -> Unescaped(buffer)
    [] state = "ESCAPED" -> Escaped(buffer)
    [] state = "HEADER" -> Header(buffer)
    [] state = "DATA" -> FrameState("FULL", buffer, 0)

-------------------------------------------------------------------------------
Init ==
  /\ stream = <<>> /\ pending = <<>> /\ noises = 0
  /\ m_eType = "NONE" /\ m_eDeserialize = "NONE"
  /\ m_Buffer = <<>> /\ m_BytesRemaining = 0

Send(payload, bytes) ==
  /\ Len(pending) < MaxFrames /\ noises = 0
  /\ pending' = Append(pending, payload)
  /\ stream' = stream \o bytes
  /\ UNCHANGED <<noises, frameVars>>

SendEscaped(payload) == Send(payload, SerializeEscaped(payload))
SendLength(payload) == Send(payload, SerializeLength(payload))

(* A peer that stops to stick to the formats once its frames are delivered. *)
SendNoise(byte) ==
  /\ pending = <<>> /\ noises < MaxNoise
  /\ noises' = noises + 1
  /\ stream' = Append(stream, byte)
  /\ UNCHANGED <<pending, frameVars>>

(* CreateDeserializedFrame of the class that is registered for the byte.    *)
CreateDeserializedFrame ==
  /\ m_eDeserialize = "NONE" /\ stream # <<>>
  /\ LET class == Head(stream) \div \h10
     IN  \/ /\ class = Delimiter \div \h10
            /\ m_eType' = "ESCAPED" /\ m_eDeserialize' = "FRAMESTART" /\ m_BytesRemaining' = 1
         \/ /\ class = \h80 \div \h10
            /\ m_eType' = "LENGTH" /\ m_eDeserialize' = "HEADER" /\ m_BytesRemaining' = 2
         \/ /\ class \notin {Delimiter \div \h10, \h80 \div \h10}
            /\ m_eDeserialize' = "ERROR"
            /\ UNCHANGED <<m_eType, m_BytesRemaining>>
  /\ UNCHANGED <<stream, pending, noises, m_Buffer>>

ReadByte ==
  /\ m_eDeserialize \notin {"NONE", "FULL", "ERROR"} /\ stream # <<>>
  /\ LET buffer == Append(m_Buffer, Head(stream))
         next == IF m_BytesRemaining > 1
                 THEN FrameState(m_eDeserialize, buffer, m_BytesRemaining - 1)
                 ELSE Deserialize(m_eDeserialize, buffer)
     IN  /\ m_eDeserialize' = next.state
         /\ m_Buffer' = next.buffer
         /\ m_BytesRemaining' = next.remaining
  /\ stream' = Tail(stream)
  /\ UNCHANGED <<pending, noises, m_eType>>

(* The endpoint hands the frame to OnFrame and starts with the next one.    *)
DeliverFrame ==
  /\ m_eDeserialize = "FULL"
  /\ m_eDeserialize' = "NONE" /\ m_eType' = "NONE"
  /\ m_Buffer' = <<>> /\ m_BytesRemaining' = 0
  /\ pending' = IF pending = <<>> THEN pending ELSE Tail(pending)
  /\ UNCHANGED <<stream, noises>>

(* Nothing is read after an error: the connection is closed.                *)
Broken == m_eDeserialize = "ERROR" /\ UNCHANGED vars

Next ==
  \/ \E payload \in Payload : SendEscaped(payload) \/ SendLength(payload)
  \/ \E byte \in Noise : SendNoise(byte)
  \/ CreateDeserializedFrame \/ ReadByte \/ DeliverFrame
  \/ Broken

Spec == Init /\ [][Next]_vars

-------------------------------------------------------------------------------
(* Every variable has its type, and no buffer outgrows the MTU.             *)
TypeOK ==
  /\ stream \in Seq(Byte)
  /\ pending \in Seq(Payload) /\ Len(pending) <= MaxFrames
  /\ noises \in 0..MaxNoise
  /\ m_eType \in {"NONE", "ESCAPED", "LENGTH"}
  /\ m_eDeserialize \in
       {"NONE", "FRAMESTART", "UNESCAPED", "ESCAPED", "HEADER", "DATA", "FULL", "ERROR"}
  /\ m_Buffer \in Seq(Byte) /\ Len(m_Buffer) <= MTU
  /\ m_BytesRemaining \in 0..MTU

(* Both formats share a stream without loss or confusion: whatever bytes a  *)
(* payload contains, up to the largest one, the frame that is completed is  *)
(* the oldest one under way, no well-formed byte is ever an error, and when *)
(* all bytes are read no frame is left incomplete.                          *)
RoundTrip ==
  noises = 0 =>
    /\ m_eDeserialize # "ERROR"
    /\ m_eDeserialize = "FULL" => pending # <<>> /\ m_Buffer = Head(pending)
    /\ stream = <<>> /\ m_eDeserialize # "FULL" => pending = <<>>

(* Whatever a peer sends, a frame that is accepted could have been created  *)
(* on this side: it passes the size assertion of Create.                    *)
AcceptedFitsMTU == m_eDeserialize = "FULL" => Len(m_Buffer) < MTU

(* What the gateway builds to pass the message in a frame on to a client in *)
(* escaping mode: the two bytes of the command identifier of an escaped     *)
(* frame are stripped, those of response 0302 are put in front.  The        *)
(* message in between is assumed to be serialized to as many bytes as it    *)
(* was deserialized from.  The frame is subject to the same assertion       *)
(* (GatewayAccessFrameEscaped.h:34).                                        *)
IdentifierBytes == 2
ForwardedLength ==
  IdentifierBytes + (IF m_eType = "ESCAPED" THEN Len(m_Buffer) - IdentifierBytes ELSE Len(m_Buffer))
ForwardedFitsMTU == m_eDeserialize = "FULL" => ForwardedLength < MTU
===============================================================================
