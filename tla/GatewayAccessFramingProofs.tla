---------------------- MODULE GatewayAccessFramingProofs ----------------------
(***************************************************************************)
(* Proofs about the two frame formats, for fields of any width, payloads   *)
(* of any bytes up to the largest size and any number of frames: every     *)
(* frame that is sent is read back as it was (RoundTrip), and what is      *)
(* accepted fits the size a frame may have (AcceptedFitsMTU).              *)
(*                                                                         *)
(* The invariant of RoundTrip splits the stream: what is left of the frame *)
(* that is being read, then the frames behind it (StreamInv).              *)
(***************************************************************************)
EXTENDS GatewayAccessFraming, SequenceLemmas

-------------------------------------------------------------------------------
(* Numbers of the length field.                                             *)
LEMMA Bytes ==
  /\ Delimiter \in Byte /\ EscapeCharacter \in Byte
  /\ Delimiter = 126 /\ EscapeCharacter = 125 /\ Byte = 0..255
BY SMT DEF Byte, Delimiter, EscapeCharacter

LEMMA Division ==
  ASSUME NEW n \in Nat, NEW L \in Nat \ {0}
  PROVE  /\ n \div L \in Nat /\ n % L \in 0..(L - 1)
         /\ (n \div L) * L + (n % L) = n
BY Z3

LEMMA Quotient ==
  ASSUME NEW n \in Nat, NEW L \in Nat \ {0}, NEW U \in Nat, n < U * L
  PROVE  n \div L < U
BY SMT

LEMMA NextMultiple ==
  ASSUME NEW u \in Nat, NEW U \in Nat, u < U, NEW L \in Nat
  PROVE  u * L \in Nat /\ u * L + L <= U * L
BY Z3

LEMMA SmallModulo ==
  ASSUME NEW U \in 1..16, NEW n \in Nat, n < U
  PROVE  n % U = n
BY SMT

LEMMA SmallRemainder ==
  ASSUME NEW L \in Nat \ {0}, NEW n \in 0..(L - 1)
  PROVE  n % L = n
<1>1. n \in Nat /\ n < 1 * L
  OBVIOUS
<1>2. n \div L \in Nat /\ n % L \in 0..(L - 1) /\ (n \div L) * L + (n % L) = n
  BY <1>1, Division
<1>3. n \div L = 0
  BY <1>1, <1>2, Quotient
<1>4. 0 * L + (n % L) = n
  BY <1>2, <1>3
<1>5. QED
  BY <1>2, <1>4

LEMMA HighBit ==
  ASSUME NEW U \in 1..16, 128 % U = 0, NEW u \in 0..(U - 1)
  PROVE  (128 + u) % U = u
BY SMT

LEMMA Fields ==
  /\ UpperField \in 1..16 /\ 128 % UpperField = 0 /\ LowerField \in 2..256
  /\ MTU \in Nat /\ MTU >= 2
<1>1. UpperField \in 1..16 /\ 128 % UpperField = 0 /\ LowerField \in 2..256
  BY FieldAssumption, SMT
<1>2. UpperField * LowerField \in Nat /\ UpperField * LowerField >= 2
  <2>1. 0 < UpperField
    BY <1>1
  <2>2. 0 * LowerField + LowerField <= UpperField * LowerField
    BY <1>1, <2>1, NextMultiple
  <2>3. UpperField * LowerField \in Nat
    BY <1>1
  <2>4. QED
    BY <1>1, <2>2, <2>3
<1>3. QED
  BY <1>1, <1>2 DEF MTU

-------------------------------------------------------------------------------
(* The shape of a frame that is being read: how many bytes it has and how   *)
(* many it has asked for in each state, whatever a peer sends.              *)
ReadingState == {"FRAMESTART", "UNESCAPED", "ESCAPED", "HEADER", "DATA"}
FrameShape(state, buffer, remaining) ==
  /\ state \in ReadingState \cup {"NONE", "FULL", "ERROR"}
  /\ buffer \in Seq(Byte) /\ Len(buffer) <= MTU
  /\ remaining \in 0..MTU
  /\ state = "NONE" => buffer = <<>> /\ remaining = 0
  /\ state = "FRAMESTART" => buffer = <<>> /\ remaining = 1
  /\ state \in {"UNESCAPED", "ESCAPED"} => Len(buffer) < MTU /\ remaining = 1
  /\ state = "HEADER" => remaining \in {1, 2} /\ Len(buffer) = 2 - remaining
  /\ state = "DATA" => remaining >= 1 /\ Len(buffer) + remaining < MTU
  /\ state = "FULL" => Len(buffer) < MTU

StreamTypes ==
  /\ stream \in Seq(Byte)
  /\ pending \in Seq(Payload) /\ Len(pending) <= MaxFrames
  /\ noises \in 0..MaxNoise
  /\ m_eType \in {"NONE", "ESCAPED", "LENGTH"}

FrameInv == StreamTypes /\ FrameShape(m_eDeserialize, m_Buffer, m_BytesRemaining)

(* What the length field of a header can say.                               *)
LEMMA HeaderLength ==
  ASSUME NEW first \in Byte, NEW second \in Byte
  PROVE  LET length == (first % UpperField) * LowerField + (second % LowerField)
         IN  length \in Nat /\ length < MTU
<1> DEFINE u == first % UpperField
           l == second % LowerField
<1>1. first \in Nat /\ second \in Nat
  BY Bytes
<1>2. u \in 0..(UpperField - 1) /\ l \in 0..(LowerField - 1)
  BY <1>1, Fields, Division
<1> HIDE DEF u, l
<1>3. u * LowerField \in Nat /\ u * LowerField + LowerField <= UpperField * LowerField
  BY <1>2, Fields, NextMultiple
<1> DEFINE base == u * LowerField
<1>4. UpperField * LowerField = MTU
  BY DEF MTU
<1>5. base + l \in Nat /\ base + l < MTU
  <2>1. base \in Nat /\ base + LowerField <= MTU
    BY <1>3, <1>4
  <2> HIDE DEF base
  <2>2. QED
    BY <1>2, <2>1, Fields
<1>6. QED
  BY <1>5 DEF u, l

(* The byte a frame asked for keeps it in shape.                            *)
LEMMA DeserializeShape ==
  ASSUME NEW state \in ReadingState, NEW before, FrameShape(state, before, 1), NEW byte \in Byte
  PROVE  LET next == Deserialize(state, Append(before, byte))
         IN  FrameShape(next.state, next.buffer, next.remaining)
<1> DEFINE buffer == Append(before, byte)
<1>1. before \in Seq(Byte)
  BY DEF FrameShape
<1>2. /\ buffer \in Seq(Byte) /\ Len(buffer) = Len(before) + 1
      /\ Len(before) \in Nat
  BY <1>1, AppendProperties, LenProperties
<1>3. Last(buffer) = byte /\ Front(buffer) = before
  BY <1>1, LastFrontAppend
<1>4. MTU \in Nat /\ MTU >= 2
  BY Fields
<1>5. 1 \in 0..MTU /\ 0 \in 0..MTU
  BY <1>4
<1> HIDE DEF buffer
<1>6. CASE state = "FRAMESTART"
  <2>1. before = <<>> /\ Len(before) = 0
    BY <1>6 DEF FrameShape
  <2>2. QED
    BY <1>1, <1>2, <1>3, <1>4, <1>5, <1>6, <2>1
    DEF Deserialize, FrameStart, FrameState, Failed, FrameShape, ReadingState, buffer
<1>7. CASE state = "UNESCAPED"
  <2>1. Len(before) < MTU
    BY <1>7 DEF FrameShape
  <2>2. QED
    BY <1>1, <1>2, <1>3, <1>4, <1>5, <1>7, <2>1
    DEF Deserialize, Unescaped, FrameState, Failed, FrameShape, ReadingState, buffer
<1>8. CASE state = "ESCAPED"
  <2>1. Len(before) < MTU
    BY <1>8 DEF FrameShape
  <2>2. CASE byte \in {93, 94} /\ Len(buffer) < MTU
    <3>1. byte + 32 \in Byte
      BY <2>2, Bytes
    <3>2. before \o <<byte + 32>> = Append(before, byte + 32)
      BY <1>1, <3>1, AppendIsConcat
    <3>3. /\ Append(before, byte + 32) \in Seq(Byte)
          /\ Len(Append(before, byte + 32)) = Len(before) + 1
      BY <1>1, <3>1, AppendProperties
    <3>4. Deserialize(state, buffer) = FrameState("UNESCAPED", Append(before, byte + 32), 1)
      BY <1>3, <1>8, <2>2, <3>2 DEF Deserialize, Escaped
    <3>5. QED
      BY <1>2, <1>4, <1>5, <2>2, <3>3, <3>4 DEF FrameState, FrameShape, ReadingState, buffer
  <2>3. CASE ~ (byte \in {93, 94} /\ Len(buffer) < MTU)
    <3>1. Deserialize(state, buffer) = Failed(buffer)
      BY <1>3, <1>8, <2>3 DEF Deserialize, Escaped
    <3>2. QED
      BY <1>2, <1>4, <1>5, <2>1, <3>1 DEF FrameState, Failed, FrameShape, ReadingState, buffer
  <2>4. QED
    BY <2>2, <2>3
<1>9. CASE state = "HEADER"
  <2>1. Len(before) = 1
    BY <1>9 DEF FrameShape
  <2>2. buffer[1] \in Byte /\ buffer[2] \in Byte
    <3>1. 1 \in 1..Len(buffer) /\ 2 \in 1..Len(buffer)
      BY <1>2, <2>1
    <3>2. QED
      BY <1>2, <3>1, ElementOfSeq
  <2> DEFINE length == (buffer[1] % UpperField) * LowerField + (buffer[2] % LowerField)
  <2>3. length \in Nat /\ length < MTU
    BY <2>2, HeaderLength
  <2>4. \/ Deserialize(state, buffer) = Failed(buffer)
        \/ Deserialize(state, buffer) = FrameState(IF length = 0 THEN "FULL" ELSE "DATA", <<>>, length)
    BY <1>9 DEF Deserialize, Header
  <2> HIDE DEF length
  <2>5. <<>> \in Seq(Byte) /\ Len(<<>>) = 0
    BY EmptySeq
  <2>6. CASE Deserialize(state, buffer) = Failed(buffer)
    BY <1>2, <1>4, <1>5, <2>1, <2>6 DEF FrameState, Failed, FrameShape, ReadingState, buffer
  <2>7. CASE Deserialize(state, buffer) = FrameState(IF length = 0 THEN "FULL" ELSE "DATA", <<>>, length)
    BY <1>4, <1>5, <2>3, <2>5, <2>7 DEF FrameState, FrameShape, ReadingState, buffer
  <2>8. QED
    BY <2>4, <2>6, <2>7
<1>10. CASE state = "DATA"
  <2>1. Len(before) + 1 < MTU
    BY <1>10 DEF FrameShape
  <2>2. QED
    BY <1>2, <1>4, <1>5, <1>10, <2>1 DEF Deserialize, FrameState, FrameShape, ReadingState, buffer
<1>11. QED
  BY <1>6, <1>7, <1>8, <1>9, <1>10 DEF ReadingState

-------------------------------------------------------------------------------
(* What the serializers write.                                              *)
Escapes(payload) == FlattenSeq([i \in DOMAIN payload |-> Escape(payload[i])])

LEMMA EscapeType ==
  ASSUME NEW byte \in Byte
  PROVE  /\ Escape(byte) \in Seq(Byte)
         /\ byte \in {125, 126} => /\ byte - 32 \in Byte /\ byte - 32 \in {93, 94}
                                   /\ Escape(byte) = <<EscapeCharacter, byte - 32>>
         /\ byte \notin {125, 126} => Escape(byte) = <<byte>>
<1>1. CASE byte \in {125, 126}
  <2>1. byte - 32 \in {93, 94} /\ byte - 32 \in Byte
    BY <1>1, Bytes
  <2>2. Escape(byte) = <<EscapeCharacter, byte - 32>>
    BY <1>1, Bytes DEF Escape
  <2>3. <<EscapeCharacter, byte - 32>> \in Seq(Byte)
    BY <2>1, Bytes
  <2>4. QED
    BY <1>1, <2>1, <2>2, <2>3
<1>2. CASE byte \notin {125, 126}
  <2>1. Escape(byte) = <<byte>>
    BY <1>2, Bytes DEF Escape
  <2>2. <<byte>> \in Seq(Byte)
    OBVIOUS
  <2>3. QED
    BY <1>2, <2>1, <2>2
<1>3. QED
  BY <1>1, <1>2

LEMMA EscapedBytes ==
  ASSUME NEW payload \in Seq(Byte)
  PROVE  /\ [i \in DOMAIN payload |-> Escape(payload[i])] \in Seq(Seq(Byte))
         /\ Len([i \in DOMAIN payload |-> Escape(payload[i])]) = Len(payload)
<1> DEFINE Q == Seq(Byte)
           escaped == [i \in DOMAIN payload |-> Escape(payload[i])]
<1>1. DOMAIN payload = 1..Len(payload) /\ Len(payload) \in Nat
  BY LenProperties
<1>2. \A i \in 1..Len(payload) : Escape(payload[i]) \in Q
  <2>1. \A i \in 1..Len(payload) : payload[i] \in Byte
    BY ElementOfSeq
  <2>2. QED
    BY <2>1, EscapeType
<1> HIDE DEF Q
<1>3. escaped \in [1..Len(payload) -> Q]
  BY <1>1, <1>2
<1> HIDE DEF escaped
<1>4. escaped \in Seq(Q) /\ Len(escaped) = Len(payload)
  BY <1>1, <1>3
<1>5. QED
  BY <1>4 DEF Q, escaped

LEMMA EscapesType ==
  ASSUME NEW payload \in Seq(Byte)
  PROVE  Escapes(payload) \in Seq(Byte)
<1> DEFINE escaped == [i \in DOMAIN payload |-> Escape(payload[i])]
<1>1. escaped \in Seq(Seq(Byte))
  BY EscapedBytes
<1> HIDE DEF escaped
<1>2. FlattenSeq(escaped) \in Seq(Byte)
  BY <1>1, FlattenType
<1>3. QED
  BY <1>2 DEF escaped, Escapes

LEMMA EscapesEmpty == Escapes(<<>>) = <<>>
<1> DEFINE escaped == [i \in DOMAIN <<>> |-> Escape(<<>>[i])]
<1>1. <<>> \in Seq(Byte) /\ Len(<<>>) = 0
  BY EmptySeq
<1>2. escaped \in Seq(Seq(Byte)) /\ Len(escaped) = 0
  BY <1>1, EscapedBytes
<1> HIDE DEF escaped
<1>3. escaped = <<>>
  BY <1>2, EmptySeq
<1>4. FlattenSeq(escaped) = <<>>
  BY <1>3, FlattenEmpty
<1>5. QED
  BY <1>4 DEF escaped, Escapes

LEMMA EscapesHeadTail ==
  ASSUME NEW payload \in Seq(Byte), payload # <<>>
  PROVE  Escapes(payload) = Escape(Head(payload)) \o Escapes(Tail(payload))
<1> DEFINE Q == Seq(Byte)
           escaped == [i \in DOMAIN payload |-> Escape(payload[i])]
           rest == Tail(payload)
           escapedRest == [i \in DOMAIN rest |-> Escape(rest[i])]
<1>1. /\ Len(payload) \in Nat \ {0} /\ DOMAIN payload = 1..Len(payload)
      /\ Head(payload) = payload[1]
      /\ rest \in Seq(Byte) /\ Len(rest) = Len(payload) - 1
      /\ \A i \in 1..Len(rest) : rest[i] = payload[i + 1]
  BY EmptySeq, LenProperties, HeadTailProperties
<1> HIDE DEF rest
<1>2. DOMAIN rest = 1..Len(rest)
  BY <1>1, LenProperties
<1>3. /\ escaped \in Seq(Q) /\ Len(escaped) = Len(payload)
      /\ \A i \in 1..Len(payload) : escaped[i] = Escape(payload[i])
  BY <1>1, EscapedBytes
<1>4. /\ escapedRest \in Seq(Q) /\ Len(escapedRest) = Len(rest)
      /\ \A i \in 1..Len(rest) : escapedRest[i] = Escape(rest[i])
  BY <1>1, <1>2, EscapedBytes
<1> HIDE DEF Q, escaped, escapedRest
<1>5. escaped # <<>>
  BY <1>1, <1>3, EmptySeq
<1>6. /\ Head(escaped) = escaped[1]
      /\ Tail(escaped) \in Seq(Q) /\ Len(Tail(escaped)) = Len(escaped) - 1
      /\ \A i \in 1..Len(Tail(escaped)) : Tail(escaped)[i] = escaped[i + 1]
  BY <1>3, <1>5, HeadTailProperties
<1>7. Tail(escaped) = escapedRest
  <2>1. Len(Tail(escaped)) = Len(escapedRest)
    BY <1>1, <1>3, <1>4, <1>6
  <2>2. ASSUME NEW i \in 1..Len(Tail(escaped)) PROVE Tail(escaped)[i] = escapedRest[i]
    <3>1. i \in 1..Len(rest) /\ i + 1 \in 1..Len(payload)
      BY <1>1, <1>3, <1>6
    <3>2. QED
      BY <1>1, <1>3, <1>4, <1>6, <3>1
  <2>3. QED
    BY <1>4, <1>6, <2>1, <2>2, SeqEqual
<1>8. Head(escaped) = Escape(Head(payload))
  BY <1>1, <1>3, <1>6
<1>9. FlattenSeq(escaped) = Head(escaped) \o FlattenSeq(Tail(escaped))
  BY <1>3, <1>5, FlattenHeadTail DEF Q
<1>10. QED
  BY <1>7, <1>8, <1>9 DEF Escapes, escaped, escapedRest, rest

(* A frame in escaping mode, its delimiters apart.                          *)
LEMMA EscapedFrame ==
  ASSUME NEW payload \in Seq(Byte)
  PROVE  /\ Escapes(payload) \o <<Delimiter>> \in Seq(Byte)
         /\ SerializeEscaped(payload) = <<Delimiter>> \o (Escapes(payload) \o <<Delimiter>>)
         /\ SerializeEscaped(payload) \in Seq(Byte) /\ SerializeEscaped(payload) # <<>>
<1>1. Escapes(payload) \in Seq(Byte)
  BY EscapesType
<1>2. <<Delimiter>> \in Seq(Byte) /\ Delimiter \in Byte
  BY Bytes
<1>3. Escapes(payload) \o <<Delimiter>> \in Seq(Byte)
  BY <1>1, <1>2, ConcatProperties
<1>4. SerializeEscaped(payload) = <<Delimiter>> \o (Escapes(payload) \o <<Delimiter>>)
  BY <1>1, <1>2, ConcatAssociative DEF SerializeEscaped, Escapes
<1>5. QED
  BY <1>2, <1>3, <1>4, HeadTailCons

(* The header of a length-based frame: its length can be read back.         *)
LEMMA LengthFrame ==
  ASSUME NEW payload \in Seq(Byte), Len(payload) < MTU
  PROVE  \E first \in Byte, second \in Byte :
           /\ first \in 128..143
           /\ (first % UpperField) * LowerField + (second % LowerField) = Len(payload)
           /\ SerializeLength(payload) = <<first, second>> \o payload
           /\ SerializeLength(payload) \in Seq(Byte) /\ SerializeLength(payload) # <<>>
<1> DEFINE n == Len(payload)
           u == n \div LowerField
           l == n % LowerField
<1>1. n \in Nat /\ n < UpperField * LowerField
  BY LenProperties DEF MTU
<1> HIDE DEF n
<1>2. u \in Nat /\ l \in 0..(LowerField - 1) /\ u * LowerField + l = n
  <2>1. LowerField \in Nat \ {0}
    BY Fields
  <2>2. QED
    BY <1>1, <2>1, Division
<1>3. u < UpperField
  BY <1>1, Fields, Quotient
<1> HIDE DEF u, l
<1>4. u \in 0..(UpperField - 1) /\ u % UpperField = u /\ (128 + u) % UpperField = u
  <2>1. u \in 0..(UpperField - 1)
    BY <1>2, <1>3, Fields
  <2>2. QED
    BY <1>2, <1>3, <2>1, Fields, SmallModulo, HighBit
<1>5. l % LowerField = l
  BY <1>2, Fields, SmallRemainder
<1>6. 128 + u \in 128..143 /\ 128 + u \in Byte /\ l \in Byte
  BY <1>2, <1>4, Fields, Bytes
<1>7. SerializeLength(payload) = <<128 + u, l>> \o payload
  <2>1. \h80 = 128
    OBVIOUS
  <2>2. QED
    BY <1>4, <2>1 DEF SerializeLength, n, u, l
<1>8. ((128 + u) % UpperField) * LowerField + (l % LowerField) = Len(payload)
  BY <1>2, <1>4, <1>5 DEF n
<1>9. <<128 + u, l>> \in Seq(Byte) /\ <<128 + u, l>> # <<>>
  BY <1>6
<1>10. <<128 + u, l>> \o payload \in Seq(Byte) /\ <<128 + u, l>> \o payload # <<>>
  BY <1>9, HeadTailConcat
<1>11. QED
  BY <1>6, <1>7, <1>8, <1>10

-------------------------------------------------------------------------------
(* Every payload that is sent has the bytes and the size Create asserts.     *)
LEMMA PayloadBytes ==
  ASSUME NEW payload \in Payload, NEW bytes \in {SerializeEscaped(payload), SerializeLength(payload)}
  PROVE  payload \in Seq(Byte) /\ Len(payload) < MTU /\ bytes \in Seq(Byte) /\ bytes # <<>>
<1>1. payload \in Seq(Byte) /\ Len(payload) < MTU
  BY PayloadAssumption
<1>2. QED
  BY <1>1, EscapedFrame, LengthFrame

LEMMA InitFrameInv == Init => FrameInv
<1> SUFFICES ASSUME Init PROVE FrameInv
  OBVIOUS
<1>1. StreamTypes
  <2>1. <<>> \in Seq(Byte) /\ <<>> \in Seq(Payload) /\ Len(<<>>) = 0
    BY EmptySeq
  <2>2. QED
    BY <2>1, BoundAssumption DEF Init, StreamTypes
<1>2. FrameShape(m_eDeserialize, m_Buffer, m_BytesRemaining)
  BY EmptySeq, Fields DEF Init, FrameShape
<1>3. QED
  BY <1>1, <1>2 DEF FrameInv

LEMMA NextFrameInv == FrameInv /\ [Next]_vars => FrameInv'
<1> SUFFICES ASSUME FrameInv, [Next]_vars PROVE FrameInv'
  OBVIOUS
<1>1. StreamTypes /\ FrameShape(m_eDeserialize, m_Buffer, m_BytesRemaining)
  BY DEF FrameInv
<1>2. ASSUME NEW payload \in Payload,
             SendEscaped(payload) \/ SendLength(payload)
      PROVE  FrameInv'
  <2>1. PICK bytes \in {SerializeEscaped(payload), SerializeLength(payload)} : Send(payload, bytes)
    BY <1>2 DEF SendEscaped, SendLength
  <2>2. bytes \in Seq(Byte)
    BY PayloadBytes
  <2>3. stream' \in Seq(Byte)
    BY <1>1, <2>1, <2>2, ConcatProperties DEF Send, StreamTypes
  <2>4. pending' \in Seq(Payload) /\ Len(pending') <= MaxFrames
    <3>1. pending' \in Seq(Payload) /\ Len(pending') = Len(pending) + 1
      BY <1>1, <2>1, AppendProperties DEF Send, StreamTypes
    <3>2. Len(pending) \in Nat /\ Len(pending) < MaxFrames
      BY <1>1, <2>1, LenProperties DEF Send, StreamTypes
    <3>3. QED
      BY <3>1, <3>2, BoundAssumption
  <2>5. QED
    BY <1>1, <2>1, <2>3, <2>4 DEF Send, frameVars, FrameInv, StreamTypes
<1>3. ASSUME NEW byte \in Noise, SendNoise(byte) PROVE FrameInv'
  <2>1. stream' \in Seq(Byte)
    BY <1>1, <1>3, BoundAssumption, AppendProperties DEF SendNoise, StreamTypes
  <2>2. noises' \in 0..MaxNoise
    BY <1>1, <1>3, BoundAssumption DEF SendNoise, StreamTypes
  <2>3. QED
    BY <1>1, <1>3, <2>1, <2>2 DEF SendNoise, frameVars, FrameInv, StreamTypes
<1>4. ASSUME CreateDeserializedFrame PROVE FrameInv'
  <2>1. m_Buffer = <<>> /\ m_BytesRemaining = 0 /\ Len(<<>>) = 0 /\ <<>> \in Seq(Byte)
    BY <1>1, <1>4, EmptySeq DEF CreateDeserializedFrame, FrameShape
  <2>2. m_Buffer' = <<>> /\ UNCHANGED <<stream, pending, noises>>
    BY <1>4, <2>1 DEF CreateDeserializedFrame
  <2>3. \/ m_eType' = "ESCAPED" /\ m_eDeserialize' = "FRAMESTART" /\ m_BytesRemaining' = 1
        \/ m_eType' = "LENGTH" /\ m_eDeserialize' = "HEADER" /\ m_BytesRemaining' = 2
        \/ m_eType' = m_eType /\ m_eDeserialize' = "ERROR" /\ m_BytesRemaining' = 0
    BY <1>4, <2>1 DEF CreateDeserializedFrame
  <2>4. StreamTypes'
    BY <1>1, <2>2, <2>3 DEF StreamTypes
  <2>5. FrameShape(m_eDeserialize, m_Buffer, m_BytesRemaining)'
    BY <2>1, <2>2, <2>3, Fields DEF FrameShape, ReadingState
  <2>6. QED
    BY <2>4, <2>5 DEF FrameInv
<1>5. ASSUME ReadByte PROVE FrameInv'
  <2>1. m_eDeserialize \in ReadingState /\ stream # <<>> /\ m_BytesRemaining >= 1
    BY <1>1, <1>5 DEF ReadByte, FrameShape, ReadingState
  <2>2. Head(stream) \in Byte /\ Tail(stream) \in Seq(Byte)
    BY <1>1, <2>1, HeadTailProperties DEF StreamTypes
  <2>3. StreamTypes'
    BY <1>1, <1>5, <2>2 DEF ReadByte, StreamTypes
  <2>4. FrameShape(m_eDeserialize, m_Buffer, m_BytesRemaining)'
    <3>1. CASE m_BytesRemaining > 1
      <4>1. /\ m_eDeserialize' = m_eDeserialize
            /\ m_Buffer' = Append(m_Buffer, Head(stream))
            /\ m_BytesRemaining' = m_BytesRemaining - 1
        BY <1>5, <3>1 DEF ReadByte, FrameState
      <4>2. m_Buffer' \in Seq(Byte) /\ Len(m_Buffer') = Len(m_Buffer) + 1 /\ Len(m_Buffer) \in Nat
        BY <1>1, <2>2, <4>1, AppendProperties, LenProperties DEF FrameShape
      <4>3. m_eDeserialize \in {"HEADER", "DATA"}
        BY <1>1, <2>1, <3>1 DEF FrameShape, ReadingState
      <4>4. QED
        BY <1>1, <3>1, <4>1, <4>2, <4>3, Fields DEF FrameShape
    <3>2. CASE ~ (m_BytesRemaining > 1)
      <4>1. m_BytesRemaining = 1
        BY <1>1, <2>1, <3>2, Fields DEF FrameShape
      <4> DEFINE next == Deserialize(m_eDeserialize, Append(m_Buffer, Head(stream)))
      <4>2. FrameShape(next.state, next.buffer, next.remaining)
        BY <1>1, <2>1, <2>2, <4>1, DeserializeShape
      <4>3. /\ m_eDeserialize' = next.state
            /\ m_Buffer' = next.buffer
            /\ m_BytesRemaining' = next.remaining
        BY <1>5, <3>2 DEF ReadByte
      <4> HIDE DEF next
      <4>4. QED
        BY <4>2, <4>3 DEF FrameShape
    <3>3. QED
      BY <3>1, <3>2
  <2>5. QED
    BY <2>3, <2>4 DEF FrameInv
<1>6. ASSUME DeliverFrame PROVE FrameInv'
  <2>1. pending' \in Seq(Payload) /\ Len(pending') <= MaxFrames
    <3>1. CASE pending = <<>>
      BY <1>1, <1>6, <3>1 DEF DeliverFrame, StreamTypes
    <3>2. CASE pending # <<>>
      <4>1. pending' = Tail(pending)
        BY <1>6, <3>2 DEF DeliverFrame
      <4>2. Tail(pending) \in Seq(Payload) /\ Len(Tail(pending)) = Len(pending) - 1 /\ Len(pending) \in Nat
        BY <1>1, <3>2, HeadTailProperties, LenProperties DEF StreamTypes
      <4>3. QED
        BY <1>1, <4>1, <4>2, BoundAssumption DEF StreamTypes
    <3>3. QED
      BY <3>1, <3>2
  <2>2. StreamTypes'
    BY <1>1, <1>6, <2>1 DEF DeliverFrame, StreamTypes
  <2>3. FrameShape(m_eDeserialize, m_Buffer, m_BytesRemaining)'
    BY <1>6, EmptySeq, Fields DEF DeliverFrame, FrameShape
  <2>4. QED
    BY <2>2, <2>3 DEF FrameInv
<1>7. ASSUME UNCHANGED vars PROVE FrameInv'
  BY <1>1, <1>7 DEF vars, FrameInv, StreamTypes
<1>8. QED
  BY <1>2, <1>3, <1>4, <1>5, <1>6, <1>7 DEF Next, Broken

LEMMA FrameInvAlways == Spec => []FrameInv
BY InitFrameInv, NextFrameInv, PTL DEF Spec

(* Every variable has its type and no buffer outgrows the MTU, whatever     *)
(* bytes a peer sends.                                                      *)
THEOREM FramingTypeCorrect == Spec => []TypeOK
<1>1. FrameInv => TypeOK
  BY DEF FrameInv, StreamTypes, FrameShape, ReadingState, TypeOK
<1>2. QED
  BY <1>1, FrameInvAlways, PTL

(* A frame that is accepted could have been created on this side, whatever  *)
(* bytes a peer sends.                                                      *)
THEOREM AcceptedFramesFit == Spec => []AcceptedFitsMTU
<1>1. FrameInv => AcceptedFitsMTU
  BY DEF FrameInv, FrameShape, AcceptedFitsMTU
<1>2. QED
  BY <1>1, FrameInvAlways, PTL

-------------------------------------------------------------------------------
(* A part of the stream that holds whole frames, in either format, of these *)
(* payloads in this order.                                                  *)
Formats(payload) == {SerializeEscaped(payload), SerializeLength(payload)}
Carries(bytes, payloads) ==
  \E frames \in Seq(Seq(Byte)) :
    /\ Len(frames) = Len(payloads)
    /\ \A i \in 1..Len(payloads) : frames[i] \in Formats(payloads[i])
    /\ bytes = FlattenSeq(frames)

LEMMA CarriesType ==
  ASSUME NEW bytes, NEW payloads, Carries(bytes, payloads)
  PROVE  bytes \in Seq(Byte)
<1>1. PICK frames \in Seq(Seq(Byte)) : bytes = FlattenSeq(frames)
  BY DEF Carries
<1>2. QED
  BY <1>1, FlattenType

LEMMA CarriesNothing == Carries(<<>>, <<>>)
<1> DEFINE Q == Seq(Byte)
<1>1. <<>> \in Seq(Q) /\ Len(<<>>) = 0
  BY EmptySeq
<1>2. \A i \in 1..Len(<<>>) : <<>>[i] \in Formats(<<>>[i])
  BY <1>1
<1>3. QED
  BY <1>1, <1>2, FlattenEmpty DEF Carries

LEMMA CarriesOneMore ==
  ASSUME NEW payloads \in Seq(Payload), NEW bytes, Carries(bytes, payloads),
         NEW payload \in Payload, NEW frame \in Formats(payload)
  PROVE  Carries(bytes \o frame, Append(payloads, payload))
<1> DEFINE Q == Seq(Byte)
<1>1. PICK frames \in Seq(Q) :
        /\ Len(frames) = Len(payloads)
        /\ \A i \in 1..Len(payloads) : frames[i] \in Formats(payloads[i])
        /\ bytes = FlattenSeq(frames)
  BY DEF Carries
<1>2. frame \in Q
  BY PayloadBytes DEF Formats
<1> DEFINE more == Append(frames, frame)
           morePayloads == Append(payloads, payload)
<1>3. FlattenSeq(more) = bytes \o frame
  BY <1>1, <1>2, FlattenAppend
<1>4. /\ Len(morePayloads) = Len(payloads) + 1 /\ Len(payloads) \in Nat
      /\ \A i \in 1..Len(payloads) : morePayloads[i] = payloads[i]
      /\ morePayloads[Len(payloads) + 1] = payload
  BY AppendProperties, LenProperties
<1> HIDE DEF Q, morePayloads
<1>5. /\ more \in Seq(Q) /\ Len(more) = Len(frames) + 1
      /\ \A i \in 1..Len(frames) : more[i] = frames[i]
      /\ more[Len(frames) + 1] = frame
  BY <1>1, <1>2, AppendProperties
<1> HIDE DEF more
<1>6. ASSUME NEW i \in 1..Len(morePayloads) PROVE more[i] \in Formats(morePayloads[i])
  <2>1. CASE i \in 1..Len(payloads)
    BY <1>1, <1>4, <1>5, <2>1
  <2>2. CASE i = Len(payloads) + 1
    BY <1>1, <1>4, <1>5, <2>2
  <2>3. QED
    BY <1>4, <2>1, <2>2
<1>7. Len(more) = Len(morePayloads)
  BY <1>1, <1>4, <1>5
<1>8. QED
  BY <1>3, <1>5, <1>6, <1>7 DEF Carries, Q, morePayloads

(* The first of these frames and what is behind it.                         *)
LEMMA CarriesFirst ==
  ASSUME NEW payloads \in Seq(Payload), payloads # <<>>, NEW bytes, Carries(bytes, payloads)
  PROVE  \E frame \in Formats(Head(payloads)), later \in Seq(Byte) :
           bytes = frame \o later /\ Carries(later, Tail(payloads))
<1> DEFINE Q == Seq(Byte)
<1>1. PICK frames \in Seq(Q) :
        /\ Len(frames) = Len(payloads)
        /\ \A i \in 1..Len(payloads) : frames[i] \in Formats(payloads[i])
        /\ bytes = FlattenSeq(frames)
  BY DEF Carries
<1> DEFINE rest == Tail(payloads)
           restFrames == Tail(frames)
<1>2. /\ Len(payloads) \in Nat \ {0}
      /\ Head(payloads) = payloads[1]
      /\ rest \in Seq(Payload) /\ Len(rest) = Len(payloads) - 1
      /\ \A i \in 1..Len(rest) : rest[i] = payloads[i + 1]
  BY EmptySeq, LenProperties, HeadTailProperties
<1> HIDE DEF rest, Q
<1>3. frames # <<>>
  BY <1>1, <1>2, EmptySeq
<1>4. /\ Head(frames) = frames[1]
      /\ restFrames \in Seq(Q) /\ Len(restFrames) = Len(frames) - 1
      /\ \A i \in 1..Len(restFrames) : restFrames[i] = frames[i + 1]
  BY <1>1, <1>3, HeadTailProperties
<1>5. FlattenSeq(frames) = Head(frames) \o FlattenSeq(restFrames)
  BY <1>1, <1>3, FlattenHeadTail DEF Q
<1>6. FlattenSeq(restFrames) \in Seq(Byte)
  BY <1>4, FlattenType DEF Q
<1> HIDE DEF restFrames
<1>7. Head(frames) \in Formats(Head(payloads))
  <2>1. 1 \in 1..Len(payloads)
    BY <1>2
  <2>2. QED
    BY <1>1, <1>2, <1>4, <2>1
<1>8. Carries(FlattenSeq(restFrames), rest)
  <2>1. Len(restFrames) = Len(rest)
    BY <1>1, <1>2, <1>4
  <2>2. ASSUME NEW i \in 1..Len(rest) PROVE restFrames[i] \in Formats(rest[i])
    <3>1. i + 1 \in 1..Len(payloads) /\ i \in 1..Len(restFrames)
      BY <1>2, <2>1
    <3>2. QED
      BY <1>1, <1>2, <1>4, <3>1
  <2>3. QED
    BY <1>4, <2>1, <2>2 DEF Carries, Q
<1>9. QED
  BY <1>1, <1>5, <1>6, <1>7, <1>8 DEF rest

LEMMA CarriesEmpty ==
  ASSUME NEW payloads \in Seq(Payload), Carries(<<>>, payloads)
  PROVE  payloads = <<>>
<1>1. ASSUME payloads # <<>> PROVE FALSE
  <2>1. PICK frame \in Formats(Head(payloads)), later \in Seq(Byte) : <<>> = frame \o later
    BY <1>1, CarriesFirst
  <2>2. frame \in Seq(Byte) /\ frame # <<>>
    <3>1. Head(payloads) \in Payload
      BY <1>1, HeadTailProperties
    <3>2. QED
      BY <3>1, PayloadBytes DEF Formats
  <2>3. frame \o later # <<>>
    BY <2>2, HeadTailConcat
  <2>4. QED
    BY <2>1, <2>3
<1>2. QED
  BY <1>1

LEMMA NothingCarries ==
  ASSUME NEW bytes, Carries(bytes, <<>>)
  PROVE  bytes = <<>>
<1>1. PICK frames \in Seq(Seq(Byte)) : Len(frames) = Len(<<>>) /\ bytes = FlattenSeq(frames)
  BY DEF Carries
<1>2. Len(frames) = 0
  BY <1>1, EmptySeq
<1>3. frames = <<>>
  BY <1>2, EmptySeq
<1>4. QED
  BY <1>1, <1>3, FlattenEmpty

-------------------------------------------------------------------------------
(* What is left of a frame with this payload on the stream, in each state   *)
(* of the frame that is being read.                                         *)
Remains(state, buffer, remaining, payload, rest) ==
  /\ rest \in Seq(Byte)
  /\ state \in ReadingState \cup {"FULL"}
  /\ state = "FRAMESTART" => rest = SerializeEscaped(payload)
  /\ state = "UNESCAPED" => \E todo \in Seq(Byte) :
       payload = buffer \o todo /\ rest = Escapes(todo) \o <<Delimiter>>
  /\ state = "ESCAPED" => \E byte \in {125, 126}, todo \in Seq(Byte) :
       /\ payload = Append(buffer, byte) \o todo
       /\ rest = <<byte - 32>> \o (Escapes(todo) \o <<Delimiter>>)
  /\ state = "HEADER" => buffer \o rest = SerializeLength(payload)
  /\ state = "DATA" => payload = buffer \o rest /\ remaining = Len(rest)
  /\ state = "FULL" => payload = buffer /\ rest = <<>>

StreamInv ==
  noises = 0 =>
    \/ m_eDeserialize = "NONE" /\ Carries(stream, pending)
    \/ /\ pending # <<>>
       /\ \E rest \in Seq(Byte), later \in Seq(Byte) :
            /\ stream = rest \o later
            /\ Remains(m_eDeserialize, m_Buffer, m_BytesRemaining, Head(pending), rest)
            /\ Carries(later, Tail(pending))

(* The next byte of an escaped frame.                                       *)
LEMMA ReadUnescaped ==
  ASSUME NEW payload \in Seq(Byte), Len(payload) < MTU, NEW buffer, NEW remaining, NEW rest,
         FrameShape("UNESCAPED", buffer, remaining),
         Remains("UNESCAPED", buffer, remaining, payload, rest)
  PROVE  /\ rest # <<>>
         /\ LET next == Deserialize("UNESCAPED", Append(buffer, Head(rest)))
            IN  Remains(next.state, next.buffer, next.remaining, payload, Tail(rest))
<1>1. PICK todo \in Seq(Byte) : payload = buffer \o todo /\ rest = Escapes(todo) \o <<Delimiter>>
  BY DEF Remains
<1>2. buffer \in Seq(Byte) /\ Len(buffer) \in Nat
  BY LenProperties DEF FrameShape
<1>3. \A byte \in Byte : /\ Last(Append(buffer, byte)) = byte /\ Front(Append(buffer, byte)) = buffer
                         /\ Append(buffer, byte) \in Seq(Byte)
                         /\ Len(Append(buffer, byte)) = Len(buffer) + 1
  BY <1>2, LastFrontAppend, AppendProperties
<1>4. Delimiter \in Byte /\ EscapeCharacter \in Byte /\ Delimiter # EscapeCharacter
  BY Bytes
<1>5. CASE todo = <<>>
  <2>1. rest = <<Delimiter>>
    <3>1. <<Delimiter>> \in Seq(Byte)
      BY <1>4
    <3>2. <<>> \o <<Delimiter>> = <<Delimiter>>
      BY <3>1, ConcatEmptySeq
    <3>3. QED
      BY <1>1, <1>5, <3>2, EscapesEmpty
  <2>2. rest # <<>> /\ Head(rest) = Delimiter /\ Tail(rest) = <<>>
    BY <2>1
  <2>3. payload = buffer
    BY <1>1, <1>2, <1>5, ConcatEmptySeq
  <2>4. Deserialize("UNESCAPED", Append(buffer, Head(rest))) = FrameState("FULL", buffer, 0)
    BY <1>3, <1>4, <2>2 DEF Deserialize, Unescaped
  <2>5. <<>> \in Seq(Byte)
    BY EmptySeq
  <2>6. Remains("FULL", buffer, 0, payload, Tail(rest))
    BY <2>2, <2>3, <2>5 DEF Remains
  <2>7. QED
    BY <2>2, <2>4, <2>6 DEF FrameState
<1>6. CASE todo # <<>>
  <2> DEFINE byte == Head(todo)
             left == Tail(todo)
  <2>1. byte \in Byte /\ left \in Seq(Byte)
    BY <1>6, HeadTailProperties
  <2>2. Escapes(todo) = Escape(byte) \o Escapes(left)
    BY <1>6, EscapesHeadTail
  <2>3. payload = Append(buffer, byte) \o left
    BY <1>1, <1>2, <1>6, MoveHead
  <2> HIDE DEF byte, left
  <2>4. Escapes(left) \in Seq(Byte) /\ <<Delimiter>> \in Seq(Byte) /\ Escape(byte) \in Seq(Byte)
    BY <1>4, <2>1, EscapesType, EscapeType
  <2> DEFINE behind == Escapes(left) \o <<Delimiter>>
  <2>5. behind \in Seq(Byte) /\ rest = Escape(byte) \o behind
    BY <1>1, <2>2, <2>4, ConcatProperties, ConcatAssociative
  <2>6. CASE byte \in {125, 126}
    <3>1. byte - 32 \in Byte /\ Escape(byte) = <<EscapeCharacter, byte - 32>>
      BY <2>1, <2>6, EscapeType
    <3>2. <<byte - 32>> \o behind \in Seq(Byte)
      <4> HIDE DEF behind
      <4>1. QED
        BY <2>5, <3>1, HeadTailCons
    <3> DEFINE coded == byte - 32
               written == <<EscapeCharacter, coded>>
    <3>3. coded \in Byte
      BY <3>1
    <3> HIDE DEF coded
    <3>4. rest # <<>> /\ Head(rest) = EscapeCharacter /\ Tail(rest) = <<coded>> \o behind
      <4>1. written \in Seq(Byte) /\ written # <<>> /\ Head(written) = EscapeCharacter
        BY <1>4, <3>3
      <4>2. Tail(written) = <<coded>>
        BY <1>4, <3>3
      <4>3. rest = written \o behind
        BY <2>5, <3>1 DEF coded
      <4> HIDE DEF written, behind
      <4>4. /\ written \o behind # <<>> /\ Head(written \o behind) = Head(written)
            /\ Tail(written \o behind) = Tail(written) \o behind
        <5>1. behind \in Seq(Byte)
          BY <2>5
        <5>2. QED
          BY <4>1, <5>1, HeadTailConcat
      <4>5. QED
        BY <4>1, <4>2, <4>3, <4>4
    <3>5. Deserialize("UNESCAPED", Append(buffer, Head(rest))) = FrameState("ESCAPED", buffer, 1)
      BY <1>3, <1>4, <3>4 DEF Deserialize, Unescaped
    <3>6. Remains("ESCAPED", buffer, 1, payload, Tail(rest))
      BY <2>1, <2>3, <2>6, <3>2, <3>4 DEF Remains, ReadingState, coded
    <3>7. QED
      BY <3>4, <3>5, <3>6 DEF FrameState
  <2>7. CASE byte \notin {125, 126}
    <3>1. Escape(byte) = <<byte>>
      BY <2>1, <2>7, EscapeType
    <3>2. rest # <<>> /\ Head(rest) = byte /\ Tail(rest) = behind
      <4> HIDE DEF behind
      <4>1. QED
        BY <2>1, <2>5, <3>1, HeadTailCons
    <3>3. Len(Append(buffer, byte)) < MTU
      <4>1. Len(payload) = Len(Append(buffer, byte)) + Len(left) /\ Len(left) \in Nat
        BY <1>3, <2>1, <2>3, ConcatProperties, LenProperties
      <4>2. QED
        BY <1>2, <1>3, <2>1, <4>1, Fields
    <3>4. byte # Delimiter /\ byte # EscapeCharacter
      BY <2>7, Bytes
    <3>5. Deserialize("UNESCAPED", Append(buffer, byte)) = FrameState("UNESCAPED", Append(buffer, byte), 1)
      BY <1>3, <2>1, <3>3, <3>4 DEF Deserialize, Unescaped
    <3>6. Remains("UNESCAPED", Append(buffer, byte), 1, payload, behind)
      BY <2>1, <2>3, <2>5 DEF Remains, ReadingState
    <3> DEFINE next == Deserialize("UNESCAPED", Append(buffer, Head(rest)))
    <3>7. next.state = "UNESCAPED" /\ next.buffer = Append(buffer, byte) /\ next.remaining = 1
      BY <3>2, <3>5 DEF FrameState
    <3> HIDE DEF next, behind
    <3>8. Remains(next.state, next.buffer, next.remaining, payload, Tail(rest))
      BY <3>2, <3>6, <3>7
    <3>9. QED
      BY <3>2, <3>8 DEF next
  <2>8. QED
    BY <2>6, <2>7
<1>7. QED
  BY <1>5, <1>6

LEMMA ReadEscaped ==
  ASSUME NEW payload \in Seq(Byte), Len(payload) < MTU, NEW buffer, NEW remaining, NEW rest,
         FrameShape("ESCAPED", buffer, remaining),
         Remains("ESCAPED", buffer, remaining, payload, rest)
  PROVE  /\ rest # <<>>
         /\ LET next == Deserialize("ESCAPED", Append(buffer, Head(rest)))
            IN  Remains(next.state, next.buffer, next.remaining, payload, Tail(rest))
<1>1. PICK byte \in {125, 126}, todo \in Seq(Byte) :
        /\ payload = Append(buffer, byte) \o todo
        /\ rest = <<byte - 32>> \o (Escapes(todo) \o <<Delimiter>>)
  BY DEF Remains
<1>2. buffer \in Seq(Byte) /\ Len(buffer) \in Nat
  BY LenProperties DEF FrameShape
<1>3. byte \in Byte /\ byte - 32 \in Byte /\ byte - 32 \in {93, 94} /\ (byte - 32) + 32 = byte
  BY <1>1, Bytes
<1> DEFINE behind == Escapes(todo) \o <<Delimiter>>
           coded == byte - 32
<1>4. behind \in Seq(Byte)
  BY EscapedFrame
<1>5. rest = <<coded>> \o behind
  BY <1>1
<1>6. coded \in Byte /\ coded \in {93, 94} /\ coded + 32 = byte
  BY <1>3
<1> HIDE DEF behind, coded
<1>7. rest # <<>> /\ Head(rest) = coded /\ Tail(rest) = behind
  BY <1>4, <1>5, <1>6, HeadTailCons
<1>8. /\ Last(Append(buffer, coded)) = coded /\ Front(Append(buffer, coded)) = buffer
      /\ Len(Append(buffer, coded)) = Len(buffer) + 1
  BY <1>2, <1>6, LastFrontAppend, AppendProperties
<1>9. Append(buffer, byte) \in Seq(Byte) /\ Append(buffer, byte) = buffer \o <<byte>>
      /\ Len(Append(buffer, byte)) = Len(buffer) + 1
  BY <1>2, <1>3, AppendProperties, AppendIsConcat
<1>10. Len(Append(buffer, coded)) < MTU
  <2>1. Len(payload) = Len(Append(buffer, byte)) + Len(todo) /\ Len(todo) \in Nat
    BY <1>1, <1>9, ConcatProperties, LenProperties
  <2>2. QED
    BY <1>2, <1>8, <1>9, <2>1, Fields
<1>11. Deserialize("ESCAPED", Append(buffer, coded)) = FrameState("UNESCAPED", Append(buffer, byte), 1)
  BY <1>6, <1>8, <1>9, <1>10 DEF Deserialize, Escaped
<1>12. Remains("UNESCAPED", Append(buffer, byte), 1, payload, behind)
  BY <1>1, <1>4 DEF Remains, ReadingState, behind
<1> DEFINE next == Deserialize("ESCAPED", Append(buffer, Head(rest)))
<1>13. next.state = "UNESCAPED" /\ next.buffer = Append(buffer, byte) /\ next.remaining = 1
  BY <1>7, <1>11 DEF FrameState
<1> HIDE DEF next
<1>14. Remains(next.state, next.buffer, next.remaining, payload, Tail(rest))
  BY <1>7, <1>12, <1>13
<1>15. QED
  BY <1>7, <1>14 DEF next

LEMMA ReadHeader ==
  ASSUME NEW payload \in Seq(Byte), Len(payload) < MTU, NEW buffer, NEW rest,
         FrameShape("HEADER", buffer, 1),
         Remains("HEADER", buffer, 1, payload, rest)
  PROVE  /\ rest # <<>>
         /\ LET next == Deserialize("HEADER", Append(buffer, Head(rest)))
            IN  Remains(next.state, next.buffer, next.remaining, payload, Tail(rest))
<1>1. PICK first \in Byte, second \in Byte :
        /\ first \in 128..143
        /\ (first % UpperField) * LowerField + (second % LowerField) = Len(payload)
        /\ SerializeLength(payload) = <<first, second>> \o payload
  BY LengthFrame
<1>2. buffer \in Seq(Byte) /\ Len(buffer) = 1
  BY DEF FrameShape
<1>3. rest \in Seq(Byte) /\ buffer \o rest = <<first, second>> \o payload
  BY <1>1 DEF Remains
<1> DEFINE header == <<first, second>>
<1>4. header \in Seq(Byte) /\ Len(header) = 2 /\ header[1] = first /\ header[2] = second
  BY <1>1
<1> HIDE DEF header
<1>5. /\ Len(header \o payload) = 2 + Len(payload) /\ Len(payload) \in Nat
      /\ \A i \in 1..2 + Len(payload) :
           (header \o payload)[i] = IF i <= 2 THEN header[i] ELSE payload[i - 2]
  <2>1. Len(payload) \in Nat
    BY LenProperties
  <2>2. /\ Len(header \o payload) = Len(header) + Len(payload)
        /\ \A i \in 1..Len(header) + Len(payload) :
             (header \o payload)[i] = IF i <= Len(header) THEN header[i] ELSE payload[i - Len(header)]
    BY <1>4, ConcatProperties
  <2>3. QED
    BY <1>4, <2>1, <2>2
<1>6. /\ Len(buffer \o rest) = 1 + Len(rest) /\ Len(rest) \in Nat
      /\ \A i \in 1..1 + Len(rest) :
           (buffer \o rest)[i] = IF i <= 1 THEN buffer[i] ELSE rest[i - 1]
  <2>1. rest \in Seq(Byte) /\ Len(rest) \in Nat
    BY <1>3, LenProperties
  <2>2. /\ Len(buffer \o rest) = Len(buffer) + Len(rest)
        /\ \A i \in 1..Len(buffer) + Len(rest) :
             (buffer \o rest)[i] = IF i <= Len(buffer) THEN buffer[i] ELSE rest[i - Len(buffer)]
    BY <1>2, <2>1, ConcatProperties
  <2>3. QED
    BY <1>2, <2>1, <2>2
<1>7. buffer \o rest = header \o payload
  BY <1>3 DEF header
<1>8. Len(rest) = 1 + Len(payload)
  BY <1>5, <1>6, <1>7
<1>9. rest # <<>>
  BY <1>5, <1>8, EmptySeq
<1>10. /\ Head(rest) \in Byte /\ Head(rest) = rest[1]
       /\ Tail(rest) \in Seq(Byte) /\ Len(Tail(rest)) = Len(rest) - 1
       /\ \A i \in 1..Len(Tail(rest)) : Tail(rest)[i] = rest[i + 1]
  BY <1>3, <1>9, HeadTailProperties
<1>11. buffer[1] = first /\ rest[1] = second
  <2>1. 1 \in 1..2 + Len(payload) /\ 2 \in 1..2 + Len(payload)
    BY <1>5
  <2>2. 1 \in 1..1 + Len(rest) /\ 2 \in 1..1 + Len(rest)
    BY <1>5, <1>8
  <2>3. (buffer \o rest)[1] = buffer[1] /\ (buffer \o rest)[2] = rest[1]
    BY <1>6, <2>2
  <2>4. (header \o payload)[1] = first /\ (header \o payload)[2] = second
    BY <1>4, <1>5, <2>1
  <2>5. QED
    BY <1>7, <2>3, <2>4
<1>12. Tail(rest) = payload
  <2>1. ASSUME NEW i \in 1..Len(Tail(rest)) PROVE Tail(rest)[i] = payload[i]
    <3>1. /\ i + 2 \in 1..2 + Len(payload) /\ ~ (i + 2 <= 2) /\ (i + 2) - 2 = i
          /\ i + 2 \in 1..1 + Len(rest) /\ ~ (i + 2 <= 1) /\ (i + 2) - 1 = i + 1
      BY <1>5, <1>8, <1>10
    <3>2. (header \o payload)[i + 2] = payload[i]
      BY <1>5, <3>1
    <3>3. (buffer \o rest)[i + 2] = rest[i + 1]
      BY <1>6, <3>1
    <3>4. QED
      BY <1>7, <1>10, <3>2, <3>3
  <2>2. Len(Tail(rest)) = Len(payload)
    BY <1>5, <1>8, <1>10
  <2>3. QED
    BY <1>10, <2>1, <2>2, SeqEqual
<1> DEFINE full == Append(buffer, Head(rest))
           next == Deserialize("HEADER", full)
<1>13. full[1] = first /\ full[2] = second
  <2>1. full = Append(buffer, second)
    BY <1>10, <1>11
  <2> HIDE DEF full, next
  <2>2. /\ \A i \in 1..Len(buffer) : Append(buffer, second)[i] = buffer[i]
        /\ Append(buffer, second)[Len(buffer) + 1] = second
    <3> DEFINE Q == Byte
    <3>1. buffer \in Seq(Q) /\ second \in Q
      BY <1>2
    <3> HIDE DEF Q
    <3>2. QED
      BY <3>1, AppendProperties
  <2>3. QED
    BY <1>2, <1>11, <2>1, <2>2
<1> HIDE DEF full
<1>14. ~ (full[1] < \h80)
  BY <1>1, <1>13
<1>15. next = FrameState(IF Len(payload) = 0 THEN "FULL" ELSE "DATA", <<>>, Len(payload))
  BY <1>1, <1>13, <1>14 DEF Deserialize, Header
<1>16. /\ next.state = IF Len(payload) = 0 THEN "FULL" ELSE "DATA"
       /\ next.buffer = <<>> /\ next.remaining = Len(payload)
  BY <1>15 DEF FrameState
<1> HIDE DEF next
<1>17. Remains(next.state, next.buffer, next.remaining, payload, Tail(rest))
  <2>1. CASE Len(payload) = 0
    <3>1. payload = <<>> /\ Tail(rest) = <<>>
      BY <1>12, <2>1, EmptySeq
    <3>2. QED
      BY <1>10, <1>16, <2>1, <3>1 DEF Remains
  <2>2. CASE Len(payload) # 0
    <3>1. <<>> \o payload = payload
      BY ConcatEmptySeq
    <3>2. QED
      BY <1>12, <1>16, <2>2, <3>1 DEF Remains, ReadingState
  <2>3. QED
    BY <2>1, <2>2
<1>18. QED
  BY <1>9, <1>17 DEF full, next

(* A byte that is read takes the frame one step further.                    *)
LEMMA ReadRemains ==
  ASSUME NEW payload \in Seq(Byte), Len(payload) < MTU,
         NEW state \in ReadingState, NEW buffer, NEW remaining, NEW rest,
         FrameShape(state, buffer, remaining), Remains(state, buffer, remaining, payload, rest)
  PROVE  /\ rest # <<>>
         /\ LET full == Append(buffer, Head(rest))
                next == IF remaining > 1 THEN FrameState(state, full, remaining - 1)
                        ELSE Deserialize(state, full)
            IN  Remains(next.state, next.buffer, next.remaining, payload, Tail(rest))
<1> DEFINE full == Append(buffer, Head(rest))
           next == IF remaining > 1 THEN FrameState(state, full, remaining - 1)
                   ELSE Deserialize(state, full)
<1>1. buffer \in Seq(Byte) /\ Len(buffer) \in Nat /\ rest \in Seq(Byte) /\ remaining \in Nat
  BY Fields, LenProperties DEF FrameShape, Remains
<1>2. CASE state = "FRAMESTART"
  <2>1. buffer = <<>> /\ remaining = 1 /\ rest = SerializeEscaped(payload)
    BY <1>2 DEF FrameShape, Remains
  <2> DEFINE behind == Escapes(payload) \o <<Delimiter>>
  <2>2. behind \in Seq(Byte) /\ rest = <<Delimiter>> \o behind
    BY <2>1, EscapedFrame
  <2> HIDE DEF behind
  <2>3. rest # <<>> /\ Head(rest) = Delimiter /\ Tail(rest) = behind
    BY <2>2, Bytes, HeadTailCons
  <2>4. Last(full) = Delimiter /\ Front(full) = <<>>
    <3>1. full = Append(<<>>, Delimiter)
      BY <2>1, <2>3
    <3>2. <<>> \in Seq(Byte) /\ Delimiter \in Byte
      BY EmptySeq, Bytes
    <3>3. QED
      BY <3>1, <3>2, LastFrontAppend
  <2>5. next = FrameState("UNESCAPED", <<>>, 1)
    BY <1>2, <2>1, <2>4 DEF Deserialize, FrameStart
  <2>6. <<>> \o payload = payload
    BY ConcatEmptySeq
  <2>7. Remains("UNESCAPED", <<>>, 1, payload, Tail(rest))
    BY <2>2, <2>3, <2>6 DEF Remains, ReadingState, behind
  <2>8. next.state = "UNESCAPED" /\ next.buffer = <<>> /\ next.remaining = 1
    BY <2>5 DEF FrameState
  <2> HIDE DEF next
  <2>9. Remains(next.state, next.buffer, next.remaining, payload, Tail(rest))
    BY <2>7, <2>8
  <2>10. QED
    BY <2>3, <2>9 DEF next
<1>3. CASE state = "UNESCAPED"
  <2>1. remaining = 1
    BY <1>3 DEF FrameShape
  <2>2. next = Deserialize("UNESCAPED", full)
    BY <1>3, <2>1
  <2>3. QED
    BY <1>3, <2>2, ReadUnescaped
<1>4. CASE state = "ESCAPED"
  <2>1. remaining = 1
    BY <1>4 DEF FrameShape
  <2>2. next = Deserialize("ESCAPED", full)
    BY <1>4, <2>1
  <2>3. QED
    BY <1>4, <2>2, ReadEscaped
<1>5. CASE state = "HEADER"
  <2>1. CASE remaining = 1
    <3>1. next = Deserialize("HEADER", full)
      BY <1>5, <2>1
    <3>2. QED
      BY <1>5, <2>1, <3>1, ReadHeader
  <2>2. CASE remaining = 2
    <3>1. buffer = <<>>
      BY <1>1, <1>5, <2>2, EmptySeq DEF FrameShape
    <3>2. buffer \o rest = SerializeLength(payload)
      BY <1>5 DEF Remains
    <3>3. rest # <<>>
      <4>1. buffer \o rest = rest
        BY <1>1, <3>1, ConcatEmptySeq
      <4>2. QED
        BY <3>2, <4>1, LengthFrame
    <3>4. full \o Tail(rest) = buffer \o rest /\ Tail(rest) \in Seq(Byte)
      BY <1>1, <3>3, MoveHead, HeadTailProperties
    <3>5. next.state = "HEADER" /\ next.buffer = full /\ next.remaining = 1
      BY <1>5, <2>2 DEF FrameState
    <3> HIDE DEF next, full
    <3>6. Remains("HEADER", full, 1, payload, Tail(rest))
      BY <3>2, <3>4 DEF Remains, ReadingState
    <3>7. Remains(next.state, next.buffer, next.remaining, payload, Tail(rest))
      BY <3>5, <3>6
    <3>8. QED
      BY <3>3, <3>7 DEF next, full
  <2>3. QED
    BY <1>5, <2>1, <2>2 DEF FrameShape
<1>6. CASE state = "DATA"
  <2>1. payload = buffer \o rest /\ remaining = Len(rest) /\ remaining >= 1
    BY <1>6 DEF Remains, FrameShape
  <2>2. rest # <<>>
    BY <1>1, <2>1, EmptySeq
  <2>3. /\ full \o Tail(rest) = payload
        /\ full \in Seq(Byte)
        /\ Tail(rest) \in Seq(Byte) /\ Len(Tail(rest)) = remaining - 1
    <3>1. Head(rest) \in Byte /\ Tail(rest) \in Seq(Byte) /\ Len(Tail(rest)) = Len(rest) - 1
      BY <1>1, <2>2, HeadTailProperties
    <3>2. full \o Tail(rest) = payload
      BY <1>1, <2>1, <2>2, MoveHead
    <3>3. full \in Seq(Byte)
      BY <1>1, <3>1, AppendProperties
    <3>4. QED
      BY <2>1, <3>1, <3>2, <3>3
  <2>4. CASE remaining > 1
    <3>1. next.state = "DATA" /\ next.buffer = full /\ next.remaining = remaining - 1
      BY <1>6, <2>4 DEF FrameState
    <3> HIDE DEF next, full
    <3>2. Remains("DATA", full, remaining - 1, payload, Tail(rest))
      BY <2>3 DEF Remains, ReadingState
    <3>3. Remains(next.state, next.buffer, next.remaining, payload, Tail(rest))
      BY <3>1, <3>2
    <3>4. QED
      BY <2>2, <3>3 DEF next, full
  <2>5. CASE remaining = 1
    <3>1. next.state = "FULL" /\ next.buffer = full /\ next.remaining = 0
      BY <1>6, <2>5 DEF Deserialize, FrameState
    <3> HIDE DEF next, full
    <3>2. Tail(rest) = <<>>
      <4>1. Tail(rest) \in Seq(Byte) /\ Len(Tail(rest)) = 0
        BY <2>3, <2>5
      <4>2. QED
        BY <4>1, EmptySeq
    <3>3. full = payload
      BY <2>3, <3>2, ConcatEmptySeq
    <3>4. Remains("FULL", full, 0, payload, Tail(rest))
      BY <2>3, <3>2, <3>3 DEF Remains
    <3>5. Remains(next.state, next.buffer, next.remaining, payload, Tail(rest))
      BY <3>1, <3>4
    <3>6. QED
      BY <2>2, <3>5 DEF next, full
  <2>6. QED
    BY <1>1, <2>1, <2>4, <2>5
<1>7. QED
  BY <1>2, <1>3, <1>4, <1>5, <1>6 DEF ReadingState

-------------------------------------------------------------------------------
(* The first byte of a frame says which class it is of.                     *)
LEMMA FirstByte ==
  ASSUME NEW payload \in Payload, NEW frame \in Formats(payload)
  PROVE  /\ frame \in Seq(Byte) /\ frame # <<>>
         /\ \/ frame = SerializeEscaped(payload) /\ Head(frame) = Delimiter
            \/ frame = SerializeLength(payload) /\ Head(frame) \in 128..143
<1>1. payload \in Seq(Byte) /\ Len(payload) < MTU /\ frame \in Seq(Byte) /\ frame # <<>>
  BY PayloadBytes DEF Formats
<1>2. CASE frame = SerializeEscaped(payload)
  <2> DEFINE behind == Escapes(payload) \o <<Delimiter>>
  <2>1. behind \in Seq(Byte) /\ frame = <<Delimiter>> \o behind
    BY <1>1, <1>2, EscapedFrame
  <2> HIDE DEF behind
  <2>2. Head(frame) = Delimiter
    BY <2>1, Bytes, HeadTailCons
  <2>3. QED
    BY <1>1, <1>2, <2>2
<1>3. CASE frame = SerializeLength(payload)
  <2>1. PICK first \in Byte, second \in Byte :
          first \in 128..143 /\ frame = <<first, second>> \o payload
    BY <1>1, <1>3, LengthFrame
  <2> DEFINE header == <<first, second>>
  <2>2. header \in Seq(Byte) /\ header # <<>> /\ Head(header) = first
    OBVIOUS
  <2>3. frame = header \o payload
    BY <2>1
  <2> HIDE DEF header
  <2>4. Head(header \o payload) = Head(header)
    BY <1>1, <2>2, HeadTailConcat
  <2>5. QED
    BY <1>1, <1>3, <2>1, <2>2, <2>3, <2>4
<1>4. QED
  BY <1>2, <1>3 DEF Formats

LEMMA InitStreamInv == Init => StreamInv
BY CarriesNothing DEF Init, StreamInv

LEMMA SendStreamInv ==
  ASSUME FrameInv, StreamInv, NEW payload \in Payload, NEW frame \in Formats(payload), Send(payload, frame)
  PROVE  StreamInv'
<1>1. pending \in Seq(Payload) /\ noises = 0 /\ frame \in Seq(Byte)
  BY PayloadBytes DEF FrameInv, StreamTypes, Send, Formats
<1>2. /\ pending' = Append(pending, payload) /\ stream' = stream \o frame
      /\ UNCHANGED <<m_eDeserialize, m_Buffer, m_BytesRemaining>>
  BY DEF Send, frameVars
<1>3. CASE m_eDeserialize = "NONE" /\ Carries(stream, pending)
  <2>1. Carries(stream', pending')
    BY <1>1, <1>2, <1>3, CarriesOneMore
  <2>2. QED
    BY <1>2, <1>3, <2>1 DEF StreamInv
<1>4. ASSUME pending # <<>>,
             NEW rest \in Seq(Byte), NEW later \in Seq(Byte),
             stream = rest \o later,
             Remains(m_eDeserialize, m_Buffer, m_BytesRemaining, Head(pending), rest),
             Carries(later, Tail(pending))
      PROVE  StreamInv'
  <2>1. /\ pending' # <<>> /\ Head(pending') = Head(pending)
        /\ Tail(pending') = Append(Tail(pending), payload)
    BY <1>1, <1>2, <1>4, AppendProperties, HeadTailAppend
  <2>2. Tail(pending) \in Seq(Payload)
    BY <1>1, <1>4, HeadTailProperties
  <2>3. Carries(later \o frame, Tail(pending'))
    BY <1>4, <2>1, <2>2, CarriesOneMore
  <2>4. later \o frame \in Seq(Byte) /\ stream' = rest \o (later \o frame)
    <3>1. later \o frame \in Seq(Byte)
      BY <1>1, ConcatProperties
    <3>2. (rest \o later) \o frame = rest \o (later \o frame)
      BY <1>1, ConcatAssociative
    <3>3. QED
      BY <1>2, <1>4, <3>1, <3>2
  <2>5. Remains(m_eDeserialize', m_Buffer', m_BytesRemaining', Head(pending'), rest)
    BY <1>2, <1>4, <2>1
  <2>6. QED
    BY <1>4, <2>1, <2>3, <2>4, <2>5 DEF StreamInv
<1>5. QED
  BY <1>1, <1>3, <1>4 DEF StreamInv

LEMMA CreateStreamInv ==
  ASSUME FrameInv, StreamInv, CreateDeserializedFrame
  PROVE  StreamInv'
<1> SUFFICES ASSUME noises = 0 PROVE StreamInv'
  BY DEF StreamInv, CreateDeserializedFrame
<1>1. /\ m_eDeserialize = "NONE" /\ stream # <<>> /\ m_Buffer = <<>>
      /\ UNCHANGED <<stream, pending, noises, m_Buffer>>
      /\ pending \in Seq(Payload)
  BY DEF CreateDeserializedFrame, FrameInv, FrameShape, StreamTypes
<1>2. Carries(stream, pending)
  BY <1>1 DEF StreamInv, Remains, ReadingState
<1>3. pending # <<>>
  BY <1>1, <1>2, NothingCarries
<1>4. PICK frame \in Formats(Head(pending)), later \in Seq(Byte) :
        stream = frame \o later /\ Carries(later, Tail(pending))
  BY <1>1, <1>2, <1>3, CarriesFirst
<1>5. Head(pending) \in Payload
  BY <1>1, <1>3, HeadTailProperties
<1>6. /\ frame \in Seq(Byte) /\ frame # <<>>
      /\ \/ frame = SerializeEscaped(Head(pending)) /\ Head(frame) = Delimiter
         \/ frame = SerializeLength(Head(pending)) /\ Head(frame) \in 128..143
  BY <1>4, <1>5, FirstByte
<1>7. Head(stream) = Head(frame)
  BY <1>4, <1>6, HeadTailConcat
<1>8. Remains(m_eDeserialize', m_Buffer', m_BytesRemaining', Head(pending), frame)
  <2>1. Delimiter \div \h10 = 7 /\ \h80 \div \h10 = 8
    BY Bytes
  <2>2. CASE frame = SerializeEscaped(Head(pending)) /\ Head(frame) = Delimiter
    <3>1. m_eDeserialize' = "FRAMESTART"
      BY <1>7, <2>1, <2>2 DEF CreateDeserializedFrame
    <3>2. QED
      BY <1>6, <2>2, <3>1 DEF Remains, ReadingState
  <2>3. CASE frame = SerializeLength(Head(pending)) /\ Head(frame) \in 128..143
    <3>1. Head(stream) \div \h10 = 8
      BY <1>7, <2>3
    <3>2. m_eDeserialize' = "HEADER"
      BY <2>1, <3>1 DEF CreateDeserializedFrame
    <3>3. <<>> \o frame = frame
      BY <1>6, ConcatEmptySeq
    <3>4. QED
      BY <1>1, <1>6, <2>3, <3>2, <3>3 DEF Remains, ReadingState
  <2>4. QED
    BY <1>6, <2>2, <2>3
<1>9. QED
  BY <1>1, <1>3, <1>4, <1>6, <1>8 DEF StreamInv

LEMMA ReadStreamInv ==
  ASSUME FrameInv, StreamInv, ReadByte
  PROVE  StreamInv'
<1> SUFFICES ASSUME noises = 0 PROVE StreamInv'
  BY DEF StreamInv, ReadByte
<1>1. /\ m_eDeserialize \in ReadingState
      /\ UNCHANGED <<pending, noises>> /\ stream' = Tail(stream)
      /\ pending \in Seq(Payload)
  BY DEF ReadByte, FrameInv, FrameShape, StreamTypes, ReadingState
<1>2. PICK rest \in Seq(Byte), later \in Seq(Byte) :
        /\ pending # <<>>
        /\ stream = rest \o later
        /\ Remains(m_eDeserialize, m_Buffer, m_BytesRemaining, Head(pending), rest)
        /\ Carries(later, Tail(pending))
  BY <1>1 DEF StreamInv, ReadingState
<1>3. Head(pending) \in Seq(Byte) /\ Len(Head(pending)) < MTU
  <2>1. Head(pending) \in Payload
    BY <1>1, <1>2, HeadTailProperties
  <2>2. QED
    BY <2>1, PayloadAssumption
<1> DEFINE full == Append(m_Buffer, Head(rest))
           next == IF m_BytesRemaining > 1 THEN FrameState(m_eDeserialize, full, m_BytesRemaining - 1)
                   ELSE Deserialize(m_eDeserialize, full)
<1>4. rest # <<>> /\ Remains(next.state, next.buffer, next.remaining, Head(pending), Tail(rest))
  BY <1>1, <1>2, <1>3, ReadRemains DEF FrameInv
<1>5. Head(stream) = Head(rest) /\ Tail(stream) = Tail(rest) \o later
  BY <1>2, <1>4, HeadTailConcat
<1>6. m_eDeserialize' = next.state /\ m_Buffer' = next.buffer /\ m_BytesRemaining' = next.remaining
  BY <1>5 DEF ReadByte
<1> HIDE DEF next
<1>7. Tail(rest) \in Seq(Byte)
  BY <1>4, HeadTailProperties
<1>8. Remains(m_eDeserialize', m_Buffer', m_BytesRemaining', Head(pending'), Tail(rest))
  BY <1>1, <1>4, <1>6
<1>9. pending' # <<>> /\ stream' = Tail(rest) \o later /\ Carries(later, Tail(pending'))
  BY <1>1, <1>2, <1>5
<1>10. QED
  BY <1>7, <1>8, <1>9 DEF StreamInv

LEMMA DeliverStreamInv ==
  ASSUME FrameInv, StreamInv, DeliverFrame
  PROVE  StreamInv'
<1> SUFFICES ASSUME noises = 0 PROVE StreamInv'
  BY DEF StreamInv, DeliverFrame
<1>1. m_eDeserialize = "FULL" /\ m_eDeserialize' = "NONE" /\ UNCHANGED <<stream, noises>>
  BY DEF DeliverFrame
<1>2. PICK rest \in Seq(Byte), later \in Seq(Byte) :
        /\ pending # <<>>
        /\ stream = rest \o later
        /\ Remains(m_eDeserialize, m_Buffer, m_BytesRemaining, Head(pending), rest)
        /\ Carries(later, Tail(pending))
  BY <1>1 DEF StreamInv
<1>3. rest = <<>>
  BY <1>1, <1>2 DEF Remains
<1>4. stream = later
  BY <1>2, <1>3, ConcatEmptySeq
<1>5. pending' = Tail(pending)
  BY <1>2 DEF DeliverFrame
<1>6. QED
  BY <1>1, <1>2, <1>4, <1>5 DEF StreamInv

LEMMA NextStreamInv == FrameInv /\ StreamInv /\ [Next]_vars => StreamInv'
<1> SUFFICES ASSUME FrameInv, StreamInv, [Next]_vars PROVE StreamInv'
  OBVIOUS
<1>1. ASSUME NEW payload \in Payload, SendEscaped(payload) \/ SendLength(payload)
      PROVE  StreamInv'
  <2>1. PICK frame \in Formats(payload) : Send(payload, frame)
    BY <1>1 DEF SendEscaped, SendLength, Formats
  <2>2. QED
    BY <2>1, SendStreamInv
<1>2. ASSUME NEW byte \in Noise, SendNoise(byte) PROVE StreamInv'
  <2>1. noises \in Nat /\ noises' = noises + 1
    BY <1>2, BoundAssumption DEF SendNoise, FrameInv, StreamTypes
  <2>2. noises' # 0
    BY <2>1
  <2>3. QED
    BY <2>2 DEF StreamInv
<1>3. ASSUME UNCHANGED vars PROVE StreamInv'
  BY <1>3 DEF vars, StreamInv
<1>4. QED
  BY <1>1, <1>2, <1>3, CreateStreamInv, ReadStreamInv, DeliverStreamInv DEF Next, Broken

(* Every payload of any bytes up to the largest size, sent in either format *)
(* among any number of others, is read back as it was and in its turn, no   *)
(* byte of it is an error, and nothing is left when its bytes are read.     *)
THEOREM FramesRoundTrip == Spec => []RoundTrip
<1>1. FrameInv /\ StreamInv => RoundTrip
  <2> SUFFICES ASSUME FrameInv, StreamInv, noises = 0
               PROVE  /\ m_eDeserialize # "ERROR"
                      /\ m_eDeserialize = "FULL" => pending # <<>> /\ m_Buffer = Head(pending)
                      /\ stream = <<>> /\ m_eDeserialize # "FULL" => pending = <<>>
    BY DEF RoundTrip
  <2>1. pending \in Seq(Payload)
    BY DEF FrameInv, StreamTypes
  <2>2. CASE m_eDeserialize = "NONE" /\ Carries(stream, pending)
    BY <2>1, <2>2, CarriesEmpty
  <2>3. ASSUME pending # <<>>,
               NEW rest \in Seq(Byte), NEW later \in Seq(Byte),
               stream = rest \o later,
               Remains(m_eDeserialize, m_Buffer, m_BytesRemaining, Head(pending), rest)
        PROVE  /\ m_eDeserialize # "ERROR"
               /\ m_eDeserialize = "FULL" => pending # <<>> /\ m_Buffer = Head(pending)
               /\ stream = <<>> /\ m_eDeserialize # "FULL" => pending = <<>>
    <3>1. m_eDeserialize \in ReadingState \cup {"FULL"}
      BY <2>3 DEF Remains
    <3>2. CASE m_eDeserialize = "FULL"
      BY <2>3, <3>2 DEF Remains
    <3>3. CASE m_eDeserialize \in ReadingState
      <4>1. Head(pending) \in Payload
        BY <2>1, <2>3, HeadTailProperties
      <4>2. Head(pending) \in Seq(Byte) /\ Len(Head(pending)) < MTU
        BY <4>1, PayloadAssumption
      <4>3. rest # <<>>
        BY <2>3, <3>3, <4>2, ReadRemains DEF FrameInv
      <4>4. stream # <<>>
        BY <2>3, <4>3, HeadTailConcat
      <4>5. QED
        BY <3>3, <4>4 DEF ReadingState
    <3>4. QED
      BY <3>1, <3>2, <3>3
  <2>4. QED
    BY <2>2, <2>3 DEF StreamInv
<1>2. FrameInv /\ StreamInv /\ [Next]_vars => (FrameInv /\ StreamInv)'
  BY NextFrameInv, NextStreamInv
<1>3. QED
  BY <1>1, <1>2, InitFrameInv, InitStreamInv, PTL DEF Spec

===============================================================================
