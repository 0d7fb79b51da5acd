-------------------------- MODULE LineParser_proofs --------------------------
(***************************************************************************)
(* Proofs about the parser of provider output, for any frames, any bytes,  *)
(* any way of cutting them into chunks and any limits.                     *)
(*                                                                         *)
(* Memory: a line ends the reading or is consumed, and what one line can   *)
(* add is one identity and one session marker at most.                     *)
(*                                                                         *)
(* Meaning: `Account' says of a reading, the lines consumed so far with    *)
(* their meanings, that it leaves exactly what the parser has kept, and    *)
(* none of its lines is fatal.  Whether a line is accepted or fatal        *)
(* depends only on lines before it, so a line more changes the account as  *)
(* it changes the parser.  Where the parser stands in the output (what is  *)
(* consumed, then its buffer, then what the decoder holds back) ties the   *)
(* reading to the text that was delivered.                                 *)
(***************************************************************************)
EXTENDS OutputReading, FiniteSetTheorems, SequenceTheorems, TLAPS

(* Nothing is consumed after an error.                                     *)
NoErrorYet == pc \in {"consuming", "finishing"} => terminalError = "none"

IInv == TypeOK /\ NoErrorYet /\ BoundedMemory

Outcome == Succeeded \cup {"unsuccessful", NoResult}

-----------------------------------------------------------------------------
(* What a line means.                                                      *)

LEMMA NormalizedKinds ==
  ASSUME NEW provider, NEW f \in Frame
  PROVE  LET normalized == normalize(provider, f) IN
           /\ normalized.kind \in {"unknown", "invalid", "recognized"}
           /\ normalized.kind = "recognized" => normalized.result \in Result \cup {NoResult}
  <1>1. LET normalized == normalizeCodexFrame(f) IN
          /\ normalized.kind \in {"unknown", "invalid", "recognized"}
          /\ normalized.kind = "recognized" => normalized.result \in Result \cup {NoResult}
    BY DEF normalizeCodexFrame, codexItem, codexCommand, codexMessage, Session, Recognized,
           Invalid, Unknown, NoResult
  <1>2. LET normalized == normalizeClaudeFrame(f) IN
          /\ normalized.kind \in {"unknown", "invalid", "recognized"}
          /\ normalized.kind = "recognized" => normalized.result \in Result \cup {NoResult}
    BY DEF normalizeClaudeFrame, claudeSystem, claudeAssistant, claudeUser, claudeResult,
           Session, Recognized, Invalid, Unknown, NoResult
  <1> QED BY <1>1, <1>2 DEF normalize

LEMMA MappingKinds ==
  ASSUME TypeOK, NEW line \in Seq(Bytes)
  PROVE  LET mapping == mapLine(line) IN
           /\ mapping.kind \in {"unknown", "invalid", "recognized"}
           /\ mapping.kind = "recognized" => mapping.result \in Outcome
  <1>1. CASE ~IsJson(line)
    BY <1>1 DEF mapLine, Invalid
  <1>2. CASE IsJson(line)
    <2> DEFINE f == Frames[stream.provider][line[1]]
               normalized == normalize(stream.provider, f)
    <2>1. f \in Frame
      BY <1>2, ParserAssumption DEF IsJson, TypeOK
    <2>2. /\ normalized.kind \in {"unknown", "invalid", "recognized"}
          /\ normalized.kind = "recognized" => normalized.result \in Result \cup {NoResult}
      BY <2>1, NormalizedKinds
    <2>3. mapLine(line) = buildProviderFrameMapping(normalized)
      BY <1>2 DEF mapLine, mapFrame
    <2> HIDE DEF normalized
    <2> QED BY <2>2, <2>3 DEF buildProviderFrameMapping, Outcome, Result, Succeeded, NoResult
  <1> QED BY <1>1, <1>2

-----------------------------------------------------------------------------
(* What a line adds.                                                       *)

(* The identities and the results, and how an error shows.                 *)
Kept ==
  /\ IsFiniteSet(eventIds) /\ IsFiniteSet(sessionMarkers)
  /\ Cardinality(eventIds) <= MAX_PROVIDER_EVENT_IDENTITIES
  /\ Cardinality(sessionMarkers) <= MAX_PROVIDER_EVENT_IDENTITIES
  /\ invalid \in Nat /\ consecutive \in Nat /\ unknown \in Nat
  /\ finalResult \in Outcome
  /\ terminalError \in {"none", "ADAPTER_PROTOCOL_ERROR", "OUTPUT_SCHEMA_INVALID"}

LEMMA OneMore ==
  ASSUME NEW S, IsFiniteSet(S), NEW x, NEW y, NEW max \in Nat, Cardinality(S) <= max,
         x # y => Cardinality(S) < max
  PROVE  /\ IsFiniteSet(S \cup ({x} \ {y}))
         /\ Cardinality(S \cup ({x} \ {y})) <= max
  <1>1. CASE x = y
    <2>1. S \cup ({x} \ {y}) = S
      BY <1>1
    <2> QED BY <2>1
  <1>2. CASE x # y
    <2>1. S \cup ({x} \ {y}) = S \cup {x}
      BY <1>2
    <2>2. /\ IsFiniteSet(S \cup {x})
          /\ Cardinality(S \cup {x}) = Cardinality(S) \/ Cardinality(S \cup {x}) = Cardinality(S) + 1
      BY FS_AddElement
    <2>3. Cardinality(S) \in Nat
      BY FS_CardinalityType
    <2>4. Cardinality(S \cup {x}) <= max
      BY <1>2, <2>2, <2>3
    <2> QED BY <2>1, <2>2, <2>4
  <1> QED BY <1>1, <1>2

LEMMA RecognizedKept ==
  ASSUME Kept, NEW mapping, mapping.result \in Outcome, recognizedFrame(mapping)
  PROVE  Kept'
  <1>1. consecutive' = 0 /\ UNCHANGED <<invalid, unknown>>
    BY DEF recognizedFrame
  <1>2. /\ Cardinality(eventIds) \in Nat /\ Cardinality(sessionMarkers) \in Nat
        /\ MAX_PROVIDER_EVENT_IDENTITIES \in Nat
    BY FS_CardinalityType, ParserAssumption DEF Kept
  <1>3. CASE UNCHANGED <<eventIds, sessionMarkers, terminalError, finalResult>>
    BY <1>1, <1>3 DEF Kept
  <1>4. CASE /\ terminalError' = "ADAPTER_PROTOCOL_ERROR"
             /\ UNCHANGED <<eventIds, sessionMarkers, finalResult>>
    BY <1>1, <1>4 DEF Kept
  <1>5. CASE ~TooMany(mapping) /\ SecondResult(mapping)
    <2>1. mapping.identity # NoIdentityYet =>
            Cardinality(eventIds) < MAX_PROVIDER_EVENT_IDENTITIES
      BY <1>2, <1>5 DEF TooMany
    <2>2. /\ IsFiniteSet(eventIds') /\ Cardinality(eventIds') <= MAX_PROVIDER_EVENT_IDENTITIES
      BY <1>2, <1>5, <2>1, OneMore DEF Kept, SecondResult
    <2> QED BY <1>1, <1>5, <2>2 DEF Kept, SecondResult
  <1>6. CASE /\ ~TooMany(mapping) /\ acceptIdentity(mapping)
             /\ finalResult' = IF mapping.result # NoResult THEN mapping.result ELSE finalResult
    <2>1. /\ mapping.identity # NoIdentityYet =>
               Cardinality(eventIds) < MAX_PROVIDER_EVENT_IDENTITIES
          /\ mapping.session # <<>> =>
               Cardinality(sessionMarkers) < MAX_PROVIDER_EVENT_IDENTITIES
      BY <1>2, <1>6 DEF TooMany
    <2>2. /\ IsFiniteSet(eventIds') /\ Cardinality(eventIds') <= MAX_PROVIDER_EVENT_IDENTITIES
      BY <1>2, <1>6, <2>1, OneMore DEF Kept, acceptIdentity
    <2>3. /\ IsFiniteSet(sessionMarkers')
          /\ Cardinality(sessionMarkers') <= MAX_PROVIDER_EVENT_IDENTITIES
      BY <1>2, <1>6, <2>1, OneMore DEF Kept, acceptIdentity
    <2> QED BY <1>1, <1>6, <2>2, <2>3 DEF Kept, acceptIdentity
  <1> QED BY <1>3, <1>4, <1>5, <1>6 DEF recognizedFrame

LEMMA LineKept ==
  ASSUME TypeOK, Kept, NEW line \in Seq(Bytes), consumeLine(line)
  PROVE  Kept'
  <1>1. CASE failProtocol
    BY <1>1 DEF failProtocol, Kept
  <1>2. CASE Keep
    BY <1>2 DEF Keep, Kept
  <1>3. CASE unknownFrame
    BY <1>3 DEF unknownFrame, Kept
  <1>4. ASSUME NEW final, recordInvalid(final)
        PROVE  Kept'
    BY <1>4 DEF recordInvalid, Kept
  <1>5. CASE recognizedFrame(mapLine(line)) /\ mapLine(line).kind = "recognized"
    BY <1>5, MappingKinds, RecognizedKept
  <1>6. mapLine(line).kind \in {"unknown", "invalid", "recognized"}
    BY MappingKinds
  <1> QED BY <1>1, <1>2, <1>3, <1>4, <1>5, <1>6 DEF consumeLine

-----------------------------------------------------------------------------
(* The steps of the parser.                                                *)

LEMMA Initially == Init => IInv
  <1> SUFFICES ASSUME Init PROVE IInv
    OBVIOUS
  <1>1. IsFiniteSet({}) /\ Cardinality({}) = 0
    BY FS_EmptySet
  <1>2. TypeOK
    BY <1>1, ParserAssumption DEF Init, TypeOK
  <1>3. BoundedMemory
    BY <1>1, ParserAssumption DEF Init, BoundedMemory
  <1> QED BY <1>2, <1>3 DEF Init, IInv, NoErrorYet

LEMMA KeptOf ==
  ASSUME IInv
  PROVE  Kept
  BY DEF IInv, TypeOK, BoundedMemory, Kept, Outcome

(* What the decoder withholds, and what stands for it in the end.          *)
LEMMA HeldIsText ==
  ASSUME NEW h \in {<<>>, <<"K1">>}
  PROVE  h \in Seq(Bytes) /\ Len(h) \in Nat /\ Len(h) <= 1
  <1>1. CASE h = <<>>
    <2>1. h \in Seq(Bytes) /\ Len(h) = 0
      BY <1>1
    <2> QED BY <2>1
  <1>2. CASE h = <<"K1">>
    <2>1. h \in Seq(Bytes) /\ Len(h) = 1
      BY <1>2, ParserAssumption
    <2> QED BY <2>1
  <1> QED BY <1>1, <1>2

LEMMA ReplacementIsText == Replacement \in Seq(Bytes) /\ <<>> \in Seq(Bytes)
  <1>1. "?" \in Bytes
    BY ParserAssumption
  <1> QED BY <1>1 DEF Replacement

(* A text that fits, or a refusal.                                         *)
LEMMA Received ==
  ASSUME IInv, NEW text \in Seq(Bytes), NEW next \in {"consuming", "finishing"},
         receive(text, next), held' \in {<<>>, <<"K1">>}, at' \in Nat,
         at' <= Len(stream.bytes), pc = "reading",
         UNCHANGED <<stream, eventIds, sessionMarkers, invalid, consecutive, unknown,
                     finalResult>>
  PROVE  IInv'
  <1>1. /\ Len(buffered) \in Nat /\ Len(text) \in Nat
        /\ Len(buffered \o text) = Len(buffered) + Len(text)
        /\ buffered \o text \in Seq(Bytes) /\ MAX_PROVIDER_BUFFER_BYTES \in Nat
    BY ParserAssumption DEF IInv, TypeOK
  <1>2. /\ buffered' \in Seq(Bytes) /\ Len(buffered') <= MAX_PROVIDER_BUFFER_BYTES
        /\ \/ pc' = next /\ terminalError' = "none"
           \/ pc' = "overflowed" /\ terminalError' = "ADAPTER_PROTOCOL_ERROR"
    <2>1. terminalError = "none" /\ buffered \in Seq(Bytes)
          /\ Len(buffered) <= MAX_PROVIDER_BUFFER_BYTES
      BY DEF IInv, TypeOK, BoundedMemory
    <2>2. CASE Len(buffered) + Len(text) > MAX_PROVIDER_BUFFER_BYTES
      BY <2>1, <2>2 DEF receive
    <2>3. CASE ~(Len(buffered) + Len(text) > MAX_PROVIDER_BUFFER_BYTES)
      <3>1. buffered' = buffered \o text /\ pc' = next /\ UNCHANGED terminalError
        BY <2>3 DEF receive
      <3>2. Len(buffered') <= MAX_PROVIDER_BUFFER_BYTES
        BY <1>1, <2>3, <3>1
      <3> QED BY <1>1, <2>1, <3>1, <3>2
    <2> QED BY <2>2, <2>3
  <1>3. TypeOK'
    BY <1>2 DEF IInv, TypeOK
  <1> QED BY <1>2, <1>3 DEF IInv, NoErrorYet, BoundedMemory

LEMMA PushStep ==
  ASSUME IInv, NEW n \in ChunkSizes, Push(n)
  PROVE  IInv'
  <1> DEFINE text == held \o SubSeq(stream.bytes, at + 1, at + n)
             decoded == decode(text)
  <1>1. n \in Nat /\ at \in Nat /\ stream.bytes \in Seq(Bytes) /\ held \in Seq(Bytes)
    BY ParserAssumption, HeldIsText DEF IInv, TypeOK
  <1>2. at + n <= Len(stream.bytes) /\ at' = at + n
    BY DEF Push
  <1>3. SubSeq(stream.bytes, at + 1, at + n) \in Seq(Bytes)
    BY <1>1, <1>2
  <1>4. text \in Seq(Bytes)
    BY <1>1, <1>3
  <1> HIDE DEF text
  <1>5. decoded.text \in Seq(Bytes) /\ decoded.held \in {<<>>, <<"K1">>}
    BY <1>4 DEF decode
  <1>6. held' = decoded.held /\ receive(decoded.text, "consuming")
    BY DEF Push, text
  <1> HIDE DEF decoded
  <1> QED BY <1>1, <1>2, <1>5, <1>6, Received DEF Push

LEMMA FinishStep ==
  ASSUME IInv, Finish
  PROVE  IInv'
  <1> DEFINE text == IF held = <<>> THEN <<>> ELSE Replacement
  <1>1. text \in Seq(Bytes)
    BY ReplacementIsText
  <1>2. receive(text, "finishing") /\ held' = <<>>
    BY DEF Finish
  <1>3. at' \in Nat /\ at' <= Len(stream.bytes)
    BY DEF Finish, IInv, TypeOK
  <1> HIDE DEF text
  <1> QED BY <1>1, <1>2, <1>3, Received DEF Finish

LEMMA Stripped ==
  ASSUME NEW line \in Seq(Bytes)
  PROVE  StripCR(line) \in Seq(Bytes)
  BY DEF StripCR

LEMMA ConsumeStep ==
  ASSUME IInv, ConsumeLine \/ EndFinish
  PROVE  IInv'
  <1>1. /\ buffered \in Seq(Bytes) /\ Len(buffered) \in Nat
        /\ Len(buffered) <= MAX_PROVIDER_BUFFER_BYTES /\ MAX_PROVIDER_BUFFER_BYTES \in Nat
    BY ParserAssumption DEF IInv, TypeOK, BoundedMemory
  <1>2. /\ \E line \in Seq(Bytes) : consumeLine(line)
        /\ buffered' \in Seq(Bytes) /\ Len(buffered') <= MAX_PROVIDER_BUFFER_BYTES
    <2>1. ASSUME NEW newline \in 1 .. Len(buffered),
                 consumeLine(StripCR(SubSeq(buffered, 1, newline - 1))),
                 buffered' = SubSeq(buffered, newline + 1, Len(buffered))
          PROVE  /\ \E line \in Seq(Bytes) : consumeLine(line)
                 /\ buffered' \in Seq(Bytes) /\ Len(buffered') <= MAX_PROVIDER_BUFFER_BYTES
      <3>1. SubSeq(buffered, 1, newline - 1) \in Seq(Bytes)
        BY <1>1
      <3>2. buffered' \in Seq(Bytes) /\ Len(buffered') <= Len(buffered)
        <4>1. \A i \in newline + 1 .. Len(buffered) : buffered[i] \in Bytes
          BY <1>1
        <4> QED BY <1>1, <2>1, <4>1, SubSeqProperties
      <3>3. Len(buffered') \in Nat
        BY <3>2
      <3>4. Len(buffered') <= MAX_PROVIDER_BUFFER_BYTES
        BY <1>1, <3>2, <3>3
      <3>5. StripCR(SubSeq(buffered, 1, newline - 1)) \in Seq(Bytes)
        BY <3>1, Stripped
      <3> QED BY <2>1, <3>2, <3>4, <3>5
    <2>2. CASE EndFinish
      BY <1>1, <2>2, Stripped DEF EndFinish
    <2> QED BY <2>1, <2>2 DEF ConsumeLine
  <1>3. Kept'
    BY <1>2, KeptOf, LineKept DEF IInv
  <1>4. /\ UNCHANGED <<stream, at, held>> /\ pc' \in {"consuming", "finishing", "ended"}
        /\ pc' = "ended" \/ terminalError' = "none"
    BY DEF ConsumeLine, EndFinish
  <1>5. TypeOK'
    BY <1>2, <1>3, <1>4 DEF IInv, TypeOK, Kept, Outcome
  <1> QED BY <1>2, <1>3, <1>4, <1>5 DEF IInv, NoErrorYet, BoundedMemory, Kept

LEMMA RestStep ==
  ASSUME IInv, LineTooLong \/ EndPush \/ UNCHANGED vars
  PROVE  IInv'
  <1>1. CASE LineTooLong
    <2>1. TypeOK'
      BY <1>1 DEF LineTooLong, failProtocol, IInv, TypeOK
    <2> QED BY <1>1, <2>1 DEF LineTooLong, failProtocol, IInv, NoErrorYet, BoundedMemory
  <1>2. CASE EndPush
    <2>1. TypeOK'
      BY <1>2 DEF EndPush, IInv, TypeOK, NoErrorYet
    <2>2. Len(held) <= 1 /\ Len(held) \in Nat /\ Len(buffered) \in Nat
      <3>1. held \in {<<>>, <<"K1">>} /\ buffered \in Seq(Bytes)
        BY DEF IInv, TypeOK
      <3>2. Len(buffered) \in Nat
        BY <3>1
      <3> QED BY <3>1, <3>2, HeldIsText
    <2>3. Len(buffered) + Len(held) <= MAX_PROVIDER_LINE_BYTES + 1
      BY <1>2, <2>2, ParserAssumption DEF EndPush
    <2> QED BY <1>2, <2>1, <2>3 DEF EndPush, IInv, NoErrorYet, BoundedMemory
  <1>3. CASE UNCHANGED vars
    BY <1>3 DEF vars, IInv, TypeOK, NoErrorYet, BoundedMemory
  <1> QED BY <1>1, <1>2, <1>3

(* The parser's memory, in every state.                                    *)
THEOREM ParserInvariant == Spec => []IInv
  <1>1. IInv /\ [Next]_vars => IInv'
    BY PushStep, FinishStep, ConsumeStep, RestStep DEF Next
  <1> QED BY Initially, <1>1, PTL DEF Spec

(* incremental-line-parser.ts: whatever a provider writes and however it is *)
(* cut into chunks, the parser keeps no more than a line between two        *)
(* chunks, no more than its buffer within one, and no more identities than  *)
(* its limit, and it ends with the first error.                             *)
THEOREM ParserIsConsistent == Spec => []ParserConsistent
  <1>1. IInv => ParserConsistent
    BY DEF IInv, ParserConsistent
  <1> QED BY <1>1, ParserInvariant, PTL

-----------------------------------------------------------------------------
(***************************************************************************)
(* The text: what is delivered, and its lines.                             *)
(***************************************************************************)
CutAt(bytes, n) == n > 0 /\ bytes[n] = "K1"
Cut == CutAt(stream.bytes, at)

DecodedAt(bytes, n) ==
  IF CutAt(bytes, n) THEN SubSeq(bytes, 1, n - 1) \o Replacement ELSE SubSeq(bytes, 1, n)

LEMMA DeliveredOf ==
  ASSUME NEW bytes \in Seq(Bytes), NEW read \in Nat, read <= Len(bytes)
  PROVE  LET text == DecodedAt(bytes, read) IN
         /\ text \in Seq(Bytes)
         /\ CutAt(bytes, read) => /\ Len(text) = read + 2
                                  /\ \A i \in 1 .. read - 1 : text[i] = bytes[i]
                                  /\ \A i \in 1 .. 3 : text[read - 1 + i] = "?"
         /\ ~CutAt(bytes, read) => /\ Len(text) = read
                                   /\ \A i \in 1 .. read : text[i] = bytes[i]
  <1>0. PICK text : text = DecodedAt(bytes, read)
    OBVIOUS
  <1> SUFFICES /\ text \in Seq(Bytes)
               /\ CutAt(bytes, read) => /\ Len(text) = read + 2
                                        /\ \A i \in 1 .. read - 1 : text[i] = bytes[i]
                                        /\ \A i \in 1 .. 3 : text[read - 1 + i] = "?"
               /\ ~CutAt(bytes, read) => /\ Len(text) = read
                                         /\ \A i \in 1 .. read : text[i] = bytes[i]
    BY <1>0
  <1>1. bytes \in Seq(Bytes) /\ read \in Nat /\ read <= Len(bytes)
    OBVIOUS
  <1>2. CASE CutAt(bytes, read)
    <2>1. text = SubSeq(bytes, 1, read - 1) \o Replacement
      BY <1>0, <1>2 DEF DecodedAt
    <2>2. /\ SubSeq(bytes, 1, read - 1) \in Seq(Bytes)
          /\ Len(SubSeq(bytes, 1, read - 1)) = read - 1
          /\ \A i \in 1 .. read - 1 : SubSeq(bytes, 1, read - 1)[i] = bytes[i]
      BY <1>1, <1>2 DEF CutAt
    <2>3. /\ Replacement \in Seq(Bytes) /\ Len(Replacement) = 3
          /\ \A i \in 1 .. 3 : Replacement[i] = "?"
      BY ReplacementIsText DEF Replacement
    <2> DEFINE front == SubSeq(bytes, 1, read - 1)
    <2>4. /\ read \in Nat /\ read - 1 \in Nat
          /\ front \in Seq(Bytes) /\ Len(front) = read - 1 /\ text = front \o Replacement
          /\ \A i \in 1 .. read - 1 : front[i] = bytes[i]
      BY <1>1, <1>2, <2>1, <2>2 DEF CutAt
    <2> HIDE DEF Replacement, front
    <2>5. /\ text \in Seq(Bytes) /\ Len(text) = read + 2
          /\ \A i \in 1 .. read - 1 : text[i] = front[i]
          /\ \A i \in 1 .. 3 : text[read - 1 + i] = Replacement[i]
      <3> DEFINE n == read - 1
      <3>1. /\ text \in Seq(Bytes) /\ Len(text) = Len(front) + 3
            /\ \A i \in 1 .. Len(front) + 3 :
                 text[i] = IF i <= Len(front) THEN front[i] ELSE Replacement[i - Len(front)]
        <4> DEFINE whole == front \o Replacement
        <4>1. front \in Seq(Bytes) /\ Replacement \in Seq(Bytes)
          BY <2>3, <2>4
        <4>2. /\ whole \in Seq(Bytes) /\ Len(whole) = Len(front) + Len(Replacement)
              /\ \A i \in 1 .. Len(front) + Len(Replacement) :
                   whole[i] = IF i <= Len(front) THEN front[i] ELSE Replacement[i - Len(front)]
          BY <4>1, ConcatProperties
        <4> HIDE DEF whole
        <4> QED BY <2>3, <2>4, <4>2 DEF whole
      <3>2. n \in Nat /\ Len(front) = n /\ read + 2 = n + 3
        BY <2>4
      <3> HIDE DEF n
      <3>3. /\ \A i \in 1 .. n : text[i] = front[i]
            /\ \A i \in 1 .. 3 : text[n + i] = Replacement[n + i - n]
        <4>1. \A i \in 1 .. 3 : n + i \in 1 .. n + 3 /\ ~(n + i <= n)
          BY <3>2
        <4>2. \A i \in 1 .. n : i \in 1 .. n + 3 /\ i <= n
          BY <3>2
        <4> QED BY <3>1, <3>2, <4>1, <4>2
      <3>4. \A i \in 1 .. 3 : n + i - n = i
        BY <3>2
      <3> QED BY <3>1, <3>2, <3>3, <3>4 DEF n
    <2> QED BY <1>2, <2>3, <2>4, <2>5
  <1>3. CASE ~CutAt(bytes, read)
    <2>1. text = SubSeq(bytes, 1, read)
      BY <1>0, <1>3 DEF DecodedAt
    <2> QED BY <1>1, <1>3, <2>1
  <1> QED BY <1>2, <1>3

LEMMA DeliveredText ==
  ASSUME TypeOK
  PROVE  /\ delivered \in Seq(Bytes)
         /\ Cut => /\ Len(delivered) = at + 2
                   /\ \A i \in 1 .. at - 1 : delivered[i] = stream.bytes[i]
                   /\ \A i \in 1 .. 3 : delivered[at - 1 + i] = "?"
         /\ ~Cut => /\ Len(delivered) = at
                    /\ \A i \in 1 .. at : delivered[i] = stream.bytes[i]
  <1>1. delivered = DecodedAt(stream.bytes, at)
    BY DEF delivered, DecodedAt, CutAt
  <1>2. PICK bytes \in Seq(Bytes), read \in Nat : bytes = stream.bytes /\ read = at
    BY DEF TypeOK
  <1>3. read <= Len(bytes)
    BY <1>2 DEF TypeOK
  <1> QED BY <1>1, <1>2, <1>3, DeliveredOf DEF Cut

\* Equal stretches of two texts.
LEMMA SamePart ==
  ASSUME NEW s \in Seq(Bytes), NEW t \in Seq(Bytes), NEW a \in Nat, NEW b \in Nat, NEW k \in Nat,
         a + k <= Len(s), b + k <= Len(t), \A i \in 1 .. k : s[a + i] = t[b + i]
  PROVE  SubSeq(s, a + 1, a + k) = SubSeq(t, b + 1, b + k)
  <1> DEFINE v == SubSeq(s, a + 1, a + k)
             w == SubSeq(t, b + 1, b + k)
  <1>1. v \in Seq(Bytes) /\ Len(v) = k /\ \A i \in 1 .. k : v[i] = s[a + i]
    OBVIOUS
  <1>2. w \in Seq(Bytes) /\ Len(w) = k /\ \A i \in 1 .. k : w[i] = t[b + i]
    OBVIOUS
  <1> HIDE DEF v, w
  <1>3. \A i \in 1 .. Len(v) : v[i] = w[i]
    BY <1>1, <1>2
  <1> QED BY <1>1, <1>2, <1>3, SeqEqual DEF v, w

\* A line begins after the last newline before its end.
LEMMA LineBegins ==
  ASSUME NEW text \in Seq(Bytes), NEW n \in Nat, NEW e \in Nat,
         n < e, n = 0 \/ text[n] = "\n", \A j \in n + 1 .. e - 1 : text[j] # "\n"
  PROVE  Before(text, e) = n /\ Starts(text, e) # {}
  <1>1. n \in Starts(text, e)
    BY DEF Starts, NewlinesTo
  <1>2. \A i \in Starts(text, e) : i = n
    BY DEF Starts, NewlinesTo
  <1> QED BY <1>1, <1>2 DEF Before

\* A line depends on what is before its end only.
LEMMA LinesAgree ==
  ASSUME NEW text \in Seq(Bytes), NEW other \in Seq(Bytes), NEW n \in Nat,
         n <= Len(text), n <= Len(other), \A i \in 1 .. n : text[i] = other[i],
         \A e \in NewlinesTo(text, n) : Starts(text, e) # {}
  PROVE  /\ NewlinesTo(text, n) = NewlinesTo(other, n)
         /\ \A e \in NewlinesTo(text, n) : /\ LineAt(text, e) = LineAt(other, e)
                                           /\ Starts(other, e) # {}
  <1>1. NewlinesTo(text, n) = NewlinesTo(other, n)
    BY DEF NewlinesTo
  <1>2. ASSUME NEW e \in NewlinesTo(text, n)
        PROVE  LineAt(text, e) = LineAt(other, e) /\ Starts(other, e) # {}
    <2>1. e \in 1 .. n
      BY DEF NewlinesTo
    <2>2. Starts(text, e) = Starts(other, e)
      <3>1. \A j \in 1 .. e - 1 : text[j] = other[j]
        BY <2>1
      <3>2. NewlinesTo(text, e - 1) = NewlinesTo(other, e - 1)
        BY <3>1 DEF NewlinesTo
      <3>3. \A i \in {0} \cup NewlinesTo(text, e - 1) : \A j \in i + 1 .. e - 1 : text[j] = other[j]
        BY <2>1, <3>1 DEF NewlinesTo
      <3> QED BY <3>2, <3>3 DEF Starts
    <2>3. Before(text, e) = Before(other, e)
      BY <2>2 DEF Before
    <2>4. Before(text, e) \in 0 .. e - 1
      <3>1. Before(text, e) \in Starts(text, e)
        BY DEF Before
      <3> QED BY <2>1, <3>1 DEF Starts, NewlinesTo
    <2> DEFINE b == Before(text, e)
    <2>5. SubSeq(text, b + 1, e - 1) = SubSeq(other, b + 1, e - 1)
      <3>1. b \in Nat /\ b <= e - 1 /\ e \in 1 .. n
        BY <2>1, <2>4
      <3> DEFINE k == e - 1 - b
      <3>2. k \in Nat /\ b + k = e - 1 /\ \A i \in 1 .. k : text[b + i] = other[b + i]
        BY <3>1
      <3> HIDE DEF b, k
      <3> QED BY <3>1, <3>2, SamePart
    <2> QED BY <2>2, <2>3, <2>5 DEF LineAt
  <1> QED BY <1>1, <1>2

-----------------------------------------------------------------------------
(***************************************************************************)
(* Readings.  What a line means for the run depends on the lines before    *)
(* it, so a part of a reading, up to some position, judges its lines as    *)
(* the whole does.                                                         *)
(***************************************************************************)
Part(r, q, n) ==
  /\ DOMAIN q \subseteq Nat /\ n \in Nat
  /\ DOMAIN r = { i \in DOMAIN q : i < n }
  /\ \A i \in DOMAIN r : r[i] = q[i]

LEMMA PartAgrees ==
  ASSUME NEW r, NEW q, NEW n, Part(r, q, n), NEW i \in DOMAIN r
  PROVE  /\ Preceding(r, i) = Preceding(q, i)
         /\ Identities(r, Preceding(r, i)) = Identities(q, Preceding(q, i))
         /\ Sessions(r, Preceding(r, i)) = Sessions(q, Preceding(q, i))
         /\ FirstTime(r, i) <=> FirstTime(q, i)
  <1>1. Preceding(r, i) = Preceding(q, i)
    BY DEF Part, Preceding, OfKind
  <1>2. \A j \in Preceding(r, i) : r[j] = q[j]
    BY DEF Part, Preceding, OfKind
  <1>3. Identities(r, Preceding(r, i)) = Identities(q, Preceding(q, i))
    BY <1>1, <1>2 DEF Identities
  <1>4. Sessions(r, Preceding(r, i)) = Sessions(q, Preceding(q, i))
    BY <1>1, <1>2 DEF Sessions
  <1>5. r[i] = q[i] /\ (i \in OfKind(r, "recognized") <=> i \in OfKind(q, "recognized"))
    BY DEF Part, OfKind
  <1> QED BY <1>1, <1>3, <1>4, <1>5 DEF FirstTime

LEMMA PartIsFatal ==
  ASSUME NEW r, NEW q, NEW n, Part(r, q, n), NEW i \in DOMAIN r
  PROVE  Fatal(r, i) <=> Fatal(q, i)
  <1>1. r[i] = q[i]
    BY DEF Part
  <1>2. Row(r, i) = Row(q, i)
    <2>1. \A j \in DOMAIN q : j <= i => j \in DOMAIN r /\ r[j] = q[j]
      BY DEF Part
    <2>2. DOMAIN r \subseteq DOMAIN q /\ \A j \in DOMAIN r : r[j] = q[j]
      BY DEF Part
    <2>3. i \in Nat /\ \A j \in DOMAIN q : j \in Nat
      BY DEF Part
    <2>4. ASSUME NEW j \in OfKind(q, "invalid"), j <= i,
                 NEW k \in OfKind(q, "recognized"), j < k, ~(i < k)
          PROVE  k \in OfKind(r, "recognized")
      BY <2>1, <2>3, <2>4 DEF OfKind
    <2> QED BY <2>1, <2>2, <2>3, <2>4 DEF Row, OfKind
  <1>3. (\E j \in Results(r) : j < i) <=> (\E j \in Results(q) : j < i)
    <2>1. \A j \in DOMAIN r : FirstTime(r, j) <=> FirstTime(q, j)
      BY PartAgrees
    <2>2. \A j \in DOMAIN q : j < i => j \in DOMAIN r
      BY DEF Part
    <2>3. \A j \in DOMAIN r : j \in DOMAIN q /\ r[j] = q[j]
      BY DEF Part
    <2> QED BY <2>1, <2>2, <2>3 DEF Results, Accepted
  <1>4. /\ Identities(r, Preceding(r, i)) = Identities(q, Preceding(q, i))
        /\ Sessions(r, Preceding(r, i)) = Sessions(q, Preceding(q, i))
        /\ FirstTime(r, i) <=> FirstTime(q, i)
    BY PartAgrees
  <1> QED BY <1>1, <1>2, <1>3, <1>4 DEF Fatal

\* A reading and the next line.
Next1(r, q, e) == Part(r, q, e) /\ DOMAIN q = DOMAIN r \cup {e} /\ IsFiniteSet(DOMAIN r)

LEMMA OneMoreLine ==
  ASSUME NEW r, NEW q, NEW e, Next1(r, q, e)
  PROVE  /\ \A kind : OfKind(q, kind) = IF q[e].kind = kind THEN OfKind(r, kind) \cup {e}
                                        ELSE OfKind(r, kind)
         /\ Preceding(q, e) = OfKind(r, "recognized")
         /\ Identities(q, Preceding(q, e)) = Identities(r, OfKind(r, "recognized"))
         /\ Sessions(q, Preceding(q, e)) = Sessions(r, OfKind(r, "recognized"))
         /\ Accepted(q) = IF FirstTime(q, e) THEN Accepted(r) \cup {e} ELSE Accepted(r)
         /\ \A i \in DOMAIN r : i < e /\ r[i] = q[i] /\ (Fatal(q, i) <=> Fatal(r, i))
         /\ e \notin DOMAIN r
  <1>1. /\ DOMAIN q = DOMAIN r \cup {e} /\ e \in Nat /\ e \notin DOMAIN r
        /\ \A i \in DOMAIN r : i < e /\ r[i] = q[i]
    BY DEF Next1, Part
  <1>2. \A kind : OfKind(q, kind) = IF q[e].kind = kind THEN OfKind(r, kind) \cup {e}
                                    ELSE OfKind(r, kind)
    BY <1>1 DEF OfKind
  <1>3. Preceding(q, e) = OfKind(r, "recognized")
    BY <1>1 DEF OfKind, Preceding
  <1>4. \A j \in OfKind(r, "recognized") : r[j] = q[j]
    BY <1>1 DEF OfKind
  <1>5. Identities(q, Preceding(q, e)) = Identities(r, OfKind(r, "recognized"))
    BY <1>3, <1>4 DEF Identities
  <1>6. Sessions(q, Preceding(q, e)) = Sessions(r, OfKind(r, "recognized"))
    BY <1>3, <1>4 DEF Sessions
  <1>7. \A i \in DOMAIN r : FirstTime(r, i) <=> FirstTime(q, i)
    BY PartAgrees DEF Next1
  <1>8. Accepted(q) = IF FirstTime(q, e) THEN Accepted(r) \cup {e} ELSE Accepted(r)
    BY <1>1, <1>7 DEF Accepted
  <1>9. \A i \in DOMAIN r : Fatal(q, i) <=> Fatal(r, i)
    BY PartIsFatal DEF Next1
  <1> QED BY <1>1, <1>2, <1>3, <1>5, <1>6, <1>8, <1>9

-----------------------------------------------------------------------------
(***************************************************************************)
(* What a line can mean.                                                   *)
(***************************************************************************)
EventKinds == {"session", "run.started", "run.output.delta", "run.tool.started",
               "run.tool.completed", "run.usage", "run.retry"}

ItemLists == {<<>>, <<"session">>, <<"output">>, <<"tool.started">>, <<"tool.completed">>,
              <<"usage">>, <<"retry">>}

WellRead(m) ==
  /\ m.kind \in {"too long", "nothing", "unknown", "invalid", "recognized"}
  /\ m.kind = "recognized" =>
       /\ m.items \in ItemLists
       /\ m.session # <<>> => m.identity = NoIdentityYet

\* What consumeLine does for a line of that meaning.
Effect(m) ==
  \/ m.kind = "too long" /\ failProtocol
  \/ m.kind = "nothing" /\ Keep
  \/ m.kind = "unknown" /\ unknownFrame
  \/ m.kind = "invalid" /\ recordInvalid(m.final)
  \/ m.kind = "recognized" /\ recognizedFrame(m)

LEMMA MappingWellRead ==
  ASSUME TypeOK, NEW line \in Seq(Bytes)
  PROVE  WellRead(mapLine(line)) /\ mapLine(line).kind \in {"unknown", "invalid", "recognized"}
  <1>1. ASSUME NEW f
        PROVE  LET m == normalizeCodexFrame(f) IN
                 m.kind = "recognized" => /\ m.items \in ItemLists
                                          /\ m.session # <<>> => m.identity = NoIdentityYet
    BY DEF normalizeCodexFrame, codexItem, codexCommand, codexMessage, Session, Recognized,
           Invalid, Unknown, ItemLists
  <1>2. ASSUME NEW f
        PROVE  LET m == normalizeClaudeFrame(f) IN
                 m.kind = "recognized" => /\ m.items \in ItemLists
                                          /\ m.session # <<>> => m.identity = NoIdentityYet
    BY DEF normalizeClaudeFrame, claudeSystem, claudeAssistant, claudeUser, claudeResult,
           Session, Recognized, Invalid, Unknown, ItemLists
  <1>3. ASSUME NEW provider, NEW f
        PROVE  LET m == normalize(provider, f) IN
                 m.kind = "recognized" => /\ m.items \in ItemLists
                                          /\ m.session # <<>> => m.identity = NoIdentityYet
    BY <1>1, <1>2 DEF normalize
  <1>4. ASSUME NEW provider, NEW f
        PROVE  LET m == mapFrame(provider, f) IN
                 m.kind = "recognized" => /\ m.items \in ItemLists
                                          /\ m.session # <<>> => m.identity = NoIdentityYet
    BY <1>3 DEF mapFrame, buildProviderFrameMapping
  <1>5. LET m == mapLine(line) IN
          m.kind = "recognized" => /\ m.items \in ItemLists
                                   /\ m.session # <<>> => m.identity = NoIdentityYet
    BY <1>4 DEF mapLine, Invalid
  <1> QED BY <1>5, MappingKinds DEF WellRead

LEMMA LineEffect ==
  ASSUME TypeOK, NEW line \in Seq(Bytes)
  PROVE  /\ WellRead(Meaning(line))
         /\ consumeLine(StripCR(line)) => Effect(Meaning(line))
  <1> DEFINE l == StripCR(line)
  <1>1. l \in Seq(Bytes)
    BY Stripped
  <1> HIDE DEF l
  <1>2. WellRead(mapLine(l)) /\ mapLine(l).kind \in {"unknown", "invalid", "recognized"}
    BY <1>1, MappingWellRead
  <1>3. CASE Len(l) > MAX_PROVIDER_LINE_BYTES
    BY <1>3 DEF Meaning, TooLong, consumeLine, Effect, WellRead, l
  <1>4. CASE ~(Len(l) > MAX_PROVIDER_LINE_BYTES) /\ l = <<>>
    BY <1>4 DEF Meaning, Nothing, consumeLine, Effect, WellRead, l
  <1>5. CASE ~(Len(l) > MAX_PROVIDER_LINE_BYTES) /\ l # <<>>
    <2>1. Meaning(line) = mapLine(l)
      BY <1>5 DEF Meaning, l
    <2>2. consumeLine(l) => Effect(mapLine(l))
      BY <1>2, <1>5 DEF consumeLine, Effect
    <2> QED BY <1>2, <2>1, <2>2 DEF l
  <1> QED BY <1>3, <1>4, <1>5

\* The events of a frame are of different kinds.
LEMMA EventsOfItems ==
  ASSUME NEW items \in ItemLists
  PROVE  /\ createEvents(items) \in Seq(EventKinds)
         /\ \A j, k \in DOMAIN createEvents(items) :
              createEvents(items)[j] = createEvents(items)[k] => j = k
  <1> DEFINE made == {<<>>, <<"session", "run.started">>, <<"run.output.delta">>,
                      <<"run.tool.started">>, <<"run.tool.completed">>, <<"run.usage">>,
                      <<"run.retry">>}
  <1>1. createEvents(items) \in made
    BY DEF ItemLists, createEvents, eventsOf
  <1>2. \A list \in made : list \in Seq(EventKinds)
    <2>1. \A S : <<>> \in Seq(S) /\ \A a, b \in S : <<a>> \in Seq(S) /\ <<a, b>> \in Seq(S)
      OBVIOUS
    <2>2. {"session", "run.started", "run.output.delta", "run.tool.started",
           "run.tool.completed", "run.usage", "run.retry"} = EventKinds
      BY DEF EventKinds
    <2> QED BY <2>1, <2>2
  <1>3. \A list \in made : \A j, k \in DOMAIN list : list[j] = list[k] => j = k
    OBVIOUS
  <1> QED BY <1>1, <1>2, <1>3

-----------------------------------------------------------------------------
(***************************************************************************)
(* The account: a parser without an error is in the state that the lines   *)
(* it has consumed, read at once, leave.                                   *)
(***************************************************************************)
Trailing(r) ==
  { i \in OfKind(r, "invalid") : \A k \in OfKind(r, "recognized") : k < i }

\* How often an event was returned, and the accepted lines that show it.
Returned(x)  == { k \in DOMAIN emitted : emitted[k] = x }
Showing(r, x) ==
  { i \in Accepted(r) : \E j \in DOMAIN EventsAt(r, i) : EventsAt(r, i)[j] = x }

Printed(r) ==
  /\ emitted \in Seq(EventKinds)
  /\ IsFiniteSet(Slots(r))
  /\ \A s \in Slots(r) : Place(r, s) \in 1 .. Len(emitted)
  /\ Emits(r)
  /\ \A x \in EventKinds : /\ IsFiniteSet(Returned(x)) /\ IsFiniteSet(Showing(r, x))
                           /\ Cardinality(Returned(x)) = Cardinality(Showing(r, x))

Account(r) ==
  /\ IsFiniteSet(DOMAIN r)
  /\ \A i \in DOMAIN r : ~Fatal(r, i) /\ WellRead(r[i])
  /\ eventIds = Identities(r, OfKind(r, "recognized"))
  /\ sessionMarkers = Sessions(r, OfKind(r, "recognized"))
  /\ Counts(r) /\ Concludes(r) /\ Printed(r)

\* The line at e is the first fatal one.
Breaks(r, q, e) ==
  /\ Fatal(q, e)
  /\ Emits(r) /\ Concludes(r) /\ Counts(q)
  /\ terminalError = IF q[e].kind = "invalid" /\ q[e].final THEN "OUTPUT_SCHEMA_INVALID"
                     ELSE "ADAPTER_PROTOCOL_ERROR"

LEMMA CountsStep ==
  ASSUME NEW r, NEW q, NEW e, Next1(r, q, e), WellRead(q[e]), Counts(r),
         invalid' = IF q[e].kind = "invalid" THEN invalid + 1 ELSE invalid,
         unknown' = IF q[e].kind = "unknown" THEN unknown + 1 ELSE unknown,
         consecutive' = IF q[e].kind = "invalid" THEN consecutive + 1
                        ELSE IF q[e].kind = "recognized" THEN 0 ELSE consecutive
  PROVE  Counts(q)' /\ (q[e].kind = "invalid" => Cardinality(Row(q, e)) = consecutive + 1)
  <1>1. /\ \A kind : OfKind(q, kind) = IF q[e].kind = kind THEN OfKind(r, kind) \cup {e}
                                       ELSE OfKind(r, kind)
        /\ e \notin DOMAIN r /\ \A i \in DOMAIN r : i < e
    BY OneMoreLine
  <1>2. /\ \A kind : IsFiniteSet(OfKind(r, kind)) /\ e \notin OfKind(r, kind)
        /\ IsFiniteSet(Trailing(r)) /\ e \notin Trailing(r)
    <2>1. IsFiniteSet(DOMAIN r)
      BY DEF Next1
    <2>2. \A kind : OfKind(r, kind) \subseteq DOMAIN r
      BY DEF OfKind
    <2>3. Trailing(r) \subseteq DOMAIN r
      BY <2>2 DEF Trailing
    <2> QED BY <1>1, <2>1, <2>2, <2>3, FS_Subset
  <1>3. \A kind : Cardinality(OfKind(q, kind)) = IF q[e].kind = kind
                    THEN Cardinality(OfKind(r, kind)) + 1 ELSE Cardinality(OfKind(r, kind))
    BY <1>1, <1>2, FS_AddElement
  <1>4. DOMAIN q \subseteq Nat /\ DOMAIN r \subseteq DOMAIN q /\ e \in Nat
    BY DEF Next1, Part
  <1>5. Trailing(q) = IF q[e].kind = "invalid" THEN Trailing(r) \cup {e}
                      ELSE IF q[e].kind = "recognized" THEN {} ELSE Trailing(r)
    <2>1. \A k \in OfKind(r, "recognized") : k < e /\ k \in Nat
      BY <1>1, <1>4 DEF OfKind
    <2>2. CASE q[e].kind = "invalid"
      BY <1>1, <2>1, <2>2 DEF Trailing
    <2>3. CASE q[e].kind = "recognized"
      <3>1. e \in OfKind(q, "recognized") /\ OfKind(q, "invalid") = OfKind(r, "invalid")
        BY <1>1, <2>3
      <3>2. \A i \in OfKind(r, "invalid") : i < e /\ i \in Nat
        BY <1>1, <1>4 DEF OfKind
      <3>3. \A i \in OfKind(r, "invalid") : ~(e < i)
        BY <1>4, <3>2
      <3> QED BY <2>3, <3>1, <3>3 DEF Trailing
    <2>4. CASE q[e].kind \notin {"invalid", "recognized"}
      BY <1>1, <2>4 DEF Trailing
    <2> QED BY <2>2, <2>3, <2>4
  <1>6. Cardinality(Trailing(q)) = IF q[e].kind = "invalid" THEN Cardinality(Trailing(r)) + 1
                                   ELSE IF q[e].kind = "recognized" THEN 0
                                   ELSE Cardinality(Trailing(r))
    BY <1>2, <1>5, FS_AddElement, FS_EmptySet
  <1>7. Counts(q)'
    <2>1. /\ invalid = Cardinality(OfKind(r, "invalid"))
          /\ unknown = Cardinality(OfKind(r, "unknown"))
          /\ consecutive = Cardinality(Trailing(r))
      BY DEF Counts, Trailing
    <2>2. /\ invalid' = Cardinality(OfKind(q, "invalid"))
          /\ unknown' = Cardinality(OfKind(q, "unknown"))
          /\ consecutive' = Cardinality(Trailing(q))
      BY <1>3, <1>6, <2>1
    <2> QED BY <2>2 DEF Counts, Trailing
  <1>8. q[e].kind = "invalid" => Row(q, e) = Trailing(q)
    <2>1. \A i \in DOMAIN q : i <= e /\ ~(e < i)
      BY <1>1, <1>4 DEF Next1
    <2>2. ASSUME NEW i \in OfKind(q, "invalid"), NEW k \in OfKind(q, "recognized")
          PROVE  (i < k => e < k) <=> k < i
      <3>1. i \in Nat /\ k \in Nat /\ i # k /\ ~(e < k)
        BY <1>4, <2>1 DEF OfKind
      <3> QED BY <3>1
    <2>3. OfKind(q, "invalid") \subseteq DOMAIN q
      BY DEF OfKind
    <2> QED BY <2>1, <2>2, <2>3 DEF Row, Trailing
  <1> QED BY <1>5, <1>6, <1>7, <1>8 DEF Counts, Trailing
\* A line that is not accepted prints nothing.
LEMMA SilentStep ==
  ASSUME NEW r, NEW q, NEW e, Next1(r, q, e), Accepted(q) = Accepted(r),
         Printed(r), emitted' = emitted
  PROVE  Printed(q)'
  <1>1. \A i \in Accepted(r) : EventsAt(q, i) = EventsAt(r, i)
    BY OneMoreLine DEF Accepted, EventsAt
  <1>2. Slots(q) = Slots(r) /\ \A s \in Slots(r) : s[1] \in Accepted(r)
    BY <1>1 DEF Slots
  <1>3. \A s \in Slots(r) : Place(q, s) = Place(r, s) /\ EventsAt(q, s[1]) = EventsAt(r, s[1])
    BY <1>1, <1>2 DEF Place
  <1>4. \A x : Showing(q, x) = Showing(r, x)
    BY <1>1 DEF Showing
  <1> QED BY <1>2, <1>3, <1>4 DEF Printed, Emits, Returned

\* The slots of one more accepted line come after all others.
LEMMA SlotsStep ==
  ASSUME NEW r, NEW q, NEW e, Next1(r, q, e), Accepted(q) = Accepted(r) \cup {e},
         q[e].items \in ItemLists, IsFiniteSet(Slots(r))
  PROVE  LET n == Len(EventsAt(q, e)) IN
         /\ Slots(q) = Slots(r) \cup ({e} \X (1 .. n))
         /\ IsFiniteSet(Slots(q)) /\ Cardinality(Slots(q)) = Cardinality(Slots(r)) + n
         /\ \A s \in Slots(r) : /\ s[1] \in Accepted(r) /\ EventsAt(q, s[1]) = EventsAt(r, s[1])
                                /\ Place(q, s) = Place(r, s)
         /\ \A k \in 1 .. n : Place(q, <<e, k>>) = Cardinality(Slots(r)) + k
  <1> DEFINE n == Len(EventsAt(q, e))
             added == {e} \X (1 .. n)
  <1>1. /\ EventsAt(q, e) \in Seq(EventKinds) /\ n \in Nat /\ DOMAIN EventsAt(q, e) = 1 .. n
    BY EventsOfItems DEF EventsAt
  <1>2. \A i \in Accepted(r) : i < e /\ EventsAt(q, i) = EventsAt(r, i) /\ i \in Nat
    BY OneMoreLine DEF Accepted, EventsAt, Next1, Part
  <1>3. e \in Nat /\ e \notin Accepted(r)
    BY OneMoreLine DEF Next1, Part, Accepted
  <1> HIDE DEF n
  <1>4. Slots(q) = Slots(r) \cup added
    BY <1>1, <1>2 DEF Slots
  <1>5. \A s \in Slots(r) : s[1] \in Accepted(r)
    BY DEF Slots
  <1>6. \A s \in added : s[1] = e
    OBVIOUS
  <1>7. IsFiniteSet(added) /\ Cardinality(added) = n
    <2>1. IsFiniteSet(1 .. n) /\ Cardinality(1 .. n) = n
      <3>1. 1 \in Nat
        OBVIOUS
      <3>2. IsFiniteSet(1 .. n) /\ Cardinality(1 .. n) = IF 1 > n THEN 0 ELSE n - 1 + 1
        BY <1>1, <3>1, FS_Interval
      <3> QED BY <1>1, <3>2
    <2>2. IsFiniteSet({e}) /\ Cardinality({e}) = 1
      BY FS_Singleton
    <2>3. IsFiniteSet(added) /\ Cardinality(added) = Cardinality({e}) * Cardinality(1 .. n)
      BY <2>1, <2>2, FS_Product
    <2> QED BY <1>1, <2>1, <2>2, <2>3
  <1>8. Slots(r) \cap added = {}
    BY <1>3, <1>5, <1>6
  <1>9. IsFiniteSet(Slots(q)) /\ Cardinality(Slots(q)) = Cardinality(Slots(r)) + n
    <2>1. /\ IsFiniteSet(Slots(r) \cup added)
          /\ Cardinality(Slots(r) \cup added)
               = Cardinality(Slots(r)) + Cardinality(added) - Cardinality(Slots(r) \cap added)
      BY <1>7, FS_Union
    <2>2. Cardinality(Slots(r) \cap added) = 0
      BY <1>8, FS_EmptySet
    <2>3. Cardinality(Slots(r)) \in Nat
      BY FS_CardinalityType
    <2> HIDE DEF added
    <2> QED BY <1>1, <1>4, <1>7, <2>1, <2>2, <2>3
  <1>10. ASSUME NEW s \in Slots(r)
         PROVE  Place(q, s) = Place(r, s)
    <2>1. { x \in Slots(q) : x[1] < s[1] } = { x \in Slots(r) : x[1] < s[1] }
      <3>1. s[1] < e /\ s[1] \in Nat
        BY <1>2, <1>5
      <3>2. \A x \in added : ~(x[1] < s[1])
        BY <1>3, <1>6, <3>1
      <3> HIDE DEF added
      <3> QED BY <1>4, <3>2
    <2> QED BY <2>1 DEF Place
  <1>11. ASSUME NEW k \in 1 .. n
         PROVE  Place(q, <<e, k>>) = Cardinality(Slots(r)) + k
    <2>1. { x \in Slots(q) : x[1] < e } = Slots(r)
      <3>1. \A x \in added : ~(x[1] < e)
        BY <1>3, <1>6
      <3>2. \A x \in Slots(r) : x[1] < e
        BY <1>2, <1>5
      <3> HIDE DEF added
      <3> QED BY <1>4, <3>1, <3>2
    <2> QED BY <2>1 DEF Place
  <1> QED BY <1>2, <1>4, <1>5, <1>9, <1>10, <1>11 DEF n

(* A sequence and more.                                                     *)
LEMMA Joined ==
  ASSUME NEW S, NEW s \in Seq(S), NEW t \in Seq(S)
  PROVE  /\ s \o t \in Seq(S) /\ Len(s \o t) = Len(s) + Len(t)
         /\ \A k \in 1 .. Len(s) : (s \o t)[k] = s[k]
         /\ \A k \in 1 .. Len(t) : (s \o t)[Len(s) + k] = t[k]
  <1> DEFINE whole == s \o t
  <1>1. /\ whole \in Seq(S) /\ Len(whole) = Len(s) + Len(t)
        /\ \A k \in 1 .. Len(s) + Len(t) :
             whole[k] = IF k <= Len(s) THEN s[k] ELSE t[k - Len(s)]
    BY ConcatProperties
  <1>2. Len(s) \in Nat /\ Len(t) \in Nat
    OBVIOUS
  <1> HIDE DEF whole
  <1>3. \A a, b \in Nat : /\ \A k \in 1 .. a : k \in 1 .. a + b /\ k <= a
                          /\ \A k \in 1 .. b : /\ a + k \in 1 .. a + b
                                               /\ ~(a + k <= a) /\ a + k - a = k
    OBVIOUS
  <1>4. /\ \A k \in 1 .. Len(s) : whole[k] = s[k]
        /\ \A k \in 1 .. Len(t) : whole[Len(s) + k] = t[k]
    BY <1>1, <1>2, <1>3, SMTT(30)
  <1> QED BY <1>1, <1>4 DEF whole

At(s, x) == { k \in DOMAIN s : s[k] = x }

LEMMA AtJoined ==
  ASSUME NEW S, NEW s \in Seq(S), NEW t \in Seq(S), NEW x,
         \A j, k \in DOMAIN t : t[j] = t[k] => j = k, IsFiniteSet(At(s, x))
  PROVE  /\ IsFiniteSet(At(s \o t, x))
         /\ Cardinality(At(s \o t, x)) = IF \E j \in DOMAIN t : t[j] = x
                                         THEN Cardinality(At(s, x)) + 1
                                         ELSE Cardinality(At(s, x))
  <1> DEFINE whole == s \o t
  <1>1. /\ whole \in Seq(S) /\ Len(whole) = Len(s) + Len(t)
        /\ \A k \in 1 .. Len(s) : whole[k] = s[k]
        /\ \A k \in 1 .. Len(t) : whole[Len(s) + k] = t[k]
    BY Joined
  <1>2. /\ Len(s) \in Nat /\ Len(t) \in Nat /\ DOMAIN s = 1 .. Len(s) /\ DOMAIN t = 1 .. Len(t)
    OBVIOUS
  <1> HIDE DEF whole
  <1>3. DOMAIN whole = 1 .. Len(s) + Len(t)
    BY <1>1
  <1>4. \A a, b \in Nat : /\ \A k \in 1 .. a : k \in 1 .. a + b
                          /\ \A k \in 1 .. b : a + k \in 1 .. a + b /\ a + k \notin 1 .. a
                          /\ \A k \in 1 .. a + b : k \in 1 .. a \/ (k - a \in 1 .. b /\ k = a + (k - a))
    OBVIOUS
  <1>5. At(whole, x) = At(s, x) \cup { Len(s) + j : j \in At(t, x) }
    <2>1. ASSUME NEW k \in 1 .. Len(s) + Len(t)
          PROVE  k \in 1 .. Len(s) \/ \E j \in 1 .. Len(t) : k = Len(s) + j
      <3>1. PICK a, b \in Nat : a = Len(s) /\ b = Len(t)
        BY <1>2
      <3>2. k \in 1 .. a \/ (k - a \in 1 .. b /\ k = a + (k - a))
        BY <1>4, <2>1, <3>1
      <3> QED BY <3>1, <3>2
    <2>2. /\ \A k \in 1 .. Len(s) : k \in 1 .. Len(s) + Len(t)
          /\ \A k \in 1 .. Len(t) : Len(s) + k \in 1 .. Len(s) + Len(t)
      BY <1>2, <1>4
    <2>3. ASSUME NEW k \in At(whole, x)
          PROVE  k \in At(s, x) \cup { Len(s) + j : j \in At(t, x) }
      <3>1. k \in 1 .. Len(s) + Len(t) /\ whole[k] = x
        BY <1>3 DEF At
      <3>2. CASE k \in 1 .. Len(s)
        BY <1>1, <1>2, <3>1, <3>2 DEF At
      <3>3. ASSUME NEW j \in 1 .. Len(t), k = Len(s) + j
            PROVE  k \in { Len(s) + i : i \in At(t, x) }
        BY <1>1, <1>2, <3>1, <3>3 DEF At
      <3> QED BY <2>1, <3>1, <3>2, <3>3
    <2>4. At(s, x) \cup { Len(s) + j : j \in At(t, x) } \subseteq At(whole, x)
      BY <1>1, <1>2, <1>3, <2>2 DEF At
    <2> QED BY <2>3, <2>4
  <1>6. CASE ~\E j \in DOMAIN t : t[j] = x
    <2>1. At(t, x) = {}
      BY <1>6 DEF At
    <2>2. At(whole, x) = At(s, x)
      BY <1>5, <2>1
    <2> QED BY <1>6, <2>2 DEF whole
  <1>7. ASSUME NEW j \in DOMAIN t, t[j] = x
        PROVE  /\ IsFiniteSet(At(whole, x))
               /\ Cardinality(At(whole, x)) = Cardinality(At(s, x)) + 1
    <2>1. At(t, x) = {j}
      BY <1>7 DEF At
    <2>2. At(whole, x) = At(s, x) \cup {Len(s) + j}
      BY <1>5, <2>1
    <2>3. Len(s) + j \notin At(s, x)
      <3>1. j \in 1 .. Len(t) /\ At(s, x) \subseteq 1 .. Len(s)
        BY <1>2 DEF At
      <3>2. Len(s) + j \notin 1 .. Len(s)
        BY <1>2, <1>4, <3>1
      <3> QED BY <3>1, <3>2
    <2>4. IsFiniteSet(At(s, x) \cup {Len(s) + j})
          /\ Cardinality(At(s, x) \cup {Len(s) + j}) = Cardinality(At(s, x)) + 1
      BY <2>3, FS_AddElement, Zenon
    <2> QED BY <2>2, <2>4
  <1> QED BY <1>6, <1>7 DEF whole

LEMMA PrintStep ==
  ASSUME NEW r, NEW q, NEW e, Next1(r, q, e), Accepted(q) = Accepted(r) \cup {e},
         q[e].items \in ItemLists, Printed(r), emitted' = emitted \o EventsAt(q, e)
  PROVE  Printed(q)'
  <1>1. PICK ev, n, m : ev = EventsAt(q, e) /\ n = Len(ev) /\ m = Len(emitted)
    OBVIOUS
  <1>2. /\ ev \in Seq(EventKinds) /\ n \in Nat /\ DOMAIN ev = 1 .. n
        /\ \A j, k \in DOMAIN ev : ev[j] = ev[k] => j = k
    <2>1. /\ createEvents(q[e].items) \in Seq(EventKinds)
          /\ \A j, k \in DOMAIN createEvents(q[e].items) :
               createEvents(q[e].items)[j] = createEvents(q[e].items)[k] => j = k
      BY EventsOfItems
    <2> QED BY <1>1, <2>1 DEF EventsAt
  <1>3. emitted \in Seq(EventKinds) /\ m \in Nat /\ m = Cardinality(Slots(r))
    BY <1>1 DEF Printed, Emits
  <1>4. /\ Slots(q) = Slots(r) \cup ({e} \X (1 .. n))
        /\ IsFiniteSet(Slots(q)) /\ Cardinality(Slots(q)) = m + n
        /\ \A s \in Slots(r) : /\ s[1] \in Accepted(r) /\ EventsAt(q, s[1]) = EventsAt(r, s[1])
                               /\ Place(q, s) = Place(r, s)
        /\ \A k \in 1 .. n : Place(q, <<e, k>>) = m + k
    BY <1>1, <1>3, SlotsStep DEF Printed
  <1>5. /\ emitted' \in Seq(EventKinds) /\ Len(emitted') = m + n
        /\ \A k \in 1 .. m : emitted'[k] = emitted[k]
        /\ \A k \in 1 .. n : emitted'[m + k] = ev[k]
    <2>1. PICK s \in Seq(EventKinds) : s = emitted
      BY <1>3
    <2>2. /\ s \o ev \in Seq(EventKinds) /\ Len(s \o ev) = Len(s) + Len(ev)
          /\ \A k \in 1 .. Len(s) : (s \o ev)[k] = s[k]
          /\ \A k \in 1 .. Len(ev) : (s \o ev)[Len(s) + k] = ev[k]
      BY <1>2, Joined
    <2>3. emitted' = s \o ev
      BY <1>1, <2>1
    <2> QED BY <1>1, <2>1, <2>2, <2>3
  <1>6. ASSUME NEW s \in Slots(q)
        PROVE  /\ Place(q, s) \in 1 .. m + n
               /\ emitted'[Place(q, s)] = EventsAt(q, s[1])[s[2]]
    <2>1. CASE s \in Slots(r)
      <3>1. Place(r, s) \in 1 .. m /\ emitted[Place(r, s)] = EventsAt(r, s[1])[s[2]]
        BY <1>1, <2>1 DEF Printed, Emits
      <3>2. Place(r, s) \in 1 .. m + n
        BY <1>2, <1>3, <3>1
      <3> QED BY <1>4, <1>5, <2>1, <3>1, <3>2
    <2>2. ASSUME NEW k \in 1 .. n, s = <<e, k>>
          PROVE  /\ Place(q, s) \in 1 .. m + n
                 /\ emitted'[Place(q, s)] = EventsAt(q, s[1])[s[2]]
      <3>1. m + k \in 1 .. m + n
        BY <1>2, <1>3
      <3> QED BY <1>1, <1>4, <1>5, <2>2, <3>1
    <2>3. s \in {e} \X (1 .. n) => \E k \in 1 .. n : s = <<e, k>>
      OBVIOUS
    <2> QED BY <1>4, <2>1, <2>2, <2>3
  <1>7. Emits(q)'
    BY <1>4, <1>5, <1>6 DEF Emits
  <1>8. ASSUME NEW x \in EventKinds
        PROVE  /\ IsFiniteSet(Returned(x)') /\ IsFiniteSet(Showing(q, x))
               /\ Cardinality(Returned(x)') = Cardinality(Showing(q, x))
    <2>1. /\ IsFiniteSet(Returned(x)) /\ IsFiniteSet(Showing(r, x))
          /\ Cardinality(Returned(x)) = Cardinality(Showing(r, x))
      BY DEF Printed
    <2>2. Returned(x) = At(emitted, x) /\ Returned(x)' = At(emitted', x)
      BY DEF Returned, At
    <2>3. /\ IsFiniteSet(At(emitted', x))
          /\ Cardinality(At(emitted', x)) = IF \E j \in DOMAIN ev : ev[j] = x
                                            THEN Cardinality(At(emitted, x)) + 1
                                            ELSE Cardinality(At(emitted, x))
      <3>1. PICK s \in Seq(EventKinds) : s = emitted
        BY <1>3
      <3>2. emitted' = s \o ev /\ IsFiniteSet(At(s, x))
        BY <1>1, <2>1, <2>2, <3>1
      <3>3. /\ IsFiniteSet(At(s \o ev, x))
            /\ Cardinality(At(s \o ev, x)) = IF \E j \in DOMAIN ev : ev[j] = x
                                             THEN Cardinality(At(s, x)) + 1
                                             ELSE Cardinality(At(s, x))
        <4>1. ev \in Seq(EventKinds) /\ \A j, k \in DOMAIN ev : ev[j] = ev[k] => j = k
          BY <1>2
        <4>2. s \in Seq(EventKinds) /\ IsFiniteSet(At(s, x))
          BY <3>1, <3>2
        <4> QED BY ONLY <4>1, <4>2, AtJoined, SMTT(30)
      <3> QED BY <3>1, <3>2, <3>3
    <2>4. /\ \A i \in Accepted(r) : EventsAt(q, i) = EventsAt(r, i)
          /\ e \notin Accepted(r)
      BY OneMoreLine DEF Accepted, EventsAt
    <2>5. Showing(q, x) = Showing(r, x) \cup (IF \E j \in DOMAIN ev : ev[j] = x THEN {e} ELSE {})
      BY <1>1, <2>4 DEF Showing
    <2>6. e \notin Showing(r, x)
      BY <2>4 DEF Showing
    <2>7. CASE ~\E j \in DOMAIN ev : ev[j] = x
      <3>1. Showing(q, x) = Showing(r, x)
        BY <2>5, <2>7
      <3> QED BY <2>1, <2>2, <2>3, <2>7, <3>1
    <2>8. CASE \E j \in DOMAIN ev : ev[j] = x
      <3>1. Showing(q, x) = Showing(r, x) \cup {e}
        BY <2>5, <2>8
      <3>2. IsFiniteSet(Showing(q, x)) /\ Cardinality(Showing(q, x)) = Cardinality(Showing(r, x)) + 1
        BY <2>1, <2>6, <3>1, FS_AddElement
      <3> QED BY <2>1, <2>2, <2>3, <2>8, <3>2
    <2> QED BY <2>7, <2>8
  <1> QED BY <1>4, <1>5, <1>6, <1>7, <1>8 DEF Printed

-----------------------------------------------------------------------------
(* A frame repeats what is remembered, or is seen for the first time.       *)
LEMMA Remembered ==
  ASSUME NEW r, NEW q, NEW e, Next1(r, q, e), Account(r), WellRead(q[e]),
         q[e].kind = "recognized"
  PROVE  /\ FirstTime(q, e) <=> ~Duplicate(q[e])
         /\ Identities(q, OfKind(q, "recognized"))
              = eventIds \cup ({q[e].identity} \ {NoIdentityYet})
         /\ Sessions(q, OfKind(q, "recognized"))
              = sessionMarkers \cup ({q[e].session} \ {<<>>})
         /\ Duplicate(q[e]) => /\ Identities(q, OfKind(q, "recognized")) = eventIds
                               /\ Sessions(q, OfKind(q, "recognized")) = sessionMarkers
         /\ FirstTime(q, e) /\ TooMany(q[e]) => Fatal(q, e)
         /\ FirstTime(q, e) /\ Fatal(q, e) =>
              TooMany(q[e]) \/ (q[e].result # NoResult /\ Results(r) # {})
  <1>1. /\ OfKind(q, "recognized") = OfKind(r, "recognized") \cup {e}
        /\ Preceding(q, e) = OfKind(r, "recognized")
        /\ Identities(q, Preceding(q, e)) = eventIds
        /\ Sessions(q, Preceding(q, e)) = sessionMarkers
        /\ \A i \in DOMAIN r : i < e /\ r[i] = q[i]
        /\ Accepted(q) = IF FirstTime(q, e) THEN Accepted(r) \cup {e} ELSE Accepted(r)
        /\ e \in Nat
    BY OneMoreLine DEF Account, Next1, Part
  <1>2. /\ Identities(q, OfKind(q, "recognized"))
             = Identities(q, Preceding(q, e)) \cup ({q[e].identity} \ {NoIdentityYet})
        /\ Sessions(q, OfKind(q, "recognized"))
             = Sessions(q, Preceding(q, e)) \cup ({q[e].session} \ {<<>>})
    BY <1>1 DEF Identities, Sessions
  <1>3. FirstTime(q, e) <=> ~Duplicate(q[e])
    <2>1. NoIdentityYet \notin eventIds /\ <<>> \notin sessionMarkers
      BY <1>1 DEF Identities, Sessions
    <2>2. e \in OfKind(q, "recognized")
      BY <1>1
    <2> QED BY <1>1, <2>1, <2>2 DEF FirstTime, Duplicate
  <1>4. Duplicate(q[e]) => /\ Identities(q, OfKind(q, "recognized")) = eventIds
                           /\ Sessions(q, OfKind(q, "recognized")) = sessionMarkers
    <2>1. q[e].session # <<>> => q[e].identity = NoIdentityYet
      BY DEF WellRead
    <2> QED BY <1>1, <1>2, <2>1 DEF Duplicate
  <1>5. FirstTime(q, e) /\ TooMany(q[e]) => Fatal(q, e)
    BY <1>1 DEF TooMany, Fatal
  <1>6. FirstTime(q, e) /\ Fatal(q, e) =>
          TooMany(q[e]) \/ (q[e].result # NoResult /\ Results(r) # {})
    <2> SUFFICES ASSUME FirstTime(q, e), Fatal(q, e), ~TooMany(q[e])
                 PROVE  q[e].result # NoResult /\ Results(r) # {}
      OBVIOUS
    <2>1. q[e].result # NoResult /\ \E j \in Results(q) : j < e
      BY <1>1 DEF TooMany, Fatal
    <2>2. PICK j \in Results(q) : j < e
      BY <2>1
    <2>3. j \in Results(r)
      <3>1. j \in Accepted(q) /\ q[j].result # NoResult /\ j # e
        BY <1>1, <2>2 DEF Results
      <3>2. j \in Accepted(r)
        BY <1>1, <3>1
      <3>3. r[j] = q[j]
        BY <1>1, <3>2 DEF Accepted
      <3> QED BY <3>1, <3>2, <3>3 DEF Results
    <2> QED BY <2>1, <2>3
  <1>7. /\ Identities(q, OfKind(q, "recognized"))
             = eventIds \cup ({q[e].identity} \ {NoIdentityYet})
        /\ Sessions(q, OfKind(q, "recognized"))
             = sessionMarkers \cup ({q[e].session} \ {<<>>})
    BY <1>1, <1>2
  <1> QED BY <1>3, <1>4, <1>5, <1>6, <1>7

LEMMA ResultsStep ==
  ASSUME NEW r, NEW q, NEW e, Next1(r, q, e), Concludes(r)
  PROVE  /\ Results(r) # {} <=> finalResult # NoResult
         /\ Accepted(q) = Accepted(r) => Results(q) = Results(r)
         /\ FirstTime(q, e) =>
              Results(q) = IF q[e].result # NoResult THEN Results(r) \cup {e} ELSE Results(r)
         /\ \A i \in Results(r) : r[i] = q[i] /\ i < e
  <1>1. /\ \A i \in DOMAIN r : i < e /\ r[i] = q[i]
        /\ Accepted(q) = IF FirstTime(q, e) THEN Accepted(r) \cup {e} ELSE Accepted(r)
        /\ e \notin DOMAIN r
    BY OneMoreLine
  <1>2. \A i \in Accepted(r) : i \in DOMAIN r
    BY DEF Accepted
  <1>3. Results(r) # {} <=> finalResult # NoResult
    BY DEF Concludes, Results
  <1>4. \A i \in Accepted(r) : r[i] = q[i] /\ i < e
    BY <1>1, <1>2
  <1>5. Accepted(q) = Accepted(r) => Results(q) = Results(r)
    BY <1>4 DEF Results
  <1>6. FirstTime(q, e) =>
          Results(q) = IF q[e].result # NoResult THEN Results(r) \cup {e} ELSE Results(r)
    BY <1>1, <1>4 DEF Results
  <1>7. \A i \in Results(r) : r[i] = q[i] /\ i < e
    BY <1>4 DEF Results
  <1> QED BY <1>3, <1>5, <1>6, <1>7
(* A line that leaves no error, and is not accepted.                        *)
LEMMA PassedOver ==
  ASSUME NEW r, NEW q, NEW e, Next1(r, q, e), Account(r), WellRead(q[e]),
         ~FirstTime(q, e), ~Fatal(q, e), Counts(q)',
         eventIds' = Identities(q, OfKind(q, "recognized")),
         sessionMarkers' = Sessions(q, OfKind(q, "recognized")),
         UNCHANGED <<finalResult, emitted>>
  PROVE  Account(q)'
  <1>1. /\ Accepted(q) = Accepted(r) /\ DOMAIN q = DOMAIN r \cup {e}
        /\ \A i \in DOMAIN r : r[i] = q[i] /\ (Fatal(q, i) <=> Fatal(r, i))
    BY OneMoreLine DEF Next1
  <1>2. IsFiniteSet(DOMAIN q)
    BY <1>1, FS_AddElement DEF Next1
  <1>3. \A i \in DOMAIN q : ~Fatal(q, i) /\ WellRead(q[i])
    BY <1>1 DEF Account
  <1>4. Printed(q)'
    BY <1>1, SilentStep DEF Account
  <1>5. Concludes(q)'
    BY <1>1, ResultsStep DEF Account, Concludes
  <1> QED BY <1>2, <1>3, <1>4, <1>5 DEF Account

LEMMA LineAccounted ==
  ASSUME NEW r, NEW q, NEW e, Next1(r, q, e), Account(r), WellRead(q[e]),
         terminalError = "none", consecutive \in Nat, Effect(q[e])
  PROVE  IF terminalError' = "none" THEN Account(q)' ELSE Breaks(r, q, e)'
  <1> DEFINE m == q[e]
             counted == /\ invalid' = IF m.kind = "invalid" THEN invalid + 1 ELSE invalid
                        /\ unknown' = IF m.kind = "unknown" THEN unknown + 1 ELSE unknown
                        /\ consecutive' = IF m.kind = "invalid" THEN consecutive + 1
                                          ELSE IF m.kind = "recognized" THEN 0 ELSE consecutive
  <1>1. counted
    BY DEF Effect, failProtocol, Keep, unknownFrame, recordInvalid, recognizedFrame
  <1>2. Counts(q)' /\ (m.kind = "invalid" => Cardinality(Row(q, e)) = consecutive + 1)
    BY <1>1, CountsStep DEF Account
  <1>3. \A kind : OfKind(q, kind) = IF m.kind = kind THEN OfKind(r, kind) \cup {e}
                                    ELSE OfKind(r, kind)
    BY OneMoreLine
  <1>4. /\ eventIds = Identities(r, OfKind(r, "recognized"))
        /\ sessionMarkers = Sessions(r, OfKind(r, "recognized"))
        /\ Emits(r) /\ Concludes(r)
        /\ \A i \in OfKind(r, "recognized") : r[i] = q[i]
    BY OneMoreLine DEF Account, Printed, OfKind
  <1>5. CASE m.kind # "recognized"
    <2>1. ~FirstTime(q, e)
      BY <1>5 DEF FirstTime, OfKind
    <2>2. UNCHANGED <<eventIds, sessionMarkers, finalResult, emitted>>
      BY <1>5 DEF Effect, failProtocol, Keep, unknownFrame, recordInvalid
    <2>3. /\ Identities(q, OfKind(q, "recognized")) = eventIds
          /\ Sessions(q, OfKind(q, "recognized")) = sessionMarkers
      BY <1>3, <1>4, <1>5 DEF Identities, Sessions
    <2>4. Emits(r)' /\ Concludes(r)'
      BY <1>4, <2>2 DEF Emits, Concludes
    <2>5. terminalError' = IF Fatal(q, e)
                           THEN IF m.kind = "invalid" /\ m.final THEN "OUTPUT_SCHEMA_INVALID"
                                ELSE "ADAPTER_PROTOCOL_ERROR"
                           ELSE "none"
      <3>1. CASE m.kind = "too long"
        BY <2>1, <3>1 DEF Effect, failProtocol, Fatal
      <3>2. CASE m.kind \in {"nothing", "unknown"}
        BY <2>1, <3>2 DEF Effect, Keep, unknownFrame, Fatal
      <3>3. CASE m.kind = "invalid"
        <4>1. terminalError' = IF m.final THEN "OUTPUT_SCHEMA_INVALID"
                               ELSE IF consecutive + 1 >= MAX_CONSECUTIVE_INVALID
                                    THEN "ADAPTER_PROTOCOL_ERROR" ELSE "none"
          BY <3>3 DEF Effect, recordInvalid
        <4>2. Fatal(q, e) <=> m.final \/ consecutive + 1 >= MAX_CONSECUTIVE_INVALID
          BY <1>2, <2>1, <3>3 DEF Fatal
        <4> QED BY <3>3, <4>1, <4>2
      <3> QED BY <1>5, <3>1, <3>2, <3>3 DEF WellRead
    <2>6. CASE Fatal(q, e)
      BY <1>2, <2>4, <2>5, <2>6 DEF Breaks
    <2>7. CASE ~Fatal(q, e)
      BY <1>2, <2>1, <2>2, <2>3, <2>5, <2>7, PassedOver
    <2> QED BY <2>6, <2>7
  <1>6. CASE m.kind = "recognized"
    <2>1. recognizedFrame(m)
      BY <1>6 DEF Effect
    <2>2. /\ FirstTime(q, e) <=> ~Duplicate(m)
          /\ Identities(q, OfKind(q, "recognized")) = eventIds \cup ({m.identity} \ {NoIdentityYet})
          /\ Sessions(q, OfKind(q, "recognized")) = sessionMarkers \cup ({m.session} \ {<<>>})
          /\ Duplicate(m) => /\ Identities(q, OfKind(q, "recognized")) = eventIds
                             /\ Sessions(q, OfKind(q, "recognized")) = sessionMarkers
          /\ FirstTime(q, e) /\ TooMany(m) => Fatal(q, e)
          /\ FirstTime(q, e) /\ Fatal(q, e) =>
               TooMany(m) \/ (m.result # NoResult /\ Results(r) # {})
      BY <1>6, Remembered
    <2>3. /\ Results(r) # {} <=> finalResult # NoResult
          /\ FirstTime(q, e) =>
               Results(q) = IF m.result # NoResult THEN Results(r) \cup {e} ELSE Results(r)
          /\ \A i \in Results(r) : r[i] = q[i] /\ i < e
      BY <1>4, ResultsStep
    <2>4. CASE Duplicate(m)
      <3>1. UNCHANGED <<eventIds, sessionMarkers, terminalError, finalResult, emitted>>
        BY <2>1, <2>4 DEF recognizedFrame
      <3>2. ~FirstTime(q, e) /\ ~Fatal(q, e)
        BY <1>6, <2>2, <2>4 DEF Fatal
      <3> QED BY <1>2, <2>2, <2>4, <3>1, <3>2, PassedOver
    <2>5. CASE ~Duplicate(m) /\ TooMany(m)
      <3>1. terminalError' = "ADAPTER_PROTOCOL_ERROR" /\ UNCHANGED <<finalResult, emitted>>
        BY <2>1, <2>5 DEF recognizedFrame
      <3>2. Emits(r)' /\ Concludes(r)'
        BY <1>4, <3>1 DEF Emits, Concludes
      <3> QED BY <1>2, <1>6, <2>2, <2>5, <3>1, <3>2 DEF Breaks
    <2>6. CASE ~Duplicate(m) /\ ~TooMany(m) /\ m.result # NoResult /\ finalResult # NoResult
      <3>1. terminalError' = "ADAPTER_PROTOCOL_ERROR" /\ UNCHANGED <<finalResult, emitted>>
        BY <2>1, <2>6 DEF recognizedFrame, SecondResult
      <3>2. Emits(r)' /\ Concludes(r)'
        BY <1>4, <3>1 DEF Emits, Concludes
      <3>3. Fatal(q, e)
        BY <2>2, <2>3, <2>6 DEF Fatal
      <3> QED BY <1>2, <1>6, <3>1, <3>2, <3>3 DEF Breaks
    <2>7. CASE ~Duplicate(m) /\ ~TooMany(m) /\ (m.result = NoResult \/ finalResult = NoResult)
      <3>1. /\ acceptIdentity(m) /\ emitted' = emitted \o EventsAt(q, e)
            /\ finalResult' = IF m.result # NoResult THEN m.result ELSE finalResult
        BY <2>1, <2>7 DEF recognizedFrame, EventsAt
      <3>2. FirstTime(q, e) /\ ~Fatal(q, e)
        BY <2>2, <2>3, <2>7
      <3>3. /\ Accepted(q) = Accepted(r) \cup {e} /\ DOMAIN q = DOMAIN r \cup {e}
            /\ \A i \in DOMAIN r : r[i] = q[i] /\ (Fatal(q, i) <=> Fatal(r, i))
        BY <3>2, OneMoreLine DEF Next1
      <3>4. Printed(q)'
        BY <1>6, <3>1, <3>3, PrintStep DEF Account, WellRead
      <3>5. Concludes(q)'
        <4>1. CASE m.result = NoResult
          <5>1. Results(q) = Results(r) /\ finalResult' = finalResult
            BY <2>3, <3>1, <3>2, <4>1
          <5> QED BY <1>4, <2>3, <5>1 DEF Concludes
        <4>2. CASE m.result # NoResult
          <5>1. Results(r) = {}
            BY <2>3, <2>7, <4>2
          <5>2. Results(q) = {e} /\ finalResult' = m.result
            BY <2>3, <3>1, <3>2, <4>2, <5>1
          <5> QED BY <5>2 DEF Concludes
        <4> QED BY <4>1, <4>2
      <3>6. IsFiniteSet(DOMAIN q)
        BY <3>3, FS_AddElement DEF Next1
      <3>7. \A i \in DOMAIN q : ~Fatal(q, i) /\ WellRead(q[i])
        BY <3>2, <3>3 DEF Account
      <3>8. /\ eventIds' = Identities(q, OfKind(q, "recognized"))
            /\ sessionMarkers' = Sessions(q, OfKind(q, "recognized"))
            /\ terminalError' = "none"
        BY <2>2, <3>1 DEF acceptIdentity
      <3> QED BY <1>2, <3>4, <3>5, <3>6, <3>7, <3>8 DEF Account
    <2> QED BY <2>4, <2>5, <2>6, <2>7
  <1> QED BY <1>5, <1>6

-----------------------------------------------------------------------------
(***************************************************************************)
(* Where the parser is in the text: its lines up to `done` are consumed,   *)
(* and accounted for, and the buffer follows.                              *)
(***************************************************************************)
ReadTo(n) == MeaningsAt(delivered, NewlinesTo(delivered, n))
Below(e)  == MeaningsAt(delivered, { i \in Ends(delivered) : i < e })
UpTo(e)   == MeaningsAt(delivered, { i \in Ends(delivered) : i <= e })

\* The buffer in the bytes, of which the last may be withheld; at the end, in
\* the text.
Follows(done) ==
  IF pc = "finishing"
  THEN /\ held = <<>> /\ Len(delivered) = done + Len(buffered)
       /\ \A i \in 1 .. Len(buffered) : delivered[done + i] = buffered[i]
  ELSE /\ done + Len(buffered) + Len(held) = at
       /\ held = <<"K1">> <=> Cut
       /\ \A i \in 1 .. Len(buffered) : stream.bytes[done + i] = buffered[i]

Done(done) ==
  /\ done = 0 \/ delivered[done] = "\n"
  /\ \A e \in NewlinesTo(delivered, done) : Starts(delivered, e) # {}
  /\ Account(ReadTo(done))

Told ==
  pc \in {"reading", "consuming", "finishing"} =>
    \E done \in Nat : Follows(done) /\ Done(done)

\* The line ending at e is the first fatal one, and the parser has stopped there.
BrokenAt(e) ==
  /\ \A j \in Ends(delivered) : j < e => ~Fatal(Reading, j)
  /\ Breaks(Below(e), UpTo(e), e)

Settled ==
  pc = "ended" =>
    \/ terminalError = "none" /\ Account(Reading)
    \/ terminalError # "none" /\ SplitAtCR
    \/ terminalError # "none" /\ \E e \in Ends(delivered) : BrokenAt(e)

(* An account stands as long as the parser's own state does.                *)
LEMMA AccountStands ==
  ASSUME NEW r, Account(r),
         UNCHANGED <<eventIds, sessionMarkers, invalid, consecutive, unknown,
                     finalResult, emitted>>
  PROVE  Account(r)'
  <1>1. Counts(r)' /\ Concludes(r)'
    BY DEF Account, Counts, Concludes
  <1>2. Printed(r)'
    BY DEF Account, Printed, Emits, Returned
  <1> QED BY <1>1, <1>2 DEF Account

(* The text that follows `done` is the buffer, and perhaps a half character. *)
LEMMA BufferInText ==
  ASSUME TypeOK, NEW done \in Nat, Follows(done), pc \in {"reading", "consuming", "finishing"}
  PROVE  /\ \A i \in 1 .. Len(buffered) : delivered[done + i] = buffered[i]
         /\ held = <<>> => Len(delivered) = done + Len(buffered)
         /\ held # <<>> => /\ Len(delivered) = done + Len(buffered) + 3
                           /\ \A i \in 1 .. 3 : delivered[done + Len(buffered) + i] = "?"
         /\ delivered \in Seq(Bytes) /\ Len(delivered) \in Nat /\ Len(buffered) \in Nat
         /\ done <= Len(delivered)
  <1>1. /\ delivered \in Seq(Bytes) /\ buffered \in Seq(Bytes) /\ at \in Nat
        /\ held \in {<<>>, <<"K1">>}
    BY DeliveredText DEF TypeOK
  <1>2. PICK text, m, d : text = delivered /\ m = Len(buffered) /\ d = Len(delivered)
    OBVIOUS
  <1>3. m \in Nat /\ d \in Nat
    BY <1>1, <1>2
  <1>4. CASE pc = "finishing"
    BY <1>1, <1>2, <1>3, <1>4 DEF Follows
  <1>5. CASE pc # "finishing" /\ held = <<>>
    <2>1. done + m = at /\ ~Cut
      BY <1>2, <1>3, <1>5 DEF Follows
    <2>2. d = at /\ \A i \in 1 .. at : text[i] = stream.bytes[i]
      BY <1>2, <2>1, DeliveredText
    <2>3. \A i \in 1 .. m : done + i \in 1 .. at
      BY <1>3, <2>1
    <2>4. \A i \in 1 .. m : text[done + i] = buffered[i]
      BY <1>2, <1>5, <2>2, <2>3 DEF Follows
    <2> QED BY <1>1, <1>2, <1>3, <1>5, <2>1, <2>2, <2>4
  <1>6. CASE pc # "finishing" /\ held = <<"K1">>
    <2>1. done + m + 1 = at /\ Cut /\ held # <<>>
      BY <1>2, <1>3, <1>6 DEF Follows
    <2>2. /\ d = at + 2
          /\ \A i \in 1 .. at - 1 : text[i] = stream.bytes[i]
          /\ \A i \in 1 .. 3 : text[at - 1 + i] = "?"
      BY <1>2, <2>1, DeliveredText
    <2>3. \A i \in 1 .. m : done + i \in 1 .. at - 1
      BY <1>3, <2>1
    <2>4. \A i \in 1 .. m : text[done + i] = buffered[i]
      BY <1>2, <1>6, <2>2, <2>3 DEF Follows
    <2>5. at - 1 = done + m
      BY <1>1, <1>3, <2>1
    <2> QED BY <1>1, <1>2, <1>3, <1>6, <2>1, <2>2, <2>4, <2>5
  <1> QED BY <1>1, <1>4, <1>5, <1>6

(* The lines below the next one are those that are done.                    *)
LEMMA NextLine ==
  ASSUME NEW text \in Seq(Bytes), NEW done \in Nat, NEW e \in Ends(text), done < e,
         \A j \in done + 1 .. e - 1 : text[j] # "\n"
  PROVE  /\ { i \in Ends(text) : i < e } = NewlinesTo(text, done)
         /\ { i \in Ends(text) : i <= e } = NewlinesTo(text, done) \cup {e}
         /\ e <= Len(text) => { i \in Ends(text) : i <= e } = NewlinesTo(text, e)
         /\ e = Len(text) + 1 => { i \in Ends(text) : i <= e } = Ends(text)
         /\ e \in Nat /\ e - 1 <= Len(text)
  <1>1. PICK d \in Nat : d = Len(text)
    OBVIOUS
  <1>2. /\ Ends(text) = { i \in 1 .. d : text[i] = "\n" } \cup {d + 1}
        /\ NewlinesTo(text, done) = { i \in 1 .. done : text[i] = "\n" }
        /\ NewlinesTo(text, e) = { i \in 1 .. e : text[i] = "\n" }
    BY <1>1 DEF Ends, NewlinesTo
  <1>3. e \in 1 .. d + 1 /\ (e <= d => text[e] = "\n")
    BY <1>1, <1>2
  <1>4. { i \in Ends(text) : i < e } = NewlinesTo(text, done)
    BY <1>1, <1>2, <1>3
  <1>5. { i \in Ends(text) : i <= e } = NewlinesTo(text, done) \cup {e}
    BY <1>1, <1>2, <1>3
  <1>6. e <= d => { i \in Ends(text) : i <= e } = NewlinesTo(text, e)
    BY <1>1, <1>2, <1>3
  <1>7. e = d + 1 => { i \in Ends(text) : i <= e } = Ends(text)
    BY <1>1, <1>2, <1>3
  <1> QED BY <1>1, <1>3, <1>4, <1>5, <1>6, <1>7
(* Nothing that is read changes but by reading on.                          *)
LEMMA MeaningStands ==
  ASSUME stream' = stream, NEW text, NEW ends
  PROVE  MeaningsAt(text, ends)' = MeaningsAt(text, ends)
  <1>1. ASSUME NEW line
        PROVE  Meaning(line)' = Meaning(line)
    BY DEF Meaning, mapLine, IsJson
  <1> QED BY <1>1 DEF MeaningsAt

LEMMA TextStands ==
  ASSUME UNCHANGED <<stream, at>>
  PROVE  /\ delivered' = delivered /\ Reading' = Reading
         /\ \A n : ReadTo(n)' = ReadTo(n) /\ Below(n)' = Below(n) /\ UpTo(n)' = UpTo(n)
  <1>1. delivered' = delivered
    BY DEF delivered
  <1>2. \A text, ends : MeaningsAt(text, ends)' = MeaningsAt(text, ends)
    BY MeaningStands
  <1> QED BY <1>1, <1>2 DEF Reading, ReadTo, Below, UpTo

(* A line is read.                                                          *)
LEMMA LineRead ==
  ASSUME IInv, NEW done \in Nat, Done(done), terminalError = "none",
         NEW e \in Ends(delivered), done < e,
         \A j \in done + 1 .. e - 1 : delivered[j] # "\n",
         Effect(Meaning(SubSeq(delivered, done + 1, e - 1))),
         UNCHANGED <<stream, at>>
  PROVE  /\ terminalError' = "none" => Account(UpTo(e))'
         /\ terminalError' # "none" => e \in Ends(delivered)' /\ BrokenAt(e)'
         /\ Starts(delivered, e) # {}
  <1>1. PICK text \in Seq(Bytes) : text = delivered
    BY DeliveredText DEF IInv
  <1>2. PICK r, q, whole : r = Below(e) /\ q = UpTo(e) /\ whole = Reading
    OBVIOUS
  <1>3. /\ { i \in Ends(text) : i < e } = NewlinesTo(text, done)
        /\ { i \in Ends(text) : i <= e } = NewlinesTo(text, done) \cup {e}
        /\ e \in Nat /\ e - 1 <= Len(text)
    BY <1>1, NextLine
  <1>4. Before(text, e) = done /\ Starts(text, e) # {}
    BY <1>1, <1>3, LineBegins DEF Done
  <1>5. r = ReadTo(done)
    BY <1>1, <1>2, <1>3 DEF Below, ReadTo
  <1>6. Account(r)
    BY <1>5 DEF Done
  <1>7. /\ DOMAIN r = { i \in Ends(text) : i < e } /\ DOMAIN q = { i \in Ends(text) : i <= e }
        /\ DOMAIN whole = Ends(text)
        /\ \A i \in DOMAIN r : r[i] = whole[i]
        /\ \A i \in DOMAIN q : q[i] = whole[i]
    BY <1>1, <1>2 DEF Below, UpTo, Reading, MeaningsAt
  <1>8. Ends(text) \subseteq Nat
    BY <1>1 DEF Ends, NewlinesTo
  <1>9. Next1(r, q, e)
    <2>1. Part(r, q, e)
      BY <1>3, <1>7, <1>8 DEF Part
    <2>2. DOMAIN q = DOMAIN r \cup {e}
      BY <1>3, <1>7
    <2> QED BY <1>6, <2>1, <2>2 DEF Next1, Account
  <1>10. q[e] = Meaning(SubSeq(text, done + 1, e - 1))
    <2>1. e \in { i \in Ends(text) : i <= e }
      BY <1>3
    <2>2. q[e] = Meaning(LineAt(text, e))
      BY <1>1, <1>2, <2>1 DEF UpTo, MeaningsAt
    <2> QED BY <1>4, <2>2 DEF LineAt
  <1>11. SubSeq(text, done + 1, e - 1) \in Seq(Bytes)
    BY <1>3
  <1>12. WellRead(q[e]) /\ Effect(q[e])
    BY <1>1, <1>10, <1>11, LineEffect DEF IInv
  <1>13. IF terminalError' = "none" THEN Account(q)' ELSE Breaks(r, q, e)'
    BY <1>6, <1>9, <1>12, LineAccounted DEF IInv, TypeOK
  <1>14. /\ delivered' = text /\ Reading' = whole /\ Below(e)' = r /\ UpTo(e)' = q
    BY <1>1, <1>2, TextStands
  <1>15. \A j \in Ends(text) : j < e => ~Fatal(whole, j)
    <2>1. Part(r, whole, e)
      BY <1>3, <1>7, <1>8 DEF Part
    <2>2. \A j \in DOMAIN r : ~Fatal(r, j)
      BY <1>6 DEF Account
    <2> QED BY <1>7, <2>1, <2>2, PartIsFatal
  <1>16. terminalError' = "none" => Account(UpTo(e))'
    <2> SUFFICES ASSUME terminalError' = "none"
                 PROVE  Account(UpTo(e))'
      OBVIOUS
    <2>1. Account(q)'
      BY <1>13
    <2> QED BY <1>14, <2>1 DEF Account, Counts, Concludes, Printed, Emits, Returned
  <1>17. terminalError' # "none" => BrokenAt(e)'
    <2> SUFFICES ASSUME terminalError' # "none"
                 PROVE  BrokenAt(e)'
      OBVIOUS
    <2>1. Breaks(r, q, e)'
      BY <1>13
    <2>2. Breaks(Below(e), UpTo(e), e)'
      BY <1>14, <2>1 DEF Breaks, Counts, Concludes, Emits
    <2> QED BY <1>14, <1>15, <2>2 DEF BrokenAt
  <1> QED BY <1>1, <1>4, <1>14, <1>16, <1>17

-----------------------------------------------------------------------------
(* The steps.                                                               *)

LEMMA RestOf ==
  ASSUME NEW b \in Seq(Bytes), NEW k \in 1 .. Len(b)
  PROVE  LET rest == SubSeq(b, k + 1, Len(b)) IN
           /\ Len(rest) = Len(b) - k /\ Len(rest) \in Nat
           /\ \A i \in 1 .. Len(rest) : rest[i] = b[k + i] /\ k + i \in 1 .. Len(b)
  <1> DEFINE rest == SubSeq(b, k + 1, Len(b))
  <1>1. PICK m \in Nat : m = Len(b)
    OBVIOUS
  <1>2. k \in 1 .. m /\ \A i \in k + 1 .. m : b[i] \in Bytes
    BY <1>1
  <1>3. /\ Len(rest) = IF k + 1 <= m THEN m - (k + 1) + 1 ELSE 0
        /\ \A i \in 1 .. m - (k + 1) + 1 : rest[i] = b[k + 1 + i - 1]
    BY <1>1, <1>2, SubSeqProperties
  <1> HIDE DEF rest
  <1>4. Len(rest) = m - k /\ m - k \in Nat
    BY <1>2, <1>3
  <1>5. \A i \in 1 .. m - k : i \in 1 .. m - (k + 1) + 1 /\ k + 1 + i - 1 = k + i /\ k + i \in 1 .. m
    BY <1>2
  <1> QED BY <1>1, <1>3, <1>4, <1>5 DEF rest

LEMMA ConsumeLineTold ==
  ASSUME IInv, Told, ConsumeLine
  PROVE  Told' /\ Settled'
  <1>1. /\ pc \in {"consuming", "finishing"} /\ terminalError = "none"
        /\ pc' = IF terminalError' # "none" THEN "ended" ELSE pc
        /\ UNCHANGED <<stream, at, held>>
    BY DEF ConsumeLine, IInv, NoErrorYet
  <1>2. PICK done \in Nat : Follows(done) /\ Done(done)
    BY <1>1 DEF Told
  <1>3. PICK newline \in 1 .. Len(buffered) :
          /\ FirstNewline(newline)
          /\ consumeLine(StripCR(SubSeq(buffered, 1, newline - 1)))
          /\ buffered' = SubSeq(buffered, newline + 1, Len(buffered))
    BY DEF ConsumeLine
  <1>4. PICK text \in Seq(Bytes) : text = delivered
    BY DeliveredText DEF IInv
  <1>5. PICK b \in Seq(Bytes), m \in Nat : b = buffered /\ m = Len(buffered)
    BY DEF IInv, TypeOK
  <1>6. /\ \A i \in 1 .. m : text[done + i] = b[i]
        /\ done + m <= Len(text) /\ Len(text) \in Nat
    <2>1. /\ \A i \in 1 .. m : text[done + i] = b[i]
          /\ held = <<>> => Len(text) = done + m
          /\ held # <<>> => Len(text) = done + m + 3
          /\ Len(text) \in Nat
      BY <1>1, <1>2, <1>4, <1>5, BufferInText DEF IInv
    <2> QED BY <2>1
  <1>7. PICK e \in Nat : e = done + newline
    BY <1>5
  <1>8. /\ newline \in 1 .. m /\ done < e /\ e <= Len(text) /\ e - 1 = done + (newline - 1)
        /\ newline - 1 \in Nat
    BY <1>3, <1>5, <1>6, <1>7
  <1>9. /\ text[e] = "\n" /\ \A j \in done + 1 .. e - 1 : text[j] # "\n"
    <2>1. b[newline] = "\n" /\ \A j \in 1 .. newline - 1 : b[j] # "\n"
      BY <1>3, <1>5 DEF FirstNewline
    <2>2. \A j \in done + 1 .. e - 1 : j - done \in 1 .. newline - 1 /\ j = done + (j - done)
                                       /\ j - done \in 1 .. m
      BY <1>8
    <2> QED BY <1>6, <1>7, <1>8, <2>1, <2>2
  <1>10. SubSeq(text, done + 1, e - 1) = SubSeq(b, 1, newline - 1)
    <2>1. SubSeq(text, done + 1, done + (newline - 1)) = SubSeq(b, 0 + 1, 0 + (newline - 1))
      <3>1. \A i \in 1 .. newline - 1 : text[done + i] = b[0 + i]
        BY <1>6, <1>8
      <3>2. 0 \in Nat /\ done + (newline - 1) <= Len(text) /\ 0 + (newline - 1) <= Len(b)
        BY <1>5, <1>6, <1>8
      <3> QED BY <1>8, <3>1, <3>2, SamePart
    <2> QED BY <1>8, <2>1
  <1>11. e \in Ends(text)
    BY <1>8, <1>9 DEF Ends, NewlinesTo
  <1>12. Effect(Meaning(SubSeq(text, done + 1, e - 1)))
    <2>1. SubSeq(b, 1, newline - 1) \in Seq(Bytes)
      BY <1>5, <1>8
    <2> QED BY <1>3, <1>5, <1>10, <2>1, LineEffect DEF IInv
  <1>13. /\ terminalError' = "none" => Account(UpTo(e))'
         /\ terminalError' # "none" => e \in Ends(delivered)' /\ BrokenAt(e)'
         /\ Starts(text, e) # {}
    BY <1>1, <1>2, <1>4, <1>8, <1>9, <1>11, <1>12, LineRead
  <1>14. CASE terminalError' # "none"
    BY <1>1, <1>13, <1>14 DEF Told, Settled
  <1>15. CASE terminalError' = "none"
    <2>1. pc' = pc /\ pc' \in {"consuming", "finishing"}
      BY <1>1, <1>15
    <2>2. delivered' = text
      BY <1>1, <1>4, TextStands
    <2>3. { i \in Ends(text) : i <= e } = NewlinesTo(text, e)
          /\ { i \in Ends(text) : i <= e } = NewlinesTo(text, done) \cup {e}
      BY <1>8, <1>9, <1>11, NextLine, ZenonT(40)
    <2>4. Account(ReadTo(e))'
      <3>1. UpTo(e)' = ReadTo(e)'
        BY <2>2, <2>3 DEF UpTo, ReadTo
      <3> QED BY <1>13, <1>15, <3>1 DEF Account, Counts, Concludes, Printed, Emits, Returned
    <2>5. \A i \in NewlinesTo(text, e) : Starts(text, i) # {}
      BY <1>2, <1>4, <1>13, <2>3 DEF Done
    <2>6. Done(e)'
      BY <1>9, <2>2, <2>4, <2>5 DEF Done
    <2>7. /\ Len(buffered') = m - newline /\ \A i \in 1 .. m - newline : buffered'[i] = b[newline + i]
      <3>1. buffered' = SubSeq(b, newline + 1, Len(b)) /\ newline \in 1 .. Len(b)
        BY <1>3, <1>5
      <3> QED BY <1>5, <3>1, RestOf
    <2>8. /\ e + Len(buffered') = done + m
          /\ \A i \in 1 .. Len(buffered') : newline + i \in 1 .. m /\ e + i = done + (newline + i)
      <3>1. PICK d \in Nat : d = done
        OBVIOUS
      <3>2. d + newline + (m - newline) = d + m
        BY <1>5, <1>8, <3>1
      <3>3. \A i \in 1 .. m - newline : newline + i \in 1 .. m /\ d + newline + i = d + (newline + i)
        BY <1>5, <1>8, <3>1
      <3> QED BY <1>7, <2>7, <3>1, <3>2, <3>3
    <2>9. Follows(e)'
      <3>1. CASE pc = "finishing"
        <4>1. held = <<>> /\ Len(text) = done + m
          BY <1>2, <1>4, <1>5, <3>1 DEF Follows
        <4>2. \A i \in 1 .. Len(buffered') : text[e + i] = buffered'[i]
          BY <1>6, <2>7, <2>8
        <4> QED BY <1>1, <2>1, <2>2, <2>8, <3>1, <4>1, <4>2 DEF Follows
      <3>2. CASE pc # "finishing"
        <4>1. /\ done + m + Len(held) = at /\ (held = <<"K1">> <=> Cut)
              /\ \A i \in 1 .. m : stream.bytes[done + i] = b[i]
          BY <1>2, <1>5, <3>2 DEF Follows
        <4>2. e + Len(buffered') + Len(held) = at
          BY <2>8, <4>1
        <4>3. \A i \in 1 .. Len(buffered') : stream.bytes[e + i] = buffered'[i]
          BY <2>7, <2>8, <4>1
        <4> QED BY <1>1, <2>1, <3>2, <4>1, <4>2, <4>3 DEF Follows, Cut
      <3> QED BY <3>1, <3>2
    <2>10. Told'
      BY <2>6, <2>9 DEF Told
    <2> QED BY <2>1, <2>10 DEF Settled
  <1> QED BY <1>14, <1>15
(* What follows the last newline.                                           *)
LEMMA LastLine ==
  ASSUME IInv, NEW done \in Nat, Follows(done), pc \in {"consuming", "finishing"}, ~HasLine,
         NEW e, e = Len(delivered) + 1
  PROVE  /\ e \in Ends(delivered) /\ done < e
         /\ \A j \in done + 1 .. e - 1 : delivered[j] # "\n"
         /\ LET line == SubSeq(delivered, done + 1, e - 1) IN
              /\ held = <<>> => line = buffered
              /\ held # <<>> => /\ line \in Seq(Bytes) /\ Len(line) = Len(buffered) + 3
                                /\ line[Len(line)] = "?"
  <1>1. PICK text \in Seq(Bytes) : text = delivered
    BY DeliveredText DEF IInv
  <1>2. PICK b \in Seq(Bytes), m \in Nat, d \in Nat : b = buffered /\ m = Len(b) /\ d = Len(text)
    BY DEF IInv, TypeOK
  <1>3. /\ \A i \in 1 .. m : text[done + i] = b[i]
        /\ held = <<>> => d = done + m
        /\ held # <<>> => d = done + m + 3 /\ \A i \in 1 .. 3 : text[done + m + i] = "?"
    BY <1>1, <1>2, BufferInText DEF IInv
  <1>4. e = d + 1 /\ e - 1 = d /\ e \in Ends(text) /\ done < e
    BY <1>1, <1>2, <1>3 DEF Ends
  <1>5. \A i \in 1 .. m : b[i] # "\n"
    BY <1>2 DEF HasLine
  <1>6. CASE held = <<>>
    <2>1. \A j \in done + 1 .. d : j - done \in 1 .. m /\ j = done + (j - done)
      BY <1>2, <1>3, <1>6
    <2>2. ASSUME NEW j \in done + 1 .. d
          PROVE  text[j] # "\n"
      <3>1. PICK i \in 1 .. m : j = done + i
        BY <2>1
      <3> QED BY <1>3, <1>5, <3>1
    <2>3. SubSeq(text, done + 1, done + m) = SubSeq(b, 0 + 1, 0 + m)
      <3>1. /\ \A i \in 1 .. m : text[done + i] = b[0 + i]
            /\ 0 \in Nat /\ done + m <= Len(text) /\ 0 + m <= Len(b)
        BY <1>2, <1>3, <1>6
      <3> HIDE <1>1, <1>3, <1>4, <1>5, <1>6
      <3> QED BY <3>1, SamePart
    <2>4. SubSeq(b, 0 + 1, 0 + m) = b
      BY <1>2
    <2> QED BY <1>1, <1>2, <1>3, <1>4, <1>6, <2>2, <2>3, <2>4
  <1>7. CASE held # <<>>
    <2>1. \A j \in done + 1 .. d : \/ j - done \in 1 .. m /\ j = done + (j - done)
                                   \/ j - (done + m) \in 1 .. 3 /\ j = done + m + (j - (done + m))
      <3>1. d = done + m + 3
        BY <1>3, <1>7
      <3>2. \A a, c \in Nat : \A j \in a + 1 .. a + c + 3 :
              \/ j - a \in 1 .. c /\ j = a + (j - a)
              \/ j - (a + c) \in 1 .. 3 /\ j = a + c + (j - (a + c))
        OBVIOUS
      <3> QED BY <1>2, <3>1, <3>2, SMTT(30)
    <2>2. \A j \in done + 1 .. d : text[j] # "\n"
      <3> SUFFICES ASSUME NEW j \in done + 1 .. d
                   PROVE  text[j] # "\n"
        OBVIOUS
      <3>1. CASE j - done \in 1 .. m /\ j = done + (j - done)
        BY <1>3, <1>5, <3>1
      <3>2. CASE j - (done + m) \in 1 .. 3 /\ j = done + m + (j - (done + m))
        BY <1>3, <1>7, <3>2
      <3> QED BY <2>1, <3>1, <3>2
    <2>3. /\ SubSeq(text, done + 1, d) \in Seq(Bytes) /\ Len(SubSeq(text, done + 1, d)) = m + 3
          /\ SubSeq(text, done + 1, d)[m + 3] = text[done + m + 3]
      <3>1. PICK a \in Nat : a = done
        OBVIOUS
      <3>2. d = a + m + 3 /\ d <= Len(text)
        BY <1>2, <1>3, <1>7, <3>1
      <3>3. /\ SubSeq(text, a + 1, d) \in Seq(Bytes)
            /\ Len(SubSeq(text, a + 1, d)) = IF a + 1 <= d THEN d - (a + 1) + 1 ELSE 0
            /\ \A i \in 1 .. d - (a + 1) + 1 : SubSeq(text, a + 1, d)[i] = text[a + 1 + i - 1]
        <4>1. \A i \in a + 1 .. d : text[i] \in Bytes
          <5>1. \A i \in a + 1 .. d : i \in 1 .. Len(text)
            BY <1>2, <3>2
          <5> QED BY <5>1
        <4> QED BY <1>2, <4>1, SubSeqProperties
      <3>4. d - (a + 1) + 1 = m + 3 /\ a + 1 + (m + 3) - 1 = a + m + 3 /\ m + 3 \in 1 .. m + 3 /\ a + 1 <= d
        BY <1>2, <3>2
      <3> QED BY <3>1, <3>3, <3>4
    <2>4. text[done + m + 3] = "?"
      BY <1>3, <1>7
    <2> QED BY <1>1, <1>2, <1>4, <1>7, <2>2, <2>3, <2>4
  <1> QED BY <1>6, <1>7

LEMMA EndFinishSettled ==
  ASSUME IInv, Told, EndFinish
  PROVE  Told' /\ Settled'
  <1>1. /\ pc = "finishing" /\ terminalError = "none" /\ pc' = "ended" /\ ~HasLine
        /\ UNCHANGED <<stream, at, held>> /\ consumeLine(StripCR(buffered))
    BY DEF EndFinish, IInv, NoErrorYet
  <1>2. PICK done \in Nat : Follows(done) /\ Done(done)
    BY <1>1 DEF Told
  <1>3. PICK e : e = Len(delivered) + 1
    OBVIOUS
  <1>4. /\ e \in Ends(delivered) /\ done < e
        /\ \A j \in done + 1 .. e - 1 : delivered[j] # "\n"
        /\ SubSeq(delivered, done + 1, e - 1) = buffered
    <2>1. held = <<>>
      BY <1>1, <1>2 DEF Follows
    <2> QED BY <1>1, <1>2, <1>3, <2>1, LastLine
  <1>5. Effect(Meaning(SubSeq(delivered, done + 1, e - 1)))
    <2>1. PICK b \in Seq(Bytes) : b = buffered
      BY DEF IInv, TypeOK
    <2> QED BY <1>1, <1>4, <2>1, LineEffect DEF IInv
  <1>6. /\ terminalError' = "none" => Account(UpTo(e))'
        /\ terminalError' # "none" => e \in Ends(delivered)' /\ BrokenAt(e)'
    BY <1>1, <1>2, <1>4, <1>5, LineRead
  <1>7. UpTo(e)' = Reading'
    <2>1. PICK text \in Seq(Bytes) : text = delivered
      BY DeliveredText DEF IInv
    <2>2. { i \in Ends(text) : i <= e } = Ends(text)
      BY <1>3, <1>4, <2>1, NextLine
    <2> QED BY <1>1, <2>1, <2>2, TextStands DEF UpTo, Reading
  <1>8. terminalError' = "none" => Account(Reading)'
    <2> SUFFICES ASSUME terminalError' = "none"
                 PROVE  Account(Reading)'
      OBVIOUS
    <2> QED BY <1>6, <1>7 DEF Account, Counts, Concludes, Printed, Emits, Returned
  <1> QED BY <1>1, <1>6, <1>8 DEF Told, Settled

LEMMA LineTooLongSettled ==
  ASSUME IInv, Told, LineTooLong
  PROVE  Told' /\ Settled'
  <1>1. /\ pc \in {"consuming", "finishing"} /\ terminalError = "none" /\ pc' = "ended" /\ ~HasLine
        /\ UNCHANGED <<stream, at, held, buffered>> /\ failProtocol
        /\ Len(buffered) > MAX_PROVIDER_LINE_BYTES
        /\ terminalError' # "none"
    BY DEF LineTooLong, failProtocol, IInv, NoErrorYet
  <1>2. PICK done \in Nat : Follows(done) /\ Done(done)
    BY <1>1 DEF Told
  <1>3. PICK e, line : e = Len(delivered) + 1 /\ line = SubSeq(delivered, done + 1, e - 1)
    OBVIOUS
  <1>4. /\ e \in Ends(delivered) /\ done < e
        /\ \A j \in done + 1 .. e - 1 : delivered[j] # "\n"
        /\ held = <<>> => line = buffered
        /\ held # <<>> => line \in Seq(Bytes) /\ Len(line) = Len(buffered) + 3 /\ line[Len(line)] = "?"
    BY <1>1, <1>2, <1>3, LastLine
  <1>5. CASE SplitAtCR
    BY <1>1, <1>5 DEF Told, Settled, SplitAtCR
  <1>6. CASE ~SplitAtCR
    <2>1. buffered \in Seq(Bytes) /\ MAX_PROVIDER_LINE_BYTES \in Nat
      BY ParserAssumption DEF IInv, TypeOK
    <2>2. Len(StripCR(line)) > MAX_PROVIDER_LINE_BYTES
      <3>1. CASE held = <<>>
        <4>1. line = buffered
          BY <1>4, <3>1
        <4>2. CASE line[Len(line)] = "\r"
          <5>1. Len(line) > MAX_PROVIDER_LINE_BYTES + 1
            BY <1>1, <1>6, <2>1, <4>1, <4>2 DEF SplitAtCR
          <5>2. Len(SubSeq(line, 1, Len(line) - 1)) = Len(line) - 1
            BY <2>1, <4>1, <5>1
          <5> QED BY <2>1, <4>1, <4>2, <5>1, <5>2 DEF StripCR
        <4>3. CASE line[Len(line)] # "\r"
          BY <1>1, <4>1, <4>3 DEF StripCR
        <4> QED BY <4>2, <4>3
      <3>2. CASE held # <<>>
        <4>1. StripCR(line) = line
          BY <1>4, <3>2 DEF StripCR
        <4>2. Len(buffered) \in Nat
          BY <2>1
        <4> QED BY <1>1, <1>4, <2>1, <3>2, <4>1, <4>2
      <3> QED BY <3>1, <3>2
    <2>3. Meaning(line) = TooLong
      BY <2>2 DEF Meaning
    <2>4. Effect(Meaning(line))
      <3>1. Meaning(line).kind = "too long" /\ failProtocol
        <4>1. TooLong.kind = "too long"
          BY DEF TooLong
        <4>2. failProtocol
          BY <1>1
        <4> QED BY <2>3, <4>1, <4>2
      <3> QED BY <3>1 DEF Effect
    <2>5. e \in Ends(delivered)' /\ BrokenAt(e)'
      BY <1>1, <1>2, <1>3, <1>4, <2>4, LineRead
    <2> QED BY <1>1, <2>5 DEF Told, Settled
  <1> QED BY <1>5, <1>6

LEMMA EndPushTold ==
  ASSUME IInv, Told, EndPush
  PROVE  Told' /\ Settled'
  <1>1. /\ pc = "consuming" /\ pc' = "reading"
        /\ UNCHANGED <<stream, at, held, buffered, eventIds, sessionMarkers, invalid,
                       consecutive, unknown, terminalError, finalResult, emitted>>
    BY DEF EndPush
  <1>2. PICK done \in Nat : Follows(done) /\ Done(done)
    BY <1>1 DEF Told
  <1>3. Follows(done)'
    BY <1>1, <1>2 DEF Follows, Cut
  <1>4. PICK r : r = ReadTo(done)
    OBVIOUS
  <1>5. ReadTo(done)' = r /\ delivered' = delivered
    BY <1>1, <1>4, TextStands
  <1>6. Account(r)'
    BY <1>1, <1>2, <1>4, AccountStands DEF Done
  <1>7. Account(ReadTo(done))'
    BY <1>5, <1>6 DEF Account, Counts, Concludes, Printed, Emits, Returned
  <1>8. Done(done)'
    BY <1>2, <1>5, <1>7 DEF Done
  <1> QED BY <1>1, <1>3, <1>8 DEF Told, Settled
(* What the decoder delivers of a text, and what it withholds.              *)
LEMMA DecodeText ==
  ASSUME NEW text \in Seq(Bytes), text # <<>>
  PROVE  LET dec == decode(text) IN
         /\ dec.text \in Seq(Bytes) /\ dec.held \in {<<>>, <<"K1">>}
         /\ Len(dec.text) + Len(dec.held) = Len(text)
         /\ \A i \in 1 .. Len(dec.text) : dec.text[i] = text[i]
         /\ dec.held = <<"K1">> <=> text[Len(text)] = "K1"
  <1>1. PICK l \in Nat \ {0} : l = Len(text)
    OBVIOUS
  <1>2. CASE text[l] = "K1"
    <2>1. PICK front : front = SubSeq(text, 1, l - 1)
      OBVIOUS
    <2>2. decode(text) = [text |-> front, held |-> <<"K1">>]
      BY <1>1, <1>2, <2>1 DEF decode
    <2>3. /\ front \in Seq(Bytes) /\ Len(front) = l - 1
          /\ \A i \in 1 .. l - 1 : front[i] = text[i]
      BY <1>1, <2>1
    <2>4. decode(text).text = front /\ decode(text).held = <<"K1">> /\ Len(<<"K1">>) = 1
      BY <2>2
    <2>5. l - 1 + 1 = l
      BY <1>1
    <2> QED BY <1>1, <1>2, <2>3, <2>4, <2>5
  <1>3. CASE text[l] # "K1"
    <2>1. decode(text) = [text |-> text, held |-> <<>>]
      BY <1>1, <1>3 DEF decode
    <2>2. decode(text).text = text /\ decode(text).held = <<>> /\ Len(<<>>) = 0 /\ <<>> # <<"K1">>
      BY <2>1
    <2> QED BY <1>1, <1>3, <2>2
  <1> QED BY <1>2, <1>3

(* What was withheld and the next chunk are the bytes that follow.          *)
Carried(bytes, h, p, n) == h \o SubSeq(bytes, p + Len(h) + 1, p + Len(h) + n)

\* It continues the bytes after p.
Continues(bytes, h, p, n) ==
  /\ bytes \in Seq(Bytes) /\ h \in {<<>>, <<"K1">>} /\ p \in Nat /\ n \in Nat /\ n > 0
  /\ p + Len(h) + n <= Len(bytes)
  /\ h = <<"K1">> => bytes[p + 1] = "K1"

LEMMA ChunkText ==
  ASSUME NEW bytes, NEW h, NEW p, NEW n, Continues(bytes, h, p, n)
  PROVE  /\ Carried(bytes, h, p, n) \in Seq(Bytes) /\ Len(Carried(bytes, h, p, n)) = Len(h) + n
         /\ \A i \in 1 .. Len(h) + n : Carried(bytes, h, p, n)[i] = bytes[p + i]
  <1> USE DEF Continues
  <1>1. CASE h = <<>>
    <2>1. PICK chunk : chunk = SubSeq(bytes, p + 1, p + n)
      OBVIOUS
    <2>2. p + n <= Len(bytes)
      BY <1>1
    <2>3. chunk \in Seq(Bytes) /\ Len(chunk) = n /\ \A i \in 1 .. n : chunk[i] = bytes[p + i]
      BY <2>1, <2>2
    <2>4. Len(h) = 0 /\ p + Len(h) + 1 = p + 1 /\ p + Len(h) + n = p + n /\ h \o chunk = chunk
      BY <1>1, <2>3
    <2>5. Carried(bytes, h, p, n) = chunk
      BY <2>1, <2>4 DEF Carried
    <2> QED BY <2>3, <2>4, <2>5
  <1>2. CASE h = <<"K1">>
    <2>0. PICK q \in Nat : q = p + 1
      OBVIOUS
    <2>1. PICK chunk : chunk = SubSeq(bytes, q + 1, q + n) /\ q = p + 1
      BY <2>0
    <2>2. q + n <= Len(bytes) /\ Len(h) = 1 /\ h \in Seq(Bytes) /\ h[1] = bytes[q]
      BY <1>2, <2>1, HeldIsText
    <2>3. chunk \in Seq(Bytes) /\ Len(chunk) = n /\ \A i \in 1 .. n : chunk[i] = bytes[q + i]
      BY <2>1, <2>2
    <2>4. PICK text : text = h \o chunk
      OBVIOUS
    <2>5. /\ text \in Seq(Bytes) /\ Len(text) = 1 + n
          /\ \A i \in 1 .. 1 : text[i] = h[i]
          /\ \A i \in 1 .. n : text[1 + i] = chunk[i]
      <3>1. /\ h \o chunk \in Seq(Bytes) /\ Len(h \o chunk) = Len(h) + Len(chunk)
            /\ \A i \in 1 .. Len(h) : (h \o chunk)[i] = h[i]
            /\ \A i \in 1 .. Len(chunk) : (h \o chunk)[Len(h) + i] = chunk[i]
        <4>1. PICK s \in Seq(Bytes) : s = h
          BY <2>2
        <4>2. PICK t \in Seq(Bytes) : t = chunk
          BY <2>3
        <4>3. /\ s \o t \in Seq(Bytes) /\ Len(s \o t) = Len(s) + Len(t)
              /\ \A i \in 1 .. Len(s) : (s \o t)[i] = s[i]
              /\ \A i \in 1 .. Len(t) : (s \o t)[Len(s) + i] = t[i]
          BY Joined
        <4> QED BY <4>1, <4>2, <4>3
      <3> QED BY <2>2, <2>3, <2>4, <3>1
    <2>6. ASSUME NEW i \in 1 .. 1 + n
          PROVE  text[i] = bytes[p + i]
      <3>1. CASE i = 1
        BY <2>1, <2>2, <2>5, <3>1
      <3>2. CASE i # 1
        <4>1. PICK j \in 1 .. n : i = 1 + j
          <5>1. i - 1 \in 1 .. n /\ i = 1 + (i - 1)
            BY <3>2
          <5> QED BY <5>1
        <4>2. p + i = q + j
          BY <2>1, <4>1
        <4> QED BY <2>3, <2>5, <4>1, <4>2
      <3> QED BY <3>1, <3>2
    <2>7. Carried(bytes, h, p, n) = text
      BY <2>1, <2>2, <2>4 DEF Carried
    <2> QED BY <2>2, <2>5, <2>6, <2>7
  <1> QED BY <1>1, <1>2

(* The buffer, and then more of the bytes that follow it.                   *)
LEMMA BufferAndMore ==
  ASSUME NEW bytes, NEW b \in Seq(Bytes), NEW t \in Seq(Bytes), NEW done \in Nat,
         \A i \in 1 .. Len(b) : bytes[done + i] = b[i],
         \A i \in 1 .. Len(t) : bytes[done + Len(b) + i] = t[i]
  PROVE  /\ b \o t \in Seq(Bytes) /\ Len(b \o t) = Len(b) + Len(t)
         /\ \A i \in 1 .. Len(b \o t) : bytes[done + i] = (b \o t)[i]
  <1>0. Len(b) \in Nat /\ Len(t) \in Nat
    OBVIOUS
  <1>1. PICK m \in Nat, l \in Nat, whole \in {b \o t} : whole = b \o t /\ m = Len(b) /\ l = Len(t)
    BY <1>0
  <1>2. /\ whole \in Seq(Bytes) /\ Len(whole) = m + l
        /\ \A i \in 1 .. m : whole[i] = b[i]
        /\ \A i \in 1 .. l : whole[m + i] = t[i]
    BY <1>1, Joined
  <1>3. ASSUME NEW i \in 1 .. m + l
        PROVE  bytes[done + i] = whole[i]
    <2>1. CASE i \in 1 .. m
      BY <1>1, <1>2, <2>1
    <2>2. CASE i \notin 1 .. m
      <3>1. PICK j \in 1 .. l : i = m + j
        <4>1. i - m \in 1 .. l /\ i = m + (i - m)
          BY <2>2
        <4> QED BY <4>1
      <3>2. done + i = done + m + j
        BY <3>1
      <3>3. bytes[done + m + j] = t[j]
        BY <1>1
      <3> QED BY <1>2, <3>1, <3>2, <3>3
    <2> QED BY <2>1, <2>2
  <1> QED BY <1>1, <1>2, <1>3
(* The position stands while the text grows past it.                        *)
LEMMA DoneStands ==
  ASSUME IInv, NEW done \in Nat, Done(done), done <= Len(delivered), TypeOK', stream' = stream,
         done <= Len(delivered'), \A i \in 1 .. done : delivered'[i] = delivered[i],
         UNCHANGED <<eventIds, sessionMarkers, invalid, consecutive, unknown,
                     finalResult, emitted>>
  PROVE  Done(done)'
  <1>1. PICK text \in Seq(Bytes) : text = delivered
    BY DeliveredText DEF IInv
  <1>2. PICK more \in Seq(Bytes) : more = delivered'
    <2>1. delivered' = DecodedAt(stream'.bytes, at')
      BY DEF delivered, DecodedAt, CutAt
    <2>2. PICK bytes \in Seq(Bytes), read \in Nat : bytes = stream'.bytes /\ read = at'
      BY DEF TypeOK
    <2>3. read <= Len(bytes)
      BY <2>2 DEF TypeOK
    <2>4. DecodedAt(bytes, read) \in Seq(Bytes)
      BY <2>3, DeliveredOf
    <2> QED BY <2>1, <2>2, <2>4
  <1>3. /\ done <= Len(text) /\ done <= Len(more) /\ \A i \in 1 .. done : text[i] = more[i]
        /\ \A e \in NewlinesTo(text, done) : Starts(text, e) # {}
        /\ done = 0 \/ text[done] = "\n"
    BY <1>1, <1>2 DEF Done
  <1>4. /\ NewlinesTo(text, done) = NewlinesTo(more, done)
        /\ \A e \in NewlinesTo(text, done) : /\ LineAt(text, e) = LineAt(more, e)
                                             /\ Starts(more, e) # {}
    BY <1>3, LinesAgree
  <1>5. done = 0 \/ more[done] = "\n"
    BY <1>3
  <1>6. PICK r : r = ReadTo(done)
    OBVIOUS
  <1>7. ReadTo(done)' = r
    <2>1. MeaningsAt(more, NewlinesTo(more, done))' = MeaningsAt(more, NewlinesTo(more, done))
      BY MeaningStands
    <2>2. MeaningsAt(more, NewlinesTo(more, done)) = MeaningsAt(text, NewlinesTo(text, done))
      BY <1>4 DEF MeaningsAt
    <2> QED BY <1>1, <1>2, <1>6, <2>1, <2>2 DEF ReadTo
  <1>8. Account(r)'
    BY <1>6, AccountStands DEF Done
  <1>9. Account(ReadTo(done))'
    BY <1>7, <1>8 DEF Account, Counts, Concludes, Printed, Emits, Returned
  <1> QED BY <1>2, <1>4, <1>5, <1>9 DEF Done

LEMMA PushTold ==
  ASSUME IInv, Told, NEW n \in ChunkSizes, Push(n)
  PROVE  Told' /\ Settled'
  <1>1. IInv'
    BY PushStep
  <1>2. CASE pc' = "overflowed"
    BY <1>2 DEF Told, Settled
  <1>3. CASE pc' # "overflowed"
    <2>1. PICK done \in Nat : Follows(done) /\ Done(done)
      BY DEF Push, Told
    <2>2. PICK bytes \in Seq(Bytes), b \in Seq(Bytes), h \in {<<>>, <<"K1">>}, a \in Nat :
            bytes = stream.bytes /\ b = buffered /\ h = held /\ a = at
      BY DEF IInv, TypeOK
    <2>3. n \in Nat \ {0} /\ a + n <= Len(bytes) /\ at' = a + n /\ stream' = stream
      BY <2>2, ParserAssumption DEF Push
    <2>4. PICK text : text = h \o SubSeq(bytes, a + 1, a + n)
      OBVIOUS
    <2>5. PICK dec : dec = decode(text)
      OBVIOUS
    <2>6. /\ held' = dec.held /\ buffered' = b \o dec.text /\ pc' = "consuming"
          /\ UNCHANGED <<eventIds, sessionMarkers, invalid, consecutive, unknown,
                         finalResult, emitted>>
      <3>1. held' = dec.held /\ receive(dec.text, "consuming")
        BY <2>2, <2>4, <2>5 DEF Push
      <3>2. buffered' = b \o dec.text /\ pc' = "consuming"
        BY <1>3, <2>2, <3>1 DEF receive
      <3> QED BY <3>1, <3>2 DEF Push
    <2>7. /\ done + Len(b) + Len(h) = a /\ (h = <<"K1">> <=> CutAt(bytes, a))
          /\ \A i \in 1 .. Len(b) : bytes[done + i] = b[i]
      BY <2>1, <2>2 DEF Follows, Push, Cut
    <2>8. PICK m \in Nat, k \in Nat : m = Len(b) /\ k = Len(h)
      <3>1. Len(b) \in Nat /\ Len(h) \in Nat
        BY HeldIsText
      <3> QED BY <3>1
    <2>9. PICK p \in Nat : p = done + m
      BY <2>8
    <2>10. /\ text \in Seq(Bytes) /\ Len(text) = k + n
           /\ \A i \in 1 .. Len(text) : text[i] = bytes[p + i]
      <3>1. p + Len(h) = a
        BY <2>7, <2>8, <2>9
      <3>2. h = <<"K1">> => bytes[p + 1] = "K1"
        <4> SUFFICES ASSUME h = <<"K1">> PROVE bytes[p + 1] = "K1"
          OBVIOUS
        <4>1. Len(h) = 1
          OBVIOUS
        <4>2. bytes[a] = "K1" /\ a = p + 1
          BY <2>7, <3>1, <4>1 DEF CutAt
        <4> QED BY <4>2
      <3>3. p + Len(h) + n <= Len(bytes)
        BY <2>3, <3>1
      <3>4. text = Carried(bytes, h, p, n)
        BY <2>4, <3>1 DEF Carried
      <3>5. /\ Carried(bytes, h, p, n) \in Seq(Bytes) /\ Len(Carried(bytes, h, p, n)) = Len(h) + n
            /\ \A i \in 1 .. Len(h) + n : Carried(bytes, h, p, n)[i] = bytes[p + i]
        <4>1. Continues(bytes, h, p, n)
          BY <2>3, <3>2, <3>3 DEF Continues
        <4> QED BY <4>1, ChunkText
      <3> QED BY <2>8, <3>4, <3>5
    <2>11. text # <<>>
      <3>1. k + n # 0
        BY <2>3, <2>8
      <3> QED BY <2>10, <3>1
    <2>12. /\ dec.text \in Seq(Bytes) /\ dec.held \in {<<>>, <<"K1">>}
           /\ Len(dec.text) + Len(dec.held) = k + n
           /\ \A i \in 1 .. Len(dec.text) : dec.text[i] = text[i]
           /\ dec.held = <<"K1">> <=> text[k + n] = "K1"
      BY <2>5, <2>10, <2>11, DecodeText
    <2>13. PICK t \in Seq(Bytes), l \in Nat, x \in Nat : t = dec.text /\ l = Len(t) /\ x = Len(dec.held)
      <3>1. Len(dec.text) \in Nat /\ Len(dec.held) \in Nat
        BY <2>12, HeldIsText
      <3> QED BY <2>12, <3>1
    <2>131. /\ n \in Nat \ {0} /\ done + m + k = a /\ p = done + m /\ l + x = k + n
            /\ Len(text) = k + n /\ Len(t) = l
            /\ h = <<"K1">> => k = 1
      <3>1. Len(<<"K1">>) = 1
        OBVIOUS
      <3> QED BY <2>3, <2>7, <2>8, <2>9, <2>10, <2>12, <2>13, <3>1
    <2>14. /\ b \o t \in Seq(Bytes) /\ Len(b \o t) = m + l
           /\ \A i \in 1 .. Len(b \o t) : bytes[done + i] = (b \o t)[i]
      <3>1. \A i \in 1 .. l : i \in 1 .. Len(text)
        BY <2>131
      <3>2. \A i \in 1 .. Len(t) : bytes[done + Len(b) + i] = t[i]
        BY <2>8, <2>9, <2>10, <2>12, <2>13, <3>1
      <3>3. /\ b \in Seq(Bytes) /\ t \in Seq(Bytes) /\ done \in Nat
            /\ \A i \in 1 .. Len(b) : bytes[done + i] = b[i]
        BY <2>7
      <3>4. /\ b \o t \in Seq(Bytes) /\ Len(b \o t) = Len(b) + Len(t)
            /\ \A i \in 1 .. Len(b \o t) : bytes[done + i] = (b \o t)[i]
        BY ONLY <3>2, <3>3, BufferAndMore, SMTT(30)
      <3> QED BY ONLY <3>4, <2>8, <2>13
    <2>15. dec.held = <<"K1">> <=> CutAt(bytes, a + n)
      <3>1. k + n \in 1 .. Len(text) /\ p + (k + n) = a + n /\ a + n > 0
        BY <2>131
      <3>2. text[k + n] = bytes[a + n]
        BY <2>10, <3>1
      <3> QED BY <2>12, <3>1, <3>2 DEF CutAt
    <2>16. Follows(done)'
      <3>1. done + (m + l) + x = a + n
        BY <2>131
      <3>2. /\ done + Len(buffered') + Len(held') = at'
            /\ \A i \in 1 .. Len(buffered') : stream'.bytes[done + i] = buffered'[i]
        BY <2>2, <2>3, <2>6, <2>13, <2>14, <3>1
      <3>3. held' = <<"K1">> <=> Cut'
        BY <2>2, <2>3, <2>6, <2>15 DEF Cut
      <3> QED BY <2>6, <3>2, <3>3 DEF Follows
    <2>17. Done(done)'
      <3>1. PICK old \in Seq(Bytes) : old = delivered
        BY DeliveredText DEF IInv
      <3>2. PICK more \in Seq(Bytes) : more = DecodedAt(bytes, a + n) /\ more = delivered'
        <4>1. delivered' = DecodedAt(bytes, a + n)
          BY <2>2, <2>3 DEF delivered, DecodedAt, CutAt
        <4>2. DecodedAt(bytes, a + n) \in Seq(Bytes)
          BY <2>3, DeliveredOf
        <4> QED BY <4>1, <4>2
      <3>3. old = DecodedAt(bytes, a)
        BY <2>2, <3>1 DEF delivered, DecodedAt, CutAt
      <3>4. PICK c \in Nat : c = a + n
        BY <2>3
      <3>5. /\ done <= Len(old) /\ \A i \in 1 .. done : old[i] = bytes[i]
        <4>1. /\ CutAt(bytes, a) => /\ Len(old) = a + 2
                                    /\ \A i \in 1 .. a - 1 : old[i] = bytes[i]
              /\ ~CutAt(bytes, a) => /\ Len(old) = a
                                     /\ \A i \in 1 .. a : old[i] = bytes[i]
          <5>1. a <= Len(bytes)
            BY <2>3
          <5> QED BY <3>3, <5>1, DeliveredOf
        <4>2. done <= a /\ (CutAt(bytes, a) => done <= a - 1)
          <5>1. CutAt(bytes, a) => k = 1
            BY <2>7, <2>131
          <5>2. done <= a /\ (k = 1 => done <= a - 1)
            <6>1. done + m + k = a
              BY <2>131
            <6> QED BY <6>1
          <5> QED BY <5>1, <5>2, Zenon
        <4>3. CASE CutAt(bytes, a)
          <5>1. /\ Len(old) = a + 2 /\ done <= a - 1
                /\ \A i \in 1 .. a - 1 : old[i] = bytes[i]
            BY <4>1, <4>2, <4>3, Zenon
          <5> QED BY <5>1
        <4>4. CASE ~CutAt(bytes, a)
          <5>1. Len(old) = a /\ done <= a /\ \A i \in 1 .. a : old[i] = bytes[i]
            BY <4>1, <4>2, <4>4, Zenon
          <5> QED BY <5>1
        <4> QED BY <4>3, <4>4, Zenon
      <3>6. /\ done <= Len(more) /\ \A i \in 1 .. done : more[i] = bytes[i]
        <4>1. /\ CutAt(bytes, c) => /\ Len(more) = c + 2
                                    /\ \A i \in 1 .. c - 1 : more[i] = bytes[i]
              /\ ~CutAt(bytes, c) => /\ Len(more) = c
                                     /\ \A i \in 1 .. c : more[i] = bytes[i]
          BY <2>3, <3>2, <3>4, DeliveredOf, SMTT(30)
        <4>2. done <= c /\ done <= c - 1
          BY <2>3, <2>7, <2>8, <3>4
        <4> QED BY <3>4, <4>1, <4>2
      <3> QED BY <1>1, <2>1, <2>3, <2>6, <3>1, <3>2, <3>5, <3>6, DoneStands DEF IInv
    <2> QED BY <2>6, <2>16, <2>17 DEF Told, Settled
  <1> QED BY <1>2, <1>3

LEMMA FinishTold ==
  ASSUME IInv, Told, Finish
  PROVE  Told' /\ Settled'
  <1>1. CASE pc' = "overflowed"
    BY <1>1 DEF Told, Settled
  <1>2. CASE pc' # "overflowed"
    <2>1. PICK done \in Nat : Follows(done) /\ Done(done)
      BY DEF Finish, Told
    <2>2. PICK text \in Seq(Bytes), b \in Seq(Bytes) : text = delivered /\ b = buffered
      BY DeliveredText DEF IInv, TypeOK
    <2>3. PICK rest \in Seq(Bytes) : rest = IF held = <<>> THEN <<>> ELSE Replacement
      BY ReplacementIsText
    <2>4. /\ pc = "reading" /\ held' = <<>> /\ buffered' = b \o rest /\ pc' = "finishing"
          /\ UNCHANGED <<stream, at, eventIds, sessionMarkers, invalid, consecutive, unknown,
                         finalResult, emitted>>
      <3>1. receive(rest, "finishing")
        BY <2>3 DEF Finish
      <3> QED BY <1>2, <2>2, <3>1 DEF Finish, receive
    <2>5. /\ \A i \in 1 .. Len(b) : text[done + i] = b[i]
          /\ held = <<>> => Len(text) = done + Len(b)
          /\ held # <<>> => /\ Len(text) = done + Len(b) + 3
                            /\ \A i \in 1 .. 3 : text[done + Len(b) + i] = "?"
      BY <2>1, <2>2, <2>4, BufferInText DEF IInv
    <2>6. /\ \A i \in 1 .. Len(rest) : text[done + Len(b) + i] = rest[i]
          /\ Len(text) = done + Len(b) + Len(rest)
      <3>1. CASE held = <<>>
        <4>1. rest = <<>> /\ Len(rest) = 0
          BY <2>3, <3>1
        <4>2. Len(b) \in Nat
          OBVIOUS
        <4>3. Len(text) = done + Len(b) + 0
          BY <2>5, <3>1, <4>2
        <4> QED BY <4>1, <4>3
      <3>2. CASE held # <<>>
        <4>1. rest = Replacement /\ Len(rest) = 3 /\ \A i \in 1 .. 3 : rest[i] = "?"
          BY <2>3, <3>2 DEF Replacement
        <4> QED BY <2>5, <3>2, <4>1
      <3> QED BY <3>1, <3>2
    <2>7. /\ Len(b \o rest) = Len(b) + Len(rest)
          /\ \A i \in 1 .. Len(b \o rest) : text[done + i] = (b \o rest)[i]
      BY <2>5, <2>6, BufferAndMore
    <2>8. delivered' = text
      BY <2>2, <2>4, TextStands
    <2>9. Follows(done)'
      <3>1. Len(text) = done + Len(b \o rest)
        <4>1. Len(b) \in Nat /\ Len(rest) \in Nat
          OBVIOUS
        <4> QED BY <2>6, <2>7, <4>1
      <3> QED BY <2>4, <2>7, <2>8, <3>1 DEF Follows
    <2>10. Done(done)'
      <3>1. PICK r : r = ReadTo(done)
        OBVIOUS
      <3>2. ReadTo(done)' = r
        BY <2>4, <3>1, TextStands
      <3>3. Account(r)'
        BY <2>1, <2>4, <3>1, AccountStands DEF Done
      <3>4. Account(ReadTo(done))'
        BY <3>2, <3>3 DEF Account, Counts, Concludes, Printed, Emits, Returned
      <3> QED BY <2>1, <2>2, <2>8, <3>4 DEF Done
    <2> QED BY <2>4, <2>9, <2>10 DEF Told, Settled
  <1> QED BY <1>1, <1>2
(* Nothing is read yet.                                                     *)
LEMMA InitTold == Init => Told /\ Settled
  <1> SUFFICES ASSUME Init PROVE Told /\ Settled
    OBVIOUS
  <1>1. PICK r : r = ReadTo(0)
    OBVIOUS
  <1>2. NewlinesTo(delivered, 0) = {} /\ DOMAIN r = {}
    BY <1>1 DEF NewlinesTo, ReadTo, MeaningsAt
  <1>3. IsFiniteSet({}) /\ Cardinality({}) = 0
    BY FS_EmptySet
  <1>4. /\ \A kind : OfKind(r, kind) = {}
        /\ Accepted(r) = {} /\ Results(r) = {}
    BY <1>2 DEF OfKind, Accepted, Results
  <1>5. /\ eventIds = Identities(r, OfKind(r, "recognized"))
        /\ sessionMarkers = Sessions(r, OfKind(r, "recognized"))
    BY <1>4 DEF Identities, Sessions, Init
  <1>6. Counts(r)
    BY <1>3, <1>4 DEF Counts, Init
  <1>7. Concludes(r)
    BY <1>4 DEF Concludes, Init
  <1>8. Printed(r)
    <2>1. Slots(r) = {} /\ \A x : Showing(r, x) = {}
      BY <1>4 DEF Slots, Showing
    <2>2. emitted = <<>> /\ Len(emitted) = 0 /\ emitted \in Seq(EventKinds)
      BY DEF Init
    <2>3. \A x : Returned(x) = {}
      BY <2>2 DEF Returned
    <2> QED BY <1>3, <2>1, <2>2, <2>3 DEF Printed, Emits
  <1>9. Account(r)
    BY <1>2, <1>3, <1>5, <1>6, <1>7, <1>8 DEF Account
  <1>10. Done(0)
    BY <1>1, <1>2, <1>9 DEF Done
  <1>11. Follows(0)
    BY DEF Init, Follows, Cut, CutAt
  <1> QED BY <1>10, <1>11 DEF Told, Settled, Init

(* A step that changes nothing.                                             *)
LEMMA StutterTold ==
  ASSUME Told, Settled, UNCHANGED vars
  PROVE  Told' /\ Settled'
  <1>1. /\ delivered' = delivered /\ Reading' = Reading
        /\ \A n : ReadTo(n)' = ReadTo(n) /\ Below(n)' = Below(n) /\ UpTo(n)' = UpTo(n)
    BY TextStands DEF vars
  <1>2. \A r : Account(r) => Account(r)'
    BY AccountStands DEF vars
  <1>3. ASSUME NEW done \in Nat, Follows(done) /\ Done(done)
        PROVE  Follows(done)' /\ Done(done)'
    <2>1. Follows(done)'
      BY <1>1, <1>3 DEF vars, Follows, Cut
    <2>2. Account(ReadTo(done))'
      BY <1>1, <1>2, <1>3, ZenonT(30) DEF Done, Account, Counts, Concludes, Printed, Emits, Returned
    <2> QED BY <1>1, <1>3, <2>1, <2>2 DEF Done
  <1>4. Told'
    BY <1>3 DEF Told, vars
  <1>5. Account(Reading) => Account(Reading)'
    BY <1>1, <1>2 DEF Account, Counts, Concludes, Printed, Emits, Returned
  <1>6. \A e : BrokenAt(e) => BrokenAt(e)'
    BY <1>1 DEF BrokenAt, Breaks, Emits, Concludes, Counts, vars
  <1>7. Settled'
    BY <1>1, <1>5, <1>6 DEF Settled, SplitAtCR, vars
  <1> QED BY <1>4, <1>7

THEOREM ReadingInvariant == Spec => [](IInv /\ Told /\ Settled)
  <1>1. Init => IInv /\ Told /\ Settled
    BY Initially, InitTold
  <1>2. IInv /\ Told /\ Settled /\ [Next]_vars => (IInv /\ Told /\ Settled)'
    <2> SUFFICES ASSUME IInv, Told, Settled, [Next]_vars
                 PROVE  IInv' /\ Told' /\ Settled'
      OBVIOUS
    <2>1. IInv'
      BY PushStep, FinishStep, ConsumeStep, RestStep DEF Next
    <2>2. CASE Next
      BY <2>1, <2>2, PushTold, FinishTold, ConsumeLineTold, LineTooLongSettled, EndPushTold,
         EndFinishSettled DEF Next
    <2>3. CASE UNCHANGED vars
      BY <2>1, <2>3, StutterTold
    <2> QED BY <2>1, <2>2, <2>3
  <1> QED BY <1>1, <1>2, PTL DEF Spec

(* The reading up to its first fatal line, and with it.                     *)
LEMMA FirstFatal ==
  ASSUME TypeOK, NEW e \in Ends(delivered), BrokenAt(e)
  PROVE  /\ Read(Reading) = Below(e) /\ Seen(Reading) = UpTo(e)
         /\ Error(Reading) = terminalError
  <1>1. PICK text \in Seq(Bytes) : text = delivered
    BY DeliveredText
  <1>2. PICK r, q, whole : r = Below(e) /\ q = UpTo(e) /\ whole = Reading
    OBVIOUS
  <1>3. Ends(text) \subseteq Nat /\ e \in Ends(text)
    BY <1>1 DEF Ends, NewlinesTo
  <1>4. /\ r = [i \in { i \in Ends(text) : i < e } |-> Meaning(LineAt(text, i))]
        /\ q = [i \in { i \in Ends(text) : i <= e } |-> Meaning(LineAt(text, i))]
        /\ whole = [i \in Ends(text) |-> Meaning(LineAt(text, i))]
    BY <1>1, <1>2 DEF Below, UpTo, Reading, MeaningsAt
  <1>5. /\ \A j \in Ends(text) : j < e => ~Fatal(whole, j)
        /\ Fatal(q, e)
        /\ terminalError = IF q[e].kind = "invalid" /\ q[e].final THEN "OUTPUT_SCHEMA_INVALID"
                           ELSE "ADAPTER_PROTOCOL_ERROR"
    BY <1>1, <1>2 DEF BrokenAt, Breaks
  <1>6. Fatal(whole, e)
    <2>1. PICK n \in Nat : n = e + 1
      BY <1>3
    <2>2. Part(q, whole, n)
      <3>1. \A i \in Ends(text) : i <= e <=> i < n
        BY <1>3, <2>1
      <3> QED BY <1>3, <1>4, <3>1 DEF Part
    <2>3. e \in DOMAIN q
      BY <1>3, <1>4
    <2> QED BY <1>5, <2>2, <2>3, PartIsFatal
  <1>7. { i \in Ends(text) : \A j \in Ends(text) : j <= i => ~Fatal(whole, j) }
          = { i \in Ends(text) : i < e }
    <2>1. \A i \in Ends(text) : i < e \/ e <= i
      BY <1>3
    <2>2. \A i, j \in Ends(text) : i < e /\ j <= i => j < e
      BY <1>3
    <2> QED BY <1>3, <1>5, <1>6, <2>1, <2>2
  <1>8. { i \in Ends(text) : \A j \in Ends(text) : j < i => ~Fatal(whole, j) }
          = { i \in Ends(text) : i <= e }
    <2>1. \A i \in Ends(text) : i <= e \/ e < i
      BY <1>3
    <2>2. \A i, j \in Ends(text) : i <= e /\ j < i => j < e
      BY <1>3
    <2> QED BY <1>3, <1>5, <1>6, <2>1, <2>2
  <1>9. DOMAIN whole = Ends(text)
    BY <1>4
  <1>10. Read(whole) = r
    <2>1. Read(whole) = [i \in { i \in Ends(text) : i < e } |-> whole[i]]
      BY <1>7, <1>9 DEF Read, Restricted
    <2> QED BY <1>4, <2>1
  <1>11. Seen(whole) = q
    <2>1. Seen(whole) = [i \in { i \in Ends(text) : i <= e } |-> whole[i]]
      BY <1>8, <1>9 DEF Seen, Restricted
    <2> QED BY <1>4, <2>1
  <1>12. Error(whole) = terminalError
    <2>1. ~\A i \in DOMAIN whole : ~Fatal(whole, i)
      BY <1>3, <1>6, <1>9
    <2>2. DOMAIN q = { i \in Ends(text) : i <= e } /\ q[e] = whole[e]
      BY <1>3, <1>4
    <2>3. \A i \in DOMAIN q : whole[i].kind = "invalid" /\ whole[i].final => i = e
      <3> SUFFICES ASSUME NEW i \in DOMAIN q, whole[i].kind = "invalid" /\ whole[i].final, i # e
                   PROVE  FALSE
        OBVIOUS
      <3>1. Fatal(whole, i)
        BY DEF Fatal
      <3>2. i \in Ends(text) /\ i < e
        BY <1>3, <2>2
      <3> QED BY <1>5, <3>1, <3>2
    <2>4. (\E i \in DOMAIN q : whole[i].kind = "invalid" /\ whole[i].final)
            <=> q[e].kind = "invalid" /\ q[e].final
      BY <1>3, <2>2, <2>3
    <2> QED BY <1>5, <1>11, <2>1, <2>4 DEF Error
  <1> QED BY <1>2, <1>10, <1>11, <1>12

(* A reading that nothing ends.                                             *)
LEMMA NothingFatal ==
  ASSUME NEW S, NEW r, r = [i \in S |-> r[i]], \A i \in DOMAIN r : ~Fatal(r, i)
  PROVE  Read(r) = r /\ Seen(r) = r /\ Error(r) = "none"
  <1>1. DOMAIN r = S
    OBVIOUS
  <1>2. /\ { i \in DOMAIN r : \A j \in DOMAIN r : j <= i => ~Fatal(r, j) } = S
        /\ { i \in DOMAIN r : \A j \in DOMAIN r : j < i => ~Fatal(r, j) } = S
    BY <1>1
  <1> QED BY <1>2 DEF Read, Seen, Restricted, Error

(* incremental-line-parser.ts:40: however the output is cut into chunks and *)
(* wherever it ends, its lines decide the events, the result, the counts    *)
(* and the error.                                                           *)
THEOREM ChunksNeverMatter == Spec => []ChunksAreImmaterial
  <1>1. IInv /\ Settled => ChunksAreImmaterial
    <2> SUFFICES ASSUME IInv, Settled, pc = "ended", ~SplitAtCR
                 PROVE  /\ Emits(Read(Reading)) /\ Concludes(Read(Reading))
                        /\ Counts(Seen(Reading)) /\ terminalError = Error(Reading)
      BY DEF ChunksAreImmaterial
    <2>1. CASE terminalError = "none" /\ Account(Reading)
      <3>1. PICK r : r = Reading
        OBVIOUS
      <3>2. r = [i \in Ends(delivered) |-> r[i]]
        BY <3>1 DEF Reading, MeaningsAt
      <3>3. \A i \in DOMAIN r : ~Fatal(r, i)
        BY <2>1, <3>1 DEF Account
      <3>4. Read(r) = r /\ Seen(r) = r /\ Error(r) = "none"
        BY <3>2, <3>3, NothingFatal
      <3>5. Emits(r) /\ Concludes(r) /\ Counts(r)
        BY <2>1, <3>1 DEF Account, Printed
      <3> QED BY <2>1, <3>1, <3>4, <3>5
    <2>2. ASSUME NEW e \in Ends(delivered), BrokenAt(e)
          PROVE  /\ Emits(Read(Reading)) /\ Concludes(Read(Reading))
                 /\ Counts(Seen(Reading)) /\ terminalError = Error(Reading)
      <3>1. /\ Read(Reading) = Below(e) /\ Seen(Reading) = UpTo(e)
            /\ Error(Reading) = terminalError
        BY <2>2, FirstFatal DEF IInv
      <3>2. Emits(Below(e)) /\ Concludes(Below(e)) /\ Counts(UpTo(e))
        BY <2>2 DEF BrokenAt, Breaks
      <3> QED BY <3>1, <3>2
    <2> QED BY <2>1, <2>2 DEF Settled
  <1> QED BY <1>1, ReadingInvariant, PTL

-----------------------------------------------------------------------------
(***************************************************************************)
(* The smoke gate, which reads the same text by code of its own.           *)
(***************************************************************************)
\* How the gate understands the line ending at e.
Understood(e) == normalize(stream.provider, SmokeReads[e])

(* A line that is JSON means to the parser what it means to the gate, unless *)
(* it ends the run; any other line is not recognized.                       *)
LEMMA ReadAlike ==
  ASSUME TypeOK, NEW e \in Ends(delivered), ~Fatal(Reading, e)
  PROVE  /\ e \in JsonEnds(delivered) => Reading[e] = Understood(e)
         /\ e \notin JsonEnds(delivered) => Reading[e].kind # "recognized"
  <1>1. PICK line, l : line = LineAt(delivered, e) /\ l = StripCR(line)
    OBVIOUS
  <1>2. Reading[e] = Meaning(line)
    BY <1>1 DEF Reading, MeaningsAt
  <1>3. Meaning(line).kind # "too long"
    BY <1>2 DEF Fatal
  <1>4. ~(Len(l) > MAX_PROVIDER_LINE_BYTES)
    <2>1. TooLong.kind = "too long"
      BY DEF TooLong
    <2> QED BY <1>1, <1>3, <2>1 DEF Meaning
  <1>5. e \in JsonEnds(delivered) <=> IsJson(l)
    BY <1>1 DEF JsonEnds, Trimmed
  <1>6. CASE IsJson(l)
    <2>1. PICK m : m = Understood(e)
      OBVIOUS
    <2>2. l # <<>>
      <3>1. Len(<<>>) = 0 /\ Len(l) >= 2
        BY <1>6 DEF IsJson
      <3> QED BY <3>1
    <2>4. Reading[e] = mapFrame(stream.provider, SmokeReads[e])
      <3>1. SmokeReads[e] = Frames[stream.provider][l[1]]
        BY <1>1, <1>5, <1>6 DEF SmokeReads, Trimmed
      <3>2. Meaning(line) = mapFrame(stream.provider, Frames[stream.provider][l[1]])
        BY <1>1, <1>4, <1>6, <2>2 DEF Meaning, mapLine
      <3> QED BY <1>2, <3>1, <3>2
    <2>5. Reading[e] = buildProviderFrameMapping(m)
      BY <2>1, <2>4 DEF mapFrame, Understood
    <2>6. ~(m.kind = "recognized" /\ m.result = "foreign")
      <3> SUFFICES ASSUME m.kind = "recognized" /\ m.result = "foreign"
                   PROVE  FALSE
        OBVIOUS
      <3>1. Reading[e] = [kind |-> "invalid", final |-> TRUE]
        BY <2>5 DEF buildProviderFrameMapping
      <3>2. Reading[e].kind = "invalid" /\ Reading[e].final
        BY <3>1
      <3> QED BY <3>2 DEF Fatal
    <2>7. Reading[e] = m
      BY <2>5, <2>6 DEF buildProviderFrameMapping
    <2> QED BY <1>5, <1>6, <2>1, <2>7
  <1>7. CASE ~IsJson(l)
    <2>1. mapLine(l).kind = "invalid"
      BY <1>7 DEF mapLine, Invalid
    <2>2. Nothing.kind = "nothing"
      BY DEF Nothing
    <2>3. Meaning(line) = Nothing \/ Meaning(line) = mapLine(l)
      BY <1>1, <1>4 DEF Meaning
    <2> QED BY <1>2, <1>5, <1>7, <2>1, <2>2, <2>3
  <1> QED BY <1>6, <1>7

(* provider-smoke.ts:657, adapter.ts:600: of an output that the parser read *)
(* without an error, the gate calls strict what the adapter does, and       *)
(* counts the events that the adapter returned.                             *)
THEOREM SmokeAlwaysAgrees == Spec => []SmokeAgrees
  <1>1. IInv /\ Settled => SmokeAgrees
    <2> SUFFICES ASSUME IInv, Settled, pc = "ended", terminalError = "none"
                 PROVE  SmokeAgrees
      BY DEF SmokeAgrees
    <2>1. Account(Reading)
      BY DEF Settled
    <2>2. PICK r, json : r = Reading /\ json = JsonEnds(delivered)
      OBVIOUS
    <2>3. PICK summary : summary = consumeProviderStream(stream.provider, SmokeReads)
      OBVIOUS
    <2>4. /\ DOMAIN r = Ends(delivered) /\ json \subseteq Ends(delivered)
          /\ DOMAIN SmokeReads = json
      BY <2>2 DEF Reading, MeaningsAt, JsonEnds, SmokeReads
    <2>5. /\ \A i \in json : r[i] = Understood(i)
          /\ \A i \in OfKind(r, "recognized") : i \in json
      <3>1. \A i \in Ends(delivered) : ~Fatal(Reading, i)
        BY <2>1, <2>2, <2>4 DEF Account
      <3>2. \A i \in Ends(delivered) : /\ i \in json => r[i] = Understood(i)
                                       /\ i \notin json => r[i].kind # "recognized"
        BY <2>2, <3>1, ReadAlike DEF IInv
      <3> QED BY <2>4, <3>2 DEF OfKind
    <2>6. summary.hasStrictResult <=> \E i \in OfKind(r, "recognized") : r[i].result = "strict"
      <3>1. summary.hasStrictResult <=> \E i \in json : IsStrict(Understood(i))
        BY <2>3, <2>4 DEF consumeProviderStream, Understood
      <3> QED BY <2>4, <2>5, <3>1 DEF IsStrict, OfKind
    <2>7. Concludes(r) /\ Accepted(r) \subseteq OfKind(r, "recognized")
      BY <2>1, <2>2 DEF Account, Accepted, FirstTime
    <2>8. ASSUME finalResult = "strict"
          PROVE  summary.hasStrictResult
      <3>1. PICK i \in Results(r) : r[i].result = "strict"
        BY <2>7, <2>8 DEF Concludes, NoResult
      <3> QED BY <2>6, <2>7, <3>1 DEF Results
    <2>9. ASSUME OfKind(r, "recognized") \subseteq Accepted(r)
          PROVE  /\ summary.hasStrictResult <=> finalResult = "strict"
                 /\ \A x \in {"run.started", "run.output.delta", "run.usage"} :
                      summary.count[x] = Cardinality({k \in DOMAIN emitted : emitted[k] = x})
      <3>1. ASSUME summary.hasStrictResult
            PROVE  finalResult = "strict"
        <4>1. PICK i \in OfKind(r, "recognized") : r[i].result = "strict"
          BY <2>6, <3>1
        <4>2. i \in Results(r)
          BY <2>9, <4>1 DEF Results, NoResult
        <4> QED BY <2>7, <4>1, <4>2 DEF Concludes
      <3>2. ASSUME NEW x \in {"run.started", "run.output.delta", "run.usage"}
            PROVE  summary.count[x] = Cardinality({k \in DOMAIN emitted : emitted[k] = x})
        <4>1. x \in EventKinds
          BY DEF EventKinds
        <4>2. Cardinality(Returned(x)) = Cardinality(Showing(r, x))
          BY <2>1, <2>2, <4>1 DEF Account, Printed
        <4>3. summary.count[x] = Cardinality({ i \in json :
                  /\ Understood(i).kind = "recognized" /\ Understood(i).items # <<>>
                  /\ x \in { eventsOf(Understood(i).items[1])[k] :
                               k \in DOMAIN eventsOf(Understood(i).items[1]) } })
          BY <2>3, <2>4 DEF consumeProviderStream, Understood
        <4>4. { i \in json :
                  /\ Understood(i).kind = "recognized" /\ Understood(i).items # <<>>
                  /\ x \in { eventsOf(Understood(i).items[1])[k] :
                               k \in DOMAIN eventsOf(Understood(i).items[1]) } }
                = Showing(r, x)
          <5>1. ASSUME NEW i \in OfKind(r, "recognized")
                PROVE  (\E j \in DOMAIN EventsAt(r, i) : EventsAt(r, i)[j] = x) <=>
                         /\ r[i].items # <<>>
                         /\ x \in { eventsOf(r[i].items[1])[k] : k \in DOMAIN eventsOf(r[i].items[1]) }
            BY DEF EventsAt, createEvents
          <5>2. Accepted(r) = OfKind(r, "recognized")
            BY <2>7, <2>9
          <5>3. \A i \in json : Understood(i).kind = "recognized" <=> i \in OfKind(r, "recognized")
            BY <2>4, <2>5 DEF OfKind
          <5> QED BY <2>5, <5>1, <5>2, <5>3 DEF Showing
        <4> QED BY <4>2, <4>3, <4>4 DEF Returned
      <3> QED BY <2>8, <3>1, <3>2
    <2> QED BY <2>2, <2>3, <2>8, <2>9 DEF SmokeAgrees
  <1> QED BY <1>1, ReadingInvariant, PTL
=============================================================================
