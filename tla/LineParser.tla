---------------------------- MODULE LineParser -----------------------------
(***************************************************************************)
(* IncrementalLineParser: the adapter's reading of a provider's standard   *)
(* output.  The bytes come in chunks of any length, and the output may end *)
(* at any byte.                                                            *)
(*                                                                         *)
(* A byte is a symbol.  A line is a frame's name, perhaps a character of   *)
(* two bytes ("K1", "K2"), and the "}" that closes it; any other line is   *)
(* not JSON.  Text is held as its bytes, so that its byteLength is its     *)
(* length: all that StringDecoder does is to withhold a first half.        *)
(***************************************************************************)
EXTENDS ProviderFrames, FiniteSets

CONSTANTS
  Bytes,         \* the symbols that stand for bytes
  Frames,        \* the frames a provider writes, by provider and name
  Streams,       \* what providers write: the provider and all its bytes
  ChunkSizes,    \* how many bytes one read may bring
  MAX_PROVIDER_LINE_BYTES, MAX_PROVIDER_BUFFER_BYTES,
  MAX_PROVIDER_EVENT_IDENTITIES, MAX_CONSECUTIVE_INVALID

ASSUME ParserAssumption ==
  /\ {"K1", "?"} \subseteq Bytes
  /\ \A s \in Streams : s.bytes \in Seq(Bytes) /\ s.provider \in DOMAIN Frames
  /\ \A p \in DOMAIN Frames : \A n \in DOMAIN Frames[p] : Frames[p][n] \in Frame
  /\ ChunkSizes \subseteq Nat \ {0}
  /\ MAX_PROVIDER_LINE_BYTES \in Nat
  /\ MAX_PROVIDER_BUFFER_BYTES \in Nat
  /\ MAX_PROVIDER_EVENT_IDENTITIES \in Nat
  /\ MAX_CONSECUTIVE_INVALID \in Nat

VARIABLES
  stream,        \* the provider and its bytes
  at,            \* how many of them have been read
  pc,            \* "reading", inside push "consuming", inside finish "finishing", "ended", or refused for its size
  held,          \* what the decoder withholds
  buffered, eventIds, sessionMarkers,
  invalid, consecutive, unknown,     \* the three counters of diagnostics
  terminalError, finalResult,
  emitted        \* every event push and finish have returned

vars == <<stream, at, pc, held, buffered, eventIds, sessionMarkers, invalid,
          consecutive, unknown, terminalError, finalResult, emitted>>

Replacement == <<"?", "?", "?">>     \* U+FFFD

TypeOK ==
  /\ stream.provider \in DOMAIN Frames /\ stream.bytes \in Seq(Bytes)
  /\ at \in Nat /\ at <= Len(stream.bytes)
  /\ pc \in {"reading", "consuming", "finishing", "ended", "overflowed"}
  /\ held \in {<<>>, <<"K1">>}
  /\ buffered \in Seq(Bytes)
  /\ IsFiniteSet(eventIds) /\ IsFiniteSet(sessionMarkers)
  /\ invalid \in Nat /\ consecutive \in Nat /\ unknown \in Nat
  /\ terminalError \in {"none", "ADAPTER_PROTOCOL_ERROR", "OUTPUT_SCHEMA_INVALID"}
  /\ finalResult \in Succeeded \cup {"unsuccessful", NoResult}
  /\ pc = "reading" => terminalError = "none"

Init ==
  /\ stream \in Streams
  /\ at = 0 /\ pc = "reading"
  /\ held = <<>> /\ buffered = <<>>
  /\ eventIds = {} /\ sessionMarkers = {}
  /\ invalid = 0 /\ consecutive = 0 /\ unknown = 0
  /\ terminalError = "none" /\ finalResult = NoResult
  /\ emitted = <<>>

-----------------------------------------------------------------------------
(***************************************************************************)
(* push and finish: decode, refuse what does not fit in the buffer, and    *)
(* leave the rest to consume.                                              *)
(***************************************************************************)
\* Mutant: each chunk decoded by itself.
decode_stateless(text) ==
  IF text # <<>> /\ text[Len(text)] = "K1"
  THEN [text |-> SubSeq(text, 1, Len(text) - 1) \o Replacement, held |-> <<>>]
  ELSE [text |-> text, held |-> <<>>]

decode(text) ==
  IF text # <<>> /\ text[Len(text)] = "K1"
  THEN [text |-> SubSeq(text, 1, Len(text) - 1), held |-> <<"K1">>]
  ELSE [text |-> text, held |-> <<>>]

\* Mutant: the buffer is bounded by what is in it already.
receive_unbounded(text, next) ==
  IF Len(buffered) > MAX_PROVIDER_BUFFER_BYTES
  THEN /\ terminalError' = "ADAPTER_PROTOCOL_ERROR" /\ pc' = "overflowed"
       /\ UNCHANGED buffered
  ELSE /\ buffered' = buffered \o text /\ pc' = next
       /\ UNCHANGED terminalError

receive(text, next) ==
  IF Len(buffered) + Len(text) > MAX_PROVIDER_BUFFER_BYTES
  THEN /\ terminalError' = "ADAPTER_PROTOCOL_ERROR" /\ pc' = "overflowed"
       /\ UNCHANGED buffered
  ELSE /\ buffered' = buffered \o text /\ pc' = next
       /\ UNCHANGED terminalError

Push(n) ==
  /\ pc = "reading" /\ at + n <= Len(stream.bytes)
  /\ LET decoded == decode(held \o SubSeq(stream.bytes, at + 1, at + n))
     IN held' = decoded.held /\ receive(decoded.text, "consuming")
  /\ at' = at + n
  /\ UNCHANGED <<stream, eventIds, sessionMarkers, invalid, consecutive,
                 unknown, finalResult, emitted>>

\* The output ends, of itself or because its process was stopped.
Finish ==
  /\ pc = "reading"
  /\ held' = <<>>
  /\ receive(IF held = <<>> THEN <<>> ELSE Replacement, "finishing")
  /\ UNCHANGED <<stream, at, eventIds, sessionMarkers, invalid, consecutive,
                 unknown, finalResult, emitted>>

-----------------------------------------------------------------------------
(***************************************************************************)
(* consumeLine, for one line.                                              *)
(***************************************************************************)
StripCR(line) ==
  IF line # <<>> /\ line[Len(line)] = "\r" THEN SubSeq(line, 1, Len(line) - 1) ELSE line

IsJson(line) ==
  /\ Len(line) >= 2 /\ line[1] \in DOMAIN Frames[stream.provider]
  /\ line[Len(line)] = "}"
  /\ \A i \in 2 .. Len(line) - 1 : line[i] \in {"K1", "K2"}

mapLine(line) ==
  IF IsJson(line) THEN mapFrame(stream.provider, Frames[stream.provider][line[1]])
  ELSE Invalid

Keep == UNCHANGED <<eventIds, sessionMarkers, invalid, consecutive, unknown,
                    terminalError, finalResult, emitted>>

failProtocol ==
  /\ terminalError' = "ADAPTER_PROTOCOL_ERROR"
  /\ UNCHANGED <<eventIds, sessionMarkers, invalid, consecutive, unknown,
                 finalResult, emitted>>

recordInvalid(final) ==
  /\ invalid' = invalid + 1 /\ consecutive' = consecutive + 1
  /\ terminalError' = IF final THEN "OUTPUT_SCHEMA_INVALID"
                      ELSE IF consecutive + 1 >= MAX_CONSECUTIVE_INVALID
                           THEN "ADAPTER_PROTOCOL_ERROR" ELSE terminalError
  /\ UNCHANGED <<eventIds, sessionMarkers, unknown, finalResult, emitted>>

\* Mutant: identities are never looked up.
Duplicate_never(mapping) == FALSE

Duplicate(mapping) ==
  \/ mapping.identity # NoIdentityYet /\ mapping.identity \in eventIds
  \/ mapping.session # <<>> /\ mapping.session \in sessionMarkers

TooMany(mapping) ==
  \/ /\ mapping.identity # NoIdentityYet
     /\ Cardinality(eventIds) >= MAX_PROVIDER_EVENT_IDENTITIES
  \/ /\ mapping.session # <<>>
     /\ Cardinality(sessionMarkers) >= MAX_PROVIDER_EVENT_IDENTITIES

\* What acceptIdentity remembers of a frame it accepts.
acceptIdentity(mapping) ==
  /\ eventIds' = eventIds \cup ({mapping.identity} \ {NoIdentityYet})
  /\ sessionMarkers' = sessionMarkers \cup ({mapping.session} \ {<<>>})
  /\ UNCHANGED terminalError

\* The second result ends the run; the frame stays accepted.
SecondResult(mapping) ==
  /\ terminalError' = "ADAPTER_PROTOCOL_ERROR"
  /\ eventIds' = eventIds \cup ({mapping.identity} \ {NoIdentityYet})
  /\ UNCHANGED <<sessionMarkers, finalResult, emitted>>

recognizedFrame(mapping) ==
  /\ consecutive' = 0
  /\ UNCHANGED <<invalid, unknown>>
  /\ \/ /\ Duplicate(mapping)
        /\ UNCHANGED <<eventIds, sessionMarkers, terminalError, finalResult, emitted>>
     \/ /\ ~Duplicate(mapping) /\ TooMany(mapping)
        /\ terminalError' = "ADAPTER_PROTOCOL_ERROR"
        /\ UNCHANGED <<eventIds, sessionMarkers, finalResult, emitted>>
     \/ /\ ~Duplicate(mapping) /\ ~TooMany(mapping)
        /\ mapping.result # NoResult /\ finalResult # NoResult
        /\ SecondResult(mapping)
     \/ /\ ~Duplicate(mapping) /\ ~TooMany(mapping)
        /\ mapping.result = NoResult \/ finalResult = NoResult
        /\ acceptIdentity(mapping)
        /\ finalResult' = IF mapping.result # NoResult THEN mapping.result ELSE finalResult
        /\ emitted' = emitted \o createEvents(mapping.items)

unknownFrame ==
  /\ unknown' = unknown + 1
  /\ UNCHANGED <<eventIds, sessionMarkers, invalid, consecutive, terminalError,
                 finalResult, emitted>>

consumeLine(line) ==
  IF Len(line) > MAX_PROVIDER_LINE_BYTES THEN failProtocol
  ELSE IF line = <<>> THEN Keep
  ELSE LET mapping == mapLine(line)
       IN CASE mapping.kind = "unknown"    -> unknownFrame
            [] mapping.kind = "invalid"    -> recordInvalid(mapping.final)
            [] mapping.kind = "recognized" -> recognizedFrame(mapping)

-----------------------------------------------------------------------------
(***************************************************************************)
(* consume: every whole line, then the rest.                               *)
(***************************************************************************)
HasLine == \E i \in 1 .. Len(buffered) : buffered[i] = "\n"

FirstNewline(i) ==
  buffered[i] = "\n" /\ \A j \in 1 .. i - 1 : buffered[j] # "\n"

ConsumeLine ==
  /\ pc \in {"consuming", "finishing"}
  /\ \E newline \in 1 .. Len(buffered) :
       /\ FirstNewline(newline)
       /\ consumeLine(StripCR(SubSeq(buffered, 1, newline - 1)))
       /\ buffered' = SubSeq(buffered, newline + 1, Len(buffered))
  /\ pc' = IF terminalError' # "none" THEN "ended" ELSE pc
  /\ UNCHANGED <<stream, at, held>>

LineTooLong ==
  /\ pc \in {"consuming", "finishing"} /\ ~HasLine
  /\ Len(buffered) > MAX_PROVIDER_LINE_BYTES
  /\ failProtocol
  /\ pc' = "ended"
  /\ UNCHANGED <<stream, at, held, buffered>>

EndPush ==
  /\ pc = "consuming" /\ ~HasLine
  /\ Len(buffered) <= MAX_PROVIDER_LINE_BYTES
  /\ pc' = "reading"
  /\ UNCHANGED <<stream, at, held, buffered, eventIds, sessionMarkers, invalid,
                 consecutive, unknown, terminalError, finalResult, emitted>>

\* finish reads what follows the last newline as a line.
EndFinish ==
  /\ pc = "finishing" /\ ~HasLine
  /\ Len(buffered) <= MAX_PROVIDER_LINE_BYTES
  /\ consumeLine(StripCR(buffered))
  /\ buffered' = <<>>
  /\ pc' = "ended"
  /\ UNCHANGED <<stream, at, held>>

Next ==
  \/ \E n \in ChunkSizes : Push(n)
  \/ Finish \/ ConsumeLine \/ LineTooLong \/ EndPush \/ EndFinish

Spec == Init /\ [][Next]_vars

-----------------------------------------------------------------------------
(***************************************************************************)
(* The parser's memory is bounded whatever the provider writes: between    *)
(* calls it keeps at most a line and half a character, inside a call at    *)
(* most a buffer, and never more identities than its limit.                *)
(***************************************************************************)
BoundedMemory ==
  /\ Len(buffered) <= MAX_PROVIDER_BUFFER_BYTES
  /\ pc = "reading" => Len(buffered) + Len(held) <= MAX_PROVIDER_LINE_BYTES + 1
  /\ Cardinality(eventIds) <= MAX_PROVIDER_EVENT_IDENTITIES
  /\ Cardinality(sessionMarkers) <= MAX_PROVIDER_EVENT_IDENTITIES

(* The parser's state is of its type and within its limits.                *)
ParserConsistent == TypeOK /\ BoundedMemory
=============================================================================
