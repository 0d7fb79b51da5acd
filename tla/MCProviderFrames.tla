------------------------- MODULE MCProviderFrames --------------------------
(***************************************************************************)
(* The fixtures, and every short stream of lines that provokes a rule of   *)
(* the parser, in chunks of every length, cut at every byte.               *)
(***************************************************************************)
EXTENDS ProviderFixtures, OutputReading, SequencesExt

\* Frames beyond the fixtures': a strict result, one under the identity of a
\* final result, a frame without its identity, a report of failure.
MCFramesOf(p) ==
  LET openai == p = "openai"
      resultType == IF openai THEN "item.completed" ELSE "result"
      resultSub  == IF openai THEN "agent_message" ELSE "success"
  IN frames(p)
     @@ "strict"  :> frame(resultType, resultSub, "f3", "strict", FALSE)
     @@ "again"   :> frame(resultType, resultSub, "f1", "strict", FALSE)
     @@ "noid"    :> frame(resultType, resultSub, NoIdentity, "full", FALSE)
     @@ "fails"   :> (IF openai THEN frame("turn.failed", "none", NoIdentity, "given", FALSE)
                      ELSE frame("result", "error", "f4", "missing", FALSE))
     @@ "session" :> (IF openai THEN frame("thread.started", "none", "s2", "given", FALSE)
                      ELSE frame("system", "init", "s2", "given", FALSE))

MCFrames == "openai" :> MCFramesOf("openai") @@ "anthropic" :> MCFramesOf("anthropic")

Text(names, ending) ==
  FlattenSeq([i \in 1 .. Len(names) |->
     IF names[i] = "long" THEN <<"output", "K1", "K2", "K1", "K2", "}">> \o ending
     ELSE IF names[i] = "empty" THEN ending ELSE line(names[i], ending)])

Lines(kinds, n) == [1 .. n -> kinds]

Of(p, names, ending) ==
  {[provider |-> p, names |-> s, bytes |-> Text(s, ending), scenario |-> "none"] : s \in names}

FixtureStreams(p) ==
  {[provider |-> p, names |-> f.lines, bytes |-> Text(f.lines, f.ending), scenario |-> name]
     : <<name, f>> \in {<<n, makeProviderFixtures[n]>> : n \in DOMAIN makeProviderFixtures}}

Streamed(p) ==
  FixtureStreams(p)
    \cup Of(p, Lines({"started", "session", "output", "korean", "unknown", "bad", "noid",
                      "final", "strict", "again", "foreign", "fails", "long", "empty"}, 3), LF)
    \cup Of(p, Lines({"korean", "bad", "final"}, 2), CRLF)
    \cup Of(p, Lines({"output", "unknown", "bad"}, 6), LF)

MCStreams == Streamed("openai") \cup Streamed("anthropic")

MCBytes == {"K1", "K2", "?", "}", "\r", "\n", "bad"}
             \cup DOMAIN MCFrames["openai"] \cup DOMAIN MCFrames["anthropic"]

-----------------------------------------------------------------------------
(***************************************************************************)
(* Every scenario of the fixtures ends as the fixtures expect: the events  *)
(* in their order, the result, the diagnostics and the terminal status.    *)
(***************************************************************************)
Whole == pc = "ended" /\ (at = Len(stream.bytes) \/ terminalError # "none")

FixturesHold ==
  Whole /\ stream.scenario # "none" =>
    LET f == makeProviderFixtures[stream.scenario]
        terminal == classifyTerminal(
          [cancelled |-> f.exit.cancelled, timedOut |-> f.exit.timedOut, exit |-> f.exit.exit,
           parserError |-> terminalError, streamFailure |-> FALSE,
           hasResult |-> finalResult # NoResult, words |-> {}])
        last == CASE terminal = "succeeded" -> <<"run.completed">>
                  [] terminal = "cancelled" -> <<"run.cancelled">>
                  [] OTHER -> <<>>
    IN /\ SelectSeq(emitted, LAMBDA e : e # "session") \o last = f.expected.normalizedEvents
       /\ (finalResult # NoResult) = f.expected.result
       /\ diagnostics(invalid, consecutive, unknown) = f.expected.diagnostics
       /\ terminal = f.expected.terminal
=============================================================================
