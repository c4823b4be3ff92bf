------------------------------ MODULE MCRelay -------------------------------
(***************************************************************************)
(* What a request meets on its way: the limits of its account, the         *)
(* translation between the formats of the client and of the upstream, and  *)
(* what its answer is counted on. The parts share no state, so one of them *)
(* runs at a time: `part' names it. The variables of AccountUpkeep and     *)
(* StreamOutcomes wait in a first state while another part runs, and the   *)
(* slots x1, x2, ... hold those of the other parts.                        *)
(***************************************************************************)
EXTENDS Integers, Sequences, FiniteSets, TLC, AccountUpkeep, StreamOutcomes

CONSTANTS Actor, Surface, Provider, Protocol, Shape, Call, MaxMessage,
    MaxLine, MaxFrame, PreambleCap, ClientFormat, ToolName, MaxTurn

VARIABLES part, x1, x2, x3, x4, x5, x6

slots == <<part, x1, x2, x3, x4, x5, x6, healthVars, warmupVars, pollingVars,
    outcomeVars>>

Ids == {<<>>, <<"a">>, <<"b">>}

\* Answers as sequences of symbols, for every format: all short ones, or short ones of frames.
Connect == {<<"data", 0>>, <<"data", 1, 7>>, <<"data", 3>>, <<"packed", 1, 7>>}
Framed == {a \o b \o c : a, b \in Connect \cup {<<>>}, c \in {<<>>, <<"end", 0>>, <<"end", 1, 7>>}}
Upto(S, n) == UNION {[1..k -> S] : k \in 0..n}
Delimited(S, n) ==
    {[j \in 1..(2 * Len(s)) |-> IF j % 2 = 0 THEN "|" ELSE s[(j + 1) \div 2]] : s \in Upto(S, n)}

AnswerStreams ==
    [f \in {"sse", "devin", "cursor", "kiro", "text", "anthropic", "codex"} |->
        CASE f = "sse" -> Upto({"D", "x", "CR", "LF"}, 6)
          [] f = "text" -> Upto({"{", "}", "\"", "\\"}, 6)
          [] f = "devin" -> Framed \cup {a \o <<"end", 0>> \o b : a, b \in Connect}
          [] f \in {"cursor", "kiro"} -> Framed
          [] f = "anthropic" -> Delimited({"start", "text", "invalid"}, 3)
                \cup {s \o <<t, "|">> : s \in Delimited({"start", "text"}, 2), t \in {"stop", "overloaded"}}
                \cup {s \o <<"text">> : s \in Delimited({"start"}, 2)}
          [] f = "codex" -> Delimited({"start", "text", "error"}, 3)
                \cup {s \o <<"stop", "|">> : s \in Delimited({"start", "text"}, 2)}]

RequestFormats == INSTANCE RequestFormats WITH stage <- x1, asked <- x2,
    account_ <- x3, plan <- x4, target <- x5, reply <- x6, client <- x1,
    turns <- x2, options <- x3, CallId <- Ids
StreamTranslation == INSTANCE StreamTranslation WITH dialect <- x1,
    shape <- x2, decoder <- x3, renderer <- x4, arrived <- x5,
    upstream <- x6, format <- x1, stream <- x2, seen <- x3, parser <- x4,
    Streams <- AnswerStreams

-----------------------------------------------------------------------------
\* The slots a part does not use.
after4 == <<x5, x6>>
after3 == <<x4, after4>>
after0 == <<x1, x2, x3, after3>>
Unused4 == x5 = 0 /\ x6 = 0
Unused3 == x4 = 0 /\ Unused4
Unused0 == x1 = 0 /\ x2 = 0 /\ x3 = 0 /\ Unused3

\* A part that waits.
HealthWaits == HealthInit /\ provider = "codex"
WarmupWaits == WarmupInit /\ kind = CHOOSE k \in WarmProvider : TRUE
PollsWaits == PollingInit /\ pkind = CHOOSE k \in Polled : TRUE
OutcomesWaits == OutcomesInit /\ object[1].devin = CHOOSE d \in Devin : TRUE
Waiting == HealthWaits /\ WarmupWaits /\ PollsWaits /\ OutcomesWaits
waiting == <<healthVars, warmupVars, pollingVars, outcomeVars>>

Init ==
    \/ part = "health" /\ HealthInit /\ Unused0 /\ WarmupWaits /\ PollsWaits /\ OutcomesWaits
    \/ part = "warmup" /\ WarmupInit /\ Unused0 /\ HealthWaits /\ PollsWaits /\ OutcomesWaits
    \/ part = "polls" /\ PollingInit /\ Unused0 /\ HealthWaits /\ WarmupWaits /\ OutcomesWaits
    \/ part = "outcomes" /\ OutcomesInit /\ Unused0 /\ HealthWaits /\ WarmupWaits /\ PollsWaits
    \/ part = "wires" /\ RequestFormats!WireInit /\ Waiting
    \/ part = "events" /\ StreamTranslation!TranslationInit /\ Waiting
    \/ part = "framing" /\ StreamTranslation!FramingInit /\ Unused4 /\ Waiting
    \/ part = "requests" /\ RequestFormats!RequestInit /\ Unused3 /\ Waiting

RunHealth == part = "health" /\ HealthNext /\ UNCHANGED <<part, after0, warmupVars, pollingVars, outcomeVars>>
RunWarmup == part = "warmup" /\ WarmupNext /\ UNCHANGED <<part, after0, healthVars, pollingVars, outcomeVars>>
RunPolls == part = "polls" /\ PollingNext /\ UNCHANGED <<part, after0, healthVars, warmupVars, outcomeVars>>
RunOutcomes == part = "outcomes" /\ OutcomesNext /\ UNCHANGED <<part, after0, healthVars, warmupVars, pollingVars>>
RunWires == part = "wires" /\ RequestFormats!WireNext /\ UNCHANGED <<part, waiting>>
RunEvents == part = "events" /\ StreamTranslation!TranslationNext /\ UNCHANGED <<part, waiting>>
RunFraming == part = "framing" /\ StreamTranslation!FramingNext /\ UNCHANGED <<part, after4, waiting>>
RunRequests == part = "requests" /\ RequestFormats!RequestNext /\ UNCHANGED <<part, after3, waiting>>

Next == RunHealth \/ RunWarmup \/ RunPolls \/ RunOutcomes \/ RunWires \/
        RunEvents \/ RunFraming \/ RunRequests

Spec == Init /\ [][Next]_slots

Symmetry == Permutations(Actor)

-----------------------------------------------------------------------------
\* Each body fits the endpoint it is sent to and each rendered answer its
\* client; every result reaches the call it answers, no text is lost, and a
\* forced tool stays forced.
RequestsFitTheirEndpoint ==
    /\ part = "requests" => RequestFormats!ResultsReachTheirCalls
    /\ part = "wires" => RequestFormats!BodyFitsEndpoint
    /\ part = "wires" => RequestFormats!RenderedFitsClient
    /\ part = "requests" => RequestFormats!TextsAreKept
    /\ part = "requests" => RequestFormats!InsistenceIsHonoured

\* A streamed answer is bracketed, ends once, gives arguments to their call
\* and equals the collected answer; how the bytes are cut does not matter,
\* and a held preamble is judged by what it shows.
StreamedIsCollected ==
    /\ part = "events" => StreamTranslation!StreamedIsCollected
    /\ part = "events" => StreamTranslation!OneTerminal
    /\ part = "events" => StreamTranslation!BlocksAreBracketed
    /\ part = "events" => StreamTranslation!ArgumentsFollowTheirCall
    /\ part = "framing" => StreamTranslation!CutsDoNotMatter
    /\ part = "framing" => StreamTranslation!PreambleIsJudged
=============================================================================
