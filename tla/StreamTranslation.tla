------------------------- MODULE StreamTranslation --------------------------
(***************************************************************************)
(* Answers on their way through the gateway: how bytes become messages,    *)
(* the decoders of the upstream protocols, the renderers of the client     *)
(* formats, and the stream that connects the two.                          *)
(***************************************************************************)
EXTENDS Integers, Sequences, TLC
LOCAL INSTANCE SequencesExt
LOCAL INSTANCE FiniteSetsExt
LOCAL INSTANCE FiniteSets

-----------------------------------------------------------------------------
(***************************************************************************)
(* How bytes become messages.  The network cuts an answer where it likes;  *)
(* every parser of compat/ keeps what it cannot use yet.  Modelled at the  *)
(* grain of symbols: lines and line ends (SseParser), frames with a header *)
(* (the Connect frames of Devin and Cursor, the event stream of Kiro),     *)
(* objects in running text (Kiro without frames), and the events that are  *)
(* held back until an answer shows (hold_anthropic_preamble,               *)
(* hold_codex_preamble).  A header has two symbols: the kind of the frame  *)
(* and the length of its payload.                                          *)
(***************************************************************************)

CONSTANTS
    Streams,    \* per format, the answers an upstream may send
    MaxLine,    \* MAX_SSE_LINE_BYTES
    MaxFrame,   \* MAX_SSE_FRAME_BYTES, MAX_FRAME_SIZE and their like
    PreambleCap \* ANTHROPIC_PREAMBLE_CAP, CODEX_PREAMBLE_CAP

VARIABLES
    format,     \* how the answer is framed
    stream,     \* the answer
    seen,       \* the part of it that has arrived
    parser

framingVars == <<format, stream, seen, parser>>

(* `out' is what was decoded; `phase' is "first" while the first frame is  *)
(* awaited, then "open", and "ended" once the answer said so itself.       *)
NewParser ==
    [buf |-> <<>>, data |-> <<>>, cr |-> FALSE, failed |-> FALSE, phase |-> "open", out |-> <<>>]

Breach(p) == [p EXCEPT !.failed = TRUE, !.buf = <<>>, !.data = <<>>]
Refuse(p) == [p EXCEPT !.failed = TRUE]

-----------------------------------------------------------------------------
(* SseParser.  "D" is a line's `data:' prefix, "x" any other byte.         *)

ConsumeLine(p, line) ==
    CASE line = <<>> /\ p.data # <<>> -> [p EXCEPT !.out = Append(@, p.data), !.data = <<>>]
      [] line # <<>> /\ Head(line) = "D" ->
            LET joined == p.data \o line IN
            IF Len(joined) > MaxFrame THEN Breach(p) ELSE [p EXCEPT !.data = joined]
      [] OTHER -> p

MutSseByte(p, b) ==
    CASE p.failed -> p
      [] b \in {"CR", "LF"} -> ConsumeLine([p EXCEPT !.buf = <<>>], p.buf)
      [] Len(p.buf) = MaxLine -> Breach(p)
      [] OTHER -> [p EXCEPT !.buf = Append(@, b)]

SseByte(p, b) ==
    CASE p.failed -> p
      [] p.cr /\ b = "LF" -> [p EXCEPT !.cr = FALSE]
      [] b \in {"CR", "LF"} -> ConsumeLine([p EXCEPT !.buf = <<>>, !.cr = (b = "CR")], p.buf)
      [] Len(p.buf) = MaxLine -> Breach(p)
      [] OTHER -> [p EXCEPT !.buf = Append(@, b), !.cr = FALSE]

PushRawData(p, chunk) == FoldLeft(SseByte, p, chunk)

FinishRawData(p) ==
    IF p.failed THEN p ELSE ConsumeLine(ConsumeLine([p EXCEPT !.buf = <<>>], p.buf), <<>>)

-----------------------------------------------------------------------------
(* Frames with a header.                                                   *)

Whole(buf) == Len(buf) >= 2 /\ Len(buf) >= 2 + buf[2]
TooLarge(buf) == Len(buf) >= 2 /\ buf[2] > MaxFrame
Shift(p) == [p EXCEPT !.buf = SubSeq(@, 3 + p.buf[2], Len(@))]

(* DevinDecoder: nothing may follow the frame that ends the stream, in the *)
(* same chunk or in a later one.                                           *)
RECURSIVE DevinLoop(_)
DevinLoop(p) ==
    CASE p.failed \/ p.buf = <<>> -> p
      [] p.phase = "ended" -> Refuse(p)
      [] TooLarge(p.buf) -> Refuse(p)
      [] ~Whole(p.buf) -> p
      [] p.buf[1] = "end" /\ Len(p.buf) > 2 + p.buf[2] -> Refuse(p)
      [] p.buf[1] = "end" -> [Shift(p) EXCEPT !.phase = "ended"]
      [] p.buf[1] = "data" -> DevinLoop([Shift(p) EXCEPT !.out = Append(@, p.buf[2])])
      [] OTHER -> Refuse(p)

(* acquire_devin_first_frame: the first frame is taken whole and judged    *)
(* before an account is committed to; what came with it is handed on.      *)
AcquireDevinFirstFrame(p) ==
    LET frame == SubSeq(p.buf, 1, 2 + p.buf[2])
        first == DevinLoop([p EXCEPT !.buf = frame, !.phase = "open"]) IN
    CASE TooLarge(p.buf) -> Refuse(p)
      [] ~Whole(p.buf) -> p
      [] first.failed -> first
      [] OTHER -> DevinLoop([first EXCEPT !.buf = SubSeq(p.buf, Len(frame) + 1, Len(p.buf))])

PushDevin(p, chunk) ==
    LET q == [p EXCEPT !.buf = @ \o chunk] IN
    IF p.phase = "first" THEN AcquireDevinFirstFrame(q) ELSE DevinLoop(q)

(* CursorDecoder: a frame that does not decode is passed over.             *)
RECURSIVE CursorLoop(_)
CursorLoop(p) ==
    CASE p.failed \/ p.phase = "ended" -> p
      [] TooLarge(p.buf) -> Refuse(p)
      [] ~Whole(p.buf) -> p
      [] p.buf[1] = "end" -> [Shift(p) EXCEPT !.phase = "ended"]
      [] p.buf[1] = "data" -> CursorLoop([Shift(p) EXCEPT !.out = Append(@, p.buf[2])])
      [] OTHER -> CursorLoop(Shift(p))

(* KiroDecoder on the AWS event stream: an exception ends it.              *)
RECURSIVE KiroLoop(_)
KiroLoop(p) ==
    CASE p.failed \/ p.phase = "ended" -> p
      [] TooLarge(p.buf) -> Refuse(p)
      [] ~Whole(p.buf) -> p
      [] p.buf[1] = "end" -> [Shift(p) EXCEPT !.phase = "ended"]
      [] p.buf[1] = "data" -> KiroLoop([Shift(p) EXCEPT !.out = Append(@, p.buf[2])])
      [] OTHER -> Refuse(p)

(* KiroDecoder on plain text: objects are found by their braces, which do  *)
(* not count inside strings.                                               *)
Scan(s, b) ==
    CASE s.found # 0 -> s
      [] s.string /\ s.escaped -> [s EXCEPT !.escaped = FALSE, !.at = @ + 1]
      [] s.string -> [s EXCEPT !.escaped = (b = "\\"), !.string = (b # "\""), !.at = @ + 1]
      [] s.depth = 0 /\ b # "{" -> [s EXCEPT !.at = @ + 1]
      [] b = "\"" -> [s EXCEPT !.string = TRUE, !.at = @ + 1]
      [] b = "{" -> [s EXCEPT !.depth = @ + 1, !.at = @ + 1]
      [] b = "}" -> [s EXCEPT !.depth = @ - 1, !.at = @ + 1, !.found = IF s.depth = 1 THEN s.at ELSE 0]
      [] OTHER -> [s EXCEPT !.at = @ + 1]

(* Where the first object ends; 0 when it has not arrived.                 *)
NextJsonObject(buf) ==
    FoldLeft(Scan, [at |-> 1, depth |-> 0, string |-> FALSE, escaped |-> FALSE, found |-> 0], buf).found

RECURSIVE KiroText(_)
KiroText(p) ==
    LET n == NextJsonObject(p.buf) IN
    IF n = 0 THEN p ELSE KiroText([p EXCEPT !.buf = SubSeq(@, n + 1, Len(@)), !.out = Append(@, SubSeq(p.buf, 1, n))])

-----------------------------------------------------------------------------
(* Preambles: an account is not committed to before its answer shows.      *)

(* The frames whose delimiter has arrived.                                 *)
Frames(buf) ==
    LET ends == SelectSeq([j \in DOMAIN buf |-> j], LAMBDA j : buf[j] = "|" /\ j > 1) IN
    [n \in DOMAIN ends |-> buf[ends[n] - 1]]

First(s, Test(_)) == SelectInSeq(s, Test)

ClassifyAnthropicPreamble(fs) ==
    LET n == First(fs, LAMBDA f : f \in {"text", "stop", "overloaded", "invalid"}) IN
    CASE n = 0 -> "pending"
      [] fs[n] \in {"stop", "overloaded"} -> "refused"
      [] OTHER -> "served"

CodexFrameHasContent(f) == f \in {"text", "error"}

ClassifyCodexPreamble(fs) ==
    CASE First(fs, CodexFrameHasContent) # 0 -> "served"
      [] First(fs, LAMBDA f : f = "stop") # 0 -> "refused"
      [] OTHER -> "pending"

ClassifyPreamble(buf) ==
    IF format = "anthropic" THEN ClassifyAnthropicPreamble(Frames(buf)) ELSE ClassifyCodexPreamble(Frames(buf))

HoldPreamble(p, chunk) ==
    LET buf == p.buf \o chunk
        verdict == ClassifyPreamble(buf) IN
    CASE p.phase # "open" -> [p EXCEPT !.out = @ \o chunk]
      [] verdict = "refused" -> [Refuse(p) EXCEPT !.phase = verdict]
      [] verdict = "served" -> [p EXCEPT !.out = buf, !.buf = <<>>, !.phase = verdict]
      [] Len(buf) >= PreambleCap -> [p EXCEPT !.out = buf, !.buf = <<>>, !.phase = "released"]
      [] OTHER -> [p EXCEPT !.buf = buf]

(* The stream ended while its preamble was held.  Only Anthropic's last    *)
(* frame is judged without its delimiter.                                  *)
MutEndPreamble(p) == IF p.phase = "open" THEN [Refuse(p) EXCEPT !.phase = "refused"] ELSE p

EndPreamble(p) ==
    IF format = "anthropic" /\ p.phase = "open" /\ ClassifyPreamble(p.buf \o <<"|">>) = "served"
    THEN [p EXCEPT !.out = p.buf \o <<"|">>, !.buf = <<>>, !.phase = "served"]
    ELSE IF p.phase = "open" THEN [Refuse(p) EXCEPT !.phase = "refused"] ELSE p

-----------------------------------------------------------------------------
Held == {"anthropic", "codex"}

Feed(f, p, chunk) ==
    CASE f = "sse" -> PushRawData(p, chunk)
      [] f = "devin" -> PushDevin(p, chunk)
      [] f = "cursor" -> CursorLoop([p EXCEPT !.buf = @ \o chunk])
      [] f = "kiro" -> KiroLoop([p EXCEPT !.buf = @ \o chunk])
      [] f = "text" -> KiroText([p EXCEPT !.buf = @ \o chunk])
      [] OTHER -> HoldPreamble(p, chunk)

FreshParser(f) == IF f = "devin" THEN [NewParser EXCEPT !.phase = "first"] ELSE NewParser

FramingInit ==
    /\ \E f \in DOMAIN Streams : format = f /\ stream \in Streams[f]
    /\ seen = <<>> /\ parser = FreshParser(format)

(* The next piece of the answer, of any length.                            *)
Arrive ==
    \E n \in 1..(Len(stream) - Len(seen)) :
        LET chunk == SubSeq(stream, Len(seen) + 1, Len(seen) + n) IN
        /\ parser.phase # "refused"
        /\ parser' = Feed(format, parser, chunk)
        /\ seen' = seen \o chunk
        /\ UNCHANGED <<format, stream>>

(* The deadline of a preamble: what is there is released.                  *)
Deadline ==
    /\ format \in Held /\ parser.phase = "open" /\ seen # <<>>
    /\ parser' = [parser EXCEPT !.out = parser.buf, !.buf = <<>>, !.phase = "released"]
    /\ UNCHANGED <<format, stream, seen>>

End ==
    /\ format \in Held /\ seen = stream /\ parser.phase = "open"
    /\ parser' = EndPreamble(parser)
    /\ UNCHANGED <<format, stream, seen>>

FramingNext == Arrive \/ Deadline \/ End

-----------------------------------------------------------------------------
(* Line ends in one form: a line feed after a carriage return is part of   *)
(* the same line end.                                                      *)
Normalised(s) ==
    LET kept == SelectSeq([j \in DOMAIN s |-> j], LAMBDA j : ~(s[j] = "LF" /\ j > 1 /\ s[j - 1] = "CR")) IN
    [n \in DOMAIN kept |-> IF s[kept[n]] = "CR" THEN "LF" ELSE s[kept[n]]]

Decoded(p) == [out |-> p.out, failed |-> p.failed]

(* What has been decoded is what the bytes say, however they were cut into *)
(* chunks: the same as if all had come at once, with every line end a line *)
(* feed (SseParser, DevinDecoder with its first frame taken apart,         *)
(* CursorDecoder, KiroDecoder).                                            *)
CutsDoNotMatter ==
    format \notin Held =>
        LET whole == IF format = "sse" THEN Normalised(seen) ELSE seen
            once == Feed(format, FreshParser(format), whole) IN
        /\ Decoded(parser) = Decoded(once)
        /\ format = "sse" => FinishRawData(parser).out = FinishRawData(once).out

Answers(s) == \E j \in DOMAIN s : s[j] \in {"text", "error", "invalid"}

(* An account's answer is refused, and another account asked, only if it   *)
(* shows no text and no call; it is committed to only if it does, or when  *)
(* patience or room run out; and no byte held back is lost                 *)
(* (open_anthropic_stream, open_codex_stream).                             *)
PreambleIsJudged ==
    format \in Held =>
        /\ parser.phase = "served" => Answers(seen)
        /\ parser.phase = "refused" => ~Answers(SubSeq(stream, 1, Len(seen)))
        /\ parser.phase \in {"served", "released"} => SubSeq(parser.out, 1, Len(seen)) = seen

-----------------------------------------------------------------------------

(***************************************************************************)
(* The six upstream protocols of compat/: what each decoder makes of a     *)
(* message.  Every decoder speaks in the same events.  A payload is the    *)
(* number of the message that brought it; a call id is a number, 0 when    *)
(* the message names none.  A decoder is a record; `out' is what it has    *)
(* emitted so far.                                                         *)
(***************************************************************************)

Event(k, i, c, v) == [k |-> k, i |-> i, c |-> c, v |-> v]
Plain(k) == Event(k, 0, 0, 0)
Terminal(e) == e.k \in {"completed", "failed"}

NewDecoder == [done |-> FALSE, ended |-> FALSE, tools |-> <<>>, server |-> {}, out |-> <<>>]

Emit(d, es) == [d EXCEPT !.out = @ \o es]
Fail(d) == [d EXCEPT !.done = TRUE, !.out = Append(@, Plain("failed"))]
Complete(d) == [d EXCEPT !.done = TRUE, !.out = Append(@, Plain("completed"))]

(* The events that are the message itself, whatever the protocol.          *)
Carried(m) == <<Event(m.k, 0, 0, m.v)>>

ToolOf(d, c) == SelectInSeq(d.tools, LAMBDA t : t.c = c)

(* ---- Responses events (SseParser): indices are the upstream's own.      *)
Classify(m) ==
    CASE m.k = "incomplete" -> <<Plain("limit"), Plain("completed")>>
      [] m.k = "begin" -> <<Event("begin", m.c, m.c, m.v)>>
      [] m.k = "args" -> <<Event("args", m.c, 0, m.v)>>
      [] m.k \in {"stop", "end"} -> <<Plain("completed")>>
      [] m.k = "error" -> <<Plain("failed")>>
      [] m.k \in {"text", "reasoning"} -> Carried(m)
      [] OTHER -> <<>>

DecodeCodex(d, m) ==
    [Emit(d, Classify(m)) EXCEPT !.done = \E e \in Range(Classify(m)) : Terminal(e)]

(* ---- Anthropic: blocks of tools the upstream runs itself never become   *)
(* client tool calls.                                                      *)
DecodeAnthropic(d, m) ==
    CASE m.k = "server" -> [d EXCEPT !.server = @ \cup {m.c}]
      [] m.k = "begin" ->
            [Emit(d, <<Event("begin", Len(d.tools), m.c, m.v)>>) EXCEPT !.tools = Append(@, [c |-> m.c])]
      [] m.k = "args" /\ m.c \notin d.server /\ ToolOf(d, m.c) # 0 ->
            Emit(d, <<Event("args", ToolOf(d, m.c) - 1, 0, m.v)>>)
      [] m.k \in {"text", "reasoning", "signature", "limit"} -> Emit(d, Carried(m))
      [] m.k = "stop" -> Complete(d)
      [] m.k = "error" -> Fail(d)
      [] OTHER -> d

(* ---- Gemini: a call comes whole, and only the end of the stream ends it. *)
DecodeGemini(d, m) ==
    CASE m.k = "begin" ->
            [Emit(d, <<Event("begin", Len(d.tools), m.c, m.v), Event("args", Len(d.tools), 0, m.v)>>)
                EXCEPT !.tools = Append(@, [c |-> m.c])]
      [] m.k \in {"text", "reasoning", "signature"} -> Emit(d, Carried(m))
      [] m.k = "limit" -> [Emit(d, Carried(m)) EXCEPT !.ended = TRUE]
      [] m.k = "stop" -> [d EXCEPT !.ended = TRUE]
      [] m.k = "error" -> Fail(d)
      [] OTHER -> d

(* ---- Kiro: arguments belong to the latest call.                         *)
DecodeKiro(d, m) ==
    CASE m.k = "begin" ->
            [Emit(d, <<Event("begin", Len(d.tools), m.c, m.v)>>) EXCEPT !.tools = Append(@, [c |-> m.c])]
      [] m.k = "args" /\ d.tools # <<>> -> Emit(d, <<Event("args", Len(d.tools) - 1, 0, m.v)>>)
      [] m.k \in {"text", "reasoning", "signature"} -> Emit(d, Carried(m))
      [] m.k = "stop" -> Complete(d)
      [] m.k = "error" -> Fail(d)
      [] OTHER -> d

(* ---- Cursor: any of three messages may be a call's first; a request for *)
(* data is answered through a bounded queue.                               *)
StartTool(d, c) ==
    IF ToolOf(d, c) # 0
    THEN d
    ELSE [Emit(d, <<Event("begin", Len(d.tools), c, 0)>>) EXCEPT !.tools = Append(@, [c |-> c])]

DecodeCursor(d, m) ==
    CASE m.k = "begin" -> StartTool(d, m.c)
      [] m.k = "args" -> LET s == StartTool(d, m.c) IN
                         Emit(s, <<Event("args", ToolOf(s, m.c) - 1, 0, m.v)>>)
      [] m.k \in {"text", "reasoning"} -> Emit(d, Carried(m))
      [] m.k \in {"stop", "end"} -> Complete(d)
      [] m.k \in {"error", "full"} -> Fail(d)
      [] OTHER -> d

(* ---- Devin: a call may learn its id and its name after its first        *)
(* arguments, which wait until both are known.                             *)
DevinTool(c) == [c |-> c, named |-> FALSE, began |-> FALSE, pending |-> <<>>]

(* The tool a delta is about: 0 when the decoder cannot tell.  A new tool  *)
(* is one past the last.                                                   *)
DevinSlot(d, c) ==
    LET nameless == {i \in DOMAIN d.tools : d.tools[i].c = 0} IN
    CASE c # 0 /\ ToolOf(d, c) # 0 -> ToolOf(d, c)
      [] c # 0 /\ nameless = {} -> Len(d.tools) + 1
      [] c # 0 /\ \E i \in nameless : nameless = {i} -> CHOOSE i \in nameless : TRUE
      [] c = 0 /\ Len(d.tools) <= 1 -> 1
      [] OTHER -> 0

Deltas(i, vs) == [j \in DOMAIN vs |-> Event("args", i - 1, 0, vs[j])]

MutDecodeToolDelta(d, m) ==
    LET i == DevinSlot(d, m.c)
        tools == IF i > Len(d.tools) THEN Append(d.tools, DevinTool(m.c)) ELSE d.tools
        t == tools[i]
        known == [t EXCEPT !.c = IF m.c # 0 THEN m.c ELSE @, !.named = @ \/ m.k = "begin"]
        begins == ~t.began /\ known.named IN
    IF i = 0
    THEN Fail(d)
    ELSE [Emit(d, (IF begins THEN <<Event("begin", i - 1, known.c, 0)>> ELSE <<>>)
                  \o (IF m.k = "args" THEN <<Event("args", i - 1, 0, m.v)>> ELSE <<>>))
             EXCEPT !.tools = [tools EXCEPT ![i] = [known EXCEPT !.began = @ \/ begins]]]

DecodeToolDelta(d, m) ==
    LET i == DevinSlot(d, m.c)
        tools == IF i > Len(d.tools) THEN Append(d.tools, DevinTool(m.c)) ELSE d.tools
        t == tools[i]
        known == [t EXCEPT !.c = IF m.c # 0 THEN m.c ELSE @, !.named = @ \/ m.k = "begin"]
        args == IF m.k = "args" THEN <<m.v>> ELSE <<>>
        begins == ~t.began /\ known.named /\ known.c # 0
        begun == t.began \/ begins
        after == [known EXCEPT !.began = begun, !.pending = IF begun THEN <<>> ELSE @ \o args] IN
    IF i = 0
    THEN Fail(d)
    ELSE [Emit(d, (IF begins THEN <<Event("begin", i - 1, known.c, 0)>> ELSE <<>>)
                  \o (IF begins THEN Deltas(i, t.pending) ELSE <<>>)
                  \o (IF begun THEN Deltas(i, args) ELSE <<>>))
             EXCEPT !.tools = [tools EXCEPT ![i] = after]]

(* An EndStream frame; the error it may carry.                             *)
DecodeEndStream(d, m) == IF m.k = "broken" THEN Fail(d) ELSE [d EXCEPT !.ended = TRUE]

DecodeDevin(d, m) ==
    CASE d.ended -> Fail(d)
      [] m.k \in {"begin", "args"} -> DecodeToolDelta(d, m)
      [] m.k \in {"text", "reasoning", "signature", "redacted", "limit"} -> Emit(d, Carried(m))
      [] m.k \in {"end", "broken"} -> DecodeEndStream(d, m)
      [] m.k = "error" -> Fail(d)
      [] OTHER -> d

FinishDevin(d) ==
    IF ~d.ended \/ \E i \in DOMAIN d.tools : d.tools[i].c = 0 \/ ~d.tools[i].named
    THEN Fail(d)
    ELSE Complete(d)

(* ---- ProtocolParser: the decoder of the protocol; a decoder that is done *)
(* ignores what still comes.                                               *)
Decode(p, d, m) ==
    CASE d.done -> d
      [] p = "Codex" -> DecodeCodex(d, m)
      [] p = "Anthropic" -> DecodeAnthropic(d, m)
      [] p = "Antigravity" -> DecodeGemini(d, m)
      [] p = "Kiro" -> DecodeKiro(d, m)
      [] p = "Cursor" -> DecodeCursor(d, m)
      [] p = "Devin" -> DecodeDevin(d, m)

(* The stream ended: only Kiro takes silence for completion.               *)
Finish(p, d) ==
    CASE d.done -> d
      [] p = "Antigravity" -> IF d.ended THEN Complete(d) ELSE Fail(d)
      [] p = "Kiro" -> Complete(d)
      [] p = "Devin" -> FinishDevin(d)
      [] OTHER -> Fail(d)

-----------------------------------------------------------------------------
(***************************************************************************)
(* The client's side of compat/: four renderers that turn events into      *)
(* frames as they come, and the aggregators that answer a client that does *)
(* not stream.  A frame keeps its kind, the index of the block or item it  *)
(* is about, and its payload.  `out' of a renderer is what it has sent.    *)
(***************************************************************************)

Nowhere == -1

(* `tools' are the calls in order of their begin: [i, c, at, args, open].  *)
NewRenderer ==
    [done |-> FALSE, started |-> FALSE, limit |-> FALSE, text |-> Nowhere, thinking |-> Nowhere,
     next |-> 0, tools |-> <<>>, out |-> <<>>]

Frame(f, i, v) == [f |-> f, i |-> i, v |-> v]
Send(r, f, i, v) == [r EXCEPT !.out = Append(@, Frame(f, i, v))]
Terminate(r, f, v) == [Send(r, f, 0, v) EXCEPT !.done = TRUE]
Reaches(r, e) == SelectInSeq(r.tools, LAMBDA t : t.i = e.i)
OpenCall(r, e, at) == [r EXCEPT !.tools = Append(@, [i |-> e.i, c |-> e.c, at |-> at, args |-> <<>>, open |-> TRUE])]

(* ---- AnthropicStreamRenderer: content blocks opened and stopped.        *)
EnsureStarted(r) == IF r.started THEN r ELSE [Send(r, "message_start", 0, 0) EXCEPT !.started = TRUE]
CloseText(r) == IF r.text = Nowhere THEN r ELSE [Send(r, "stop", r.text, 0) EXCEPT !.text = Nowhere]
CloseThinking(r) ==
    IF r.thinking = Nowhere THEN r ELSE [Send(r, "stop", r.thinking, 0) EXCEPT !.thinking = Nowhere]
CloseOpenTools(r) ==
    [r EXCEPT !.out = @ \o [j \in 1..Len(SelectSeq(r.tools, LAMBDA t : t.open)) |->
                               Frame("stop", SelectSeq(r.tools, LAMBDA t : t.open)[j].at, 0)],
              !.tools = [j \in DOMAIN @ |-> [@[j] EXCEPT !.open = FALSE]]]

(* A block of its own kind for text, and one for thinking.                 *)
OpenBlock(r, slot, f) ==
    IF slot = "text"
    THEN [Send(r, f, r.next, 0) EXCEPT !.text = r.next, !.next = @ + 1]
    ELSE [Send(r, f, r.next, 0) EXCEPT !.thinking = r.next, !.next = @ + 1]

EnsureThinkingBlock(r) ==
    IF r.thinking # Nowhere THEN r ELSE OpenBlock(CloseText(CloseOpenTools(r)), "thinking", "start")

MutCloseAll(r) == CloseText(CloseThinking(r))
CloseAll(r) == CloseOpenTools(CloseText(CloseThinking(r)))

StopReason(r) ==
    IF r.limit THEN "length" ELSE IF \E j \in DOMAIN r.tools : r.tools[j].c # 0 THEN "tools" ELSE "stop"

RenderAnthropic(q, e) ==
    LET r == EnsureStarted(q) IN
    CASE e.k = "text" ->
            LET s == CloseOpenTools(CloseThinking(r))
                t == IF s.text = Nowhere THEN OpenBlock(s, "text", "start") ELSE s IN
            Send(t, "text", t.text, e.v)
      [] e.k \in {"reasoning", "signature"} ->
            LET t == EnsureThinkingBlock(r) IN Send(t, e.k, t.thinking, e.v)
      [] e.k = "begin" ->
            LET s == CloseText(CloseThinking(r)) IN
            [OpenCall(Send(s, "start", s.next, e.c), e, s.next) EXCEPT !.next = @ + 1]
      [] e.k = "args" ->
            Send(r, "args", IF Reaches(r, e) = 0 THEN 1 ELSE r.tools[Reaches(r, e)].at, e.v)
      [] e.k = "limit" -> [r EXCEPT !.limit = TRUE]
      [] e.k = "completed" -> Terminate(CloseAll(r), "completed", StopReason(r))
      [] e.k = "failed" -> Terminate(CloseAll(r), "failed", "error")
      [] OTHER -> r

(* ---- ResponsesStreamRenderer: items, numbered frames, and calls that     *)
(* stay open until the end.                                                *)
EnsureReasoningItem(r) ==
    IF r.thinking # Nowhere THEN EnsureStarted(r) ELSE OpenBlock(EnsureStarted(r), "thinking", "start")

(* close_reasoning_item, close_text_item and close_tool_item in turn.      *)
CloseItems(r) == CloseOpenTools(CloseText(CloseThinking(r)))

RenderResponses(r, e) ==
    CASE e.k = "created" -> EnsureStarted(r)
      [] e.k \in {"reasoning", "signature", "redacted"} ->
            LET s == EnsureReasoningItem(r) IN
            IF e.k = "reasoning" THEN Send(s, "reasoning", s.thinking, e.v) ELSE s
      [] e.k = "text" ->
            LET s == EnsureStarted(r)
                t == IF s.text = Nowhere THEN OpenBlock(s, "text", "start") ELSE s IN
            Send(t, "text", t.text, e.v)
      [] e.k = "begin" ->
            LET s == CloseText(EnsureStarted(r)) IN
            [OpenCall(Send(s, "start", s.next, e.c), e, s.next) EXCEPT !.next = @ + 1]
      [] e.k = "args" ->
            IF Reaches(r, e) = 0 THEN EnsureStarted(r)
                                 ELSE Send(EnsureStarted(r), "args", r.tools[Reaches(r, e)].at, e.v)
      [] e.k = "limit" -> [r EXCEPT !.limit = TRUE]
      [] e.k = "completed" -> Terminate(CloseItems(EnsureStarted(r)), "completed", IF r.limit THEN "length" ELSE "stop")
      [] e.k = "failed" -> Terminate(CloseItems(r), "failed", "error")

(* ---- GeminiChunkRenderer: a call is sent whole, when the turn ends.  A   *)
(* payload of 0 is arguments that are not an object.                       *)
Parses(t) == 0 \notin Range(t.args)

CloseOpenCalls(r) ==
    LET bad == {j \in DOMAIN r.tools : ~Parses(r.tools[j])}
        last == IF bad = {} \/ r.limit THEN Len(r.tools) ELSE Min(bad) - 1
        sent == SelectSeq(SubSeq(r.tools, 1, last), Parses)
        s == [r EXCEPT !.tools = <<>>,
                       !.out = @ \o [j \in DOMAIN sent |-> Frame("call", sent[j].c, sent[j].args)]] IN
    IF last < Len(r.tools) THEN Terminate(s, "failed", "error") ELSE s

RenderGemini(r, e) ==
    CASE e.k \in {"text", "reasoning", "signature"} -> Send(r, e.k, 0, e.v)
      [] e.k = "begin" ->
            IF Reaches(r, e) = 0 THEN OpenCall(r, e, 0) ELSE [r EXCEPT !.tools[Reaches(r, e)].c = e.c]
      [] e.k = "args" ->
            IF Reaches(r, e) = 0 THEN r ELSE [r EXCEPT !.tools[Reaches(r, e)].args = Append(@, e.v)]
      [] e.k = "limit" -> [r EXCEPT !.limit = TRUE]
      [] e.k = "completed" ->
            LET s == CloseOpenCalls(r) IN
            IF s.done THEN s ELSE Terminate(s, "completed", IF r.limit THEN "length" ELSE "stop")
      [] e.k = "failed" -> Terminate(r, "failed", "error")
      [] OTHER -> r

(* ---- ChunkRenderer: calls are numbered by slots.                        *)
RolePrelude(r) == EnsureStarted(r)

Slot(r, e) ==
    IF Reaches(r, e) = 0 THEN OpenCall(r, e, Len(r.tools)) ELSE r

RenderChunk(r, e) ==
    CASE e.k \in {"text", "reasoning"} -> Send(RolePrelude(r), e.k, 0, e.v)
      [] e.k \in {"begin", "args"} ->
            LET s == Slot(RolePrelude(r), e) IN
            Send(s, e.k, s.tools[Reaches(s, e)].at, IF e.k = "begin" THEN e.c ELSE e.v)
      [] e.k = "limit" -> [r EXCEPT !.limit = TRUE]
      [] e.k = "completed" -> Terminate(RolePrelude(r), "completed", StopReason(r))
      [] e.k = "failed" -> Terminate(r, "failed", "error")
      [] OTHER -> r

MutRender(shape, r, e) ==
    CASE shape = "anthropic" -> RenderAnthropic(r, e)
      [] shape = "responses" -> RenderResponses(r, e)
      [] shape = "gemini" -> RenderGemini(r, e)
      [] shape = "chat" -> RenderChunk(r, e)

(* ---- StreamRenderer: a renderer that has terminated sends nothing more. *)
Render(shape, r, e) ==
    CASE r.done -> r
      [] shape = "anthropic" -> RenderAnthropic(r, e)
      [] shape = "responses" -> RenderResponses(r, e)
      [] shape = "gemini" -> RenderGemini(r, e)
      [] shape = "chat" -> RenderChunk(r, e)

(* The stream ended and no decoder said how: Gemini clients are told STOP.  *)
CloseUnterminated(shape, r) ==
    IF shape = "gemini" THEN Render(shape, r, Plain("completed")) ELSE Render(shape, r, Plain("failed"))

RenderAll(shape, r, es) == FoldLeft(LAMBDA s, e : Render(shape, s, e), r, es)

-----------------------------------------------------------------------------
(***************************************************************************)
(* An answer on its way through the gateway: messages of the upstream's    *)
(* protocol are decoded to events, and events rendered in the client's     *)
(* format, while the upstream may stop or break off at any point           *)
(* (streaming_body).  The same messages, collected, answer a client that   *)
(* does not stream (aggregate, anthropic_response).                        *)
(***************************************************************************)

CONSTANTS
    Protocol,   \* protocols of the upstreams
    Shape,      \* formats of the clients
    Call,       \* ids of tool calls, 1..n
    MaxMessage  \* bound: messages of one answer

VARIABLES
    dialect,    \* the upstream's protocol
    shape,      \* the client's format
    decoder,
    renderer,
    arrived,    \* messages so far
    upstream    \* "open", "ended" or "broken"

translationVars == <<dialect, shape, decoder, renderer, arrived, upstream>>

(* What an upstream of the protocol may send next: a call begins once, and *)
(* most protocols name it before its arguments.  Calls are numbered in the *)
(* order in which they are first mentioned.                                *)
Kinds(p) ==
    {"text", "reasoning", "begin", "args", "stop", "error"} \cup
    CASE p = "Codex" -> {"created", "incomplete"}
      [] p = "Anthropic" -> {"signature", "server", "limit"}
      [] p = "Antigravity" -> {"signature", "limit"}
      [] p = "Kiro" -> {"signature"}
      [] p = "Cursor" -> {"full"}
      [] p = "Devin" -> {"redacted", "limit", "end", "broken"}

Begun(c) == \E m \in Range(arrived) : m.k \in {"begin", "server"} /\ m.c = c

Incoming ==
    LET n == Len(arrived) + 1
        calls == Call \cup (IF dialect = "Devin" THEN {0} ELSE {}) IN
    {m \in [k : Kinds(dialect), c : {0} \cup Call, v : {0, n}] :
        /\ m.k \in {"begin", "args", "server"} => m.c \in calls
        /\ m.k \notin {"begin", "args", "server"} => m.c = 0
        /\ m.k \in {"begin", "server"} => m.c = 0 \/ ~Begun(m.c)
        /\ \A c \in Call : c < m.c => \E x \in Range(arrived) : x.c = c
        /\ m.k = "args" /\ dialect \notin {"Devin", "Cursor"} => Begun(m.c)
        /\ m.v = 0 => shape = "gemini" /\ (m.k = "args" \/ (m.k = "begin" /\ dialect = "Antigravity"))}

TranslationInit ==
    /\ dialect \in Protocol /\ shape \in Shape
    /\ decoder = NewDecoder /\ renderer = NewRenderer
    /\ arrived = <<>> /\ upstream = "open"

Fresh(d) == SubSeq(d.out, Len(decoder.out) + 1, Len(d.out))

(* Nothing is read once the client has its last frame.                     *)
Reading == upstream = "open" /\ ~renderer.done

Chunk ==
    /\ Reading /\ Len(arrived) < MaxMessage
    /\ \E m \in Incoming :
          LET d == Decode(dialect, decoder, m) IN
          /\ decoder' = d
          /\ renderer' = RenderAll(shape, renderer, Fresh(d))
          /\ arrived' = Append(arrived, m)
    /\ UNCHANGED <<dialect, shape, upstream>>

UpstreamEnds ==
    /\ Reading
    /\ LET d == Finish(dialect, decoder) IN
       /\ decoder' = d
       /\ renderer' = CloseUnterminated(shape, RenderAll(shape, renderer, Fresh(d)))
    /\ upstream' = "ended"
    /\ UNCHANGED <<dialect, shape, arrived>>

(* A transport error: error_frames, and the decoder is not asked.          *)
UpstreamBreaks ==
    /\ Reading
    /\ renderer' = Render(shape, renderer, Plain("failed"))
    /\ upstream' = "broken"
    /\ UNCHANGED <<dialect, shape, arrived, decoder>>

TranslationNext == Chunk \/ UpstreamEnds \/ UpstreamBreaks

-----------------------------------------------------------------------------
(* The collected answer.                                                   *)

Payloads(es, k) == LET some == SelectSeq(es, LAMBDA e : e.k = k) IN [j \in DOMAIN some |-> some[j].v]

ArgsOf(es, i) == Payloads(SelectSeq(es, LAMBDA e : e.i = i), "args")

Failed(es) == \E e \in Range(es) : e.k = "failed"

FinishOf(limited, calls) == IF limited THEN "length" ELSE IF calls # <<>> THEN "tools" ELSE "stop"

(* Aggregator: a call per begin, arguments to the first call of the index. *)
Aggregate(es) ==
    LET begins == SelectSeq(es, LAMBDA e : e.k = "begin")
        calls == [j \in DOMAIN begins |-> [c |-> begins[j].c, args |-> ArgsOf(es, begins[j].i)]] IN
    [text |-> Payloads(es, "text"), calls |-> calls,
     finish |-> FinishOf(\E e \in Range(es) : e.k = "limit", calls)]

(* anthropic_response: calls in the order of their indices.  A limit wins, *)
(* whether it comes before or after the calls.                             *)
MutAnthropicResponse(es) ==
    LET begins == SelectSeq(es, LAMBDA e : e.k = "begin") IN
    [Aggregate(es) EXCEPT !.finish = IF begins # <<>> THEN "tools" ELSE @]

AnthropicResponse(es) ==
    LET begins == SortSeq(SelectSeq(es, LAMBDA e : e.k = "begin"), LAMBDA a, b : a.i < b.i)
        calls == [j \in DOMAIN begins |-> [c |-> begins[j].c, args |-> ArgsOf(es, begins[j].i)]] IN
    [text |-> Payloads(es, "text"), calls |-> calls,
     finish |-> FinishOf(\E e \in Range(es) : e.k = "limit", calls)]

(* What a client makes of the frames it was sent.                          *)
FramesAt(out, f, i) == LET some == SelectSeq(out, LAMBDA x : x.f = f /\ x.i = i) IN [j \in DOMAIN some |-> some[j].v]

Assembled(out) ==
    LET begins == SelectSeq(out, LAMBDA x : x.f = "begin" \/ (x.f = "start" /\ x.v # 0))
        whole == SelectSeq(out, LAMBDA x : x.f = "call")
        text == SelectSeq(out, LAMBDA x : x.f = "text") IN
    [text |-> [j \in DOMAIN text |-> text[j].v],
     calls |-> [j \in DOMAIN begins |-> [c |-> begins[j].v, args |-> FramesAt(out, "args", begins[j].i)]]
               \o [j \in DOMAIN whole |-> [c |-> whole[j].i, args |-> whole[j].v]],
     finish |-> Last(out).v]

(* Two formats replay the events through the renderer of the stream.       *)
IntoGemini(es) == Assembled(RenderAll("gemini", NewRenderer, es).out)
ResponsesResponse(es) == Assembled(RenderAll("responses", NewRenderer, es).out)

Collected(s, es) ==
    CASE s = "chat" -> Aggregate(es)
      [] s = "anthropic" -> AnthropicResponse(es)
      [] s = "gemini" -> IntoGemini(es)
      [] s = "responses" -> ResponsesResponse(es)

-----------------------------------------------------------------------------
Over == renderer.done

(* Wherever the upstream stops, breaks off or reports a failure, the       *)
(* client's stream has one last frame that says how it ended, and nothing  *)
(* after it (streaming_body, close_unterminated, error_frames).            *)
OneTerminal ==
    LET last(x) == x.f \in {"completed", "failed"} IN
    /\ \A j \in DOMAIN renderer.out : last(renderer.out[j]) => j = Len(renderer.out)
    /\ upstream # "open" \/ Over => renderer.out # <<>> /\ last(Last(renderer.out))

(* Every block and item a client is told of is numbered in order, is told  *)
(* to stop exactly once before the end, and is written to only after it    *)
(* was opened (AnthropicStreamRenderer, ResponsesStreamRenderer).          *)
BlocksAreBracketed ==
    shape \in {"anthropic", "responses"} =>
        LET out == renderer.out
            starts == SelectSeq(out, LAMBDA x : x.f = "start")
            stops(i) == Cardinality({j \in DOMAIN out : out[j].f = "stop" /\ out[j].i = i}) IN
        /\ \A j \in DOMAIN starts : starts[j].i = j - 1 /\ stops(j - 1) <= 1
        /\ Over => \A j \in DOMAIN starts : stops(j - 1) = 1
        /\ \A j \in DOMAIN out : out[j].f \in {"text", "reasoning", "args", "stop"} =>
              \E h \in 1..(j - 1) : out[h].f = "start" /\ out[h].i = out[j].i

(* An answer that completed says the same to a client that streams, and to *)
(* one that has it collected: the text and the calls with their arguments, *)
(* and how it ended, the stream in the upstream's order.  A collected      *)
(* answer may have two Devin calls in another order when the first was     *)
(* named last.  A client of the Gemini format is spared the calls a limit  *)
(* cut short.                                                              *)
StreamedIsCollected ==
    Over /\ Last(renderer.out).f = "completed" =>
        /\ ~Failed(decoder.out)
        /\ LET streamed == Assembled(renderer.out)
               collected == Collected(shape, decoder.out) IN
           /\ streamed.text = collected.text /\ streamed.finish = collected.finish
           /\ Range(streamed.calls) = Range(collected.calls)
        /\ LET told == Aggregate(decoder.out)
               calls == IF shape = "gemini" THEN SelectSeq(told.calls, Parses) ELSE told.calls IN
           Assembled(renderer.out).text = told.text /\ Assembled(renderer.out).calls = calls

(* Decoders number calls so that every piece of arguments names a call     *)
(* that has begun, and no two calls share a number; a Devin call's early   *)
(* arguments are kept in order until it has begun.                         *)
ArgumentsFollowTheirCall ==
    LET es == decoder.out IN
    /\ \A j \in DOMAIN es : es[j].k = "args" => \E h \in 1..(j - 1) : es[h].k = "begin" /\ es[h].i = es[j].i
    /\ \A j, h \in DOMAIN es : es[j].k = "begin" /\ es[h].k = "begin" /\ es[j].i = es[h].i => j = h
=============================================================================
