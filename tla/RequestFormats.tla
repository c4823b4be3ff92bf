--------------------------- MODULE RequestFormats ---------------------------
(***************************************************************************)
(* A request's formats: which wire format it is in along its way, and what *)
(* the translation between two formats keeps.                              *)
(***************************************************************************)
EXTENDS Integers, Sequences, FiniteSets
LOCAL INSTANCE SequencesExt

-----------------------------------------------------------------------------
(***************************************************************************)
(* The formats a request passes through: the surface it arrives on chooses *)
(* a mode (routes.rs, cp_routes.rs), build_plan translates the body,       *)
(* resolve_target picks endpoint, body and protocol for the account that   *)
(* was selected, the upstream answers, and finish_success turns the answer *)
(* into what the client reads (relay.rs).  A body is represented by the    *)
(* wire format it is written in.                                           *)
(***************************************************************************)

CONSTANTS
    Surface,   \* the inference routes
    Provider   \* account kinds; a generic account by its adapter

VARIABLES
    stage,     \* "arrived", "planned", "dialled", "finished" or "refused"
    asked,     \* [surface, owner, stream]: owner of the model in the registry
    account_,  \* the selected account
    plan,      \* RelayPlan
    target,    \* UpstreamTarget
    reply      \* what the client gets: [wire, rendered]

wireVars == <<stage, asked, account_, plan, target, reply>>

Owners == {"openai", "anthropic", "antigravity", "devin", "other", "unlisted"}
Generic == {"meta", "xai", "kimi", "google", "anthropic", "mimo-free", "openai-responses", "openai-chat"}
NoPlan == [mode |-> "none", path |-> "none", body |-> "none", openai |-> FALSE, original |-> "none", stream |-> FALSE]
NoTarget == [endpoint |-> "none", sent |-> "none", protocol |-> "none"]
NoReply == [wire |-> "none", rendered |-> FALSE]

WireInit ==
    /\ stage = "arrived"
    /\ asked \in [surface : Surface, owner : Owners, stream : BOOLEAN]
    /\ account_ \in Provider
    /\ account_ \in {"meta", "xai", "kimi"} => asked.owner \in {"other", "unlisted"}   \* they sell their own models
    /\ plan = NoPlan /\ target = NoTarget /\ reply = NoReply

(* The format the client of a surface reads and writes.                    *)
ClientWire(s) ==
    CASE s = "chat" -> "chat" [] s = "messages" -> "anthropic" [] s = "completions" -> "text"
      [] s \in {"responses", "codex_responses"} -> "responses" [] s = "compact" -> "compaction"
      [] s = "generate" -> "gemini" [] s = "count" -> "gemini_count" [] s = "images" -> "image" [] s = "search" -> "search"

---------------------------------------------------------------------------
(* Handlers.  Compaction asks the provider that has it, and otherwise for  *)
(* a summary that is sealed afterwards.                                    *)
Summarizes(a) == a.surface = "compact" /\ a.owner \in {"anthropic", "antigravity"}

Admitted(a) ==
    /\ a.surface = "compact" => a.owner = "openai" \/ Summarizes(a)
    /\ a.surface = "search" => a.owner = "openai"

ModeOf(a) ==
    CASE a.surface = "chat" -> "OpenAiCompat" [] a.surface = "messages" -> "Anthropic" [] a.surface = "completions" -> "LegacyCompletions"
      [] a.surface = "generate" -> "GeminiNative" [] a.surface = "count" -> "GeminiCountTokens" [] a.surface = "images" -> "Image"
      [] a.surface = "responses" -> IF a.owner \in {"openai", "unlisted"} THEN "Native" ELSE "Responses"
      [] a.surface = "codex_responses" -> IF a.owner = "devin" THEN "Responses" ELSE "Native"
      [] a.surface = "compact" -> IF Summarizes(a) THEN "Responses" ELSE "Native"
      [] a.surface = "search" -> "Native"

(* build_plan: body is what Codex would be sent, openai whether a chat     *)
(* body could be made, original what the client (or its handler) wrote.    *)
BuildPlan(a, translated) ==
    LET mode == ModeOf(a)
        wrote == IF a.surface = "completions" THEN "chat" ELSE IF Summarizes(a) THEN "responses" ELSE ClientWire(a.surface)
    IN  [mode |-> mode,
         path |-> IF mode \in {"OpenAiCompat", "LegacyCompletions", "Anthropic", "Responses"} THEN "responses" ELSE wrote,
         body |-> IF mode \in {"OpenAiCompat", "LegacyCompletions", "Anthropic"} THEN "responses" ELSE wrote,
         openai |-> \/ mode \in {"OpenAiCompat", "LegacyCompletions", "Anthropic", "Responses"}
                    \/ mode = "GeminiNative" /\ translated,
         original |-> wrote,
         stream |-> CASE mode = "Native" -> TRUE [] mode \in {"GeminiCountTokens", "Image"} -> FALSE
                      [] OTHER -> a.stream /\ ~Summarizes(a)]

Plan ==
    /\ stage = "arrived"
    /\ IF Admitted(asked)
       THEN stage' = "planned" /\ \E translated \in BOOLEAN : plan' = BuildPlan(asked, translated)
       ELSE stage' = "refused" /\ UNCHANGED plan
    /\ UNCHANGED <<asked, account_, target, reply>>

---------------------------------------------------------------------------
Target(endpoint, sent, protocol) == {[endpoint |-> endpoint, sent |-> sent, protocol |-> protocol]}
FromOpenAi(q, endpoint, protocol) == IF q.openai THEN Target(endpoint, endpoint, protocol) ELSE {}

(* Gemini clients: Devin by way of a chat body, Antigravity as it is.      *)
GeminiTarget(p, q) ==
    CASE p = "devin" -> FromOpenAi(q, "devin", "Devin")
      [] p = "antigravity" -> Target("antigravity", "antigravity", "Antigravity")
      [] OTHER -> {}

MutXaiTarget(q) == Target(IF q.mode \in {"OpenAiCompat", "LegacyCompletions"} THEN "chat" ELSE "responses", q.body, "Codex")

XaiTarget(q) ==
    IF q.mode \in {"OpenAiCompat", "LegacyCompletions"} THEN Target("chat", q.original, "Codex") ELSE Target("responses", q.body, "Codex")

KimiTarget(q) ==
    CASE q.mode = "Anthropic" -> Target("anthropic", q.original, "Anthropic")
      [] q.mode \in {"Responses", "Native"} -> Target("responses", q.original, "Codex")
      [] OTHER -> FromOpenAi(q, "chat", "Codex")

(* Meta's prepare_request turns a chat body into a Responses body.         *)
MetaTarget(q) == IF q.mode \in {"Responses", "Native"} THEN Target("responses", q.original, "Codex") ELSE FromOpenAi(q, "responses", "Codex")

(* A plain OpenAI endpoint is sent what the client wrote.                  *)
GenericTarget(p, q) ==
    CASE p = "meta" -> MetaTarget(q)
      [] p = "xai" -> XaiTarget(q)
      [] p = "kimi" -> KimiTarget(q)
      [] p = "google" -> FromOpenAi(q, "gemini", "Antigravity")
      [] p = "anthropic" -> FromOpenAi(q, "anthropic", "Anthropic")
      [] p = "mimo-free" -> FromOpenAi(q, "chat", "Codex")
      [] p = "openai-responses" -> IF q.openai THEN Target("responses", q.body, "Codex") ELSE {}
      [] OTHER -> IF q.openai THEN Target("chat", q.original, "Codex") ELSE {}

(* Claude and Z-code: an Anthropic body keeps its layout.                  *)
AnthropicTarget(q) == IF q.mode = "Anthropic" THEN Target("anthropic", q.original, "Anthropic") ELSE FromOpenAi(q, "anthropic", "Anthropic")

DevinTarget(q) == IF q.mode = "Native" THEN {} ELSE FromOpenAi(q, "devin", "Devin")
VertexTarget(q) == FromOpenAi(q, "gemini", "Antigravity")
CursorTarget(q) == FromOpenAi(q, "cursor", "Cursor")
KiroTarget(q) == FromOpenAi(q, "kiro", "Kiro")
AntigravityTarget(q) == FromOpenAi(q, "antigravity", "Antigravity")
CodexTarget(q) == Target(q.path, q.body, "Codex")

(* resolve_target: the empty set is its error.                             *)
ResolveTarget(p, q) ==
    CASE q.mode = "Image" -> Target("image", q.original, "Codex")
      [] q.mode = "GeminiCountTokens" -> IF p = "antigravity" THEN Target("gemini_count", "gemini_count", "Antigravity") ELSE {}
      [] q.mode = "GeminiNative" -> GeminiTarget(p, q)
      [] p = "devin" -> DevinTarget(q)
      [] p = "vertex" -> VertexTarget(q)
      [] p \in Generic -> GenericTarget(p, q)
      [] p = "cursor" -> CursorTarget(q)
      [] p = "kiro" -> KiroTarget(q)
      [] p \in {"claude", "zcode"} -> AnthropicTarget(q)
      [] p = "antigravity" -> AntigravityTarget(q)
      [] OTHER -> CodexTarget(q)

Dial ==
    /\ stage = "planned"
    /\ IF ResolveTarget(account_, plan) = {}
       THEN stage' = "refused" /\ UNCHANGED target
       ELSE stage' = "dialled" /\ target' \in ResolveTarget(account_, plan)
    /\ UNCHANGED <<asked, account_, plan, reply>>

---------------------------------------------------------------------------
MutReplyShape(mode) ==
    CASE mode = "GeminiNative" -> "gemini" [] mode = "LegacyCompletions" -> "text" [] OTHER -> "chat"

ReplyShape(mode) ==
    CASE mode = "GeminiNative" -> "gemini" [] mode = "LegacyCompletions" -> "text" [] mode = "Responses" -> "responses" [] OTHER -> "chat"

Rendered(w) == {[wire |-> w, rendered |-> TRUE]}
Relayed(w) == {[wire |-> w, rendered |-> FALSE]}

(* A JSON answer to a client that does not stream is translated as a whole. *)
TakesJson(p, q, t) == ~q.stream /\ (t.protocol = "Anthropic" \/ p \in {"vertex", "google"})

JsonAnswer(p, q) ==
    Relayed(CASE q.mode = "Responses" -> "responses"
              [] q.mode = "Anthropic" /\ p \notin {"vertex", "google"} -> "anthropic"
              [] OTHER -> "chat")

(* open_stream: anything else has to be an event stream, or binary frames. *)
Opens(t, form) == form = "events" \/ t.protocol \in {"Kiro", "Cursor"}

AnthropicAnswer(q) == Rendered("anthropic")

(* streaming_body has no renderer for text completions.                    *)
StreamedAnswer(q) == Rendered(IF ReplyShape(q.mode) = "text" THEN "chat" ELSE ReplyShape(q.mode))

CollectedAnswer(q) == Rendered(ReplyShape(q.mode))

(* finish_success, given the form the answer came in; the empty set is an  *)
(* error, and the walk goes on to another account.                         *)
FinishSuccess(p, q, t, form) ==
    CASE form = "html" \/ (t.protocol = "Devin" /\ form # "events") -> {}
      [] p \in Generic \ {"google", "anthropic"} -> Relayed(t.endpoint)
      [] q.mode \in {"Native", "Image", "GeminiCountTokens"} -> Relayed(t.endpoint)
      [] form = "json" /\ TakesJson(p, q, t) -> JsonAnswer(p, q)
      [] ~Opens(t, form) -> {}
      [] q.mode = "Anthropic" -> AnthropicAnswer(q)
      [] q.stream -> StreamedAnswer(q)
      [] OTHER -> CollectedAnswer(q)

(* The handler's part: a summary is sealed, if the answer can be read.     *)
Answer ==
    /\ stage = "dialled"
    /\ \E form \in {"json", "events", "html"} :
           LET answers == FinishSuccess(account_, plan, target, form) IN
           IF answers = {} \/ (Summarizes(asked) /\ form # "json" /\ \E r \in answers : ~r.rendered)
           THEN stage' = "refused" /\ UNCHANGED reply
           ELSE /\ stage' = "finished"
                /\ \E r \in answers : reply' = IF Summarizes(asked) THEN [r EXCEPT !.wire = "compaction"] ELSE r
    /\ UNCHANGED <<asked, account_, plan, target>>

WireNext == Plan \/ Dial \/ Answer

---------------------------------------------------------------------------
(* Whatever account is selected, the endpoint is sent a body in the format *)
(* it reads.  Accounts of plain OpenAI endpoints are left out: they are    *)
(* sent what the client wrote, whatever that was.                          *)
BodyFitsEndpoint ==
    (stage \in {"dialled", "finished"} /\ account_ # "openai-chat") => target.sent = target.endpoint

(* An answer that was decoded into events is rendered in the format of     *)
(* the surface the request arrived on.  Text completions are left out.     *)
RenderedFitsClient ==
    (stage = "finished" /\ reply.rendered /\ asked.surface # "completions") => reply.wire = ClientWire(asked.surface)

(* Every answer is in the format of the surface: what is relayed verbatim  *)
(* has to come from an endpoint that speaks it.                            *)
AnsweredInItsOwnWire ==
    stage = "finished" => reply.wire = ClientWire(asked.surface)

-----------------------------------------------------------------------------
(***************************************************************************)
(* A conversation on its way from the client's format to the upstream's.   *)
(* Every client format is read into the chat format (anthropic_to_openai,  *)
(* gemini_to_openai, responses_to_openai) and written from there           *)
(* (openai_to_codex, openai_to_anthropic, openai_to_gemini,                *)
(* openai_to_kiro, openai_to_cursor_connect, build_chat_request).          *)
(*                                                                         *)
(* A message is a role and a sequence of items: texts, images, calls of    *)
(* tools and their results.  Items are numbered; a result has the number   *)
(* of the call it answers, which no format carries: calls and results find *)
(* each other by the id or the name the client gave them.                  *)
(***************************************************************************)

CONSTANTS
    ClientFormat,   \* of "chat", "anthropic", "gemini", "responses"
    CallId,         \* ids clients use, as tuples; <<>> stands for none
    ToolName,
    MaxTurn

VARIABLES
    client,         \* the format the client speaks
    turns,          \* what was said so far, one message per turn
    options         \* what the client asks for beside it

requestVars == <<client, turns, options>>

TextItem(n) == [k |-> "text", n |-> n]
ImageItem(n, remote) == [k |-> "image", n |-> n, remote |-> remote]
CallItem(n, id, name) == [k |-> "call", n |-> n, id |-> id, name |-> name]
ResultItem(call) == [call EXCEPT !.k = "result"]

Message(role, items) == [role |-> role, items |-> items]
Of(kind, items) == SelectSeq(items, LAMBDA x : x.k = kind)
Texts(items) == Of("text", items)
Images(items) == Of("image", items)
Calls(items) == Of("call", items)
Results(items) == Of("result", items)
Each(role, items) == [j \in DOMAIN items |-> Message(role, <<items[j]>>)]
Unless(empty, message) == IF empty = <<>> THEN <<>> ELSE <<message>>

Good(messages) == [ok |-> TRUE, body |-> messages]
Bad == [ok |-> FALSE, body |-> <<>>]

-----------------------------------------------------------------------------
(* Into the chat format.                                                   *)

(* anthropic_to_openai: the results of a message follow its text, and an   *)
(* image that is not inline is left out.                                   *)
MutAnthropicMessage(m) ==
    LET inline == SelectSeq(Images(m.items), LAMBDA x : ~x.remote) IN
    CASE m.role = "assistant" /\ Calls(m.items) # <<>> -> <<Message("assistant", Texts(m.items) \o Calls(m.items))>>
      [] Results(m.items) # <<>> -> <<>>
      [] OTHER -> Unless(Texts(m.items) \o inline, Message(m.role, Texts(m.items) \o inline))

AnthropicMessage(m) ==
    LET inline == SelectSeq(Images(m.items), LAMBDA x : ~x.remote) IN
    IF m.role = "assistant" /\ Calls(m.items) # <<>>
    THEN <<Message("assistant", Texts(m.items) \o Calls(m.items))>>
    ELSE Unless(Texts(m.items) \o inline, Message(m.role, Texts(m.items) \o inline))

AnthropicToOpenai(ms) ==
    Good(FlattenSeq([j \in DOMAIN ms |-> AnthropicMessage(ms[j]) \o Each("tool", Results(ms[j].items))]))

(* gemini_to_openai: a result without an id is given to the one pending    *)
(* call of its name.                                                       *)
PendingFor(pending, r) ==
    SelectSeq(pending, LAMBDA c : IF r.id = <<>> THEN c.name = r.name ELSE c.id = r.id)

MutGeminiItem(g, x) ==
    LET found == PendingFor(g.pending, x)
        named == [x EXCEPT !.id = IF x.id = <<>> THEN <<"synthetic", x.n>> ELSE x.id] IN
    CASE x.k = "call" ->
            [g EXCEPT !.pending = Append(@, named), !.items = Append(@, named)]
      [] x.k = "result" /\ x.id = <<>> /\ found = <<>> -> [g EXCEPT !.ok = FALSE]
      [] x.k = "result" ->
            [g EXCEPT !.pending = SelectSeq(@, LAMBDA c : found = <<>> \/ c # found[1]),
                      !.items = Append(@, [x EXCEPT !.id = IF x.id = <<>> THEN found[1].id ELSE x.id])]
      [] OTHER -> [g EXCEPT !.items = Append(@, x)]

GeminiItem(g, x) ==
    LET found == PendingFor(g.pending, x)
        named == [x EXCEPT !.id = IF x.id = <<>> THEN <<"synthetic", x.n>> ELSE x.id] IN
    CASE x.k = "call" ->
            [g EXCEPT !.pending = Append(@, named), !.items = Append(@, named)]
      [] x.k = "result" /\ x.id = <<>> /\ Len(found) # 1 -> [g EXCEPT !.ok = FALSE]
      [] x.k = "result" ->
            [g EXCEPT !.pending = SelectSeq(@, LAMBDA c : found = <<>> \/ c # found[1]),
                      !.items = Append(@, [x EXCEPT !.id = IF x.id = <<>> THEN found[1].id ELSE x.id])]
      [] OTHER -> [g EXCEPT !.items = Append(@, x)]

GeminiTurn(g, m) ==
    LET h == FoldLeft(GeminiItem, [g EXCEPT !.items = <<>>], m.items)
        said == SelectSeq(h.items, LAMBDA x : x.k \in {"text", "image"}) IN
    [h EXCEPT !.body = @ \o
        (IF m.role = "assistant" THEN <<Message("assistant", Texts(h.items) \o Calls(h.items))>>
         ELSE Unless(said, Message("user", said)) \o Each("tool", Results(h.items))),
        !.ok = @ /\ (m.role = "assistant" => Images(m.items) = <<>>)]

GeminiToOpenai(ms) ==
    LET g == FoldLeft(GeminiTurn, [pending |-> <<>>, items |-> <<>>, body |-> <<>>, ok |-> TRUE], ms) IN
    IF g.ok THEN Good(g.body) ELSE Bad

(* responses_to_openai: a call is a message of its own; histories in which *)
(* ids do not pair up are refused, and so are remote images.               *)
PairsUp(items) ==
    LET Distinct(s) == \A i, j \in DOMAIN s : i # j => s[i].id # s[j].id IN
    /\ Distinct(Calls(items)) /\ Distinct(Results(items))
    /\ \A j \in DOMAIN items :
        /\ items[j].k \in {"call", "result"} => items[j].id # <<>>
        /\ items[j].k = "result" => \E i \in 1..(j - 1) : items[i].k = "call" /\ items[i].id = items[j].id

ResponsesMessage(m) ==
    LET said == Texts(m.items) \o Images(m.items) IN Unless(said, Message(m.role, said))

ResponsesToOpenai(ms) ==
    LET items == FlattenSeq([j \in DOMAIN ms |-> ms[j].items]) IN
    IF PairsUp(items) /\ \A j \in DOMAIN items : ~(items[j].k = "image" /\ items[j].remote)
    THEN Good(FlattenSeq([j \in DOMAIN ms |-> Each("tool", Results(ms[j].items)) \o ResponsesMessage(ms[j])
                                               \o Each("assistant", Calls(ms[j].items))]))
    ELSE Bad

(* A chat client writes its results as messages itself.                    *)
ChatClient(ms) ==
    Good(FlattenSeq([j \in DOMAIN ms |->
        LET rest == SelectSeq(ms[j].items, LAMBDA x : x.k # "result") IN
        Each("tool", Results(ms[j].items)) \o Unless(rest, Message(ms[j].role, rest))]))

IntoChat(format, ms) ==
    CASE format = "chat" -> ChatClient(ms)
      [] format = "anthropic" -> AnthropicToOpenai(ms)
      [] format = "gemini" -> GeminiToOpenai(ms)
      [] format = "responses" -> ResponsesToOpenai(ms)

-----------------------------------------------------------------------------
(* Out of the chat format.                                                 *)

(* split_messages                                                          *)
OpenaiToCodex(ms) ==
    Good(FlattenSeq([j \in DOMAIN ms |->
        IF ms[j].role = "assistant"
        THEN Unless(Texts(ms[j].items), Message("assistant", Texts(ms[j].items))) \o Each("assistant", Calls(ms[j].items))
        ELSE <<ms[j]>>]))

(* openai_to_anthropic: results join the message before them if it is the  *)
(* user's; only the four image types are taken.                            *)
AnthropicTurn(out, m) ==
    IF m.role = "tool" /\ out # <<>> /\ Last(out).role = "user"
    THEN [out EXCEPT ![Len(out)].items = @ \o m.items]
    ELSE out \o Unless(m.items, Message(IF m.role = "tool" THEN "user" ELSE m.role, m.items))

OpenaiToAnthropic(ms) == Good(FoldLeft(AnthropicTurn, <<>>, ms))

(* openai_to_gemini: an id that was used before gets a number, and results *)
(* take the number of the first pending call of their id.                  *)
OutboundCall(g, c) ==
    LET id == IF c.id = <<>> THEN <<"generated", c.name, g.made>> ELSE c.id
        uses == Cardinality({i \in DOMAIN g.used : g.used[i] = id})
        outbound == IF uses = 0 THEN id ELSE Append(id, uses + 1) IN
    [g EXCEPT !.pending = Append(@, [call |-> c, id |-> outbound]), !.used = Append(@, id),
              !.made = @ + (IF c.id = <<>> THEN 1 ELSE 0), !.out = Append(@, [c EXCEPT !.id = outbound])]

GeminiResult(g, r) ==
    LET at == SelectInSeq(g.pending, LAMBDA p : p.call.id = r.id) IN
    IF at = 0 THEN [g EXCEPT !.ok = FALSE]
    ELSE [g EXCEPT !.pending = RemoveAt(@, at), !.out = <<[r EXCEPT !.id = g.pending[at].id]>>]

OnlyResults(m) == m.role = "user" /\ \A j \in DOMAIN m.items : m.items[j].k = "result"

GeminiMessage(g, m) ==
    LET inline == SelectSeq(m.items, LAMBDA x : ~(x.k = "image" /\ x.remote))
        called == FoldLeft(OutboundCall, [g EXCEPT !.out = <<>>], Calls(m.items))
        answered == GeminiResult(g, m.items[1]) IN
    CASE m.role = "assistant" ->
            [called EXCEPT !.body = @ \o Unless(Texts(m.items) \o called.out, Message("model", Texts(m.items) \o called.out))]
      [] m.role = "tool" /\ g.body # <<>> /\ OnlyResults(Last(g.body)) ->
            [answered EXCEPT !.body = [@ EXCEPT ![Len(@)].items = @ \o answered.out]]
      [] m.role = "tool" -> [answered EXCEPT !.body = Append(@, Message("user", answered.out))]
      [] OTHER -> [g EXCEPT !.body = @ \o Unless(inline, Message("user", inline))]

(* A request may not end with the model's turn.                            *)
RECURSIVE StripModelTail(_)
StripModelTail(ms) == IF ms # <<>> /\ Last(ms).role = "model" THEN StripModelTail(Front(ms)) ELSE ms

OpenaiToGemini(ms) ==
    LET g == FoldLeft(GeminiMessage,
                [pending |-> <<>>, used |-> <<>>, made |-> 0, out |-> <<>>, body |-> <<>>, ok |-> TRUE], ms) IN
    IF g.ok THEN Good(StripModelTail(g.body)) ELSE Bad

(* openai_to_kiro: the results at the end, or the last user message, are   *)
(* the current message; results before that stay as text.                  *)
OpenaiToKiro(ms) ==
    LET tail == SelectLastInSeq(ms, LAMBDA m : m.role # "tool")
        results == SubSeq(ms, tail + 1, Len(ms))
        spoken == tail > 0 /\ ms[tail].role = "user"
        history == SubSeq(ms, 1, IF spoken THEN tail - 1 ELSE tail)
        AsText(m) == IF m.role = "tool" THEN Message("user", <<>>) ELSE Message(m.role, Texts(m.items) \o Calls(m.items))
        current == (IF spoken THEN ms[tail].items ELSE <<>>) \o FlattenSeq([j \in DOMAIN results |-> results[j].items]) IN
    IF ms = <<>> THEN Bad
    ELSE Good([j \in DOMAIN history |-> AsText(history[j])] \o <<Message("user", current)>>)

(* openai_to_cursor_connect: the last message is the user's text.          *)
OpenaiToCursor(ms) ==
    IF ms = <<>> \/ (Texts(Last(ms).items) = <<>> /\ Results(Last(ms).items) = <<>>) THEN Bad
    ELSE Good(Front(ms) \o <<Message("user", Texts(Last(ms).items))>>)

(* build_chat_request, build_prompt: remote images are refused.            *)
OpenaiToDevin(ms) ==
    IF \E j \in DOMAIN ms : \/ \E i \in DOMAIN ms[j].items :
                                    ms[j].role = "user" /\ ms[j].items[i].k = "image" /\ ms[j].items[i].remote
                            \/ ms[j].role = "tool" /\ ms[j].items[1].id = <<>>
    THEN Bad ELSE Good(ms)

Upstreams == {"codex", "anthropic", "gemini", "kiro", "cursor", "devin"}

Sent(upstream_, chat) ==
    IF ~chat.ok THEN Bad
    ELSE CASE upstream_ = "codex" -> OpenaiToCodex(chat.body)
           [] upstream_ = "anthropic" -> OpenaiToAnthropic(chat.body)
           [] upstream_ = "gemini" -> OpenaiToGemini(chat.body)
           [] upstream_ = "kiro" -> OpenaiToKiro(chat.body)
           [] upstream_ = "cursor" -> OpenaiToCursor(chat.body)
           [] upstream_ = "devin" -> OpenaiToDevin(chat.body)

-----------------------------------------------------------------------------
(* Options: what is sent for a tool choice and a response format; "-" is   *)
(* nothing, "refused" fails the request.                                   *)

ToolChoices == {"-", "auto", "none", "required", "named", "odd"}
ResponseFormats == {"-", "text", "json_object", "json_schema", "odd"}

CodexOptions(o) ==
    [choice |-> o.choice, format |-> IF o.format = "odd" THEN "refused" ELSE o.format]

MutAnthropicOptions(o) ==
    [choice |-> IF o.choice \in {"odd", "named"} THEN "-" ELSE o.choice, format |-> o.format]

AnthropicOptions(o) ==
    [choice |-> IF o.choice = "odd" THEN "refused" ELSE o.choice,
     format |-> IF o.format \in {"-", "text"} THEN "-" ELSE "refused"]

GeminiOptions(o) == [choice |-> IF o.choice = "odd" THEN "-" ELSE o.choice, format |-> "-"]

DevinOptions(o) ==
    [choice |-> IF o.choice \in {"-", "auto", "none"} THEN o.choice ELSE "refused",
     format |-> IF o.format = "json_schema" THEN "refused" ELSE "-"]

-----------------------------------------------------------------------------
(* Clients that keep to the protocol: every call is answered in the next   *)
(* turn, and the ids of one turn are distinct.                             *)

NoOptions == [choice |-> "-", format |-> "-"]

RequestInit ==
    /\ client \in ClientFormat /\ turns = <<>>
    /\ options \in [choice : ToolChoices, format : ResponseFormats]

Used == Cardinality({<<i, j>> \in (1..MaxTurn) \X (1..4) : i \in DOMAIN turns /\ j \in DOMAIN turns[i].items})

Say(role, items) ==
    /\ Len(turns) < MaxTurn /\ options = NoOptions
    /\ turns' = Append(turns, Message(role, items))
    /\ UNCHANGED <<client, options>>

OpenCalls == IF turns = <<>> THEN <<>> ELSE Calls(Last(turns).items)

(* Images stand in turns without results.                                  *)
UserSays ==
    /\ turns # <<>> => Last(turns).role = "assistant"
    /\ \E order \in {OpenCalls, Reverse(OpenCalls)}, text \in BOOLEAN, image \in {"none", "inline", "remote"} :
        LET items == [j \in DOMAIN order |-> ResultItem(order[j])]
                     \o (IF text THEN <<TextItem(Used + 1)>> ELSE <<>>)
                     \o (IF image # "none" THEN <<ImageItem(Used + 2, image = "remote")>> ELSE <<>>) IN
        /\ items # <<>> /\ Say("user", items)
        /\ image # "none" => turns = <<>>

(* A text, one call, or two calls: with distinct ids, or none.             *)
ModelSays ==
    /\ turns # <<>> /\ Last(turns).role = "user"
    /\ \E text \in BOOLEAN, ids \in {s \in SeqOf(CallId, 2) : Len(s) = 2 => (s[1] # s[2]) = (<<>> \notin Range(s))} :
        \E second \in ToolName :
            LET first == CHOOSE name \in ToolName : TRUE
                items == (IF text THEN <<TextItem(Used + 1)>> ELSE <<>>)
                         \o [j \in DOMAIN ids |-> CallItem(Used + 1 + j, ids[j], IF j = 1 THEN first ELSE second)] IN
            /\ items # <<>> /\ Say("assistant", items)
            /\ <<>> \in Range(ids) => client = "gemini"
            /\ text => Len(ids) < 2

RequestNext == UserSays \/ ModelSays

-----------------------------------------------------------------------------
Items(ms) == FlattenSeq([j \in DOMAIN ms |-> ms[j].items])

(* The call an upstream takes result j of its body for: the nearest before *)
(* it that has the same id.                                                *)
TakenFor(items, j) ==
    LET same == {i \in 1..(j - 1) : items[i].k = "call" /\ items[i].id = items[j].id} IN
    IF same = {} THEN 0 ELSE items[CHOOSE i \in same : \A o \in same : o <= i].n

(* Whatever the client's format and the upstream's, a result that is sent  *)
(* is taken for the result of the call it answers: ids that come back in a *)
(* later turn, calls without ids, and results in another order than their  *)
(* calls included (anthropic_to_openai, gemini_to_openai,                  *)
(* responses_to_openai and the six writers).                               *)
ResultsReachTheirCalls ==
    \A u \in Upstreams :
        LET body == Items(Sent(u, IntoChat(client, turns)).body) IN
        \A j \in DOMAIN body : body[j].k = "result" => TakenFor(body, j) = body[j].n

(* No text of the conversation is lost, repeated or moved before an        *)
(* earlier one; only the model's last words are left out for Gemini, which *)
(* does not take them (openai_to_gemini_inner).                            *)
TextsAreKept ==
    \A u \in Upstreams :
        LET sent == Sent(u, IntoChat(client, turns))
            said == Texts(Items(turns))
            kept == Texts(Items(sent.body)) IN
        sent.ok =>
            \/ kept = said
            \/ /\ u = "gemini" /\ IsPrefix(kept, said)
               /\ Range(Texts(Items(SelectSeq(turns, LAMBDA m : m.role = "user")))) \subseteq Range(kept)

(* A tool the client insists on is never silently optional, and a          *)
(* structured answer it asks for is honoured or refused (map_tool_choice,  *)
(* openai_to_anthropic_with_capability, build_chat_request).               *)
InsistenceIsHonoured ==
    /\ options.choice \in {"required", "named"} =>
            \A o \in {CodexOptions(options), AnthropicOptions(options), GeminiOptions(options), DevinOptions(options)} :
                o.choice \in {options.choice, "refused"}
    /\ options.format = "json_schema" =>
            \A o \in {CodexOptions(options), AnthropicOptions(options), DevinOptions(options)} :
                o.format \in {"json_schema", "refused"}

(* Texts, calls and results reach Devin in the order in which they were    *)
(* said, as the plan of its integration asks.                              *)
OrderIsKept ==
    LET sent == Sent("devin", IntoChat(client, turns))
        Spoken(ms) == SelectSeq(Items(ms), LAMBDA x : x.k # "image") IN
    sent.ok =>
        /\ Len(Spoken(sent.body)) = Len(Spoken(turns))
        /\ \A j \in DOMAIN Spoken(turns) : /\ Spoken(sent.body)[j].k = Spoken(turns)[j].k
                                          /\ Spoken(sent.body)[j].n = Spoken(turns)[j].n
=============================================================================
