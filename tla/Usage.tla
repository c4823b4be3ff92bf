------------------------------- MODULE Usage --------------------------------
(***************************************************************************)
(* What the gateway knows of an account's usage,                           *)
(* crates/gateway/src/usage.rs: samples of cumulative counters, the        *)
(* windows of a Codex account, and the tokens of an answer; and what is    *)
(* made of it for Claude accounts: budgets, their order, and the watch for *)
(* broken prefixes. The parts share no state.                              *)
(***************************************************************************)
EXTENDS Integers, Sequences
LOCAL INSTANCE SequencesExt
LOCAL INSTANCE FiniteSets
LOCAL INSTANCE FiniteSetsExt

-----------------------------------------------------------------------------
(***************************************************************************)
(* UsageSampleStore, crates/gateway/src/usage.rs: samples of an upstream's *)
(* cumulative counter, kept per account and appended to a log that is      *)
(* rewritten when it has grown, when an account is dropped, and when it is *)
(* in its old shape.  Appends and rewrites fail, and a crash tears a line. *)
(***************************************************************************)

CONSTANTS
    Owner,        \* account ids
    MaxSamples,   \* MAX_SAMPLES
    SpanSecs,     \* SPAN_SECS
    GrowthFactor, \* COMPACT_GROWTH_FACTOR
    MaxUnix,      \* bound: samples, one per tick
    MaxCount      \* bound: what the upstream counts

VARIABLES
    unix,       \* the clock
    windows,    \* owner -> its samples, each [unix, tokens, truth]
    tracked,    \* the allowlist
    log,        \* the file: lines [owner, sample], a torn one has owner "torn"
    legacy,     \* migration_pending
    appended,   \* lines appended since the last rewrite
    meter,      \* the upstream's counter, and all it ever counted
    faulty      \* history: a write failed, or a line was torn

sampleVars == <<unix, windows, tracked, log, legacy, appended, meter, faulty>>

NoWindows == [o \in Owner |-> <<>>]
Torn == [owner |-> "torn", sample |-> [unix |-> 0, tokens |-> 0, truth |-> 0]]

SamplesInit ==
    /\ unix = 1 /\ windows = NoWindows /\ tracked = Owner
    /\ log = <<>> /\ legacy \in BOOLEAN /\ appended = 0
    /\ meter = [shown |-> 0, truth |-> 0] /\ faulty = FALSE

-----------------------------------------------------------------------------
(* A fault; one is enough, since the first voids what is said of the log.  *)
Fault == ~faulty /\ faulty' = TRUE

(* prune_window: by age against the newest sample, then from the front.    *)
PruneWindow(w) ==
    IF w = <<>> THEN w
    ELSE LET young == SelectSeq(w, LAMBDA s : s.unix >= Last(w).unix - SpanSecs)
         IN SubSeq(young, Max({1, Len(young) - MaxSamples + 1}), Len(young))

(* parse_log: lines that do not parse are skipped.                         *)
ParseLog(lines) ==
    [o \in Owner |-> PruneWindow(FoldLeft(
        LAMBDA w, line : IF line.owner = o THEN Append(w, line.sample) ELSE w, <<>>, lines))]

Lines(w) == MapThenSumSet(LAMBDA o : Len(w[o]), Owner)

(* rewrite_log: atomic; the lines of all windows.                          *)
RenderOf(w) ==
    FoldSet(LAMBDA o, lines : lines \o [i \in 1..Len(w[o]) |-> [owner |-> o, sample |-> w[o][i]]], <<>>, Owner)

RewriteLog(w, count) ==
    \/ log' = RenderOf(w) /\ legacy' = FALSE /\ appended' = 0 /\ faulty' = faulty
    \/ log' = log /\ legacy' = legacy /\ appended' = count /\ Fault

(* append_line behind a torn line completes that line, and parses no more. *)
AppendLine(lines, line) ==
    IF lines # <<>> /\ Last(lines).owner = "torn"
    THEN Append(Front(lines), [Torn EXCEPT !.owner = "garbled"])
    ELSE Append(lines, line)

(* push, with its lock held throughout.                                    *)
Push(o) ==
    LET sample == [unix |-> unix, tokens |-> meter.shown, truth |-> meter.truth]
        kept == [windows EXCEPT ![o] = PruneWindow(Append(@, sample))]
        longer == AppendLine(log, [owner |-> o, sample |-> sample]) IN
    /\ unix < MaxUnix /\ unix' = unix + 1
    /\ IF o \notin tracked THEN UNCHANGED <<windows, log, legacy, appended, faulty>>
       ELSE /\ windows' = kept
            /\ \/ legacy /\ RewriteLog(kept, appended)
               \/ /\ ~legacy /\ appended + 1 > Lines(kept) * GrowthFactor
                  /\ RewriteLog(kept, appended + 1)
               \/ /\ ~legacy /\ appended + 1 <= Lines(kept) * GrowthFactor
                  /\ log' = longer /\ appended' = appended + 1 /\ UNCHANGED <<legacy, faulty>>
               \/ ~legacy /\ appended' = appended + 1 /\ Fault /\ UNCHANGED <<log, legacy>>
    /\ UNCHANGED <<tracked, meter>>

MutRetainSamples(live) ==
    /\ tracked' = live
    /\ windows' = [o \in Owner |-> IF o \in live THEN windows[o] ELSE <<>>]
    /\ UNCHANGED <<unix, meter, log, legacy, appended, faulty>>

(* retain_accounts: the log is rewritten when a window was dropped.        *)
RetainSamples(live) ==
    LET kept == [o \in Owner |-> IF o \in live THEN windows[o] ELSE <<>>] IN
    /\ tracked' = live /\ windows' = kept
    /\ IF kept # windows THEN RewriteLog(kept, appended)
       ELSE UNCHANGED <<log, legacy, appended, faulty>>
    /\ UNCHANGED <<unix, meter>>

MutLoad(lines) ==
    /\ windows' = ParseLog(lines) /\ log' = lines /\ appended' = 0

(* load: the compaction counter starts at the file's lines.                *)
Load(lines) ==
    /\ windows' = ParseLog(lines) /\ log' = lines /\ appended' = Len(lines)

(* A crash, perhaps inside an append, and the next start.  A log in its    *)
(* old shape has no lines.                                                 *)
CrashAppend ==
    /\ \/ Load(log) /\ faulty' = faulty
       \/ ~legacy /\ Load(AppendLine(log, Torn)) /\ Fault
    /\ tracked' = Owner
    /\ UNCHANGED <<unix, legacy, meter>>

(* The upstream counts, or restarts from nothing.                          *)
Counts ==
    /\ meter.truth < MaxCount
    /\ \E restart \in BOOLEAN :
        meter' = [shown |-> (IF restart THEN 0 ELSE meter.shown) + 1, truth |-> meter.truth + 1]
    /\ UNCHANGED <<unix, windows, tracked, log, legacy, appended, faulty>>

SamplesNext ==
    \/ \E o \in Owner : Push(o)
    \/ \E live \in SUBSET Owner : RetainSamples(live)
    \/ CrashAppend \/ Counts

-----------------------------------------------------------------------------
MutWindowDelta(w, span, now_) == IF w = <<>> THEN 0 ELSE Last(w).tokens

(* window_deltas for one span: against the last sample before the span, or *)
(* against nothing; a counter that fell has restarted.                     *)
WindowDelta(w, span, now_) ==
    LET old == SelectSeq(w, LAMBDA s : s.unix <= now_ - span)
        base == IF old = <<>> THEN 0 ELSE Last(old).tokens
    IN IF w = <<>> THEN 0
       ELSE IF Last(w).tokens >= base THEN Last(w).tokens - base ELSE Last(w).tokens

(* A restart finds the windows as they were: pruning the whole log once    *)
(* and pruning at every push keep the same samples, and a dropped account  *)
(* is not in the log (push, retain_accounts, parse_log).                   *)
RestartFindsTheWindows == ~faulty /\ ~legacy => ParseLog(log) = windows

(* The log stays within a multiple of what the windows can hold, whatever  *)
(* the restarts in between (appended, COMPACT_GROWTH_FACTOR).              *)
LogIsBounded ==
    ~faulty => Len(log) <= (GrowthFactor + 1) * MaxSamples * Cardinality(Owner)

(* A delta never exceeds what the upstream counted since the sample it is  *)
(* taken against, though its counter may restart (window_deltas).          *)
DeltasAreNotInflated ==
    \A o \in Owner, span \in 0..SpanSecs :
        LET old == SelectSeq(windows[o], LAMBDA s : s.unix <= unix - span) IN
        old # <<>> => WindowDelta(windows[o], span, unix) <= Last(windows[o]).truth - Last(old).truth

-----------------------------------------------------------------------------
(***************************************************************************)
(* The quota snapshot of a Codex account (AccountUsage, usage.rs): the     *)
(* poll replaces it, headers of answers are merged into it, and it decides *)
(* whether the account has anything left for a model.                      *)
(***************************************************************************)

CONSTANTS
    Minutes,  \* window lengths; two, as there are slots
    Model,    \* models
    Family,   \* those with a limit of their own
    MaxSec,   \* bound: the clock
    Fresh_    \* how long a reading without a reset is believed (300 s)

VARIABLES
    sec,       \* the clock
    snapshot,  \* the snapshot
    reading    \* history: window length or family -> its latest reading

usageVars == <<sec, snapshot, reading>>

(* used: 0, 100 or -1 where absent; reset: 0 where absent.                 *)
NoWindow == [minutes |-> 0, used |-> -1, reset |-> 0]
NoSnapshot == [primary |-> NoWindow, secondary |-> NoWindow, groups |-> [f \in Family |-> NoWindow], observed |-> 0]

UsageInit ==
    /\ sec = 1 /\ snapshot = NoSnapshot
    /\ reading = [x \in Minutes \cup Family |-> NoWindow]

(* Readings an upstream sends of one window.                               *)
Readings(m) == {[minutes |-> m, used |-> u, reset |-> r] : u \in {-1, 0, 100}, r \in {0, sec + 1}} \ {[NoWindow EXCEPT !.minutes = m]}

-----------------------------------------------------------------------------
(* parse_codex_headers: shortest first; a second one of the same length is *)
(* dropped.                                                                *)
ParseCodexHeaders(a, b) ==
    LET ws == SelectSeq(<<a, b>>, LAMBDA w : w.minutes > 0)
        sorted == IF Len(ws) = 2 /\ ws[2].minutes < ws[1].minutes THEN Reverse(ws) ELSE ws IN
    CASE Len(sorted) = 0 -> <<NoWindow, NoWindow>>
      [] Len(sorted) = 2 /\ sorted[1].minutes # sorted[2].minutes -> sorted
      [] OTHER -> <<sorted[1], NoWindow>>

MutMergeQuotaWindow(old, new) ==
    IF old.minutes # 0 /\ old.minutes # new.minutes THEN new
    ELSE [minutes |-> new.minutes,
          used |-> IF new.used = -1 THEN old.used ELSE new.used,
          reset |-> IF old.reset = 0 THEN new.reset ELSE old.reset]

(* merge_quota_window: a window of another length takes the slot.          *)
MergeQuotaWindow(old, new) ==
    IF old.minutes # 0 /\ old.minutes # new.minutes THEN new
    ELSE [minutes |-> new.minutes,
          used |-> IF new.used = -1 THEN old.used ELSE new.used,
          reset |-> IF new.reset = 0 THEN old.reset ELSE new.reset]

(* The target in apply_header_update: the slot of the same length, or the  *)
(* first empty one, or none.                                               *)
SlotOf(u, w) ==
    CASE u.primary.minutes = w.minutes -> "primary"
      [] u.primary.minutes # w.minutes /\ u.secondary.minutes = w.minutes -> "secondary"
      [] w.minutes \notin {u.primary.minutes, u.secondary.minutes} /\ u.primary = NoWindow -> "primary"
      [] w.minutes \notin {u.primary.minutes, u.secondary.minutes} /\ u.primary # NoWindow
            /\ u.secondary = NoWindow -> "secondary"
      [] OTHER -> "none"

MergeWindow(u, w) ==
    IF w = NoWindow \/ SlotOf(u, w) = "none" THEN u
    ELSE [u EXCEPT ![SlotOf(u, w)] = MergeQuotaWindow(@, w)]

(* apply_header_update: windows, then the families' own limits.            *)
ApplyHeaderUpdate(u, windows_, families) ==
    LET merged == FoldLeft(MergeWindow, u, windows_) IN
    [merged EXCEPT
        !.observed = sec,
        !.groups = [f \in Family |-> IF families[f] = NoWindow THEN @[f] ELSE MergeQuotaWindow(@[f], families[f])]]

(* into_account_usage: replaces everything, shortest window first.         *)
IntoAccountUsage(a, b, families) ==
    LET sorted == IF b # NoWindow /\ (a = NoWindow \/ b.minutes < a.minutes) THEN <<b, a>> ELSE <<a, b>> IN
    [primary |-> sorted[1], secondary |-> sorted[2], groups |-> families, observed |-> sec]

Spent(w, observed) ==
    /\ w.used = 100
    /\ IF w.reset > 0 THEN w.reset > sec ELSE observed > 0 /\ sec - observed <= Fresh_

(* flat_window_exhausted                                                   *)
FlatWindowExhausted(u) == Spent(u.primary, u.observed) \/ Spent(u.secondary, u.observed)

MutMatchesCodexModel(f, model) == TRUE

(* matches_codex_model: a family's limit is of its own model.              *)
MatchesCodexModel(f, model) == f = model

(* is_codex_included_quota_exhausted                                       *)
Exhausted(u, model) ==
    FlatWindowExhausted(u) \/ \E f \in Family : MatchesCodexModel(f, model) /\ Spent(u.groups[f], u.observed)

-----------------------------------------------------------------------------
(* The latest reading of every window reported, kept where a part is absent.*)
Noted(seen, ws, families) ==
    [x \in Minutes \cup Family |->
        LET new == IF x \in Family THEN families[x]
                   ELSE IF \E w \in ws : w.minutes = x THEN CHOOSE w \in ws : w.minutes = x ELSE NoWindow
        IN IF new = NoWindow THEN seen[x]
           ELSE [minutes |-> new.minutes,
                 used |-> IF new.used = -1 THEN seen[x].used ELSE new.used,
                 reset |-> IF new.reset = 0 THEN seen[x].reset ELSE new.reset]]

Windows_ == {NoWindow} \cup UNION {Readings(m) : m \in Minutes}
FamilyReadings == {[f \in Family |-> NoWindow]}
    \cup {[f \in Family |-> IF f = g THEN w ELSE NoWindow] : g \in Family, w \in Readings(1)}

(* Bound: a family is reported beside one window of the plan at most.      *)
Plain(b, families) == b = NoWindow \/ \A f \in Family : families[f] = NoWindow

(* update_usage_from_headers                                               *)
Headers ==
    /\ \E a, b \in Windows_, families \in FamilyReadings :
        LET ws == ParseCodexHeaders(a, b) IN
        /\ ws # <<NoWindow, NoWindow>> /\ Plain(b, families)
        /\ snapshot' = ApplyHeaderUpdate(snapshot, ws, families)
        /\ reading' = Noted(reading, {ws[1], ws[2]}, families)
    /\ sec' = sec

(* A poll: what it does not report is not known any more.                  *)
PollReplaces ==
    /\ \E a, b \in Windows_, families \in FamilyReadings :
        /\ a.minutes # b.minutes /\ Plain(b, families)
        /\ snapshot' = IntoAccountUsage(a, b, families)
        /\ reading' = Noted([x \in Minutes \cup Family |-> NoWindow], {a, b}, families)
    /\ sec' = sec

Sec == sec < MaxSec /\ sec' = sec + 1 /\ UNCHANGED <<snapshot, reading>>

UsageNext == Headers \/ PollReplaces \/ Sec

-----------------------------------------------------------------------------
(* A slot holds the latest reading of its own window, in whatever order    *)
(* and combination the upstream reported windows (apply_header_update).    *)
ReadingsKeepTheirWindow ==
    \A w \in {snapshot.primary, snapshot.secondary} \ {NoWindow} : w = reading[w.minutes]

(* A model's account is exhausted exactly when a window of the plan or the *)
(* model's own limit was last read as spent and has not been reset since.  *)
(* Another model's limit does not count (is_codex_included_quota_exhausted).*)
ExhaustionFollowsReadings ==
    \A model \in Model :
        Exhausted(snapshot, model) <=> \E x \in Minutes \cup ({model} \cap Family) : Spent(reading[x], snapshot.observed)

-----------------------------------------------------------------------------
(***************************************************************************)
(* extract_response_token_usage, crates/gateway/src/usage.rs: the tokens   *)
(* of an answer, read from its first and its last bytes only.  A body is   *)
(* the sequence of the usage objects in it; a cut may go through one.      *)
(***************************************************************************)

CONSTANTS Count   \* token counts

VARIABLES
    body,    \* the usage objects of the answer, in order
    head,    \* those in the captured first bytes
    tail,    \* those in the captured last bytes
    tokens   \* what was read from them

tokenVars == <<body, head, tail, tokens>>

None == -1
NoObject == [key |-> "usage", whole |-> TRUE,
             prompt |-> None, completion |-> None, input |-> None, output |-> None, total |-> None, cached |-> None]

-----------------------------------------------------------------------------
(* What the upstreams' answers carry.  Claude names the input at the start *)
(* of a stream and the output at its end, and repeats the output.          *)
ChatBodies == {<<[NoObject EXCEPT !.prompt = n, !.completion = m, !.total = n + m, !.cached = c]>> :
    n, m \in Count, c \in Count \cup {None}}
ResponsesBodies ==
    {<<[NoObject EXCEPT !.input = n, !.output = m, !.total = n + m, !.cached = c]>> :
        n, m \in Count, c \in Count \cup {None}}
    \cup {<<[NoObject EXCEPT !.input = n, !.total = n + m]>> : n, m \in Count}
    \cup {<<[NoObject EXCEPT !.output = m, !.total = n + m]>> : n, m \in Count}
ClaudeBodies ==
    {<<[NoObject EXCEPT !.input = n, !.output = 0, !.cached = c]>>
        \o [i \in 1..k |-> [NoObject EXCEPT !.output = IF i = k THEN m ELSE 1]] :
        n, m \in Count, c \in Count \cup {None}, k \in 1..2}
GeminiBodies ==
    {[i \in 1..k |-> [NoObject EXCEPT !.key = "usageMetadata", !.prompt = n, !.completion = IF i = k THEN m ELSE 0, !.cached = c]] :
        n, m \in Count, c \in Count \cup {None}, k \in 1..2}

Bodies == ChatBodies \cup ResponsesBodies \cup ClaudeBodies \cup GeminiBodies

TokenInit ==
    /\ body \in Bodies
    /\ head = <<>> /\ tail = <<>>
    /\ tokens = [input |-> None, output |-> None, cached |-> None]

-----------------------------------------------------------------------------
MutLastObject(objects, key) ==
    LET found == SelectSeq(objects, LAMBDA o : o.key = key /\ o.whole)
    IN IF found = <<>> THEN NoObject ELSE Head(found)

(* last_balanced_object: the last whole one.                               *)
LastObject(objects, key) ==
    LET found == SelectSeq(objects, LAMBDA o : o.key = key /\ o.whole)
    IN IF found = <<>> THEN NoObject ELSE Last(found)

(* last_number_after: in any object, whole or not, that is not Gemini's.   *)
LastNumber(objects, field) ==
    LET found == SelectSeq(objects, LAMBDA o : o.key = "usage" /\ o[field] # None)
    IN IF found = <<>> THEN None ELSE Last(found)[field]

Or(a, b) == IF a # None THEN a ELSE b
OrZero(a) == Or(a, 0)
Less(t, n) == IF t >= n THEN t - n ELSE 0

(* Input and output from whichever of the three are known.                 *)
Split(i, o, t) ==
    CASE i # None /\ o # None -> <<i, o>>
      [] i # None /\ o = None -> <<i, IF t # None THEN Less(t, i) ELSE 0>>
      [] i = None /\ o # None -> <<IF t # None THEN Less(t, o) ELSE 0, o>>
      [] OTHER -> <<0, OrZero(t)>>

(* extract_response_token_usage                                            *)
Extract(first, last) ==
    LET u == LastObject(last, "usage")
        g == LastObject(last, "usageMetadata")
        input == Or(u.input, LastNumber(first, "input"))
        both == Split(input, u.output, u.total)
        loose == Split(Or(LastNumber(first, "input"), LastNumber(last, "input")),
                       LastNumber(last, "output"),
                       Or(LastNumber(last, "total"), LastNumber(first, "total"))) IN
    CASE u.prompt # None \/ u.completion # None ->
            [input |-> OrZero(u.prompt), output |-> OrZero(u.completion), cached |-> u.cached]
      [] u.prompt = None /\ u.completion = None /\ (u.input # None \/ u.output # None \/ u.total # None) ->
            [input |-> both[1], output |-> both[2], cached |-> Or(u.cached, LastNumber(first, "cached"))]
      [] u = NoObject /\ g # NoObject ->
            [input |-> OrZero(g.prompt), output |-> OrZero(g.completion), cached |-> g.cached]
      [] OTHER ->
            [input |-> loose[1], output |-> loose[2],
             cached |-> Or(LastNumber(first, "cached"), LastNumber(last, "cached"))]

(* capture_usage: the answer ends, and its first and last bytes are read.  *)
(* The bytes in front hold the first object, those behind the last one     *)
(* whole; the first object of either end may be cut.                       *)
CaptureUsage ==
    /\ head = <<>>
    /\ \E h \in 1..Len(body), t \in 1..Len(body), cut \in BOOLEAN :
        /\ head' = SubSeq(body, 1, h)
        /\ tail' = LET end == SubSeq(body, t, Len(body)) IN
                   IF cut /\ Len(end) > 1 THEN [end EXCEPT ![1].whole = FALSE] ELSE end
    /\ tokens' = Extract(head', tail')
    /\ body' = body

TokenNext == CaptureUsage

-----------------------------------------------------------------------------
(* However much of the answer was captured at either end, the tokens are   *)
(* those the upstream reported: the input it named last, and the output of *)
(* its last report (extract_response_token_usage).                         *)
TokensAreTheReported ==
    head # <<>> =>
        LET o == Last(body)
            input == Or(o.prompt, Or(o.input, body[1].input))
            output == Or(o.completion, o.output)
        IN /\ tokens.input = Or(input, Less(o.total, output))
           /\ tokens.output = Or(output, Less(o.total, input))
           /\ tokens.cached = Or(o.cached, body[1].cached)

-----------------------------------------------------------------------------
(***************************************************************************)
(* Monthly budgets of Claude API keys (claude_budget.rs).  A task reads    *)
(* the history, account by account, and publishes what it read; requests   *)
(* look at what was published last and at the limits of the moment.        *)
(***************************************************************************)

CONSTANTS
    Payer,        \* accounts with an API key
    Limit,        \* limits the operator may set
    MaxUnits,     \* bound: requests
    MaxMonth      \* bound: months

VARIABLES
    limits,       \* claude_api_key_budgets: account -> limit
    month,        \* the month of the clock
    spentTokens,  \* account -> month -> tokens the history has for it
    lastReading,  \* BudgetTracker.snapshot
    reader,       \* the refresher's reading under way
    floor,        \* history: account -> units it had when the latest reading began
    unread        \* history: no reading yet, or the latest failed

budgetVars == <<limits, month, spentTokens, lastReading, reader, floor, unread>>

NoTokens == [full |-> 0, cached |-> 0]
weighted_units(t) == t.full + t.cached \div 10

\* What the history has for the account since the start of a month.
SpentSince(a, start) ==
    weighted_units([full |-> MapThenSumSet(LAMBDA m : spentTokens[a][m].full, start .. month),
                    cached |-> MapThenSumSet(LAMBDA m : spentTokens[a][m].cached, start .. month)])

Unread == [known |-> FALSE, usage |-> [a \in {} |-> 0]]
NoReader == [busy |-> FALSE, start |-> 0, todo |-> {}, usage |-> [a \in {} |-> 0], begun |-> [a \in {} |-> 0]]

UsageOf(a) == IF a \in DOMAIN lastReading.usage THEN lastReading.usage[a] ELSE 0
is_over(a) == a \in DOMAIN limits /\ (~lastReading.known \/ UsageOf(a) >= limits[a])

Spendings == {[full |-> 1, cached |-> 0], [full |-> 0, cached |-> 5]}

Requests == MapThenSumSet(LAMBDA a : MapThenSumSet(LAMBDA m : spentTokens[a][m].full + spentTokens[a][m].cached \div 5, 0 .. month), Payer)

(* A request ends and is in the history; it may have been routed before    *)
(* its account was closed.                                                 *)
Spend(a) ==
    /\ Requests < MaxUnits
    /\ \E t \in Spendings : spentTokens' = [spentTokens EXCEPT ![a][month] = [full |-> @.full + t.full, cached |-> @.cached + t.cached]]
    /\ UNCHANGED <<limits, month, lastReading, reader, floor, unread>>

SetLimits ==
    /\ \E S \in SUBSET Payer, n \in Limit : limits' = [a \in S |-> n]
    /\ UNCHANGED <<month, spentTokens, lastReading, reader, floor, unread>>

MonthTurns ==
    /\ month < MaxMonth /\ month' = month + 1
    /\ UNCHANGED <<limits, spentTokens, lastReading, reader, floor, unread>>

refresh_from_history ==
    /\ ~reader.busy
    /\ IF DOMAIN limits = {}
       THEN lastReading' = [Unread EXCEPT !.known = TRUE] /\ floor' = NoReader.begun /\ unread' = FALSE /\ UNCHANGED reader
       ELSE /\ reader' = [NoReader EXCEPT !.busy = TRUE, !.start = month, !.todo = DOMAIN limits,
                                          !.begun = [a \in DOMAIN limits |-> SpentSince(a, month)]]
            /\ UNCHANGED <<lastReading, floor, unread>>
    /\ UNCHANGED <<limits, month, spentTokens>>

ReadsOne(a) ==
    /\ reader.busy /\ a \in reader.todo
    /\ reader' = [reader EXCEPT !.todo = @ \ {a},
                                !.usage = [b \in DOMAIN @ \cup {a} |-> IF b = a THEN SpentSince(a, reader.start) ELSE @[b]]]
    /\ UNCHANGED <<limits, month, spentTokens, lastReading, floor, unread>>

MutReadFails ==
    /\ reader.busy /\ reader.todo # {}
    /\ reader' = NoReader /\ floor' = NoReader.begun /\ unread' = TRUE
    /\ UNCHANGED <<limits, month, spentTokens, lastReading>>
ReadFails ==
    /\ reader.busy /\ reader.todo # {}
    /\ lastReading' = Unread /\ reader' = NoReader /\ floor' = NoReader.begun /\ unread' = TRUE
    /\ UNCHANGED <<limits, month, spentTokens>>

MutStores ==
    /\ reader.busy /\ reader.todo = {}
    /\ lastReading' = [known |-> TRUE, usage |-> [a \in DOMAIN reader.usage \ {CHOOSE b \in DOMAIN reader.usage : TRUE} |-> reader.usage[a]]]
    /\ reader' = NoReader /\ floor' = reader.begun /\ unread' = FALSE
    /\ UNCHANGED <<limits, month, spentTokens>>
Stores ==
    /\ reader.busy /\ reader.todo = {}
    /\ lastReading' = [known |-> TRUE, usage |-> reader.usage]
    /\ reader' = NoReader /\ floor' = reader.begun /\ unread' = FALSE
    /\ UNCHANGED <<limits, month, spentTokens>>

BudgetInit ==
    /\ limits \in {[a \in S |-> n] : S \in SUBSET Payer, n \in Limit} /\ month = 0
    /\ spentTokens = [a \in Payer |-> [m \in 0 .. MaxMonth |-> NoTokens]]
    /\ lastReading = Unread /\ reader = NoReader /\ floor = NoReader.begun /\ unread = TRUE

BudgetNext ==
    \/ SetLimits \/ MonthTurns \/ refresh_from_history \/ ReadFails \/ Stores
    \/ \E a \in Payer : Spend(a) \/ ReadsOne(a)

\* An account that had reached its limit when the latest reading began is
\* not served, whatever was spent, limited or turned since, and while there is
\* no reading, or the latest failed, no account with a limit is
\* (BudgetTracker).
BudgetsClose ==
    /\ \A a \in DOMAIN floor \cap DOMAIN limits : floor[a] >= limits[a] => is_over(a)
    /\ unread => \A a \in DOMAIN limits : is_over(a)

-----------------------------------------------------------------------------
(***************************************************************************)
(* The order of Claude accounts for a request (claude_reset_order.rs).     *)
(* The subscription whose window resets first is used first; the ranks are *)
(* kept until a ranked window resets.  API keys may be put in front.       *)
(***************************************************************************)

CONSTANTS
    Seat,         \* the pool's accounts, numbered in its order
    Subscription, \* those that are Claude subscriptions
    ApiKeySeat,   \* those that are Claude API keys
    RankEvery,    \* REFRESH_INTERVAL_SECS
    MaxRankNow    \* bound: the clock

VARIABLES
    rankNow,      \* the clock
    resetAt,      \* subscription -> its two windows, as reported
    ranked,       \* ClaudeResetOrder.cached
    stale         \* history: a report came since the ranks were computed

rankVars == <<rankNow, resetAt, ranked, stale>>

\* A window without a reset time has reset 0.
Windows == [primary : [reset : 0 .. MaxRankNow + 1, spent : BOOLEAN], secondary : {[reset |-> 0, spent |-> FALSE], [reset |-> 1, spent |-> TRUE]}]

Endless == MaxRankNow + 9
active_five_hour_reset(a) == IF resetAt[a].primary.reset > rankNow THEN resetAt[a].primary.reset ELSE Endless
is_nearly_spent(a) ==
    \E w \in {resetAt[a].primary, resetAt[a].secondary} : w.spent /\ (w.reset = 0 \/ w.reset > rankNow)

rank_by_five_hour_reset ==
    [a \in Subscription |->
        Cardinality({b \in Subscription : \/ active_five_hour_reset(b) < active_five_hour_reset(a)
                                          \/ active_five_hour_reset(b) = active_five_hour_reset(a) /\ b < a})]

NotRanked == [until |-> 0, ranks |-> [a \in {} |-> 0]]
Computed(until) == [until |-> until, ranks |-> rank_by_five_hour_reset]

Earliest(S) == CHOOSE n \in S : \A k \in S : n <= k
MutRanks ==
    IF rankNow < ranked.until THEN ranked ELSE Computed(rankNow + RankEvery)
ranks ==
    IF rankNow < ranked.until THEN ranked
    ELSE Computed(Earliest({rankNow + RankEvery} \cup {active_five_hour_reset(a) : a \in Subscription}))

(* Sorts the accounts that have a key among their own slots, stably.       *)
InSlots(list, key) ==
    LET mine == {i \in DOMAIN list : list[i] \in DOMAIN key}
        before(i, j) == key[list[i]] < key[list[j]] \/ (key[list[i]] = key[list[j]] /\ i < j)
        place == [i \in mine |-> Cardinality({j \in mine : before(j, i)})]
    IN [i \in DOMAIN list |->
           IF i \notin mine THEN list[i]
           ELSE list[CHOOSE j \in mine : place[j] = Cardinality({k \in mine : k < i})]]

RankOf(r, a) == IF a \in DOMAIN r THEN r[a] ELSE Endless
SlotKeys(r) == [a \in Subscription |-> RankOf(r, a) + (IF is_nearly_spent(a) THEN 2 * Endless ELSE 0)]
MutSlotKeys(r) == [a \in Subscription |-> RankOf(r, a)]
MutReorder(list, r) == InSlots(list, MutSlotKeys(r))
reorder_claude_slots(list, r) == InSlots(list, SlotKeys(r))
prefer_claude_api_keys(list) ==
    InSlots(list, [a \in Subscription \cup ApiKeySeat |-> IF a \in ApiKeySeat THEN 0 ELSE 1])

EligibleOrder ==
    /\ ranked' = ranks /\ stale' = (stale /\ rankNow < ranked.until)
    /\ UNCHANGED <<rankNow, resetAt>>

Reports(a) ==
    /\ \E w \in Windows : resetAt' = [resetAt EXCEPT ![a] = w]
    /\ stale' = TRUE
    /\ UNCHANGED <<rankNow, ranked>>

RankTick ==
    /\ rankNow < MaxRankNow /\ rankNow' = rankNow + 1
    /\ UNCHANGED <<resetAt, ranked, stale>>

RankInit ==
    /\ rankNow = 0 /\ resetAt = [a \in Subscription |-> [primary |-> [reset |-> 0, spent |-> FALSE], secondary |-> [reset |-> 0, spent |-> FALSE]]]
    /\ ranked = NotRanked /\ stale = FALSE

RankNext ==
    \/ RankTick \/ EligibleOrder
    \/ \E a \in Subscription : Reports(a)

\* Ranks that are still used are those a computation at this moment gives,
\* unless a report came in between: no ranked window has reset meanwhile
\* (ClaudeResetOrder::ranks).
RanksAreCurrent == rankNow < ranked.until /\ ~stale => ranked.ranks = rank_by_five_hour_reset

\* The orders of candidates a request may come with.
Lists == {l \in [1 .. Cardinality(Seat) -> Seat] : \A i, j \in DOMAIN l : l[i] = l[j] => i = j}

\* Ordering a list of candidates moves no account of another provider and
\* loses none; no nearly spent subscription comes before one that is not, and
\* none before an API key when keys go first (reorder_claude_slots,
\* prefer_claude_api_keys).
OrderKeepsSlots ==
    LET spent == {a \in Subscription : is_nearly_spent(a)} IN
    \A r \in {ranks.ranks} : \A list \in Lists : \A sorted \in {reorder_claude_slots(list, r)} :
    \A keysFirst \in {prefer_claude_api_keys(sorted)} :
       /\ \A after \in {sorted, keysFirst} :
             /\ {after[i] : i \in DOMAIN after} = {list[i] : i \in DOMAIN list}
             /\ \A i \in DOMAIN after : after[i] \notin Subscription \cup ApiKeySeat => after[i] = list[i]
             /\ \A i, j \in DOMAIN after : i < j => ~(after[i] \in spent /\ after[j] \in Subscription \ spent)
       /\ \A i, j \in DOMAIN keysFirst : i < j => ~(keysFirst[i] \in Subscription /\ keysFirst[j] \in ApiKeySeat)

-----------------------------------------------------------------------------
(***************************************************************************)
(* The watch for prompts that do not continue their session's last one     *)
(* (claude_prefix_watch.rs).  A prompt is a sequence of blocks.            *)
(***************************************************************************)

CONSTANTS
    WatchSession,
    Block,          \* contents of a block, as hashed
    MAX_SESSIONS,
    SESSION_TTL,
    MaxBlocks,      \* bound: blocks of a prompt
    MaxWatchNow     \* bound: the clock

VARIABLES
    watchNow,       \* the clock
    watched,        \* sessions: session -> when it was seen, and its prompt
    lastPrompt,     \* history: session -> its last prompt, and when
    verdict         \* history: the latest observation

watchVars == <<watchNow, watched, lastPrompt, verdict>>

Prompts == UNION {[1 .. n -> Block] : n \in 0 .. MaxBlocks}

MutFirstBreak(previous, current) ==
    LET differ == {i \in DOMAIN previous \cap DOMAIN current : previous[i] # current[i]} IN
    IF differ # {} THEN CHOOSE i \in differ : \A j \in differ : i <= j ELSE 0
first_break(previous, current) ==
    LET differ == {i \in DOMAIN previous \cap DOMAIN current : previous[i] # current[i]} IN
    IF differ # {} THEN CHOOSE i \in differ : \A j \in differ : i <= j
    ELSE IF Len(current) < Len(previous) THEN Len(current) + 1 ELSE 0

Recent(seen) == watchNow - seen < SESSION_TTL

KeptSessions ==
    LET recent == {s \in DOMAIN watched : Recent(watched[s].seen)} IN
    IF Cardinality(DOMAIN watched) < MAX_SESSIONS THEN DOMAIN watched
    ELSE IF Cardinality(recent) < MAX_SESSIONS THEN recent ELSE {}

observe(s, prompt) ==
    LET kept == KeptSessions  now == [seen |-> watchNow, prompt |-> prompt] IN
    /\ watched' = [t \in kept \cup {s} |-> IF t = s THEN now ELSE watched[t]]
    /\ verdict' = [told |-> s \in kept /\ Recent(watched[s].seen), prompt |-> prompt,
                   previous |-> IF s \in DOMAIN lastPrompt THEN lastPrompt[s].prompt ELSE <<>>,
                   at |-> IF s \in kept /\ Recent(watched[s].seen) THEN first_break(watched[s].prompt, prompt) ELSE 0]
    /\ lastPrompt' = [t \in DOMAIN lastPrompt \cup {s} |-> IF t = s THEN now ELSE lastPrompt[t]]
    /\ UNCHANGED watchNow

WatchTick == watchNow < MaxWatchNow /\ watchNow' = watchNow + 1 /\ UNCHANGED <<watched, lastPrompt, verdict>>

WatchInit ==
    /\ watchNow = 0 /\ watched = [s \in {} |-> 0] /\ lastPrompt = watched
    /\ verdict = [told |-> FALSE, prompt |-> <<>>, previous |-> <<>>, at |-> 0]

WatchNext == WatchTick \/ \E s \in WatchSession, prompt \in Prompts : observe(s, prompt)

\* The watch holds no more sessions than its cap; a break is reported at the
\* first block at which a session's prompt leaves the one before, and none
\* when it continues it (ClaudePrefixWatch::observe).
BreaksAreReal ==
    /\ Cardinality(DOMAIN watched) <= MAX_SESSIONS
    /\ verdict.at # 0 => /\ SubSeq(verdict.prompt, 1, verdict.at - 1) = SubSeq(verdict.previous, 1, verdict.at - 1)
                         /\ verdict.at <= Len(verdict.previous)
                         /\ verdict.at <= Len(verdict.prompt) => verdict.prompt[verdict.at] # verdict.previous[verdict.at]
    /\ verdict.told /\ verdict.at = 0 =>
          /\ Len(verdict.previous) <= Len(verdict.prompt)
          /\ SubSeq(verdict.prompt, 1, Len(verdict.previous)) = verdict.previous

=============================================================================
