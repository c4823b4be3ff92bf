---- MODULE Plugins ----
(***************************************************************************)
(* Native plugins: the host that loads them and calls into their code      *)
(* (crates/gateway/src/plugins/loader.rs), the console's operations on one *)
(* plugin (management/plugins.rs, plugins/store.rs), and the hooks a       *)
(* relayed request passes (plugins/hooks.rs, relay.rs).                    *)
(*                                                                         *)
(* The first part is the life of one plugin id: each load makes a client   *)
(* of its own, and any number of threads may hold one.  What the plugin's  *)
(* code answers is its own choice.  The second part is one request and the *)
(* answers of the plugins in its way.                                      *)
(***************************************************************************)
EXTENDS Naturals, Sequences, SequencesExt, FiniteSets

CONSTANTS Operator,   \* console calls at a time
          CallThread, \* threads that call the plugin
          MaxClient,  \* bound: loads
          MaxEdit,    \* bound: console calls
          Body,       \* bodies plugins may answer with
          Chain       \* plugins in the way of a request

VARIABLES \* the life of a plugin
          doc,      \* the config document, <id>.config.json
          library,  \* library files of the id: "plain" is <id>.so, "versioned" <id>-v1.so
          loaded,   \* PluginHostInner.loaded: the client, 0 for none
          client,   \* each client that was made, with its ManagedClient and its library
          thread,   \* each calling thread
          operator, \* each console call
          edits,
          \* the hooks of a request
          leg,      \* how far the request or its response is
          body,     \* what is to be sent, or given to the client
          said      \* history: the answers the plugins gave, hook by hook

pluginVars == <<doc, library, loaded, client, thread, operator, edits>>
hookVars == <<leg, body, said>>

Client == 1..MaxClient
NoDoc == [enabled |-> "absent", body |-> 0]

\* A client that is not made yet, and ManagedClient::new over DynamicLibraryClient.
Unmade == [made |-> FALSE, closing |-> FALSE, active |-> 0, quiescing |-> FALSE, quiesced |-> "none", stopped |-> FALSE,
           unloading |-> FALSE, quiescer |-> "none", calls |-> 0, closed |-> FALSE]
NewClient == [Unmade EXCEPT !.made = TRUE]

NoCall == [pc |-> "idle", of |-> 0]
NoEdit == [pc |-> "idle", op |-> "none", of |-> 0, previous |-> NoDoc, next |-> NoDoc, path |-> "none", left |-> {},
           was |-> <<NoDoc, 0>>, alone |-> FALSE, result |-> "none"]

\* load_plugins_from_directory: at start every library is loaded, whatever
\* its document says; one that cannot be loaded is skipped.
PluginInit ==
    /\ doc \in [enabled : {"absent"}, body : {0}] \cup [enabled : {"on", "off"}, body : {1}]
    /\ library \in {{}, {"plain"}, {"versioned"}}
    /\ loaded \in {0} \cup (IF library = {} THEN {} ELSE {1})
    /\ client = [c \in Client |-> IF c = loaded THEN NewClient ELSE Unmade]
    /\ thread = [t \in CallThread \cup Operator |-> NoCall]
    /\ operator = [o \in Operator |-> NoEdit]
    /\ edits = 0

Becomes(c, f) == client' = [client EXCEPT ![c] = f]
Goes(t, pc) == thread' = [thread EXCEPT ![t].pc = pc]

(***************************************************************************)
(* ManagedClient::call, by a hook, a quota query or a reconfiguration.     *)
(***************************************************************************)

\* get_plugin, list_plugins: the thread holds the client from here on.
Find(t) ==
    /\ thread[t].pc \in {"idle", "refused"} /\ loaded # 0
    /\ thread' = [thread EXCEPT ![t] = [pc |-> "found", of |-> loaded]]
    /\ UNCHANGED <<doc, library, loaded, client, operator, edits>>

\* Mutant: only a client that has stopped refuses.
MutAdmits(c) == ~client[c].stopped

\* Admission and closing share one lock.
Admits(c) == ~client[c].closing

Admit(t) ==
    LET c == thread[t].of
    IN  /\ thread[t].pc = "found"
        /\ \/ Admits(c) /\ Becomes(c, [client[c] EXCEPT !.active = @ + 1]) /\ Goes(t, "admitted")
           \/ ~Admits(c) /\ Goes(t, "refused") /\ UNCHANGED client
        /\ UNCHANGED <<doc, library, loaded, operator, edits>>

\* DynamicLibraryClient::call: into the plugin's function, and back.
Enter(t) ==
    LET c == thread[t].of
    IN  /\ thread[t].pc = "admitted"
        /\ \/ client[c].closed /\ Goes(t, "returned") /\ UNCHANGED client
           \/ ~client[c].closed /\ Becomes(c, [client[c] EXCEPT !.calls = @ + 1]) /\ Goes(t, "inside")
        /\ UNCHANGED <<doc, library, loaded, operator, edits>>

Return(t) ==
    /\ thread[t].pc = "inside"
    /\ Becomes(thread[t].of, [client[thread[t].of] EXCEPT !.calls = @ - 1]) /\ Goes(t, "returned")
    /\ UNCHANGED <<doc, library, loaded, operator, edits>>

\* The drop of Admission.
Leave(t) ==
    /\ thread[t].pc = "returned"
    /\ Becomes(thread[t].of, [client[thread[t].of] EXCEPT !.active = @ - 1])
    /\ thread' = [thread EXCEPT ![t] = NoCall]
    /\ UNCHANGED <<doc, library, loaded, operator, edits>>

(***************************************************************************)
(* The thread that asks the plugin to come to rest.  It calls the library  *)
(* itself, past admission.                                                 *)
(***************************************************************************)
Quiesce(c) ==
    /\ client[c].quiescer = "spawned"
    /\ Becomes(c, IF client[c].closed THEN [client[c] EXCEPT !.quiescer = "none", !.quiesced = "refused"]
                  ELSE [client[c] EXCEPT !.quiescer = "inside", !.calls = @ + 1])
    /\ UNCHANGED <<doc, library, loaded, thread, operator, edits>>

Quiesced(c) ==
    /\ client[c].quiescer = "inside"
    /\ \E answer \in {"ok", "refused"} :
          Becomes(c, [client[c] EXCEPT !.quiescer = "none", !.calls = @ - 1, !.quiesced = answer])
    /\ UNCHANGED <<doc, library, loaded, thread, operator, edits>>

(***************************************************************************)
(* The console's calls.  `alone' and `was' are history: no other call      *)
(* overlapped this one, and what the document and the host were before it. *)
(***************************************************************************)
Idle(o) == operator[o].pc = "idle"
At(o, pc) == operator' = [operator EXCEPT ![o].pc = pc]
Ends(o, result) == operator' = [operator EXCEPT ![o] = [NoEdit EXCEPT !.result = result]]

\* What follows the transition of update_plugin_config, and try_unload_plugin in delete_plugin.
Succeeds(o) == IF operator[o].op = "delete" THEN At(o, "list") ELSE Ends(o, "ok")
Fails(o) == IF operator[o].op \in {"enable", "disable", "write"} THEN At(o, "rollback") ELSE Ends(o, "failed")

is_plugin_installed == loaded # 0 \/ library # {}
is_plugin_busy == loaded # 0 /\ client[loaded].calls > 0

Begins(o, op, next, pc) ==
    /\ Idle(o) /\ edits < MaxEdit /\ edits' = edits + 1
    /\ operator' = [p \in Operator |->
          IF p # o THEN [operator[p] EXCEPT !.alone = FALSE]
          ELSE [NoEdit EXCEPT !.pc = pc, !.op = op, !.next = next, !.was = <<doc, loaded>>,
                              !.alone = \A q \in Operator \ {o} : Idle(q)]]
    /\ UNCHANGED <<doc, library, loaded, client, thread>>

\* What the console shows of the plugin: whether it is loaded, and the document's word, on when it has none.
list_plugins == [registered |-> loaded # 0, enabled |-> doc.enabled # "off"]
plugin_config == IF doc = NoDoc THEN [enabled |-> "on", body |-> 0] ELSE doc

\* A document that is no object cannot be edited.
patch_plugin_enabled(o, on) ==
    /\ is_plugin_installed /\ doc.enabled # "list"
    /\ Begins(o, IF on THEN "enable" ELSE "disable", [enabled |-> IF on THEN "on" ELSE "off", body |-> doc.body], "read")

write_plugin_config(o, enabled) ==
    is_plugin_installed /\ Begins(o, "write", [enabled |-> enabled, body |-> edits + 1], "read")

delete_plugin(o) == Begins(o, "delete", NoDoc, "check")

install_plugin(o) == Begins(o, "install", NoDoc, "fetch")

\* The registry, the artifact for this platform, its bytes and their checksum.
install_from_registry(o) ==
    /\ operator[o].pc = "fetch" /\ (At(o, "check") \/ Ends(o, "rejected"))
    /\ UNCHANGED <<doc, library, loaded, client, thread, edits>>

\* update_plugin_config.
ReadPrevious(o) ==
    /\ operator[o].pc = "read"
    /\ operator' = [operator EXCEPT ![o].pc = "persist", ![o].previous = doc]
    /\ UNCHANGED <<doc, library, loaded, client, thread, edits>>

persist_config(o) ==
    /\ operator[o].pc = "persist"
    /\ \/ doc' = operator[o].next /\ At(o, "transition")
       \/ doc' = doc /\ Ends(o, "rejected")
    /\ UNCHANGED <<library, loaded, client, thread, edits>>

Transition(o) ==
    /\ operator[o].pc = "transition"
    /\ \/ /\ operator[o].op = "enable" /\ UNCHANGED thread
          /\ \/ loaded # 0 /\ Succeeds(o)
             \/ loaded = 0 /\ "plain" \notin library /\ Fails(o)
             \/ loaded = 0 /\ "plain" \in library /\ operator' = [operator EXCEPT ![o].pc = "load", ![o].path = "plain"]
       \/ operator[o].op = "disable" /\ At(o, "unload") /\ UNCHANGED thread
       \/ /\ operator[o].op = "write"
          /\ \/ loaded = 0 /\ Succeeds(o) /\ UNCHANGED thread
             \/ loaded # 0 /\ At(o, "reconfigure") /\ thread' = [thread EXCEPT ![o] = [pc |-> "found", of |-> loaded]]
    /\ UNCHANGED <<doc, library, loaded, client, edits>>

\* The answer to plugin.reconfigure.
Reconfigured(o) ==
    /\ operator[o].pc = "reconfigure" /\ thread[o].pc \in {"idle", "refused"}
    /\ thread' = [thread EXCEPT ![o] = NoCall]
    /\ Fails(o) \/ (thread[o].pc = "idle" /\ Succeeds(o))
    /\ UNCHANGED <<doc, library, loaded, client, edits>>

Rollback(o) ==
    /\ operator[o].pc = "rollback"
    /\ \/ doc' = operator[o].previous /\ Ends(o, "rejected")
       \/ doc' = doc /\ Ends(o, "failed")
    /\ UNCHANGED <<library, loaded, client, thread, edits>>

\* A client of its own, inserted over the earlier one.
register_plugin_client(c) == loaded' = c /\ Becomes(c, NewClient)

load_plugin(o) ==
    /\ operator[o].pc = "load"
    /\ \/ Fails(o) /\ UNCHANGED <<loaded, client>>
       \/ /\ operator[o].path \in library /\ \E c \in Client : ~client[c].made
          /\ register_plugin_client(CHOOSE c \in Client : ~client[c].made /\ \A d \in Client : ~client[d].made => c <= d)
          /\ Succeeds(o)
    /\ UNCHANGED <<doc, library, thread, edits>>

\* install_artifact_direct and delete_plugin begin by asking whether the plugin is busy.
Check(o) ==
    /\ operator[o].pc = "check"
    /\ \/ is_plugin_busy /\ Ends(o, "rejected")
       \/ ~is_plugin_busy /\ At(o, IF operator[o].op = "delete" THEN "unload" ELSE "place")
    /\ UNCHANGED <<doc, library, loaded, client, thread, edits>>

install_artifact_direct(o) ==
    /\ operator[o].pc = "place"
    /\ \/ \E f \in {"plain", "versioned"} :
             library' = library \cup {f} /\ operator' = [operator EXCEPT ![o].pc = "load", ![o].path = f]
       \/ library' = library /\ Ends(o, "rejected")
    /\ UNCHANGED <<doc, loaded, client, thread, edits>>

\* delete_plugin: the id's files, one by one.
ListFiles(o) ==
    /\ operator[o].pc = "list"
    /\ operator' = [operator EXCEPT ![o].pc = "remove",
                                    ![o].left = library \cup (IF doc = NoDoc THEN {} ELSE {"document"})]
    /\ UNCHANGED <<doc, library, loaded, client, thread, edits>>

RemoveFile(o) ==
    /\ operator[o].pc = "remove"
    /\ \/ operator[o].left = {} /\ Ends(o, "ok") /\ UNCHANGED <<doc, library>>
       \/ \E f \in operator[o].left :
             /\ f \in library \/ (f = "document" /\ doc # NoDoc)
             /\ library' = library \ {f} /\ doc' = (IF f = "document" THEN NoDoc ELSE doc)
             /\ operator' = [operator EXCEPT ![o].left = @ \ {f}]
       \/ operator[o].left # {} /\ Ends(o, "failed") /\ UNCHANGED <<doc, library>>
    /\ UNCHANGED <<loaded, client, thread, edits>>

(***************************************************************************)
(* try_unload_plugin and ManagedClient::shutdown_with_timeout.             *)
(***************************************************************************)
try_unload_plugin(o) ==
    /\ operator[o].pc = "unload"
    /\ \/ loaded = 0 /\ Succeeds(o)
       \/ loaded # 0 /\ operator' = [operator EXCEPT ![o].pc = "shut", ![o].of = loaded]
    /\ UNCHANGED <<doc, library, loaded, client, thread, edits>>

\* Mutant: calls that are under way are not waited for.
MutAtRest(c) == TRUE

\* Busy calls keep the library open.
AtRest(c) == client[c].active = 0

Shut(o) ==
    LET c == operator[o].of
    IN  /\ operator[o].pc = "shut"
        /\ \/ client[c].unloading /\ Fails(o) /\ UNCHANGED client
           \/ ~client[c].unloading /\ client[c].stopped /\ At(o, "forget") /\ UNCHANGED client
           \/ ~client[c].unloading /\ ~client[c].stopped /\ ~AtRest(c) /\ Fails(o) /\ UNCHANGED client
           \/ /\ ~client[c].unloading /\ ~client[c].stopped /\ AtRest(c) /\ At(o, "wait")
              /\ Becomes(c, [client[c] EXCEPT !.unloading = TRUE, !.closing = TRUE, !.quiescing = TRUE,
                                              !.quiescer = IF client[c].quiescing THEN @ ELSE "spawned"])
        /\ UNCHANGED <<doc, library, loaded, thread, edits>>

\* wait_timeout_while: the answer came, or two seconds passed.
Waited(o) ==
    LET c == operator[o].of
    IN  /\ operator[o].pc = "wait"
        /\ \/ client[c].quiesced = "none" /\ Fails(o) /\ Becomes(c, [client[c] EXCEPT !.unloading = FALSE])
           \/ /\ client[c].quiesced = "refused" /\ Fails(o)
              /\ Becomes(c, [client[c] EXCEPT !.unloading = FALSE, !.closing = FALSE, !.quiescing = FALSE, !.quiesced = "none"])
           \/ client[c].quiesced = "ok" /\ At(o, "close") /\ Becomes(c, [client[c] EXCEPT !.stopped = TRUE])
        /\ UNCHANGED <<doc, library, loaded, thread, edits>>

\* DynamicLibraryClient::shutdown: dlclose, and the host's context is freed.
Close(o) ==
    LET c == operator[o].of
    IN  /\ operator[o].pc = "close" /\ At(o, "forget")
        /\ Becomes(c, [client[c] EXCEPT !.closed = TRUE, !.unloading = FALSE])
        /\ UNCHANGED <<doc, library, loaded, thread, edits>>

\* Mutant: whatever is loaded by now is forgotten.
MutForgotten(o) == 0

\* Only the client that was shut down is removed.
Forgotten(o) == IF loaded = operator[o].of THEN 0 ELSE loaded

Forget(o) ==
    /\ operator[o].pc = "forget" /\ loaded' = Forgotten(o) /\ Succeeds(o)
    /\ UNCHANGED <<doc, library, client, thread, edits>>

Console(o) ==
    \/ \E on \in BOOLEAN : patch_plugin_enabled(o, on)
    \/ \E enabled \in {"off", "list"} : write_plugin_config(o, enabled)
    \/ delete_plugin(o) \/ install_plugin(o)
    \/ ReadPrevious(o) \/ persist_config(o) \/ Transition(o) \/ Reconfigured(o) \/ Rollback(o)
    \/ load_plugin(o) \/ install_from_registry(o) \/ Check(o) \/ install_artifact_direct(o) \/ ListFiles(o) \/ RemoveFile(o)
    \/ try_unload_plugin(o) \/ Shut(o) \/ Waited(o) \/ Close(o) \/ Forget(o)

PluginNext ==
    \/ \E t \in CallThread : Find(t)
    \/ \E t \in CallThread \cup Operator : Admit(t) \/ Enter(t) \/ Return(t) \/ Leave(t)
    \/ \E c \in Client : Quiesce(c) \/ Quiesced(c)
    \/ \E o \in Operator : Console(o)

\* No call is in a plugin's code, or on its way there, once the library is
\* to be closed; the thread that asks it to come to rest is not either
\* (ManagedClient, "Busy calls keep both code and host context alive").
CodeOutlivesItsCalls ==
    \A c \in Client : client[c].stopped =>
        /\ client[c].active = 0 /\ client[c].calls = 0 /\ client[c].quiescer = "none"
        /\ \A t \in CallThread \cup Operator : thread[t].of = c => thread[t].pc \in {"idle", "found", "refused"}

\* A client that is listed and shut down is on its way out of the list: a
\* caller finds no dead plugin for good (try_unload_plugin).
DeadIsForgotten ==
    \A c \in Client : loaded = c /\ client[c].stopped =>
        \E o \in Operator : operator[o].of = c /\ operator[o].pc \in {"close", "forget"}

LiveStaysListedStep == loaded # 0 /\ loaded' = 0 => client[loaded].closed
\* Only a client that is closed leaves the list, however the console's
\* calls overlap: a plugin loaded meanwhile stays (try_unload_plugin).
LiveStaysListed == [][LiveStaysListedStep]_pluginVars

RejectedChangesNothingStep ==
    \A o \in Operator : ~Idle(o) /\ operator[o].alone /\ operator'[o].result = "rejected" =>
        <<doc', loaded'>> = operator[o].was
\* An edit of a plugin that was refused and that no other call overlapped
\* leaves the document and the host as they were (update_plugin_config).
RejectedChangesNothing == [][RejectedChangesNothingStep]_pluginVars

DoneIsDoneStep ==
    \A o \in Operator : ~Idle(o) /\ operator[o].alone /\ operator'[o].result = "ok" =>
        /\ operator[o].op = "enable" => list_plugins' = [registered |-> TRUE, enabled |-> TRUE]
        /\ operator[o].op = "disable" => list_plugins' = [registered |-> FALSE, enabled |-> FALSE]
        /\ operator[o].op = "write" => plugin_config' = operator[o].next
        /\ operator[o].op = "install" => loaded' # 0 /\ operator[o].path \in library'
        /\ operator[o].op = "delete" => loaded' = 0 /\ library' = {} /\ doc' = NoDoc
\* A console call that reports success, and that no other call overlapped,
\* has done what it was asked to: document, files and host agree.
DoneIsDone == [][DoneIsDoneStep]_pluginVars

(***************************************************************************)
(* The hooks of a request, through plugins in the order of the list.  A    *)
(* plugin is silent when it lacks the capability, refuses or fails the     *)
(* call, or answers what cannot be read.  Headers the plugins set reach    *)
(* only the next plugin, and a path is replaced the way a body is: both    *)
(* are left out.                                                           *)
(***************************************************************************)
Silent == [speaks |-> FALSE]
Answers == [1..Chain -> {Silent} \cup [speaks : {TRUE}, body : Body \cup {""}, stop : BOOLEAN]]
Replies == [1..Chain -> {Silent} \cup [speaks : {TRUE}, body : Body \cup {""}]]

\* Mutant: an answer without a body blanks the body.
MutMerged(r, a) == IF r.stop \/ ~a.speaks THEN r ELSE [body |-> a.body, stop |-> a.stop]

\* merge_request_intercept: an empty body keeps the one so far, and the first that terminates is the last asked.
Merged(r, a) == IF r.stop \/ ~a.speaks THEN r ELSE [body |-> IF a.body = "" THEN r.body ELSE a.body, stop |-> a.stop]

intercept_request(b, answers) == FoldLeft(Merged, [body |-> b, stop |-> FALSE], answers)
intercept_stream_chunk(b, answers) == FoldLeft(Merged, [body |-> b, stop |-> FALSE], answers)

\* Each normalizer is given what the one before it made, also an empty body.
normalize_request(b, answers) == FoldLeft(LAMBDA c, a : IF a.speaks THEN a.body ELSE c, b, answers)
normalize_response_before(b, answers) == normalize_request(b, answers)
normalize_response_after(b, answers) == normalize_request(b, answers)

\* The first translator that answers is the only one.
translate_request(b, answers) == FoldRight(LAMBDA a, c : IF a.speaks THEN a.body ELSE c, answers, b)
translate_response(b, answers) == translate_request(b, answers)

HookInit == leg = "arrived" /\ body = "own" /\ said = <<>>

Hook(from, to, new, answers) ==
    /\ leg = from /\ leg' = to /\ body' = new
    /\ said' = IF from \in {"arrived", "sent"} THEN <<>> ELSE Append(said, answers)

\* Before authentication only the end of the request is taken from the plugins.
BeforeAuth(answers) == Hook("arrived", IF intercept_request(body, answers).stop THEN "ended" ELSE "planned", body, answers)

Translate(answers) == Hook("planned", "translated", translate_request(body, answers), answers)
Normalize(answers) == Hook("translated", "normalized", normalize_request(body, answers), answers)
AfterAuth(answers) ==
    LET r == intercept_request(body, answers)
    IN  Hook("normalized", IF r.stop THEN "ended" ELSE "sent", IF r.stop \/ r.body = "" THEN body ELSE r.body, answers)

\* The next account gets a body of its own; the response is whole or a stream.
FailOver == leg = "sent" /\ leg' = "planned" /\ body' = "own" /\ said' = <<>>
Answered == leg = "sent" /\ leg' \in {"answered", "streaming"} /\ body' = "own" /\ said' = <<>>

NormalizeBefore(answers) == Hook("answered", "before", normalize_response_before(body, answers), answers)
TranslateBack(answers) == Hook("before", "back", translate_response(body, answers), answers)
NormalizeAfter(answers) == Hook("back", "given", normalize_response_after(body, answers), answers)

\* CountedStream::poll_next: a chunk is dropped, replaced or passed on.
Chunk(answers) ==
    LET r == intercept_stream_chunk("own", answers)
    IN  /\ leg = "streaming" /\ leg' = "streaming" /\ said' = <<answers>>
        /\ body' = IF r.stop THEN "dropped" ELSE r.body

HookNext ==
    \/ FailOver \/ Answered
    \/ \E answers \in Answers : BeforeAuth(answers) \/ AfterAuth(answers) \/ Chunk(answers)
    \/ \E answers \in Replies :
          \/ Translate(answers) \/ Normalize(answers)
          \/ NormalizeBefore(answers) \/ TranslateBack(answers) \/ NormalizeAfter(answers)

\* What a chain of interceptors, normalizers or translators leaves.
Speakers(answers) == {i \in 1..Chain : answers[i].speaks}
Heard(answers) == {i \in Speakers(answers) : answers[i].body # "" /\ \A j \in 1..(i - 1) : ~(answers[j].speaks /\ answers[j].stop)}
LastOf(S, answers, b) == IF S = {} THEN b ELSE answers[CHOOSE i \in S : \A j \in S : j <= i].body
FirstOf(S, answers, b) == IF S = {} THEN b ELSE answers[CHOOSE i \in S : \A j \in S : i <= j].body

\* What is sent to an account is the word of the last plugin that had one:
\* of the interceptors, else of the normalizers, else of the first
\* translator, else the proxy's own body; what is given to the client is the
\* last normalizer's, else the first translator's, and a chunk is the last
\* interceptor's unless one of them drops it (relay.rs, hooks.rs).
TheLastWordCounts ==
    /\ leg = "sent" =>
         body = LastOf(Heard(said[3]), said[3], LastOf(Speakers(said[2]), said[2], FirstOf(Speakers(said[1]), said[1], "own")))
    /\ leg = "given" =>
         body = LastOf(Speakers(said[3]), said[3], FirstOf(Speakers(said[2]), said[2], LastOf(Speakers(said[1]), said[1], "own")))
    /\ leg = "streaming" /\ said # <<>> =>
         body = (IF \E i \in Speakers(said[1]) : said[1][i].stop THEN "dropped" ELSE LastOf(Heard(said[1]), said[1], "own"))
====
