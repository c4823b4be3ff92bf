--------------------------- MODULE StreamOutcomes ---------------------------
(***************************************************************************)
(* How a streamed request ends (relay.rs): a response body that counts its *)
(* outcome once whichever way it ends, the account object it is counted    *)
(* on, and the scoped key (state.rs, management/scoped_keys.rs) whose      *)
(* budget it is charged to.                                                *)
(*                                                                         *)
(* One account and one scoped key at a time.  An account object holds its  *)
(* counters and health in shared cells.  `tally' is what the cells hold;   *)
(* publishing a Devin catalog builds a new object over the same cells, a   *)
(* rescan one with cells of its own.  A key's live counter is a cell too,  *)
(* which a request keeps from its start.                                   *)
(***************************************************************************)
EXTENDS Integers, Sequences, FiniteSets, FiniteSetsExt

CONSTANTS
    Stream,        \* requests
    Devin,         \* BOOLEAN values: which kinds of account are explored
    TokenLimit,    \* token_limit of the scoped key
    MaxObject,     \* bound: account objects built
    MaxEdit,       \* bound: edits of the settings document by the console
    MaxRestart     \* bound: restarts of the process

VARIABLES
    stream,     \* Stream -> a request, its body and its record
    object,     \* sequence of account objects, the last one is in the pool
    tally,      \* cells -> outcomes counted and bench
    inFlight,   \* monitor.in_flight
    entry,      \* the tracker's entry of the key
    counter,    \* sequence of live counters
    document,   \* the key in the settings document, id 0 when absent
    edits,
    restarts,
    lastId,     \* ids of keys made so far
    lagging     \* history: a write of the usage failed or was overwritten

outcomeVars == <<stream, object, tally, inFlight, entry, counter, document, edits, restarts, lastId, lagging>>

StreamEnd == {"Eof", "TransportError", "Cancelled"}
(* What the last frames said: devin_outcome of a Devin stream, or the      *)
(* error frame stream_ended_with_error looks for.                          *)
Ending == {"terminated", "silent", "error", "unauthenticated"}
NoKey == [id |-> 0, ident |-> 0, used |-> 0]
NoEntry == [id |-> 0, ident |-> 0, cell |-> 0]
Cell == 1..MaxObject
Fresh == [ok |-> 0, fail |-> 0, benched |-> FALSE]
Idle == [phase |-> "new", ident |-> 0, id |-> 0, cell |-> 0, member |-> 0, outcome |-> FALSE,
         guard |-> FALSE, task |-> "none", spawned |-> 0, tokens |-> 0, charged |-> 0]

OutcomesInit ==
    /\ stream = [s \in Stream |-> Idle]
    /\ \E d \in Devin : object = <<[token |-> 1, cells |-> 1, devin |-> d]>>
    /\ tally = [c \in Cell |-> Fresh]
    /\ inFlight = 0
    /\ document = [id |-> 1, ident |-> 1, used |-> 0]
    /\ entry = [id |-> 1, ident |-> 1, cell |-> 1]
    /\ counter = <<0>>
    /\ edits = 0 /\ restarts = 0 /\ lastId = 1 /\ lagging = FALSE

---------------------------------------------------------------------------
(* The settings document and its observer, the tracker.                    *)

MutReconcile(key) ==
    /\ entry' = IF key.id = 0 THEN NoEntry ELSE [id |-> key.id, ident |-> key.ident, cell |-> Len(counter) + 1]
    /\ counter' = IF key.id = 0 THEN counter ELSE Append(counter, key.used)

MutReconcileKeepsDeleted(key) ==
    /\ entry' = IF key.id = 0 THEN entry ELSE [id |-> key.id, ident |-> key.ident, cell |-> 1]
    /\ counter' = [counter EXCEPT ![1] = Max({@, key.used})]

(* ScopedKeyTracker::reconcile: a key that still exists keeps its counter. *)
Reconcile(key) ==
    IF key.id # 0 /\ entry.id = key.id
    THEN /\ entry' = [entry EXCEPT !.ident = key.ident]
         /\ counter' = [counter EXCEPT ![entry.cell] = Max({@, key.used})]
    ELSE /\ entry' = IF key.id = 0 THEN NoEntry
                     ELSE [id |-> key.id, ident |-> key.ident, cell |-> Len(counter) + 1]
         /\ counter' = IF key.id = 0 THEN counter ELSE Append(counter, key.used)

Behind == entry'.id # 0 /\ document'.used < counter'[entry'.cell]

Mutate(key) ==
    /\ document' = key
    /\ Reconcile(key)
    /\ lagging' = (lagging /\ Behind)

Edit ==
    /\ edits < MaxEdit
    /\ edits' = edits + 1
    /\ UNCHANGED <<stream, object, tally, inFlight, restarts>>

CreateScopedKey ==
    /\ Edit
    /\ document = NoKey
    /\ lastId' = lastId + 1
    /\ Mutate([id |-> lastId + 1, ident |-> 2 * lastId + 1, used |-> 0])

(* The live count is copied into the document under the document's lock;   *)
(* the raw key, and with it the identifier, may change.                    *)
PatchScopedKey ==
    /\ Edit
    /\ document # NoKey
    /\ \E ident \in {document.ident, 2 * document.id} :
         Mutate([document EXCEPT !.ident = ident,
                   !.used = IF entry.ident = document.ident THEN Max({@, counter[entry.cell]}) ELSE @])
    /\ UNCHANGED lastId

DeleteScopedKey == Edit /\ document # NoKey /\ Mutate(NoKey) /\ UNCHANGED lastId

(* The console replaces the whole document, by an older one for example.   *)
ReplaceDocument ==
    /\ Edit
    /\ \E id \in 1..lastId, used \in 0..1 :
         LET key == [id |-> id, ident |-> 2 * id - 1, used |-> used] IN
         /\ document' = key
         /\ Reconcile(key)
         /\ lagging' = Behind
    /\ UNCHANGED lastId

---------------------------------------------------------------------------
(* A request.                                                              *)

(* require_api_key: the identity is settled before the body is read.       *)
Authenticate(s) ==
    /\ stream[s].phase = "new"
    /\ entry.id # 0
    /\ LET q == stream[s]
       IN stream' = [stream EXCEPT ![s] = [q EXCEPT !.phase = "authenticated", !.ident = entry.ident]]
    /\ UNCHANGED <<object, tally, inFlight, entry, counter, document, edits, restarts, lastId, lagging>>

(* handle_relay, up to the body of a response: the entry is looked up once *)
(* and its budget is tested once.  The account's object is the pool's.     *)
HandleRelay(s) ==
    /\ stream[s].phase = "authenticated"
    /\ LET q == stream[s]
           found == entry.id # 0 /\ entry.ident = q.ident
       IN IF found /\ counter[entry.cell] >= TokenLimit
          THEN /\ stream' = [stream EXCEPT ![s] = [q EXCEPT !.phase = "refused"]]
               /\ UNCHANGED inFlight
          ELSE /\ stream' = [stream EXCEPT ![s] =
                                [q EXCEPT !.phase = "open", !.member = Len(object),
                                          !.outcome = TRUE, !.guard = TRUE,
                                          !.id = IF found THEN entry.id ELSE 0,
                                          !.cell = IF found THEN entry.cell ELSE 0]]
               /\ inFlight' = inFlight + 1
    /\ UNCHANGED <<object, tally, entry, counter, document, edits, restarts, lastId, lagging>>

MutCurrent(m) == {Len(object)}

(* The pool's object, when it stands for the same login and shares cells.  *)
Current(m) ==
    LET now == Len(object)
    IN {o \in {now} : object[o].token = object[m].token /\ object[o].cells = object[m].cells}

(* Which cells an outcome is written to: a cell shared by two objects once. *)
Reached(m) ==
    {object[o].cells : o \in {m} \cup (IF object[m].devin THEN Current(m) ELSE {})}

MutTakes(s) == stream[s].phase \in {"open", "ended"}

(* outcome.take(): whoever finalizes first.                                *)
Takes(s) == stream[s].outcome

Succeeds(devin, end, ending) ==
    end = "Eof" /\ (IF devin THEN ending = "terminated" ELSE ending # "error")

(* StreamCapture::finalize: count the outcome, bench on a Connect error,   *)
(* and spawn the record.                                                   *)
Finalize(s, end, ending, tokens) ==
    LET q == stream[s] IN
    IF Takes(s)
    THEN LET m == q.member
             ok == Succeeds(object[m].devin, end, ending)
             bench == ~ok /\ object[m].devin /\ ending = "unauthenticated"
         IN /\ tally' = [c \in Cell |->
                           IF c \notin Reached(m) THEN tally[c]
                           ELSE [ok |-> tally[c].ok + (IF ok THEN 1 ELSE 0),
                                 fail |-> tally[c].fail + (IF ok THEN 0 ELSE 1),
                                 benched |-> tally[c].benched \/ bench]]
            /\ stream' = [stream EXCEPT ![s] =
                             [q EXCEPT !.outcome = FALSE, !.guard = FALSE, !.tokens = tokens,
                                       !.phase = IF end = "Cancelled" THEN "dropped" ELSE "ended",
                                       !.task = "charging", !.spawned = q.spawned + 1]]
    ELSE /\ stream' = [stream EXCEPT ![s] = [q EXCEPT !.phase = "dropped", !.guard = FALSE]]
         /\ UNCHANGED tally

ReleaseGuard(s) == inFlight' = inFlight - (IF stream[s].guard THEN 1 ELSE 0)

(* poll_next reaches the end or an error of the upstream body.             *)
PollNext(s) ==
    /\ stream[s].phase = "open"
    /\ \E end \in StreamEnd \ {"Cancelled"}, ending \in Ending, tokens \in 0..1 :
         /\ (ending = "unauthenticated") => object[stream[s].member].devin
         /\ Finalize(s, end, ending, tokens)
    /\ ReleaseGuard(s)
    /\ UNCHANGED <<object, entry, counter, document, edits, restarts, lastId, lagging>>

(* Drop for CountedStream, after the end or in the middle.                 *)
DropStream(s) ==
    /\ stream[s].phase \in {"open", "ended"}
    /\ \E tokens \in 0..1 : Finalize(s, "Cancelled", "silent", tokens)
    /\ ReleaseGuard(s)
    /\ UNCHANGED <<object, entry, counter, document, edits, restarts, lastId, lagging>>

(* record_request_outcome up to the decision of persist_scoped_usage.      *)
RecordRequestOutcome(s) ==
    /\ stream[s].task = "charging"
    /\ LET q == stream[s]
           charged == counter[q.cell] + q.tokens
           save == document.id = q.id /\ document.used < charged
       IN IF q.tokens = 0 \/ q.cell = 0
          THEN stream' = [stream EXCEPT ![s] = [q EXCEPT !.task = "done"]] /\ UNCHANGED counter
          ELSE /\ counter' = [counter EXCEPT ![q.cell] = charged]
               /\ stream' = [stream EXCEPT ![s] =
                                [q EXCEPT !.charged = charged, !.task = IF save THEN "saving" ELSE "done"]]
    /\ UNCHANGED <<object, tally, inFlight, entry, document, edits, restarts, lastId, lagging>>

MutPersistScopedUsage(s) ==
    /\ stream[s].task = "saving"
    /\ LET q == stream[s] IN stream' = [stream EXCEPT ![s] = [q EXCEPT !.task = "done"]]
    /\ Mutate(IF document.id = stream[s].id THEN [document EXCEPT !.used = stream[s].charged] ELSE document)
    /\ UNCHANGED <<object, tally, inFlight, edits, restarts, lastId>>

(* The mutation of persist_scoped_usage, on a blocking thread.             *)
PersistScopedUsage(s) ==
    /\ stream[s].task = "saving"
    /\ LET q == stream[s] IN stream' = [stream EXCEPT ![s] = [q EXCEPT !.task = "done"]]
    /\ \/ Mutate(IF document.id = stream[s].id
                 THEN [document EXCEPT !.used = Max({@, stream[s].charged})] ELSE document)
       \/ lagging' = TRUE /\ UNCHANGED <<entry, counter, document>>
    /\ UNCHANGED <<object, tally, inFlight, edits, restarts, lastId>>

---------------------------------------------------------------------------
(* The account's object is replaced: a catalog is published over the same  *)
(* cells, a rescan copies the cells of the same login, a new login starts  *)
(* with fresh ones.                                                        *)
ReplaceMember ==
    /\ Len(object) < MaxObject
    /\ LET old == object[Len(object)] IN
       \E new \in {old, [old EXCEPT !.cells = Len(object) + 1],
                   [old EXCEPT !.cells = Len(object) + 1, !.token = @ + 1]} :
         /\ old.devin \/ new.cells # old.cells
         /\ object' = Append(object, new)
         /\ tally' = IF new.cells # old.cells /\ new.token = old.token
                     THEN [tally EXCEPT ![new.cells] = tally[old.cells]] ELSE tally
    /\ UNCHANGED <<stream, inFlight, entry, counter, document, edits, restarts, lastId, lagging>>

(* AppState::new: counters start from the document.                        *)
Restart ==
    /\ restarts < MaxRestart
    /\ restarts' = restarts + 1
    /\ stream' = [s \in Stream |-> IF stream[s].phase = "new" THEN Idle ELSE [Idle EXCEPT !.phase = "gone"]]
    /\ object' = <<[token |-> 1, cells |-> 1, devin |-> object[Len(object)].devin]>>
    /\ tally' = [c \in Cell |-> Fresh]
    /\ inFlight' = 0
    /\ entry' = IF document.id = 0 THEN NoEntry ELSE [id |-> document.id, ident |-> document.ident, cell |-> 1]
    /\ counter' = <<document.used>>
    /\ lagging' = FALSE
    /\ UNCHANGED <<document, edits, lastId>>

OutcomesNext ==
    \/ \E s \in Stream : \/ Authenticate(s) \/ HandleRelay(s) \/ PollNext(s) \/ DropStream(s)
                         \/ RecordRequestOutcome(s) \/ PersistScopedUsage(s)
    \/ CreateScopedKey \/ PatchScopedKey \/ DeleteScopedKey \/ ReplaceDocument
    \/ ReplaceMember \/ Restart

OutcomesSpec == OutcomesInit /\ [][OutcomesNext]_outcomeVars

---------------------------------------------------------------------------
(* The streams, their tasks and the document of keys have their types.     *)
OutcomesTypeOK ==
    /\ \A s \in Stream : /\ stream[s].phase \in {"new", "authenticated", "refused", "open", "ended", "dropped", "gone"}
                         /\ stream[s].task \in {"none", "charging", "saving", "done"}
                         /\ stream[s].member \in 0..Len(object)
                         /\ stream[s].cell \in 0..Len(counter)
    /\ inFlight \in Nat
    /\ entry.cell \in 0..Len(counter) /\ (entry.id = 0) = (document.id = 0)

(* A request is counted once, on one object, and recorded once, whether    *)
(* its body reaches the end, breaks, is dropped, or is dropped after its   *)
(* end; the gauge of requests in flight is the number of open bodies.      *)
CountedOnce ==
    /\ \A s \in Stream : stream[s].spawned = (IF stream[s].phase \in {"ended", "dropped"} THEN 1 ELSE 0)
    /\ inFlight = Cardinality({s \in Stream : stream[s].phase = "open"})

NewLoginIsLeftAloneStep ==
    \A c \in Cell : tally'[c] # tally[c] /\ object' = object /\ restarts' = restarts =>
      \E s \in Stream : /\ stream[s].outcome /\ ~stream'[s].outcome
                        /\ object[stream[s].member].cells = c

(* An outcome never reaches the cells of a later login: a stream of the    *)
(* replaced credential neither counts on nor benches its successor.        *)
NewLoginIsLeftAlone == [][NewLoginIsLeftAloneStep]_outcomeVars

SpentStaysSpentStep ==
    entry.id # 0 /\ entry'.id = entry.id /\ restarts' = restarts
      => counter'[entry'.cell] >= counter[entry.cell]

(* While a key exists its live count never falls, whatever the console     *)
(* writes: neither an edit, a new raw key nor an older document hands      *)
(* spent tokens back.                                                      *)
SpentStaysSpent == [][SpentStaysSpentStep]_outcomeVars

(* Once the records have run, the document holds everything the live       *)
(* counter does, so that a restart resumes from it; only a failed write,   *)
(* a document replaced by an older one, or a charge still held by a        *)
(* request that saw an earlier counter, leaves it behind.                  *)
DocumentCatchesUp ==
    entry.id # 0 /\ ~lagging /\ (\A s \in Stream : stream[s].task \notin {"charging", "saving"})
        => document.used >= counter[entry.cell]

(* What streams leave behind, as a restart will find it: counted once and  *)
(* charged to the key in the document (finalize, persist_scoped_usage).    *)
OutcomesSettleOnce == CountedOnce /\ DocumentCatchesUp

OutcomesStayWithTheirLoginStep == NewLoginIsLeftAloneStep /\ SpentStaysSpentStep

(* An outcome reaches the login that served it and no other, and what a    *)
(* key has spent stays spent (record_outcome, reconcile).                  *)
OutcomesStayWithTheirLogin == [][OutcomesStayWithTheirLoginStep]_outcomeVars
=============================================================================
