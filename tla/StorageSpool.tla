---- MODULE StorageSpool ----
(***************************************************************************)
(* The shared storage of accounts and settings: a StorageManager keeps a   *)
(* spool, the directory the gateway reads, beside a backend (Postgres, a   *)
(* git remote or an object store) that other gateways write too.           *)
(* crates/registry/src/store.rs; prepare_storage of main.rs.               *)
(*                                                                         *)
(* One key is followed, of the class that decides its table.  A value is a *)
(* document and its formatting: a JSONB column stores the document in its  *)
(* own formatting, so what comes back differs in bytes from what went in.  *)
(***************************************************************************)
EXTENDS Naturals, Sequences

CONSTANTS SpoolDoc,   \* documents
          SpoolTask,  \* threads that call the manager
          MaxPeer     \* bound: writes by other gateways

VARIABLES kind,       \* the backend, and the class of the key
          remote,     \* what the backend holds
          tree,       \* git: the working tree, never pulled
          behind,     \* git: the remote has commits the branch lacks
          spool, pending,
          lock,       \* mutation
          call,       \* each thread's call
          running,
          peers,      \* writes by others so far
          confirmed,  \* history: documents the backend has held
          disturbed,  \* history: something other than this process's completed calls happened
          unseen      \* history: the backend holds another's document the spool never had

spoolVars == <<kind, remote, tree, behind, spool, pending, lock, call, running, peers, confirmed, disturbed, unseen>>

\* No value, and nobody.
None == [doc |-> "none", form |-> "none"]
Nobody == "nobody"
Kind == {k \in [backend : {"postgres", "git", "object"}, auth : BOOLEAN] : k.backend # "postgres" => k.auth}
Bytes == [doc : SpoolDoc, form : {"given", "jsonb"}]
Value == Bytes \cup {None}
Given(d) == [doc |-> d, form |-> "given"]
Idle == [pc |-> "idle", value |-> None, checked |-> FALSE, raced |-> FALSE]

\* The auth table's content is JSONB, the config table's is text.
RouteTable == kind.backend = "postgres" /\ kind.auth

Stored(v) == IF RouteTable THEN [v EXCEPT !.form = "jsonb"] ELSE v

\* Mutant: bytes are compared for every key.
MutEquivalent(a, b) == a = b

\* JSON documents are compared as values where the backend reformats them.
Equivalent(a, b) == IF RouteTable THEN a.doc = b.doc ELSE a = b

(***************************************************************************)
(* What a backend may answer, and what it holds afterwards.  Any write may *)
(* be refused, and any write that was made may lose its answer.            *)
(***************************************************************************)
Found == [ok |-> TRUE, error |-> "", value |-> remote]
Error(e) == [ok |-> FALSE, error |-> e, value |-> None]
Wrote(v, w) == {[ok |-> o, remote |-> v, tree |-> w] : o \in BOOLEAN}
Refused(w) == [ok |-> FALSE, remote |-> remote, tree |-> w]

PostgresGet == {Found, Error("Database")}
PostgresPut(v) == Wrote(Stored(v), tree) \cup {Refused(tree)}
PostgresDelete == Wrote(None, tree) \cup {Refused(tree)}

ObjectGet == {Found, Error("Network")}
ObjectPut(v) == Wrote(v, tree) \cup {Refused(tree)}
ObjectDelete == Wrote(None, tree) \cup {Refused(tree)}

\* Git reads the fetched head of the remote.  A push is refused once the remote
\* has moved on: the branch is fetched, never merged.
GitGet == {Found, Error("Unavailable")}
Push(v) == IF behind THEN {Refused(v)} ELSE Wrote(v, v) \cup {Refused(v)}
Unreachable == Refused(tree)
GitPut(v) == Push(v) \cup {Unreachable}

\* A file the working tree lacks counts as deleted, whatever the remote has.
GitDelete == IF tree = None THEN {[ok |-> TRUE, remote |-> remote, tree |-> tree], Unreachable}
             ELSE Push(None) \cup {Unreachable}

Backend == kind.backend

BackendGet == CASE Backend = "postgres" -> PostgresGet [] Backend = "object" -> ObjectGet [] OTHER -> GitGet
BackendPut(v) == CASE Backend = "postgres" -> PostgresPut(v) [] Backend = "object" -> ObjectPut(v) [] OTHER -> GitPut(v)
BackendDelete == CASE Backend = "postgres" -> PostgresDelete [] Backend = "object" -> ObjectDelete [] OTHER -> GitDelete

\* A clone of the empty branch, or a repository made on the spot.
EnsureRepo == tree = None /\ behind = FALSE

SpoolInit ==
    /\ kind \in Kind
    /\ remote = None /\ EnsureRepo
    /\ spool = None /\ pending = None
    /\ lock = Nobody /\ call = [t \in SpoolTask |-> Idle]
    /\ running = TRUE /\ peers = 0
    /\ confirmed = {None.doc} /\ disturbed = FALSE /\ unseen = FALSE

WriteSpool(v) == spool' = v

\* Failed writes go to a directory of their own, recovery data only.
SetAside(v) == pending' = v

Begin(t, c) == call' = [call EXCEPT ![t] = c]
Answer(t, r) == call' = [call EXCEPT ![t] = [Idle EXCEPT !.pc = IF r = "conflict" THEN r ELSE "idle"]] /\ lock' = Nobody
Free(t) == running /\ call[t].pc \notin {"write", "spool", "erase", "apply", "keep"}

(***************************************************************************)
(* put: compare the backend with the spool, write the backend, then the    *)
(* spool.  Only the manager's own writers are kept out by the lock.        *)
(***************************************************************************)
\* Mutant: a spool file that differs from the backend is no conflict.
MutPutCheck(t, d) ==
    /\ Free(t) /\ lock = Nobody
    /\ lock' = t /\ Begin(t, [pc |-> "write", value |-> Given(d), checked |-> spool # None, raced |-> FALSE])
    /\ UNCHANGED <<kind, remote, tree, behind, spool, pending, running, peers, confirmed, disturbed, unseen>>

\* A backend that cannot be asked is passed over when it says Unavailable;
\* other errors end the call before anything is written.
PutCheck(t, d) ==
    /\ Free(t) /\ lock = Nobody
    /\ LET writes(asked) == /\ lock' = t
                            /\ Begin(t, [pc |-> "write", value |-> Given(d), checked |-> asked, raced |-> FALSE])
       IN \/ spool = None /\ writes(FALSE)
          \/ /\ spool # None
             /\ \E r \in BackendGet :
                   IF r.ok THEN IF r.value # None /\ ~Equivalent(r.value, spool) THEN Answer(t, "conflict") ELSE writes(TRUE)
                   ELSE IF r.error = "Unavailable" THEN writes(FALSE) ELSE Answer(t, "error")
    /\ unseen' = (unseen /\ (spool = None \/ ~Equivalent(remote, spool)))
    /\ UNCHANGED <<kind, remote, tree, behind, spool, pending, running, peers, confirmed, disturbed>>

\* What a write or a deletion did to the backend, whether it said so or not.
Takes(r) ==
    /\ remote' = r.remote /\ tree' = r.tree
    /\ confirmed' = confirmed \cup {r.remote.doc}
    /\ unseen' = (unseen /\ r.remote = remote)

PutStored(t) ==
    /\ call[t].pc = "write"
    /\ \E r \in BackendPut(call[t].value) : r.ok /\ Takes(r)
    /\ Begin(t, [call[t] EXCEPT !.pc = "spool"])
    /\ UNCHANGED <<kind, behind, spool, pending, lock, running, peers, disturbed>>

\* Mutant: a refused write goes to the spool as well.
MutPutFailed(t) ==
    /\ call[t].pc = "write"
    /\ \E r \in BackendPut(call[t].value) : ~r.ok /\ Takes(r) /\ disturbed' = (disturbed \/ r.remote # remote)
    /\ pending' = call[t].value /\ WriteSpool(call[t].value) /\ Answer(t, "error")
    /\ UNCHANGED <<kind, behind, running, peers>>

\* A write that failed is kept aside, outside the spool, also when the backend
\* took it and only the answer was lost.
PutFailed(t) ==
    /\ call[t].pc = "write"
    /\ \E r \in BackendPut(call[t].value) : ~r.ok /\ Takes(r) /\ disturbed' = (disturbed \/ r.remote # remote)
    /\ SetAside(call[t].value) /\ Answer(t, "error")
    /\ UNCHANGED <<kind, behind, spool, running, peers>>

\* The file is replaced by a rename, so it is whole or untouched.
PutSpooled(t) ==
    /\ call[t].pc = "spool"
    /\ \/ WriteSpool(call[t].value) /\ pending' = None /\ Answer(t, "ok") /\ UNCHANGED disturbed
       \/ UNCHANGED <<spool, pending>> /\ Answer(t, "error") /\ disturbed' = TRUE
    /\ UNCHANGED <<kind, remote, tree, behind, running, peers, confirmed, unseen>>

(***************************************************************************)
(* delete: the backend first, then the set-aside write and the spool.  A   *)
(* git backend whose working tree lacks the file answers that it is done.  *)
(***************************************************************************)
DeleteStarted(t) ==
    /\ Free(t) /\ lock = Nobody
    /\ \E r \in BackendDelete :
          /\ Takes(r) /\ disturbed' = (disturbed \/ (~r.ok /\ r.remote # remote))
          /\ IF r.ok THEN lock' = t /\ Begin(t, [Idle EXCEPT !.pc = "erase"]) ELSE Answer(t, "error")
    /\ UNCHANGED <<kind, behind, spool, pending, running, peers>>

DeleteSpooled(t) ==
    /\ call[t].pc = "erase"
    /\ pending' = None /\ spool' = None /\ Answer(t, "ok")
    /\ UNCHANGED <<kind, remote, tree, behind, running, peers, confirmed, disturbed, unseen>>

(***************************************************************************)
(* get reads the backend and refreshes the spool, without the lock.        *)
(***************************************************************************)
GetRead(t) ==
    /\ Free(t) /\ remote # None
    /\ Begin(t, [Idle EXCEPT !.pc = "keep", !.value = remote])
    /\ UNCHANGED <<kind, remote, tree, behind, spool, pending, lock, running, peers, confirmed, disturbed, unseen>>

GetSpooled(t) ==
    /\ call[t].pc = "keep"
    /\ WriteSpool(call[t].value) /\ Begin(t, Idle)
    /\ disturbed' = (disturbed \/ remote # call[t].value)
    /\ unseen' = (unseen /\ remote # call[t].value)
    /\ UNCHANGED <<kind, remote, tree, behind, pending, lock, running, peers, confirmed>>

(***************************************************************************)
(* sync_all_to_spool: list, fetch and compare everything, then write what  *)
(* was fetched and remove the files that were not listed.                  *)
(***************************************************************************)
\* An object store answers page by page; a page that says there is more has to
\* name a token that was not used before.
Page == [held : BOOLEAN, more : BOOLEAN, token : 0..2]
Pages == {<<p>> : p \in {q \in Page : ~q.more}} \cup
         {s \in {<<p, q>> : p \in {r \in Page : r.more}, q \in Page} : s[2].more => s[2].token \in {0, s[1].token}}
Faithful(pages) == (remote # None) = (\E i \in DOMAIN pages : pages[i].held)
TokenMissing(pages) == \E i \in DOMAIN pages : pages[i].more /\ pages[i].token = 0
TokenRepeated(pages) == \A i \in DOMAIN pages : pages[i].more

\* Mutant: the first page is taken for the whole list.
MutObjectList(pages) == pages[1].held

ObjectList(pages) == \E i \in DOMAIN pages : pages[i].held

Listed(pages) ==
    IF kind.backend = "object" THEN ObjectList(pages) ELSE remote # None

SyncRead(t) ==
    /\ Free(t) /\ lock = Nobody
    /\ \/ \E pages \in {p \in Pages : Faithful(p) /\ (kind.backend # "object" => Len(p) = 1 /\ p[1].token = 0)} :
            IF TokenMissing(pages) \/ TokenRepeated(pages) THEN Answer(t, "error")
            ELSE LET fetched == IF Listed(pages) THEN remote ELSE None
                 IN IF fetched # None /\ spool # None /\ ~Equivalent(fetched, spool)
                    THEN Answer(t, "conflict")
                    ELSE lock' = t /\ Begin(t, [Idle EXCEPT !.pc = "apply", !.value = fetched, !.checked = (remote # None)])
       \/ Answer(t, "error")
    /\ UNCHANGED <<kind, remote, tree, behind, spool, pending, running, peers, confirmed, disturbed, unseen>>

SyncApply(t) ==
    /\ call[t].pc = "apply"
    /\ WriteSpool(call[t].value) /\ Answer(t, "ok")
    /\ disturbed' = (disturbed \/ remote # call[t].value)
    /\ unseen' = (unseen /\ remote # call[t].value)
    /\ UNCHANGED <<kind, remote, tree, behind, pending, running, peers, confirmed>>

\* Another gateway writes or deletes, at any time.
PeerWrites(v) ==
    /\ peers < MaxPeer /\ peers' = peers + 1
    /\ remote' = IF v = None.doc THEN None ELSE Stored(Given(v))
    /\ behind' = (kind.backend = "git")
    /\ confirmed' = confirmed \cup {v}
    /\ disturbed' = TRUE
    /\ unseen' = (v # None.doc /\ (spool = None \/ spool.doc # v))
    /\ call' = [t \in SpoolTask |-> [call[t] EXCEPT !.raced = (call[t].pc = "write")]]
    /\ UNCHANGED <<kind, tree, spool, pending, lock, running>>

Crash ==
    /\ running /\ running' = FALSE
    /\ disturbed' = (disturbed \/ \E t \in SpoolTask : call[t].pc \in {"spool", "erase"})
    /\ call' = [t \in SpoolTask |-> Idle] /\ lock' = Nobody
    /\ UNCHANGED <<kind, remote, tree, behind, spool, pending, peers, confirmed, unseen>>

\* prepare_storage: an empty backend is filled from the local file d; then the
\* spool is brought up to date, and the gateway starts only if that succeeds.
PrepareStorage(d) ==
    /\ ~running
    /\ \/ /\ remote = None
          /\ \E r \in BackendPut(Given(d)) : r.ok /\ Takes(r) /\ WriteSpool(r.remote)
          /\ pending' = None
       \/ /\ remote # None /\ (spool # None => Equivalent(remote, spool))
          /\ WriteSpool(remote) /\ unseen' = FALSE /\ UNCHANGED <<remote, tree, confirmed, pending>>
    /\ running' = TRUE
    /\ UNCHANGED <<kind, behind, lock, call, peers, disturbed>>

SpoolNext ==
    \/ \E t \in SpoolTask : \/ \E d \in SpoolDoc : PutCheck(t, d)
                            \/ PutStored(t) \/ PutFailed(t) \/ PutSpooled(t)
                            \/ DeleteStarted(t) \/ DeleteSpooled(t)
                            \/ GetRead(t) \/ GetSpooled(t) \/ SyncRead(t) \/ SyncApply(t)
    \/ \E v \in SpoolDoc \cup {None.doc} : PeerWrites(v)
    \/ \E d \in SpoolDoc : PrepareStorage(d)
    \/ Crash

(***************************************************************************)
(* Properties.                                                             *)
(***************************************************************************)
\* The directory the gateway reads holds only documents the backend has held:
\* a write that failed stays out of it (put).
SpoolIsConfirmed == spool.doc \in confirmed

\* A call is refused as a conflict only when somebody else, a lost answer, a
\* crash or an overtaken read came between: the process's own completed calls
\* never block the next one, reformatted documents included (equivalent).
OwnWritesDoNotConflict == \A t \in SpoolTask : call[t].pc = "conflict" => disturbed

UnseenIsNotOverwrittenStep ==
    \A t \in SpoolTask :
        (call[t].pc = "write" /\ remote' # remote /\ call'[t].pc # "write" /\ call[t].checked /\ ~call[t].raced) => ~unseen

\* A write that compared the backend with its spool replaces no document of
\* another gateway that this one has not had, unless that one wrote after the
\* comparison (put).
UnseenIsNotOverwritten == [][UnseenIsNotOverwrittenStep]_spoolVars

SyncRemovesOnlyGoneStep ==
    \A t \in SpoolTask :
        (call[t].pc = "apply" /\ spool # None /\ spool' = None) => ~call[t].checked

\* A reconciliation removes a file only if the backend had none when it was
\* listed, however the list was cut into pages (sync_all_to_spool, list).
SyncRemovesOnlyGone == [][SyncRemovesOnlyGoneStep]_spoolVars

====
