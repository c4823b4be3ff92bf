---------------------------- MODULE TokenRefresh ----------------------------
(***************************************************************************)
(* The credential of one account and the tasks that rotate it: the refresh *)
(* of crates/gateway/src/account.rs, the rescans of state.rs that replace  *)
(* the member object under it, and the console's writers of the same file. *)
(* Grants are numbered as the provider issues them; a grant and the access *)
(* token issued with it are one number, 0 is an absent file.               *)
(***************************************************************************)
EXTENDS Integers, FiniteSets

CONSTANTS
    Task,      \* tasks that refresh: relays, quota polls, the pre-expiry loop, the warmup
    Poll,      \* the tasks among them that poll quotas, of benched accounts too
    Warmup,    \* the tasks among them that refresh without the settings store
    Object,    \* AccountMember objects; also the refresh locks they create
    Storage,   \* whether a storage manager is configured
    MaxGrant,  \* bound: grants the provider issues
    MaxRev,    \* bound: writes of the operator
    NoObject

ASSUME TaskAssumption == Warmup \union Poll \subseteq Task /\ NoObject \notin Object
ASSUME NameAssumption == "operator" \notin Task /\ "free" \notin Task
ASSUME FlagAssumption == Storage \in BOOLEAN
ASSUME BoundAssumption == MaxGrant \in Nat \ {0} /\ MaxRev \in Nat

VARIABLES
    file,         \* the credential file: [grant, rev], rev the operator's latest write in it
    issued,       \* the provider: grants issued so far
    valid,        \* the provider: grants that can still be redeemed
    expired,      \* access tokens up to this one are past their expiry
    coordinator,  \* holder of composition_lock: a task, "operator" or "free"
    rescan,       \* rescan_pool: [at, by, object]
    published,    \* the account's member in the pool, NoObject when it has none
    member,       \* per object: [token, health, lock]
    task,         \* per task: where it is, the member it holds, what it read
    written,      \* history: the operator's latest write
    lineage,      \* history: the grants that descend from the operator's latest login
    spent         \* history: grants whose tokens reached a task that keeps them

vars == <<file, issued, valid, expired, coordinator, rescan, published, member, task,
          written, lineage, spent>>

History == <<written, lineage, spent>>

Provider == <<issued, valid, expired>>
Pool == <<rescan, published>>
-----------------------------------------------------------------------------
NoFile == [grant |-> 0, rev |-> 0]

\* presented_token, the grant in the file when it was captured, the tokens received, and
\* the file as commit_refresh compared it. A dropped task is a commit that outlived its
\* future; a stray one held a member when the account left the pool (history).
Idle == [at |-> "idle", object |-> NoObject, presented |-> 0, expected |-> 0, got |-> 0,
         current |-> NoFile, dropped |-> FALSE, stray |-> FALSE]

Quiet == [at |-> "idle", by |-> "nobody", object |-> NoObject]

\* The calls made while refresh_lock is held. A dropped future has let go of it.
Holds(t) == task[t].at \in {"capture", "send", "commit", "write", "reload"} /\ ~task[t].dropped

LockFree(l) == \A t \in Task : Holds(t) => member[task[t].object].lock # l

\* Objects somebody can still reach, and the locks they share.
Live == ({published, rescan.object} \union {task[t].object : t \in Task}) \ {NoObject}
Unused == Object \ (Live \union {member[o].lock : o \in Live})

Init ==
    /\ file = [grant |-> 1, rev |-> 0]
    /\ issued = 1 /\ valid = {1} /\ expired = 0
    /\ coordinator = "free" /\ rescan = Quiet
    /\ published \in Object
    /\ member = [o \in Object |-> [token |-> 1, health |-> "available", lock |-> o]]
    /\ task = [t \in Task |-> Idle]
    /\ written = 0 /\ lineage = {1} /\ spent = {}
-----------------------------------------------------------------------------
(* refresh_with_store *)

\* A task refreshes the member it loaded: before the call when the token has expired,
\* or with the token an upstream rejected.
Start(t, presented) ==
    /\ task[t].at = "idle" /\ published # NoObject
    /\ t \in Poll \/ member[published].health = "available"
    /\ \/ presented = 0 /\ t \notin Warmup /\ member[published].token <= expired
       \/ presented = member[published].token
    /\ task' = [task EXCEPT ![t] = [Idle EXCEPT !.at = "waiting", !.object = published,
                                                !.presented = presented]]
    /\ UNCHANGED <<file, Provider, coordinator, Pool, member, History>>

\* What the refreshing task still has to rotate, once it has reloaded `token'.
Needed(t, token) ==
    IF task[t].presented = 0 THEN token <= expired ELSE token = task[t].presented

\* refresh_lock, reload_from_file and the tests that end the refresh with Ok(false).
Acquire(t) ==
    /\ task[t].at = "waiting" /\ LockFree(member[task[t].object].lock)
    /\ IF file.grant = 0
       THEN /\ task' = [task EXCEPT ![t] = Idle]
            /\ UNCHANGED member
       ELSE /\ member' = [member EXCEPT ![task[t].object].token = file.grant]
            /\ task' = IF Needed(t, file.grant) THEN [task EXCEPT ![t].at = "capture",
                                                                    ![t].presented = 0]
                                                ELSE [task EXCEPT ![t] = Idle]
    /\ UNCHANGED <<file, Provider, coordinator, Pool, History>>

\* The file is read again; a grant other than the member's ends the refresh.
Capture(t) ==
    /\ task[t].at = "capture"
    /\ task' = IF file.grant = member[task[t].object].token
               THEN [task EXCEPT ![t].at = "send", ![t].expected = file.grant]
               ELSE [task EXCEPT ![t] = Idle]
    /\ UNCHANGED <<file, Provider, coordinator, Pool, member, History>>

\* The provider exchanges a grant for the next one.
Exchange(grant) ==
    /\ grant \in valid /\ issued < MaxGrant
    /\ issued' = issued + 1
    /\ valid' = (valid \ {grant}) \union {issued'}
    /\ lineage' = IF grant \in lineage THEN lineage \union {issued'} ELSE lineage

\* The exchange succeeds and its tokens arrive.
Redeem(t) ==
    /\ task[t].at = "send"
    /\ Exchange(task[t].expected)
    /\ task' = [task EXCEPT ![t].at = "commit", ![t].got = issued']
    /\ spent' = IF task[t].stray THEN spent ELSE spent \union {task[t].expected}
    /\ UNCHANGED <<file, expired, coordinator, Pool, member, written>>

\* The provider refuses: a used grant always, a good one on a whim (is_auth_failure).
Refuse(t) ==
    /\ task[t].at = "send"
    /\ task' = [task EXCEPT ![t].at = "refused"]
    /\ UNCHANGED <<file, Provider, coordinator, Pool, member, History>>

\* No usable reply: nothing was sent, or the exchange happened and its reply is lost,
\* with the connection or with the future of a client that went away.
Fail(t) ==
    /\ task[t].at = "send"
    /\ task' = [task EXCEPT ![t] = Idle]
    /\ UNCHANGED <<issued, valid, lineage>> \/ Exchange(task[t].expected)
    /\ UNCHANGED <<file, expired, coordinator, Pool, member, written, spent>>

\* The caller benches the member it holds, after the refresh released its lock; a quota
\* poll only reports the error.
BenchMember(t) ==
    /\ task[t].at = "refused"
    /\ member' = IF t \in Poll THEN member
                 ELSE [member EXCEPT ![task[t].object].health = "auth_failed"]
    /\ task' = [task EXCEPT ![t] = Idle]
    /\ UNCHANGED <<file, Provider, coordinator, Pool, History>>

\* Mutant: a reload that does not notice that the file is gone.
MutFinish(t) ==
    /\ task[t].at = "reload"
    /\ member' = [member EXCEPT ![task[t].object].token = file.grant,
                               ![task[t].object].health = "available"]
    /\ task' = [task EXCEPT ![t] = Idle]
    /\ UNCHANGED <<file, Provider, coordinator, Pool, History>>

\* reload_from_file after the commit, and clear_auth_failure.
Finish(t) ==
    /\ task[t].at = "reload"
    /\ member' = IF file.grant = 0 THEN member
                 ELSE [member EXCEPT ![task[t].object].token = file.grant,
                                     ![task[t].object].health = "available"]
    /\ task' = [task EXCEPT ![t] = Idle]
    /\ UNCHANGED <<file, Provider, coordinator, Pool, History>>

\* The client goes away and its future is dropped at an await. The blocking commit
\* runs on without it and without the refresh lock.
Drop(t) ==
    /\ task[t].at \in {"waiting", "capture", "commit", "write"} /\ ~task[t].dropped
    /\ IF task[t].at \in {"commit", "write"}
       THEN /\ task' = [task EXCEPT ![t].dropped = TRUE, ![t].object = NoObject]
            /\ spent' = spent \ {task[t].expected}
       ELSE /\ task' = [task EXCEPT ![t] = Idle]
            /\ UNCHANGED spent
    /\ UNCHANGED <<file, Provider, coordinator, Pool, member, written, lineage>>
-----------------------------------------------------------------------------
(* commit_refresh *)

Committed(t) == IF task[t].dropped THEN Idle ELSE [task[t] EXCEPT !.at = "reload"]

\* Mutant: the commit no longer compares the file with what the refresh read.
MutCommitRead(t) ==
    /\ task[t].at = "commit"
    /\ t \notin Warmup => coordinator = "free"
    /\ task' = [task EXCEPT ![t].at = "write", ![t].current = file]
    /\ coordinator' = IF t \in Warmup THEN coordinator ELSE t
    /\ UNCHANGED <<file, Provider, Pool, member, History>>

\* The blocking task takes the coordinator, when it was given the settings, and compares
\* the file with what the refresh read: a changed grant or a missing file is a conflict.
CommitRead(t) ==
    /\ task[t].at = "commit"
    /\ t \notin Warmup => coordinator = "free"
    /\ IF file.grant = task[t].expected
       THEN /\ task' = [task EXCEPT ![t].at = "write", ![t].current = file]
            /\ coordinator' = IF t \in Warmup THEN coordinator ELSE t
       ELSE /\ task' = [task EXCEPT ![t] = Idle]
            /\ UNCHANGED coordinator
    /\ UNCHANGED <<file, Provider, Pool, member, History>>

\* Mutant: the merge leaves the grant out of the keys it copies.
MutCommitWrite(t) ==
    /\ task[t].at = "write"
    /\ file' = task[t].current
    /\ task' = [task EXCEPT ![t] = Committed(t)]
    /\ coordinator' = IF t \in Warmup THEN coordinator ELSE "free"
    /\ UNCHANGED <<Provider, Pool, member, History>>

\* The changed keys go into the file as it was compared, by a rename.
CommitWrite(t) ==
    /\ task[t].at = "write"
    /\ file' = [task[t].current EXCEPT !.grant = task[t].got]
    /\ task' = [task EXCEPT ![t] = Committed(t)]
    /\ coordinator' = IF t \in Warmup THEN coordinator ELSE "free"
    /\ UNCHANGED <<Provider, Pool, member, History>>

\* The write fails, and with it the refresh: the new grant is nowhere.
CommitFails(t) ==
    /\ task[t].at = "write"
    /\ task' = [task EXCEPT ![t] = Idle]
    /\ coordinator' = IF t \in Warmup THEN coordinator ELSE "free"
    /\ spent' = spent \ {task[t].expected}
    /\ UNCHANGED <<file, Provider, Pool, member, written, lineage>>
-----------------------------------------------------------------------------
(* The console *)

\* A field that is not part of the credential's identity: disabled, a note, a priority.
Edit ==
    /\ coordinator = "free" /\ file.grant # 0 /\ written < MaxRev
    /\ coordinator' = "operator"
    /\ written' = written + 1
    /\ file' = [file EXCEPT !.rev = written']
    /\ UNCHANGED <<Provider, Pool, member, task, lineage, spent>>

\* delete_auth_file
Delete ==
    /\ coordinator = "free" /\ file.grant # 0 /\ written < MaxRev
    /\ coordinator' = "operator"
    /\ written' = written + 1
    /\ file' = [grant |-> 0, rev |-> written'] /\ lineage' = {}
    /\ UNCHANGED <<Provider, Pool, member, task, spent>>

\* An OAuth login replaces the file, under the coordinator only with a storage manager.
Login ==
    /\ Storage => coordinator = "free"
    /\ written < MaxRev /\ issued < MaxGrant
    /\ written' = written + 1 /\ issued' = issued + 1
    /\ valid' = valid \union {issued'}
    /\ file' = [grant |-> issued', rev |-> written'] /\ lineage' = {issued'}
    /\ UNCHANGED <<expired, coordinator, Pool, member, task, spent>>

\* rescan_pool under rescan_gate, by the writer that holds the coordinator or by anyone
\* else: the file becomes a new member object with a lock of its own.
RescanLoad(by) ==
    /\ rescan.at = "idle"
    /\ by = "operator" => coordinator = "operator"
    /\ IF file.grant = 0
       THEN /\ rescan' = [at |-> "loaded", by |-> by, object |-> NoObject]
            /\ UNCHANGED member
       ELSE \E o \in Unused :
            /\ member' = [member EXCEPT ![o] = [token |-> file.grant, health |-> "available",
                                                lock |-> o]]
            /\ rescan' = [at |-> "loaded", by |-> by, object |-> o]
    /\ UNCHANGED <<file, Provider, coordinator, published, task, History>>

\* Mutant: the lock is adopted with the rest, from a member with the same token only.
MutAdopted(new, previous) ==
    IF member[previous].token = member[new].token
    THEN [member[new] EXCEPT !.health = member[previous].health,
                             !.lock = member[previous].lock]
    ELSE member[new]

\* adopt_runtime_state with the same token, the previous member's lock, reload_accounts.
Adopted(new, previous) ==
    [member[new] EXCEPT
        !.health = IF member[previous].token = member[new].token
                   THEN member[previous].health ELSE @,
        !.lock = member[previous].lock]

RescanPublish ==
    /\ rescan.at = "loaded"
    /\ member' = IF rescan.object # NoObject /\ published # NoObject
                 THEN [member EXCEPT ![rescan.object] = Adopted(rescan.object, published)]
                 ELSE member
    /\ published' = rescan.object
    /\ coordinator' = IF rescan.by = "operator" THEN "free" ELSE coordinator
    /\ rescan' = Quiet
    /\ task' = IF rescan.object # NoObject THEN task
               ELSE [t \in Task |-> [task[t] EXCEPT !.stray = @ \/ task[t].at # "idle"]]
    /\ UNCHANGED <<file, Provider, History>>

\* Time passes.
Expire ==
    /\ expired < issued
    /\ expired' = issued
    /\ UNCHANGED <<file, issued, valid, coordinator, Pool, member, task, History>>
-----------------------------------------------------------------------------
Next ==
    \/ \E t \in Task : \/ \E presented \in 0 .. MaxGrant : Start(t, presented)
                       \/ Acquire(t) \/ Capture(t) \/ Redeem(t) \/ Refuse(t) \/ Fail(t)
                       \/ BenchMember(t) \/ Finish(t) \/ Drop(t)
                       \/ CommitRead(t) \/ CommitWrite(t) \/ CommitFails(t)
    \/ Edit \/ Delete \/ Login \/ Expire
    \/ \E by \in {"operator", "watcher"} : RescanLoad(by)
    \/ RescanPublish

Spec == Init /\ [][Next]_vars
-----------------------------------------------------------------------------
Places == {"idle", "waiting", "capture", "send", "refused", "commit", "write", "reload"}
Contents == [grant : 0 .. issued, rev : 0 .. written]
MemberStates == [token : 1 .. issued, health : {"available", "auth_failed"}, lock : Object]
TaskStates == [at : Places, object : Object \union {NoObject}, presented : 0 .. issued,
               expected : 0 .. issued, got : 0 .. issued, current : Contents,
               dropped : BOOLEAN, stray : BOOLEAN]

TypeOK ==
    /\ file \in Contents
    /\ issued \in 1 .. MaxGrant /\ valid \subseteq 1 .. issued /\ expired \in 0 .. issued
    /\ coordinator \in Task \union {"operator", "free"}
    /\ rescan \in [at : {"idle", "loaded"}, by : {"nobody", "operator", "watcher"},
                   object : Object \union {NoObject}]
    /\ published \in Object \union {NoObject}
    /\ member \in [Object -> MemberStates]
    /\ task \in [Task -> TaskStates]
    /\ written \in 0 .. MaxRev
    /\ lineage \subseteq 1 .. issued /\ spent \subseteq 1 .. issued

\* No grant is presented again once its tokens have arrived, whichever member objects
\* the two tasks hold: a provider takes a replayed grant for a stolen one. Excepted are
\* exchanges whose reply, commit or future was lost, and tasks still holding an account
\* that had left the pool.
GrantsAreSpentOnce ==
    \A t \in Task : task[t].at = "send" => task[t].expected \notin spent \/ task[t].stray

\* A grant that was exchanged is in the file only while the task that has its successor
\* is on its way to write it: no other writer and no late commit brings it back.
SpentGrantIsReplaced ==
    file.grant \in spent =>
        \E t \in Task : /\ task[t].at \in {"commit", "write"} /\ ~task[t].dropped
                       /\ task[t].expected = file.grant

\* What the operator wrote, logged in or deleted last is what the file shows, whatever a
\* refresh that began before it commits after it.
EditsSurvive == file.rev = written /\ (file.grant = 0 \/ file.grant \in lineage)

\* A refresh that succeeded has lifted the bench of the account: not only of the member
\* object it ran on, but of the one that is in the pool when it ends.
RefreshLiftsBench ==
    [][\A t \in Task :
          task[t].at = "reload" /\ task'[t].at = "idle" /\ file.grant # 0 /\ published # NoObject
              => member'[published].health = "available"]_vars
=============================================================================
