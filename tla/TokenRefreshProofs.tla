------------------------- MODULE TokenRefreshProofs -------------------------
(***************************************************************************)
(* Proofs about the rotation of a credential, for any number of tasks,     *)
(* member objects, grants and writes: with a storage manager, and with no  *)
(* refresh that bypasses the settings store.                               *)
(***************************************************************************)
EXTENDS TokenRefresh, TLAPS

\* Every writer of the file takes the coordinator.
Coordinated == Storage = TRUE /\ Warmup = {}

\* Who holds the coordinator, and that nobody else writes the file meanwhile.
CoordinatorInv ==
    /\ rescan.at = "loaded" /\ rescan.by = "operator" => coordinator = "operator"
    /\ \A t \in Task : task[t].at = "write" =>
          coordinator = t /\ task[t].current = file /\ task[t].expected = file.grant

\* The account leaves the pool only for a deleted file, and nobody starts without it.
PoolInv ==
    /\ published = NoObject => \A t \in Task : task[t].at # "idle" => task[t].stray
    /\ file.grant = 0 => coordinator = "operator" \/ published = NoObject
    /\ rescan.at = "loaded" /\ rescan.object = NoObject =>
          published = NoObject \/ (file.grant = 0 /\ coordinator = "operator")
    /\ rescan.at = "loaded" /\ rescan.object # NoObject /\ file.grant = 0 =>
          coordinator = "operator" /\ rescan.by # "operator"
    /\ rescan.object # NoObject =>
          /\ rescan.at = "loaded" /\ rescan.object # published
          /\ \A t \in Task : task[t].object # rescan.object

\* A refresh lock has one holder, and tasks that have not strayed share one lock.
LockInv ==
    /\ \A t \in Task : task[t].dropped =>
          task[t].at \in {"commit", "write"} /\ task[t].object = NoObject
    /\ \A t \in Task : task[t].at # "idle" /\ ~task[t].dropped => task[t].object \in Object
    /\ \A t \in Task : task[t].at # "idle" /\ ~task[t].dropped /\ ~task[t].stray =>
          member[task[t].object].lock = member[published].lock
    /\ \A t, u \in Task : t # u /\ Holds(t) /\ Holds(u) =>
          member[task[t].object].lock # member[task[u].object].lock

\* A grant that was received is new to the file and to every other task until it is
\* committed, and a spent one is in the file only while a task that has not strayed is
\* about to replace it.
GrantInv ==
    /\ \A t \in Task : task[t].at \in {"send", "commit", "write"} => task[t].expected # 0
    /\ \A t \in Task : task[t].at \in {"commit", "write"} =>
          /\ task[t].got # 0 /\ task[t].got # file.grant /\ task[t].got \notin spent
          /\ task[t].expected \in lineage => task[t].got \in lineage
          /\ \A u \in Task : /\ task[u].at = "send" => task[u].expected # task[t].got
                             /\ u # t /\ task[u].at \in {"commit", "write"} =>
                                   task[u].got # task[t].got
    /\ file.grant \in spent =>
          \E t \in Task : /\ task[t].at \in {"commit", "write"}
                          /\ ~task[t].dropped /\ ~task[t].stray
                          /\ task[t].expected = file.grant

IInv ==
    /\ TypeOK /\ CoordinatorInv /\ PoolInv /\ LockInv /\ GrantInv
    /\ GrantsAreSpentOnce /\ EditsSurvive

-----------------------------------------------------------------------------
\* What a task or a member may hold only grows as grants are issued and the operator
\* writes.
LEMMA TypesGrow ==
    ASSUME TypeOK, issued' \in Nat, issued <= issued', written' \in Nat, written <= written'
    PROVE  /\ Contents \subseteq Contents'
           /\ MemberStates \subseteq MemberStates'
           /\ TaskStates \subseteq TaskStates'
<1>1. issued \in Nat /\ written \in Nat
  BY BoundAssumption DEF TypeOK
<1>2. 0 .. issued \subseteq 0 .. issued' /\ 1 .. issued \subseteq 1 .. issued'
      /\ 0 .. written \subseteq 0 .. written'
  BY <1>1
<1>3. Contents \subseteq Contents'
  BY <1>2, Zenon DEF Contents
<1>4. MemberStates \subseteq MemberStates'
  BY <1>2, Zenon DEF MemberStates
<1>5. TaskStates \subseteq TaskStates'
  BY <1>2, <1>3, Zenon DEF TaskStates
<1> QED BY <1>3, <1>4, <1>5, Zenon

\* A task that has ended is in its type.
LEMMA IdleType == ASSUME TypeOK PROVE Idle \in TaskStates
<1>1. issued \in Nat /\ written \in Nat
  BY BoundAssumption DEF TypeOK
<1> QED
  BY <1>1 DEF TaskStates, Idle, NoFile, Contents, Places

\* A step that moves one task, and leaves grants and writes as they are.
LEMMA TaskMoves ==
    ASSUME TypeOK, UNCHANGED <<issued, written>>, NEW t \in Task, NEW r \in TaskStates,
           task' = [task EXCEPT ![t] = r]
    PROVE  task' \in [Task -> TaskStates']
<1>1. TaskStates' = TaskStates
  BY Zenon DEF TaskStates, Contents, Places
<1> QED BY <1>1, Zenon DEF TypeOK

\* Whatever the order of refreshes, rescans and writes, the state keeps its types: a
\* grant in a file, a member or a task is one the provider has issued.
LEMMA TypeStep == TypeOK /\ [Next]_vars => TypeOK'
<1> SUFFICES ASSUME TypeOK, [Next]_vars PROVE TypeOK'
  BY Zenon
<1> USE TaskAssumption, BoundAssumption
<1>0. Idle \in TaskStates /\ issued \in Nat /\ 0 \in 0 .. issued
  BY IdleType DEF TypeOK
<1>1. ASSUME NEW t \in Task, NEW presented \in 0 .. MaxGrant, Start(t, presented)
      PROVE  TypeOK'
  <2> DEFINE r == [Idle EXCEPT !.at = "waiting", !.object = published, !.presented = presented]
  <2>1. presented \in 0 .. issued
    BY <1>1 DEF Start, TypeOK, MemberStates
  <2>2. r \in TaskStates
    BY <1>0, <2>1, Zenon DEF TaskStates, Places, TypeOK, Idle
  <2>3. task' \in [Task -> TaskStates']
    BY <1>1, <2>2, TaskMoves, Zenon DEF Start, Provider, History
  <2> QED BY <1>1, <2>3, Zenon DEF Start, TypeOK, Provider, Pool, History, Contents, MemberStates
<1>2. ASSUME NEW t \in Task, Acquire(t) PROVE TypeOK'
  <2> DEFINE r == [task[t] EXCEPT !.at = "capture", !.presented = 0]
  <2>1. r \in TaskStates
    <3>1. task[t] \in TaskStates /\ "capture" \in Places
      BY Zenon DEF TypeOK, Places
    <3> QED BY <1>0, <3>1, Zenon DEF TaskStates
  <2>2. task' = [task EXCEPT ![t] = Idle] \/ task' = [task EXCEPT ![t] = r]
    BY <1>2, Zenon DEF Acquire, TypeOK
  <2>3. task' \in [Task -> TaskStates']
    BY <1>0, <1>2, <2>1, <2>2, TaskMoves, Zenon DEF Acquire, Provider, History
  <2>4. member' \in [Object -> MemberStates']
    BY <1>2 DEF Acquire, TypeOK, MemberStates, Contents, Provider
  <2> QED BY <1>2, <2>3, <2>4, Zenon DEF Acquire, TypeOK, Provider, Pool, History, Contents
<1>3. ASSUME NEW t \in Task, Capture(t) PROVE TypeOK'
  <2> DEFINE r == [task[t] EXCEPT !.at = "send", !.expected = file.grant]
  <2>1. r \in TaskStates
    <3>1. task[t] \in TaskStates /\ "send" \in Places /\ file.grant \in 0 .. issued
      BY Zenon DEF TypeOK, Places, Contents
    <3> QED BY <3>1, Zenon DEF TaskStates
  <2>2. task' = [task EXCEPT ![t] = Idle] \/ task' = [task EXCEPT ![t] = r]
    BY <1>3, Zenon DEF Capture, TypeOK
  <2>3. task' \in [Task -> TaskStates']
    BY <1>0, <1>3, <2>1, <2>2, TaskMoves, Zenon DEF Capture, Provider, History
  <2> QED BY <1>3, <2>3, Zenon DEF Capture, TypeOK, Provider, Pool, History, Contents, MemberStates
<1>4. ASSUME NEW t \in Task, Redeem(t) PROVE TypeOK'
  <2> DEFINE r == [task[t] EXCEPT !.at = "commit", !.got = issued']
  <2>1. issued' \in 1 .. MaxGrant /\ issued' = issued + 1 /\ written' = written
    BY <1>4 DEF Redeem, Exchange, TypeOK
  <2>2. /\ Contents \subseteq Contents' /\ MemberStates \subseteq MemberStates'
        /\ TaskStates \subseteq TaskStates'
    BY <2>1, TypesGrow DEF TypeOK
  <2>3. r \in TaskStates'
    <3>1. task[t] \in TaskStates' /\ "commit" \in Places' /\ issued' \in 0 .. issued'
      BY <2>1, <2>2 DEF TypeOK, Places
    <3> QED BY <3>1, Zenon DEF TaskStates
  <2>4. task' = [task EXCEPT ![t] = r]
    BY <1>4, Zenon DEF Redeem, TypeOK
  <2>5. task' \in [Task -> TaskStates']
    BY <2>2, <2>3, <2>4, Zenon DEF TypeOK
  <2>6. task[t].expected \in 1 .. issued
    BY <1>4, Zenon DEF Redeem, Exchange, TypeOK
  <2> QED BY <1>4, <2>1, <2>2, <2>5, <2>6 DEF Redeem, Exchange, TypeOK, Pool
<1>5. ASSUME NEW t \in Task, Refuse(t) PROVE TypeOK'
  <2> DEFINE r == [task[t] EXCEPT !.at = "refused"]
  <2>1. r \in TaskStates
    BY DEF TaskStates, Places, TypeOK
  <2>2. task' \in [Task -> TaskStates']
    BY <1>5, <2>1, TaskMoves, Zenon DEF Refuse, Provider, History
  <2> QED BY <1>5, <2>2, Zenon DEF Refuse, TypeOK, Provider, Pool, History, Contents, MemberStates
<1>6. ASSUME NEW t \in Task, Fail(t) PROVE TypeOK'
  <2>1. /\ issued' \in 1 .. MaxGrant /\ issued <= issued' /\ written' = written
        /\ valid' \subseteq 1 .. issued' /\ lineage' \subseteq 1 .. issued'
    <3>1. CASE UNCHANGED <<issued, valid, lineage>>
      BY <1>6, <3>1 DEF Fail, TypeOK
    <3>2. CASE Exchange(task[t].expected)
      <4>1. issued' = issued + 1 /\ issued' \in 1 .. MaxGrant /\ written' = written
        BY <1>6, <3>2 DEF Fail, Exchange, TypeOK
      <4>2. 1 .. issued \subseteq 1 .. issued' /\ issued' \in 1 .. issued'
        BY <1>0, <4>1
      <4>3. valid' \subseteq 1 .. issued'
        BY <3>2, <4>2, Zenon DEF Exchange, TypeOK
      <4>4. lineage' \subseteq 1 .. issued'
        BY <3>2, <4>2, Zenon DEF Exchange, TypeOK
      <4> QED BY <1>0, <4>1, <4>3, <4>4
    <3> QED BY <1>6, <3>1, <3>2, Zenon DEF Fail
  <2>2. /\ Contents \subseteq Contents' /\ MemberStates \subseteq MemberStates'
        /\ TaskStates \subseteq TaskStates'
    BY <2>1, TypesGrow DEF TypeOK
  <2>3. task' \in [Task -> TaskStates']
    BY <1>0, <1>6, <2>2, Zenon DEF Fail, TypeOK
  <2> QED BY <1>6, <2>1, <2>2, <2>3 DEF Fail, TypeOK, Pool
<1>7. ASSUME NEW t \in Task, BenchMember(t) PROVE TypeOK'
  <2>1. task' \in [Task -> TaskStates']
    BY <1>0, <1>7, TaskMoves, Zenon DEF BenchMember, Provider, History
  <2>2. member' \in [Object -> MemberStates']
    <3>1. MemberStates' = MemberStates
      BY <1>7, Zenon DEF BenchMember, MemberStates, Provider
    <3>2. \A o \in Object : [member[o] EXCEPT !.health = "auth_failed"] \in MemberStates
      BY DEF TypeOK, MemberStates
    <3> QED BY <1>7, <3>1, <3>2, Zenon DEF BenchMember, TypeOK
  <2> QED BY <1>7, <2>1, <2>2, Zenon DEF BenchMember, TypeOK, Provider, Pool, History, Contents
<1>8. ASSUME NEW t \in Task, Finish(t) PROVE TypeOK'
  <2>1. task' \in [Task -> TaskStates']
    BY <1>0, <1>8, TaskMoves, Zenon DEF Finish, Provider, History
  <2>2. member' \in [Object -> MemberStates']
    <3>1. MemberStates' = MemberStates
      BY <1>8, Zenon DEF Finish, MemberStates, Provider
    <3>2. ASSUME file.grant # 0, NEW o \in Object
          PROVE  [member[o] EXCEPT !.token = file.grant, !.health = "available"] \in MemberStates
      <4>1. file.grant \in 1 .. issued
        BY <1>0, <3>2 DEF TypeOK, Contents
      <4>2. member[o] \in MemberStates
        BY Zenon DEF TypeOK
      <4> QED BY <4>1, <4>2, Zenon DEF MemberStates
    <3>3. file.grant # 0 =>
             member' = [member EXCEPT ![task[t].object] =
                           [member[task[t].object] EXCEPT !.token = file.grant, !.health = "available"]]
      BY <1>8, Zenon DEF Finish, TypeOK
    <3> QED BY <1>8, <3>1, <3>2, <3>3, Zenon DEF Finish, TypeOK
  <2> QED BY <1>8, <2>1, <2>2, Zenon DEF Finish, TypeOK, Provider, Pool, History, Contents
<1>9. ASSUME NEW t \in Task, Drop(t) PROVE TypeOK'
  <2> DEFINE r == [task[t] EXCEPT !.dropped = TRUE, !.object = NoObject]
  <2>1. r \in TaskStates
    BY ZenonT(60) DEF TaskStates, TypeOK
  <2>2. task' = [task EXCEPT ![t] = Idle] \/ task' = [task EXCEPT ![t] = r]
    BY <1>9, Zenon DEF Drop, TypeOK
  <2>3. task' \in [Task -> TaskStates']
    BY <1>0, <1>9, <2>1, <2>2, TaskMoves, Zenon DEF Drop, Provider
  <2> QED BY <1>9, <2>3, Zenon DEF Drop, TypeOK, Provider, Pool, Contents, MemberStates
<1>10. ASSUME NEW t \in Task, CommitRead(t) PROVE TypeOK'
  <2> DEFINE r == [task[t] EXCEPT !.at = "write", !.current = file]
  <2>1. r \in TaskStates
    <3>1. task[t] \in TaskStates /\ "write" \in Places /\ file \in Contents
      BY Zenon DEF TypeOK, Places
    <3> QED BY <3>1, Zenon DEF TaskStates
  <2>2. task' = [task EXCEPT ![t] = Idle] \/ task' = [task EXCEPT ![t] = r]
    BY <1>10, Zenon DEF CommitRead, TypeOK
  <2>3. task' \in [Task -> TaskStates']
    BY <1>0, <1>10, <2>1, <2>2, TaskMoves, Zenon DEF CommitRead, Provider, History
  <2> QED BY <1>10, <2>3, Zenon DEF CommitRead, TypeOK, Provider, Pool, History, Contents, MemberStates
<1>11. ASSUME NEW t \in Task, CommitWrite(t) PROVE TypeOK'
  <2>1. Committed(t) \in TaskStates
    BY <1>0 DEF Committed, TaskStates, Places, TypeOK
  <2>2. task' \in [Task -> TaskStates']
    BY <1>11, <2>1, TaskMoves, Zenon DEF CommitWrite, Provider, History
  <2>3. file' \in Contents'
    BY <1>11, Zenon DEF CommitWrite, TypeOK, TaskStates, Contents, Provider, History
  <2> QED BY <1>11, <2>2, <2>3, Zenon DEF CommitWrite, TypeOK, Provider, Pool, History, MemberStates
<1>12. ASSUME NEW t \in Task, CommitFails(t) PROVE TypeOK'
  <2>1. task' \in [Task -> TaskStates']
    BY <1>0, <1>12, TaskMoves, Zenon DEF CommitFails, Provider
  <2> QED BY <1>12, <2>1, Zenon DEF CommitFails, TypeOK, Provider, Pool, Contents, MemberStates
<1>13. ASSUME Edit \/ Delete \/ Login PROVE TypeOK'
  <2>1. /\ issued' \in 1 .. MaxGrant /\ issued <= issued'
        /\ written' \in 0 .. MaxRev /\ written <= written'
    BY <1>13 DEF Edit, Delete, Login, TypeOK, Provider
  <2>2. /\ Contents \subseteq Contents' /\ MemberStates \subseteq MemberStates'
        /\ TaskStates \subseteq TaskStates'
    BY <2>1, TypesGrow DEF TypeOK
  <2>3. file' \in Contents'
    BY <1>13, <2>1 DEF Edit, Delete, Login, TypeOK, Contents, Provider
  <2> QED BY <1>13, <2>1, <2>2, <2>3 DEF Edit, Delete, Login, TypeOK, Provider, Pool
<1>14. CASE Expire
  BY <1>14 DEF Expire, TypeOK, Pool, History, Contents, MemberStates, TaskStates
<1>15. ASSUME NEW by \in {"operator", "watcher"}, RescanLoad(by) PROVE TypeOK'
  <2>1. member' \in [Object -> MemberStates']
    BY <1>15 DEF RescanLoad, Unused, TypeOK, MemberStates, Contents, Provider
  <2>2. rescan' \in [at : {"idle", "loaded"}, by : {"nobody", "operator", "watcher"},
                     object : Object \union {NoObject}]
    BY <1>15 DEF RescanLoad, Unused
  <2> QED BY <1>15, <2>1, <2>2, Zenon DEF RescanLoad, TypeOK, Provider, History, Contents, TaskStates
<1>16. CASE RescanPublish
  <2>1. member' \in [Object -> MemberStates']
    <3>1. MemberStates' = MemberStates
      BY <1>16, Zenon DEF RescanPublish, MemberStates, Provider
    <3>2. ASSUME NEW o \in Object, NEW p \in Object PROVE Adopted(o, p) \in MemberStates
      <4>1. member[o] \in MemberStates /\ member[p] \in MemberStates
        BY Zenon DEF TypeOK
      <4> QED BY <4>1, Zenon DEF Adopted, MemberStates
    <3> QED BY <1>16, <3>1, <3>2, Zenon DEF RescanPublish, TypeOK
  <2>2. task' \in [Task -> TaskStates']
    <3>1. TaskStates' = TaskStates
      BY <1>16, Zenon DEF RescanPublish, TaskStates, Contents, Places, Provider, History
    <3>2. \A t \in Task : [task[t] EXCEPT !.stray = @ \/ task[t].at # "idle"] \in TaskStates
      BY ZenonT(60) DEF TypeOK, TaskStates
    <3> QED BY <1>16, <3>1, <3>2, Zenon DEF RescanPublish, TypeOK
  <2>3. rescan' \in [at : {"idle", "loaded"}, by : {"nobody", "operator", "watcher"},
                     object : Object \union {NoObject}]
    BY <1>16, Zenon DEF RescanPublish, Quiet
  <2> QED BY <1>16, <2>1, <2>2, <2>3, Zenon DEF RescanPublish, TypeOK, Provider, History, Contents
<1>17. CASE UNCHANGED vars
  BY <1>17, Zenon DEF vars, TypeOK, Contents, MemberStates, TaskStates
<1> QED
  BY <1>1, <1>2, <1>3, <1>4, <1>5, <1>6, <1>7, <1>8, <1>9, <1>10, <1>11, <1>12,
     <1>13, <1>14, <1>15, <1>16, <1>17, Zenon DEF Next

-----------------------------------------------------------------------------
\* A step of one task that leaves the file, the pool and the locks alone.
Local(t) ==
    /\ UNCHANGED <<file, coordinator, rescan, published, written>>
    /\ \A u \in Task : u # t => task'[u] = task[u]
    /\ \A o \in Object : member'[o].lock = member[o].lock

\* The task ends, or goes on with the member it has and takes neither a lock nor the
\* coordinator.
GoesOn(t) ==
    /\ task[t].at # "idle" /\ task'[t].at \notin {"idle", "write"}
    /\ task'[t].object = task[t].object
    /\ ~task[t].dropped /\ ~task'[t].dropped /\ task'[t].stray = task[t].stray
    /\ Holds(t)' => Holds(t)

\* An ended task holds no member and is neither dropped nor stray.
LEMMA IdleFields ==
    Idle.at = "idle" /\ Idle.object = NoObject /\ Idle.dropped = FALSE /\ Idle.stray = FALSE
BY Zenon DEF Idle

\* Such a step disturbs neither the coordinator, nor the pool, nor the locks.
LEMMA LocalKeepsOrder ==
    ASSUME IInv, NEW t \in Task, Local(t), task'[t] = Idle \/ GoesOn(t)
    PROVE  CoordinatorInv' /\ PoolInv' /\ LockInv'
<1> USE IdleFields DEF Local, GoesOn, IInv
<1>1. CoordinatorInv'
  BY Zenon DEF CoordinatorInv
<1>2. PoolInv'
  BY DEF PoolInv
<1>3. LockInv'
  <2>1. \A u \in Task : task'[u].dropped =>
           task'[u].at \in {"commit", "write"} /\ task'[u].object = NoObject
    BY DEF LockInv
  <2>2. \A u \in Task : task'[u].at # "idle" /\ ~task'[u].dropped => task'[u].object \in Object
    BY Zenon DEF LockInv
  <2>3. ASSUME NEW u \in Task, task'[u].at # "idle", ~task'[u].dropped, ~task'[u].stray
        PROVE  member'[task'[u].object].lock = member'[published'].lock
    <3>1. published \in Object
      BY <2>3, Zenon DEF PoolInv, TypeOK
    <3> QED BY <2>2, <2>3, <3>1 DEF LockInv
  <2>4. \A u \in Task : Holds(u)' => Holds(u) /\ task'[u].object = task[u].object
    BY Zenon DEF Holds
  <2>5. \A u \in Task : Holds(u)' => task'[u].object \in Object
    BY <2>2, Zenon DEF Holds
  <2>6. ASSUME NEW u \in Task, NEW v \in Task, u # v, Holds(u)', Holds(v)'
        PROVE  member'[task'[u].object].lock # member'[task'[v].object].lock
    BY <2>4, <2>5, <2>6 DEF LockInv
  <2> QED BY <2>1, <2>2, <2>3, <2>6 DEF LockInv
<1> QED BY <1>1, <1>2, <1>3, Zenon

\* Nor, when the task ends and was not about to replace the grant in the file, the
\* grants.
LEMMA EndKeepsGrants ==
    ASSUME IInv, NEW t \in Task, Local(t), task'[t] = Idle, UNCHANGED <<spent, lineage>>,
           task[t].at \in {"commit", "write"} => task[t].expected # file.grant
    PROVE  GrantInv' /\ GrantsAreSpentOnce' /\ EditsSurvive'
<1> USE IdleFields DEF Local, IInv
<1>1. GrantInv'
  BY DEF GrantInv
<1>2. GrantsAreSpentOnce'
  BY Zenon DEF GrantsAreSpentOnce
<1>3. EditsSurvive'
  BY Zenon DEF EditsSurvive
<1> QED BY <1>1, <1>2, <1>3, Zenon

-----------------------------------------------------------------------------
\* The steps of a refresh, one by one. A task starts on the published member, and so on
\* the lock that the others share.
LEMMA StartKeeps ==
    ASSUME IInv, NEW t \in Task, NEW presented, Start(t, presented)
    PROVE  CoordinatorInv' /\ PoolInv' /\ LockInv' /\ GrantInv'
           /\ GrantsAreSpentOnce' /\ EditsSurvive'
<1> USE DEF IInv, Local
<1>1. /\ task[t].at = "idle" /\ task'[t].at = "waiting" /\ task'[t].object = published
      /\ task'[t].dropped = FALSE /\ task'[t].stray = FALSE
      /\ \A u \in Task : u # t => task'[u] = task[u]
  BY Zenon DEF Start, TypeOK, Idle
<1>2. /\ UNCHANGED <<file, coordinator, rescan, published, member, written, spent, lineage>>
      /\ published \in Object
  BY Zenon DEF Start, Pool, Provider, History, TypeOK
<1>3. CoordinatorInv'
  BY <1>1, <1>2, Zenon DEF CoordinatorInv
<1>4. PoolInv'
  BY <1>1, <1>2, TaskAssumption, Zenon DEF PoolInv
<1>5. LockInv'
  BY <1>1, <1>2 DEF LockInv, Holds
<1>6. GrantInv'
  BY <1>1, <1>2 DEF GrantInv
<1>7. GrantsAreSpentOnce' /\ EditsSurvive'
  BY <1>1, <1>2, Zenon DEF GrantsAreSpentOnce, EditsSurvive
<1> QED BY <1>3, <1>4, <1>5, <1>6, <1>7, Zenon

\* Taking the refresh lock: LockFree makes the task its only holder.
LEMMA AcquireKeeps ==
    ASSUME IInv, NEW t \in Task, Acquire(t)
    PROVE  CoordinatorInv' /\ PoolInv' /\ LockInv' /\ GrantInv'
           /\ GrantsAreSpentOnce' /\ EditsSurvive'
<1> USE DEF IInv
<1>1. /\ UNCHANGED <<file, coordinator, rescan, published, written, spent, lineage>>
      /\ \A u \in Task : u # t => task'[u] = task[u]
      /\ \A o \in Object : member'[o].lock = member[o].lock
  BY DEF Acquire, Pool, Provider, History, TypeOK, MemberStates
<1>2. task[t].at = "waiting" /\ ~task[t].dropped /\ task[t].object \in Object
  BY Zenon DEF Acquire, LockInv
<1>3. CASE task'[t] = Idle
  BY <1>1, <1>2, <1>3, LocalKeepsOrder, EndKeepsGrants, Zenon DEF Local
<1>4. CASE task'[t] # Idle
  <2>1. /\ task'[t].at = "capture" /\ task'[t].object = task[t].object
        /\ task'[t].dropped = FALSE /\ task'[t].stray = task[t].stray
    BY <1>2, <1>4 DEF Acquire, TypeOK, TaskStates
  <2>2. CoordinatorInv'
    BY <1>1, <2>1, Zenon DEF CoordinatorInv
  <2>3. PoolInv'
    BY <1>1, <1>2, <2>1, Zenon DEF PoolInv
  <2>4. LockInv'
    <3>1. \A u \in Task : task'[u].object = task[u].object
      BY <1>1, <2>1, Zenon
    <3>2. \A u \in Task : u # t => (Holds(u)' <=> Holds(u))
      BY <1>1, Zenon DEF Holds
    <3>3. \A u \in Task : Holds(u) => task[u].object \in Object
      BY Zenon DEF Holds, LockInv
    <3>4. \A u \in Task : Holds(u) => member[task[u].object].lock # member[task[t].object].lock
      BY Zenon DEF Acquire, LockFree
    <3>5. \A u, v \in Task : u # v /\ Holds(u)' /\ Holds(v)' =>
             member'[task'[u].object].lock # member'[task'[v].object].lock
      BY <1>1, <1>2, <3>1, <3>2, <3>3, <3>4, SMTT(30) DEF LockInv
    <3>6. \A u \in Task : /\ task[u].at # "idle" /\ ~task[u].stray => published \in Object
                          /\ task[u].at # "idle" /\ ~task[u].dropped => task[u].object \in Object
      BY Zenon DEF PoolInv, TypeOK, LockInv
    <3>7. \A u \in Task : task'[u].at # "idle" /\ ~task'[u].dropped /\ ~task'[u].stray =>
             member'[task'[u].object].lock = member'[published'].lock
      BY <1>1, <1>2, <2>1, <3>6 DEF LockInv
    <3> QED BY <1>1, <1>2, <2>1, <3>5, <3>7 DEF LockInv
  <2>5. GrantInv'
    BY <1>1, <1>2, <2>1 DEF GrantInv
  <2>6. GrantsAreSpentOnce' /\ EditsSurvive'
    BY <1>1, <2>1, Zenon DEF GrantsAreSpentOnce, EditsSurvive
  <2> QED BY <2>2, <2>3, <2>4, <2>5, <2>6, Zenon
<1> QED BY <1>3, <1>4, Zenon

\* Two tasks that have not strayed do not hold the lock at the same time.
LEMMA OneHolder ==
    ASSUME IInv, NEW t \in Task, NEW u \in Task, t # u, Holds(t), ~task[t].stray, Holds(u)
    PROVE  task[u].stray
BY Zenon DEF IInv, LockInv, Holds

\* Capturing the grant of the file: were it spent, its replacer would hold the lock.
LEMMA CaptureKeeps ==
    ASSUME IInv, NEW t \in Task, Capture(t)
    PROVE  CoordinatorInv' /\ PoolInv' /\ LockInv' /\ GrantInv'
           /\ GrantsAreSpentOnce' /\ EditsSurvive'
<1> USE DEF IInv
<1>1. /\ UNCHANGED <<file, coordinator, rescan, published, member, written, spent, lineage>>
      /\ \A u \in Task : u # t => task'[u] = task[u]
  BY Zenon DEF Capture, Pool, Provider, History, TypeOK
<1>2. task[t].at = "capture" /\ ~task[t].dropped
  BY SMTT(30) DEF Capture, LockInv
<1>3. CASE task'[t] = Idle
  BY <1>1, <1>2, <1>3, LocalKeepsOrder, EndKeepsGrants, Zenon DEF Local
<1>4. CASE task'[t] # Idle
  <2>1. /\ task'[t].at = "send" /\ task'[t].object = task[t].object
        /\ task'[t].dropped = task[t].dropped /\ task'[t].stray = task[t].stray
        /\ task'[t].expected = file.grant /\ file.grant # 0
    BY <1>4, SMTT(30) DEF Capture, TypeOK, TaskStates, LockInv, MemberStates
  <2>2. CoordinatorInv' /\ PoolInv' /\ LockInv'
    BY <1>1, <1>2, <2>1, LocalKeepsOrder, Zenon DEF Local, GoesOn, Holds
  <2>3. GrantInv'
    BY <1>1, <1>2, <2>1 DEF GrantInv
  <2>4. ~task[t].stray => file.grant \notin spent
    <3> SUFFICES ASSUME ~task[t].stray, file.grant \in spent PROVE FALSE
      BY Zenon
    <3>1. PICK u \in Task : /\ task[u].at \in {"commit", "write"}
                            /\ ~task[u].dropped /\ ~task[u].stray
      BY Zenon DEF GrantInv
    <3>2. t # u /\ Holds(t) /\ Holds(u)
      BY <1>2, <3>1, Zenon DEF Holds
    <3> QED BY <3>1, <3>2, OneHolder, Zenon
  <2>5. GrantsAreSpentOnce' /\ EditsSurvive'
    BY <1>1, <2>1, <2>4, Zenon DEF GrantsAreSpentOnce, EditsSurvive
  <2> QED BY <2>2, <2>3, <2>5, Zenon
<1> QED BY <1>3, <1>4

\* Receiving the tokens: the new grant is one nobody knows, and no other task that has
\* not strayed is about to present the old one.
LEMMA RedeemKeeps ==
    ASSUME IInv, NEW t \in Task, Redeem(t)
    PROVE  CoordinatorInv' /\ PoolInv' /\ LockInv' /\ GrantInv'
           /\ GrantsAreSpentOnce' /\ EditsSurvive'
<1> USE DEF IInv
<1>1. /\ UNCHANGED <<file, coordinator, rescan, published, member, written>>
      /\ \A u \in Task : u # t => task'[u] = task[u]
  BY Zenon DEF Redeem, Pool, TypeOK
<1>2. task[t].at = "send" /\ ~task[t].dropped
  BY Zenon DEF Redeem, LockInv
<1>3. /\ task'[t].at = "commit" /\ task'[t].object = task[t].object
      /\ task'[t].dropped = task[t].dropped /\ task'[t].stray = task[t].stray
      /\ task'[t].expected = task[t].expected /\ task'[t].got = issued'
  BY DEF Redeem, TypeOK, TaskStates
<1>4. /\ spent' = IF task[t].stray THEN spent ELSE spent \union {task[t].expected}
      /\ lineage' = IF task[t].expected \in lineage THEN lineage \union {issued'} ELSE lineage
  BY Zenon DEF Redeem, Exchange
<1>5. /\ issued' # 0 /\ issued' \notin spent /\ file.grant # issued'
      /\ issued' \notin lineage
      /\ \A u \in Task : task[u].expected # issued' /\ task[u].got # issued'
  BY BoundAssumption DEF Redeem, Exchange, TypeOK, TaskStates, Contents
<1>6. CoordinatorInv' /\ PoolInv' /\ LockInv'
  BY <1>1, <1>2, <1>3, LocalKeepsOrder, SMTT(30) DEF Local, GoesOn, Holds
<1>7. GrantInv'
  <2>1. \A u \in Task : task'[u].at \in {"send", "commit", "write"} => task'[u].expected # 0
    BY <1>1, <1>2, <1>3 DEF GrantInv
  <2>2. ASSUME NEW u \in Task, task'[u].at \in {"commit", "write"}
        PROVE  /\ task'[u].got # 0 /\ task'[u].got # file.grant /\ task'[u].got \notin spent'
               /\ task'[u].expected \in lineage' => task'[u].got \in lineage'
               /\ \A v \in Task : /\ task'[v].at = "send" => task'[v].expected # task'[u].got
                                  /\ v # u /\ task'[v].at \in {"commit", "write"} =>
                                        task'[v].got # task'[u].got
    <3>1. CASE u = t
      BY <1>1, <1>2, <1>3, <1>4, <1>5, <3>1, SMTT(30)
    <3>2. CASE u # t
      BY <1>1, <1>2, <1>3, <1>4, <1>5, <2>2, <3>2 DEF GrantInv
    <3> QED BY <3>1, <3>2, Zenon
  <2>3. ASSUME file'.grant \in spent'
        PROVE  \E u \in Task : /\ task'[u].at \in {"commit", "write"}
                               /\ ~task'[u].dropped /\ ~task'[u].stray
                               /\ task'[u].expected = file'.grant
    <3>1. CASE file.grant \in spent
      BY <1>1, <1>2, <3>1, Zenon DEF GrantInv
    <3>2. CASE file.grant = task[t].expected /\ ~task[t].stray
      BY <1>1, <1>2, <1>3, <3>2, Zenon
    <3> QED BY <1>1, <1>4, <2>3, <3>1, <3>2, Zenon
  <2> QED BY <1>1, <2>1, <2>2, <2>3, SMTT(30) DEF GrantInv
<1>8. GrantsAreSpentOnce'
  <2> SUFFICES ASSUME NEW u \in Task, task'[u].at = "send", task'[u].expected \in spent'
               PROVE  task'[u].stray
    BY Zenon DEF GrantsAreSpentOnce
  <2>1. u # t /\ task'[u] = task[u] /\ Holds(t) /\ Holds(u)
    BY <1>1, <1>2, <1>3, Zenon DEF Holds, LockInv
  <2>2. CASE task[u].expected \in spent
    BY <2>1, <2>2, Zenon DEF GrantsAreSpentOnce
  <2>3. CASE ~task[t].stray
    BY <2>1, <2>3, OneHolder, Zenon
  <2> QED BY <1>4, <2>1, <2>2, <2>3, Zenon
<1>9. EditsSurvive'
  BY <1>1, <1>4, Zenon DEF EditsSurvive
<1> QED BY <1>6, <1>7, <1>8, <1>9, Zenon

\* A refusal changes nothing but the task's place.
LEMMA RefuseKeeps ==
    ASSUME IInv, NEW t \in Task, Refuse(t)
    PROVE  CoordinatorInv' /\ PoolInv' /\ LockInv' /\ GrantInv'
           /\ GrantsAreSpentOnce' /\ EditsSurvive'
<1> USE DEF IInv
<1>1. /\ UNCHANGED <<file, coordinator, rescan, published, member, written, spent, lineage>>
      /\ \A u \in Task : u # t => task'[u] = task[u]
  BY Zenon DEF Refuse, Pool, Provider, History, TypeOK
<1>2. task[t].at = "send" /\ ~task[t].dropped
  BY Zenon DEF Refuse, LockInv
<1>3. /\ task'[t].at = "refused" /\ task'[t].object = task[t].object
      /\ task'[t].dropped = task[t].dropped /\ task'[t].stray = task[t].stray
  BY Zenon DEF Refuse, TypeOK, TaskStates
<1>4. CoordinatorInv' /\ PoolInv' /\ LockInv'
  BY <1>1, <1>2, <1>3, LocalKeepsOrder, SMTT(30) DEF Local, GoesOn, Holds
<1>5. GrantInv'
  BY <1>1, <1>2, <1>3 DEF GrantInv
<1>6. GrantsAreSpentOnce' /\ EditsSurvive'
  BY <1>1, <1>3, Zenon DEF GrantsAreSpentOnce, EditsSurvive
<1> QED BY <1>4, <1>5, <1>6

\* A lost reply may leave a grant that nobody has.
LEMMA FailKeeps ==
    ASSUME IInv, NEW t \in Task, Fail(t)
    PROVE  CoordinatorInv' /\ PoolInv' /\ LockInv' /\ GrantInv'
           /\ GrantsAreSpentOnce' /\ EditsSurvive'
<1> USE IdleFields DEF IInv
<1>1. /\ UNCHANGED <<file, coordinator, rescan, published, member, written, spent>>
      /\ task'[t] = Idle /\ \A u \in Task : u # t => task'[u] = task[u]
      /\ task[t].at = "send"
  BY Zenon DEF Fail, Pool, TypeOK
<1>2. CoordinatorInv' /\ PoolInv' /\ LockInv'
  BY <1>1, LocalKeepsOrder, Zenon DEF Local
<1>3. CASE UNCHANGED lineage
  BY <1>1, <1>2, <1>3, EndKeepsGrants, Zenon DEF Local
<1>4. CASE Exchange(task[t].expected)
  <2>1. lineage' = lineage \/ lineage' = lineage \union {issued'}
    BY <1>4, Zenon DEF Exchange
  <2>2. \A u \in Task : task[u].expected # issued'
    BY <1>4, BoundAssumption, SMTT(30) DEF Exchange, TypeOK, TaskStates
  <2>3. GrantInv'
    BY <1>1, <2>1, <2>2, SMTT(30) DEF GrantInv
  <2>4. GrantsAreSpentOnce' /\ EditsSurvive'
    BY <1>1, <2>1, Zenon DEF GrantsAreSpentOnce, EditsSurvive
  <2> QED BY <1>2, <2>3, <2>4, Zenon
<1> QED BY <1>3, <1>4, Zenon DEF Fail

\* The bench and the reload after the commit change a member's token and health only.
LEMMA BenchAndFinishKeep ==
    ASSUME IInv, NEW t \in Task, BenchMember(t) \/ Finish(t)
    PROVE  CoordinatorInv' /\ PoolInv' /\ LockInv' /\ GrantInv'
           /\ GrantsAreSpentOnce' /\ EditsSurvive'
<1> USE DEF IInv
<1>1. /\ UNCHANGED <<file, coordinator, rescan, published, written, spent, lineage>>
      /\ task'[t] = Idle /\ \A u \in Task : u # t => task'[u] = task[u]
      /\ task[t].at \in {"refused", "reload"}
  BY Zenon DEF BenchMember, Finish, Pool, Provider, History, TypeOK
<1>2. \A o \in Object : member'[o].lock = member[o].lock
  BY DEF BenchMember, Finish, TypeOK, MemberStates
<1> QED BY <1>1, <1>2, LocalKeepsOrder, EndKeepsGrants, Zenon DEF Local

\* A dropped future gives up the lock, and its commit no longer counts as a keeper of
\* the tokens.
LEMMA DropKeeps ==
    ASSUME IInv, NEW t \in Task, Drop(t)
    PROVE  CoordinatorInv' /\ PoolInv' /\ LockInv' /\ GrantInv'
           /\ GrantsAreSpentOnce' /\ EditsSurvive'
<1> USE DEF IInv
<1>1. /\ UNCHANGED <<file, coordinator, rescan, published, member, written, lineage>>
      /\ \A u \in Task : u # t => task'[u] = task[u]
  BY Zenon DEF Drop, Pool, Provider, TypeOK
<1>2. CASE task[t].at \notin {"commit", "write"}
  <2>1. task'[t] = Idle /\ spent' = spent
    BY <1>2, Zenon DEF Drop, TypeOK
  <2> QED BY <1>1, <1>2, <2>1, LocalKeepsOrder, EndKeepsGrants, Zenon DEF Local
<1>3. CASE task[t].at \in {"commit", "write"}
  <2>1. /\ task'[t].at = task[t].at /\ task'[t].object = NoObject /\ task'[t].dropped = TRUE
        /\ task'[t].stray = task[t].stray /\ task'[t].expected = task[t].expected
        /\ task'[t].got = task[t].got /\ task'[t].current = task[t].current
        /\ spent' = spent \ {task[t].expected}
    BY <1>3 DEF Drop, TypeOK, TaskStates
  <2>2. CoordinatorInv'
    BY <1>1, <2>1 DEF CoordinatorInv
  <2>3. PoolInv'
    BY <1>1, <1>3, <2>1, SMTT(30) DEF PoolInv
  <2>4. LockInv'
    BY <1>1, <1>3, <2>1, SMTT(30) DEF LockInv, Holds
  <2>5. GrantInv'
    BY <1>1, <1>3, <2>1 DEF GrantInv
  <2>6. GrantsAreSpentOnce' /\ EditsSurvive'
    BY <1>1, <1>3, <2>1, Zenon DEF GrantsAreSpentOnce, EditsSurvive
  <2> QED BY <2>2, <2>3, <2>4, <2>5, <2>6
<1> QED BY <1>2, <1>3, Zenon

\* The comparison takes the coordinator, so that the file stays as it was compared.
LEMMA CommitReadKeeps ==
    ASSUME IInv, Coordinated, NEW t \in Task, CommitRead(t)
    PROVE  CoordinatorInv' /\ PoolInv' /\ LockInv' /\ GrantInv'
           /\ GrantsAreSpentOnce' /\ EditsSurvive'
<1> USE DEF IInv
<1>1. /\ UNCHANGED <<file, rescan, published, member, written, spent, lineage>>
      /\ \A u \in Task : u # t => task'[u] = task[u]
      /\ task[t].at = "commit" /\ coordinator = "free"
  BY Zenon DEF CommitRead, Coordinated, Pool, Provider, History, TypeOK
<1>2. CASE file.grant # task[t].expected
  <2>1. task'[t] = Idle /\ coordinator' = coordinator
    BY <1>2, Zenon DEF CommitRead, TypeOK
  <2> QED BY <1>1, <1>2, <2>1, LocalKeepsOrder, EndKeepsGrants, Zenon DEF Local
<1>3. CASE file.grant = task[t].expected
  <2>1. /\ task'[t].at = "write" /\ task'[t].object = task[t].object
        /\ task'[t].dropped = task[t].dropped
        /\ task'[t].stray = task[t].stray /\ task'[t].expected = task[t].expected
        /\ task'[t].got = task[t].got /\ task'[t].current = file
        /\ coordinator' = t
    BY <1>3 DEF CommitRead, Coordinated, TypeOK, TaskStates
  <2>2. CoordinatorInv'
    BY <1>1, <1>3, <2>1, NameAssumption, Zenon DEF CoordinatorInv
  <2>3. PoolInv'
    BY <1>1, <2>1, NameAssumption DEF PoolInv
  <2>4. LockInv'
    BY <1>1, <2>1 DEF LockInv, Holds
  <2>5. GrantInv'
    BY <1>1, <2>1 DEF GrantInv
  <2>6. GrantsAreSpentOnce' /\ EditsSurvive'
    BY <1>1, <2>1, Zenon DEF GrantsAreSpentOnce, EditsSurvive
  <2> QED BY <2>2, <2>3, <2>4, <2>5, <2>6, Zenon
<1> QED BY <1>2, <1>3, Zenon

\* The write replaces the grant that was compared by its successor, and nothing else.
LEMMA CommitWriteKeeps ==
    ASSUME IInv, Coordinated, NEW t \in Task, CommitWrite(t)
    PROVE  CoordinatorInv' /\ PoolInv' /\ LockInv' /\ GrantInv'
           /\ GrantsAreSpentOnce' /\ EditsSurvive'
<1> USE IdleFields DEF IInv
<1>1. /\ UNCHANGED <<rescan, published, member, written, spent, lineage>>
      /\ \A u \in Task : u # t => task'[u] = task[u]
      /\ task[t].at = "write" /\ coordinator = t /\ coordinator' = "free"
      /\ task[t].current = file /\ task[t].expected = file.grant
  BY Zenon DEF CommitWrite, Coordinated, CoordinatorInv, Pool, Provider, History, TypeOK
<1>2. file'.grant = task[t].got /\ file'.rev = file.rev /\ task[t].got # 0
  BY <1>1, Zenon DEF CommitWrite, TypeOK, Contents, GrantInv
<1>3. \/ task'[t] = Idle
      \/ /\ task'[t].at = "reload" /\ ~task[t].dropped /\ ~task'[t].dropped
         /\ task'[t].object = task[t].object /\ task'[t].stray = task[t].stray
  BY SMTT(30) DEF CommitWrite, Committed, TypeOK, TaskStates
<1>4. CoordinatorInv'
  BY <1>1, <1>3, NameAssumption, Zenon DEF CoordinatorInv
<1>5. PoolInv'
  BY <1>1, <1>2, <1>3, NameAssumption, SMTT(30) DEF PoolInv
<1>6. LockInv'
  BY <1>1, <1>3 DEF LockInv, Holds
<1>7. GrantInv'
  <2>1. task[t].got \notin spent
    BY <1>1, Zenon DEF GrantInv
  <2>2. \A u \in Task : task'[u].at \in {"send", "commit", "write"} => u # t
    BY <1>3, Zenon
  <2> QED BY <1>1, <1>2, <2>1, <2>2 DEF GrantInv
<1>8. GrantsAreSpentOnce'
  BY <1>1, <1>3, Zenon DEF GrantsAreSpentOnce
<1>9. EditsSurvive'
  BY <1>1, <1>2, Zenon DEF EditsSurvive, GrantInv
<1> QED BY <1>4, <1>5, <1>6, <1>7, <1>8, <1>9, Zenon

\* A failed write loses the successor and leaves the file.
LEMMA CommitFailsKeeps ==
    ASSUME IInv, Coordinated, NEW t \in Task, CommitFails(t)
    PROVE  CoordinatorInv' /\ PoolInv' /\ LockInv' /\ GrantInv'
           /\ GrantsAreSpentOnce' /\ EditsSurvive'
<1> USE IdleFields DEF IInv
<1>1. /\ UNCHANGED <<file, rescan, published, member, written, lineage>>
      /\ task'[t] = Idle /\ \A u \in Task : u # t => task'[u] = task[u]
      /\ task[t].at = "write" /\ coordinator = t /\ coordinator' = "free"
      /\ spent' = spent \ {task[t].expected}
  BY SMTT(30) DEF CommitFails, Coordinated, CoordinatorInv, Pool, Provider, TypeOK
<1>2. CoordinatorInv'
  BY <1>1, NameAssumption, Zenon DEF CoordinatorInv
<1>3. PoolInv'
  BY <1>1, NameAssumption, Zenon DEF PoolInv
<1>4. LockInv'
  BY <1>1 DEF LockInv, Holds
<1>5. GrantInv'
  BY <1>1 DEF GrantInv
<1>6. GrantsAreSpentOnce' /\ EditsSurvive'
  BY <1>1, Zenon DEF GrantsAreSpentOnce, EditsSurvive
<1> QED BY <1>2, <1>3, <1>4, <1>5, <1>6, Zenon

\* The operator writes only while no commit is between its comparison and its write.
LEMMA ConsoleKeeps ==
    ASSUME IInv, Coordinated, Edit \/ Delete \/ Login
    PROVE  CoordinatorInv' /\ PoolInv' /\ LockInv' /\ GrantInv'
           /\ GrantsAreSpentOnce' /\ EditsSurvive'
<1> USE DEF IInv
<1>1. /\ UNCHANGED <<rescan, published, member, task, spent>>
      /\ coordinator = "free" /\ coordinator' \in {"free", "operator"}
      /\ file'.rev = written'
      /\ \A t \in Task : task[t].at # "write"
  BY NameAssumption DEF Edit, Delete, Login, Coordinated, Pool, TypeOK, CoordinatorInv, Contents
<1>2. \/ file'.grant = file.grant /\ lineage' = lineage /\ coordinator' = "operator"
      \/ file'.grant = 0 /\ lineage' = {} /\ coordinator' = "operator"
      \/ file'.grant = issued + 1 /\ lineage' = {issued + 1}
  BY DEF Edit, Delete, Login, TypeOK, Contents
<1>3. /\ 0 \notin spent /\ issued + 1 \notin spent /\ issued + 1 # 0
      /\ \A t \in Task : task[t].expected # issued + 1 /\ task[t].got # issued + 1
  BY BoundAssumption DEF TypeOK, TaskStates
<1>4. CoordinatorInv'
  BY <1>1, Zenon DEF CoordinatorInv
<1>5. PoolInv'
  BY <1>1, <1>2, <1>3, Zenon DEF PoolInv, CoordinatorInv
<1>6. LockInv'
  BY <1>1, Zenon DEF LockInv, Holds
<1>7. GrantInv'
  BY <1>1, <1>2, <1>3 DEF GrantInv
<1>8. GrantsAreSpentOnce' /\ EditsSurvive'
  BY <1>1, <1>2, Zenon DEF GrantsAreSpentOnce, EditsSurvive
<1> QED BY <1>4, <1>5, <1>6, <1>7, <1>8, Zenon

\* A rescan loads the file into an object that nobody holds.
LEMMA RescanLoadKeeps ==
    ASSUME IInv, NEW by \in {"operator", "watcher"}, RescanLoad(by)
    PROVE  CoordinatorInv' /\ PoolInv' /\ LockInv' /\ GrantInv'
           /\ GrantsAreSpentOnce' /\ EditsSurvive'
<1> USE DEF IInv
<1>1. /\ UNCHANGED <<file, coordinator, published, task, written, lineage, spent>>
      /\ rescan.at = "idle" /\ rescan'.at = "loaded" /\ rescan'.by = by
      /\ by = "operator" => coordinator = "operator"
      /\ rescan'.object = NoObject <=> file.grant = 0
  BY TaskAssumption DEF RescanLoad, Unused, Provider, History
<1>2. \A o \in Live : member'[o] = member[o] /\ o # rescan'.object
  <2>1. Live \subseteq Object
    BY DEF Live, TypeOK, TaskStates
  <2>2. CASE file.grant = 0
    BY <1>1, <2>1, <2>2, TaskAssumption, Zenon DEF RescanLoad
  <2>3. CASE file.grant # 0
    <3>1. PICK o \in Unused :
             /\ member' = [member EXCEPT ![o] = [token |-> file.grant, health |-> "available",
                                                 lock |-> o]]
             /\ rescan' = [at |-> "loaded", by |-> by, object |-> o]
      BY <2>3, Zenon DEF RescanLoad
    <3>2. o \notin Live
      BY Zenon DEF Unused
    <3> QED BY <2>1, <3>1, <3>2, SMTT(30) DEF TypeOK
  <2> QED BY <2>2, <2>3, Zenon
<1>3. /\ \A t \in Task : task[t].object # NoObject => task[t].object \in Live
      /\ published # NoObject => published \in Live
  BY Zenon DEF Live
<1>4. CoordinatorInv'
  BY <1>1, Zenon DEF CoordinatorInv
<1>5. PoolInv'
  BY <1>1, <1>2, <1>3, SMTT(30) DEF PoolInv
<1>6. LockInv'
  <2>1. \A t \in Task : task[t].at # "idle" /\ ~task[t].dropped =>
           member'[task[t].object] = member[task[t].object]
    BY <1>2, <1>3, TaskAssumption, Zenon DEF LockInv
  <2>2. \A t \in Task : task[t].at # "idle" /\ ~task[t].stray =>
           member'[published] = member[published]
    BY <1>2, <1>3, Zenon DEF PoolInv
  <2>3. \A t \in Task : Holds(t)' <=> Holds(t)
    BY <1>1, Zenon DEF Holds
  <2>4. \A t \in Task : Holds(t) => task[t].at # "idle" /\ ~task[t].dropped
    BY Zenon DEF Holds
  <2> QED BY <1>1, <2>1, <2>2, <2>3, <2>4, SMTT(30) DEF LockInv
<1>7. GrantInv' /\ GrantsAreSpentOnce' /\ EditsSurvive'
  BY <1>1 DEF GrantInv, GrantsAreSpentOnce, EditsSurvive
<1> QED BY <1>4, <1>5, <1>6, <1>7, Zenon

\* Publishing hands the lock on; without a file it makes every running task a stray one.
LEMMA RescanPublishKeeps ==
    ASSUME IInv, RescanPublish
    PROVE  CoordinatorInv' /\ PoolInv' /\ LockInv' /\ GrantInv'
           /\ GrantsAreSpentOnce' /\ EditsSurvive'
<1> USE DEF IInv
<1>1. /\ UNCHANGED <<file, written, lineage, spent>>
      /\ rescan.at = "loaded" /\ rescan' = Quiet /\ published' = rescan.object
      /\ coordinator' = IF rescan.by = "operator" THEN "free" ELSE coordinator
  BY Zenon DEF RescanPublish, Provider, History
<1>2. \A t \in Task : /\ task'[t].at = task[t].at /\ task'[t].object = task[t].object
                      /\ task'[t].expected = task[t].expected /\ task'[t].got = task[t].got
                      /\ task'[t].current = task[t].current /\ task'[t].dropped = task[t].dropped
  BY DEF RescanPublish, TypeOK, TaskStates
<1>3. \A t \in Task : /\ task[t].stray => task'[t].stray
                      /\ rescan.object # NoObject => task'[t].stray = task[t].stray
                      /\ rescan.object = NoObject /\ task[t].at # "idle" => task'[t].stray
  BY Zenon DEF RescanPublish, TypeOK, TaskStates
<1>4. /\ \A o \in Object : o # rescan.object => member'[o] = member[o]
      /\ rescan.object # NoObject /\ published # NoObject =>
            member'[rescan.object].lock = member[published].lock
  BY DEF RescanPublish, Adopted, TypeOK, MemberStates
<1>5. Quiet.at = "idle" /\ Quiet.object = NoObject
  BY Zenon DEF Quiet
<1>6. CoordinatorInv'
  BY <1>1, <1>2, <1>5, NameAssumption, SMTT(30) DEF CoordinatorInv
<1>7. PoolInv'
  BY <1>1, <1>2, <1>3, <1>5, SMTT(30) DEF PoolInv, CoordinatorInv
<1>8. LockInv'
  <2>1. \A t \in Task : task[t].at # "idle" /\ ~task[t].dropped =>
           task[t].object \in Object /\ member'[task[t].object] = member[task[t].object]
    BY <1>1, <1>4, TaskAssumption DEF LockInv, PoolInv
  <2>2. \A t \in Task : task'[t].at # "idle" /\ ~task'[t].stray =>
           rescan.object # NoObject /\ published # NoObject /\ ~task[t].stray
    BY <1>1, <1>2, <1>3, Zenon DEF PoolInv
  <2>3. \A t \in Task : Holds(t)' <=> Holds(t)
    BY <1>2, Zenon DEF Holds
  <2>4. \A t \in Task : Holds(t) => task[t].at # "idle" /\ ~task[t].dropped
    BY SMTT(30) DEF Holds
  <2>5. \A t \in Task : task'[t].at # "idle" /\ ~task'[t].dropped /\ ~task'[t].stray =>
           member'[task'[t].object].lock = member'[published'].lock
    BY <1>1, <1>2, <1>4, <2>1, <2>2, SMTT(30) DEF LockInv
  <2>6. \A t, u \in Task : t # u /\ Holds(t)' /\ Holds(u)' =>
           member'[task'[t].object].lock # member'[task'[u].object].lock
    BY <1>2, <2>1, <2>3, <2>4, SMTT(60) DEF LockInv
  <2> QED BY <1>2, <2>1, <2>5, <2>6, SMTT(60) DEF LockInv
<1>9. GrantInv'
  <2>1. ASSUME file.grant \in spent
        PROVE  \E t \in Task : /\ task'[t].at \in {"commit", "write"}
                               /\ ~task'[t].dropped /\ ~task'[t].stray
                               /\ task'[t].expected = file.grant
    <3>1. PICK t \in Task : /\ task[t].at \in {"commit", "write"}
                            /\ ~task[t].dropped /\ ~task[t].stray
                            /\ task[t].expected = file.grant
      BY <2>1, Zenon DEF GrantInv
    <3>2. file.grant # 0
      BY <2>1 DEF TypeOK
    <3>3. rescan.object # NoObject
      BY <1>1, <3>1, <3>2, Zenon DEF PoolInv
    <3> QED BY <1>2, <1>3, <3>1, <3>3, Zenon
  <2> QED BY <1>1, <1>2, <2>1 DEF GrantInv
<1>10. GrantsAreSpentOnce' /\ EditsSurvive'
  BY <1>1, <1>2, <1>3, Zenon DEF GrantsAreSpentOnce, EditsSurvive
<1> QED BY <1>6, <1>7, <1>8, <1>9, <1>10, Zenon

-----------------------------------------------------------------------------
\* The file in which the account was found is the operator's, its grant unspent.
LEMMA InitIInv == Init => IInv
<1> SUFFICES ASSUME Init PROVE IInv
  BY SMTT(30)
<1> USE TaskAssumption, NameAssumption, BoundAssumption
<1>1. TypeOK
  BY SMTT(30) DEF Init, TypeOK, Contents, MemberStates, TaskStates, Places, Idle, NoFile, Quiet
<1>2. \A t \in Task : task[t].at = "idle" /\ task[t].dropped = FALSE
  BY Zenon DEF Init, Idle
<1>3. file.grant = 1 /\ file.rev = 0 /\ rescan.at = "idle" /\ rescan.object = NoObject
  BY SMTT(30) DEF Init, Quiet
<1>4. CoordinatorInv /\ PoolInv /\ LockInv
  BY <1>2, <1>3, SMTT(30) DEF Init, CoordinatorInv, PoolInv, LockInv, Holds
<1>5. GrantInv /\ GrantsAreSpentOnce /\ EditsSurvive
  BY <1>2, <1>3, Zenon DEF Init, GrantInv, GrantsAreSpentOnce, EditsSurvive
<1> QED BY <1>1, <1>4, <1>5, Zenon DEF IInv

\* Every step keeps the invariant, when every writer takes the coordinator.
LEMMA StepIInv == Coordinated /\ IInv /\ [Next]_vars => IInv'
<1> SUFFICES ASSUME Coordinated, IInv, [Next]_vars PROVE IInv'
  BY Zenon
<1>1. TypeOK'
  BY TypeStep, Zenon DEF IInv
<1>2. ASSUME NEW t \in Task, NEW presented \in 0 .. MaxGrant, Start(t, presented)
      PROVE  IInv'
  BY <1>1, <1>2, StartKeeps, Zenon DEF IInv
<1>3. ASSUME NEW t \in Task, Acquire(t) \/ Capture(t) \/ Redeem(t) PROVE IInv'
  BY <1>1, <1>3, AcquireKeeps, CaptureKeeps, RedeemKeeps, Zenon DEF IInv
<1>4. ASSUME NEW t \in Task, Refuse(t) \/ Fail(t) \/ BenchMember(t) \/ Finish(t) \/ Drop(t)
      PROVE  IInv'
  BY <1>1, <1>4, RefuseKeeps, FailKeeps, BenchAndFinishKeep, DropKeeps, Zenon DEF IInv
<1>5. ASSUME NEW t \in Task, CommitRead(t) \/ CommitWrite(t) \/ CommitFails(t) PROVE IInv'
  BY <1>1, <1>5, CommitReadKeeps, CommitWriteKeeps, CommitFailsKeeps, Zenon DEF IInv
<1>6. CASE Edit \/ Delete \/ Login
  BY <1>1, <1>6, ConsoleKeeps, Zenon DEF IInv
<1>7. ASSUME NEW by \in {"operator", "watcher"}, RescanLoad(by) PROVE IInv'
  BY <1>1, <1>7, RescanLoadKeeps, Zenon DEF IInv
<1>8. CASE RescanPublish
  BY <1>1, <1>8, RescanPublishKeeps, Zenon DEF IInv
<1>9. CASE Expire \/ UNCHANGED vars
  <2>1. UNCHANGED <<file, coordinator, rescan, published, member, task, written, lineage, spent>>
    BY <1>9, Zenon DEF Expire, Pool, History, vars
  <2> QED BY <1>1, <2>1, ZenonT(60) DEF IInv, CoordinatorInv, PoolInv, LockInv, Holds, GrantInv,
                            GrantsAreSpentOnce, EditsSurvive
<1> QED
  BY <1>2, <1>3, <1>4, <1>5, <1>6, <1>7, <1>8, <1>9, Zenon DEF Next

\* Hence it holds in every reachable state.
LEMMA AlwaysIInv == Coordinated /\ Spec => []IInv
<1> SUFFICES ASSUME Coordinated PROVE Spec => []IInv
  BY Zenon
<1>1. IInv /\ [Next]_vars => IInv'
  BY StepIInv, Zenon
<1> QED BY <1>1, InitIInv, PTL DEF Spec

\* With a storage manager, and when no refresh bypasses the settings store: no grant is
\* presented again once its tokens have arrived, because rescans hand the refresh lock
\* on and an account leaves the pool only with its file (refresh_with_store, rescan_pool).
THEOREM SpentOnce == Coordinated /\ Spec => []GrantsAreSpentOnce
<1>1. IInv => GrantsAreSpentOnce
  BY Zenon DEF IInv
<1> QED BY <1>1, AlwaysIInv, PTL

\* Under the same conditions a spent grant is in the file only while the task that has
\* its successor is about to write it (commit_refresh).
THEOREM SpentIsReplaced == Coordinated /\ Spec => []SpentGrantIsReplaced
<1>1. IInv => SpentGrantIsReplaced
  BY Zenon DEF IInv, GrantInv, SpentGrantIsReplaced
<1> QED BY <1>1, AlwaysIInv, PTL

\* And no refresh that began before an edit, a login or a deletion undoes it by
\* committing after it (commit_refresh).
THEOREM OperatorWritesStand == Coordinated /\ Spec => []EditsSurvive
<1>1. IInv => EditsSurvive
  BY Zenon DEF IInv
<1> QED BY <1>1, AlwaysIInv, PTL

\* In every behaviour, coordinated or not, the state keeps its types.
THEOREM TypeCorrect == Spec => []TypeOK
<1>1. Init => TypeOK
  BY InitIInv, Zenon DEF IInv
<1> QED BY <1>1, TypeStep, PTL DEF Spec
=============================================================================
