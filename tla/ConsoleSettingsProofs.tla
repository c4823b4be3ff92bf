----------------------- MODULE ConsoleSettingsProofs ------------------------
(***************************************************************************)
(* The console's settings documents for any writers, documents and number  *)
(* of edits: what was confirmed stays in the file and is what the gateway  *)
(* serves, and a profile is written only over the one it was read from.    *)
(***************************************************************************)
EXTENDS ConsoleSettings, TLAPS

SettingsSpec == SettingsInit /\ [][SettingsNext]_settingsVars

Document ==
    [strategy : Strategies, edits : SUBSET Nat, scoped : SUBSET Nat, revision : Nat, profile : Nat,
     secret : BOOLEAN, home : BOOLEAN]
CallType ==
    [op : {"none", "edit", "account", "scoped", "yaml", "profile"},
     step : {"idle", "asked", "persist", "publish", "sync", "apply"},
     id : Nat, seen : Document, at : Nat, next : Document, strategy : Strategies]

SettingsTypes ==
    /\ live \in Document /\ disk \in Document /\ backend \in Document
    /\ writer \in [Writer -> CallType]
    /\ \A w \in Writer : writer[w].step # "idle" => writer[w].op # "none"
    /\ mutateLock \in Writer \cup {0}
    /\ writes \in Nat /\ epoch \in Nat /\ halfway \in BOOLEAN

\* Inside the store is who holds the lock, with an edit of the live document.
InStore(w) == writer[w].step \in {"persist", "publish"}
MutexInv ==
    \A w \in Writer :
        /\ InStore(w) <=> mutateLock = w
        /\ InStore(w) => writer[w].next \in EditsOf(w, live)

\* The id of a call that is not through is in nobody else's hands: no document
\* has a key under it, and none was deleted.
Pending(w) == writer[w].step \in {"asked", "persist", "publish"}
FreshIds ==
    /\ live.scoped \subseteq 1..writes /\ disk.scoped \subseteq 1..writes /\ backend.scoped \subseteq 1..writes
    /\ revoked \subseteq 1..writes
    /\ \A w \in Writer : Pending(w) =>
          writer[w].id \in 1..writes /\ writer[w].id \notin revoked /\ writer[w].id \notin live.scoped
    /\ \A w, v \in Writer : Pending(w) /\ Pending(v) /\ w # v => writer[w].id # writer[v].id

\* How far a write has come: until the file is written it has what is served,
\* from then on what is about to be; the backend is written first.
SavedInv ==
    /\ ServedIsSaved
    /\ \A w \in Writer :
          /\ writer[w].step = "persist" /\ ~live.home /\ ~halfway => disk = live
          /\ writer[w].step = "publish" => disk = writer[w].next
          /\ InStore(w) /\ mode = "store" => backend = writer[w].next

\* What a client read is not newer than what is served, and the same profile
\* if it has the same revision, as long as no whole document was put.
SeenInv ==
    \A w \in Writer :
        /\ writer[w].at <= epoch
        /\ writer[w].step # "idle" /\ writer[w].at = epoch =>
              /\ writer[w].seen.revision <= live.revision
              /\ writer[w].seen.revision = live.revision => writer[w].seen.profile = live.profile

SettingsInv == SettingsTypes /\ MutexInv /\ FreshIds /\ SavedInv /\ SeenInv /\ ConfirmedEditsStay

\* What an edit leaves of the document it is applied to.
LEMMA EditsOfKeeps ==
    ASSUME NEW w \in Writer, writer[w] \in CallType, writer[w].op # "none",
           NEW doc \in Document, NEW next \in EditsOf(w, doc)
    PROVE  /\ next \in Document
           /\ next.scoped \subseteq doc.scoped \cup {writer[w].id}
           /\ writer[w].op = "yaml" \/ next.edits = {writer[w].id} \/ doc.edits \subseteq next.edits
           /\ writer[w].op \notin {"yaml", "profile"} => next.revision = doc.revision /\ next.profile = doc.profile
           /\ writer[w].op = "profile" => next.revision = doc.revision + 1 /\ writer[w].seen.revision = doc.revision
<1> DEFINE id == writer[w].id
<1>0. id \in Nat
  BY DEF CallType
<1>1. Adds(doc, id) \in Document /\ Adds(doc, id).edits = doc.edits \cup {id}
      /\ Adds(doc, id).scoped = doc.scoped /\ Adds(doc, id).revision = doc.revision
      /\ Adds(doc, id).profile = doc.profile
  BY <1>0 DEF Adds, Document
<1>2. CASE writer[w].op = "edit"
  <2>1. next \in ApplyEdit(doc, id) \cup MutateKeyList(doc, id)
    BY <1>2 DEF EditsOf, EditV8
  <2>2. CASE next \in ApplyEdit(doc, id)
    <3>1. PICK s \in Strategies : next = [Adds(doc, id) EXCEPT !.strategy = s]
      BY <2>2 DEF ApplyEdit
    <3> QED
      BY <1>1, <1>2, <3>1 DEF Document
  <2>3. CASE next \in MutateKeyList(doc, id)
    <3>1. CASE next = Adds(doc, id)
      BY <1>1, <1>2, <3>1
    <3>2. CASE next = [doc EXCEPT !.edits = {id}]
      BY <1>0, <1>2, <3>2 DEF Document
    <3> QED
      BY <2>3, <3>1, <3>2 DEF MutateKeyList
  <2> QED
    BY <2>1, <2>2, <2>3
<1>3. CASE writer[w].op = "account"
  <2>1. next = Adds(doc, id) \/ next = doc
    BY <1>3 DEF EditsOf, PutBinding, PutCodexCredits, PutWarmupPolicy, ClearSuspected
  <2> QED
    BY <1>1, <1>3, <2>1
<1>4. CASE writer[w].op = "scoped"
  <2>1. \/ next = Adds(doc, id) \/ next = doc \/ next = [doc EXCEPT !.scoped = @ \cup {id}]
        \/ \E k \in doc.scoped : next = [doc EXCEPT !.scoped = @ \ {k}]
    BY <1>4 DEF EditsOf, CreateScopedKey, PatchScopedKey, DeleteScopedKey
  <2>2. CASE next = Adds(doc, id) \/ next = doc
    BY <1>1, <1>4, <2>2
  <2>3. CASE next = [doc EXCEPT !.scoped = @ \cup {id}]
    BY <1>0, <1>4, <2>3 DEF Document
  <2>4. CASE \E k \in doc.scoped : next = [doc EXCEPT !.scoped = @ \ {k}]
    <3>1. PICK k \in doc.scoped : next = [doc EXCEPT !.scoped = @ \ {k}]
      BY <2>4, Zenon
    <3> QED
      BY <1>4, <3>1 DEF Document
  <2> QED
    BY <2>1, <2>2, <2>3, <2>4
<1>5. CASE writer[w].op = "yaml"
  <2>1. PICK s \in Strategies, r \in {0, doc.revision}, m \in {doc.secret, FALSE} :
          next = [strategy |-> s, edits |-> {id}, scoped |-> {}, revision |-> r,
                  profile |-> IF r = 0 THEN 0 ELSE doc.profile, secret |-> m, home |-> FALSE]
    BY <1>5 DEF EditsOf, PutConfigYaml
  <2> DEFINE f == IF r = 0 THEN 0 ELSE doc.profile
  <2>2. r \in Nat /\ f \in Nat
    BY <2>1 DEF Document
  <2>3. m \in BOOLEAN
    BY <2>1, Zenon DEF Document
  <2> HIDE DEF f
  <2>4. next \in Document
    BY <1>0, <2>1, <2>2, <2>3 DEF Document, f
  <2> QED
    BY <1>5, <2>1, <2>4
<1>6. CASE writer[w].op = "profile"
  <2>1. writer[w].seen.revision = doc.revision
        /\ next = [doc EXCEPT !.revision = @ + 1, !.profile = id]
    BY <1>6 DEF EditsOf, PutProfile
  <2> DEFINE risen == [doc EXCEPT !.revision = @ + 1]
  <2>2. /\ risen \in Document /\ risen.revision = doc.revision + 1 /\ risen.scoped = doc.scoped /\ risen.edits = doc.edits
        /\ next = [risen EXCEPT !.profile = id]
    BY <2>1 DEF Document
  <2> HIDE DEF risen
  <2> QED
    BY <1>0, <1>6, <2>1, <2>2, Zenon DEF Document
<1> QED
  BY <1>2, <1>3, <1>4, <1>5, <1>6 DEF CallType

\* An edit is the same as long as its call and the document are.
LEMMA SameEdits ==
    ASSUME NEW w \in Writer, live' = live, writer'[w].op = writer[w].op, writer'[w].id = writer[w].id,
           writer'[w].seen = writer[w].seen
    PROVE  EditsOf(w, live)' = EditsOf(w, live)
  BY DEF EditsOf, PutProfile

\* A call that comes, goes or reads the document outside the store disturbs
\* nobody (Ask, RefuseEdit, SyncRead, SyncRoutingStrategy).
LEMMA OutsideKeeps ==
    ASSUME SettingsInv, NEW w \in Writer, ~InStore(w), NEW c \in CallType,
           writer' = [writer EXCEPT ![w] = c], c.step \notin {"persist", "publish"},
           c.step # "idle" => c.op # "none",
           c.step = "asked" => c.id = writes + 1 /\ writes' = writes + 1,
           writes' \in {writes, writes + 1}, c.at <= epoch,
           c.step # "idle" /\ c.at = epoch =>
              /\ c.seen.revision <= live.revision
              /\ c.seen.revision = live.revision => c.seen.profile = live.profile,
           UNCHANGED <<live, disk, backend, mode, mutateLock, epoch, acked, revoked, halfway>>
    PROVE  SettingsInv'
<1>1. /\ writer'[w] = c /\ \A v \in Writer \ {w} : writer'[v] = writer[v]
      /\ writer' \in [Writer -> CallType]
  BY DEF SettingsInv, SettingsTypes
<1>2. SettingsTypes'
  BY <1>1 DEF SettingsInv, SettingsTypes
<1>3. MutexInv'
  <2> SUFFICES ASSUME NEW v \in Writer
               PROVE  /\ (InStore(v) <=> mutateLock = v)'
                      /\ InStore(v)' => writer'[v].next \in EditsOf(v, live)'
    BY DEF MutexInv
  <2>1. CASE v = w
    BY <1>1, <2>1 DEF SettingsInv, MutexInv, InStore
  <2>2. CASE v # w
    <3>1. writer'[v] = writer[v]
      BY <1>1, <2>2
    <3>2. EditsOf(v, live)' = EditsOf(v, live)
      BY <3>1, SameEdits
    <3> QED
      BY <3>1, <3>2 DEF SettingsInv, MutexInv, InStore
  <2> QED
    BY <2>1, <2>2
<1>4. FreshIds'
  <2>1. writes \in Nat /\ writes' \in Nat /\ 1..writes \subseteq 1..writes' /\ writes + 1 \notin 1..writes
    BY DEF SettingsInv, SettingsTypes
  <2>2. ASSUME NEW v \in Writer, Pending(v)'
        PROVE  /\ writer'[v].id \in 1..writes' /\ writer'[v].id \notin revoked /\ writer'[v].id \notin live.scoped
               /\ v # w => Pending(v) /\ writer'[v].id = writer[v].id
               /\ v = w => writer'[v].id = writes + 1
    <3>1. CASE v = w
      BY <1>1, <2>1, <2>2, <3>1 DEF SettingsInv, FreshIds, Pending
    <3>2. CASE v # w
      BY <1>1, <2>1, <2>2, <3>2 DEF SettingsInv, FreshIds, Pending
    <3> QED
      BY <3>1, <3>2
  <2>3. ASSUME NEW v \in Writer, NEW u \in Writer, Pending(v)', Pending(u)', v # u
        PROVE  writer'[v].id # writer'[u].id
    BY <2>1, <2>2, <2>3 DEF SettingsInv, FreshIds
  <2> QED
    BY <2>1, <2>2, <2>3 DEF SettingsInv, FreshIds
<1>5. SavedInv'
  BY <1>1 DEF SettingsInv, SavedInv, ServedIsSaved, InStore
<1>6. SeenInv'
  BY <1>1 DEF SettingsInv, SeenInv
<1> QED
  BY <1>2, <1>3, <1>4, <1>5, <1>6 DEF SettingsInv, ConfirmedEditsStay

\* try_mutate takes the lock with an edit of the live document, and the backend
\* has it before the file.
LEMMA TryMutateKeeps ==
    ASSUME SettingsInv, NEW w \in Writer, TryMutate(w)
    PROVE  SettingsInv'
<1>1. PICK next \in EditsOf(w, live) :
        /\ writer' = [writer EXCEPT ![w].step = "persist", ![w].next = next]
        /\ backend' = IF mode = "store" THEN next ELSE backend
  BY Zenon DEF TryMutate, Configured
<1>2. /\ writer[w].step = "asked" /\ mutateLock = 0 /\ mutateLock' = w
      /\ UNCHANGED <<live, disk, mode, writes, epoch, acked, revoked, halfway>>
  BY DEF TryMutate
<1>3. /\ writer[w] \in CallType /\ writer[w].op # "none" /\ live \in Document /\ writes \in Nat
  BY <1>2 DEF SettingsInv, SettingsTypes
<1>4. next \in Document /\ next.scoped \subseteq live.scoped \cup {writer[w].id}
  BY <1>1, <1>3, EditsOfKeeps
<1>5. /\ writer'[w] = [writer[w] EXCEPT !.step = "persist", !.next = next]
      /\ \A v \in Writer \ {w} : writer'[v] = writer[v]
      /\ DOMAIN writer' = Writer /\ writer' = [v \in Writer |-> writer'[v]]
  BY <1>1, Zenon DEF SettingsInv, SettingsTypes
<1>6. /\ writer'[w] \in CallType /\ writer'[w].step = "persist" /\ writer'[w].next = next
      /\ writer'[w].op = writer[w].op /\ writer'[w].id = writer[w].id /\ writer'[w].seen = writer[w].seen
      /\ writer'[w].at = writer[w].at
  BY <1>3, <1>4, <1>5, Zenon DEF CallType
<1>7. \A v \in Writer : ~InStore(v)
  BY <1>2, WriterAssumption DEF SettingsInv, MutexInv
<1>8. SettingsTypes'
  <2>1. writer' \in [Writer -> CallType]
    BY <1>5, <1>6 DEF SettingsInv, SettingsTypes
  <2> QED
    BY <1>1, <1>2, <1>3, <1>4, <1>5, <1>6, <2>1 DEF SettingsInv, SettingsTypes
<1>9. MutexInv'
  <2> SUFFICES ASSUME NEW v \in Writer
               PROVE  /\ (InStore(v) <=> mutateLock = v)'
                      /\ InStore(v)' => writer'[v].next \in EditsOf(v, live)'
    BY DEF MutexInv
  <2>1. CASE v = w
    <3>1. EditsOf(w, live)' = EditsOf(w, live)
      BY <1>2, <1>6, SameEdits
    <3> QED
      BY <1>1, <1>2, <1>6, <2>1, <3>1 DEF InStore
  <2>2. CASE v # w
    BY <1>2, <1>5, <1>7, <2>2 DEF InStore
  <2> QED
    BY <2>1, <2>2
<1>10. FreshIds'
  <2>1. \A v \in Writer : (Pending(v)' <=> Pending(v)) /\ writer'[v].id = writer[v].id
    BY <1>2, <1>5, <1>6, Zenon DEF Pending
  <2>2. backend'.scoped \subseteq 1..writes
    BY <1>1, <1>2, <1>4 DEF SettingsInv, FreshIds, Pending
  <2> QED
    BY <1>2, <2>1, <2>2 DEF SettingsInv, FreshIds
<1>11. SavedInv'
  <2>1. ServedIsSaved'
    BY <1>2, WriterAssumption DEF ServedIsSaved
  <2>2. \A v \in Writer \ {w} : writer'[v].step \notin {"persist", "publish"}
    BY <1>5, <1>7 DEF InStore
  <2>3. ~live.home /\ ~halfway => disk = live
    BY <1>2 DEF SettingsInv, SavedInv, ServedIsSaved
  <2> QED
    BY <1>1, <1>2, <1>6, <2>1, <2>2, <2>3, Zenon DEF SavedInv, InStore
<1>12. SeenInv'
  <2>1. \A v \in Writer : /\ writer'[v].at = writer[v].at /\ writer'[v].seen = writer[v].seen
                          /\ writer'[v].step # "idle" => writer[v].step # "idle"
    BY <1>2, <1>5, <1>6, ZenonT(60)
  <2> SUFFICES ASSUME NEW v \in Writer
               PROVE  /\ writer'[v].at <= epoch'
                      /\ writer'[v].step # "idle" /\ writer'[v].at = epoch' =>
                            /\ writer'[v].seen.revision <= live'.revision
                            /\ writer'[v].seen.revision = live'.revision => writer'[v].seen.profile = live'.profile
    BY DEF SeenInv
  <2>2. /\ writer'[v].at = writer[v].at /\ writer'[v].seen = writer[v].seen
        /\ writer'[v].step # "idle" => writer[v].step # "idle"
    BY <2>1
  <2>3. live' = live /\ epoch' = epoch
    BY <1>2
  <2>4. /\ writer[v].at <= epoch
        /\ writer[v].step # "idle" /\ writer[v].at = epoch =>
              /\ writer[v].seen.revision <= live.revision
              /\ writer[v].seen.revision = live.revision => writer[v].seen.profile = live.profile
    BY DEF SettingsInv, SeenInv
  <2> QED
    BY <2>2, <2>3, <2>4
<1> QED
  BY <1>2, <1>8, <1>9, <1>10, <1>11, <1>12 DEF SettingsInv, ConfirmedEditsStay

\* The file is written and the call goes on to publish (Persist).
LEMMA PersistKeeps ==
    ASSUME SettingsInv, NEW w \in Writer, Persist(w)
    PROVE  SettingsInv'
<1>1. /\ writer[w].step = "persist" /\ disk' = writer[w].next
      /\ writer' = [writer EXCEPT ![w].step = "publish"]
      /\ UNCHANGED <<live, backend, mode, mutateLock, writes, epoch, acked, revoked, halfway>>
  BY DEF Persist
<1>2. /\ writer[w] \in CallType /\ writer[w].op # "none" /\ live \in Document
      /\ mutateLock = w /\ writer[w].next \in EditsOf(w, live)
  BY <1>1 DEF SettingsInv, SettingsTypes, MutexInv, InStore
<1>3. writer[w].next \in Document /\ writer[w].next.scoped \subseteq live.scoped \cup {writer[w].id}
  BY <1>2, EditsOfKeeps
<1>4. /\ writer'[w] = [writer[w] EXCEPT !.step = "publish"]
      /\ \A v \in Writer \ {w} : writer'[v] = writer[v]
      /\ writer' = [v \in Writer |-> writer'[v]]
  BY <1>1, Zenon DEF SettingsInv, SettingsTypes
<1>5. /\ writer'[w] \in CallType /\ writer'[w].step = "publish" /\ writer'[w].next = writer[w].next
      /\ writer'[w].op = writer[w].op /\ writer'[w].id = writer[w].id /\ writer'[w].seen = writer[w].seen
      /\ writer'[w].at = writer[w].at
  BY <1>2, <1>4 DEF CallType
<1>6. SettingsTypes'
  <2>1. writer' \in [Writer -> CallType]
    BY <1>4, <1>5 DEF SettingsInv, SettingsTypes
  <2> QED
    BY <1>1, <1>2, <1>3, <1>4, <1>5, <2>1 DEF SettingsInv, SettingsTypes
<1>7. MutexInv'
  <2> SUFFICES ASSUME NEW v \in Writer
               PROVE  /\ (InStore(v) <=> mutateLock = v)'
                      /\ InStore(v)' => writer'[v].next \in EditsOf(v, live)'
    BY DEF MutexInv
  <2>1. EditsOf(v, live)' = EditsOf(v, live)
    BY <1>1, <1>4, <1>5, SameEdits
  <2>2. (InStore(v)' <=> InStore(v)) /\ writer'[v].next = writer[v].next
    BY <1>1, <1>4, <1>5 DEF InStore
  <2> QED
    BY <1>1, <2>1, <2>2 DEF SettingsInv, MutexInv
<1>8. FreshIds'
  <2>1. \A v \in Writer : (Pending(v)' <=> Pending(v)) /\ writer'[v].id = writer[v].id
    BY <1>1, <1>4, <1>5 DEF Pending
  <2>2. disk'.scoped \subseteq 1..writes
    BY <1>1, <1>3 DEF SettingsInv, FreshIds, Pending
  <2> QED
    BY <1>1, <2>1, <2>2 DEF SettingsInv, FreshIds
<1>9. SavedInv'
  <2>1. ServedIsSaved'
    BY <1>1, <1>2, WriterAssumption DEF ServedIsSaved
  <2>2. \A v \in Writer \ {w} : writer'[v].step \notin {"persist", "publish"}
    BY <1>2, <1>4 DEF SettingsInv, MutexInv, InStore
  <2>3. mode = "store" => backend = writer[w].next
    BY <1>1 DEF SettingsInv, SavedInv, InStore
  <2> QED
    BY <1>1, <1>5, <2>1, <2>2, <2>3 DEF SavedInv, InStore
<1>10. SeenInv'
  BY <1>1, <1>4, <1>5 DEF SettingsInv, SeenInv
<1> QED
  BY <1>1, <1>6, <1>7, <1>8, <1>9, <1>10 DEF SettingsInv, ConfirmedEditsStay

\* Leaving the store without an edit gives the lock back (PersistFails).
LEMMA PersistFailsKeeps ==
    ASSUME SettingsInv, NEW w \in Writer, PersistFails(w)
    PROVE  SettingsInv'
<1>1. /\ writer[w].step = "persist" /\ writer' = [writer EXCEPT ![w] = NoWriter]
      /\ mutateLock' = 0 /\ halfway' = (halfway \/ mode = "store")
      /\ UNCHANGED <<live, disk, backend, mode, writes, epoch, acked, revoked>>
  BY DEF PersistFails
<1>2. mutateLock = w
  BY <1>1 DEF SettingsInv, MutexInv, InStore
<1>3. /\ NoWriter \in CallType /\ NoWriter.step = "idle" /\ NoWriter.at = 0
  BY DEF NoWriter, CallType, Fresh, Document, Strategies
<1>4. /\ writer'[w] = NoWriter /\ \A v \in Writer \ {w} : writer'[v] = writer[v]
      /\ writer' \in [Writer -> CallType]
  BY <1>1, <1>3 DEF SettingsInv, SettingsTypes
<1>5. \A v \in Writer : writer'[v].step \notin {"persist", "publish"}
  BY <1>2, <1>3, <1>4 DEF SettingsInv, MutexInv, InStore
<1>6. SettingsTypes'
  BY <1>1, <1>3, <1>4 DEF SettingsInv, SettingsTypes
<1>7. MutexInv'
  BY <1>1, <1>5, WriterAssumption DEF MutexInv, InStore
<1>8. FreshIds'
  <2>1. \A v \in Writer : Pending(v)' => Pending(v) /\ writer'[v].id = writer[v].id
    BY <1>3, <1>4 DEF Pending
  <2> QED
    BY <1>1, <2>1 DEF SettingsInv, FreshIds
<1>9. SavedInv'
  BY <1>1, <1>5, Zenon DEF SettingsInv, SavedInv, ServedIsSaved, InStore
<1>10. SeenInv'
  BY <1>1, <1>3, <1>4 DEF SettingsInv, SettingsTypes, SeenInv
<1> QED
  BY <1>1, <1>6, <1>7, <1>8, <1>9, <1>10 DEF SettingsInv, ConfirmedEditsStay

\* The document is served: it has what was confirmed, and no key that was
\* deleted, because it was made from the one it replaces (Publish).
LEMMA PublishKeeps ==
    ASSUME SettingsInv, NEW w \in Writer, Publish(w)
    PROVE  SettingsInv'
<1> DEFINE next == writer[w].next
           id == writer[w].id
           op == writer[w].op
<1>1. /\ writer[w].step = "publish" /\ live' = next /\ mutateLock' = 0 /\ halfway' = FALSE
      /\ epoch' = IF op = "yaml" THEN epoch + 1 ELSE epoch
      /\ revoked' = IF op = "yaml" THEN {} ELSE revoked \cup (live.scoped \ next.scoped)
      /\ UNCHANGED <<disk, backend, mode, writes>>
  BY DEF Publish
<1>2. /\ writer[w] \in CallType /\ op # "none" /\ live \in Document /\ epoch \in Nat /\ writes \in Nat
      /\ mutateLock = w /\ next \in EditsOf(w, live)
  BY <1>1 DEF SettingsInv, SettingsTypes, MutexInv, InStore
<1>3. /\ next \in Document /\ next.scoped \subseteq live.scoped \cup {id}
      /\ op = "yaml" \/ next.edits = {id} \/ live.edits \subseteq next.edits
      /\ op \notin {"yaml", "profile"} => next.revision = live.revision /\ next.profile = live.profile
      /\ op = "profile" => next.revision = live.revision + 1 /\ writer[w].seen.revision = live.revision
  BY <1>2, EditsOfKeeps
<1>4. PICK c \in CallType :
        /\ writer' = [writer EXCEPT ![w] = c] /\ c.step \in {"idle", "sync"} /\ c.at <= epoch
        /\ c.step # "idle" => c.op # "none" /\ c.op = op /\ c.op # "profile" /\ c.seen = writer[w].seen /\ c.at = writer[w].at
  <2>1. CASE op \in {"edit", "yaml"}
    <3> DEFINE c == [writer[w] EXCEPT !.step = "sync"]
    <3>1. c \in CallType /\ c.step = "sync" /\ c.op = op /\ c.seen = writer[w].seen /\ c.at = writer[w].at
      BY <1>2 DEF CallType
    <3>2. writer' = [writer EXCEPT ![w] = c]
      BY <2>1 DEF Publish
    <3>3. c.at <= epoch
      BY <3>1 DEF SettingsInv, SeenInv
    <3> HIDE DEF c
    <3> QED
      BY <1>2, <2>1, <3>1, <3>2, <3>3, Zenon
  <2>2. CASE op \notin {"edit", "yaml"}
    <3>1. writer' = [writer EXCEPT ![w] = NoWriter]
      BY <2>2 DEF Publish
    <3>2. NoWriter \in CallType /\ NoWriter.step = "idle" /\ NoWriter.at = 0
      BY DEF NoWriter, CallType, Fresh, Document, Strategies
    <3>3. 0 <= epoch
      BY <1>2
    <3> QED
      BY <3>1, <3>2, <3>3, Zenon
  <2> QED
    BY <2>1, <2>2
<1>5. /\ writer'[w] = c /\ \A v \in Writer \ {w} : writer'[v] = writer[v]
      /\ writer' \in [Writer -> CallType]
  BY <1>4 DEF SettingsInv, SettingsTypes
<1>6. \A v \in Writer : writer'[v].step \notin {"persist", "publish"}
  BY <1>2, <1>4, <1>5 DEF SettingsInv, MutexInv, InStore
<1>7. SettingsTypes'
  <2>1. epoch' \in Nat
    BY <1>1, <1>2
  <2>2. halfway' \in BOOLEAN
    BY <1>1, Zenon
  <2>3. \A v \in Writer : writer'[v].step # "idle" => writer'[v].op # "none"
    BY <1>4, <1>5, Zenon DEF SettingsInv, SettingsTypes
  <2>4. live' \in Document /\ UNCHANGED <<disk, backend, writes>> /\ mutateLock' = 0
    BY <1>1, <1>3
  <2> QED
    BY <1>5, <2>1, <2>2, <2>3, <2>4, Zenon DEF SettingsInv, SettingsTypes
<1>8. MutexInv'
  BY <1>1, <1>6, WriterAssumption DEF MutexInv, InStore
<1>9. FreshIds'
  <2>1. \A v \in Writer : Pending(v)' => Pending(v) /\ v # w /\ writer'[v].id = writer[v].id
    BY <1>4, <1>5 DEF Pending
  <2>2. Pending(w) /\ id \in 1..writes
    BY <1>1 DEF SettingsInv, FreshIds, Pending
  <2>3. live'.scoped \subseteq 1..writes /\ revoked' \subseteq 1..writes
    BY <1>1, <1>3, <2>2, Zenon DEF SettingsInv, FreshIds
  <2>4. \A v \in Writer \ {w} : Pending(v) => writer[v].id # id /\ writer[v].id \notin live.scoped /\ writer[v].id \notin revoked
    BY <2>2 DEF SettingsInv, FreshIds
  <2>5. \A v \in Writer \ {w} : Pending(v) => writer[v].id \notin live'.scoped /\ writer[v].id \notin revoked'
    BY <1>1, <1>3, <2>4
  <2> QED
    BY <1>1, <2>1, <2>3, <2>5 DEF SettingsInv, FreshIds
<1>10. SavedInv'
  <2>1. disk = next /\ (mode = "store" => backend = next)
    BY <1>1 DEF SettingsInv, SavedInv, InStore
  <2> QED
    BY <1>1, <1>6, <2>1 DEF SavedInv, ServedIsSaved, InStore
<1>11. SeenInv'
  <2> SUFFICES ASSUME NEW v \in Writer
               PROVE  /\ writer'[v].at <= epoch'
                      /\ writer'[v].step # "idle" /\ writer'[v].at = epoch' =>
                            /\ writer'[v].seen.revision <= live'.revision
                            /\ writer'[v].seen.revision = live'.revision => writer'[v].seen.profile = live'.profile
    BY DEF SeenInv
  <2>0. writer[v] \in CallType /\ writer'[v] \in CallType
    BY <1>5 DEF SettingsInv, SettingsTypes
  <2>1. /\ writer'[v].at \in Nat /\ writer'[v].at <= epoch
        /\ writer'[v].seen.revision \in Nat /\ live.revision \in Nat
    BY <1>2, <1>4, <1>5, <2>0 DEF SettingsInv, SeenInv, CallType, Document
  <2>2. CASE op = "yaml"
    BY <1>1, <1>2, <2>1, <2>2
  <2>3. CASE op # "yaml"
    <3>1. writer'[v].step # "idle" => writer[v].step # "idle" /\ writer'[v].at = writer[v].at /\ writer'[v].seen = writer[v].seen
      BY <1>1, <1>4, <1>5
    <3>2. writer'[v].step # "idle" /\ writer'[v].at = epoch =>
             /\ writer'[v].seen.revision <= live.revision
             /\ writer'[v].seen.revision = live.revision => writer'[v].seen.profile = live.profile
      BY <3>1, SMTT(30) DEF SettingsInv, SeenInv
    <3>3. CASE op = "profile"
      BY <1>1, <1>3, <2>1, <2>3, <3>2, <3>3
    <3>4. CASE op # "profile"
      BY <1>1, <1>3, <2>1, <2>3, <3>2, <3>4
    <3> QED
      BY <3>3, <3>4
  <2> QED
    BY <2>2, <2>3
<1>12. ConfirmedEditsStay'
  <2>1. acked' \subseteq live'.edits
    <3>1. CASE op = "yaml" \/ next.edits = {id}
      <4>1. acked' = next.edits
        BY <3>1 DEF Publish
      <4> QED
        BY <1>1, <4>1
    <3>2. CASE ~(op = "yaml" \/ next.edits = {id})
      <4>1. acked' = acked \cup ({id} \cap next.edits)
        BY <3>2 DEF Publish
      <4>2. acked \subseteq next.edits
        BY <1>3, <3>2 DEF SettingsInv, ConfirmedEditsStay
      <4> QED
        BY <1>1, <4>1, <4>2
    <3> QED
      BY <3>1, <3>2
  <2>2. revoked' \cap live'.scoped = {}
    <3>1. id \notin revoked /\ revoked \cap live.scoped = {}
      BY <1>1 DEF SettingsInv, FreshIds, Pending, ConfirmedEditsStay
    <3> QED
      BY <1>1, <1>3, <3>1
  <2> QED
    BY <2>1, <2>2 DEF ConfirmedEditsStay
<1> QED
  BY <1>7, <1>8, <1>9, <1>10, <1>11, <1>12 DEF SettingsInv

\* Home's document is served only while nobody is in the store (apply_home).
LEMMA ApplyHomeKeeps ==
    ASSUME SettingsInv, ApplyHome
    PROVE  SettingsInv'
<1>1. PICK s \in Strategies :
        live' = [Fresh EXCEPT !.strategy = s, !.edits = {writes + 1}, !.home = TRUE]
  BY Zenon DEF ApplyHome
<1>2. /\ mutateLock = 0 /\ writes' = writes + 1 /\ epoch' = epoch + 1 /\ acked' = {writes + 1} /\ revoked' = {}
      /\ UNCHANGED <<disk, backend, mode, writer, mutateLock, halfway>>
  BY DEF ApplyHome
<1>3. writes \in Nat /\ epoch \in Nat /\ writer \in [Writer -> CallType]
  BY DEF SettingsInv, SettingsTypes
<1>4. live' \in Document /\ live'.edits = {writes + 1} /\ live'.scoped = {} /\ live'.home = TRUE
  <2>1. live' = [strategy |-> s, edits |-> {writes + 1}, scoped |-> {}, revision |-> 0, profile |-> 0,
                 secret |-> TRUE, home |-> TRUE]
    BY <1>1, Zenon DEF Fresh
  <2>2. {writes + 1} \in SUBSET Nat /\ s \in Strategies
    BY <1>1, <1>3
  <2>3. live'.edits = {writes + 1} /\ live'.scoped = {} /\ live'.home = TRUE
    BY <2>1
  <2>4. live' \in Document
    BY <2>1, <2>2 DEF Document
  <2> QED
    BY <2>3, <2>4
<1>5. \A w \in Writer : writer[w].step \notin {"persist", "publish"}
  BY <1>2, WriterAssumption DEF SettingsInv, MutexInv, InStore
<1>6. SettingsTypes'
  BY <1>2, <1>3, <1>4 DEF SettingsInv, SettingsTypes
<1>7. MutexInv'
  BY <1>2, <1>5, WriterAssumption DEF MutexInv, InStore
<1>8. FreshIds'
  <2>1. 1..writes \subseteq 1..writes'
    BY <1>2, <1>3
  <2>2. \A w \in Writer : (Pending(w)' <=> Pending(w)) /\ writer'[w].id = writer[w].id
    BY <1>2 DEF Pending
  <2> QED
    BY <1>2, <1>4, <2>1, <2>2 DEF SettingsInv, FreshIds
<1>9. SavedInv'
  BY <1>2, <1>4, <1>5 DEF SavedInv, ServedIsSaved, InStore
<1>10. SeenInv'
  <2>1. \A w \in Writer : writer[w].at \in Nat /\ writer[w].at <= epoch
    BY <1>3 DEF SettingsInv, SeenInv, CallType
  <2> QED
    BY <1>2, <1>3, <2>1 DEF SeenInv
<1>11. ConfirmedEditsStay'
  BY <1>2, <1>4 DEF ConfirmedEditsStay
<1> QED
  BY <1>6, <1>7, <1>8, <1>9, <1>10, <1>11 DEF SettingsInv

\* A new process serves what was saved and has no call.
LEMMA RestartSettingsKeeps ==
    ASSUME SettingsInv, RestartSettings
    PROVE  SettingsInv'
<1> DEFINE saved == IF mode = "store" THEN backend ELSE disk
<1>1. /\ live' = saved /\ disk' = saved /\ writer' = [w \in Writer |-> NoWriter]
      /\ mutateLock' = 0 /\ halfway' = FALSE /\ epoch' = epoch + 1 /\ acked' = saved.edits /\ revoked' = {}
      /\ UNCHANGED <<backend, mode, writes>>
  BY DEF RestartSettings
<1>2. saved \in Document /\ saved.scoped \subseteq 1..writes /\ epoch \in Nat /\ (mode = "store" => backend = saved)
  BY DEF SettingsInv, SettingsTypes, FreshIds
<1> HIDE DEF saved
<1>3. NoWriter \in CallType /\ NoWriter.step = "idle" /\ NoWriter.at = 0
  BY DEF NoWriter, CallType, Fresh, Document, Strategies
<1>4. /\ writer' \in [Writer -> CallType]
      /\ \A w \in Writer : writer'[w].step = "idle" /\ writer'[w].at = 0
  BY <1>1, <1>3
<1>5. SettingsTypes'
  <2>1. epoch' \in Nat
    BY <1>1, <1>2
  <2>2. halfway' \in BOOLEAN
    BY <1>1, Zenon
  <2> QED
    BY <1>1, <1>2, <1>4, <2>1, <2>2, Zenon DEF SettingsInv, SettingsTypes
<1>6. MutexInv'
  BY <1>1, <1>4, WriterAssumption DEF MutexInv, InStore
<1>7. FreshIds'
  BY <1>1, <1>2, <1>4 DEF SettingsInv, FreshIds, Pending
<1>8. SavedInv'
  BY <1>1, <1>2, <1>4 DEF SavedInv, ServedIsSaved, InStore
<1>9. SeenInv'
  BY <1>1, <1>2, <1>4 DEF SeenInv
<1>10. ConfirmedEditsStay'
  BY <1>1 DEF ConfirmedEditsStay
<1> QED
  BY <1>5, <1>6, <1>7, <1>8, <1>9, <1>10 DEF SettingsInv

\* A store as it starts satisfies the invariant.
LEMMA SettingsInitInv == SettingsInit => SettingsInv
<1> SUFFICES ASSUME SettingsInit PROVE SettingsInv
  OBVIOUS
<1>1. Fresh \in Document /\ Fresh.scoped = {}
  BY DEF Fresh, Document, Strategies
<1>2. NoWriter \in CallType /\ NoWriter.step = "idle" /\ NoWriter.at = 0
  BY <1>1 DEF NoWriter, CallType, Strategies
<1>3. /\ writer \in [Writer -> CallType]
      /\ \A w \in Writer : writer[w].step = "idle" /\ writer[w].at = 0
  BY <1>2 DEF SettingsInit
<1>4. SettingsTypes
  BY <1>1, <1>3, Zenon DEF SettingsInit, SettingsTypes
<1>5. MutexInv
  BY <1>3, WriterAssumption DEF SettingsInit, MutexInv, InStore
<1>6. FreshIds
  BY <1>1, <1>3 DEF SettingsInit, FreshIds, Pending
<1>7. SavedInv
  BY <1>3 DEF SettingsInit, SavedInv, ServedIsSaved, InStore
<1>8. SeenInv
  BY <1>3 DEF SettingsInit, SeenInv
<1> QED
  BY <1>4, <1>5, <1>6, <1>7, <1>8 DEF SettingsInv, SettingsInit, ConfirmedEditsStay

\* Every step of the store, its callers and Home keeps the invariant.
LEMMA SettingsNextInv == SettingsInv /\ [SettingsNext]_settingsVars => SettingsInv'
<1> SUFFICES ASSUME SettingsInv, [SettingsNext]_settingsVars PROVE SettingsInv'
  OBVIOUS
<1>0. /\ NoWriter \in CallType /\ NoWriter.step = "idle" /\ NoWriter.at = 0
      /\ writes \in Nat /\ epoch \in Nat /\ live \in Document /\ writer \in [Writer -> CallType]
  BY DEF NoWriter, CallType, Fresh, Document, Strategies, SettingsInv, SettingsTypes
<1>1. ASSUME NEW w \in Writer, NEW op \in {"edit", "account", "scoped", "yaml", "profile"}, Ask(w, op)
      PROVE  SettingsInv'
  <2> DEFINE c == [NoWriter EXCEPT !.op = op, !.step = "asked", !.id = writes + 1, !.seen = live, !.at = epoch]
  <2>1. c \in CallType /\ c.step = "asked" /\ c.op = op /\ c.id = writes + 1 /\ c.seen = live /\ c.at = epoch
    <3> DEFINE c1 == [NoWriter EXCEPT !.op = op, !.step = "asked"]
               c2 == [c1 EXCEPT !.id = writes + 1]
               c3 == [c2 EXCEPT !.seen = live]
    <3>1. c1 \in CallType /\ c1.op = op /\ c1.step = "asked"
      BY <1>0, Zenon DEF CallType
    <3>2. c = [c3 EXCEPT !.at = epoch]
      OBVIOUS
    <3> HIDE DEF c, c1
    <3>3. c2 \in CallType /\ c2.op = op /\ c2.step = "asked" /\ c2.id = writes + 1
      BY <1>0, <3>1 DEF CallType
    <3> HIDE DEF c2
    <3>4. c3 \in CallType /\ c3.op = op /\ c3.step = "asked" /\ c3.id = writes + 1 /\ c3.seen = live
      BY <1>0, <3>3 DEF CallType
    <3> HIDE DEF c3
    <3> QED
      BY <1>0, <3>2, <3>4 DEF CallType
  <2>2. /\ writer[w].step = "idle" /\ writes' = writes + 1 /\ writer' = [writer EXCEPT ![w] = c]
        /\ UNCHANGED <<live, disk, backend, mode, mutateLock, epoch, acked, revoked, halfway>>
    BY <1>1 DEF Ask
  <2> HIDE DEF c
  <2>3. ~InStore(w) /\ live.revision <= live.revision /\ epoch <= epoch
    BY <1>0, <2>2 DEF InStore, Document
  <2> QED
    BY <2>1, <2>2, <2>3, OutsideKeeps, Zenon
<1>2. ASSUME NEW w \in Writer, RefuseEdit(w) \/ SyncRoutingStrategy(w) PROVE SettingsInv'
  <2>1. /\ ~InStore(w) /\ writer' = [writer EXCEPT ![w] = NoWriter] /\ writes' = writes
        /\ UNCHANGED <<live, disk, backend, mode, mutateLock, epoch, acked, revoked, halfway>>
    BY <1>2 DEF RefuseEdit, SyncRoutingStrategy, InStore
  <2>2. 0 <= epoch
    BY <1>0
  <2> QED
    BY <1>0, <2>1, <2>2, OutsideKeeps, Zenon
<1>3. ASSUME NEW w \in Writer, SyncRead(w) PROVE SettingsInv'
  <2> DEFINE c == [writer[w] EXCEPT !.step = "apply", !.strategy = live.strategy]
  <2>1. /\ writer[w] \in CallType /\ writer[w].step = "sync" /\ writer' = [writer EXCEPT ![w] = c] /\ writes' = writes
        /\ UNCHANGED <<live, disk, backend, mode, mutateLock, epoch, acked, revoked, halfway>>
    BY <1>0, <1>3, Zenon DEF SyncRead
  <2>2. c \in CallType /\ c.step = "apply" /\ c.op = writer[w].op /\ c.seen = writer[w].seen /\ c.at = writer[w].at
    BY <1>0, <2>1, ZenonT(60) DEF CallType, Document
  <2> HIDE DEF c
  <2>3. /\ ~InStore(w) /\ c.op # "none" /\ c.at <= epoch
        /\ c.at = epoch => /\ c.seen.revision <= live.revision
                           /\ c.seen.revision = live.revision => c.seen.profile = live.profile
    BY <2>1, <2>2, SMTT(30) DEF SettingsInv, SettingsTypes, SeenInv, InStore
  <2> QED
    BY <2>1, <2>2, <2>3, OutsideKeeps, Zenon
<1>4. CASE UNCHANGED settingsVars
  BY <1>4, SameEdits DEF settingsVars, SettingsInv, SettingsTypes, MutexInv, InStore, FreshIds, Pending, SavedInv, ServedIsSaved,
       SeenInv, ConfirmedEditsStay
<1> QED
  BY <1>1, <1>2, <1>3, <1>4, TryMutateKeeps, PersistKeeps, PersistFailsKeeps, PublishKeeps, ApplyHomeKeeps, RestartSettingsKeeps
  DEF SettingsNext

\* An edit the console confirmed stays until a whole document replaces it, a
\* deleted key does not come back, and once no write is under way the file and
\* the backend hold what is served, for any number of callers (try_mutate).
THEOREM SettingsStay == SettingsSpec => []SettingsAreKept
<1>1. SettingsInv => SettingsAreKept
  BY DEF SettingsInv, SavedInv, SettingsAreKept
<1> QED
  BY <1>1, SettingsInitInv, SettingsNextInv, PTL DEF SettingsSpec

\* Two clients never overwrite each other's profile unseen, unless a whole
\* document came between: what is compared in the store is still so when it is
\* published (put_profile).
THEOREM ProfilesAreCompared == SettingsSpec => ProfileIsCompareAndSet
<1>1. SettingsInv /\ [SettingsNext]_settingsVars => [ProfileIsCompareAndSetStep]_settingsVars
  <2> SUFFICES ASSUME SettingsInv, SettingsNext, NEW w \in Writer,
                      writer[w].op = "profile", writer[w].step = "publish", live' # live,
                      writer[w].at = epoch, epoch' = epoch
               PROVE  live.profile = writer[w].seen.profile
    BY DEF ProfileIsCompareAndSetStep
  <2>1. writer[w].next \in EditsOf(w, live) /\ writer[w] \in CallType /\ live \in Document
    BY DEF SettingsInv, SettingsTypes, MutexInv, InStore
  <2>2. writer[w].seen.revision = live.revision
    BY <2>1, EditsOfKeeps
  <2> QED
    BY <2>2 DEF SettingsInv, SeenInv
<1> QED
  BY <1>1, SettingsInitInv, SettingsNextInv, PTL DEF SettingsSpec, ProfileIsCompareAndSet
=============================================================================
