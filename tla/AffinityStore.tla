--------------------------- MODULE AffinityStore ----------------------------
(***************************************************************************)
(* The durable store of Claude session pins,                               *)
(* crates/gateway/src/affinity_store.rs, with its persistence task, the    *)
(* final flush of main.rs, crashes and restarts.  put and get hold the     *)
(* map's mutex; writing the file does not, and takes several system calls. *)
(***************************************************************************)
EXTENDS Integers, Sequences, FiniteSets

CONSTANTS
    Session,     \* durable affinity digests
    PinAccount,     \* account ids
    NoPin,
    MaxBindings, \* MAX_BINDINGS
    Ttl,         \* BINDING_TTL_SECS, in clock ticks
    MaxLag,      \* how long a request may run between reading the clock and put
    MaxStamp,      \* bound on the clock
    WriteFaults       \* whether a system call of a write may fail

VARIABLES
    map,     \* AffinityStore.map; NoBinding where a session has no binding
    dirty,   \* AffinityStore.dirty
    now,     \* the wall clock
    phase,   \* "running", "stopping" (the task is aborted), "stopped"
    pc,      \* where each writer is: the persistence task and the final flush
    bytes,   \* what each writer serialised
    handle,  \* the file each writer has open
    temp,    \* the temporary file both writers use
    file,    \* claude-affinity.store
    failed   \* the latest write to end returned an error

affinityVars == <<map, dirty, now, phase, pc, bytes, handle, temp, file, failed>>

StoreWriter == {"task", "flush"}

NoBinding == [account_id |-> NoPin, last_used |-> 0]

Maps == [Session -> [account_id : PinAccount, last_used : Nat] \union {NoBinding}]

NoBindings == [s \in Session |-> NoBinding]

\* A file is absent, created and still empty, holds a serialised map, or holds
\* parts of two of them.
FileOf(kind, m) == [kind |-> kind, map |-> m]

NoFile == FileOf("absent", NoBindings)

BoundIn(m) == {s \in Session : m[s] # NoBinding}

FreshBinding(b, at) == at - b.last_used <= Ttl

\* map.retain(|_, binding| now - last_used <= TTL)
LiveBindings(m, at) == [s \in Session |-> IF FreshBinding(m[s], at) THEN m[s] ELSE NoBinding]

-----------------------------------------------------------------------------

\* Mutant: over the cap, the oldest bindings are the ones that stay.
MutTrimYoungest(m, at) ==
    LET l == LiveBindings(m, at)
        older(s) == {t \in BoundIn(l) : l[t].last_used < l[s].last_used}
    IN  [s \in Session |->
            IF Cardinality(older(s)) < MaxBindings THEN l[s] ELSE NoBinding]

\* ages[len - MAX_BINDINGS] is the cutoff: a binding stays while fewer than
\* MAX_BINDINGS are strictly younger, so ties with the cutoff stay too.
TrimBindings(m, at) ==
    LET l == LiveBindings(m, at)
        younger(s) == {t \in BoundIn(l) : l[t].last_used > l[s].last_used}
    IN  [s \in Session |->
            IF Cardinality(younger(s)) < MaxBindings THEN l[s] ELSE NoBinding]

\* AffinityStore::load; anything unreadable starts empty.
LoadStore(content, at) == IF content.kind = "map" THEN TrimBindings(content.map, at) ELSE NoBindings

AffinityInit ==
    /\ map = NoBindings
    /\ dirty = FALSE
    /\ now = 0
    /\ phase = "running"
    /\ pc = [w \in StoreWriter |-> "idle"]
    /\ bytes = [w \in StoreWriter |-> NoBindings]
    /\ handle = [w \in StoreWriter |-> "none"]
    /\ temp = NoFile
    /\ file = NoFile
    /\ failed = FALSE

WallTicks ==
    /\ now < MaxStamp
    /\ now' = now + 1
    /\ UNCHANGED <<map, dirty, phase, pc, bytes, handle, temp, file, failed>>

\* Mutant: the map is trimmed one binding too late.
MutPutTrimsLate(s, account, at) ==
    /\ phase = "running"
    /\ LET m == [map EXCEPT ![s] = [account_id |-> account, last_used |-> at]]
       IN  map' = IF Cardinality(BoundIn(m)) > MaxBindings + 1 THEN TrimBindings(m, at) ELSE m
    /\ dirty' = TRUE
    /\ UNCHANGED <<now, phase, pc, bytes, handle, temp, file, failed>>

\* Mutant: the stamp is moved back by a request's longest run.
MutPutBackdates(s, account, at) ==
    /\ phase = "running"
    /\ LET m == [map EXCEPT ![s] = [account_id |-> account, last_used |-> at - MaxLag]]
       IN  map' = IF Cardinality(BoundIn(m)) > MaxBindings THEN TrimBindings(m, at) ELSE m
    /\ dirty' = TRUE
    /\ UNCHANGED <<now, phase, pc, bytes, handle, temp, file, failed>>

\* A request pins its session; it read the clock when its attempt began.
PutBinding(s, account, at) ==
    /\ phase = "running"
    /\ LET m == [map EXCEPT ![s] = [account_id |-> account, last_used |-> at]]
       IN  map' = IF Cardinality(BoundIn(m)) > MaxBindings THEN TrimBindings(m, at) ELSE m
    /\ dirty' = TRUE
    /\ UNCHANGED <<now, phase, pc, bytes, handle, temp, file, failed>>

\* When a writer may start: the task on its ticks, the flush once the task is
\* aborted.  An abort does not stop a write that is already running.
MayWrite(w) == /\ pc[w] = "idle"
               /\ phase = IF w = "task" THEN "running" ELSE "stopping"

\* dirty.swap(false), before the map is locked.
SwapDirty(w) ==
    /\ MayWrite(w)
    /\ dirty
    /\ dirty' = FALSE
    /\ pc' = [pc EXCEPT ![w] = "swapped"]
    /\ UNCHANGED <<map, now, phase, bytes, handle, temp, file, failed>>

\* The rest of snapshot_if_dirty: trim the map and serialise it.
SerializeMap(w) ==
    /\ pc[w] = "swapped"
    /\ map' = TrimBindings(map, now)
    /\ bytes' = [bytes EXCEPT ![w] = TrimBindings(map, now)]
    /\ pc' = [pc EXCEPT ![w] = "open"]
    /\ UNCHANGED <<dirty, now, phase, handle, temp, file, failed>>

\* Mutant: the flag is cleared again when the write starts.
MutOpenClears(w) ==
    /\ pc[w] = "open"
    /\ temp' = FileOf("empty", NoBindings)
    /\ handle' = [handle EXCEPT ![w] = "temp"]
    /\ dirty' = FALSE
    /\ pc' = [pc EXCEPT ![w] = "write"]
    /\ UNCHANGED <<map, now, phase, bytes, file, failed>>

\* open(temp) with create and truncate: a writer that finds the other's file
\* shares it.
OpenTemp(w) ==
    /\ pc[w] = "open"
    /\ temp' = FileOf("empty", NoBindings)
    /\ handle' = [handle EXCEPT ![w] = "temp"]
    /\ pc' = [pc EXCEPT ![w] = "write"]
    /\ UNCHANGED <<map, dirty, now, phase, bytes, file, failed>>

\* write_all at offset zero: over another writer's longer text, its tail remains.
WrittenTemp(content, b) ==
    IF content.kind = "empty" THEN {FileOf("map", b)}
    ELSE {FileOf("map", b), FileOf("torn", NoBindings)}

WriteTemp(w) ==
    /\ pc[w] = "write"
    /\ CASE handle[w] = "temp" -> temp' \in WrittenTemp(temp, bytes[w]) /\ UNCHANGED file
         [] handle[w] = "file" -> file' \in WrittenTemp(file, bytes[w]) /\ UNCHANGED temp
         [] OTHER -> UNCHANGED <<temp, file>>
    /\ pc' = [pc EXCEPT ![w] = "rename"]
    /\ UNCHANGED <<map, dirty, now, phase, bytes, handle, failed>>

\* rename(temp, file): an open handle follows the file it was opened on.
RenameTemp(w) ==
    /\ pc[w] = "rename"
    /\ temp.kind # "absent"
    /\ file' = temp
    /\ temp' = NoFile
    /\ handle' = [v \in StoreWriter |-> IF v = w THEN "none"
                                   ELSE CASE handle[v] = "temp" -> "file"
                                          [] handle[v] = "file" -> "replaced"
                                          [] OTHER -> handle[v]]
    /\ pc' = [pc EXCEPT ![w] = "idle"]
    /\ failed' = FALSE
    /\ UNCHANGED <<map, dirty, now, phase, bytes>>

\* The write ends with an error, which is only logged: a failed system call, or
\* a rename that finds no temporary file.
WriteFails(w) ==
    /\ pc[w] \in {"open", "write", "rename"}
    /\ WriteFaults \/ (pc[w] = "rename" /\ temp.kind = "absent")
    /\ pc' = [pc EXCEPT ![w] = "idle"]
    /\ handle' = [handle EXCEPT ![w] = "none"]
    /\ failed' = TRUE
    /\ UNCHANGED <<map, dirty, now, phase, bytes, temp, file>>

\* main.rs once the server has returned: the task is aborted, nobody pins.
AbortTask ==
    /\ phase = "running"
    /\ phase' = "stopping"
    /\ UNCHANGED <<map, dirty, now, pc, bytes, handle, temp, file, failed>>

\* The flush found nothing dirty or is done, and the runtime has waited for the
\* task's write.
ExitProcess ==
    /\ phase = "stopping"
    /\ ~dirty
    /\ \A w \in StoreWriter : pc[w] = "idle"
    /\ phase' = "stopped"
    /\ UNCHANGED <<map, dirty, now, pc, bytes, handle, temp, file, failed>>

\* The next process, after an orderly exit or after a crash at any point.
Reload ==
    /\ map' = LoadStore(file, now)
    /\ dirty' = FALSE
    /\ phase' = "running"
    /\ pc' = [w \in StoreWriter |-> "idle"]
    /\ bytes' = [w \in StoreWriter |-> NoBindings]
    /\ handle' = [w \in StoreWriter |-> "none"]
    /\ temp' = NoFile
    /\ failed' = FALSE
    /\ UNCHANGED <<now, file>>

AffinityNext ==
    \/ WallTicks
    \/ \E s \in Session, account \in PinAccount, at \in 0 .. now :
          now - at <= MaxLag /\ PutBinding(s, account, at)
    \/ \E w \in StoreWriter : \/ SwapDirty(w) \/ SerializeMap(w) \/ OpenTemp(w)
                         \/ WriteTemp(w) \/ RenameTemp(w) \/ WriteFails(w)
    \/ AbortTask
    \/ ExitProcess
    \/ Reload

AffinitySpec == AffinityInit /\ [][AffinityNext]_affinityVars

-----------------------------------------------------------------------------

\* Every map, in memory, under way or on disk, binds sessions to accounts with
\* stamps that are natural numbers.
AffinityTypeOK ==
    /\ map \in Maps
    /\ dirty \in BOOLEAN
    /\ now \in Nat
    /\ phase \in {"running", "stopping", "stopped"}
    /\ pc \in [StoreWriter -> {"idle", "swapped", "open", "write", "rename"}]
    /\ bytes \in [StoreWriter -> Maps]
    /\ handle \in [StoreWriter -> {"none", "temp", "file", "replaced"}]
    /\ {temp, file} \subseteq [kind : {"absent", "empty", "map", "torn"}, map : Maps]
    /\ failed \in BOOLEAN

\* The bindings two maps still owe their sessions.
SamePins(m1, m2) == LiveBindings(m1, now) = LiveBindings(m2, now)

\* The map grows past MAX_BINDINGS only by bindings that share the oldest stamp.
OverCapOnlyByTies ==
    LET oldest == {s \in BoundIn(map) : \A t \in BoundIn(map) : map[s].last_used <= map[t].last_used}
    IN  Cardinality(BoundIn(map)) > MaxBindings =>
            Cardinality(BoundIn(map) \ oldest) < MaxBindings

EvictionIsByAgeStep ==
    phase' = "running" /\ phase = "running" /\ ~Reload =>
       \A s \in BoundIn(map) :
          map'[s] = NoBinding =>
             \/ ~FreshBinding(map[s], now)
             \/ Cardinality({t \in BoundIn(map') :
                               map'[t].last_used + MaxLag > map[s].last_used}) >= MaxBindings

\* A binding is dropped only when it expired, or when as many younger ones as the
\* cap allows stay, up to the time a request runs before its put: no put and no
\* snapshot takes a pin away from an active session before an idler one's.
EvictionIsByAge == [][EvictionIsByAgeStep]_affinityVars

\* While the process runs, a clean store whose last write did not fail is on disk:
\* a crash now loses no pin.
CleanMeansSaved ==
    phase = "running" /\ ~dirty /\ pc["task"] = "idle" /\ ~failed => SamePins(map, file.map)

\* A restart finds the pins that the running process would honour, and their
\* number is bounded but for ties (snapshot_if_dirty, trim).
PinsAreKept == CleanMeansSaved /\ OverCapOnlyByTies
=============================================================================
