---- MODULE SignatureLedger ----
(***************************************************************************)
(* The ledger that keeps Gemini's thought signatures between turns: a      *)
(* store bounded by entries and bytes and ordered by last access, and the  *)
(* snapshot one worker writes after a burst.                               *)
(* crates/gateway/src/compat/signature_ledger.                             *)
(*                                                                         *)
(* A key is a model, a session, a tool name and a call id; what it weighs  *)
(* is its entry's size.  The clock counts TTLs in ticks.                   *)
(***************************************************************************)
EXTENDS Naturals, Sequences, SequencesExt

CONSTANTS Key, Arguments,
          Weight,             \* sizes an entry may have
          MaxEntries, MaxBytes, \* bounds of the store
          SnapshotEntries,    \* snapshot_max_entries
          TTL,
          MaxClock, MaxWrites \* bounds: the clock, calls of remember

VARIABLES clock,
          entries,  \* the entries in order of access, oldest first
          bytes,
          dirty, wake, stopping,
          worker,   \* the persistence worker
          taken,    \* the snapshot being written
          file,
          alive,
          writes,   \* history: what each key was last given, numbered
          failed    \* history: a write of the snapshot failed since the last remember

ledgerVars == <<clock, entries, bytes, dirty, wake, stopping, worker, taken, file, alive, writes, failed>>

Entry == [key : Key, arguments : Arguments, signature : 1..MaxWrites, weight : Weight, stored_at : 0..MaxClock]
Given == Len(writes)
weight(s) == FoldSeq(LAMBDA e, n : n + e.weight, 0, s)
Store == [entries |-> entries, bytes |-> bytes]
Becomes(s) == entries' = s.entries /\ bytes' = s.bytes

(***************************************************************************)
(* LruStore.                                                               *)
(***************************************************************************)
remove(s, k) ==
    LET gone == SelectSeq(s.entries, LAMBDA e : e.key = k) IN
    [entries |-> SelectSeq(s.entries, LAMBDA e : e.key # k), bytes |-> s.bytes - weight(gone)]

\* Mutant: the bytes of a replaced entry stay in the account.
MutInsertion(s, e) ==
    [entries |-> Append(SelectSeq(s.entries, LAMBDA o : o.key # e.key), e), bytes |-> s.bytes + e.weight]

Insertion(s, e) ==
    LET r == remove(s, e.key) IN [entries |-> Append(r.entries, e), bytes |-> r.bytes + e.weight]

Over(s, n) ==
    LET left == SubSeq(s.entries, n + 1, Len(s.entries)) IN
    Len(left) > MaxEntries \/ s.bytes - weight(SubSeq(s.entries, 1, n)) > MaxBytes

\* The least recently used entries go, and no more of them than must.
evict(s) ==
    LET n == CHOOSE n \in 0..Len(s.entries) : /\ n = Len(s.entries) \/ ~Over(s, n)
                                              /\ \A m \in 0..(n - 1) : Over(s, m)
    IN [entries |-> SubSeq(s.entries, n + 1, Len(s.entries)), bytes |-> s.bytes - weight(SubSeq(s.entries, 1, n))]

insert(s, e) == evict(Insertion(s, e))

Expired(e) == clock - e.stored_at > TTL

\* Most recently used first, as many as the snapshot may hold.
snapshot ==
    LET fresh == Reverse(SelectSeq(entries, LAMBDA e : ~Expired(e)))
        n == IF Len(fresh) < SnapshotEntries THEN Len(fresh) ELSE SnapshotEntries
    IN [i \in 1..n |-> [fresh[i] EXCEPT !.stored_at = clock - @]]

\* Mutant: a snapshot is put back in the order it was written.
MutRestore(records) ==
    FoldLeft(LAMBDA s, r : insert(s, [r EXCEPT !.stored_at = clock - @]), [entries |-> <<>>, bytes |-> 0], records)

\* Ages, not times, are kept, and the oldest goes in first.
restore(records) ==
    FoldRight(LAMBDA r, s : IF r.stored_at > TTL THEN s ELSE insert(s, [r EXCEPT !.stored_at = clock - @]),
              records, [entries |-> <<>>, bytes |-> 0])

(***************************************************************************)
(* Requests.                                                               *)
(***************************************************************************)
remember(k, a, w) ==
    /\ alive /\ Given < MaxWrites
    /\ Becomes(insert(Store, [key |-> k, arguments |-> a, signature |-> Given + 1, weight |-> w, stored_at |-> clock]))
    /\ writes' = Append(writes, [key |-> k, arguments |-> a])
    /\ dirty' = TRUE /\ wake' = TRUE /\ failed' = FALSE
    /\ UNCHANGED <<clock, stopping, worker, taken, file, alive>>

\* Mutant: the arguments of the call are not compared.
MutGet(s, k, a) ==
    LET found == SelectSeq(s.entries, LAMBDA e : e.key = k) IN
    IF found = <<>> THEN [hit |-> 0, store |-> s]
    ELSE IF Expired(found[1]) THEN [hit |-> 0, store |-> remove(s, k)]
    ELSE [hit |-> found[1].signature, store |-> s]

\* An expired entry is removed when it is asked for; one asked for with
\* other arguments is neither returned nor touched.
get(s, k, a) ==
    LET found == SelectSeq(s.entries, LAMBDA e : e.key = k) IN
    CASE found = <<>> -> [hit |-> 0, store |-> s]
      [] found # <<>> /\ Expired(found[1]) -> [hit |-> 0, store |-> remove(s, k)]
      [] found # <<>> /\ ~Expired(found[1]) /\ found[1].arguments # a -> [hit |-> 0, store |-> s]
      [] OTHER -> [hit |-> found[1].signature,
                   store |-> [s EXCEPT !.entries = Append(SelectSeq(@, LAMBDA e : e.key # k),
                                                          [found[1] EXCEPT !.stored_at = clock])]]

recall(k, a) ==
    /\ alive
    /\ Becomes(get(Store, k, a).store)
    /\ UNCHANGED <<clock, dirty, wake, stopping, worker, taken, file, alive, writes, failed>>

(***************************************************************************)
(* The worker: woken, it lets the burst pass and writes once.  Asked to    *)
(* stop, it writes and ends.                                               *)
(***************************************************************************)
Wake ==
    /\ alive /\ worker = "waiting" /\ wake
    /\ wake' = FALSE
    /\ worker' = IF stopping THEN "stop" ELSE IF dirty THEN "flush" ELSE "waiting"
    /\ UNCHANGED <<clock, entries, bytes, dirty, stopping, taken, file, alive, writes, failed>>

\* The flag is cleared before the store is read: what is remembered in
\* between is in the snapshot, and marks the ledger once more.
FlushClears ==
    /\ alive /\ worker \in {"flush", "stop"}
    /\ dirty' = FALSE
    /\ worker' = IF worker = "stop" THEN "stop_read" ELSE "read"
    /\ UNCHANGED <<clock, entries, bytes, wake, stopping, taken, file, alive, writes, failed>>

FlushReads ==
    /\ alive /\ worker \in {"read", "stop_read"}
    /\ taken' = snapshot
    /\ worker' = IF worker = "stop_read" THEN "stop_write" ELSE "write"
    /\ UNCHANGED <<clock, entries, bytes, dirty, wake, stopping, file, alive, writes, failed>>

\* Mutant: the flag is cleared once the file is written.
MutFlushEnds(ok) ==
    /\ alive /\ worker \in {"write", "stop_write"}
    /\ file' = IF ok THEN taken ELSE file
    /\ dirty' = ~ok
    /\ failed' = (failed \/ ~ok)
    /\ worker' = IF worker = "stop_write" THEN "ended" ELSE "waiting"
    /\ taken' = <<>>
    /\ UNCHANGED <<clock, entries, bytes, wake, stopping, alive, writes>>

\* The file is replaced by a rename, or stays as it was and the ledger is
\* dirty again.
FlushEnds(ok) ==
    /\ alive /\ worker \in {"write", "stop_write"}
    /\ file' = IF ok THEN taken ELSE file
    /\ dirty' = (dirty \/ ~ok)
    /\ failed' = (failed \/ ~ok)
    /\ worker' = IF worker = "stop_write" THEN "ended" ELSE "waiting"
    /\ taken' = <<>>
    /\ UNCHANGED <<clock, entries, bytes, wake, stopping, alive, writes>>

shutdown ==
    /\ alive /\ ~stopping
    /\ stopping' = TRUE /\ wake' = TRUE
    /\ UNCHANGED <<clock, entries, bytes, dirty, worker, taken, file, alive, writes, failed>>

\* The process goes, by a crash or after its worker has ended.
Stop ==
    /\ alive
    /\ alive' = FALSE
    /\ entries' = <<>> /\ bytes' = 0 /\ dirty' = FALSE /\ wake' = FALSE /\ stopping' = FALSE
    /\ worker' = "waiting" /\ taken' = <<>> /\ failed' = FALSE
    /\ UNCHANGED <<clock, file, writes>>

open ==
    /\ ~alive
    /\ alive' = TRUE
    /\ Becomes(restore(file))
    /\ UNCHANGED <<clock, dirty, wake, stopping, worker, taken, file, writes, failed>>

Tick ==
    /\ clock < MaxClock
    /\ clock' = clock + 1
    /\ UNCHANGED <<entries, bytes, dirty, wake, stopping, worker, taken, file, alive, writes, failed>>

LedgerInit ==
    /\ clock = 0 /\ entries = <<>> /\ bytes = 0 /\ file = <<>> /\ taken = <<>> /\ writes = <<>>
    /\ dirty = FALSE /\ wake = FALSE /\ stopping = FALSE /\ failed = FALSE /\ alive = TRUE
    /\ worker = "waiting"

LedgerNext ==
    \/ \E k \in Key, a \in Arguments, w \in Weight : remember(k, a, w)
    \/ \E k \in Key, a \in Arguments : recall(k, a)
    \/ Wake \/ FlushClears \/ FlushReads \/ shutdown \/ Stop \/ open \/ Tick
    \/ \E ok \in BOOLEAN : FlushEnds(ok)

LedgerSpec == LedgerInit /\ [][LedgerNext]_ledgerVars

(***************************************************************************)
(* Properties.                                                             *)
(***************************************************************************)

\* The account of bytes is exact, the bounds hold, and no key is there
\* twice (LruStore).
StoreIsBounded ==
    /\ bytes = weight(entries)
    /\ Len(entries) <= MaxEntries /\ bytes <= MaxBytes
    /\ \A i, j \in DOMAIN entries : i # j => entries[i].key # entries[j].key

\* A signature that would be replayed was given for that very key and those
\* arguments, across evictions, snapshots and restarts, and the disk has
\* none that is newer (recall).
ReplaysWhatWasGiven ==
    \A k \in Key, a \in Arguments :
        LET hit == get(Store, k, a).hit IN
        hit # 0 => /\ writes[hit] = [key |-> k, arguments |-> a]
                   /\ ~(\E e \in Range(file) : e.signature > hit /\ e.key = k)

\* A ledger that is clean with its worker at rest has every live entry on
\* disk, as far as the snapshot reaches; one that is dirty is about to be
\* written, unless its last write failed and nothing came since
\* (flush_blocking, spawn_persistence_worker).
CleanIsOnDisk ==
    /\ alive /\ ~dirty /\ worker \in {"waiting", "ended"} /\ Len(entries) <= SnapshotEntries =>
          \A e \in Range(entries) : Expired(e) \/ \E r \in Range(file) : r.key = e.key /\ r.signature = e.signature
    /\ alive /\ dirty /\ worker = "waiting" => wake \/ failed

RestartKeepsOrderStep ==
    open => \A i, j \in DOMAIN file :
        i < j => ~(\E m, n \in DOMAIN entries' : m < n /\ entries'[m].key = file[i].key /\ entries'[n].key = file[j].key)
\* A restart keeps the order of use: of two entries it takes in, the one
\* used later goes later (restore).
RestartKeepsOrder == [][RestartKeepsOrderStep]_ledgerVars
====
