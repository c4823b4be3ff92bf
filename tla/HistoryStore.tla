---------------------------- MODULE HistoryStore ----------------------------
(***************************************************************************)
(* The request-history database: its commands, and its migrations. The two *)
(* share no state: migrations are over before the first command.           *)
(***************************************************************************)
EXTENDS Integers, Sequences, FiniteSets, FiniteSetsExt

-----------------------------------------------------------------------------
(***************************************************************************)
(* The request-history database.  One thread owns the connection and       *)
(* serves one command at a time, so a command is an action, except that    *)
(* maintenance deletes in chunks that commit one by one and may fail       *)
(* between two of them.  A reader walks the events page by page with a     *)
(* cursor while other commands run.                                        *)
(***************************************************************************)

CONSTANTS
  Lane,        \* an account and a model of Cline's
  Version,     \* versions of a model's price
  MaxTime,     \* bound on the clock
  MaxRow,      \* bound on the events ever inserted
  MaxCap,      \* bound on the caps ever recorded
  Retention,   \* HistoryConfig.retention
  SizeCap,     \* HistoryConfig.max_size_bytes, in rows
  ChunkSize,   \* HistoryConfig.prune_chunk_size
  PageLimit    \* the page size of a walk

VARIABLES
  events,     \* usage_events: row id, time, the version that priced it
  nextRow,    \* AUTOINCREMENT: never goes back
  caps,       \* cline_cap_events: row id, lane, reset time
  nextCap,
  prices,     \* model_prices: version, time it takes effect, creation order
  clock,
  upkeep,     \* the thread: idle, or how far the maintenance has come
  walk,       \* a reader's cursor; history: rows it set out for and has not been given
  topReset,   \* history: the latest reset recorded for a lane
  repriced    \* history: no price changed since the costs were computed

storeVars ==
  <<events, nextRow, caps, nextCap, prices, clock, upkeep, walk, topReset, repriced>>

NoWalk == [cursor |-> 0, owed |-> {}]
Unpriced == "none"

HistoryEventRow == [id : Nat, at : Nat, version : Version \cup {Unpriced}]
ClineCapEvent == [id : Nat, lane : Lane, at : Nat, reset : Nat]

StoreInit ==
  /\ events = {} /\ caps = {} /\ prices = {} /\ walk = NoWalk
  /\ nextRow = 1 /\ nextCap = 1 /\ clock = 1 /\ upkeep = "idle"
  /\ topReset = [l \in Lane |-> 0] /\ repriced = TRUE

----------------------------------------------------------------------------
(* Prices. *)

\* The price in force when the event occurred; the later created wins a tie.
PriceSnapshot(at) ==
  LET inForce == {p \in prices : p.from <= at}
  IN  IF inForce = {} THEN Unpriced
      ELSE (CHOOSE p \in inForce : \A q \in inForce :
              q.from < p.from \/ (q.from = p.from /\ q.created <= p.created)).version

\* An upsert: a version that exists keeps its creation time.
SetPrice(v, from) ==
  /\ upkeep = "idle"
  /\ prices' = {p \in prices : p.version # v}
                 \cup {[version |-> v, from |-> from,
                        created |-> IF \E p \in prices : p.version = v
                                    THEN (CHOOSE p \in prices : p.version = v).created
                                    ELSE Cardinality(prices)]}
  /\ repriced' = FALSE
  /\ UNCHANGED <<events, nextRow, caps, nextCap, clock, upkeep, walk, topReset>>

DeletePrice(v) ==
  /\ upkeep = "idle"
  /\ \E p \in prices : p.version = v
  /\ prices' = {p \in prices : p.version # v}
  /\ repriced' = FALSE
  /\ UNCHANGED <<events, nextRow, caps, nextCap, clock, upkeep, walk, topReset>>

MutRecomputeCosts ==
  /\ upkeep = "idle" /\ ~repriced
  /\ events' = {[e EXCEPT !.version = PriceSnapshot(clock)] : e \in events}
  /\ repriced' = TRUE
  /\ UNCHANGED <<nextRow, caps, nextCap, prices, clock, upkeep, walk, topReset>>

RecomputeCosts ==
  /\ upkeep = "idle" /\ ~repriced
  /\ events' = {[e EXCEPT !.version = PriceSnapshot(e.at)] : e \in events}
  /\ repriced' = TRUE
  /\ UNCHANGED <<nextRow, caps, nextCap, prices, clock, upkeep, walk, topReset>>

----------------------------------------------------------------------------
(* Events. *)

\* Ids without AUTOINCREMENT: a deleted row's id comes back.
MutInsertEvent(at) ==
  /\ upkeep = "idle" /\ nextRow <= MaxRow
  /\ events' = events \cup {[id |-> Cardinality(events) + 1, at |-> at,
                             version |-> PriceSnapshot(at)]}
  /\ nextRow' = nextRow + 1
  /\ UNCHANGED <<caps, nextCap, prices, clock, upkeep, walk, topReset, repriced>>

\* A record carries the time its request began, which may be long ago.
InsertEvent(at) ==
  /\ upkeep = "idle" /\ nextRow <= MaxRow
  /\ events' = events \cup {[id |-> nextRow, at |-> at, version |-> PriceSnapshot(at)]}
  /\ nextRow' = nextRow + 1
  /\ UNCHANGED <<caps, nextCap, prices, clock, upkeep, walk, topReset, repriced>>

Matches(query, e) == query[1] <= e.at /\ e.at < query[2]

ClearEvents(query) ==
  /\ upkeep = "idle"
  /\ \E e \in events : Matches(query, e)
  /\ events' = {e \in events : ~Matches(query, e)}
  /\ UNCHANGED <<nextRow, caps, nextCap, prices, clock, upkeep, walk, topReset, repriced>>

\* Limit + 1 rows below the cursor are read; the extra one tells that there is
\* a next page and is not returned.  A finished walk has cursor 0.
MutPageOf(cursor) ==
  LET below == {e.id : e \in {f \in events : f.id < cursor}}
      taken == {i \in below : Cardinality({j \in below : j >= i}) <= PageLimit}
  IN  [ids |-> taken,
       next |-> IF Cardinality(below) > PageLimit THEN Min(taken) - 1 ELSE 0]

PageOf(cursor) ==
  LET below == {e.id : e \in {f \in events : f.id < cursor}}
      taken == {i \in below : Cardinality({j \in below : j >= i}) <= PageLimit}
  IN  [ids |-> taken,
       next |-> IF Cardinality(below) > PageLimit THEN Min(taken) ELSE 0]

PageEvents ==
  /\ upkeep = "idle"
  /\ LET fresh == walk.cursor = 0
         page == PageOf(IF fresh THEN nextRow ELSE walk.cursor)
     IN  walk' = [cursor |-> page.next,
                  owed |-> (IF fresh THEN {e.id : e \in events} ELSE walk.owed) \ page.ids]
  /\ UNCHANGED <<events, nextRow, caps, nextCap, prices, clock, upkeep, topReset, repriced>>

----------------------------------------------------------------------------
(* Caps, and maintenance. *)

RecordClineCap(l, reset) ==
  /\ upkeep = "idle" /\ nextCap <= MaxCap
  /\ caps' = caps \cup {[id |-> nextCap, lane |-> l, at |-> clock, reset |-> reset]}
  /\ nextCap' = nextCap + 1
  /\ topReset' = [topReset EXCEPT ![l] = Max({@, reset})]
  /\ UNCHANGED <<events, nextRow, prices, clock, upkeep, walk, repriced>>

\* What a restart benches its Cline members with.
ListClineCaps ==
  {<<l, Max({c.reset : c \in {d \in caps : d.lane = l}})>> :
     l \in {k \in Lane : \E d \in caps : d.lane = k /\ d.reset > clock}}

Chunk(candidates, Before(_, _)) ==
  {x \in candidates : Cardinality({y \in candidates : Before(y, x)}) < ChunkSize}

OlderEvent(e, f) == e.at < f.at \/ (e.at = f.at /\ e.id < f.id)

MutDominated(c) ==
  \E d \in caps : d.lane = c.lane /\ d.id > c.id

\* Only an observation that a later reset of its lane makes useless may go.
Dominated(c) ==
  \E d \in caps : /\ d.lane = c.lane
                  /\ d.reset > c.reset \/ (d.reset = c.reset /\ d.id > c.id)

\* The database's pages in use; a row is the unit.
LogicalSize == Cardinality(events) + Cardinality(caps)

Upkeep(from, to) == upkeep = from /\ upkeep' = to
KeepsRest == UNCHANGED <<nextRow, nextCap, prices, clock, walk, topReset, repriced>>

StartMaintenance ==
  /\ Upkeep("idle", "caps") /\ UNCHANGED <<events, caps>> /\ KeepsRest

PruneExpiredCaps ==
  LET expired == {c \in caps : c.reset <= clock}
  IN  /\ IF expired = {} THEN Upkeep("caps", "old") ELSE Upkeep("caps", "caps")
      /\ caps' = caps \ Chunk(expired, LAMBDA c, d : c.reset < d.reset \/ (c.reset = d.reset /\ c.id < d.id))
      /\ UNCHANGED events /\ KeepsRest

PruneRetention ==
  LET old == {e \in events : e.at < clock - Retention}
  IN  /\ IF old = {} THEN Upkeep("old", "size") ELSE Upkeep("old", "old")
      /\ events' = events \ Chunk(old, OlderEvent)
      /\ UNCHANGED caps /\ KeepsRest

MutPruneToSize ==
  /\ Upkeep("size", "size") /\ LogicalSize > SizeCap
  /\ events' = events \ Chunk(events, LAMBDA e, f : e.id < f.id)
  /\ events # {} /\ UNCHANGED caps /\ KeepsRest

\* Caps that tell nothing go before events, and the oldest events go first.
PruneToSize ==
  /\ Upkeep("size", "size") /\ LogicalSize > SizeCap
  /\ LET useless == {c \in caps : Dominated(c)}
     IN  IF useless # {}
         THEN /\ caps' = caps \ Chunk(useless, LAMBDA c, d : c.at < d.at \/ (c.at = d.at /\ c.id < d.id))
              /\ UNCHANGED events
         ELSE /\ events # {}
              /\ events' = events \ Chunk(events, OlderEvent)
              /\ UNCHANGED caps
  /\ KeepsRest

\* The cap is met, or nothing is left to delete: then the thread warns.
FinishMaintenance ==
  /\ Upkeep("size", "idle")
  /\ LogicalSize <= SizeCap \/ (events = {} /\ \A c \in caps : ~Dominated(c))
  /\ UNCHANGED <<events, caps>> /\ KeepsRest

\* A statement fails; what was deleted stays deleted.
MaintenanceFails ==
  /\ upkeep # "idle" /\ upkeep' = "idle" /\ UNCHANGED <<events, caps>> /\ KeepsRest

Tick ==
  /\ clock < MaxTime /\ clock' = clock + 1
  /\ UNCHANGED <<events, nextRow, caps, nextCap, prices, upkeep, walk, topReset, repriced>>

StoreNext ==
  \/ \E v \in Version : DeletePrice(v) \/ \E from \in 0..MaxTime : SetPrice(v, from)
  \/ RecomputeCosts \/ PageEvents
  \/ \E at \in 0..clock : InsertEvent(at)
  \/ \E a, b \in 0..MaxTime + 1 : ClearEvents(<<a, b>>)
  \/ \E l \in Lane, reset \in clock + 1..MaxTime + 1 : RecordClineCap(l, reset)
  \/ StartMaintenance \/ PruneExpiredCaps \/ PruneRetention \/ PruneToSize
  \/ FinishMaintenance \/ MaintenanceFails \/ Tick

----------------------------------------------------------------------------

\* The rows have their types and their ids are unique.
StoreTypeOK ==
  /\ events \subseteq HistoryEventRow /\ \A e \in events : e.id < nextRow
  /\ caps \subseteq ClineCapEvent
  /\ \A p \in prices : p.version \in Version
  /\ \A e, f \in events : e.id = f.id => e = f

\* A restart must bench each Cline lane until the latest reset upstream named.
\* However the database is trimmed, and wherever a trim fails, the list it
\* reads still has that reset for every lane whose reset lies ahead.
LiveResetsAreKept ==
  \A l \in Lane : topReset[l] > clock => <<l, topReset[l]>> \in ListClineCaps

OldestGoFirstStep ==
    upkeep # "idle" => \A e \in events \ events', f \in events' : OlderEvent(e, f)

\* Maintenance deletes history from its old end: no event survives a step of
\* maintenance that deleted a younger one.
OldestGoFirst == [][OldestGoFirstStep]_storeVars

\* A walk that has ended was given every event that was there when it began and
\* is still there, whatever was inserted, cleared or pruned between its pages.
WalkMissesNothing ==
  walk.cursor = 0 => \A e \in events : e.id \notin walk.owed

\* Unless a price changed after the costs were last computed, every event
\* carries the price in force when it occurred.
CostsFollowPrices ==
  repriced => \A e \in events : e.version = PriceSnapshot(e.at)

-----------------------------------------------------------------------------
(***************************************************************************)
(* The migration of the request-history database.  The version is read     *)
(* once, each step is a transaction that also advances the stored version, *)
(* and two groups of columns are added outside any transaction with their  *)
(* errors ignored.  The process may stop between any two of these.         *)
(***************************************************************************)

VARIABLES
  schemaVersion,  \* PRAGMA user_version
  columns,        \* the tables and columns there are
  migration       \* the process: the version it read and how far it has come

schemaVars == <<schemaVersion, columns, migration>>

SCHEMA_VERSION == 5
MutSteps == <<"v1", "v2", "v3", "init_schema", "v4", "v5", "deferred", "done">>
MutStepsEarly == <<"v1", "v2", "init_schema", "deferred", "v3", "v4", "v5", "done">>
Steps == <<"v1", "v2", "init_schema", "v3", "v4", "v5", "deferred", "done">>

\* What each versioned step creates, and what it reads or renames.
Creates ==
  [v1 |-> {"events", "prices"}, v2 |-> {"costs"}, v3 |-> {"known"},
   v4 |-> {"session"}, v5 |-> {"caps"}]
Reads ==
  [v1 |-> {}, v2 |-> {"events", "prices"}, v3 |-> {"events", "cache_write"},
   v4 |-> {"events"}, v5 |-> {}]
Target == [v1 |-> 1, v2 |-> 2, v3 |-> 3, v4 |-> 4, v5 |-> 5]

Through(v) == UNION {Creates[s] : s \in {t \in DOMAIN Creates : Target[t] <= v}}
FullSchema == Through(SCHEMA_VERSION) \cup {"cache_write", "fast", "credit"}

Closed == [phase |-> "closed"]

\* A database this program or an earlier release left: the columns of its
\* version, and of the tolerated ones those whose table exists.
SchemaInit ==
  /\ schemaVersion \in 0..SCHEMA_VERSION + 1
  /\ \E extra \in SUBSET {"cache_write", "fast", "credit"} :
       /\ schemaVersion = 0 => extra = {}
       /\ schemaVersion < 5 => "credit" \notin extra
       /\ schemaVersion >= 3 => "cache_write" \in extra
       /\ columns = Through(schemaVersion) \cup extra
  /\ migration = Closed

\* A newer database is refused; otherwise the version read decides which of
\* the transactions run.
ReadVersion ==
  /\ migration = Closed
  /\ migration' = IF schemaVersion > SCHEMA_VERSION
                  THEN [phase |-> "refused"]
                  ELSE [phase |-> "running", current |-> schemaVersion, at |-> 1]
  /\ UNCHANGED <<schemaVersion, columns>>

Advance == migration' = [migration EXCEPT !.at = @ + 1]

Running(s) == migration.phase = "running" /\ Steps[migration.at] = s

\* A versioned step: the DDL, the migration's record and the version commit
\* together.  CREATE and ADD COLUMN fail on what exists already.
MigrateStep(s) ==
  /\ Running(s)
  /\ IF migration.current >= Target[s]
     THEN Advance /\ UNCHANGED <<schemaVersion, columns>>
     ELSE IF Reads[s] \subseteq columns /\ Creates[s] \cap columns = {}
     THEN /\ columns' = columns \cup Creates[s]
          /\ schemaVersion' = Target[s]
          /\ Advance
     ELSE /\ migration' = [phase |-> "failed"]
          /\ UNCHANGED <<schemaVersion, columns>>

\* Columns added outside a transaction; an error (a column that exists, a
\* table that does not) is ignored.
InitSchema ==
  /\ Running("init_schema")
  /\ columns' = columns \cup {c \in {"cache_write", "fast"} : "events" \in columns}
  /\ Advance /\ UNCHANGED schemaVersion

InitDeferredSchema ==
  /\ Running("deferred")
  /\ columns' = columns \cup {c \in {"credit"} : "caps" \in columns}
  /\ Advance /\ UNCHANGED schemaVersion

Crash ==
  /\ migration.phase \in {"running", "failed"} /\ migration' = Closed
  /\ UNCHANGED <<schemaVersion, columns>>

SchemaNext ==
  \/ ReadVersion \/ InitSchema \/ InitDeferredSchema \/ Crash
  \/ \E s \in DOMAIN Creates : MigrateStep(s)

----------------------------------------------------------------------------

\* No migration fails on a schema that an earlier release or an interrupted
\* migration left: every step finds what it reads and creates nothing twice.
MigrationNeverSticks == migration.phase # "failed"

\* A migration that ran to its end has left the whole schema, wherever
\* earlier ones were interrupted; inserts name every one of its columns.
SchemaIsComplete == Running("done") => columns = FullSchema
=============================================================================
