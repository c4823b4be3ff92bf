------------------------ MODULE StreamOutcomesProofs ------------------------
(***************************************************************************)
(* How streamed requests end, for any number of requests, edits and        *)
(* restarts: each is counted once and on its own login, a key's spending   *)
(* never falls, and the document catches up with it.                       *)
(***************************************************************************)
EXTENDS StreamOutcomes, FiniteSetTheorems, TLAPS

\* Finitely many requests, an account that is a Devin account or not.
Countable ==
    IsFiniteSet(Stream) /\ MaxObject \in Nat \ {0} /\ Devin \subseteq BOOLEAN

Streams == [phase : {"new", "authenticated", "refused", "open", "ended", "dropped", "gone"},
            ident : Nat, id : Nat, cell : Nat, member : Nat, outcome : BOOLEAN, guard : BOOLEAN,
            task : {"none", "charging", "saving", "done"}, spawned : Nat, tokens : Nat, charged : Nat]

Objects == [token : Nat, cells : Cell, devin : BOOLEAN]

Tallies == [ok : Nat, fail : Nat, benched : BOOLEAN]

Keys == [id : Nat, ident : Nat, used : Nat]

Entries == [id : Nat, ident : Nat, cell : Nat]

OpenStreams == {s \in Stream : stream[s].phase = "open"}

ShapeInv ==
    /\ stream \in [Stream -> Streams]
    /\ object \in Seq(Objects) /\ Len(object) \in 1 .. MaxObject
    /\ tally \in [Cell -> Tallies]
    /\ entry \in Entries /\ counter \in Seq(Nat) /\ document \in Keys
    /\ edits \in Nat /\ restarts \in Nat /\ lastId \in Nat /\ lagging \in BOOLEAN

\* One request q, with n objects built: its outcome and its slot of the gauge are
\* there while its body is open, and its record is spawned when they are taken.
Settled(q, n) ==
    /\ (q.outcome <=> q.phase = "open") /\ (q.guard <=> q.phase = "open")
    /\ q.spawned = (IF q.phase \in {"ended", "dropped"} THEN 1 ELSE 0)
    /\ q.member \in 0 .. n
    /\ q.phase = "open" => q.member # 0
    /\ q.task # "none" => q.phase \in {"ended", "dropped"}

\* One request q, with entry e of the key and n counters: a request that charges
\* the key's counter saves to the same key.
Charges(q, e, n) ==
    /\ q.cell \in 0 .. n
    /\ q.cell # 0 => q.id # 0
    /\ q.task = "saving" => q.cell # 0
    /\ e.id # 0 /\ q.cell = e.cell => q.id = e.id

\* What the tracker knows of the key is what the document says.
KeyInv ==
    /\ entry.id = document.id
    /\ entry.cell \in 0 .. Len(counter)
    /\ entry.id # 0 => entry.cell # 0
    /\ document.id = 0 => document = NoKey

\* The document holds the live count, or a record that is about to save does.
SavedInv ==
    entry.id # 0 /\ ~lagging =>
       \/ document.used >= counter[entry.cell]
       \/ \E s \in Stream : /\ stream[s].task = "saving" /\ stream[s].id = entry.id
                            /\ stream[s].charged >= counter[entry.cell]

OutcomesInv ==
    /\ ShapeInv
    /\ \A s \in Stream : Settled(stream[s], Len(object)) /\ Charges(stream[s], entry, Len(counter))
    /\ KeyInv
    /\ SavedInv
    /\ inFlight = Cardinality(OpenStreams)

-----------------------------------------------------------------------------
\* The greater of two numbers.
LEMMA MaxOfTwo ==
    ASSUME NEW a \in Nat, NEW b \in Nat
    PROVE  Max({a, b}) \in Nat /\ Max({a, b}) >= a /\ Max({a, b}) >= b /\ Max({a, b}) \in {a, b}
<1>1. \E x \in {a, b} : \A y \in {a, b} : x >= y
  OBVIOUS
<1> QED
  BY <1>1, Zenon DEF Max

\* The constants of the module have their types.
LEMMA Constants ==
    /\ Idle \in Streams /\ [Idle EXCEPT !.phase = "gone"] \in Streams
    /\ NoEntry \in Entries /\ NoEntry.id = 0 /\ NoEntry.cell = 0
    /\ NoKey \in Keys /\ NoKey.id = 0
    /\ Fresh \in Tallies
    /\ \A n \in Nat : Settled(Idle, n) /\ Settled([Idle EXCEPT !.phase = "gone"], n)
    /\ Idle.cell = 0 /\ [Idle EXCEPT !.phase = "gone"].cell = 0 /\ Idle.phase = "new"
    /\ Idle.task = "none" /\ [Idle EXCEPT !.phase = "gone"].phase = "gone"
<1>1. /\ NoEntry \in Entries /\ NoEntry.id = 0 /\ NoEntry.cell = 0
      /\ NoKey \in Keys /\ NoKey.id = 0
      /\ Fresh \in Tallies
  BY Zenon DEF NoEntry, Entries, NoKey, Keys, Fresh, Tallies
<1>2. Idle \in Streams /\ [Idle EXCEPT !.phase = "gone"] \in Streams
  BY Zenon DEF Idle, Streams
<1>3. \A n \in Nat : Settled(Idle, n) /\ Settled([Idle EXCEPT !.phase = "gone"], n)
  <2> SUFFICES ASSUME NEW n \in Nat, NEW q, q = Idle \/ q = [Idle EXCEPT !.phase = "gone"]
               PROVE  Settled(q, n)
    BY Zenon
  <2>1. /\ q.outcome = FALSE /\ q.guard = FALSE /\ q.spawned = 0 /\ q.member = 0
        /\ q.task = "none" /\ (q.phase = "new" \/ q.phase = "gone")
    BY DEF Idle
  <2>2. q.member \in 0 .. n
    BY <2>1
  <2> QED
    BY <2>1, <2>2, Zenon DEF Settled
<1>4. /\ Idle.cell = 0 /\ [Idle EXCEPT !.phase = "gone"].cell = 0 /\ Idle.phase = "new"
      /\ Idle.task = "none" /\ [Idle EXCEPT !.phase = "gone"].phase = "gone"
  BY Zenon DEF Idle
<1> QED
  BY <1>1, <1>2, <1>3, <1>4, Zenon

\* The types of the parts of the state.
LEMMA Parts ==
    ASSUME ShapeInv
    PROVE  /\ \A s \in Stream : /\ stream[s] \in Streams
                                /\ stream[s].cell \in Nat /\ stream[s].id \in Nat /\ stream[s].member \in Nat
                                /\ stream[s].charged \in Nat /\ stream[s].tokens \in Nat
                                /\ stream[s].spawned \in Nat
           /\ \A i \in 1 .. Len(object) : /\ object[i] \in Objects
                                          /\ object[i].cells \in Cell /\ object[i].token \in Nat
                                          /\ object[i].devin \in BOOLEAN
           /\ \A i \in 1 .. Len(counter) : counter[i] \in Nat
           /\ Len(counter) \in Nat /\ Len(object) \in Nat
           /\ entry.id \in Nat /\ entry.ident \in Nat /\ entry.cell \in Nat
           /\ document.id \in Nat /\ document.ident \in Nat /\ document.used \in Nat
<1>1. \A s \in Stream : /\ stream[s] \in Streams
                        /\ stream[s].cell \in Nat /\ stream[s].id \in Nat /\ stream[s].member \in Nat
                        /\ stream[s].charged \in Nat /\ stream[s].tokens \in Nat
                        /\ stream[s].spawned \in Nat
  <2>1. \A q \in Streams : /\ q.cell \in Nat /\ q.id \in Nat /\ q.member \in Nat
                           /\ q.charged \in Nat /\ q.tokens \in Nat /\ q.spawned \in Nat
    BY Zenon DEF Streams
  <2>2. \A s \in Stream : stream[s] \in Streams
    BY Zenon DEF ShapeInv
  <2> QED
    BY <2>1, <2>2, Zenon
<1>2. \A i \in 1 .. Len(object) : object[i] \in Objects
  BY DEF ShapeInv
<1>3. \A o \in Objects : o.cells \in Cell /\ o.token \in Nat /\ o.devin \in BOOLEAN
  BY Zenon DEF Objects
<1>4. /\ \A i \in 1 .. Len(counter) : counter[i] \in Nat
      /\ Len(counter) \in Nat /\ Len(object) \in Nat
  BY DEF ShapeInv
<1>5. /\ entry.id \in Nat /\ entry.ident \in Nat /\ entry.cell \in Nat
      /\ document.id \in Nat /\ document.ident \in Nat /\ document.used \in Nat
  BY Zenon DEF ShapeInv, Entries, Keys
<1> QED
  BY <1>1, <1>2, <1>3, <1>4, <1>5, Zenon

-----------------------------------------------------------------------------
\* The tracker

\* A key that exists has a counter.
LEMMA KeyCell ==
    ASSUME ShapeInv, KeyInv, entry.id # 0
    PROVE  entry.cell \in 1 .. Len(counter) /\ counter[entry.cell] \in Nat
<1>1. entry.cell \in 1 .. Len(counter)
  BY DEF KeyInv
<1> QED
  BY <1>1, Parts, Zenon

\* reconcile follows the document: a key that stays keeps its counter, which only
\* grows; any other gets a counter nobody has.
LEMMA Reconciles ==
    ASSUME ShapeInv, KeyInv, NEW key \in Keys, Reconcile(key)
    PROVE  /\ entry' \in Entries /\ counter' \in Seq(Nat) /\ Len(counter') >= Len(counter)
           /\ entry'.id = key.id /\ entry'.cell \in 0 .. Len(counter')
           /\ entry'.id # 0 => entry'.cell # 0
           /\ key.id # 0 /\ entry.id = key.id
                => /\ entry'.cell = entry.cell
                   /\ counter'[entry'.cell] = Max({counter[entry.cell], key.used})
           /\ key.id # 0 /\ entry.id # key.id
                => entry'.cell = Len(counter) + 1 /\ counter'[entry'.cell] = key.used
<1>1. key.id \in Nat /\ key.ident \in Nat /\ key.used \in Nat
  BY Zenon DEF Keys
<1>2. CASE key.id # 0 /\ entry.id = key.id
  <2>1. entry.cell \in 1 .. Len(counter) /\ counter[entry.cell] \in Nat
    BY <1>2, KeyCell, Zenon
  <2> DEFINE n == Max({counter[entry.cell], key.used})
  <2>2. n \in Nat
    BY <1>1, <2>1, MaxOfTwo, Zenon
  <2>3. /\ entry' = [entry EXCEPT !.ident = key.ident]
        /\ counter' = [counter EXCEPT ![entry.cell] = n]
    BY <1>2, Zenon DEF Reconcile
  <2> HIDE DEF n
  <2>4. entry' \in Entries /\ entry'.id = entry.id /\ entry'.cell = entry.cell
    BY <1>1, <2>3, Zenon DEF ShapeInv, Entries
  <2>5. counter' \in Seq(Nat) /\ Len(counter') = Len(counter) /\ counter'[entry.cell] = n
    BY <2>1, <2>2, <2>3 DEF ShapeInv
  <2> QED
    BY <1>2, <2>1, <2>4, <2>5, Parts DEF n
<1>3. CASE key.id = 0
  BY <1>3, Constants, Parts DEF Reconcile, ShapeInv
<1>4. CASE key.id # 0 /\ entry.id # key.id
  <2>1. /\ entry' = [id |-> key.id, ident |-> key.ident, cell |-> Len(counter) + 1]
        /\ counter' = Append(counter, key.used)
    BY <1>4, Zenon DEF Reconcile
  <2>2. /\ counter' \in Seq(Nat) /\ Len(counter') = Len(counter) + 1
        /\ counter'[Len(counter) + 1] = key.used
    BY <1>1, <2>1 DEF ShapeInv
  <2>3. entry' \in Entries /\ entry'.id = key.id /\ entry'.cell = Len(counter) + 1
    BY <1>1, <2>1, Parts DEF Entries
  <2> QED
    BY <1>4, <2>2, <2>3, Parts
<1> QED
  BY <1>2, <1>3, <1>4, Zenon

\* A request's hold on a counter stays right when the tracker is reconciled.
LEMMA ChargesStay ==
    ASSUME ShapeInv, KeyInv, NEW key \in Keys, Reconcile(key),
           NEW q, q.cell \in Nat, Charges(q, entry, Len(counter))
    PROVE  Charges(q, entry', Len(counter'))
<1>1. key.id \in Nat
  BY Zenon DEF Keys
<1>2. Len(counter) \in Nat /\ q.cell <= Len(counter)
  BY Parts DEF Charges
<1>3. counter' \in Seq(Nat) /\ Len(counter') >= Len(counter)
  BY Reconciles, Zenon
<1>4. q.cell \in 0 .. Len(counter')
  BY <1>2, <1>3
<1>5. ASSUME entry'.id # 0, q.cell = entry'.cell PROVE q.id = entry'.id
  <2>1. entry'.id = key.id
    BY Reconciles, Zenon
  <2>2. CASE entry.id = key.id
    BY <1>5, <2>1, <2>2, Reconciles, Zenon DEF Charges
  <2>3. CASE entry.id # key.id
    <3>1. entry'.cell = Len(counter) + 1
      BY <1>5, <2>1, <2>3, Reconciles, Zenon
    <3> QED
      BY <1>2, <1>5, <3>1
  <2> QED
    BY <2>2, <2>3, Zenon
<1> QED
  BY <1>4, <1>5, Zenon DEF Charges

\* A mutation that writes at least what the document held keeps the document, or a
\* record about to save, up to date.
LEMMA MutateSaves ==
    ASSUME ShapeInv, KeyInv, SavedInv, NEW key \in Keys, Mutate(key),
           key.id # 0 /\ entry.id = key.id => key.used >= document.used,
           \A s \in Stream : stream[s].task = "saving" /\ stream[s].id = key.id
                               => stream'[s] = stream[s] \/ key.used >= stream[s].charged
    PROVE  SavedInv' /\ lagging' \in BOOLEAN
<1>1. /\ document' = key /\ Reconcile(key) /\ lagging' = (lagging /\ Behind)
  BY Zenon DEF Mutate
<1>2. key.id \in Nat /\ key.used \in Nat
  BY Zenon DEF Keys
<1>3. lagging' \in BOOLEAN
  BY <1>1, Zenon
<1>4. ASSUME entry'.id # 0, ~lagging'
      PROVE  \/ document'.used >= counter'[entry'.cell]
             \/ \E s \in Stream : /\ stream'[s].task = "saving" /\ stream'[s].id = entry'.id
                                  /\ stream'[s].charged >= counter'[entry'.cell]
  <2>1. entry'.id = key.id /\ key.id # 0 /\ counter' \in Seq(Nat) /\ entry'.cell \in 1 .. Len(counter')
    <3>1. /\ entry'.id = key.id /\ counter' \in Seq(Nat) /\ entry'.cell \in 0 .. Len(counter')
          /\ entry'.cell # 0
      BY <1>1, <1>4, Reconciles, Zenon
    <3> QED
      BY <1>4, <3>1
  <2>2. counter'[entry'.cell] \in Nat
    BY <2>1
  <2>3. CASE ~Behind
    BY <1>1, <1>2, <1>4, <2>2, <2>3 DEF Behind
  <2>4. CASE entry.id # key.id
    <3>1. counter'[entry'.cell] = key.used
      BY <1>1, <2>1, <2>4, Reconciles, Zenon
    <3> QED
      BY <1>1, <1>2, <3>1
  <2>5. CASE ~lagging /\ entry.id = key.id
    <3>1. entry.cell \in 1 .. Len(counter) /\ counter[entry.cell] \in Nat
      BY <2>1, <2>5, KeyCell, Zenon
    <3>2. counter'[entry'.cell] \in {counter[entry.cell], key.used}
      BY <1>1, <1>2, <2>1, <2>5, <3>1, Reconciles, MaxOfTwo, Zenon
    <3>3. CASE key.used >= counter[entry.cell]
      BY <1>1, <1>2, <3>1, <3>2, <3>3
    <3>4. CASE ~(key.used >= counter[entry.cell])
      <4>1. ~(document.used >= counter[entry.cell])
        <5>1. document.used \in Nat /\ key.used >= document.used
          BY <2>1, <2>5, Parts, Zenon
        <5> QED
          BY <1>2, <3>1, <3>4, <5>1
      <4>2. PICK s \in Stream : /\ stream[s].task = "saving" /\ stream[s].id = entry.id
                                /\ stream[s].charged >= counter[entry.cell]
        BY <2>1, <2>5, <4>1, Zenon DEF SavedInv
      <4>3. ~(key.used >= stream[s].charged)
        BY <1>2, <3>1, <3>4, <4>2, Parts, SMTT(30)
      <4>4. stream'[s] = stream[s]
        BY <2>5, <4>2, <4>3, Zenon
      <4>5. counter'[entry'.cell] = counter[entry.cell] \/ document'.used >= counter'[entry'.cell]
        BY <1>1, <1>2, <3>2
      <4> QED
        BY <2>1, <2>5, <4>2, <4>4, <4>5, Zenon
    <3> QED
      BY <3>3, <3>4, Zenon
  <2>6. lagging \in BOOLEAN
    BY Zenon DEF ShapeInv
  <2> QED
    BY <1>1, <1>4, <2>3, <2>4, <2>5, <2>6, Zenon
<1> QED
  BY <1>3, <1>4, Zenon DEF SavedInv

-----------------------------------------------------------------------------
\* The steps

\* One request changes: what must be shown of it.
LEMMA OneStream ==
    ASSUME Countable, OutcomesInv, NEW s \in Stream, NEW o \in Streams,
           stream' = [stream EXCEPT ![s] = o]
    PROVE  /\ stream' \in [Stream -> Streams] /\ stream'[s] = o
           /\ \A t \in Stream : t # s => stream'[t] = stream[t]
           /\ (stream[s].phase = "open") = (o.phase = "open") => OpenStreams' = OpenStreams
           /\ stream[s].phase # "open" /\ o.phase = "open"
                => Cardinality(OpenStreams') = Cardinality(OpenStreams) + 1
           /\ stream[s].phase = "open" /\ o.phase # "open"
                => Cardinality(OpenStreams') = Cardinality(OpenStreams) - 1
<1>1. stream \in [Stream -> Streams]
  BY Zenon DEF OutcomesInv, ShapeInv
<1>2. /\ stream' \in [Stream -> Streams] /\ stream'[s] = o
      /\ \A t \in Stream : t # s => stream'[t] = stream[t]
  BY <1>1, Zenon
<1>3. IsFiniteSet(OpenStreams)
  BY FS_Subset, Zenon DEF OpenStreams, Countable
<1>4. (stream[s].phase = "open") = (o.phase = "open") => OpenStreams' = OpenStreams
  BY <1>2, Zenon DEF OpenStreams
<1>5. ASSUME stream[s].phase # "open", o.phase = "open"
      PROVE  Cardinality(OpenStreams') = Cardinality(OpenStreams) + 1
  <2>1. OpenStreams' = OpenStreams \union {s} /\ s \notin OpenStreams
    BY <1>2, <1>5, Zenon DEF OpenStreams
  <2> QED
    BY <1>3, <2>1, FS_AddElement, Zenon
<1>6. ASSUME stream[s].phase = "open", o.phase # "open"
      PROVE  Cardinality(OpenStreams') = Cardinality(OpenStreams) - 1
  <2>1. OpenStreams' = OpenStreams \ {s} /\ s \in OpenStreams
    BY <1>2, <1>6, Zenon DEF OpenStreams
  <2> QED
    BY <1>3, <2>1, FS_RemoveElement, Zenon
<1> QED
  BY <1>2, <1>4, <1>5, <1>6, Zenon

\* A step of a request that touches neither the key nor its counters.
LEMMA StreamStep ==
    ASSUME Countable, OutcomesInv, NEW s \in Stream, NEW o \in Streams,
           stream' = [stream EXCEPT ![s] = o],
           Settled(o, Len(object)), Charges(o, entry, Len(counter)),
           stream[s].task = "saving" => o.task = "saving" /\ o.id = stream[s].id /\ o.charged = stream[s].charged,
           tally' \in [Cell -> Tallies], inFlight' = Cardinality(OpenStreams'),
           UNCHANGED <<object, entry, counter, document, edits, restarts, lastId, lagging>>
    PROVE  OutcomesInv'
<1>1. /\ stream' \in [Stream -> Streams] /\ stream'[s] = o
      /\ \A t \in Stream : t # s => stream'[t] = stream[t]
  BY OneStream, Zenon
<1>2. ShapeInv'
  BY <1>1, Zenon DEF OutcomesInv, ShapeInv
<1>3. \A t \in Stream : Settled(stream'[t], Len(object')) /\ Charges(stream'[t], entry', Len(counter'))
  BY <1>1, Zenon DEF OutcomesInv
<1>4. KeyInv'
  BY Zenon DEF OutcomesInv, KeyInv
<1>5. SavedInv'
  <2>1. \A t \in Stream : stream[t].task = "saving" =>
          stream'[t].task = "saving" /\ stream'[t].id = stream[t].id /\ stream'[t].charged = stream[t].charged
    BY <1>1, Zenon
  <2> QED
    BY <2>1, Zenon DEF OutcomesInv, SavedInv
<1> QED
  BY <1>2, <1>3, <1>4, <1>5, Zenon DEF OutcomesInv

\* A request is let in, refused or given an account.
LEMMA EntersKeep ==
    ASSUME Countable, OutcomesInv, NEW s \in Stream, Authenticate(s) \/ HandleRelay(s)
    PROVE  OutcomesInv'
<1> DEFINE q == stream[s]
<1>1. /\ q \in Streams /\ Settled(q, Len(object)) /\ Charges(q, entry, Len(counter))
      /\ Len(object) \in 1 .. MaxObject /\ Len(counter) \in Nat /\ tally \in [Cell -> Tallies]
      /\ inFlight = Cardinality(OpenStreams)
      /\ entry.id \in Nat /\ entry.ident \in Nat /\ entry.cell \in Nat /\ entry.cell \in 0 .. Len(counter)
      /\ entry.id # 0 => entry.cell # 0
  BY Parts, Zenon DEF OutcomesInv, ShapeInv, KeyInv
<1>2. CASE Authenticate(s)
  <2> DEFINE o == [q EXCEPT !.phase = "authenticated", !.ident = entry.ident]
  <2>1. /\ q.phase = "new" /\ stream' = [stream EXCEPT ![s] = o]
        /\ UNCHANGED <<object, tally, inFlight, entry, counter, document, edits, restarts, lastId, lagging>>
    BY <1>2, Zenon DEF Authenticate
  <2>2. /\ o \in Streams /\ o.phase = "authenticated" /\ o.task = q.task /\ o.id = q.id /\ o.charged = q.charged
        /\ o.outcome = q.outcome /\ o.guard = q.guard /\ o.spawned = q.spawned /\ o.member = q.member
        /\ o.cell = q.cell
    BY <1>1, Zenon DEF Streams
  <2> HIDE DEF o, q
  <2>3. Settled(o, Len(object)) /\ Charges(o, entry, Len(counter))
    BY <1>1, <2>1, <2>2, Zenon DEF Settled, Charges
  <2>4. OpenStreams' = OpenStreams
    BY <2>1, <2>2, OneStream, Zenon DEF q
  <2> QED
    BY <1>1, <2>1, <2>2, <2>3, <2>4, StreamStep, Zenon DEF q
<1>3. CASE HandleRelay(s)
  <2> DEFINE found == entry.id # 0 /\ entry.ident = q.ident
             id == IF found THEN entry.id ELSE 0
             cell == IF found THEN entry.cell ELSE 0
             no == [q EXCEPT !.phase = "refused"]
             yes == [q EXCEPT !.phase = "open", !.member = Len(object), !.outcome = TRUE, !.guard = TRUE,
                              !.id = id, !.cell = cell]
  <2>1. /\ q.phase = "authenticated"
        /\ \/ stream' = [stream EXCEPT ![s] = no] /\ inFlight' = inFlight
           \/ stream' = [stream EXCEPT ![s] = yes] /\ inFlight' = inFlight + 1
        /\ UNCHANGED <<object, tally, entry, counter, document, edits, restarts, lastId, lagging>>
    BY <1>3, Zenon DEF HandleRelay
  <2>2. /\ id \in Nat /\ cell \in Nat /\ cell \in 0 .. Len(counter)
        /\ entry.id # 0 /\ cell = entry.cell => id = entry.id
        /\ cell # 0 => id # 0
    BY <1>1
  <2>3. /\ no \in Streams /\ no.phase = "refused" /\ no.task = q.task /\ no.id = q.id /\ no.charged = q.charged
        /\ no.outcome = q.outcome /\ no.guard = q.guard /\ no.spawned = q.spawned /\ no.member = q.member
        /\ no.cell = q.cell
    BY <1>1, Zenon DEF Streams
  <2> HIDE DEF id, cell
  <2>4. /\ yes \in Streams /\ yes.phase = "open" /\ yes.task = q.task /\ yes.id = id /\ yes.charged = q.charged
        /\ yes.outcome = TRUE /\ yes.guard = TRUE /\ yes.spawned = q.spawned /\ yes.member = Len(object)
        /\ yes.cell = cell
    <3>1. yes.phase = "open" /\ yes.task = q.task /\ yes.id = id /\ yes.charged = q.charged
      BY <1>1, Zenon DEF Streams
    <3>2. yes.outcome = TRUE /\ yes.guard = TRUE /\ yes.spawned = q.spawned
      BY <1>1, Zenon DEF Streams
    <3>3. yes.member = Len(object) /\ yes.cell = cell
      BY <1>1, Zenon DEF Streams
    <3>4. Len(object) \in Nat
      BY Parts, Zenon DEF OutcomesInv
    <3>5. yes \in Streams
      BY <1>1, <2>2, <3>4, Zenon DEF Streams
    <3> QED
      BY <3>1, <3>2, <3>3, <3>5, Zenon
  <2> HIDE DEF no, yes, q
  <2>5. CASE stream' = [stream EXCEPT ![s] = no] /\ inFlight' = inFlight
    <3>1. Settled(no, Len(object)) /\ Charges(no, entry, Len(counter))
      BY <1>1, <2>1, <2>3, Zenon DEF Settled, Charges
    <3>2. OpenStreams' = OpenStreams
      BY <2>1, <2>3, <2>5, OneStream, Zenon DEF q
    <3> QED
      BY <1>1, <2>1, <2>3, <2>5, <3>1, <3>2, StreamStep, Zenon DEF q
  <2>6. CASE stream' = [stream EXCEPT ![s] = yes] /\ inFlight' = inFlight + 1
    <3>1. Settled(yes, Len(object)) /\ Charges(yes, entry, Len(counter)) /\ q.task = "none"
      BY <1>1, <2>1, <2>2, <2>4 DEF Settled, Charges
    <3>2. Cardinality(OpenStreams') = Cardinality(OpenStreams) + 1
      BY <2>1, <2>4, <2>6, OneStream, Zenon DEF q
    <3> QED
      BY <1>1, <2>1, <2>4, <2>6, <3>1, <3>2, StreamStep, Zenon DEF q
  <2> QED
    BY <2>1, <2>5, <2>6, Zenon
<1> QED
  BY <1>2, <1>3, Zenon

\* finalize: the first to come takes the outcome, whoever comes later only drops.
LEMMA FinalizeKeeps ==
    ASSUME Countable, OutcomesInv, NEW s \in Stream, NEW end, NEW ending, NEW tokens \in 0 .. 1,
           stream[s].phase \in {"open", "ended"},
           Finalize(s, end, ending, tokens), ReleaseGuard(s),
           UNCHANGED <<object, entry, counter, document, edits, restarts, lastId, lagging>>
    PROVE  OutcomesInv'
<1> DEFINE q == stream[s]
<1>1. /\ q \in Streams /\ Settled(q, Len(object)) /\ Charges(q, entry, Len(counter))
      /\ inFlight = Cardinality(OpenStreams) /\ tally \in [Cell -> Tallies]
  BY Parts, Zenon DEF OutcomesInv, ShapeInv
<1>2. CASE q.phase = "open"
  <2> DEFINE m == q.member
             ok == Succeeds(object[m].devin, end, ending)
             bench == ~ok /\ object[m].devin /\ ending = "unauthenticated"
             p == IF end = "Cancelled" THEN "dropped" ELSE "ended"
             o == [q EXCEPT !.outcome = FALSE, !.guard = FALSE, !.tokens = tokens, !.phase = p,
                            !.task = "charging", !.spawned = q.spawned + 1]
             new(c) == [ok |-> tally[c].ok + (IF ok THEN 1 ELSE 0),
                        fail |-> tally[c].fail + (IF ok THEN 0 ELSE 1),
                        benched |-> tally[c].benched \/ bench]
  <2>1. q.outcome /\ q.guard /\ q.spawned = 0 /\ q.task = "none"
    BY <1>1, <1>2, Zenon DEF Settled, Streams
  <2>2. /\ tally' = [c \in Cell |-> IF c \notin Reached(m) THEN tally[c] ELSE new(c)]
        /\ stream' = [stream EXCEPT ![s] = o] /\ inFlight' = inFlight - 1
    BY <2>1, Zenon DEF Finalize, Takes, ReleaseGuard
  <2>3. tally' \in [Cell -> Tallies]
    <3>1. ASSUME NEW c \in Cell PROVE new(c) \in Tallies
      <4>1. tally[c] \in Tallies
        BY <1>1, Zenon
      <4>2. tally[c].ok + (IF ok THEN 1 ELSE 0) \in Nat /\ tally[c].fail + (IF ok THEN 0 ELSE 1) \in Nat
        BY <4>1 DEF Tallies
      <4>3. (tally[c].benched \/ bench) \in BOOLEAN
        BY Zenon
      <4> QED
        BY <4>2, <4>3, Zenon DEF Tallies
    <3> HIDE DEF new
    <3> QED
      BY <1>1, <2>2, <3>1, Zenon
  <2>4. p \in {"dropped", "ended"}
    BY Zenon
  <2> HIDE DEF p
  <2>5. o \in Streams /\ o.phase = p /\ o.task = "charging" /\ o.cell = q.cell /\ o.id = q.id
    <3>1. q.spawned + 1 \in Nat /\ tokens \in Nat
      BY <2>1
    <3>2. o \in Streams
      BY <1>1, <2>4, <3>1, Zenon DEF Streams
    <3> QED
      BY <1>1, <3>2, Zenon DEF Streams
  <2>6. o.outcome = FALSE /\ o.guard = FALSE /\ o.spawned = 1 /\ o.member = q.member
    BY <1>1, <2>1 DEF Streams
  <2> HIDE DEF o, q
  <2>7. Settled(o, Len(object)) /\ Charges(o, entry, Len(counter))
    BY <1>1, <2>4, <2>5, <2>6, Zenon DEF Settled, Charges
  <2>8. Cardinality(OpenStreams') = Cardinality(OpenStreams) - 1
    BY <1>2, <2>2, <2>4, <2>5, OneStream, Zenon DEF q
  <2> QED
    BY <1>1, <2>1, <2>2, <2>3, <2>5, <2>7, <2>8, StreamStep, Zenon DEF q
<1>3. CASE q.phase = "ended"
  <2> DEFINE o == [q EXCEPT !.phase = "dropped", !.guard = FALSE]
  <2>1. ~q.outcome /\ ~q.guard
    BY <1>1, <1>3, Zenon DEF Settled
  <2>2. inFlight \in Nat
    BY <1>1, FS_Subset, FS_CardinalityType, Zenon DEF OpenStreams, Countable
  <2>3. tally' = tally /\ stream' = [stream EXCEPT ![s] = o] /\ inFlight' = inFlight
    BY <2>1, <2>2 DEF Finalize, Takes, ReleaseGuard
  <2>4. /\ o \in Streams /\ o.phase = "dropped" /\ o.task = q.task /\ o.cell = q.cell /\ o.id = q.id
        /\ o.charged = q.charged /\ o.outcome = q.outcome /\ o.guard = FALSE /\ o.spawned = q.spawned
        /\ o.member = q.member
    BY <1>1, Zenon DEF Streams
  <2> HIDE DEF o, q
  <2>5. Settled(o, Len(object)) /\ Charges(o, entry, Len(counter))
    BY <1>1, <1>3, <2>4, Zenon DEF Settled, Charges
  <2>6. OpenStreams' = OpenStreams
    BY <1>3, <2>3, <2>4, OneStream, Zenon DEF q
  <2> QED
    BY <1>1, <2>3, <2>4, <2>5, <2>6, StreamStep, Zenon DEF q
<1> QED
  BY <1>2, <1>3, Zenon

\* record_request_outcome charges the counter the request holds.
LEMMA RecordKeeps ==
    ASSUME Countable, OutcomesInv, NEW s \in Stream, RecordRequestOutcome(s)
    PROVE  OutcomesInv'
<1> DEFINE q == stream[s]
           charged == counter[q.cell] + q.tokens
           save == document.id = q.id /\ document.used < charged
           t == IF save THEN "saving" ELSE "done"
           none == [q EXCEPT !.task = "done"]
           o == [q EXCEPT !.charged = charged, !.task = t]
<1>1. /\ q.task = "charging"
      /\ IF q.tokens = 0 \/ q.cell = 0
         THEN stream' = [stream EXCEPT ![s] = none] /\ UNCHANGED counter
         ELSE counter' = [counter EXCEPT ![q.cell] = charged] /\ stream' = [stream EXCEPT ![s] = o]
      /\ UNCHANGED <<object, tally, inFlight, entry, document, edits, restarts, lastId, lagging>>
  BY Zenon DEF RecordRequestOutcome
<1>2. /\ q \in Streams /\ Settled(q, Len(object)) /\ Charges(q, entry, Len(counter))
      /\ inFlight = Cardinality(OpenStreams) /\ tally \in [Cell -> Tallies]
      /\ ShapeInv /\ KeyInv /\ SavedInv
  BY Parts, Zenon DEF OutcomesInv, ShapeInv
<1>3. CASE q.tokens = 0 \/ q.cell = 0
  <2>1. /\ none \in Streams /\ none.phase = q.phase /\ none.task = "done" /\ none.cell = q.cell
        /\ none.id = q.id /\ none.outcome = q.outcome /\ none.guard = q.guard
        /\ none.spawned = q.spawned /\ none.member = q.member
    BY <1>2, Zenon DEF Streams
  <2> HIDE DEF none, q
  <2>2. Settled(none, Len(object)) /\ Charges(none, entry, Len(counter))
    BY <1>1, <1>2, <2>1, Zenon DEF Settled, Charges
  <2>3. OpenStreams' = OpenStreams
    BY <1>1, <1>3, <2>1, OneStream DEF q
  <2> QED
    BY <1>1, <1>2, <1>3, <2>1, <2>2, <2>3, StreamStep, Zenon DEF q
<1>4. CASE ~(q.tokens = 0 \/ q.cell = 0)
  <2>1. q.cell \in 1 .. Len(counter) /\ q.tokens \in Nat /\ Len(counter) \in Nat
    BY <1>2, <1>4, Parts DEF Charges
  <2>2. charged \in Nat
    <3>1. counter[q.cell] \in Nat
      BY <1>2, <2>1 DEF ShapeInv
    <3> QED
      BY <2>1, <3>1
  <2>3. t \in {"saving", "done"}
    BY Zenon
  <2> HIDE DEF charged, t
  <2>4. /\ o \in Streams /\ o.phase = q.phase /\ o.task = t /\ o.cell = q.cell /\ o.charged = charged
        /\ o.id = q.id /\ o.outcome = q.outcome /\ o.guard = q.guard
        /\ o.spawned = q.spawned /\ o.member = q.member
    BY <1>2, <2>2, <2>3, Zenon DEF Streams
  <2> HIDE DEF o, none, q
  <2>5. Settled(o, Len(object)) /\ Charges(o, entry, Len(counter))
    BY <1>1, <1>2, <1>4, <2>3, <2>4, Zenon DEF Settled, Charges
  <2>6. /\ OpenStreams' = OpenStreams /\ stream' \in [Stream -> Streams] /\ stream'[s] = o
        /\ \A u \in Stream : u # s => stream'[u] = stream[u]
    BY <1>1, <1>4, <2>4, OneStream, Zenon DEF q
  <2>7. /\ counter' \in Seq(Nat) /\ Len(counter') = Len(counter) /\ counter'[q.cell] = charged
        /\ \A i \in 1 .. Len(counter) : i # q.cell => counter'[i] = counter[i]
    BY <1>1, <1>2, <1>4, <2>1, <2>2 DEF ShapeInv
  <2>8. ShapeInv' /\ KeyInv'
    BY <1>1, <1>2, <2>6, <2>7, SMTT(30) DEF ShapeInv, KeyInv
  <2>9. \A u \in Stream : Settled(stream'[u], Len(object')) /\ Charges(stream'[u], entry', Len(counter'))
    BY <1>1, <2>5, <2>6, <2>7, Zenon DEF OutcomesInv
  <2>10. SavedInv'
    <3> SUFFICES ASSUME entry.id # 0, ~lagging
                 PROVE  \/ document.used >= counter'[entry.cell]
                        \/ \E u \in Stream : /\ stream'[u].task = "saving" /\ stream'[u].id = entry.id
                                             /\ stream'[u].charged >= counter'[entry.cell]
      BY <1>1, Zenon DEF SavedInv
    <3>1. CASE q.cell = entry.cell
      <4>1. q.id = document.id /\ q.id = entry.id
        BY <1>2, <3>1, Zenon DEF Charges, KeyInv
      <4>2. document.used \in Nat
        BY <1>2, Parts, Zenon
      <4>3. CASE document.used < charged
        BY <2>2, <2>4, <2>6, <2>7, <3>1, <4>1, <4>3, SMTT(30) DEF t
      <4> QED
        BY <2>2, <2>7, <3>1, <4>2, <4>3
    <3>2. CASE q.cell # entry.cell
      <4>1. counter'[entry.cell] = counter[entry.cell]
        BY <1>2, <2>7, <3>2, KeyCell, Zenon
      <4>2. \A u \in Stream : stream[u].task = "saving" => stream'[u] = stream[u]
        BY <1>1, <2>6, Zenon DEF q
      <4> QED
        BY <1>2, <4>1, <4>2, Zenon DEF SavedInv
    <3> QED
      BY <3>1, <3>2, Zenon
  <2> QED
    BY <1>1, <1>2, <2>6, <2>8, <2>9, <2>10, SMTT(30) DEF OutcomesInv
<1> QED
  BY <1>3, <1>4, Zenon

\* persist_scoped_usage writes the charge into the document, or fails.
LEMMA PersistKeeps ==
    ASSUME Countable, OutcomesInv, NEW s \in Stream, PersistScopedUsage(s)
    PROVE  OutcomesInv'
<1> DEFINE q == stream[s]
           o == [q EXCEPT !.task = "done"]
           spent == Max({document.used, q.charged})
           key == IF document.id = q.id THEN [document EXCEPT !.used = spent] ELSE document
<1>1. /\ q.task = "saving" /\ stream' = [stream EXCEPT ![s] = o]
      /\ Mutate(key) \/ (lagging' = TRUE /\ UNCHANGED <<entry, counter, document>>)
      /\ UNCHANGED <<object, tally, inFlight, edits, restarts, lastId>>
  BY Zenon DEF PersistScopedUsage
<1>2. /\ q \in Streams /\ Settled(q, Len(object)) /\ Charges(q, entry, Len(counter))
      /\ inFlight = Cardinality(OpenStreams) /\ ShapeInv /\ KeyInv /\ SavedInv /\ q.charged \in Nat
      /\ document \in Keys /\ document.used \in Nat /\ document.id \in Nat
  BY Parts, Zenon DEF OutcomesInv, ShapeInv
<1>3. /\ o \in Streams /\ o.phase = q.phase /\ o.task = "done" /\ o.cell = q.cell
      /\ o.id = q.id /\ o.outcome = q.outcome /\ o.guard = q.guard
      /\ o.spawned = q.spawned /\ o.member = q.member
  BY <1>2, Zenon DEF Streams
<1>4. spent \in Nat /\ spent >= document.used /\ spent >= q.charged
  BY <1>2, MaxOfTwo, Zenon
<1> HIDE DEF o, spent
<1>5. /\ key \in Keys /\ key.id = document.id /\ key.used >= document.used
      /\ document.id = q.id => key.used >= q.charged
      /\ key.id = 0 => key = NoKey
  <2>1. CASE document.id = q.id
    <3>1. document.id # 0
      BY <1>1, <1>2, <2>1, Zenon DEF Charges
    <3> QED
      BY <1>2, <1>4, <2>1, <3>1, Zenon DEF Keys
  <2>2. CASE document.id # q.id
    BY <1>2, <2>2 DEF KeyInv
  <2> QED
    BY <2>1, <2>2, Zenon
<1> HIDE DEF key, q
<1>6. /\ OpenStreams' = OpenStreams /\ stream' \in [Stream -> Streams] /\ stream'[s] = o
      /\ \A u \in Stream : u # s => stream'[u] = stream[u]
  BY <1>1, <1>3, OneStream, Zenon DEF q
<1>7. Settled(o, Len(object)) /\ Charges(o, entry, Len(counter)) /\ o.cell \in Nat
  BY <1>1, <1>2, <1>3, Parts, Zenon DEF Settled, Charges, q
<1>8. CASE Mutate(key)
  <2>1. document' = key /\ Reconcile(key)
    BY <1>8, Zenon DEF Mutate
  <2>2. ShapeInv' /\ KeyInv'
    <3>1. /\ entry' \in Entries /\ counter' \in Seq(Nat)
          /\ entry'.id = key.id /\ entry'.cell \in 0 .. Len(counter')
          /\ entry'.id # 0 => entry'.cell # 0
      BY <1>2, <1>5, <2>1, Reconciles, Zenon
    <3>2. lagging' \in BOOLEAN
      BY <1>8, Zenon DEF Mutate
    <3> QED
      BY <1>1, <1>2, <1>5, <1>6, <2>1, <3>1, <3>2, Zenon DEF ShapeInv, KeyInv
  <2>3. \A u \in Stream : Settled(stream'[u], Len(object')) /\ Charges(stream'[u], entry', Len(counter'))
    <3>1. \A u \in Stream : Charges(stream[u], entry', Len(counter'))
      BY <1>2, <1>5, <2>1, ChargesStay, Parts, SMTT(30) DEF OutcomesInv
    <3>2. Charges(o, entry', Len(counter'))
      BY <1>2, <1>5, <1>7, <2>1, ChargesStay, Zenon
    <3> QED
      BY <1>1, <1>6, <1>7, <3>1, <3>2, Zenon DEF OutcomesInv
  <2>4. SavedInv'
    <3>1. \A u \in Stream : stream[u].task = "saving" /\ stream[u].id = key.id
                               => stream'[u] = stream[u] \/ key.used >= stream[u].charged
      BY <1>5, <1>6, Zenon DEF q
    <3> QED
      BY <1>2, <1>5, <1>8, <3>1, MutateSaves, Zenon
  <2> QED
    BY <1>1, <1>2, <1>6, <2>2, <2>3, <2>4, Zenon DEF OutcomesInv
<1>9. CASE lagging' = TRUE /\ UNCHANGED <<entry, counter, document>>
  <2>1. ShapeInv' /\ KeyInv'
    BY <1>1, <1>2, <1>6, <1>9, Zenon DEF ShapeInv, KeyInv
  <2>2. SavedInv'
    BY <1>9, Zenon DEF SavedInv
  <2>3. \A u \in Stream : Settled(stream'[u], Len(object')) /\ Charges(stream'[u], entry', Len(counter'))
    BY <1>1, <1>6, <1>7, <1>9, Zenon DEF OutcomesInv
  <2> QED
    BY <1>1, <1>2, <1>6, <2>1, <2>2, <2>3, Zenon DEF OutcomesInv
<1> QED
  BY <1>1, <1>8, <1>9, Zenon

\* An edit of the document by the console.
LEMMA EditedKeeps ==
    ASSUME OutcomesInv, NEW key \in Keys, key.id = 0 => key = NoKey,
           document' = key, Reconcile(key), lagging' \in BOOLEAN, SavedInv',
           edits' \in Nat, lastId' \in Nat, UNCHANGED <<stream, object, tally, inFlight, restarts>>
    PROVE  OutcomesInv'
<1>1. ShapeInv /\ KeyInv
  BY Zenon DEF OutcomesInv
<1>2. /\ entry' \in Entries /\ counter' \in Seq(Nat)
      /\ entry'.id = key.id /\ entry'.cell \in 0 .. Len(counter')
      /\ entry'.id # 0 => entry'.cell # 0
  BY <1>1, Reconciles, Zenon
<1>3. ShapeInv' /\ KeyInv'
  BY <1>1, <1>2, Zenon DEF ShapeInv, KeyInv
<1>4. \A u \in Stream : Settled(stream'[u], Len(object')) /\ Charges(stream'[u], entry', Len(counter'))
  <2>1. \A u \in Stream : Charges(stream[u], entry', Len(counter'))
    BY <1>1, ChargesStay, Parts, Zenon DEF OutcomesInv
  <2> QED
    BY <2>1, Zenon DEF OutcomesInv
<1>5. OpenStreams' = OpenStreams
  BY Zenon DEF OpenStreams
<1> QED
  BY <1>3, <1>4, <1>5, Zenon DEF OutcomesInv

\* The console's edits of a key keep what has been counted.
LEMMA EditsKeep ==
    ASSUME OutcomesInv, CreateScopedKey \/ PatchScopedKey \/ DeleteScopedKey \/ ReplaceDocument
    PROVE  OutcomesInv'
<1>1. /\ ShapeInv /\ KeyInv /\ SavedInv /\ document \in Keys /\ lastId \in Nat
      /\ edits' \in Nat /\ UNCHANGED <<stream, object, tally, inFlight, restarts>>
  BY DEF OutcomesInv, ShapeInv, CreateScopedKey, PatchScopedKey, DeleteScopedKey, ReplaceDocument, Edit
<1>2. document.id \in Nat /\ document.ident \in Nat /\ document.used \in Nat /\ entry.id = document.id
  BY <1>1, Parts, Zenon DEF KeyInv
<1>3. CASE CreateScopedKey
  <2> DEFINE key == [id |-> lastId + 1, ident |-> 2 * lastId + 1, used |-> 0]
  <2>1. document = NoKey /\ lastId' = lastId + 1 /\ Mutate(key)
    BY <1>3, Zenon DEF CreateScopedKey
  <2>2. key \in Keys /\ key.id # entry.id /\ key.id # 0
    BY <1>1, <1>2, <2>1, Constants DEF Keys
  <2> HIDE DEF key
  <2>3. SavedInv' /\ lagging' \in BOOLEAN
    BY <1>1, <2>1, <2>2, MutateSaves, Zenon
  <2> QED
    BY <1>1, <2>1, <2>2, <2>3, EditedKeeps DEF Mutate
<1>4. CASE PatchScopedKey
  <2> DEFINE used == IF entry.ident = document.ident
                     THEN Max({document.used, counter[entry.cell]}) ELSE document.used
             key(ident) == [document EXCEPT !.ident = ident, !.used = used]
  <2>1. PICK ident \in {document.ident, 2 * document.id} : Mutate(key(ident))
    BY <1>4, Zenon DEF PatchScopedKey
  <2>2. document.id # 0 /\ lastId' = lastId
    BY <1>1, <1>4, Zenon DEF PatchScopedKey, KeyInv
  <2>3. used \in Nat /\ used >= document.used
    BY <1>1, <1>2, <2>2, KeyCell, MaxOfTwo, SMTT(30)
  <2>4. ident \in Nat
    BY <1>2
  <2> HIDE DEF used
  <2>5. key(ident) \in Keys /\ key(ident).id = document.id /\ key(ident).used >= document.used
    BY <1>1, <2>3, <2>4, Zenon DEF Keys
  <2> HIDE DEF key
  <2>6. SavedInv' /\ lagging' \in BOOLEAN
    BY <1>1, <2>1, <2>5, MutateSaves, Zenon
  <2> QED
    BY <1>1, <2>1, <2>2, <2>5, <2>6, EditedKeeps, Zenon DEF Mutate
<1>5. CASE DeleteScopedKey
  <2>1. Mutate(NoKey) /\ lastId' = lastId /\ NoKey \in Keys /\ NoKey.id = 0
    BY <1>5, Constants, Zenon DEF DeleteScopedKey
  <2>2. SavedInv' /\ lagging' \in BOOLEAN
    BY <1>1, <2>1, MutateSaves, Zenon
  <2> QED
    BY <1>1, <2>1, <2>2, EditedKeeps, Zenon DEF Mutate
<1>6. CASE ReplaceDocument
  <2> DEFINE key(id, used) == [id |-> id, ident |-> 2 * id - 1, used |-> used]
  <2>1. PICK id \in 1 .. lastId, used \in 0 .. 1 :
          document' = key(id, used) /\ Reconcile(key(id, used)) /\ lagging' = Behind
    BY <1>6, Zenon DEF ReplaceDocument
  <2>2. key(id, used) \in Keys /\ key(id, used).id = id /\ id # 0 /\ lastId' = lastId
    BY <1>1, <1>6 DEF Keys, ReplaceDocument
  <2> HIDE DEF key
  <2>3. lagging' \in BOOLEAN
    BY <2>1, Zenon DEF Behind
  <2>4. SavedInv'
    <3>1. /\ counter' \in Seq(Nat) /\ entry'.cell \in 0 .. Len(counter')
          /\ entry'.id # 0 => entry'.cell # 0
      BY <1>1, <2>1, <2>2, Reconciles, Zenon
    <3>2. entry'.id # 0 => counter'[entry'.cell] \in Nat
      BY <3>1
    <3>3. document'.used \in Nat
      BY <2>1, <2>2, Zenon DEF Keys
    <3>4. ASSUME entry'.id # 0, ~lagging' PROVE document'.used >= counter'[entry'.cell]
      <4>1. ~Behind
        BY <2>1, <3>4, Zenon
      <4>2. ~(document'.used < counter'[entry'.cell])
        BY <3>4, <4>1, Zenon DEF Behind
      <4> QED
        BY <3>2, <3>3, <3>4, <4>2
    <3> QED
      BY <3>4, Zenon DEF SavedInv
  <2> QED
    BY <1>1, <2>1, <2>2, <2>3, <2>4, EditedKeeps, Zenon
<1> QED
  BY <1>3, <1>4, <1>5, <1>6, Zenon

-----------------------------------------------------------------------------
\* The pool and the process

\* The account's object is replaced.
LEMMA ReplaceKeeps ==
    ASSUME Countable, OutcomesInv, ReplaceMember
    PROVE  OutcomesInv'
<1> DEFINE old == object[Len(object)]
           n == Len(object) + 1
<1>1. /\ Len(object) < MaxObject
      /\ UNCHANGED <<stream, inFlight, entry, counter, document, edits, restarts, lastId, lagging>>
  BY Zenon DEF ReplaceMember
<1>2. PICK new \in {old, [old EXCEPT !.cells = n], [old EXCEPT !.cells = n, !.token = old.token + 1]} :
        /\ object' = Append(object, new)
        /\ tally' = IF new.cells # old.cells /\ new.token = old.token
                    THEN [tally EXCEPT ![new.cells] = tally[old.cells]] ELSE tally
  BY Zenon DEF ReplaceMember
<1>3. /\ ShapeInv /\ old \in Objects /\ Len(object) \in Nat /\ Len(object) \in 1 .. MaxObject
      /\ old.cells \in Cell /\ old.token \in Nat
  BY Parts DEF OutcomesInv, ShapeInv
<1>4. n \in Cell /\ old.token + 1 \in Nat
  BY <1>1, <1>3 DEF Cell, Countable
<1> HIDE DEF old, n
<1>5. new \in Objects /\ new.cells \in Cell
  BY <1>3, <1>4, Zenon DEF Objects
<1>6. object' \in Seq(Objects) /\ Len(object') = Len(object) + 1
  BY <1>2, <1>3, <1>5 DEF ShapeInv
<1>7. tally' \in [Cell -> Tallies]
  BY <1>2, <1>3, <1>5, Zenon DEF ShapeInv
<1>8. Len(object') \in 1 .. MaxObject
  BY <1>1, <1>3, <1>6 DEF Countable
<1>9. ShapeInv' /\ KeyInv' /\ SavedInv' /\ OpenStreams' = OpenStreams
  BY <1>1, <1>6, <1>7, <1>8, Zenon DEF OutcomesInv, ShapeInv, KeyInv, SavedInv, OpenStreams
<1>10. ASSUME NEW u \in Stream
       PROVE  Settled(stream[u], Len(object')) /\ Charges(stream[u], entry, Len(counter))
  <2>1. Settled(stream[u], Len(object)) /\ Charges(stream[u], entry, Len(counter))
    BY Zenon DEF OutcomesInv
  <2>2. stream[u].member \in 0 .. Len(object')
    BY <1>3, <1>6, <2>1 DEF Settled
  <2> QED
    BY <2>1, <2>2, Zenon DEF Settled
<1> QED
  BY <1>1, <1>9, <1>10, Zenon DEF OutcomesInv

\* A restart: every request is gone or has not come yet, the counter is the saved one.
LEMMA RestartKeeps ==
    ASSUME Countable, OutcomesInv, Restart
    PROVE  OutcomesInv'
<1> DEFINE first == [token |-> 1, cells |-> 1, devin |-> object[Len(object)].devin]
           gone == [Idle EXCEPT !.phase = "gone"]
<1>1. /\ restarts' = restarts + 1 /\ object' = <<first>> /\ inFlight' = 0
      /\ stream' = [s \in Stream |-> IF stream[s].phase = "new" THEN Idle ELSE gone]
      /\ tally' = [c \in Cell |-> Fresh]
      /\ entry' = IF document.id = 0 THEN NoEntry
                  ELSE [id |-> document.id, ident |-> document.ident, cell |-> 1]
      /\ counter' = <<document.used>> /\ lagging' = FALSE /\ UNCHANGED <<document, edits, lastId>>
  BY SMTT(30) DEF Restart
<1>2. /\ document.id \in Nat /\ document.ident \in Nat /\ document.used \in Nat
      /\ object[Len(object)].devin \in BOOLEAN /\ ShapeInv /\ KeyInv
  BY Parts DEF OutcomesInv, ShapeInv
<1>3. first \in Objects
  BY <1>2 DEF Objects, Cell, Countable
<1> HIDE DEF first
<1>4. object' \in Seq(Objects) /\ Len(object') = 1 /\ counter' \in Seq(Nat) /\ Len(counter') = 1
      /\ counter'[1] = document.used
  BY <1>1, <1>2, <1>3
<1>5. /\ entry' \in Entries /\ entry'.id = document.id /\ entry'.cell \in 0 .. 1
      /\ entry'.id # 0 => entry'.cell = 1
  <2>1. CASE document.id = 0
    BY <1>1, <2>1, Constants
  <2>2. CASE document.id # 0
    BY <1>1, <1>2, <2>2 DEF Entries
  <2> QED
    BY <2>1, <2>2, Zenon
<1>6. \A s \in Stream : stream'[s] = Idle \/ stream'[s] = gone
  BY <1>1, Zenon
<1>7. stream' \in [Stream -> Streams]
  BY <1>1, Constants, Zenon
<1>8. tally' \in [Cell -> Tallies]
  BY <1>1, Constants, Zenon
<1>9. ShapeInv'
  <2>1. 1 \in 1 .. MaxObject
    BY DEF Countable
  <2>2. restarts' \in Nat /\ edits' \in Nat /\ lastId' \in Nat /\ document' \in Keys
    BY <1>1, <1>2 DEF ShapeInv
  <2>3. lagging' \in BOOLEAN
    BY <1>1, Zenon
  <2> QED
    BY <1>4, <1>5, <1>7, <1>8, <2>1, <2>2, <2>3, Zenon DEF ShapeInv
<1>10. KeyInv' /\ SavedInv'
  BY <1>1, <1>2, <1>4, <1>5 DEF KeyInv, SavedInv
<1>11. \A u \in Stream : Settled(stream'[u], Len(object')) /\ Charges(stream'[u], entry', Len(counter'))
  <2>1. \A u \in Stream : /\ Settled(stream'[u], 1) /\ stream'[u].cell = 0 /\ stream'[u].task = "none"
    BY <1>6, Constants DEF Idle
  <2> QED
    BY <1>4, <1>5, <2>1 DEF Charges
<1>12. OpenStreams' = {}
  BY <1>6, Constants, Zenon DEF OpenStreams
<1> QED
  BY <1>1, <1>9, <1>10, <1>11, <1>12, FS_EmptySet, Zenon DEF OutcomesInv

-----------------------------------------------------------------------------
\* The inductive invariant

\* Nothing is counted before the first request.
LEMMA InitOutcomes == Countable /\ OutcomesInit => OutcomesInv
<1> SUFFICES ASSUME Countable, OutcomesInit PROVE OutcomesInv
  BY Zenon
<1>1. PICK d \in Devin : object = <<[token |-> 1, cells |-> 1, devin |-> d]>>
  BY Zenon DEF OutcomesInit
<1> DEFINE first == [token |-> 1, cells |-> 1, devin |-> d]
<1>2. /\ stream = [s \in Stream |-> Idle] /\ tally = [c \in Cell |-> Fresh] /\ inFlight = 0
      /\ document = [id |-> 1, ident |-> 1, used |-> 0] /\ entry = [id |-> 1, ident |-> 1, cell |-> 1]
      /\ counter = <<0>> /\ edits = 0 /\ restarts = 0 /\ lastId = 1 /\ lagging = FALSE
  BY Zenon DEF OutcomesInit
<1>3. first \in Objects
  BY DEF Objects, Cell, Countable
<1> HIDE DEF first
<1>4. object \in Seq(Objects) /\ Len(object) = 1 /\ counter \in Seq(Nat) /\ Len(counter) = 1 /\ counter[1] = 0
  BY <1>1, <1>2, <1>3 DEF first
<1>5. /\ document \in Keys /\ entry \in Entries /\ document.id = 1 /\ entry.id = 1 /\ entry.cell = 1
      /\ document.used = 0
  BY <1>2, Zenon DEF Keys, Entries
<1>6. ShapeInv
  <2>1. 1 \in 1 .. MaxObject
    BY DEF Countable
  <2>2. stream \in [Stream -> Streams] /\ tally \in [Cell -> Tallies]
    BY <1>2, Constants, Zenon
  <2>3. edits \in Nat /\ restarts \in Nat /\ lastId \in Nat
    BY <1>2, Zenon
  <2>4. lagging \in BOOLEAN
    BY <1>2, Zenon
  <2> QED
    BY <1>4, <1>5, <2>1, <2>2, <2>3, <2>4, Zenon DEF ShapeInv
<1>7. KeyInv /\ SavedInv
  BY <1>4, <1>5 DEF KeyInv, SavedInv
<1>8. \A s \in Stream : Settled(stream[s], Len(object)) /\ Charges(stream[s], entry, Len(counter))
  BY <1>2, <1>4, <1>5, Constants DEF Charges
<1>9. OpenStreams = {}
  BY <1>2, Constants, Zenon DEF OpenStreams
<1> QED
  BY <1>2, <1>6, <1>7, <1>8, <1>9, FS_EmptySet, Zenon DEF OutcomesInv

\* Every step keeps the invariant.
LEMMA StepOutcomes == Countable /\ OutcomesInv /\ [OutcomesNext]_outcomeVars => OutcomesInv'
<1> SUFFICES ASSUME Countable, OutcomesInv, [OutcomesNext]_outcomeVars PROVE OutcomesInv'
  BY Zenon
<1>1. CASE \E s \in Stream : Authenticate(s) \/ HandleRelay(s)
  BY <1>1, EntersKeep, Zenon
<1>2. CASE \E s \in Stream : PollNext(s)
  BY <1>2, FinalizeKeeps, Zenon DEF PollNext
<1>3. CASE \E s \in Stream : DropStream(s)
  BY <1>3, FinalizeKeeps, Zenon DEF DropStream
<1>4. CASE \E s \in Stream : RecordRequestOutcome(s)
  BY <1>4, RecordKeeps, Zenon
<1>5. CASE \E s \in Stream : PersistScopedUsage(s)
  BY <1>5, PersistKeeps
<1>6. CASE CreateScopedKey \/ PatchScopedKey \/ DeleteScopedKey \/ ReplaceDocument
  BY <1>6, EditsKeep, Zenon
<1>7. CASE ReplaceMember
  BY <1>7, ReplaceKeeps, Zenon
<1>8. CASE Restart
  BY <1>8, RestartKeeps, Zenon
<1>9. CASE UNCHANGED outcomeVars
  BY <1>9, Zenon DEF outcomeVars, OutcomesInv, ShapeInv, KeyInv, SavedInv, OpenStreams
<1> QED
  BY <1>1, <1>2, <1>3, <1>4, <1>5, <1>6, <1>7, <1>8, <1>9, Zenon DEF OutcomesNext

\* The invariant of streams, counters and the settings document always holds.
LEMMA AlwaysOutcomes == ASSUME Countable PROVE OutcomesSpec => []OutcomesInv
<1>1. OutcomesInit => OutcomesInv
  BY InitOutcomes, Zenon
<1>2. OutcomesInv /\ [OutcomesNext]_outcomeVars => OutcomesInv'
  BY StepOutcomes, Zenon
<1> QED
  BY <1>1, <1>2, PTL DEF OutcomesSpec

-----------------------------------------------------------------------------
\* The theorems

\* The streams, their tasks and the document of keys keep their types.
THEOREM OutcomesTypes == Countable /\ OutcomesSpec => []OutcomesTypeOK
<1> SUFFICES ASSUME Countable PROVE OutcomesSpec => []OutcomesTypeOK
  BY Zenon
<1>1. ASSUME OutcomesInv PROVE OutcomesTypeOK
  <2>1. ASSUME NEW s \in Stream
        PROVE  /\ stream[s].phase \in {"new", "authenticated", "refused", "open", "ended", "dropped", "gone"}
               /\ stream[s].task \in {"none", "charging", "saving", "done"}
               /\ stream[s].member \in 0 .. Len(object)
               /\ stream[s].cell \in 0 .. Len(counter)
    BY <1>1, Zenon DEF OutcomesInv, ShapeInv, Streams, Settled, Charges
  <2>2. inFlight \in Nat
    BY <1>1, FS_Subset, FS_CardinalityType, Zenon DEF OutcomesInv, OpenStreams, Countable
  <2> QED
    BY <1>1, <2>1, <2>2, Zenon DEF OutcomesInv, KeyInv, OutcomesTypeOK
<1> QED
  BY <1>1, AlwaysOutcomes, PTL

\* For any number of requests: each is counted once and recorded once, whether its
\* body ends, breaks, is dropped, or is dropped after its end (StreamCapture::finalize
\* and Drop for CountedStream), and the gauge of requests in flight is the number of
\* open bodies.
THEOREM StreamsCountOnce == Countable /\ OutcomesSpec => []CountedOnce
<1> SUFFICES ASSUME Countable PROVE OutcomesSpec => []CountedOnce
  OBVIOUS
<1>1. OutcomesInv => CountedOnce
  BY Zenon DEF OutcomesInv, Settled, CountedOnce, OpenStreams
<1> QED
  BY <1>1, AlwaysOutcomes, PTL

\* For any number of requests, edits and restarts: once no record is charging or
\* saving, and no write was lost, the document holds what the live counter does
\* (persist_scoped_usage).
THEOREM UsageIsSaved == Countable /\ OutcomesSpec => []DocumentCatchesUp
<1> SUFFICES ASSUME Countable PROVE OutcomesSpec => []DocumentCatchesUp
  OBVIOUS
<1>1. OutcomesInv => DocumentCatchesUp
  BY Zenon DEF OutcomesInv, SavedInv, DocumentCatchesUp
<1> QED
  BY <1>1, AlwaysOutcomes, PTL

\* finalize changes the cells of the request's own object only.
LEMMA FinalizeReaches ==
    ASSUME OutcomesInv, NEW s \in Stream, NEW end, NEW ending, NEW tokens,
           Finalize(s, end, ending, tokens), NEW c \in Cell, tally'[c] # tally[c]
    PROVE  stream[s].outcome /\ ~stream'[s].outcome /\ object[stream[s].member].cells = c
<1> DEFINE q == stream[s]
           m == q.member
<1>1. q \in Streams /\ stream \in [Stream -> Streams] /\ tally \in [Cell -> Tallies]
  BY Zenon DEF OutcomesInv, ShapeInv
<1>2. q.outcome
  BY Zenon DEF Finalize, Takes
<1>3. c \in Reached(m)
  <2>1. c \notin Reached(m) => tally'[c] = tally[c]
    BY <1>2, Zenon DEF Finalize, Takes
  <2> QED
    BY <2>1, Zenon
<1>4. object[m].cells = c
  BY <1>3, Zenon DEF Reached, Current
<1>5. ~stream'[s].outcome
  <2>1. PICK p, n : stream' = [stream EXCEPT ![s] =
                       [q EXCEPT !.outcome = FALSE, !.guard = FALSE, !.tokens = tokens,
                                 !.phase = p, !.task = "charging", !.spawned = n]]
    BY <1>2, Zenon DEF Finalize, Takes
  <2> DEFINE o == [q EXCEPT !.outcome = FALSE, !.guard = FALSE, !.tokens = tokens,
                            !.phase = p, !.task = "charging", !.spawned = n]
  <2>2. o.outcome = FALSE
    BY <1>1, Zenon DEF Streams
  <2> HIDE DEF o
  <2>3. stream'[s] = o
    BY <1>1, <2>1, Zenon DEF o
  <2> QED
    BY <2>2, <2>3, Zenon
<1> QED
  BY <1>2, <1>4, <1>5, Zenon

\* For any number of requests and objects: an outcome is counted on, and a bench
\* falls on, the cells of the login that served the request and never those of a
\* later login (StreamCapture::finalize, with the pool's object looked up again).
THEOREM LoginLeftAlone == Countable /\ OutcomesSpec => NewLoginIsLeftAlone
<1> SUFFICES ASSUME Countable PROVE OutcomesSpec => NewLoginIsLeftAlone
  BY Zenon
<1>1. ASSUME OutcomesInv, [OutcomesNext]_outcomeVars PROVE [NewLoginIsLeftAloneStep]_outcomeVars
  <2> SUFFICES ASSUME OutcomesNext, NEW c \in Cell, tally'[c] # tally[c], object' = object, restarts' = restarts
               PROVE  \E s \in Stream : /\ stream[s].outcome /\ ~stream'[s].outcome
                                        /\ object[stream[s].member].cells = c
    BY <1>1, SMTT(30) DEF NewLoginIsLeftAloneStep
  <2>1. CASE \E s \in Stream : PollNext(s) \/ DropStream(s)
    BY <1>1, <2>1, FinalizeReaches, Zenon DEF PollNext, DropStream
  <2>2. CASE ReplaceMember
    <3>1. \E new : object' = Append(object, new)
      BY <2>2, Zenon DEF ReplaceMember
    <3>2. object \in Seq(Objects)
      BY <1>1, Zenon DEF OutcomesInv, ShapeInv
    <3>3. Len(object') = Len(object) + 1 /\ Len(object) \in Nat
      BY <3>1, <3>2
    <3> QED
      BY <3>3
  <2>3. CASE Restart
    BY <1>1, <2>3 DEF Restart, OutcomesInv, ShapeInv
  <2>4. tally' # tally
    BY Zenon
  <2> QED
    BY <2>1, <2>2, <2>3, <2>4, Zenon
    DEF OutcomesNext, Authenticate, HandleRelay, RecordRequestOutcome, PersistScopedUsage,
        CreateScopedKey, PatchScopedKey, DeleteScopedKey, ReplaceDocument, Edit
<1>2. OutcomesSpec => [][NewLoginIsLeftAloneStep]_outcomeVars
  BY <1>1, AlwaysOutcomes, PTL DEF OutcomesSpec
<1> QED
  BY <1>2, Zenon DEF NewLoginIsLeftAlone

\* For any number of requests and edits: while a scoped key exists and the process
\* runs, its live count never falls (ScopedKeyTracker::reconcile keeps the counter
\* of a key that stays and takes the greater count).
THEOREM SpendingStays == Countable /\ OutcomesSpec => SpentStaysSpent
<1> SUFFICES ASSUME Countable PROVE OutcomesSpec => SpentStaysSpent
  OBVIOUS
<1>1. ASSUME OutcomesInv, [OutcomesNext]_outcomeVars PROVE [SpentStaysSpentStep]_outcomeVars
  <2> SUFFICES ASSUME OutcomesNext, entry.id # 0, entry'.id = entry.id, restarts' = restarts
               PROVE  counter'[entry'.cell] >= counter[entry.cell]
    BY <1>1, Zenon DEF SpentStaysSpentStep
  <2>1. ShapeInv /\ KeyInv
    BY <1>1, Zenon DEF OutcomesInv
  <2>2. entry.cell \in 1 .. Len(counter) /\ counter[entry.cell] \in Nat
    BY <2>1, KeyCell, Zenon
  <2>3. ASSUME NEW key \in Keys, Reconcile(key) PROVE counter'[entry'.cell] >= counter[entry.cell]
    <3>1. counter'[entry'.cell] = Max({counter[entry.cell], key.used}) /\ key.used \in Nat
      BY <2>1, <2>3, Reconciles, Zenon DEF Keys
    <3> QED
      BY <2>2, <3>1, MaxOfTwo, Zenon
  <2>4. CASE UNCHANGED <<entry, counter>>
    BY <2>2, <2>4
  <2>5. CASE \E s \in Stream : RecordRequestOutcome(s)
    <3>1. PICK s \in Stream : RecordRequestOutcome(s)
      BY <2>5, Zenon
    <3> DEFINE q == stream[s]
    <3>2. /\ entry' = entry
          /\ counter' = counter \/ counter' = [counter EXCEPT ![q.cell] = counter[q.cell] + q.tokens]
      BY <3>1, Zenon DEF RecordRequestOutcome
    <3>3. q.tokens \in Nat /\ counter \in Seq(Nat)
      BY <2>1, Parts, Zenon DEF ShapeInv
    <3> HIDE DEF q
    <3> QED
      BY <2>2, <3>2, <3>3, SMTT(30)
  <2>6. CASE \E s \in Stream : PersistScopedUsage(s)
    <3>1. PICK s \in Stream : PersistScopedUsage(s)
      BY <2>6
    <3> DEFINE spent == Max({document.used, stream[s].charged})
               key == IF document.id = stream[s].id THEN [document EXCEPT !.used = spent] ELSE document
    <3>2. Reconcile(key) \/ UNCHANGED <<entry, counter>>
      BY <3>1, Zenon DEF PersistScopedUsage, Mutate
    <3>3. spent \in Nat
      BY <2>1, Parts, MaxOfTwo, Zenon
    <3> HIDE DEF spent
    <3>4. key \in Keys
      BY <2>1, <3>3, Zenon DEF ShapeInv, Keys
    <3> HIDE DEF key
    <3> QED
      BY <2>3, <2>4, <3>2, <3>4, Zenon
  <2>7. CASE CreateScopedKey \/ PatchScopedKey \/ DeleteScopedKey \/ ReplaceDocument
    <3>1. OutcomesInv'
      BY <1>1, <2>7, EditsKeep, Zenon
    <3>2. document' \in Keys
      BY <3>1, Zenon DEF OutcomesInv, ShapeInv
    <3>3. Reconcile(document')
      BY <2>7, Zenon DEF CreateScopedKey, PatchScopedKey, DeleteScopedKey, ReplaceDocument, Mutate
    <3> QED
      BY <2>3, <3>2, <3>3, Zenon
  <2>8. CASE Restart
    BY <2>1, <2>8 DEF Restart, ShapeInv
  <2> QED
    BY <2>4, <2>5, <2>6, <2>7, <2>8, Zenon
    DEF OutcomesNext, Authenticate, HandleRelay, PollNext, DropStream, ReplaceMember
<1>2. OutcomesSpec => [][SpentStaysSpentStep]_outcomeVars
  BY <1>1, AlwaysOutcomes, PTL DEF OutcomesSpec
<1> QED
  BY <1>2 DEF SpentStaysSpent

\* However bodies end and whatever the console does meanwhile, each is counted
\* once, and the document has what the counters have unless a write was lost.
THEOREM OutcomesAreSettled == Countable /\ OutcomesSpec => []OutcomesSettleOnce
<1>1. CountedOnce /\ DocumentCatchesUp => OutcomesSettleOnce
  BY Zenon DEF OutcomesSettleOnce
<1> QED
  BY <1>1, StreamsCountOnce, UsageIsSaved, PTL

\* No step counts an outcome on a login that did not serve it, or hands spent
\* tokens back.
THEOREM OutcomesStay == Countable /\ OutcomesSpec => OutcomesStayWithTheirLogin
<1> SUFFICES ASSUME Countable PROVE OutcomesSpec => OutcomesStayWithTheirLogin
  OBVIOUS
<1>1. OutcomesSpec => [][NewLoginIsLeftAloneStep]_outcomeVars /\ [][SpentStaysSpentStep]_outcomeVars
  BY LoginLeftAlone, SpendingStays, Zenon DEF NewLoginIsLeftAlone, SpentStaysSpent
<1>2. [NewLoginIsLeftAloneStep]_outcomeVars /\ [SpentStaysSpentStep]_outcomeVars
        => [OutcomesStayWithTheirLoginStep]_outcomeVars
  BY Zenon DEF OutcomesStayWithTheirLoginStep
<1> QED
  BY <1>1, <1>2, PTL DEF OutcomesStayWithTheirLogin
=============================================================================
