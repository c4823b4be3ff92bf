--------------------------- MODULE ConfigDocument ----------------------------
(***************************************************************************)
(* The v8 configuration document (management/v8/config.rs) and the writes  *)
(* and reads of config.yaml that go through it (management/store.rs).      *)
(* Three shapes of one setting meet here: the flat v0 key the runtime      *)
(* reads, the canonical v8 path, and an older v8 alias of that path.       *)
(* normalize moves a document to the canonical paths, runtime flattens it  *)
(* again, edit changes one path of it.                                     *)
(*                                                                         *)
(* A document is a function from the paths it has to "map", "null" or a    *)
(* scalar.  Five settings stand for the tables; each has the shape of a    *)
(* group of them: debug (a flat key), the secret (a key in a v0 section),  *)
(* cooling and os (sections that two v0 keys and an alias share), mode (a  *)
(* setting no v8 table lists).  Lists of client keys move as debug does;   *)
(* the read-only revisions and the TURN credentials are left out.          *)
(***************************************************************************)
EXTENDS Naturals, Sequences
LOCAL INSTANCE SequencesExt

CONSTANTS
    MaxEdits,    \* bound: edits of one document
    MaxWrites    \* bound: writes and starts of one store

VARIABLES
    kind,      \* what is exercised: "edit" on documents, "store" with config.yaml, "keys"
    source,    \* history: the document before the latest call
    edited,    \* history: the latest edit
    root,      \* the v8 document edits are made to
    served,    \* SettingsStore.current, as its v0 document
    file,      \* config.yaml
    entry,     \* one provider key of the settings
    writes

configVars == <<kind, source, edited, root, served, file, entry, writes>>

Debug == <<"debug">>
LogsDebug == <<"observability", "logs", "debug">>
Secret == <<"remote-management", "secret-key">>
ManagementSecret == <<"management", "secret-key">>
Mode == <<"claude-route-mode">>
Upstream == <<"upstream", "claude">>
Headers == <<"upstream", "claude", "header-defaults">>
UpstreamOs == Append(Headers, "os")
UpstreamCooling == Append(Upstream, "model-level-cooling")
Alias == <<"oauth", "providers", "claude">>
AliasHeaders == Append(Alias, "header-defaults")
AliasOs == Append(AliasHeaders, "os")
AliasCooling == Append(Alias, "model-level-cooling")

LEAVES == <<<<Secret, ManagementSecret>>, <<Debug, LogsDebug>>,
            <<<<"claude", "model-level-cooling">>, UpstreamCooling>>,
            <<<<"claude-header-defaults", "os">>, UpstreamOs>>>>
PATHS == <<<<<<"remote-management">>, <<"management">>>>, <<<<"claude">>, Upstream>>, <<<<"claude-code">>, Upstream>>,
           <<<<"claude-header-defaults">>, Headers>>, <<Debug, LogsDebug>>>>
AliasLeaves == <<<<AliasCooling, UpstreamCooling>>, <<AliasOs, UpstreamOs>>>>
AliasContainers == <<<<AliasHeaders, Headers>>, <<Alias, Upstream>>>>

(* Paths in a document *)
Leaf(v) == [p \in {<<>>} |-> v]
Empty == Leaf("map")
Bad == [p \in {} |-> "map"]
IsBad(d) == DOMAIN d = {}
Has(d, p) == p \in DOMAIN d
Is(d, p, v) == p \in DOMAIN d /\ d[p] = v
Below(d, p) == {q \in DOMAIN d : IsPrefix(p, q)}
IsEmptyMap(d, p) == Is(d, p, "map") /\ Below(d, p) = {p}
Node(d, p) == [q \in {SubSeq(r, Len(p) + 1, Len(r)) : r \in Below(d, p)} |-> d[p \o q]]
Above(p) == {SubSeq(p, 1, n) : n \in 1 .. (Len(p) - 1)}

Only(d, S) == [q \in S |-> d[q]]

set(d, p, v) ==
    IF IsBad(d) \/ \E a \in Above(p) : Has(d, a) /\ d[a] # "map" THEN Bad
    ELSE LET put == {p \o q : q \in DOMAIN v}
             keep == (DOMAIN d \ Below(d, p)) \cup Above(p) \cup {<<>>}
         IN  [q \in keep \cup put |-> IF q \in put THEN v[SubSeq(q, Len(p) + 1, Len(q))]
                                      ELSE IF Has(d, q) THEN d[q] ELSE "map"]

MutRemove(d, p) == Only(d, DOMAIN d \ Below(d, p))
\* The ancestors the removal empties go with it.
remove(d, p) ==
    IF ~Has(d, p) THEN d
    ELSE LET rest == DOMAIN d \ Below(d, p)
             bare == {a \in Above(p) : \A q \in rest : IsStrictPrefix(a, q) => q \in Above(p)}
         IN  Only(d, rest \ bare)

merge(d, p, v) ==
    LET whole == {q \in DOMAIN v : v[q] # "map" \/ ~Is(d, p \o q, "map")}
        roots == {q \in whole : ~\E r \in whole : IsStrictPrefix(r, q)}
    IN  FoldSet(LAMBDA q, doc : set(doc, p \o q, Node(v, q)), d, roots)

PutIfAbsent(d, p, v) == IF Has(d, p) THEN d ELSE set(d, p, v)
move_path(d, old, new) == IF ~Has(d, old) THEN d ELSE PutIfAbsent(remove(d, old), new, Node(d, old))

\* A canonical container that is null or empty resets what is under it.
Blocked(d, new) == \E a \in Above(new) : Is(d, a, "null") \/ IsEmptyMap(d, a)

move_leaves(d, old, new) ==
    LET ends == {q \in Below(d, old) : d[q] # "map" \/ IsEmptyMap(d, q)}
        Move(q, doc) == LET n == new \o SubSeq(q, Len(old) + 1, Len(q))
                        IN  IF Blocked(doc, n) THEN remove(doc, q) ELSE move_path(doc, q, n)
    IN  FoldSet(Move, d, ends)

normalize_aliases(d) ==
    LET Nulls(doc, old) ==
            FoldLeft(LAMBDA x, a : IF IsPrefix(old, a[1]) /\ ~Has(x, a[2]) THEN set(x, a[2], Leaf("null")) ELSE x,
                     doc, AliasLeaves)
        Emptied(n, a) == IF Is(n, a[1], "null") \/ IsEmptyMap(n, a[1]) THEN PutIfAbsent(remove(n, a[1]), a[2], Empty) ELSE n
        Container(doc, a) == Emptied(IF Is(doc, a[1], "null") THEN Nulls(doc, a[1]) ELSE doc, a)
    IN  FoldLeft(LAMBDA x, a : move_path(x, a[1], a[2]), FoldLeft(Container, d, AliasContainers), AliasLeaves)

MutNormalizeFrom(canonical) ==
    LET OneLeaf(d, l) == IF ~Has(d, l[1]) THEN d
                         ELSE IF Has(canonical, l[2]) THEN remove(d, l[1])
                         ELSE move_path(d, l[1], l[2])
        OnePath(d, l) == IF ~Has(d, l[1]) THEN d
                         ELSE IF Has(canonical, l[2]) THEN remove(d, l[1]) ELSE move_leaves(d, l[1], l[2])
    IN  FoldLeft(OnePath, FoldLeft(OneLeaf, canonical, LEAVES), PATHS)
normalizeFrom(canonical) ==
    LET OneLeaf(d, l) == IF ~Has(d, l[1]) THEN d
                         ELSE IF Has(canonical, l[2]) \/ Blocked(canonical, l[2]) THEN remove(d, l[1])
                         ELSE move_path(d, l[1], l[2])
        OnePath(d, l) == IF ~Has(d, l[1]) THEN d
                         ELSE IF Has(canonical, l[2]) THEN remove(d, l[1]) ELSE move_leaves(d, l[1], l[2])
    IN  FoldLeft(OnePath, FoldLeft(OneLeaf, canonical, LEAVES), PATHS)
Versioned(canonical) ==
    IF IsBad(canonical) THEN Bad ELSE set(normalizeFrom(canonical), <<"config-version">>, Leaf("8"))
normalize(d) == Versioned(normalize_aliases(d))

(* The typed settings, as the v0 document they serialise to *)
Defaults == [p \in {<<>>, Debug, <<"remote-management">>, Secret, <<"claude-code">>, <<"claude-header-defaults">>, Mode} |->
                CASE p = Debug -> "f" [] p = Secret -> "" [] p = Mode -> "oauth" [] OTHER -> "map"]
Sections == {"claude-code", "claude-header-defaults"}
Typed == {"debug", "remote-management", "claude-route-mode"} \cup Sections

from_value(d) ==
    LET kept == {q \in DOMAIN d : \/ q \in {<<>>, Debug, Mode, Secret}
                                  \/ q # <<>> /\ Head(q) \notin Typed
                                  \/ q # <<>> /\ Head(q) \in Sections /\ d[<<Head(q)>>] = "map"}
    IN  IF \/ Has(d, Debug) /\ d[Debug] \notin {"t", "f"}
           \/ Has(d, Secret) /\ d[Secret] \notin {"", "s", "w"}
           \/ Has(d, Mode) /\ d[Mode] \notin {"oauth", "keys"}
           \/ \E name \in Sections \cup {"remote-management"} : Has(d, <<name>>) /\ d[<<name>>] \notin {"map", "null"}
        THEN Bad
        ELSE [q \in kept \cup DOMAIN Defaults |-> IF q \in kept THEN d[q] ELSE Defaults[q]]

flatten(d) ==
    LET Default(p) == IF p = <<"claude">> THEN Leaf("null") ELSE Node(Defaults, p)
        bare == Only(d, {q \in DOMAIN d : q = <<>> \/ Head(q) \notin {"config-version", "management", "oauth", "observability"}})
        Section(f, l) == IF ~Has(d, l[2]) THEN f
                         ELSE set(f, l[1], IF Is(d, l[2], "null") THEN Default(l[1]) ELSE Node(d, l[2]))
        Cooling(f) == IF Has(d, UpstreamCooling) THEN set(f, <<"claude-code", "model-level-cooling">>, Node(d, UpstreamCooling)) ELSE f
        Header(f) == IF Has(d, Headers) THEN set(f, <<"claude-header-defaults">>, Node(d, Headers)) ELSE f
        OneLeaf(f, l) == IF ~Has(d, l[2]) THEN f
                         ELSE IF Is(d, l[2], "null") THEN remove(f, l[1]) ELSE set(f, l[1], Node(d, l[2]))
    IN  FoldLeft(OneLeaf, Header(Cooling(FoldLeft(Section, bare, PATHS))), LEAVES)

Without(d, p) == Only(d, DOMAIN d \ Below(d, p))
AsSettings(flat) ==
    LET Named(g, name) == IF IsEmptyMap(g, <<name>>) THEN Without(g, <<name>>) ELSE g
        Own(f, name) == Named(Without(f, <<name, "header-defaults">>), name)
    IN  IF IsBad(flat) THEN Bad ELSE from_value(Own(Own(Without(flat, <<"upstream">>), "claude"), "claude-code"))
runtime(d) == IF IsBad(d) THEN Bad ELSE AsSettings(flatten(d))

(* Edits of one path *)
redact(d) == remove(d, ManagementSecret)

MutPreserveManagementSecret(d, before) == d
preserve_management_secret(d, before) ==
    IF Has(d, ManagementSecret) \/ ~Has(before, ManagementSecret) THEN d
    ELSE set(d, ManagementSecret, Node(before, ManagementSecret))

Known == {LogsDebug, ManagementSecret, UpstreamOs, UpstreamCooling, <<"config-version">>}
structural(p) == \E k \in Known : IsStrictPrefix(p, k)
validate_type(p) == CASE p \in {LogsDebug, UpstreamCooling} -> {"t", "f", "null"} [] OTHER -> {"", "s", "w", "x", "y", "z", "8", "null"}
validate(d) == \A p \in DOMAIN d : \/ p \in Known /\ d[p] \in validate_type(p)
                                   \/ structural(p) /\ d[p] \in {"map", "null"} /\ (p = <<>> => d[p] = "map")

archive_unknown(d) == Only(d, {p \in DOMAIN d : \E k \in Known : IsPrefix(p, k) \/ IsPrefix(k, p)})

MutProjectAliases(d, path) == d
project_aliases(d, path) ==
    LET One(x, a) == IF /\ IsPrefix(path, a[1]) \/ IsPrefix(a[1], path)
                        /\ Has(x, a[2]) /\ (x[a[2]] = "map" => IsEmptyMap(x, a[2]))
                     THEN remove(set(x, a[1], Node(x, a[2])), a[2]) ELSE x
    IN  FoldLeft(One, d, AliasLeaves \o AliasContainers)

reject_legacy(v) == \E l \in {PATHS[i] : i \in DOMAIN PATHS} : Len(l[1]) = 1 /\ Has(v, l[1])

Changed(projected, path, mutation, update, body) ==
    CASE IsBad(projected) -> Bad
      [] mutation = "delete" -> IF path # <<>> /\ Has(projected, path) THEN remove(projected, path) ELSE Bad
      [] path = <<>> /\ (update[<<>>] # "map" \/ reject_legacy(update) \/ IsBad(body)) -> Bad
      [] mutation = "patch" /\ Has(projected, path) -> merge(projected, path, body)
      [] OTHER -> set(projected, path, body)
Tidied(changed) == IF IsBad(changed) THEN Bad ELSE normalize_aliases(changed)
Preserved(tidy, mutation, before) == IF IsBad(tidy) \/ mutation = "delete" THEN tidy ELSE preserve_management_secret(tidy, before)
Accepted(next) == IF IsBad(next) \/ ~validate(next) \/ IsBad(runtime(next)) THEN Bad ELSE next
edit(before, path, mutation, update) ==
    LET whole == path = <<>>
        changed == Changed(IF whole THEN before ELSE project_aliases(before, path), path, mutation, update,
                           IF whole THEN normalize_aliases(update) ELSE update)
    IN  Accepted(Preserved(Tidied(changed), mutation, before))

(* config.yaml *)
MutIsV8Root(d) == \E name \in {"oauth", "observability", "upstream"} : Has(d, <<name>>)
is_v8_root(d) == \E name \in {"config-version", "management", "oauth", "observability", "upstream"} : Has(d, <<name>>)
Archived(n) == IF IsBad(n) THEN Bad ELSE archive_unknown(n)
runtime_of_v8_document(d) == runtime(Archived(normalize(d)))

\* What the v8 reader refuses is read as a v0 document.
OrElse(s, d) == IF IsBad(s) THEN from_value(d) ELSE s
load(d) == IF is_v8_root(d) THEN OrElse(runtime_of_v8_document(d), d) ELSE from_value(d)

(* Provider keys: a bare string, or a mapping; base-url and the shared fields belong to the group *)
Fields == {"api-key", "base-url", "headers", "weight"}
Entries == {[bare |-> TRUE, has |-> {"api-key"}, null |-> {}]}
           \cup [bare : {FALSE}, has : {S \in SUBSET Fields : "api-key" \in S}, null : {{}, {"weight"}}]
group_keys(e) == [group |-> e.has \cap {"base-url", "headers"}, keys |-> e.has \ {"base-url", "headers"}, null |-> e.null \cap e.has]
MutCollapseBareKey(has) == [bare |-> FALSE, has |-> has, null |-> {}]
collapse_bare_key(has) == [bare |-> has = {"api-key"}, has |-> has, null |-> {}]
expand_groups(g) == collapse_bare_key(g.group \cup (g.keys \ g.null))

(* Documents an operator may have written, and bodies a client may send *)
Filled(leaves) == [q \in DOMAIN leaves \cup {<<>>} \cup UNION {Above(p) : p \in DOMAIN leaves} |->
                     IF q \in DOMAIN leaves THEN leaves[q] ELSE "map"]
Optional(p, V) == {[q \in {} |-> "map"]} \cup [{p} -> V]
And(A, B) == {[q \in DOMAIN a \cup DOMAIN b |-> IF q \in DOMAIN a THEN a[q] ELSE b[q]] : a \in A, b \in B}
Canonical == Optional(Upstream, {"null", "map"}) \cup [{Headers} -> {"null", "map"}] \cup [{UpstreamOs} -> {"null", "z"}] \cup [{UpstreamCooling} -> {"f"}]
Aliased == Optional(Alias, {"null", "map"}) \cup [{AliasHeaders} -> {"null", "map"}] \cup [{AliasOs} -> {"y"}]
Flat == {[q \in {} |-> "map"]} \cup [{<<"claude-header-defaults", "os">>} -> {"x"}] \cup [{<<"claude", "model-level-cooling">>} -> {"t"}]
Documents == {Filled(d) : d \in And(And(Flat, Aliased), Canonical)}
             \cup {Filled(d) : d \in And(And(Optional(Debug, {"t"}), Optional(LogsDebug, {"f", "null"}) \cup [{<<"observability", "logs">>} -> {"null", "map"}]),
                                          And(Optional(Secret, {"s"}), Optional(ManagementSecret, {"", "w"}) \cup [{<<"management">>} -> {"null", "map"}]))}
Bodies == {Leaf("t"), Leaf("w"), Leaf("null"), Filled([q \in {<<"os">>} |-> "w"]), Filled([q \in {ManagementSecret} |-> "w"])}
EditPaths == {LogsDebug, ManagementSecret, AliasOs, AliasHeaders, Headers, Alias, <<>>}
YamlBodies == {Filled(d) : d \in And(And(Optional(LogsDebug, {"t", "bad"}), Optional(Debug, {"t"})), And(Optional(ManagementSecret, {"w"}), Optional(AliasOs, {"y"})))}

NoEdit == [path |-> <<>>, mutation |-> "none", update |-> Empty]

ConfigInit ==
    /\ writes = 0 /\ edited = NoEdit /\ served = Defaults /\ file = Defaults
    /\ \/ kind = "edit" /\ source \in Documents /\ root = normalize(source) /\ entry \in {e \in Entries : e.bare}
       \/ kind = "store" /\ source = Empty /\ root = Empty /\ entry \in {e \in Entries : e.bare}
       \/ kind = "keys" /\ source = Empty /\ root = Empty /\ entry \in Entries

More(k) == kind = k /\ writes < (IF k = "edit" THEN MaxEdits ELSE MaxWrites) /\ writes' = writes + 1 /\ kind' = kind

Edit(path, mutation, update) ==
    /\ More("edit") /\ ~IsBad(root)
    /\ root' = edit(root, path, mutation, update) /\ ~IsBad(root')
    /\ source' = root /\ edited' = [path |-> path, mutation |-> mutation, update |-> update]
    /\ UNCHANGED <<served, file, entry>>

\* SettingsStore::mutate: one setting of the live document, the whole persisted as v0.
Mutate(path, v) ==
    /\ More("store")
    /\ served' = [served EXCEPT ![path] = v] /\ file' = served'
    /\ UNCHANGED <<source, edited, root, entry>>

Submit(next) ==
    \E flat \in {runtime(next)} :
       IF IsBad(flat) THEN UNCHANGED <<served, file>> ELSE served' = flat /\ file' = next

\* mutate_v8 with a YAML body: the submitted document replaces the settings.
PutYaml(d) ==
    /\ More("store")
    /\ Submit(Preserved(normalize(d), "put", normalize(served)))
    /\ UNCHANGED <<source, edited, root, entry>>

\* mutate_v8 with a JSON body: edit validates the whole document of the live settings.
PutJson(path, update) ==
    /\ More("store")
    /\ Submit(edit(normalize(served), path, "put", update))
    /\ UNCHANGED <<source, edited, root, entry>>

\* The operator edits config.yaml, and the process starts from it if it loads.
HandEdit(d) ==
    /\ More("store")
    /\ file' = d /\ served' = load(d) /\ ~IsBad(served')
    /\ UNCHANGED <<source, edited, root, entry>>

Restart ==
    /\ More("store") /\ served' = load(file)
    /\ UNCHANGED <<source, edited, root, file, entry>>

\* A v8 write takes the keys of the settings through their groups.
RewriteKeys ==
    /\ More("keys") /\ entry' = expand_groups(group_keys(entry))
    /\ UNCHANGED <<source, edited, root, served, file>>

ConfigNext ==
    \/ \E p \in EditPaths, v \in Bodies, m \in {"put", "patch"} : Edit(p, m, v)
    \/ \E p \in EditPaths : Edit(p, "delete", Empty)
    \/ \E v \in {"t", "f"} : Mutate(Debug, v)
    \/ \E v \in {"", "s"} : Mutate(Secret, v)
    \/ \E v \in {"oauth", "keys"} : Mutate(Mode, v)
    \/ \E d \in YamlBodies : PutYaml(d)
    \/ PutJson(LogsDebug, Leaf("t"))
    \/ \E d \in YamlBodies : HandEdit(d)
    \/ Restart
    \/ RewriteKeys

(* Properties *)
FlatOs == <<"claude-header-defaults", "os">>
FlatCooling == <<"claude-code", "model-level-cooling">>
Value(d, p) == IF Has(d, p) /\ d[p] # "null" THEN d[p] ELSE "unset"
Settings(d) == LET s == runtime(d) IN [p \in {Debug, Secret, FlatOs, FlatCooling} |-> Value(s, p)]
Canon == [p \in {Debug, Secret, FlatOs, FlatCooling} |->
            CASE p = Debug -> LogsDebug [] p = Secret -> ManagementSecret [] p = FlatOs -> UpstreamOs [] OTHER -> UpstreamCooling]
Older == [p \in {FlatOs, FlatCooling} |-> IF p = FlatOs THEN AliasOs ELSE AliasCooling]
Legacy(d, p) == Value(d, IF p = FlatCooling THEN <<"claude", "model-level-cooling">> ELSE p)
Unset(p) == CASE p = Debug -> "f" [] p = Secret -> "" [] OTHER -> "unset"
GivenByAlias(d, a) == Has(d, a) \/ \E c \in Above(a) \cap {Alias, AliasHeaders} : Is(d, c, "null")
Reset(d, a) ==
    \/ Is(d, a, "null")
    \/ IsEmptyMap(d, a) /\ (a = Upstream => Below(d, Alias) \subseteq {Alias})
    \/ ~Has(d, a) /\ \E k \in DOMAIN AliasContainers : AliasContainers[k][2] = a /\ IsEmptyMap(d, AliasContainers[k][1])
Chosen(d, p) ==
    LET found == IF Has(d, Canon[p]) THEN Value(d, Canon[p])
                 ELSE IF p \in DOMAIN Older /\ GivenByAlias(d, Older[p]) THEN Value(d, Older[p])
                 ELSE IF \E a \in Above(Canon[p]) : Reset(d, a) THEN "unset" ELSE Legacy(d, p)
    IN  IF found = "unset" THEN Unset(p) ELSE found

\* A setting a document gives in several shapes has the canonical one, then
\* the alias, then the v0 key; a canonical section that is null or empty
\* resets what is under it (normalize, runtime).
CanonicalWins ==
    kind = "edit" /\ writes = 0 /\ ~IsBad(root) => Settings(root) = [p \in DOMAIN Canon |-> Chosen(source, p)]

CanonicalPath(p) == CASE IsPrefix(Alias, p) -> Upstream \o SubSeq(p, Len(Alias) + 1, Len(p)) [] OTHER -> p
Touches(path, p) == IsPrefix(CanonicalPath(path), Canon[p]) \/ IsPrefix(Canon[p], CanonicalPath(path))

\* An accepted edit of a path, given in its canonical form or by an alias,
\* changes no setting outside that path; a scalar put there is what the
\* runtime then reads, and what is deleted is back at its default (edit,
\* project_aliases).
EditsAreLocal ==
    kind = "edit" /\ writes > 0 =>
        \A was \in {Settings(source)}, now \in {Settings(root)} :
            \A p \in DOMAIN Canon :
                /\ ~Touches(edited.path, p) => now[p] = was[p]
                /\ CanonicalPath(edited.path) = Canon[p] /\ edited.mutation # "delete" =>
                        LET v == edited.update[<<>>] IN now[p] = IF v = "null" THEN Unset(p) ELSE v
                /\ edited.mutation = "delete" /\ IsPrefix(CanonicalPath(edited.path), Canon[p]) => now[p] = Unset(p)

\* A document that has been migrated or edited is migrated already, and the
\* settings read from it give it back: every later write starts from them
\* (mutate_v8 serialises, normalizes and flattens again).
RewriteIsStable ==
    kind = "edit" /\ ~IsBad(root) =>
        /\ normalize(root) = set(root, <<"config-version">>, Leaf("8"))
        /\ \A again \in {normalize(runtime(root))} : ~IsBad(again) /\ Settings(again) = Settings(root)

\* Putting the redacted view back changes nothing (redact, preserve_management_secret).
RedactedIsUnchanged ==
    kind = "edit" /\ ~IsBad(root) /\ validate(root) => edit(root, <<>>, "put", redact(root)) = root

\* The settings the schema knows are after a restart the ones that were
\* served before it, whichever way they were written last (Settings::load).
KnownSurviveARestart ==
    kind = "store" => \A loaded \in {load(file)} : \A p \in {Debug, Secret, FlatOs} : Value(loaded, p) = Value(served, p)

\* A bare provider key stays one, and a key keeps every field that is set,
\* however often a v8 write rewrites it (group_keys, expand_groups).
KeysKeepTheirShape ==
    kind = "keys" => LET again == expand_groups(group_keys(entry)) IN again.has = entry.has \ entry.null /\ (entry.bare => again.bare)

SecretIsKeptStep == Has(file', <<"config-version">>) /\ served'[Secret] = "" => served[Secret] = ""

\* A v8 document that does not name the management secret leaves it as it is
\* (preserve_management_secret).
SecretIsKept == [][SecretIsKeptStep]_configVars

\* A config.yaml that its own reader refuses is never served: it is an error
\* and not a silent fallback (load_or).
TypoIsRefused ==
    kind = "store" /\ is_v8_root(file) => ~IsBad(runtime_of_v8_document(file))
====
