------------------------------ MODULE TomlTree ------------------------------
(* Configuration documents, and the two things konform does with them        *)
(* before it reads a setting: it upgrades an outdated shape (src/migrations)  *)
(* and lays one file over another (config.rs, merge_toml).                   *)
(*                                                                           *)
(* A document maps the path of each of its nodes to what is there: a value,   *)
(* or Branch where there is a table.  What a value is (a string, a list, a    *)
(* number) matters only where the program asks for its type.                 *)
EXTENDS Naturals, Sequences, SequencesExt, FiniteSets

CONSTANT Keys   \* what an entry of a table may be called

Branch == "[table]"

Leaf(v) == [p \in {<< >>} |-> v]
EmptyTable == Leaf(Branch)

(* Every node lies in a table of the document, and so on up to its root. *)
IsDocument(t) ==
    /\ DOMAIN t \subseteq Seq(Keys)
    /\ << >> \in DOMAIN t
    /\ \A p \in DOMAIN t : \A n \in 1 .. Len(p) :
          SubSeq(p, 1, n - 1) \in DOMAIN t /\ t[SubSeq(p, 1, n - 1)] = Branch

IsTable(t) == t[<< >>] = Branch

(* A path without its first n keys; what is left of a path below another one. *)
Rest(p, n) == SubSeq(p, n + 1, Len(p))
Below(q, p) == Rest(q, Len(p))

HasPath(t, p) == p \in DOMAIN t
Under(t, p) == {q \in DOMAIN t : IsPrefix(p, q)}
AtPath(t, p) == [r \in {Below(q, p) : q \in Under(t, p)} |-> t[p \o r]]
Cut(t, p) == [q \in DOMAIN t \ Under(t, p) |-> t[q]]
Replaced(t, p, v) ==
    [q \in (DOMAIN t \ Under(t, p)) \cup {p \o r : r \in DOMAIN v} |->
        IF IsPrefix(p, q) THEN v[Below(q, p)] ELSE t[q]]
Renamed(t, old, new) ==
    IF HasPath(t, old) THEN Replaced(Cut(t, old), new, AtPath(t, old)) ELSE t

Has(t, k) == HasPath(t, <<k>>)
At(t, k) == AtPath(t, <<k>>)

(* Every node moved to where `place` puts it. *)
Relocated(t, place) ==
    [q \in {place[p] : p \in DOMAIN t} |-> t[CHOOSE p \in DOMAIN t : place[p] = q]]

-----------------------------------------------------------------------------
(* Laying one table over another. *)

Laid(over, base) ==
    [p \in DOMAIN over \cup DOMAIN base |-> IF p \in DOMAIN over THEN over[p] ELSE base[p]]

(* A slip: an inner table replaces the base's instead of merging with it. *)
ShallowMerge(base, over) ==
    Laid(over, [p \in {p \in DOMAIN base : p # << >> /\ ~Has(over, p[1])} |-> base[p]])

(* Tables merge key by key; any other value of `over` replaces the base's. *)
MergeToml(base, over) ==
    Laid(over, [p \in {p \in DOMAIN base :
                          \A q \in DOMAIN over : IsPrefix(q, p) => over[q] = Branch} |-> base[p]])

-----------------------------------------------------------------------------
(* The registered migrations, each on the konform table of one file. *)

FlatKeyRenames == [select |-> "select", ignore |-> "ignore", level |-> "level",
                   per_file_ignores |-> "per-file-ignores", noqa_aliases |-> "noqa-aliases"]
CategoryToRuleConfigName == [KIS |-> "module-only-imports", KPT |-> "user-defined-patterns"]
LintNames == Laid(FlatKeyRenames, CategoryToRuleConfigName)
RuleTableRenames == [k \in {"unnecessary-import-alias"} |-> "import-alias-policy"]

DetectLintSection(t) ==
    /\ ~Has(t, "lint")
    /\ \E k \in {"cache_dir"} \cup DOMAIN LintNames : Has(t, k)

(* A slip: the category tables are moved as they are, old key and all. *)
CategoryTableKept(t) == t

(* `KIS.unresolved_level` takes its new spelling on the way. *)
CategoryTable(t) == Renamed(t, <<"KIS", "unresolved_level">>, <<"KIS", "unresolved-level">>)

(* The flat keys and the category tables move under `lint`. *)
Moves(p) == p # << >> /\ p[1] \in DOMAIN LintNames
LintPlace(p) == IF Moves(p) THEN <<"lint", LintNames[p[1]]>> \o Rest(p, 1) ELSE p

ApplyLintSection(t) ==
    LET spelled == CategoryTable(Renamed(t, <<"cache_dir">>, <<"cache-dir">>))
        moved == Relocated(spelled, [p \in DOMAIN spelled |-> LintPlace(p)])
    IN  IF \E p \in DOMAIN spelled : Moves(p) THEN Laid([p \in {<<"lint">>} |-> Branch], moved) ELSE moved

(* A table that is already there under its new name stays, and keeps the one *)
(* of the old name where it is.                                              *)
RenamesTable(t, p) ==
    /\ Len(p) > 1 /\ p[1] = "lint" /\ p[2] \in DOMAIN RuleTableRenames
    /\ ~HasPath(t, <<"lint", RuleTableRenames[p[2]]>>)
TablePlace(t, p) ==
    IF RenamesTable(t, p) THEN <<"lint", RuleTableRenames[p[2]]>> \o Rest(p, 2) ELSE p

DetectRuleTableRename(t) == \E p \in DOMAIN t : RenamesTable(t, p)
ApplyRuleTableRename(t) == Relocated(t, [p \in DOMAIN t |-> TablePlace(t, p)])

(* The migrations run in order, each where its old shape is found. *)
RunMigrations(t) ==
    LET first == IF DetectLintSection(t) THEN ApplyLintSection(t) ELSE t
    IN  IF DetectRuleTableRename(first) THEN ApplyRuleTableRename(first) ELSE first

NeedsMigration(t) == DetectLintSection(t) \/ DetectRuleTableRename(t)

(* Users may call an entry by any name the program knows. *)
ASSUME KeysAssumption ==
    {"tool", "konform", "extend", "lint",
     "cache_dir", "cache-dir", "unresolved_level", "unresolved-level"}
        \cup DOMAIN LintNames \cup {LintNames[k] : k \in DOMAIN LintNames}
        \cup DOMAIN RuleTableRenames \cup {RuleTableRenames[k] : k \in DOMAIN RuleTableRenames}
    \subseteq Keys

-----------------------------------------------------------------------------
(* The konform table of a document, and the document with that table         *)
(* replaced.  "pyproject" keeps it in `tool.konform`; any other file in       *)
(* `konform`, or is that table itself.                                       *)

KonformPath(doc, pyproject) ==
    IF pyproject THEN <<"tool", "konform">> ELSE IF Has(doc, "konform") THEN <<"konform">> ELSE << >>

HasKonform(doc, pyproject) == HasPath(doc, KonformPath(doc, pyproject))
KonformSection(doc, pyproject) == AtPath(doc, KonformPath(doc, pyproject))

(* A document has something to migrate when its konform table has.  (The     *)
(* table may turn out not to be one; then there is nothing to do.)           *)
Outdated(doc, pyproject) ==
    /\ HasKonform(doc, pyproject)
    /\ IsTable(KonformSection(doc, pyproject))
    /\ NeedsMigration(KonformSection(doc, pyproject))

MigrateContent(doc, pyproject) ==
    Replaced(doc, KonformPath(doc, pyproject), RunMigrations(KonformSection(doc, pyproject)))

-----------------------------------------------------------------------------
(* What a konform table says, whichever shape it is written in: a set of     *)
(* settings, each the path of its current name and the value.  This is the   *)
(* reference the operators above are measured against.                       *)

Leaves(t) == {[path |-> p, val |-> t[p]] : p \in {p \in DOMAIN t : t[p] # Branch}}

(* Today's name of a setting.  A table that has `lint` is not in the flat     *)
(* shape: flat keys left in it name nothing.                                  *)
ModernTable(t, p) ==
    IF /\ Len(p) > 1 /\ p[1] = "lint" /\ p[2] \in DOMAIN RuleTableRenames
       /\ ~HasPath(t, <<"lint", RuleTableRenames[p[2]]>>)
    THEN <<"lint", RuleTableRenames[p[2]]>> \o Rest(p, 2) ELSE p
ModernFlat(p) ==
    CASE IsPrefix(<<"cache_dir">>, p) -> <<"cache-dir">> \o Rest(p, 1)
      [] IsPrefix(<<"KIS", "unresolved_level">>, p) ->
            <<"lint", "module-only-imports", "unresolved-level">> \o Rest(p, 2)
      [] ~IsPrefix(<<"KIS", "unresolved_level">>, p) /\ Moves(p) ->
            <<"lint", LintNames[p[1]]>> \o Rest(p, 1)
      [] OTHER -> p

(* In a flat table that spells a setting both ways the old spelling counts. *)
Overruled(t, p) ==
    \/ Has(t, "cache_dir") /\ IsPrefix(<<"cache-dir">>, p)
    \/ HasPath(t, <<"KIS", "unresolved_level">>) /\ IsPrefix(<<"KIS", "unresolved-level">>, p)

Says(t) ==
    IF Has(t, "lint")
    THEN {[path |-> ModernTable(t, l.path), val |-> l.val] : l \in Leaves(t)}
    ELSE {[path |-> ModernFlat(l.path), val |-> l.val] :
             l \in {l \in Leaves(t) : ~Overruled(t, l.path)}}

(* Settings in layers, the uppermost first: one hides every lower one on its  *)
(* way.                                                                      *)
Clash(p, q) == IsPrefix(p, q) \/ IsPrefix(q, p)
LastWords(layers) ==
    UNION {{s \in layers[i] : \A j \in 1 .. i - 1 : \A u \in layers[j] : ~Clash(u.path, s.path)} :
              i \in DOMAIN layers}

(* Settings tell all about a table in which no table is empty. *)
Filled(t) ==
    /\ IsTable(t)
    /\ \A p \in DOMAIN t \ {<< >>} :
          t[p] = Branch => \E q \in DOMAIN t : IsPrefix(p, q) /\ t[q] # Branch
=============================================================================
