---------------------------- MODULE ImportRules ----------------------------
(***************************************************************************)
(* KIS001 (only modules are imported from modules) and KIS002 (an import   *)
(* is renamed only where it must be) on the files of PyScope: what each    *)
(* reports, what it calls fixable, and the text its fix leaves.            *)
(***************************************************************************)
EXTENDS PyScope

CONSTANTS
  Modules,   \* what can be imported, each as the sequence of its names
  Private    \* the names with a leading underscore

(* The settings and options of one call: exceptions and unresolved level   *)
(* of KIS001, the aliases KIS002's template renders, --ignore-noqa, and    *)
(* the violation a quick fix is asked for.                                 *)
NoTarget == [code |-> "none", at |-> 0, clause |-> 0]

Silent(hush, code, c) == ~c.ignoreNoqa /\ code \in hush

(* FileContext::wants_fix: KIS001 reports statements, KIS002 clauses.      *)
WantsFix(code, i, j, c) ==
  c.target \in {NoTarget, [code |-> code, at |-> i, clause |-> j]}

(* ModuleProbe::check and is_module, on an environment at rest.            *)
ModuleCheck(mod, name) ==
  IF mod \o <<name>> \in Modules THEN "Module"
  ELSE IF \E m \in Modules : m[1] = mod[1] THEN "NotModule" ELSE "Unknown"

IsModule(parent, child) == ModuleCheck(parent, child) = "Module"

(* The bodies the two rules look into.                                     *)
Walked(s) == \A b \in Range(s.in) : b.k \in DefKinds \cup {"if", "tc", "else"}

(* collect_imports: absolute `from` imports.                               *)
Imports(p) ==
  {i \in DOMAIN p : p[i].k = "from" /\ p[i].dots = "" /\ p[i].mod # <<>> /\ Walked(p[i])}

Clauses(p, I) == UNION {{<<i, j>> : j \in DOMAIN p[i].names} : i \in I}

Clause(p, x) == p[x[1]].names[x[2]]

-----------------------------------------------------------------------------
(* KIS001                                                                  *)

NewFrom(mod, name) == [Statement EXCEPT !.k = "from", !.mod = mod, !.names = <<Alias(name, "")>>]
NewImport(mod) == [Statement EXCEPT !.k = "import", !.mod = mod, !.names = <<Alias("", "")>>]

(* can_fix: import the deepest part of the path that is a module, or else  *)
(* the whole path, and reach the object through it.                        *)
CanFix(mod, name) ==
  LET splits == {n \in 1..Len(mod) - 1 : IsModule(SubSeq(mod, 1, n), mod[n + 1])}
      n == Max(splits)
  IN  IF splits = {}
      THEN [stmt |-> NewImport(mod), key |-> mod, gives |-> Append(mod, name), binds |-> mod[1]]
      ELSE [stmt |-> NewFrom(SubSeq(mod, 1, n), mod[n + 1]), key |-> SubSeq(mod, 1, n + 1),
            gives |-> <<mod[n + 1], name>>, binds |-> mod[n + 1]]

FixOf(p, x) == CanFix(p[x[1]].mod, Clause(p, x).name)

(* bound_import_targets: what each name will be bound to by the absolute   *)
(* imports once every fix is made.                                         *)
BoundImportTargets(p) ==
  {IF ModuleCheck(p[x[1]].mod, Clause(p, x).name) = "NotModule"
   THEN <<FixOf(p, x).binds, FixOf(p, x).key>>
   ELSE <<LocalName(Clause(p, x)), Append(p[x[1]].mod, Clause(p, x).name)>>
     : x \in Clauses(p, Imports(p))}

OverlapsImport(p, fix) ==
  \E t \in BoundImportTargets(p) : t[1] = fix.binds /\ t[2] # fix.key

(* The clauses check_imports goes through to the end, with the verdict.    *)
Examined(p, c, verdict) ==
  {x \in Clauses(p, {i \in Imports(p) : /\ p[i].mod \notin c.exceptions
                                        /\ ~Silent(p[i].hush, "KIS001", c)}) :
     LET a == Clause(p, x)
     IN  /\ ModuleCheck(p[x[1]].mod, a.name) = verdict
         /\ {LocalName(a), a.name} \cap AllExports(p) = {}
         /\ ~Silent(a.hush, "KIS001", c)}

Kis001Violations(p, c) ==
  {[code |-> "KIS001", at |-> x[1], clause |-> 0, nth |-> x[2],
    fixable |-> LET eff == LocalName(Clause(p, x))
                    fix == FixOf(p, x)
                IN  /\ ~ShadowedAtUses(p, eff, eff)
                    /\ ~ShadowedAtUses(p, fix.binds, eff)
                    /\ ~OverlapsImport(p, fix)] : x \in Examined(p, c, "NotModule")}
  \cup {[code |-> "KIS001", at |-> x[1], clause |-> 0, nth |-> x[2],
         fixable |-> FALSE] : x \in {y \in Examined(p, c, "Unknown") : c.unresolved}}

(* apply_fixes, phase 1: the clauses that go, by its own conditions.       *)
GoingClauses(p, c) ==
  {x \in Examined(p, c, "NotModule") :
     LET eff == LocalName(Clause(p, x))
         fix == FixOf(p, x)
     IN  /\ WantsFix("KIS001", x[1], 0, c)
         /\ ~ShadowedAtUses(p, eff, eff)
         /\ ~ShadowedAtUses(p, fix.binds, eff)
         /\ ~OverlapsImport(p, fix)}

(* The first clause of a name decides what its uses become, in every scope *)
First(X) == CHOOSE x \in X : \A y \in X : x[1] < y[1] \/ (x[1] = y[1] /\ x[2] <= y[2])

Renamed(p, X, r) ==
  LET xs == {x \in X : LocalName(Clause(p, x)) = r[1]}
  IN  IF xs = {} THEN r ELSE FixOf(p, First(xs)).gives \o Tail(r)

(* Clauses go by the name they import, not by the name they bind.          *)
GoingNames(p, X, i) == {Clause(p, x).name : x \in {y \in X : y[1] = i}}

Survivors(p, X, i) == SelectSeq(p[i].names, LAMBDA a : a.name \notin GoingNames(p, X, i))

(* Phase 1: a new import of a nested block goes where the first of the     *)
(* clauses of that block that need it was.                                 *)
NestedAt(p, X, i) ==
  {FixOf(p, x).stmt : x \in
     {y \in X : /\ y[1] = i /\ p[i].in # <<>>
                /\ \A z \in X : p[z[1]].in = p[i].in /\ FixOf(p, z).stmt = FixOf(p, y).stmt
                                  => i <= z[1]}}

(* A body whose every statement goes keeps a `pass` at the first of them.  *)
(* An import counts as gone if as many names go as it has clauses.         *)
PassLine(p, X, i) ==
  LET body == {k \in DOMAIN p : p[k].in = p[i].in}
      gone == {k \in body \cap Imports(p) :
                 Cardinality(GoingNames(p, X, k)) = Len(p[k].names)}
  IN  p[i].in # <<>> /\ gone = body /\ i = Min(gone)

(* Phase 2: a new top-level import is dropped if a line of the file starts *)
(* like it, whichever block the line is in and whatever it binds.          *)
AlreadyThere(p, key) ==
  \E s \in Range(p) :
    \/ /\ Len(key) = 2 /\ s.k = "from" /\ s.dots = "" /\ s.mod = <<key[1]>>
       /\ s.names[1].name = key[2]
       /\ Len(s.names) = 1 \/ s.names[1].as # ""
    \/ Len(key) = 1 /\ s.k = "import" /\ s.mod = key

TopLevelNew(p, X) ==
  {f \in {FixOf(p, x) : x \in {y \in X : p[y[1]].in = <<>>}} : ~AlreadyThere(p, f.key)}

PlacedIn(block, stmts) == [n \in DOMAIN stmts |-> [stmts[n] EXCEPT !.in = block]]

(* Phase 3: an import without the clauses that go; its comments go too.    *)
(* An import continued by a backslash is left alone.                       *)
RewrittenImport(p, X, i) ==
  LET new == PlacedIn(p[i].in, SetToSeq(NestedAt(p, X, i)))
      left == Survivors(p, X, i)
      bare == [n \in DOMAIN left |-> [left[n] EXCEPT !.hush = {}]]
  IN  IF GoingNames(p, X, i) = {} \/ p[i].bent THEN <<p[i]>>
      ELSE IF left # <<>> THEN <<[p[i] EXCEPT !.names = bare, !.hush = {}]>> \o new
      ELSE IF new # <<>> THEN new
      ELSE IF PassLine(p, X, i) THEN <<[Statement EXCEPT !.in = p[i].in]>>
      ELSE <<>>

(* Phase 5b: below the last import of the module that the rule may touch.  *)
AnchorLine(p, c) ==
  Max({i \in Imports(p) : /\ p[i].in = <<>> /\ p[i].mod \notin c.exceptions
                          /\ ~Silent(p[i].hush, "KIS001", c)} \cup {0})

(* Phases 3 to 6.                                                          *)
Kis001Fix(p, c) ==
  LET X == GoingClauses(p, c)
      top == {f.stmt : f \in TopLevelNew(p, X)}
      Reads(s) == [s EXCEPT !.reads = [n \in DOMAIN s.reads |-> Renamed(p, X, s.reads[n])]]
      Line(i) == [n \in DOMAIN RewrittenImport(p, X, i) |-> Reads(RewrittenImport(p, X, i)[n])]
                 \o (IF i = AnchorLine(p, c) THEN SetToSeq(top) ELSE <<>>)
  IN  IF X = {} THEN p
      ELSE FoldLeft(LAMBDA acc, i : acc \o Line(i),
                    IF AnchorLine(p, c) = 0 THEN SetToSeq(top) ELSE <<>>,
                    [i \in 1..Len(p) |-> i])

-----------------------------------------------------------------------------
(* KIS002                                                                  *)

(* collect_alias_candidates: renames that are not marked private.          *)
Candidates(p) ==
  {x \in Clauses(p, Imports(p)) :
     LET a == Clause(p, x) IN a.as \notin {"", a.name} /\ a.as \notin Private}

(* collect_import_bindings: imports of every kind, in the walked bodies.   *)
ImportBindings(p) ==
  UNION {{<<LocalName(a), <<s.dots>> \o s.mod \o <<a.name>>>> : a \in Range(s.names)}
           : s \in {t \in Range(p) : t.k = "from" /\ Walked(t)}}
  \cup {<<IF s.names[1].as = "" THEN s.mod[1] ELSE s.names[1].as, s.mod>>
           : s \in {t \in Range(p) : t.k = "import" /\ Walked(t)}}

SlotOf(p, x) == <<BucketOf(p[x[1]]), Clause(p, x).name>>

(* collect_allowed_by_convention: several modules' things of one name, or  *)
(* the alias the template renders.                                         *)
AllowedByConvention(p, c, x) ==
  \/ \E y \in Candidates(p) : SlotOf(p, y) = SlotOf(p, x) /\ p[y[1]].mod # p[x[1]].mod
  \/ <<p[x[1]].mod, Clause(p, x).name, Clause(p, x).as>> \in c.template

IsNecessary(p, c, x) ==
  LET a == Clause(p, x)
  IN  \/ AllowedByConvention(p, c, x)
      \/ a.as \in AllExports(p)
      \/ \E t \in ImportBindings(p) : t[1] = a.name
      \/ IsNameShadowed(p, a.name, BucketOf(p[x[1]]))
      \/ ShadowedAtUses(p, a.name, a.as)

IsSafeRename(p, x) ==
  LET a == Clause(p, x)
  IN  /\ ~ShadowedAtUses(p, a.as, a.as)
      /\ Cardinality({t \in ImportBindings(p) : t[1] = a.as}) <= 1

Eligible(p, c) == {x \in Candidates(p) : ~IsNecessary(p, c, x) /\ IsSafeRename(p, x)}

(* collect_fix_collisions: the first of a slot claims its name.            *)
FixCollisions(p, c) ==
  {x \in Eligible(p, c) : x # First({y \in Eligible(p, c) : SlotOf(p, y) = SlotOf(p, x)})}

(* Flagged: the clauses reported, and which of them can be fixed.          *)
Flagged(p, c) == {x \in Candidates(p) : ~IsNecessary(p, c, x)}

Renamable(p, c, x) == IsSafeRename(p, x) /\ x \notin FixCollisions(p, c)

Kis002Violations(p, c) ==
  {[code |-> "KIS002", at |-> x[1], clause |-> x[2], nth |-> x[2],
    fixable |-> Renamable(p, c, x)] :
     x \in {y \in Flagged(p, c) : ~Silent(Clause(p, y).hush, "KIS002", c)}}

(* apply_fixes: drop the alias, and rename every read of it in the file.   *)
Kis002Fix(p, c) ==
  LET X == {x \in Flagged(p, c) : /\ Renamable(p, c, x)
                                  /\ WantsFix("KIS002", x[1], x[2], c)
                                  /\ ~Silent(Clause(p, x).hush, "KIS002", c)}
      To(r) == LET xs == {x \in X : Clause(p, x).as = r[1]}
               IN  IF xs = {} THEN r ELSE <<Clause(p, First(xs)).name>> \o Tail(r)
  IN  [i \in DOMAIN p |->
         [p[i] EXCEPT
            !.reads = [n \in DOMAIN @ |-> To(@[n])],
            !.names = [j \in DOMAIN @ |-> IF <<i, j>> \in X THEN [@[j] EXCEPT !.as = ""] ELSE @[j]]]]

-----------------------------------------------------------------------------
ImportViolations(p, c) == Kis001Violations(p, c) \cup Kis002Violations(p, c)

ImportFix(code, p, c) == IF code = "KIS001" THEN Kis001Fix(p, c) ELSE Kis002Fix(p, c)

=============================================================================
