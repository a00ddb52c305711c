--------------------------- MODULE StructureRules ---------------------------
(***************************************************************************)
(* KST (src/rules/kst/): rules on the syntax tree.  A file is the sequence *)
(* of its nodes in source order, each with its depth, so that a node and   *)
(* all below it are a range of the sequence, as they are a range of the    *)
(* text, and a fix replaces ranges by nodes.                               *)
(***************************************************************************)
EXTENDS PatternRules

NoDots == <<>>

(* part: where in its parent a node stands.  target says whether a name is *)
(* bound here rather than read; plain, whether an assignment is one that   *)
(* is not augmented; rows, what an import adds to the table of names; row, *)
(* whether the statement has its lines to itself, shares one with a header *)
(* before it or with a statement after it; hush, the codes silenced there. *)
Node(at, k, part, id) ==
  [at |-> at, k |-> k, part |-> part, id |-> id, target |-> FALSE, plain |-> TRUE,
   rows |-> <<>>, row |-> "own", hush |-> {}]

ExprKinds == {"lambda", "yield", "call", "await", "name", "attribute", "const"}
ClauseKinds == {"elif", "except", "case"}
Unnamed == ClauseKinds \cup {"const", "expr", "pass"}   \* kinds no rule can ask for

Kinds == {"function", "class", "lambda", "assert", "assign", "import", "return", "raise",
          "yield", "try", "with", "for", "while", "if", "call", "await", "name", "attribute"}

IsStatement(n) == n.k \notin ExprKinds \cup ClauseKinds

(* The tree.                                                               *)
LastOf(f, n) == Max({m \in n..Len(f) : \A j \in n + 1..m : f[j].at > f[n].at})
Whole(f, n) == SubSeq(f, n, LastOf(f, n))
Above(f, n) == {m \in 1..n - 1 : n <= LastOf(f, m)}
Children(f, n, part) ==
  {m \in n + 1..LastOf(f, n) : f[m].at = f[n].at + 1 /\ f[m].part = part}
ParentOf(f, n) == Max(Above(f, n) \cup {0})

(* The written name of a chain of attributes that ends in a name.          *)
Written(f, n) ==
  LET end == Min({m \in n..Len(f) : f[m].k # "attribute"} \cup {Len(f) + 1})
  IN  IF end \in DOMAIN f /\ f[end].k = "name"
      THEN [i \in 1..end - n + 1 |-> f[end + 1 - i].id] ELSE NoDots

-----------------------------------------------------------------------------
(* resolve.rs: what a name stands for, one table for the file.             *)

Resolved(table, dotted) ==
  IF dotted # NoDots /\ dotted[1] \in DOMAIN table
  THEN table[dotted[1]] \o Tail(dotted) ELSE dotted

(* Collector::assign: what a plain assignment of one name to another says  *)
(* the name stands for, and the names it binds.                            *)
AliasOf(f, n, names, targets, values) ==
  IF /\ Cardinality(targets) = 1 /\ values # {} /\ f[n].plain
     /\ \A m \in targets : f[m].k = "name"
  THEN Resolved(names, Written(f, Min(values))) ELSE NoDots

Entered(t, ids, fits, alias) ==
  [names |-> [x \in fits |-> alias] @@ t.names,
   assigned |-> t.assigned \cup (fits \ DOMAIN t.names),
   tainted |-> t.tainted \cup (ids \ fits)]

Bind(t, ids, alias) ==
  Entered(t, ids, {x \in ids : alias # NoDots /\ (x \in DOMAIN t.names => t.names[x] = alias)}, alias)

Assigned(f, n, t) ==
  Bind(t, {f[m].id : m \in {x \in Children(f, n, "target") : f[x].k = "name"}},
       AliasOf(f, n, t.names, Children(f, n, "target"),
               {m \in Children(f, n, "value") : f[m].k \in {"name", "attribute"}}))

Collected(f) ==
  FoldLeft(LAMBDA t, n :
      IF f[n].k = "import"
      THEN [t EXCEPT !.names = FoldLeft(LAMBDA acc, r : (r[1] :> r[2]) @@ acc, @, f[n].rows)]
      ELSE IF f[n].k = "assign" THEN Assigned(f, n, t)
      ELSE t,
    [names |-> [x \in {} |-> NoDots], assigned |-> {}, tainted |-> {}],
    [n \in 1..Len(f) |-> n])

Settled(t) == Restrict(t.names, DOMAIN t.names \ (t.assigned \cap t.tainted))

TableOf(f) == Settled(Collected(f))

NodeQualname(f, n, table) ==
  IF f[n].k \notin {"name", "attribute"} THEN NoDots
  ELSE IF f[n].target THEN <<f[n].id>>
  ELSE Resolved(table, Written(f, n))

FuncOf(f, n) == Min(Children(f, n, "func"))

CalleeQualname(f, n, table) ==
  IF f[n].k # "call" THEN NoDots ELSE Resolved(table, Written(f, FuncOf(f, n)))

DecoratorQualnames(f, n, table) ==
  {IF f[m].k = "call" THEN CalleeQualname(f, m, table) ELSE Resolved(table, Written(f, m))
     : m \in Children(f, n, "deco")} \ {NoDots}

(* Node::name.                                                             *)
NameOf(f, n) ==
  IF f[n].k \in {"function", "class", "name", "attribute"} THEN f[n].id
  ELSE IF f[n].k = "call" /\ f[FuncOf(f, n)].k \in {"name", "attribute"} THEN f[FuncOf(f, n)].id
  ELSE ""

-----------------------------------------------------------------------------
(* matcher.rs.  A condition that is not written is the empty set; one that *)
(* is written as an empty list of names is {Empty}.  names: those the      *)
(* regular expression finds.                                               *)

Empty == NoDots
BadRegex == "<bad>"

AnyMatcher ==
  [kinds |-> {}, names |-> {}, quals |-> {}, callees |-> {}, decos |-> {}, inside |-> {},
   has |-> {}, no |-> {}, all |-> {}, any |-> {}, stopBy |-> {}]

(* Matcher::compile fails.                                                 *)
RECURSIVE IllFormed(_, _)
IllFormed(m, stopAllowed) ==
  \/ m.stopBy # {} /\ ~stopAllowed
  \/ ~m.kinds \subseteq Kinds
  \/ BadRegex \in m.names
  \/ Empty \in m.quals \cup m.callees \cup m.decos
  \/ \E r \in m.inside \cup m.has : \/ IllFormed(r, TRUE)
                                    \/ \E s \in r.stopBy : IllFormed(s, FALSE)
  \/ \E x \in m.no \cup m.all \cup m.any : IllFormed(x, FALSE)
  \/ [m EXCEPT !.stopBy = {}] = AnyMatcher

(* Matcher::matches, inside and has.                                       *)
RECURSIVE Matches(_, _, _, _)
Matches(m, f, n, table) ==
  LET Inside(r) ==
        \E a \in Above(f, n) :
          /\ Matches(r, f, a, table)
          /\ ~\E b \in Above(f, n), s \in r.stopBy : b > a /\ Matches(s, f, b, table)
      Has(r) ==
        \E d \in n + 1..LastOf(f, n) :
          /\ Matches(r, f, d, table)
          /\ ~\E b \in Above(f, d), s \in r.stopBy : b > n /\ Matches(s, f, b, table)
  IN  /\ m.kinds # {} => f[n].k \in m.kinds
      /\ m.names # {} => NameOf(f, n) \in m.names
      /\ m.quals # {} => NodeQualname(f, n, table) \in m.quals
      /\ m.callees # {} => CalleeQualname(f, n, table) \in m.callees
      /\ m.decos # {} => DecoratorQualnames(f, n, table) \cap m.decos # {}
      /\ \A x \in m.no : ~Matches(x, f, n, table)
      /\ \A x \in m.all : Matches(x, f, n, table)
      /\ m.any # {} => \E x \in m.any : Matches(x, f, n, table)
      /\ \A r \in m.inside : Inside(r)
      /\ \A r \in m.has : Has(r)

-----------------------------------------------------------------------------
(* Loading and compiling.                                                  *)

(* A fix: a template (a sequence of pieces), or delete; safe or not.       *)
NoFix == [replace |-> <<>>, delete |-> FALSE, safe |-> FALSE]

Lit(at, k, part, id) == [at |-> at, node |-> Node(0, k, part, id), var |-> ""]
Var(at, var, part) == [at |-> at, node |-> Node(0, "const", part, ""), var |-> var]

Placeholders == {"", "text", "name", "args", "callee", "receiver"}

(* A rule as written.  ok: it deserialises.                                *)
RawRule ==
  [id |-> "", ok |-> TRUE, kst |-> TRUE, message |-> "", match |-> AnyMatcher, globs |-> <<>>,
   level |-> Absent, fix |-> {}, tests |-> [valid |-> {}, invalid |-> {}, fixed |-> {}]]

(* Fix::compile fails: neither a template nor delete, or both.             *)
BadFix(fix) ==
  \/ (fix.replace # <<>>) = fix.delete
  \/ \E i \in DOMAIN fix.replace : fix.replace[i].var \notin Placeholders

BadGlob(raw) == \E g \in Range(raw.globs) : ~g.ok

(* compile_rules: why the i-th rule is refused.  The id is taken even by a *)
(* rule that fails further down.                                           *)
Refused(raws, i) ==
  \/ ~raws[i].kst
  \/ \E j \in 1..i - 1 : raws[j].kst /\ raws[j].id = raws[i].id
  \/ IllFormed(raws[i].match, FALSE)
  \/ \E fix \in raws[i].fix : BadFix(fix)
  \/ BadGlob(raws[i])

CompiledRule(raw, level) ==
  [id |-> raw.id, message |-> raw.message, match |-> raw.match, fix |-> raw.fix,
   tests |-> raw.tests, everywhere |-> raw.globs = <<>>,
   globs |-> {g.glob : g \in {h \in Range(raw.globs) : h.ok}}, rawGlobs |-> raw.globs,
   level |-> IF raw.level = Absent THEN level ELSE raw.level]

CompileRules(raws, level) ==
  LET good == SelectSeq([i \in DOMAIN raws |-> i], LAMBDA i : ~Refused(raws, i))
  IN  [rules |-> [n \in DOMAIN good |-> CompiledRule(raws[good[n]], level)],
       errors |-> {raws[i].id : i \in {j \in DOMAIN raws : Refused(raws, j)}}]

(* load_file: one rule that does not deserialise loses the file.           *)
LoadFile(disk, name, level) ==
  IF Readable(disk, name) THEN CompileRules(disk[name], level)
  ELSE [rules |-> <<>>, errors |-> {name}]

RulesFile == "konform_rules.toml"

(* load_rules: the first source there is, with no falling back.            *)
LoadRules(cfg, disk) ==
  LET level == DefaultLevel(cfg)
      inline == CompileRules(SelectSeq(cfg.rules, LAMBDA r : r.ok), level)
  IN  IF cfg.rules # <<>>
      THEN [inline EXCEPT !.errors = @ \cup {r.id : r \in {x \in Range(cfg.rules) : ~x.ok}}]
      ELSE IF cfg.file # Absent THEN LoadFile(disk, cfg.file, level)
      ELSE IF RulesFile \in DOMAIN disk THEN LoadFile(disk, RulesFile, level)
      ELSE [rules |-> <<>>, errors |-> {}]

-----------------------------------------------------------------------------
(* fix.rs                                                                  *)

Shifted(nodes, by, part) ==
  [i \in DOMAIN nodes |-> [nodes[i] EXCEPT !.at = @ + by, !.part = IF i = 1 THEN part ELSE @]]

(* Var::value: the nodes a placeholder stands for, if the node has them.   *)
HasValue(f, n, var) ==
  CASE var \in {"args", "callee"} -> f[n].k = "call"
    [] var = "receiver" -> \/ f[n].k = "attribute"
                           \/ f[n].k = "call" /\ f[FuncOf(f, n)].k = "attribute"
    [] var = "name" -> NameOf(f, n) # ""
    [] OTHER -> TRUE

ValueOf(f, n, piece, base) ==
  LET Put(m) == Shifted(Whole(f, m), base + piece.at - f[m].at, piece.node.part)
      args == SelectSeq([m \in DOMAIN f |-> m], LAMBDA m : m \in Children(f, n, "arg"))
  IN  CASE piece.var = "" -> <<[piece.node EXCEPT !.at = base + piece.at]>>
        [] piece.var = "text" -> Put(n)
        [] piece.var = "name" -> <<Node(base + piece.at, "name", piece.node.part, NameOf(f, n))>>
        [] piece.var = "args" -> FlattenSeq([i \in DOMAIN args |-> Put(args[i])])
        [] piece.var = "callee" -> Put(FuncOf(f, n))
        [] OTHER -> Put(IF f[n].k = "attribute" THEN n + 1 ELSE FuncOf(f, n) + 1)

(* Node::statement: the node, or the statement that is only that node.     *)
StatementOf(f, n) ==
  IF IsStatement(f[n]) THEN {n}
  ELSE {m \in {ParentOf(f, n)} \ {0} : f[m].k = "expr"}

(* is_sole_statement_in: the only one of its part of the parent.           *)
IsSole(f, n) ==
  LET up == ParentOf(f, n) IN up # 0 /\ Children(f, up, f[n].part) = {n}

Edit(from, to, nodes) == [from |-> from, to |-> to, nodes |-> nodes]

Pass(node) == Node(node.at, "pass", node.part, "")

(* A slip: nothing is left in the place of an only statement.              *)
DeleteStatementBare(f, n) ==
  CASE f[n].row = "next" -> {}
    [] f[n].row = "header" -> {}
    [] OTHER -> {Edit(n, LastOf(f, n), <<>>)}

DeleteStatement(f, n) ==
  CASE f[n].row = "next" -> {}
    [] f[n].row = "header" ->
         IF IsSole(f, n) THEN {Edit(n, LastOf(f, n), <<[Pass(f[n]) EXCEPT !.row = "header"]>>)}
         ELSE {}
    [] OTHER -> {Edit(n, LastOf(f, n), IF IsSole(f, n) THEN <<Pass(f[n])>> ELSE <<>>)}

(* Fix::edit: the edit for a match, or none.                               *)
EditOf(f, n, fix) ==
  IF fix.delete THEN UNION {DeleteStatement(f, m) : m \in StatementOf(f, n)}
  ELSE IF \E i \in DOMAIN fix.replace : ~HasValue(f, n, fix.replace[i].var) THEN {}
  ELSE LET new == FlattenSeq([i \in DOMAIN fix.replace |-> ValueOf(f, n, fix.replace[i], f[n].at)])
       IN  {Edit(n, LastOf(f, n),
                 [i \in DOMAIN new |-> IF i = 1 THEN [new[i] EXCEPT !.part = f[n].part, !.row = f[n].row]
                                       ELSE new[i]])}

(* apply_edits: outermost first; one that overlaps what is taken waits.    *)
InOrder(edits) ==
  SortSeq(edits, LAMBDA a, b : a.from < b.from \/ (a.from = b.from /\ a.to > b.to))

Taken(edits) ==
  FoldLeft(LAMBDA acc, e : IF acc = <<>> \/ e.from > Last(acc).to THEN Append(acc, e) ELSE acc,
           <<>>, InOrder(edits))

ApplyEdits(f, edits) ==
  FoldRight(LAMBDA e, acc : SubSeq(acc, 1, e.from - 1) \o e.nodes \o SubSeq(acc, e.to + 1, Len(acc)),
            Taken(edits), f)

-----------------------------------------------------------------------------
(* run_rules and hits: every active rule at every node, in source order.   *)
(* A match is reported where it stands: the name of a function or class,   *)
(* the header of a block.                                                  *)
Hits(f, n, rules) ==
  [i \in DOMAIN rules |->
     [rule |-> rules[i], at |-> n, edit |-> UNION {EditOf(f, n, x) : x \in rules[i].fix}]]

HitsOf(f, rules, c, table) ==
  FlattenSeq([n \in DOMAIN f |->
    Hits(f, n, SelectSeq(rules, LAMBDA r : /\ Matches(r.match, f, n, table)
                                           /\ Heard(f[n].hush, r.id, c)))])

RunRules(f, rules, c) == HitsOf(f, rules, c, TableOf(f))

ActiveRules(rules, place, c) == SelectSeq(rules, LAMBDA r : Active(r, place, c))

StructureViolations(rules, f, place, c) ==
  {[code |-> h.rule.id, line |-> h.at, col |-> 0, message |-> h.rule.message,
    level |-> h.rule.level, fixable |-> h.edit # {}] :
      h \in Range(RunRules(f, ActiveRules(rules, place, c), c))}

(* fix: the edits of the wanted matches; unsafe ones only when asked for.  *)
EditsOf(hits) == [i \in DOMAIN hits |-> CHOOSE e \in hits[i].edit : TRUE]

WantedEdits(rules, f, place, c) ==
  EditsOf(SelectSeq(RunRules(f, ActiveRules(rules, place, c), c),
            LAMBDA h : /\ \E x \in h.rule.fix : x.safe \/ c.unsafe
                       /\ h.rule.id \in c.fixes
                       /\ c.target \in {NoPlace, [code |-> h.rule.id, line |-> h.at, col |-> 0]}
                       /\ h.edit # {}))

StructureFix(rules, f, place, c) == ApplyEdits(f, WantedEdits(rules, f, place, c))

(* What a parser asks of every block: a statement in its body.             *)
HasBodies(f) ==
  \A n \in DOMAIN f :
    f[n].k \in {"function", "class", "if", "for", "while", "with", "try"} \cup ClauseKinds
      => Children(f, n, "body") # {}

-----------------------------------------------------------------------------
(* fix_snippet and self_tests: a rule on the snippets it carries.          *)

Quiet == [ignoreNoqa |-> FALSE]

FixPasses == 10

(* One pass, and what the passes come to: the text settles, or no longer   *)
(* parses, or they run out.                                                *)
SnippetPass(rule, f) ==
  ApplyEdits(f, EditsOf(SelectSeq(RunRules(f, <<rule>>, Quiet), LAMBDA h : h.edit # {})))

(* A slip: one pass is taken for all.                                      *)
FixSnippetOnce(rule, f) == [text |-> SnippetPass(rule, f), end |-> "settled"]

FixSnippet(rule, f) ==
  LET Then(s, next) == IF ~HasBodies(s.text) THEN [s EXCEPT !.end = "invalid"]
                       ELSE IF next = s.text THEN [s EXCEPT !.end = "settled"]
                       ELSE [s EXCEPT !.text = next]
      Step(s, n) == IF s.end = "going" THEN Then(s, SnippetPass(rule, s.text)) ELSE s
  IN  IF rule.fix = {} THEN [text |-> f, end |-> "no fix"]
      ELSE FoldLeft(Step, [text |-> f, end |-> "going"], [n \in 1..FixPasses |-> n])

(* The snippets that fail, each with what it should have given.            *)
Case(kind, f, output) == [kind |-> kind, input |-> f, output |-> output]

CasesOf(tests) ==
  {Case("valid", f, f) : f \in tests.valid} \cup {Case("invalid", f, f) : f \in tests.invalid}
    \cup {Case("fixed", t.input, t.output) : t \in tests.fixed}

FailedTests(rule) ==
  {t \in CasesOf(rule.tests) :
     IF t.kind = "fixed"
     THEN FixSnippet(rule, t.input) # [text |-> t.output, end |-> "settled"]
     ELSE \/ ~HasBodies(t.input)
          \/ (RunRules(t.input, <<rule>>, Quiet) # <<>>) = (t.kind = "valid")}

(* fingerprint: the tests are left out, they change no result.             *)
StructurePrint(rules) ==
  [n \in DOMAIN rules |-> <<rules[n].id, rules[n].message, rules[n].level, rules[n].rawGlobs,
                            rules[n].match, rules[n].fix>>]

(* konform ast: the nodes with a kind, and what conditions compare.        *)
Dumped(f, shown, table) ==
  [i \in DOMAIN shown |->
     LET n == shown[i]
     IN  [depth |-> Cardinality({m \in Above(f, n) : f[m].k \in Kinds}), at |-> n, k |-> f[n].k,
          name |-> NameOf(f, n), qual |-> NodeQualname(f, n, table),
          callee |-> CalleeQualname(f, n, table), decos |-> DecoratorQualnames(f, n, table)]]

Shown(f) == SelectSeq([n \in DOMAIN f |-> n], LAMBDA n : f[n].k \in Kinds)

Dump(f) == Dumped(f, Shown(f), TableOf(f))

=============================================================================
