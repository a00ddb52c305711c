------------------------------ MODULE RuleFixes ------------------------------
(***************************************************************************)
(* One file under the rules a project brings or switches on: the rules     *)
(* about imports, the user's patterns, or the user's structural rules.     *)
(* The rules' files are edited, processes come and go, the file is         *)
(* checked, afresh or from the cache of an earlier process, and fixed, one *)
(* violation at a time from an editor or all at once.  Or the file is a    *)
(* document that an editor and the language server change together.        *)
(***************************************************************************)
EXTENDS ImportRules, StructureRules, EditorText

CONSTANTS
  ImportFiles,       \* statements, under KIS001 and KIS002
  TextFiles,         \* lines, under KPT
  TreeFiles,         \* trees, under KST
  Documents,         \* texts, open in an editor
  RewrittenTexts,    \* what rules may make of a text
  Insertions,        \* what a user types
  PatternSources,    \* what the project may hold for KPT: settings and files
  StructureSources,  \* the same for KST
  Place,             \* where the file lies
  Options,           \* the options and the rule selection of the runs
  ImportOptions,     \* the same for the rules about imports
  MaxEdits,          \* bound: edits of the rules' files
  MaxFixes           \* bound: fixes of the file

VARIABLES
  topic,    \* which rules
  orig,     \* the file as it was at first
  file,     \* the file; of a document, the editor's text and the server's
  source,   \* the settings and the rules' files
  memo,     \* the compiled rules of the running process
  cache,    \* what checks have left for later processes
  shown,    \* the last check's report
  edits, fixes

vars == <<topic, orig, file, source, memo, cache, shown, edits, fixes>>

NoReport == [viols |-> {}, file |-> <<>>, rules |-> <<>>, replayed |-> FALSE, errors |-> {}]

Sources(t) ==
  CASE t = "patterns" -> PatternSources
    [] t = "structure" -> StructureSources
    [] OTHER -> {<<>>}

Init ==
  /\ \/ topic = "imports" /\ file \in ImportFiles
     \/ topic = "patterns" /\ file \in TextFiles
     \/ topic = "structure" /\ file \in TreeFiles
     \/ topic = "document" /\ \E s \in Documents : file = [editor |-> s, server |-> s]
  /\ orig = file
  /\ source \in Sources(topic)
  /\ memo = NoMemo /\ cache = {} /\ shown = NoReport
  /\ edits = 0 /\ fixes = 0

(* What the process works with: compiled when it first needs it.           *)
Loaded ==
  CASE topic = "patterns" ->
         Memo(memo, source.cfg, [rules |-> LoadPatterns(source.cfg, source.disk), errors |-> {}])
    [] topic = "structure" -> Memo(memo, source.cfg, LoadRules(source.cfg, source.disk))
    [] OTHER -> Memo(memo, <<>>, [rules |-> <<>>, errors |-> {}])

(* A fingerprint, and the violations of a file, under compiled rules.      *)
Fingerprint(rules) ==
  CASE topic = "patterns" -> PatternPrint(rules)
    [] topic = "structure" -> StructurePrint(rules)
    [] OTHER -> <<>>

Violations(f, rules, o) ==
  CASE topic = "patterns" -> PatternViolations(rules, f, Place, o)
    [] topic = "structure" -> StructureViolations(rules, f, Place, o)
    [] topic = "imports" -> ImportViolations(f, o)
    [] OTHER -> {}

OptionsOf(t) == IF t = "imports" THEN ImportOptions ELSE Options

Fixed(f, rules, o, code) ==
  CASE topic = "patterns" -> PatternFix(rules, f, Place, o)
    [] topic = "structure" -> StructureFix(rules, f, Place, o)
    [] topic = "imports" -> ImportFix(code, f, o)
    [] OTHER -> f

-----------------------------------------------------------------------------
(* The user edits the settings or a file of rules.                         *)
EditRules ==
  /\ edits < MaxEdits
  /\ source' \in Sources(topic) \ {source}
  /\ edits' = edits + 1
  /\ UNCHANGED <<topic, orig, file, memo, cache, shown, fixes>>

(* The process ends; the next one compiles its rules anew.                 *)
NewProcess ==
  /\ topic \in {"patterns", "structure"} /\ memo.filled
  /\ memo' = NoMemo
  /\ UNCHANGED <<topic, orig, file, source, cache, shown, edits, fixes>>

(* konform check: nothing is linted while a rule is refused; what the      *)
(* cache holds for this file under this fingerprint is replayed.           *)
Check ==
  LET now == Loaded.rules
      hits == {e \in cache : e.file = file /\ e.print = Fingerprint(now.rules)}
      Report(viols, replayed) ==
        [viols |-> viols, file |-> file, rules |-> now.rules, replayed |-> replayed, errors |-> {}]
  IN  /\ topic \in {"patterns", "structure"}
      /\ memo' = Loaded
      /\ \/ /\ now.errors # {}
            /\ shown' = [NoReport EXCEPT !.errors = now.errors]
            /\ UNCHANGED cache
         \/ /\ now.errors = {}
            /\ \E e \in hits : shown' = Report(e.viols, TRUE)
            /\ UNCHANGED cache
         \/ /\ now.errors = {} /\ hits = {}
            /\ \E fresh \in {Violations(file, now.rules, OptionsOf(topic))} :
                 /\ shown' = Report(fresh, FALSE)
                 /\ cache' = cache \cup
                      {[file |-> file, print |-> Fingerprint(now.rules), viols |-> fresh]}
      /\ UNCHANGED <<topic, orig, file, source, edits, fixes>>

(* The violation a quick fix is asked for, as the fix is told of it.       *)
TargetOf(v) ==
  IF topic = "imports" THEN [code |-> v.code, at |-> v.at, clause |-> v.clause]
  ELSE [code |-> v.code, line |-> v.line, col |-> v.col]

(* A quick fix: unsafe ones are offered too, and rules that were refused   *)
(* do not keep the others from running.                                    *)
QuickFixed(v) ==
  Fixed(file, Loaded.rules.rules,
        IF topic = "imports" THEN [OptionsOf(topic) EXCEPT !.target = TargetOf(v)]
        ELSE [OptionsOf(topic) EXCEPT !.target = TargetOf(v), !.unsafe = TRUE], v.code)

(* What an editor offers, and what each offer makes of the file.           *)
Offered == {v \in Violations(file, Loaded.rules.rules, OptionsOf(topic)) : v.fixable}
QuickFixes == {[viol |-> v, text |-> QuickFixed(v)] : v \in Offered}

QuickFix ==
  /\ fixes < MaxFixes
  /\ \E q \in QuickFixes : file' = q.text
  /\ memo' = Loaded
  /\ fixes' = fixes + 1
  /\ UNCHANGED <<topic, orig, source, cache, shown, edits>>

(* One pass of one rule over the whole file, as `check --fix` makes it; a  *)
(* text that no longer parses is not kept.                                 *)
FixAll ==
  /\ fixes < MaxFixes
  /\ \E code \in IF topic = "imports" THEN {"KIS001", "KIS002"} ELSE {"all"} :
       \E new \in {Fixed(file, Loaded.rules.rules, OptionsOf(topic), code)} :
         /\ new # file
         /\ topic = "structure" => HasBodies(new)
         /\ file' = new
  /\ Loaded.rules.errors = {}
  /\ memo' = Loaded
  /\ fixes' = fixes + 1
  /\ UNCHANGED <<topic, orig, source, cache, shown, edits>>

(* The user of the editor replaces a stretch of the text; the server is    *)
(* told the stretch, or the whole text.                                    *)
Type ==
  /\ topic = "document" /\ fixes < MaxFixes
  /\ \E from, to \in Gaps(file.editor), new \in Insertions :
       LET text == Spliced(file.editor, from, to, new)
           change == TextEdit(PosOfGap(file.editor, from), PosOfGap(file.editor, to), new)
       IN  /\ from <= to
           /\ \E server \in {text, Update(file.server, <<change>>)} :
                file' = [editor |-> text, server |-> server]
  /\ fixes' = fixes + 1
  /\ UNCHANGED <<topic, orig, source, memo, cache, shown, edits>>

(* The user takes what the server offers; the server learns of the change  *)
(* as of any other.                                                        *)
OfferedEdits == UNION {Offers(file.server, fixed) : fixed \in RewrittenTexts}

TakeOffer ==
  /\ topic = "document" /\ fixes < MaxFixes
  /\ \E o \in OfferedEdits :
       file' = [editor |-> Applied(file.editor, o.edits),
                server |-> Update(file.server, Told(file.editor, o.edits))]
  /\ fixes' = fixes + 1
  /\ UNCHANGED <<topic, orig, source, memo, cache, shown, edits>>

Next == EditRules \/ NewProcess \/ Check \/ QuickFix \/ FixAll \/ Type \/ TakeOffer

Spec == Init /\ [][Next]_vars

-----------------------------------------------------------------------------
(* Which files about imports the fixes are sound for.                      *)

ImportClauses(p) == UNION {{<<i, j>> : j \in DOMAIN p[i].names} : i \in DOMAIN p}

Bound(p, x) ==
  IF p[x[1]].k = "import" /\ Clause(p, x).as = "" THEN p[x[1]].mod[1] ELSE LocalName(Clause(p, x))

(* No two imports of the file bind one name.                               *)
OnePerName(p) == \A x, y \in ImportClauses(p) : Bound(p, x) = Bound(p, y) => x = y

(* A statement imports each name once.                                     *)
OncePerImport(p) ==
  \A x, y \in ImportClauses(p) :
    x[1] = y[1] /\ Clause(p, x).name = Clause(p, y).name => x = y

(* Every name read is bound by the file.                                   *)
AllBound(p) ==
  \A i \in DOMAIN p : \A r \in Range(p[i].reads) : \A d \in Denotes(p, i, r) :
    d[1] \notin {"builtin", "unbound"}

(* Patterns of a match statement capture in the module only.               *)
CapturesSeen(p) == \A s \in Range(p) : s.captures = {} \/ AtModule(s)

(* What a fix would bind no import binds, under its own name or another's. *)
Fresh(p) ==
  \A x \in Clauses(p, Imports(p)) :
    ModuleCheck(p[x[1]].mod, Clause(p, x).name) = "NotModule" =>
      \A y \in ImportClauses(p) : FixOf(p, x).binds \notin {Bound(p, y), Clause(p, y).name}

(* Clauses whose fixes make the same import stand in the same block.       *)
OneBlock(p) ==
  \A x, y \in Clauses(p, Imports(p)) :
    FixOf(p, x).stmt = FixOf(p, y).stmt => p[x[1]].in = p[y[1]].in

(* The module's imports stand before what it runs.                         *)
ImportsFirst(p) ==
  \A i, j \in {n \in DOMAIN p : p[n].in = <<>>} :
    p[i].k \in {"from", "import"} /\ p[j].reads # <<>> => i < j

(* An import is read in the scope that makes it.                           *)
Used(p) ==
  \A x \in ImportClauses(p) :
    \E s \in Range(p) : /\ ScopePath(s) = ScopePath(p[x[1]])
                        /\ \E r \in Range(s.reads) : r[1] = Bound(p, x)

Plain(p) ==
  /\ OnePerName(p) /\ OncePerImport(p) /\ AllBound(p) /\ CapturesSeen(p)
  /\ Fresh(p) /\ OneBlock(p) /\ ImportsFirst(p) /\ Used(p)

(* On such a file, whatever fixes of the two rules about imports are made, *)
(* one at a time or together and in any order, each name read still stands *)
(* for what it stood for: what kis001.rs and kis002.rs mean by fixable.    *)
FixKeepsMeaning ==
  topic = "imports" /\ Plain(orig) => Meaning(file) = Meaning(orig)

(* What an editor offers to fix goes when it is fixed: fewer violations of *)
(* that rule are left, and the text still parses.  The verdict is reached  *)
(* in check, the text is made in fix, by other code.                       *)
Count(f, code) ==
  Cardinality({v \in Violations(f, Loaded.rules.rules, OptionsOf(topic)) : v.code = code})

OfferedFixWorks ==
  \A q \in QuickFixes :
    /\ \E count \in {[f \in {file, q.text} |-> Count(f, q.viol.code)]} : count[q.text] < count[file]
    /\ topic = "structure" /\ HasBodies(file) => HasBodies(q.text)

(* A quick fix for a pattern or a structural rule changes nothing before   *)
(* the line or the statement it is for, and nothing after it.              *)
SameAround(a, b, from, to) ==
  /\ SubSeq(a, 1, from - 1) = SubSeq(b, 1, from - 1)
  /\ LET rest == Len(a) - to IN SubSeq(a, to + 1, Len(a)) = SubSeq(b, Len(b) - rest + 1, Len(b))

QuickFixStays ==
  topic \in {"patterns", "structure"} =>
    \A q \in QuickFixes :
      LET first == q.viol.line
          gone == Max({0, Len(file) - Len(q.text)})
          start == Min({first} \cup StatementOf(file, first))
      IN  IF topic = "patterns" THEN SameAround(file, q.text, first, first + gone)
          ELSE SameAround(file, q.text, start, LastOf(file, start))

(* Whatever was done to the rules' files between two processes, a replayed *)
(* report is the one that the rules now in use would give.                 *)
ReplayedAsFresh ==
  shown.replayed => shown.viols = Violations(shown.file, shown.rules, OptionsOf(topic))

(* A `fixed` self-test that passes foretells what the fixes make of that   *)
(* text in a real file, whatever order they are made in.                   *)
TestsForetell ==
  topic = "structure" /\ edits = 0 =>
    \E rules \in {Loaded.rules.rules} : \A rule \in Range(rules) : \A t \in CasesOf(rule.tests) :
      /\ rules = <<rule>> /\ t.kind = "fixed" /\ t.input = orig
      /\ ~\E v \in StructureViolations(rules, file, Place, Options) : v.fixable
      /\ t \notin FailedTests(rule)
      => file = t.output

(* What `konform ast` prints of a node is what the conditions of a rule    *)
(* compare: a rule written from a printed line matches that node, and      *)
(* every node a rule can name by its kind is printed.                      *)
WrittenFrom(row) ==
  [AnyMatcher EXCEPT !.kinds = {row.k},
                     !.names = {row.name} \ {""},
                     !.quals = {row.qual} \ {NoDots},
                     !.callees = {row.callee} \ {NoDots},
                     !.all = {[AnyMatcher EXCEPT !.decos = {d}] : d \in row.decos}]

DumpTellsMatches ==
  topic = "structure" =>
    LET table == TableOf(file)
        rows == Range(Dump(file))
    IN  /\ \A row \in rows : Matches(WrittenFrom(row), file, row.at, table)
        /\ {row.at : row \in rows} =
             {n \in DOMAIN file : Matches([AnyMatcher EXCEPT !.kinds = Kinds], file, n, table)}

(* The tools for those who write structural rules tell what the rules do.  *)
ToolsForetell == TestsForetell /\ DumpTellsMatches

(* The server lints, and makes its fixes from, the text that is on the     *)
(* screen, whatever its characters take in either encoding and however     *)
(* its lines end.                                                          *)
ServerHasText == topic = "document" => file.server = file.editor

(* An edit the server offers brings about the text it was computed for: no *)
(* hunk touches a line that is not its own, and a line is silenced before  *)
(* its end, whatever the diff has paired.                                  *)
EditsArrive ==
  topic = "document" => \A o \in OfferedEdits : Applied(file.editor, o.edits) = o.gives

(* Editor and server stay in step: what is typed reaches the server as it  *)
(* is, and what the server offers reaches the text as it was meant.        *)
EditorInSync == ServerHasText /\ EditsArrive
=============================================================================
