---------------------------- MODULE MCRuleFixes ----------------------------
(* Small files, and small sets of rules, for RuleFixes. *)
EXTENDS RuleFixes

-----------------------------------------------------------------------------
(* Imports: `pkg.mod` is a module, `f` is something in it; a name is       *)
(* imported at the top, or in a function h, and read in both.              *)

MCModules == {<<"pkg">>, <<"pkg", "mod">>, <<"other">>}

FromImport(block, mod, clauses) ==
  [Statement EXCEPT !.in = block, !.k = "from", !.mod = mod, !.names = clauses]
PlainImport(mod) ==
  [Statement EXCEPT !.k = "import", !.mod = mod, !.names = <<Alias("", "")>>]
Binding(block, x) == [Statement EXCEPT !.in = block, !.binds = {x}]
Reading(block, xs) ==
  [Statement EXCEPT !.in = block, !.reads = [n \in DOMAIN xs |-> <<xs[n]>>]]

H == Block("def", "h")
Header(params) == [Statement EXCEPT !.k = "open", !.opens = H, !.binds = {"h"}, !.params = params]

Firsts ==
  {<<>>,
   <<FromImport(<<>>, <<"pkg", "mod">>, <<Alias("f", "")>>)>>,
   <<FromImport(<<>>, <<"pkg", "mod">>, <<Alias("f", "g")>>)>>,
   <<FromImport(<<>>, <<"pkg", "mod">>, <<Alias("f", ""), Alias("e", "g")>>)>>,
   <<FromImport(<<>>, <<"pkg", "mod">>, <<Alias("f", ""), Alias("f", "g")>>)>>,
   <<FromImport(<<>>, <<"pkg">>, <<Alias("mod", "")>>)>>,
   <<FromImport(<<>>, <<"pkg">>, <<Alias("mod", "g")>>)>>}

Seconds ==
  {<<>>,
   <<FromImport(<<>>, <<"other">>, <<Alias("e", "g")>>)>>,
   <<PlainImport(<<"mod">>)>>,
   <<Binding(<<>>, "mod")>>}

Bodies ==
  {<<>>,
   <<FromImport(<<H>>, <<"pkg", "mod">>, <<Alias("f", "")>>)>>,
   <<FromImport(<<H>>, <<"pkg", "mod">>, <<Alias("f", "g")>>)>>,
   <<Binding(<<H>>, "f")>>,
   <<Binding(<<H>>, "mod")>>,
   <<[Statement EXCEPT !.in = <<H>>, !.k = "global", !.binds = {"mod"}], Binding(<<H>>, "mod")>>,
   <<[Statement EXCEPT !.in = <<H>>, !.k = "open", !.opens = Block("case", "1"), !.captures = {"f"}]>>}

MCImportFiles ==
  {a \o b \o <<Header(ps)>> \o c \o <<Reading(<<H>>, <<r>>)>> \o <<Reading(<<>>, q)>> :
     a \in Firsts, b \in Seconds, ps \in {{}, {"mod"}, {"f"}}, c \in Bodies,
     r \in {"f", "g", "mod"}, q \in {<<"f">>, <<"g">>, <<"mod">>, <<"f", "g">>}}
  \cup {a \o <<Reading(<<>>, <<"f">>), FromImport(<<>>, <<"other">>, <<Alias("e", "")>>),
            Reading(<<>>, <<"e">>)>> : a \in Firsts}

MCImportOptions ==
  [exceptions |-> {}, unresolved |-> TRUE, ignoreNoqa |-> FALSE, template |-> {},
   target |-> NoTarget]

-----------------------------------------------------------------------------
(* Patterns.                                                               *)

Here == [path |-> <<"p", "src", "a.py">>, configDir |-> <<"p">>, cwd |-> <<"p", "src">>]
InSrc == [ok |-> TRUE, glob |-> <<"src", "a.py">>]
InTests == [ok |-> TRUE, glob |-> <<"tests">>]
NoGlob == [ok |-> FALSE, glob |-> <<"[">>]

Re(words) == [ok |-> TRUE, re |-> words]
BadRe == [ok |-> FALSE, re |-> <<>>]

Todo == [RawPattern EXCEPT !.id = "KPT1", !.res = <<Re(<<"todo">>)>>, !.message = "todo"]
TodoDone == [Todo EXCEPT !.by = <<"done">>]
Twice == [RawPattern EXCEPT !.id = "KPT2", !.res = <<Re(<<"x", "x">>), BadRe, Re(<<"x">>)>>,
                            !.by = <<"y">>, !.message = "x"]
Joined == [RawPattern EXCEPT !.id = "KPT2", !.res = <<Re(<<"x", EOL, "x">>)>>, !.multiline = TRUE,
                             !.by = <<"y">>, !.message = "x"]

WithGlobs(p, gs) == [p EXCEPT !.globs = gs]

Cfg(rules, name) == [rules |-> rules, file |-> name, level |-> Absent]
NoFiles == [n \in {} |-> <<>>]
OneFile(name, rules) == [n \in {name} |-> rules]

MCPatternSources ==
  {[cfg |-> Cfg(rs, Absent), disk |-> NoFiles] :
     rs \in {<<TodoDone, Twice>>, <<Joined>>, <<WithGlobs(Todo, <<NoGlob>>)>>,
             <<[Todo EXCEPT !.ok = FALSE], Joined>>}}
  \cup {[cfg |-> Cfg(<<>>, "mine.toml"), disk |-> OneFile(f, <<TodoDone>>)] :
          f \in {"mine.toml", "konform_patterns.toml"}}
  \cup {[cfg |-> Cfg(<<>>, Absent), disk |-> OneFile("konform_patterns.toml", rs)] :
          rs \in {<<Twice>>, <<WithGlobs(TodoDone, <<InSrc>>)>>, <<WithGlobs(TodoDone, <<InTests>>)>>,
                  <<WithGlobs(TodoDone, <<NoGlob, InSrc>>)>>,
                  <<[Todo EXCEPT !.level = "error"]>>, <<Todo, [Twice EXCEPT !.ok = FALSE]>>}}

MCTextFiles ==
  {[n \in DOMAIN ws |-> Line(ws[n], IF n = 1 THEN h ELSE {})] :
     ws \in {<<(<<"todo", "x">>), <<"x">>>>, <<(<<"todo">>), <<"todo", "x">>>>,
             <<(<<"a">>), <<"x", "x", "x">>>>},
     h \in {{}, {"KPT1"}}}

-----------------------------------------------------------------------------
(* Structural rules.                                                       *)

Stmt(at, part) == Node(at, "expr", part, "")
Name(at, part, id) == Node(at, "name", part, id)
Call(at, part) == Node(at, "call", part, "")
Attr(at, part, id) == Node(at, "attribute", part, id)

(* print(x), print(print(x)), log.print(x)                                 *)
Print1(at, part) == <<Stmt(at, part), Call(at + 1, "value"), Name(at + 2, "func", "print"),
                      Name(at + 2, "arg", "x")>>
Print2(at, part) == <<Stmt(at, part), Call(at + 1, "value"), Name(at + 2, "func", "print"),
                      Call(at + 2, "arg"), Name(at + 3, "func", "print"), Name(at + 3, "arg", "x")>>
LogPrint(at, part) == <<Stmt(at, part), Call(at + 1, "value"), Attr(at + 2, "func", "print"),
                        Name(at + 3, "value", "log"), Name(at + 2, "arg", "x")>>
Row(s, row) == [s EXCEPT ![1] = [@ EXCEPT !.row = row]]
Hushed(s, code) == [i \in DOMAIN s |-> [s[i] EXCEPT !.hush = {code}]]

ImportNode(rows) == [Node(0, "import", "body", "") EXCEPT !.rows = rows]
AssignTo(x, value, plain) ==
  <<[Node(0, "assign", "body", "") EXCEPT !.plain = plain],
    [Name(1, "target", x) EXCEPT !.target = TRUE], Name(1, "value", value)>>

Fixture == <<Name(1, "deco", "fix")>>
FixtureCalled == <<Call(1, "deco"), Name(2, "func", "fix")>>
Def(decos) == <<Node(0, "function", "body", "h")>> \o decos
IfBlock == <<Node(0, "if", "body", ""), Name(1, "test", "x")>>
AssertX(at) == <<Node(at, "assert", "body", ""), Name(at + 1, "value", "x")>>

ImportOut == <<ImportNode(<<(<<"out", <<"print">>>>)>>)>>
ImportFixture == <<ImportNode(<<(<<"fix", <<"pytest", "fixture">>>>)>>)>>

MCTreeFiles ==
  {i \o Def(d) \o b :
     i \in {<<>>, ImportFixture}, d \in {<<>>, Fixture, FixtureCalled},
     b \in {Print1(1, "body") \o AssertX(1), Print2(1, "body")}}
  \cup {ImportOut \o a \o s :
          a \in {AssignTo("w", "x", TRUE), AssignTo("w", "out", TRUE), AssignTo("w", "out", FALSE),
                 AssignTo("w", "out", TRUE) \o AssignTo("w", "x", TRUE)},
          s \in {LogPrint(0, "body"), <<Stmt(0, "body"), Call(1, "value"), Name(2, "func", "w")>>}}
  \cup {IfBlock \o Row(Print1(1, "body"), "header"),
        IfBlock \o Row(Print1(1, "body"), "next") \o Row(AssertX(1), "header"),
        IfBlock \o Print1(1, "body") \o Print1(1, "body"),
        Hushed(Print2(0, "body"), "KST1"), Print2(0, "body")}

Replace(pieces, safe) == {[replace |-> pieces, delete |-> FALSE, safe |-> safe]}
Delete == {[replace |-> <<>>, delete |-> TRUE, safe |-> TRUE]}

(* log({args}), and the receiver of the call.                              *)
ToLog == <<Lit(0, "call", "value", ""), Lit(1, "name", "func", "log"), Var(1, "args", "arg")>>

NoPrint == [RawRule EXCEPT !.id = "KST1", !.match = [AnyMatcher EXCEPT !.callees = {<<"print">>}],
                           !.fix = Replace(ToLog, TRUE)]
NoAssert == [RawRule EXCEPT !.id = "KST2", !.fix = Delete,
   !.match = [AnyMatcher EXCEPT !.kinds = {"assert"},
     !.inside = {[AnyMatcher EXCEPT !.decos = {<<"pytest", "fixture">>}]}]]
DropPrint == [NoPrint EXCEPT !.id = "KST3", !.fix = Delete]
Receiver == [RawRule EXCEPT !.id = "KST4", !.match = [AnyMatcher EXCEPT !.kinds = {"call"}, !.names = {"print"}],
                            !.fix = Replace(<<Var(0, "receiver", "value")>>, FALSE)]
HasPrint == [RawRule EXCEPT !.id = "KST5",
   !.match = [AnyMatcher EXCEPT !.kinds = {"function", "if"}, !.no = {[AnyMatcher EXCEPT !.names = {"g"}]},
     !.has = {[AnyMatcher EXCEPT !.names = {"print"}, !.stopBy = {[AnyMatcher EXCEPT !.kinds = {"call"}]}]}]]
Stopped == [NoPrint EXCEPT !.match = [@ EXCEPT !.stopBy = {AnyMatcher}]]

Tested(r, ts) == [r EXCEPT !.tests = [valid |-> {}, invalid |-> {}, fixed |-> ts]]
LogNested == <<Stmt(0, "body"), Call(1, "value"), Name(2, "func", "log"), Call(2, "arg"),
               Name(3, "func", "log"), Name(3, "arg", "x")>>
LogHalf == <<Stmt(0, "body"), Call(1, "value"), Name(2, "func", "log"), Call(2, "arg"),
               Name(3, "func", "print"), Name(3, "arg", "x")>>

MCStructureSources ==
  {[cfg |-> Cfg(rs, Absent), disk |-> NoFiles] :
     rs \in {<<Tested(NoPrint, {[input |-> Print2(0, "body"), output |-> LogNested],
                                [input |-> Print2(0, "body"), output |-> LogHalf]})>>,
             <<NoAssert, HasPrint>>, <<DropPrint>>,
             <<NoAssert, Stopped, [WithGlobs(NoPrint, <<InSrc, NoGlob>>) EXCEPT !.id = "KST6"]>>}}
  \cup {[cfg |-> Cfg(<<>>, "mine.toml"), disk |-> OneFile(RulesFile, <<NoPrint>>)]}
  \cup {[cfg |-> Cfg(<<>>, Absent), disk |-> OneFile(RulesFile, rs)] :
          rs \in {<<Receiver, NoAssert>>, <<[Receiver EXCEPT !.level = "error"], NoAssert>>,
                  <<WithGlobs(NoPrint, <<InTests>>)>>, <<[NoPrint EXCEPT !.ok = FALSE]>>}}

-----------------------------------------------------------------------------
(* Documents: characters of one, two and four bytes, of one unit and two.  *)

MCBytes == [ch \in {"x", NL, CR, Noqa} |-> 1] @@ [ch \in {"e"} |-> 2] @@ [ch \in {"u"} |-> 4]
MCUnits == [ch \in {"x", NL, CR, Noqa, "e"} |-> 1] @@ [ch \in {"u"} |-> 2]

MCDocuments ==
  {<<>>, <<"x", NL>>, <<"e", CR, NL, "u", "x">>, <<"u", "e", NL, NL, "x", NL>>,
   <<"x", NL, "u", NL, "x", NL>>}
MCRewrittenTexts ==
  {<<>>, <<"x", NL>>, <<"u", "e", NL, "x", NL>>, <<"x", NL, "e", NL, "x", NL, "x", NL>>,
   <<"e", CR, NL, "u">>}
MCInsertions == {<<>>, <<"e">>, <<"u", NL>>, <<CR, NL>>}

-----------------------------------------------------------------------------
MCOptions ==
  [ignoreNoqa |-> FALSE, enabled |-> {"KPT1", "KPT2", "KST1", "KST2", "KST3", "KST4", "KST5", "KST6"},
   fixes |-> {"KPT1", "KPT2", "KST1", "KST2", "KST3", "KST4", "KST5", "KST6"},
   unsafe |-> FALSE, target |-> NoPlace]
=============================================================================
