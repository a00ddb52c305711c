---------------------------- MODULE MCProjectRun ----------------------------
(* Two files, one of them in a package; two rules, one of which runs only     *)
(* when named.  The command lines differ from a plain `check .` in one or two *)
(* options each.                                                             *)
EXTENDS ProjectRun

MCFiles == {<<"pkg", "a">>, <<"b">>}
V(rule, line, silenced, fixable, unsafe) ==
    [rule |-> rule, line |-> line, silenced |-> silenced, fixable |-> fixable, unsafe |-> unsafe,
     roots |-> {"plain", "lib"}]
(* An import that is wrong where the package is not found.                   *)
MCRaw == (<<"pkg", "a">> :> {[V("A", 1, FALSE, TRUE, FALSE) EXCEPT !.roots = {"plain"}],
                             V("B", 2, FALSE, TRUE, TRUE)})
         @@ (<<"b">> :> {V("A", 1, TRUE, FALSE, FALSE), V("B", 2, FALSE, FALSE, FALSE)})

MCStartsWith == [t \in Codes \cup KnqCodes \cup {"all"} |-> IF t = "all" THEN AllCodes ELSE {t}]
MCAliasOf == [t \in Codes \cup KnqCodes \cup {"all"} |-> {}]

MCDefaults == [select |-> {}, extend |-> {}, ignore |-> {}, fixable |-> {}, unfixable |-> {},
               levels |-> [A |-> "error", B |-> "warning"], perFile |-> {}, exclude |-> {},
               cacheDir |-> <<"cache">>, src |-> "plain"]
Doc(settings) == [AbsentDoc EXCEPT !.kind = "toml", !.konform = "header", !.settings = settings]
MCDocuments ==
    [konform |-> {AbsentDoc,
        Doc([NoSettings EXCEPT !.extend = {"B"}, !.perFile = {[glob |-> <<"pkg", "a">>, codes |-> {"A"}]}]),
        Doc([NoSettings EXCEPT !.select = {"all"}, !.src = "lib", !.levels.B = "error", !.cacheDir = <<"pkg">>]),
        [AbsentDoc EXCEPT !.kind = "garbled", !.konform = "header"]},
     pyproject |-> {AbsentDoc,
        [AbsentDoc EXCEPT !.kind = "toml", !.ruff = TRUE, !.ruffSrc = "lib"],
        [AbsentDoc EXCEPT !.kind = "toml", !.ruff = TRUE, !.lint = "keys"],
        [Doc([NoSettings EXCEPT !.unfixable = {"all"}, !.cacheDir = << >>]) EXCEPT
            !.ruff = TRUE, !.ruffSrc = "lib"]},
     ruff |-> {AbsentDoc}]

Plain == [from |-> Root, absolute |-> FALSE, isolated |-> FALSE, noCache |-> FALSE,
          ignoreNoqa |-> FALSE, select |-> {}, extend |-> {}, ignore |-> {}, perFile |-> {},
          extendPerFile |-> {}, exclude |-> {}, extendExclude |-> {}, cacheDir |-> NoDir,
          level |-> "error", changedLevel |-> "error", format |-> "full", show |-> "no",
          fix |-> FALSE, fixOnly |-> FALSE, unsafeFixes |-> FALSE, exitNonZeroOnFix |-> FALSE,
          exitZero |-> FALSE]
MCCommandLines ==
    {Plain,
     [Plain EXCEPT !.select = {"B"}, !.changedLevel = "warning", !.format = "junit"],
     [Plain EXCEPT !.extend = {"B"}, !.format = "zuul"],
     [Plain EXCEPT !.absolute = TRUE, !.ignore = {"A"}, !.level = "warning", !.format = "gitlab"],
     [Plain EXCEPT !.from = <<"pkg">>, !.extend = {"B"}, !.changedLevel = "warning", !.format = "github"],
     [Plain EXCEPT !.ignoreNoqa = TRUE, !.format = "zuul", !.exitZero = TRUE],
     [Plain EXCEPT !.isolated = TRUE, !.exclude = {<<"pkg">>}, !.show = "files"],
     [Plain EXCEPT !.fix = TRUE, !.format = "sarif", !.extendPerFile = {[glob |-> <<"b">>, codes |-> {"B"}]}],
     [Plain EXCEPT !.fixOnly = TRUE, !.unsafeFixes = TRUE, !.select = {"all"}, !.exitNonZeroOnFix = TRUE],
     [Plain EXCEPT !.show = "diff", !.noCache = TRUE],
     [Plain EXCEPT !.show = "settings"]}

Foreign(comments) == [kind |-> "object", foreign |-> TRUE, comments |-> comments, warnings |-> {}]
MCOldReports == {[kind |-> "absent", foreign |-> FALSE, comments |-> {}, warnings |-> {}],
                 Foreign({}), [Foreign({}) EXCEPT !.kind = "odd"]}

ASSUME MCPaths == AbsoluteFromRoot /\ OneFilePerPath
=============================================================================
