---------------------------- MODULE MCConfigLoad ----------------------------
(* A package inside a repository inside a home directory, and a shared base  *)
(* elsewhere.  The contents cover the old and the new shape, both wrappers,   *)
(* inner tables that two files share, a missing, a damaged and an outdated    *)
(* base, a circle and a value of the wrong type.                             *)
EXTENDS ConfigLoad

CONSTANTS cli, server
MCSymmetry == Permutations(Loaders)

MCAncestors == [app |-> <<"app", "repo", "home">>, repo |-> <<"repo", "home">>,
                home |-> <<"home">>, shared |-> <<"shared">>]
MCDirOf == [app_p |-> "app", repo_k |-> "repo", home_p |-> "home", base_k |-> "shared"]

MCKeys == {"tool", "konform", "ruff", "src", "extend", "python", "workers", "lint", "select", "ignore",
           "level", "exceptions", "rules_file", "cache_dir", "cache-dir", "per_file_ignores",
           "per-file-ignores", "noqa_aliases", "noqa-aliases", "KIS", "KPT", "module-only-imports",
           "user-defined-patterns", "unresolved_level", "unresolved-level",
           "unnecessary-import-alias", "import-alias-policy"}

L(v) == Leaf(v)
T(f) == [p \in {<< >>} \cup UNION {{<<k>> \o q : q \in DOMAIN f[k]} : k \in DOMAIN f} |->
            IF p = << >> THEN Branch ELSE f[p[1]][Tail(p)]]
In(tbl) == T([tool |-> T([konform |-> tbl, ruff |-> T([src |-> L("ruff src")])])])

OldApp == T(("cache-dir" :> L("stale")) @@ [cache_dir |-> L("c"), KIS |-> T([unresolved_level |-> L("app"), level |-> L("app")]),
             extend |-> L("base_k")])
NewApp == T([lint |-> T("module-only-imports" :> T([level |-> L("app")])), extend |-> L("repo_k")])
OldRepo == T([select |-> L("repo"), extend |-> L("base_k"), KPT |-> T([rules_file |-> L("r")])])
MixedRepo == T([konform |-> T([lint |-> T("unnecessary-import-alias" :> T([level |-> L("repo")])),
                               select |-> L("old"), src |-> L("src"), extend |-> L("nowhere")])])
Base == T([lint |-> T(("select" :> L("base")) @@
                      ("module-only-imports" :> T("unresolved-level" :> L("base") @@ "exceptions" :> L("base"))))])
CircleBase == T([KIS |-> T([unresolved_level |-> L("base")]), python |-> L("base"), extend |-> L("repo_k")])
BadBase == T([workers |-> L(Misfit), lint |-> T([ignore |-> L("base")])])

MCContents ==
    [app_p |-> {Absent, Toml(In(OldApp)), Toml(In(NewApp))},
     repo_k |-> {Absent, Toml(OldRepo), Toml(MixedRepo)},
     home_p |-> {Toml(T([tool |-> T([ruff |-> T([src |-> L("ruff src")])])]))},
     base_k |-> {Garbled, Toml(Base), Toml(CircleBase), Toml(BadBase)}]

MCSites == {[git |-> {"repo"}, venv |-> {"home"}, active |-> TRUE],
            [git |-> {}, venv |-> {"repo", "shared"}, active |-> FALSE]}

ASSUME FilledContents
=============================================================================
