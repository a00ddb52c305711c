----------------------------- MODULE ProjectRun -----------------------------
(* The commands a user gives in one repository, one after another: `check`   *)
(* from its arguments to its exit code, `init` and `clean` (main.rs), the    *)
(* key under which results are cached (cache.rs), the reports (output.rs).   *)
(*                                                                           *)
(* Between commands users edit files, settings and command lines.  A path is *)
(* the sequence of its names below the repository's root; a glob without     *)
(* wildcards is one too.  What processes at once do to the cache is           *)
(* CheckRun's subject, what a fix or an annotation does to a file FixEngine's. *)
EXTENDS NoqaComments, Sequences, SequencesExt, FiniteSetsExt

CONSTANTS
    Files,          \* the Python files of the repository
    Raw,            \* Raw[f]: what the rules find in f, [rule, line, silenced, fixable, unsafe,
                    \* roots]; roots: the search roots of imports under which they find it
    OptIn,          \* codes of rules that run only when named
    Defaults,       \* the settings of an empty configuration
    Documents,      \* per configuration file: what a user may put there
    CommandLines,   \* of `check`
    OldReports,     \* what may lie where the Zuul report goes
    MaxCommands,    \* bound: commands given
    MaxEdits        \* bound: edits in between

ASSUME FilesAssumption == \A f \in Files : f \in Seq(STRING) /\ f # << >>
ASSUME CommandLinesAssumption ==
    \A a \in CommandLines : a.from \in Seq(STRING) /\ a.absolute \in BOOLEAN
ASSUME DefaultsAssumption ==
    /\ Defaults = [setting \in DOMAIN Defaults |-> Defaults[setting]]
    /\ "src" \in DOMAIN Defaults
ASSUME OldReportsAssumption == \A r \in OldReports : r.foreign \in BOOLEAN

VARIABLES
    docs,       \* konform.toml, pyproject.toml, ruff.toml and the patterns file
    text,       \* per file: whether it is there, what is left to find, its stamp
    git,        \* files with uncommitted changes, files of the last commit
    dirs,       \* directories, [path, tag]: tag is its CACHEDIR.TAG
    cache,      \* cached results, each with its directory, key, path and stamp
    report,     \* the Zuul report on disk
    run,        \* the command under way
    commands, edits

vars == <<docs, text, git, dirs, cache, report, run, commands, edits>>

Root == << >>
NoDir == <<"unset">>
NoSrc == "unset"

-----------------------------------------------------------------------------
(* Settings. *)

(* A konform table that sets nothing.  `src`, the search roots of imports, is *)
(* the one setting for which ruff's table stands in.                         *)
NoSettings == [Defaults EXCEPT !.src = NoSrc]

AbsentDoc == [kind |-> "absent", konform |-> "none", settings |-> NoSettings, ruff |-> FALSE,
              ruffSrc |-> NoSrc, lint |-> "none", external |-> FALSE]

(* What a configuration file can be: the konform table and ruff's lint table  *)
(* in it are missing, written with a header or as dotted keys.  A konform.toml *)
(* without a konform table is one as a whole.                                *)
InDocuments == Documents.konform \cup Documents.pyproject \cup Documents.ruff
Document == [kind : {"absent", "toml", "garbled"}, konform : {"none", "header", "keys"},
        settings : {NoSettings} \cup {d.settings : d \in InDocuments},
        ruff : BOOLEAN, ruffSrc : {NoSrc} \cup {d.ruffSrc : d \in InDocuments},
        lint : {"none", "header", "keys"}, external : BOOLEAN]
ASSUME DocumentsAssumption ==
    /\ InDocuments \subseteq Document
    /\ \A d \in Documents.konform : d.kind = "toml" => d.konform # "none"

(* konform.toml is found before pyproject.toml; --isolated looks for neither. *)
ConfigFile == IF docs.konform.kind # "absent" THEN docs.konform ELSE docs.pyproject
HasSection(doc) == doc.kind = "toml" /\ doc.konform # "none"

(* The search roots: the konform table's, else ruff's in the same file, else  *)
(* the default.                                                              *)
SrcOf(doc) == IF doc.settings.src # NoSrc THEN doc.settings.src
              ELSE IF doc.ruffSrc # NoSrc THEN doc.ruffSrc
              ELSE Defaults.src

(* A file without a konform table means the defaults, whatever ruff's says.   *)
Effective == IF HasSection(ConfigFile) THEN [ConfigFile.settings EXCEPT !.src = SrcOf(ConfigFile)]
             ELSE Defaults
Broken == ConfigFile.kind = "garbled"

(* The codes of equal globs are put together. *)
CodesFor(ignores, g) == UNION {i.codes : i \in {i \in ignores : i.glob = g}}
Together(ignores) == {[glob |-> i.glob, codes |-> CodesFor(ignores, i.glob)] : i \in ignores}

(* apply_cli_overrides: a list given replaces the file's, an `extend` one and *)
(* --ignore add to it.                                                       *)
Overridden(s, a) ==
    [s EXCEPT
        !.exclude = (IF a.exclude # {} THEN a.exclude ELSE @) \cup a.extendExclude,
        !.select = IF a.select # {} THEN a.select ELSE @,
        !.extend = @ \cup a.extend,
        !.ignore = @ \cup a.ignore,
        !.perFile = Together((IF a.perFile # {} THEN a.perFile ELSE @) \cup a.extendPerFile),
        !.cacheDir = IF a.cacheDir # NoDir THEN a.cacheDir ELSE @]

SettingsOf(a) == Overridden(IF a.isolated THEN Defaults ELSE Effective, a)

(* What a run lints with: everything but the text. *)
Chosen(s) == [select |-> s.select, extend |-> s.extend, ignore |-> s.ignore]
Fixable(s, code) == IsEnabled([select |-> s.fixable, extend |-> {}, ignore |-> s.unfixable], code)

-----------------------------------------------------------------------------
(* Paths as the arguments spell them. *)

Under(dir, f) == IsPrefix(dir, f)
Below(dir, f) == SubSeq(f, Len(dir) + 1, Len(f))
Spelled(f, a) == IF a.absolute THEN <<"/">> \o f ELSE Below(a.from, f)

(* The path or a directory on its way, by path or by name; directories above  *)
(* the project are not looked at.                                            *)
IsExcluded(s, f) ==
    \E n \in 1..Len(f), g \in s.exclude : g = SubSeq(f, 1, n) \/ g = <<f[n]>>

Targets(s, a) ==
    {f \in Files : text[f].there /\ Under(a.from, f) /\ ~IsExcluded(s, f)}

(* A glob is tried on the path as it is spelled and, when that is absolute,   *)
(* on the path below the configuration's and below the working directory.    *)
PerFileIgnored(s, a, f, code) ==
    \E i \in s.perFile :
        /\ \/ i.glob = Spelled(f, a)
           \/ a.absolute /\ ~a.isolated /\ ConfigFile.kind # "absent" /\ i.glob = f
           \/ a.absolute /\ i.glob = Below(a.from, f)
        /\ \E t \in i.codes : code \in StartsWith[t]

(* engine.rs, run_check. *)
Lint(s, a, f) ==
    {[rule |-> v.rule, line |-> v.line, level |-> s.levels[v.rule], unsafe |-> v.unsafe,
      fixable |-> v.fixable /\ Fixable(s, v.rule)] :
        v \in {v \in text[f].left :
                 /\ s.src \in v.roots
                 /\ RunsRule(Chosen(s), v.rule, v.rule \in OptIn)
                 /\ a.ignoreNoqa \/ ~v.silenced
                 /\ ~PerFileIgnored(s, a, f, v.rule)}}

(* What --fix takes out of a file. *)
Fixes(s, a, f) ==
    {v \in text[f].left :
        /\ s.src \in v.roots
        /\ v.fixable /\ ~v.silenced
        /\ RunsRule(Chosen(s), v.rule, v.rule \in OptIn) /\ Fixable(s, v.rule)
        /\ v.unsafe => a.unsafeFixes}

-----------------------------------------------------------------------------
(* The cache, by the settings that results depend on. *)

(* A slip: extend-select counts as select. *)
SelectionKeyPlain(s) == {[code |-> c, plus |-> FALSE] : c \in s.select \cup s.extend}

SelectionKey(s) ==
    {[code |-> c, plus |-> FALSE] : c \in s.select} \cup {[code |-> c, plus |-> TRUE] : c \in s.extend}

RulesFingerprint(s) ==
    [levels |-> s.levels, perFile |-> s.perFile, fixable |-> s.fixable, unfixable |-> s.unfixable]

(* Of the environment only the roots that the settings add to sys.path; how   *)
(* it changes is PythonEnvironment's subject.                                *)
EnvFingerprint(s) == s.src

SettingsHash(s, a) ==
    [select |-> SelectionKey(s), ignore |-> s.ignore, level |-> a.level,
     env |-> EnvFingerprint(s), rules |-> RulesFingerprint(s)]

(* cache::init leaves what is there and adds the tag. *)
WithCacheDir(ds, path) == {d \in ds : d.path # path} \cup {[path |-> path, tag |-> TRUE]}

Uncached(a) == a.noCache \/ a.ignoreNoqa
Hits(s, a, f) ==
    {e \in cache : /\ ~Uncached(a)
                   /\ e.dir = s.cacheDir /\ e.key = SettingsHash(s, a)
                   /\ e.path = Spelled(f, a) /\ e.stamp = text[f].stamp}
Results(s, a, f) == IF Hits(s, a, f) # {} THEN (CHOOSE e \in Hits(s, a, f) : TRUE).results
                    ELSE Lint(s, a, f)
Entry(s, a, f, results) ==
    [dir |-> s.cacheDir, key |-> SettingsHash(s, a), path |-> Spelled(f, a),
     stamp |-> text[f].stamp, results |-> results]
Stored(s, a, new) ==
    IF Uncached(a) THEN cache
    ELSE {e \in cache : \A n \in new : <<e.dir, e.key, e.path>> # <<n.dir, n.key, n.path>>} \cup new

-----------------------------------------------------------------------------
(* Reports and exit codes. *)

AtLeast(level, threshold) == threshold = "warning" \/ level = "error"

GetChangedFiles == IF git.working # {} THEN git.working ELSE git.last

(* A slip: git is asked for the Zuul report only. *)
ChangedFilesForZuul(found, a) == IF found = {} \/ a.format # "zuul" THEN {} ELSE GetChangedFiles

(* git is asked only where its answer can matter. *)
ChangedFilesFor(found, a) ==
    IF found = {} \/ (a.changedLevel = a.level /\ a.format # "zuul") THEN {} ELSE GetChangedFiles

ExitCodeFor(found, changed, a) ==
    IF \E r \in found : \E v \in r.results :
          AtLeast(v.level, IF r.path \in changed THEN a.changedLevel ELSE a.level)
    THEN 1 ELSE 0

(* What a format shows of each violation.  `full`, `concise`, `json`, `github`  *)
(* and `sarif` show the same.                                                *)
Item(r, v) == [path |-> r.path, line |-> v.line, rule |-> v.rule, level |-> v.level]
Items(found) == UNION {{Item(r, v) : v \in r.results} : r \in found}
RenderGithub(found) == Items(found)
RenderGitlab(found) ==
    {[i EXCEPT !.level = IF @ = "warning" THEN "minor" ELSE "critical"] : i \in Items(found)}
RenderSarif(found) == Items(found)
RenderJunit(found) == {[i EXCEPT !.level = "failure"] : i \in Items(found)}

(* A file gets the format asked for, or JSON where that has no text of its    *)
(* own.                                                                      *)
RenderForFile(found, format) ==
    CASE format = "github" -> RenderGithub(found)
      [] format = "gitlab" -> RenderGitlab(found)
      [] format = "sarif"  -> RenderSarif(found)
      [] format = "junit"  -> RenderJunit(found)
      [] OTHER             -> Items(found)

(* The terminal gets the same; a Zuul run prints nothing. *)
PrintViolations(found, format) == IF format = "zuul" THEN {} ELSE RenderForFile(found, format)

Statistics(found) ==
    [c \in Codes |-> Cardinality({i \in Items(found) : i.rule = c})]

(* The summary counts fixes that --fix makes apart from those that need       *)
(* --unsafe-fixes; the hint names that option when there are any.            *)
FixCount(found, unsafe) ==
    Cardinality(UNION {{r.path} \X {v \in r.results : v.fixable /\ v.unsafe = unsafe} : r \in found})
Hint(found, a) ==
    IF found = {} \/ a.fix \/ a.fixOnly THEN "none"
    ELSE IF FixCount(found, TRUE) > 0 THEN "fix unsafe" ELSE "fix"

Comments(found, changed) == Items({r \in found : r.path \in changed})
Warnings(found, changed) == Items({r \in found : r.path \notin changed})

(* A slip: the report is written anew. *)
WriteZuulReturnAnew(old, comments, warnings) ==
    [kind |-> "object", foreign |-> FALSE, comments |-> comments, warnings |-> warnings]

(* The two lists are put into what the file holds; an empty list is not.  A   *)
(* file that is no YAML object counts as empty.                              *)
WriteZuulReturn(old, comments, warnings) ==
    [kind |-> "object",
     foreign |-> old.kind = "object" /\ old.foreign,
     comments |-> IF comments # {} \/ old.kind # "object" THEN comments ELSE old.comments,
     warnings |-> IF warnings # {} \/ old.kind # "object" THEN warnings ELSE old.warnings]

-----------------------------------------------------------------------------
(* `check`. *)

Idle == [pc |-> "idle", found |-> {}]

Init ==
    /\ docs \in [konform : Documents.konform, pyproject : Documents.pyproject,
                 ruff : Documents.ruff, patterns : {FALSE}]
    /\ text = [f \in Files |-> [there |-> TRUE, left |-> Raw[f], stamp |-> 1]]
    /\ git \in [working : {{}}, last : {Files}]
    /\ dirs = {[path |-> p, tag |-> FALSE] : p \in {Root} \cup {Front(f) : f \in Files}}
    /\ cache = {}
    /\ report \in OldReports
    /\ run = Idle
    /\ commands = 0
    /\ edits = 0

Given == run = Idle /\ commands < MaxCommands /\ commands' = commands + 1
Ends(code) == run' = [pc |-> "done", exit |-> code, found |-> {}]

(* --show-settings works on a broken configuration too. *)
ShowSettings(a) ==
    /\ Given
    /\ a.show = "settings"
    /\ Ends(0)
    /\ UNCHANGED <<docs, text, git, dirs, cache, report, edits>>

(* A broken configuration: nothing is linted, but the cache is set up. *)
Refuse(a) ==
    /\ Given
    /\ a.show # "settings" /\ Broken /\ ~a.isolated
    /\ dirs' = IF a.noCache THEN dirs ELSE WithCacheDir(dirs, SettingsOf(a).cacheDir)
    /\ Ends(2)
    /\ UNCHANGED <<docs, text, git, cache, report, edits>>

Proceeds(a) ==
    /\ Given
    /\ a.show # "settings" /\ (Broken => a.isolated)
    /\ dirs' = WithCacheDir(dirs, SettingsOf(a).cacheDir)

ShowFiles(a) ==
    /\ Proceeds(a)
    /\ a.show = "files"
    /\ Ends(0)
    /\ UNCHANGED <<docs, text, git, cache, report, edits>>

Diff(a) ==
    /\ Proceeds(a)
    /\ a.show = "diff"
    /\ Ends(IF \E f \in Targets(SettingsOf(a), a) : Fixes(SettingsOf(a), a, f) # {} THEN 1 ELSE 0)
    /\ UNCHANGED <<docs, text, git, cache, report, edits>>

(* The fix pass, if one is asked for; then the check pass, unless a fix is    *)
(* all there was to do.  Each fixed file loses its entry.                    *)
Begin(a) ==
    /\ Proceeds(a)
    /\ a.show = "no"
    /\ LET s == SettingsOf(a)
           fixed == {f \in Targets(s, a) : (a.fix \/ a.fixOnly) /\ Fixes(s, a, f) # {}}
       IN  /\ text' = [f \in Files |->
                 IF f \in fixed THEN [text[f] EXCEPT !.left = @ \ Fixes(s, a, f), !.stamp = @ + 1]
                 ELSE text[f]]
           /\ git' = [git EXCEPT !.working = @ \cup fixed]
           /\ IF fixed # {} /\ a.exitNonZeroOnFix THEN Ends(1)
              ELSE IF a.fixOnly THEN Ends(0)
              ELSE run' = [pc |-> "check", args |-> a, settings |-> s, found |-> {}]
    /\ UNCHANGED <<docs, cache, report, edits>>

(* The check pass and everything after it. *)
Check ==
    /\ run.pc = "check"
    /\ LET a == run.args
           s == run.settings
           targets == Targets(s, a)
           found == {[path |-> Spelled(f, a), results |-> Results(s, a, f)] :
                        f \in {f \in targets : Results(s, a, f) # {}}}
           changed == ChangedFilesFor(found, a)
           fails == a.format = "zuul" /\ report.kind = "odd"
       IN  /\ cache' = Stored(s, a, {Entry(s, a, f, Results(s, a, f)) : f \in targets})
           /\ report' = IF a.format = "zuul" /\ ~fails
                        THEN WriteZuulReturn(report, Comments(found, changed), Warnings(found, changed))
                        ELSE report
           /\ run' = [pc |-> "reported", found |-> found,
                      shown |-> PrintViolations(found, a.format),
                      file |-> RenderForFile(found, a.format),
                      hint |-> Hint(found, a), statistics |-> Statistics(found),
                      exit |-> IF fails THEN 2 ELSE IF a.exitZero THEN 0
                               ELSE ExitCodeFor(found, changed, a)]
    /\ UNCHANGED <<docs, text, git, dirs, commands, edits>>

-----------------------------------------------------------------------------
(* `clean`. *)

Paths == {d.path : d \in dirs}
Tagged(path) == [path |-> path, tag |-> TRUE] \in dirs

(* A slip: only the repository's root is protected. *)
CleanRefusalRoot(path, from) == IsPrefix(path, Root) \/ ~Tagged(path)

(* Neither the root, nor the working directory, nor one above them, nor a     *)
(* directory without a tag.                                                  *)
CleanRefusal(path, from) == IsPrefix(path, Root) \/ IsPrefix(path, from) \/ ~Tagged(path)

(* The cache below the root or, when there is none, one that an older version *)
(* left below the working directory.                                         *)
CleanPath(from) ==
    LET local == from \o Effective.cacheDir
    IN  IF Effective.cacheDir \notin Paths /\ Tagged(local) THEN local ELSE Effective.cacheDir

Clean(from) ==
    /\ Given
    /\ from \in Paths
    /\ LET path == CleanPath(from)
           removes == path \in Paths /\ ~CleanRefusal(path, from)
       IN  /\ dirs' = {d \in dirs : ~(removes /\ IsPrefix(path, d.path))}
           /\ cache' = {e \in cache : ~(removes /\ IsPrefix(path, e.dir))}
           /\ text' = [f \in Files |->
                 [text[f] EXCEPT !.there = @ /\ ~(removes /\ IsPrefix(path, f))]]
           /\ run' = [pc |-> "cleaned", from |-> from,
                      exit |-> IF path \in Paths /\ ~removes THEN 1 ELSE 0]
    /\ UNCHANGED <<docs, git, report, edits>>

-----------------------------------------------------------------------------
(* `init`, in the root. *)

Template == [AbsentDoc EXCEPT !.kind = "toml", !.konform = "header"]

(* Appending a table that the file already has, in another notation, breaks   *)
(* it.                                                                       *)
WithKonformTable(doc) ==
    IF doc.konform = "keys" THEN [doc EXCEPT !.kind = "garbled"]
    ELSE [doc EXCEPT !.konform = "header", !.settings = NoSettings]
WithExternal(doc) ==
    IF doc.lint = "keys" THEN [doc EXCEPT !.kind = "garbled", !.external = TRUE]
    ELSE [doc EXCEPT !.lint = "header", !.external = TRUE]

HasKonformTable(doc) == doc.konform = "header"

(* A slip: an existing konform.toml is written over. *)
InitConfigOverwrites(d, force) ==
    IF d.pyproject.kind # "absent" /\ ~force
    THEN IF HasKonformTable(d.pyproject) THEN d
         ELSE [d EXCEPT !.pyproject = WithKonformTable(@)]
    ELSE [d EXCEPT !.konform = Template]

InitConfig(d, force) ==
    IF d.konform.kind # "absent" /\ ~force THEN d
    ELSE IF d.pyproject.kind # "absent" /\ ~force
    THEN IF HasKonformTable(d.pyproject) THEN d
         ELSE [d EXCEPT !.pyproject = WithKonformTable(@)]
    ELSE [d EXCEPT !.konform = Template]

InitPatterns(d) == [d EXCEPT !.patterns = TRUE]

PatchRuffConfig(doc) == IF doc.external \/ doc.lint = "header" THEN doc ELSE WithExternal(doc)

InitRuffCompat(d) ==
    IF d.pyproject.kind # "absent" /\ d.pyproject.ruff THEN [d EXCEPT !.pyproject = PatchRuffConfig(@)]
    ELSE IF d.ruff.kind # "absent" THEN [d EXCEPT !.ruff = PatchRuffConfig(@)]
    ELSE d

InitCommand(force, noPatterns, diff) ==
    /\ Given
    /\ LET configured == InitConfig(docs, force)
           patterned == IF noPatterns THEN configured ELSE InitPatterns(configured)
       IN  docs' = IF diff THEN docs ELSE InitRuffCompat(patterned)
    /\ run' = [pc |-> "initialised", force |-> force, diff |-> diff, exit |-> 0]
    /\ UNCHANGED <<text, git, dirs, cache, report, edits>>

(* `rule`: --list, --explain of a code, --test of the user-defined rules'      *)
(* snippets, which does not run on a broken configuration.                   *)
RuleCommand(mode, found) ==
    /\ Given
    /\ run' = [pc |-> "rule",
               exit |-> CASE mode = "list" -> 0
                          [] mode = "explain" -> IF found THEN 0 ELSE 2
                          [] mode = "test" -> IF Broken THEN 2 ELSE IF found THEN 0 ELSE 1
                          [] OTHER -> 1]
    /\ UNCHANGED <<docs, text, git, dirs, cache, report, edits>>

(* The process has ended, and what it said has been read. *)
Exit ==
    /\ run.pc \notin {"idle", "check"}
    /\ run' = Idle
    /\ UNCHANGED <<docs, text, git, dirs, cache, report, commands, edits>>

-----------------------------------------------------------------------------
(* Users. *)

Edits == run = Idle /\ edits < MaxEdits /\ edits' = edits + 1

EditSettings(which, doc) ==
    /\ Edits
    /\ docs[which] # doc
    /\ docs' = [docs EXCEPT ![which] = doc]
    /\ UNCHANGED <<text, git, dirs, cache, report, run, commands>>

EditFile(f, left) ==
    /\ Edits
    /\ text[f].there /\ text[f].left # left
    /\ text' = [text EXCEPT ![f].left = left, ![f].stamp = @ + 1]
    /\ git' = [git EXCEPT !.working = @ \cup {f}]
    /\ UNCHANGED <<docs, dirs, cache, report, run, commands>>

Commit ==
    /\ Edits
    /\ git.working # {}
    /\ git' = [working |-> {}, last |-> git.working]
    /\ UNCHANGED <<docs, text, dirs, cache, report, run, commands>>

Command(a) == ShowSettings(a) \/ Refuse(a) \/ ShowFiles(a) \/ Diff(a) \/ Begin(a)

Next ==
    \/ \E a \in CommandLines : a.from \in Paths /\ Command(a)
    \/ Check \/ Exit
    \/ \E from \in {a.from : a \in CommandLines} : Clean(from)
    \/ \E force, noPatterns, diff \in BOOLEAN : InitCommand(force, noPatterns, diff)
    \/ \E mode \in {"list", "explain", "test", "none"}, found \in BOOLEAN : RuleCommand(mode, found)
    \/ \E which \in {"konform", "pyproject", "ruff"} :
          \E doc \in Documents[which] : EditSettings(which, doc)
    \/ \E f \in Files : \E left \in {{}, Raw[f]} : EditFile(f, left)
    \/ Commit

Spec == Init /\ [][Next]_vars

-----------------------------------------------------------------------------
(* Properties. *)

(* What the key leaves open: whether a glob matches an absolute path depends   *)
(* on the working directory and on where the configuration is, and files of   *)
(* different directories may have the same relative path.                    *)
AbsoluteFromRoot == \A a \in CommandLines : a.absolute => a.from = Root
OneFilePerPath ==
    \A a, b \in CommandLines, f, g \in Files :
        Under(a.from, f) /\ Under(b.from, g) /\ Spelled(f, a) = Spelled(g, b) => f = g

(* Whatever was cached by earlier runs, under other settings and arguments,   *)
(* a run reports for each file what linting it now, under its own settings,   *)
(* gives (settings_hash; rules_fingerprint is to hash "everything that        *)
(* changes lint results").                                                   *)
ReportsAsLinted ==
    [][run.pc = "check" =>
          \A f \in Targets(run.settings, run.args) :
              UNION {r.results : r \in {r \in run'.found : r.path = Spelled(f, run.args)}} =
                  Lint(run.settings, run.args, f)]_vars

(* A run from the root fails, and only fails, for a violation that reaches    *)
(* the threshold of its file, which is another one when the file is changed;  *)
(* a broken configuration and a report that cannot be written end it with 2.  *)
(* (From other directories git and konform name files differently.)          *)
ExitTells ==
    [][run.pc = "check" /\ run.args.from = Root /\ ~run.args.absolute =>
          LET a == run.args
              Threshold(f) == IF f \in GetChangedFiles THEN a.changedLevel ELSE a.level
              bad == \E f \in Targets(run.settings, a) :
                        \E v \in Lint(run.settings, a, f) : AtLeast(v.level, Threshold(f))
          IN  run'.exit = IF a.format = "zuul" /\ report.kind = "odd" THEN 2
                          ELSE IF bad /\ ~a.exitZero THEN 1 ELSE 0]_vars

(* Every violation of a run is told, where and of which rule, in the format   *)
(* asked for and in the file of --output-file.  The Zuul report has each as a  *)
(* comment or a warning and keeps what others wrote in it, or it is left       *)
(* alone and the run fails (write_zuul_return, emit_zuul_return).             *)
Told(items) == {[i EXCEPT !.level = ""] : i \in items}
ReportComplete ==
    [][run.pc = "check" =>
          LET all == Told(Items(run'.found))
          IN  /\ Told(run'.file) = all
              /\ run.args.format # "zuul" => Told(run'.shown) = all /\ report' = report
              /\ run.args.format = "zuul" =>
                    \/ report' = report /\ run'.exit = 2
                    \/ /\ run'.exit # 2
                       /\ report.kind = "object" => report'.foreign = report.foreign
                       /\ all \subseteq Told(report'.comments \cup report'.warnings)]_vars

(* `clean` removes neither the repository nor the directory it is run from,   *)
(* and no user's file unless a check kept its cache in a directory above it,  *)
(* whatever the cache directory was set to in between (clean_refusal).       *)
CleanSparesProject ==
    [][/\ {Root} \cup (IF run'.pc = "cleaned" THEN {run'.from} ELSE {}) \subseteq Paths'
       /\ \A f \in Files : text[f].there /\ ~text'[f].there =>
             \E d \in dirs : d.tag /\ d.path # Root /\ IsPrefix(d.path, f)]_vars

(* `init` without --force breaks no configuration and changes one setting at  *)
(* most: with a konform table of its own a pyproject.toml gets the `src` of   *)
(* its [tool.ruff], which it had not before (load_config_file returns early).  *)
(* With --diff it changes nothing at all.  (Tables written as dotted keys are  *)
(* not recognised: those files it does break.)                               *)
GetsRuffSrc ==
    /\ docs.konform.kind = "absent"
    /\ docs.pyproject.kind = "toml" /\ docs.pyproject.konform = "none"
    /\ docs.pyproject.ruffSrc # NoSrc
InitKeepsSettings ==
    [][run'.pc = "initialised" /\ commands' # commands =>
          /\ run'.diff => docs' = docs
          /\ ~run'.diff /\ ~run'.force
                /\ docs.pyproject.konform # "keys" /\ docs.pyproject.lint # "keys" =>
                /\ Broken' = Broken
                /\ Effective' = IF GetsRuffSrc
                                THEN [Effective EXCEPT !.src = docs.pyproject.ruffSrc]
                                ELSE Effective]_vars
=============================================================================
