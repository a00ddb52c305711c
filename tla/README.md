# konform in TLA+

konform is a linter for Python: a command line tool (`konform check`, `--fix`,
`--watch`, `server`, `init`, `clean`, ...) and a language server, with a violation
cache shared between runs, rules about imports, rules a project writes itself
(patterns over lines, matchers over syntax trees) and a probe that answers whether an
imported name is a module. These modules specify what several processes do to one
cache file and to one configuration file while users edit, what a watcher shows, what
a language server and an editor make of one document, what worker threads find in a
shared memo, what is remembered of a Python environment that changes, what a run
reports and how it exits, and what fixes, made pass after pass or one at a time, do to
a file. TLC checks them on small instances. The safety properties of the check command, the cache's
expiry, the watcher, the module probe, the saved Python environment, the configuration and its
migrations, the language server, the fix engine and the commands one after another are also proved with
TLAPS, for any number of processes, threads, files, documents, names and rules.

Paths are relative to the repository; the Rust sources are under `src/`.

## Inventory

| Component | Source | State | Operations | Interacts with | What is hard | What makes it correct |
|---|---|---|---|---|---|---|
| Violation cache | `src/cache.rs` | package on disk (path, key, last_seen, violations); in memory also pending, touched, dirty | open, get, set_linted, invalidate, persist | the check command, the watcher, other processes through the file | concurrent writers, damage, edits between stat and read, throttled refresh, eviction, size limit | a hit replays what linting would give; entries in use stay |
| Check command | `src/main.rs` run_check | files to do, results | walk, fix pass, parallel check pass, persist, report | cache, engine, probe | a file changes between any two steps; one file fails | the report is the one a run without the cache could give |
| Watch mode | `src/main.rs` run_watch_loop | channel of events, set of paths, the Cache it opened | register, receive, debounce, recheck_batch | cache, file system events | edits during a batch, deleted files | it shows every change it was told of, and never stops |
| Settings, reports, exit code | `src/main.rs`, `src/cache.rs` settings_hash, `src/output.rs`, `src/git.rs` | the Zuul report on disk | apply_cli_overrides, hashing, every output format, thresholds | cache, configuration | results replayed under other settings; a report merged into an existing file | all is told, in the right place; the exit code says it |
| init, clean | `src/main.rs`, `src/config.rs` | configuration files, directory tags | one-shot | configuration, cache | what `cache-dir` was set to in between | no setting and no file of the user is lost |
| Configuration and migrations | `src/config.rs`, `src/migrations/` | files, the loading processes | discovery, upgrade and write-back, extend, merge | everything | two processes rewrite one file; a kill half way; circles of extend | every load says what the files say; rewriting keeps them |
| Module probe | `src/module_probe.rs` | memo of names and of packages, shared by threads | check, is_module, is_module_recursive | import rules | circular re-exports, two threads at once | memo and answers equal what a lone query finds |
| Python environment | `src/module_probe.rs`, `src/cache.rs` | the interpreter's answer and the stamps that guard it; fingerprint of sys.path | load_info, query_interpreter, store_info, env_fingerprint | cache (settings hash), probe | packages come and go between the steps | a saved answer or result is used only while it is right |
| LSP session | `src/lsp/session.rs` | documents with cached diagnostics, configuration | open, update, close, reload, editor settings | main loop | cached diagnostics of an older text or configuration | the cache is of the text it is used with |
| LSP main loop | `src/lsp/handler.rs`, `src/lsp/mod.rs` | stale documents, pending requests, shutdown state | every notification, request and response | editor, over two channels | coalesced edits, answers out of step, shutdown | the editor ends up with current diagnostics; every request has one response; the process ends |
| Positions and edits | `src/lsp/convert.rs` | none | offsets, incremental changes, diffs as edits | session, main loop | two encodings, line endings, hunks that touch | editor and server hold one text |
| Fix engine | `src/engine.rs` | source text, pass, whether the pass changed it | run_check, run_fix | rules | fixes bring up violations of other rules, or go in circles; who may fix what is decided in three places | ends; does what is permitted and all of it |
| Suppression | `src/rules/mod.rs`, `src/rules/knq*.rs`, `src/main.rs` add_noqa | comments of a line | parse, merge, apply, add | engine, LSP | text changes between lint and annotation; repeated runs | what was seen is silenced, once; nothing is taken away |
| Scope analysis | `src/rules/scope.rs` | none | bound, read and exported names | import rules | shadowing, class bodies, comprehensions | never under-reports what a name means |
| Import rules | `src/rules/kis001.rs`, `kis002.rs` | none | check, fix, quick fix | scope, probe | the verdict and the rewriting are separate code; fixes meet in one statement | names mean what they meant |
| Pattern rules | `src/rules/kpt.rs` | compiled patterns of the process | load, compile, prefilter, match, fix | engine, cache | line and text matching, noqa, sources that change | what is offered works; replay equals lint |
| Structural rules | `src/rules/kst/` | compiled matchers, the process's memo | load, compile, match, fix, self-test, `konform ast` | engine, cache | nested edits, aliases, blocks left empty | the same; the tools for authors tell the truth |
| Schema, command line, docs, theme, Zed extension | rest | - | - | - | - | - |

`PROJECT.json` lists every component with its status, and under `hazards` what is
hard to test, at the line where it bites.

## Modules

| Module | Models | Extends / uses |
|---|---|---|
| `CacheStore` | one `Cache` object and the file it is read from and encoded into, as operators | |
| `CheckRun` | any number of `konform check` processes, users and a file system around one cache file | `CacheStore` |
| `UncachedLint` | abstract: a check that lints every file itself | refined by `CheckRun` |
| `CacheExpiry` | `CheckRun` with history: when a run last used an entry, and what its fix pass took out | `CheckRun` |
| `WatchMode` | `--watch`: watcher, batches and their persist | `CheckRun` |
| `ModuleProbe` | the probe's memo and worker threads | |
| `PythonEnvironment` | the saved interpreter answer and the fingerprint, against installs | |
| `TomlTree` | a TOML document as a map from paths to values; laying one over another; the konform table in it; both migrations | |
| `ConfigLoad` | processes that find, upgrade, merge and read configuration files that users edit | `TomlTree` |
| `ProjectRun` | one command after another: settings, cache key, reports, exit code, `init`, `clean` | `NoqaComments` |
| `LspSession` | documents and configuration of the server, as operators | |
| `LspServer` | the main loop, the editor, two channels, the configuration file | `LspSession` |
| `NoqaComments` | rule selection, `# noqa` comments, KNQ001-003 and annotation, as operators | |
| `FixEngine` | `run_check`, `run_fix`, `--add-noqa` and quick fixes on one file that is edited | `NoqaComments` |
| `PyScope` | the scope analysis, and what Python makes of a name | |
| `ImportRules` | KIS001 and KIS002: verdicts and rewriting | `PyScope` |
| `PatternRules` | KPT: sources, compilation, matching, fixes | |
| `StructureRules` | KST: sources, compilation, matching, fixes, self-tests, `konform ast` | `PatternRules` |
| `EditorText` | positions, incremental changes and edits of a text in bytes and UTF-16 units | |
| `RuleFixes` | one file under one family of rules, checked, replayed and fixed; one document between editor and server | `ImportRules`, `StructureRules`, `EditorText` |
| `CheckRun_proofs` | type correctness, current hits, the implementation of `UncachedLint`, the life of entries | `CacheExpiry` |
| `ConfigLoad_proofs` | migrations and rewrites keep what was written; where loads may go; what they give | `ConfigLoad` |
| `ModuleProbe_proofs` | types, memo and verdicts of the probe | `ModuleProbe` |
| `PythonEnvironment_proofs` | saved answers and replayed results are current | `PythonEnvironment` |
| `WatchMode_proofs` | a watcher's mistakes are repaired; an idle one shows what it was told | `CheckRun_proofs`, `WatchMode` |
| `LspServer_proofs` | diagnostics, code actions and configuration once all is received | `LspServer` |
| `FixEngine_proofs` | what is fixed, when it is done, what annotations do | `FixEngine` |
| `ProjectRun_proofs` | what runs report and how they exit; what `clean` and `init` spare | `ProjectRun` |
| `MC*` | instances for TLC | |

An operator introduced by "A slip" stands for a plausible mistake in the
definition that follows it. With the slip in place of that definition TLC finds
the property named with it in `PROJECT.json` violated; otherwise nothing uses it.

### The cache and the processes that share it

A file is `[present, stamp, ver]`. `ver` names its text and is new with each
write; `stamp` is what `FileCacheKey` reads (modification time and permissions).
A result is the input it was computed from (`Lint`): two results are equal only if
the linter was given the same text and the same treatment of `# noqa`.
`Start` is the walk plus `Cache::open`; `FixRead`, `FixWrite`, `FixSkip`, `FixDone`
are the fix pass; `Stat` is `FileCacheKey::from_path` with `Cache::get`, `Read` is the
read and lint of one parallel worker; `Collect` is `set_linted` for every miss with the
first half of `persist_at`, whose rename is `Rename` or `RenameFails`. A process can
`Crash` between any two of these.

The state of a process is its own, so a step that reads the disk once and
otherwise touches only that state is one action: `persist_at` reads nothing after
the process has opened the cache, and its temporary file has a name of its own.

`KeyOf` maps a way of naming files (working directory and arguments) and a file to
the path string stored in the cache, and `FineStamps` says whether every write
changes the stamp. Both are parameters because the code guarantees neither; see
"Divergences".

### Watch mode

`Others` is any step of the processes or users as the watcher thread sees it: it adds
an event for each file that changed. `Receive` is one turn of the receive loop,
`Debounce` the timeout that starts a batch, `Relint` and `Store` the two halves of
`recheck_batch` for a file: in the code the stamp is read after the lint, so an edit
fits between them. Events may name a file differently than the arguments did, which
`EnterWatch` leaves open.

### The module probe

A key is a pair (module, attribute). All that `check_filesystem` can find for a key
is its list of leads: a file, or another key that an `__init__.py` re-exports. A
thread's recursion is explicit (`stack`, with the position in the leads), since other
threads write to the shared memo between any two of its steps.

### The Python environment

Directories of sys.path have stamps; a `.pth` file in one of them adds another;
the user site exists or not. A change below a directory does not change its stamp.
`surprise` names the case a behaviour includes and the code does not guard against.
A run gets the saved answer or asks, stores it, opens the cache under the fingerprint
and replays or lints the one file whose result depends on the environment. A directory
that is not there has one stamp however often it comes and goes, so `ReplayCurrent`
speaks of results found while all directories of sys.path were there.

### Configuration

A TOML document maps the path of each node to its value, or to `Branch` where there is a table, so that
lookup, merging and migration are operators on functions: a migration moves each node to its new place
(`LintPlace`, `TablePlace`). Comments and layout are not in it. `Says` is the reference: what a konform table
says in either shape, as a set of settings under today's names. A load is
the walk up (`Start`), then one step per file access of `load_config_file`: `ReadCurrent`,
or `ReadOutdated` and, where the file may be written, `Truncate` and `Fill`, the two halves of
`std::fs::write` (`src/config.rs:486`), between which other processes read and a kill may come;
`UseCopy` is the branch for a file that cannot be written. The next file of an `extend` chain,
the merge and the deserialisation need no further access and end the step that read the last file.
`wrote` remembers what the user last put into each file: it is what a load is compared with; `result`
holds what a load gave until that process starts the next one.

### Commands, reports, init and clean

`ProjectRun` takes one command at a time, since what processes do to each other is `CheckRun`'s
subject: a command or an edit starts once the one before has ended and been read (`Exit`). What it adds
is everything a run is a function of. `SettingsHash` is `settings_hash` field by field: a cached result belongs to a directory, a key, a path string and a stamp. The lint of
a file is what its settings leave of what there is to find (selection, per-file ignores,
comments), so a key that forgot a setting would replay what another setting left. What an import resolves to depends on the search roots
(`src`): `Raw` says under which of them a violation is there, and the key has them through the fingerprint of the probe. They are the one setting with a stand-in
outside konform's table, `[tool.ruff] src`, to which `Effective` turns as `load_config_file` does: only where there is a konform table. `Check` reports what
the operators from `Item` to `WriteZuulReturn`, which are `output.rs`, make of it: what is shown, what goes to `--output-file`, and the Zuul
report with its comments and warnings and the parts others wrote. `Clean` and `InitCommand` act on
directories with their tags and on configuration files whose tables may be written as headers,
as dotted keys or not at all.

### Rules on files

A file under the import rules is a sequence of statements, each with its block, what it
imports, binds and reads; `PyScope` holds both what konform believes of a name and, next to it,
what Python does with it (`Denotes`), so that "the fix keeps the meaning" can be said. For
patterns a file is lines of words; for structural rules it is a tree, whose nodes lie in
the order of their text. `RuleFixes` puts the rules to work as the program does: a check of
the engine, afresh or replayed from the cache of an earlier process whose key is the fingerprint
of the rules, one quick fix at a time as an editor takes them, or a whole pass; in between
the project's rule files are edited and processes come and go, taking their compiled
rules (`memo`) with them.

`FixKeepsMeaning` holds for files that are `Plain`. Each part of `Plain` excludes one thing the code
gets wrong, which is how they were found; see "Divergences".

A document (`topic = "document"`) is a sequence of characters with a width in either encoding,
which the editor and the server hold separately. What a user types travels as an incremental change in
positions of the negotiated encoding and is applied by `Update`; what rules make of a text
travels back as the edits of `LineDiffEdits`, of `FullDocumentEdit` or of a suppression (`NoqaLineEdit`).

### The language server

The loop is one thread, and a handler touches the session and the outgoing channel
only, so one handler is one action. What interleaves is the editor, the user and the
configuration file. A text is the number of the edit that wrote it; an incremental
change names the text it was computed on. `Users` says what the user of a behaviour does, and how often. `Flush` is the publication of coalesced edits when the
channel is empty.

### Fixing and annotating a file

The text of a file is where rules find something when they ignore comments (`faults`), and
the comment of every line. A rule is abstract in its analysis only: a constant says with
which code and line a fault is reported, on which lines a comment silences it, which faults its
fix brings up and which comments it drops (KIS001 rewrites the whole statement). Who decides
what is kept: `Active`, `Called` and `CanFix` are the engine's gates, `FixPatterns` and
`FixStructure` those of KPT and KST, `Rejected` is the syntax check after each rule.
`FixRule` is one turn of the inner loop of `run_fix`, `EndPass` the end of a pass. A comment is what
`parse_noqa` makes of it; its reason is none, one that says too little, a good one glued to
the directive, or a good one of its own.

Assumed: the file parses to begin with; line numbers do not move (an edit during
`--add-noqa` changes what is on a line); imports continued with a backslash, which KIS001 reports as
fixable and does not fix, do not occur. `Outer` says which KST edits overlap; the instance has
none that do.

## Runs

| Run | Shows | Bounds and why they are enough |
|---|---|---|
| `check_safety` | types, current hits (`HitsAreCurrent`), the cached check refines the uncached one (`LintsWithoutCache`) | two processes that overlap on one file with two writes, the least that separates stat, read and store of one from an edit and a store of the other; or processes in sequence on two files with every combination of options and one write or one tick. Deletion, crashes and damage are not bounded |
| `check_liveness` | a damaged file heals (`DamageHeals`); processes that overwrite each other's packages come to rest (`EventuallyQuiet`) | two processes, two files, one each; no writes, since the properties are about a tree left alone |
| `cache_expiry` | an entry expires only when no run has used it for long enough, or when its own run rewrote the file (`InUseNeverExpires`) | runs with `--fix`, with `--ignore-noqa` and with neither; days 0 to 3 with a throttle of 1 and a life of 2 (1 and 30 in the code): each limit can be met and passed; three files, two of which fit. One process: concurrent writers may lose each other's refreshes, which costs a lint and nothing else |
| `watch` | mistakes last until the next batch only (`WrongOnlyUntilNextBatch`); an idle watcher shows what it was told (`IdleShowsNoticed`); it drains (`WatchDrains`) | one process, one file, two names for it, three writes: before, during and after a batch |
| `probe` | memo (`FoundIsModule`), verdicts (`VerdictsRight`), every query answered (`EveryQueryAnswered`) | three names with up to two leads each, with and without circles, two threads, two queries |
| `probe_cycle` | counterexample to `CachedIsResolved` | see Divergences |
| `python` | saved answer (`SavedAnswerCurrent`) and replayed results (`ReplayCurrent`) are current | two processes, three directories, two changes |
| `lsp` | the editor shows current diagnostics (`SettledShowsCurrent`), code actions fit the text (`CodeActionsMatchText`), what the file excludes and what the editor sets arrives (`SettledFollowsFile`, `SettledFollowsEditor`); once the user pauses the server catches up (`SettlesOrEnds`); it answers (`EveryRequestAnswered`) and ends (`EndsWithClient`) | users of up to four steps, each of a kind that meets: edits of two documents, code actions and configuration changes, settings, shutdown with and without interruption, hanging up; four edits at most |
| `fix` | fix runs end (`FixEnds`) and converge (`ConvergedIsClean`), only what is permitted is fixed (`FixesOnlyPermitted`), annotations silence (`AddNoqaSilences`) and keep (`AnnotateKeeps`) | two commands, or one with an edit before it annotates; an import statement over two lines with three names and an alias, a line whose three faults bring one another up in a circle, a line that cannot take a comment and whose fix breaks the syntax; four configurations; four passes (100 in the code): every text but those with the circle comes to rest before the cap |
| `config` | no rewriting loses a setting (`RewriteKeepsMeaning`); a load gives what its files say, and leaves them upgraded (`LoadedAsWritten`); it stays in its repository and reads no file twice (`LoadKeepsBounds`) | two processes, one save and one kill: the least that makes one rewriting cross another, a save or a death; four files, one of them read-only, in the directory, at the root, in a shared place and above the repository, with every shape a migration knows and chains of three, circles and broken links |
| `project` | results replayed are those of this run's settings (`ReportsAsLinted`), the exit code (`ExitTells`) and every report (`ReportComplete`) tell all, `clean` spares the project (`CleanSparesProject`), `init` breaks no configuration and changes no setting but, in one case, `src` (`InitKeepsSettings`) | three commands and one edit: a check, another, and one more after a change; two lines, two codes of which one is opt-in; two values of `src`, with and without a konform table beside ruff's; every option once alone and with those it interacts with |
| `rules` | fixes keep what names mean (`FixKeepsMeaning`), do what was offered (`OfferedFixWorks`) and no more (`QuickFixStays`); replay (`ReplayedAsFresh`) and the tools for authors (`ToolsForetell`) tell what the rules do; a document stays one text (`EditorInSync`) | one edit of the rules between processes, two fixes: a fix that meets what another left; small files made for the cases the code treats apart (a name imported twice, aliases, shadowing, nested blocks, captures; overlapping edits; characters of different widths and every line ending) |

Bounds are constants: `MaxWrites`, `MaxTime`, `MaxQueries`, `MaxClock`, the steps of `Users`,
`MaxEntries` (the size limit of the cache file, counted in entries), `MaxEvents` and `EditPhases`
(commands and edits of `fix`), `MaxPasses` (the code's own limit, smaller), `MaxEdits`, `MaxCrashes`,
`MaxCommands`, `MaxFixes`. Deadlock is checked in the runs of the cache, the watcher and the configuration.
The others stop when their bound is used up, which is why theirs switch it off.

The runs have one type invariant, that of the cache, which is the one the refinement rests on.
`ModuleProbe`, `LspServer`, `FixEngine` and `WatchMode` state theirs too (`TypeOK`, `WatchTypeOK`): they hold
when they are added to the configuration, and all four are proved.

Fairness. `CheckRun` has none: `DamageHeals` supposes, in its statement, runs that come to
their end, and `EventuallyQuiet` only a tree that nobody damages. A watcher's steps are
weakly fair: its thread waits in `recv` and nothing blocks it. A worker of the probe holds
a lock only for one lookup or insertion, so each thread's steps are weakly fair. A fix run is a
loop of one thread that waits for nobody: its steps are weakly fair. For
the server the main loop is weakly fair, and so are the parts of the editor that
follow the protocol (receiving, answering, announcing a changed file, sending `exit`
after the response to `shutdown`); users are not. `SettlesOrEnds` has a premise of its own, that the user does nothing more from
some moment on (`UserPauses`), which the bound on steps makes true of every behaviour of the run; without it the claim is false of the code (see Divergences). `ConfigLoad`, `ProjectRun` and `RuleFixes` claim safety only and
assume none: that a load ends follows from `LoadKeepsBounds`, each of its steps adding a file to a chain without repetition.

## Proofs

`CheckRun_proofs` proves, for any number of processes, files, path strings and writes and whatever the bounds:

* `TypeCorrect`: `Spec => []TypeOK`. Not inductive alone: `Collect` stages `res[p][f]` of the
  linted files, so the invariant `TypeInv` adds that a linted file has a result.
* `HitsAlwaysCurrent`: `Spec => []HitsAreCurrent`, if `FineStamps` and if a path string names one
  file (`OneFilePerKey`). `HitsAreCurrent` speaks of stored entries only. The invariant
  `SoundInv` carries it back to where an entry comes from: every stamp that is stored, staged
  or waiting next to a missed or linted file is at most the last write (`StampsOld` for
  the files), and if the file still has it, the result is that of its present text; a run
  with `--ignore-noqa` has an empty cache. `SoundLater` is the core: steps that give
  only fresh stamps never make a sound result unsound. Each action then has a lemma of its own.
* `CacheIsTransparent`: under the same assumptions `Spec => LintsWithoutCache`, step by step:
  a hit is a lint at that moment by `SoundInv`, and a miss lints what is on disk; the other
  steps are stutters or map to one step.
* `UsedNeverExpire`: `ExpirySpec => InUseNeverExpires`, if runs do not overlap (`OneProcess`): any number of them, one
  after the other, with any options, files and damage in between. What a write keeps depends on what was on disk when the
  cache was opened, so the invariant `ExpiryInv` says that until the run stages its results, its cache is what is on disk but for
  what its own fix pass took out, and that the entries marked as touched are those of its hits; from then on until the
  rename, that each use is in the package about to be written and that what it lacks was older than `EvictAfter` days. Across runs no entry's
  date lies more than the throttle behind its last use (`Fresher`). Two writers that overlap break that: one puts back the
  package it read before the other refreshed an entry, which costs a lint and no more.

`ModuleProbe_proofs` proves, for any number of threads, any finite set of names and any re-exports:

* `ProbeTypeCorrect`: `Spec => []TypeOK`, inductive as it stands.
* `FoundAlwaysModule`: `Spec => []FoundIsModule`: what the shared memo calls a module leads to a file.
* `VerdictsAlwaysRight`: `Spec => []VerdictsRight`: where nothing is circular every verdict is right.
  The memo alone does not carry either: the invariant `ProbeInv` says what a call in progress knows.
  Each call on a thread's stack is for the lead its caller is at (`Linked`); an answer on its way back is
  right for the name its receiver waits for (`Returned_sound`, `Return_missed`); the leads a call has left behind
  all failed (`Behind_missed`), so that "no" is right when they run out (`LeadsNowhere`). The cycle guard is
  where circularity matters: a name met again is on the stack or in the memo already, and if it is on the
  stack, the names from there to the top each lead to the next, and the last to the first, which `NeverAgain` shows
  `Acyclic` excludes. `OneThread` reduces a step to the thread that makes it: the others only see
  the memo grow.

`PythonEnvironment_proofs` proves, for any number of runs, directories and changes:

* `SavedAlwaysCurrent`: `Spec => []SavedAnswerCurrent`: a saved answer that is accepted is today's sys.path.
* `ReplayAlwaysCurrent`: `Spec => []ReplayCurrent`: a result that would be replayed is what a lint would find.
  Neither says how the saved thing came about. The invariant `EnvInv` adds that stamps are never given twice
  (`Past`: what is saved or held was given before now), that what was saved is right as long as its stamps fit
  (`SavedOK`, `ResultsOK`), and what a run holds at each stage on its way there (`Holds`). `ChangeMoves` is the core: a
  directory whose stamp a change leaves alone is itself left alone, so that guards that fit after the change fitted
  before it (`StillRight`); `OneRun` reduces a step of a run to what that run holds.

`WatchMode_proofs` extends `CheckRun_proofs` and proves, for any number of watchers, files and spellings:

* `WatchTypeCorrect`: `WatchSpec => []WatchTypeOK`.
* `WrongUntilNextBatch`: `WatchSpec => []WrongOnlyUntilNextBatch`, if a path string names one file: an entry of an older text
  is stored only while the event of the edit waits.
* `IdleAlwaysShowsNoticed`: `WatchSpec => []IdleShowsNoticed`.
  The invariant `WatchInv` is `TypeInv` of the check with, per watcher, what it is busy with (`StageOK`), what holds between
  the two halves of `recheck_batch`, where the entry is gone and the result is of the present text or an event is waiting (`BetweenOK`), and that
  every noticed file that is not in the backlog is shown and stored as it is (`DoneOK`). None of it needs `FineStamps`. A step of anybody else
  puts each file that it moves into the backlog of every watcher (`Unmoved`), and so cannot break `DoneOK`.

`ConfigLoad_proofs` proves, for any number of processes, saves and kills, any tree of directories, any files and any documents in them:

* `RewriteKeepsWhatWasWritten`: `Spec => []RewriteKeepsMeaning`. That a migration changes no meaning is the lemma `MigrateKeeps`: the rewritten document is
  one, its konform table says what it said (`Says`), and everything outside that table is as it was. The paths of a table are moved apart by either
  migration (no two to one place, `lint` being absent in the flat shape), so that each leaf can be followed to its new place and back. What a file holds between two
  rewrites is the invariant `RewriteInv`: unless a save or a kill cut across a rewrite, a file means what its user
  wrote, or it is empty and some process is about to fill it, and every process that will still write to it has in hand a text that means the same. The last part is what
  makes it inductive: two processes may hold the same outdated text, and each empties the file under the other.
* `LoadStaysInBounds`: `Spec => []LoadKeepsBounds`. Nothing tells a load under way which directories its walk passed, and files come and
  go behind it; the invariant `BoundsInv` says that it comes from a directory that the walk reaches before it leaves the repository, and that, for
  as long as nothing has disturbed it, no directory below has a configuration, nor will a rewrite under way bring one back (`UnderWay`).
  The cache's directory cannot lie below the configuration's for that reason. A chain of `extend` grows only by a file that is not in it.
* `LoadsSayWhatWasWritten`: `Spec => LoadedAsWritten`, if no table of a configuration is empty (`FilledContents`; an empty table in one file may take the
  place of a plain value in another, which the settings of either do not tell; the contents of the run `config` satisfy it). The reference speaks of what users wrote,
  setting by setting, and of neither migrations nor tables: the links say which chain may be followed (`Followed`), and of the settings that clash along it
  the nearest file's stays (`LastWords`, `Expected`). The invariant `TellInv` says of a load that nothing has disturbed that each file of its chain extends the next and
  that each layer it has taken holds exactly what that file's user set beside the link (`CameThisWay`), that what it passed is upgraded
  (`Upgraded`), and that a text about to be written means what its user wrote; and of everybody, that no table becomes empty and that nobody is about to write an
  outdated text (`SoundTexts`), which would undo another's upgrade. From `RewriteInv` it takes what a file means, from `BoundsInv` that
  a rewrite brings no file back. Under it lie lemmas for every document: merging two tables hides what clashes and nothing else (`MergeLeaves`), merging a chain of
  any length leaves the last words (`MergedSays`, along a well-founded order), a migrated table has no old name left and needs no second
  migration (`MigratedCurrent`), and neither leaves a table empty (`MigratedFilled`).

`LspServer_proofs` proves, for any documents, settings and numbers of steps of the user:

* `Invariant`: `Spec => []Inv`, and from it `ServerTypeCorrect` (`TypeOK`, which says among others that no patch was
  computed on another text), `CodeActionsAlwaysMatch`, `SettledAlwaysShowsCurrent`, `SettledAlwaysFollowsFile` and `SettledAlwaysFollowsEditor`.
  The properties speak of moments when nothing is under way; `Inv` says what is under way at all others. The messages in the
  channel lead, version by version, from the server's text of a document to the editor's (`TextsFollow`). A document
  that was not edited since has its diagnostics cached and the last word the editor will hear of it is theirs (`UpToDate`,
  `LastWord`); an edited one is listed once (`StaleOnce`). A change of the file is known or announced (`FileFollows`); the editor's settings
  are asked for, or the last answer under way is the present one, which needs that a request is in one place at a time
  (`EditorFollows`, `IdsOnce`). Messages are lost only behind a request to shut down (`Leaving`). `MainLoop`, its handlers and the steps of the
  editor keep these parts one after the other.

`FixEngine_proofs` proves, for any rules, faults, texts and configurations:

* `FixTypeCorrect`: no rewriting of a comment leaves one without codes and text, which would silence everything.
* `FixesAlwaysPermitted`: `Spec => FixesOnlyPermitted`. Who may fix is decided in the engine for some rules and in KPT and KST for
  others; `RuleOf` and the gates of each are put together.
* `AddNoqaAlwaysSilences`: `Spec => []AddNoqaSilences`, and `AnnotatingKeeps`: `Spec => AnnotateKeeps`. What was seen is what is there as
  long as nobody edits (`SawText`); annotating only makes comments silence more, so nothing new can be reported, and KNQ003, which reports comments that silence
  nothing, finds none among the codes that were added since each has its violation.
* `ConvergedAlwaysClean`: `Spec => []ConvergedIsClean`, if `RulesSettle`. While a pass has changed nothing, the rules that had their turn are
  through with the text (`Done`): each was not called, rejected for its syntax, or found nothing that it may fix. The last case needs the hypothesis: `run_fix`
  compares the texts before and after a rule (`src/engine.rs:253`), and two patterns of KPT that undo each other leave the same text with violations
  in it; see Divergences. The patterns are applied by a recursive function over the pattern list; that a step that changed
  nothing leaves nothing to do is shown along it by a well-founded order, since induction with an operator as parameter is not available.

`ProjectRun_proofs` proves, for any files, rules, configurations and command lines:

* `CleanAlwaysSpares`, `InitAlwaysKeeps` and `ReportsAreComplete`: `CleanSparesProject`, `InitKeepsSettings` and `ReportComplete`, from `Sound`: the types
  of texts and configurations, that the root exists, and that a run has a command line it was given. `InitAlwaysKeeps` follows the documents through the
  parts of `init` (`InitSettings`): the table that is added sets nothing, so that the defaults stay but for `src` (`EmptyTable`), and what is
  done to ruff's table is seen by no setting of konform's.
* `ReportsAlwaysAsLinted` and `ExitAlwaysTells`: `ReportsAsLinted` and `ExitTells`, if absolute paths are given from the root only (`AbsoluteFromRoot`) and
  no two files go by the same path (`OneFilePerPath`). `EntriesFit` is what the cache has to satisfy: an entry whose path names a file and
  whose stamp the file has holds what a run with that key finds in the present text. `KeyTellsAll` is the core: the key and the path determine everything that
  `Lint` depends on, the selection being read back from the one list that `SelectionKey` makes of two. Without the first hypothesis this
  lemma is false: the attempt to prove it found the first of the divergences of "Configuration, commands and reports".

The constants' assumptions are those of the modules proved about; TLC evaluates them all. One is not checked by
the program: that users name none of their patterns KIS001 or KIS002 (`RulesAssumption`; ids of structural rules are validated,
`src/rules/kst/mod.rs:259`, those of patterns are not). `ConfigLoad`'s say that the parents of a directory
are those of a path (`TreeAssumption`), that a file holds a document or nothing readable (`ContentsAssumption`), and that the names the program knows are
names (`KeysAssumption`); also that neither a missing file nor a table is the name of a file, since `extend` names files.

Only model-checked are:

* liveness and enabledness, which are beyond the prover's reach: `DamageHeals`, `EventuallyQuiet`, `WatchDrains`, `EveryQueryAnswered`, `SettlesOrEnds`,
  `EveryRequestAnswered`, `EndsWithClient`, `FixEnds`;
* the rules on files (`FixKeepsMeaning`, `OfferedFixWorks`, `QuickFixStays`, `ReplayedAsFresh`, `ToolsForetell`, `EditorInSync`), which are recursive over
  scopes, trees and lines.

## Divergences met while modelling

Shown by a run:

* `probe_cycle`: the "no" of the cycle guard is memoised for the names inside the
  cycle (`src/module_probe.rs:510`), so an answer depends on which name was asked for first.

Present in the models, and left out of what the properties claim:

The cache, the watcher and the environment:

* `recheck_batch` (`src/main.rs:907`) reads the stamp after the lint, against the comment at
  `src/main.rs:624`. An edit in between is stored as the new stamp with the old violations; the watcher
  repairs it in its next batch (`WrongOnlyUntilNextBatch`), but if it is stopped first the next run replays them.
* A file that can be stat'ed and not read is stored as clean (`Unread` is a legal result in
  `Current`; `src/main.rs:642`).
* Two writes in one tick of the file system's clock share a stamp: with `FineStamps = FALSE`
  `HitsAreCurrent` fails (`src/main.rs:630`).
* Path strings are relative to the working directory while the cache belongs to the
  repository (`src/main.rs:97`), though `src/cache.rs:625` speaks of an "absolute path": with two spellings that share a
  string `HitsAreCurrent` fails, and files of one name in two directories share an entry (`OneFilePerPath`).
* A file edited between the initial check and the registration of the watcher is not
  checked again until it changes again (`src/main.rs:832`).
* The interpreter's answer is stamped after it was given (`src/module_probe.rs:202`), and the
  fingerprint does not see below the directories of sys.path (`src/module_probe.rs:336`): the two
  cases of `surprise`.
* A directory of sys.path that is missing, goes into the fingerprint as the one word "missing" (`src/module_probe.rs:349`). If it appears
  after the fingerprint was taken and is there while the file is linted, what was found in it is replayed once it is missing again.

The language server:

* A setting removed from the editor keeps its last value until the configuration file is loaded again
  (`src/lsp/session.rs:350`; the comment at `:340` promises the file's value), and a reload of the file drops the editor's
  settings until they change again (`src/lsp/session.rs:288`).
* Code actions for an excluded document still carry document-wide fixes
  (`src/lsp/handler.rs:376`, against `docs/editors.md:23`).
* Edits are published when the queue is drained or a request arrives (`src/lsp/handler.rs:138`): a client that keeps the queue filled with
  notifications delays the diagnostics for as long as it does so. `SettlesOrEnds` is about users who pause.
* A message between `shutdown` and `exit` is lost and the request gets a second response
  (`src/lsp/handler.rs:159`); a configuration edited while the server starts is not
  loaded (`src/lsp/handler.rs:123`).
* Diagnostics carry byte columns where the protocol counts UTF-16 units (`src/lsp/convert.rs:73`, `src/types.rs:52`).

Suppression and fixing:

* `--fix` rewrites what the user suppressed: `run_fix` (`src/engine.rs:207`) never looks at
  per-file-ignores, and `KptRule::fix` (`src/rules/kpt.rs:437`) not at `# noqa`, which the fixes of
  KIS001, KIS002 and KST do look at (`src/rules/kst/mod.rs:1000` tests it). `FixesOnlyPermitted`
  therefore excepts KPT and asks nothing about per-file-ignores.
* KNQ003 looks for violations on the comment's own line (`src/rules/knq003.rs:126`), KIS001 reports on
  the first line of the statement and heeds comments on the line of the name too
  (`src/rules/kis001.rs:613`): the safe fix of KNQ003 removes a comment that works.
* Two patterns that undo each other leave the text as it was and the violations of both in it: `run_fix` compares texts
  per rule, and all patterns are one rule (`src/engine.rs:253`). `--fix` then ends after one pass with fixable violations left (`RulesSettle`).
* `--add-noqa` writes the code `KNQ003` into comments (`src/main.rs:176`), where it has no effect.

Configuration, commands and reports:

* A rewriting truncates the file and then fills it (`src/config.rs:486`): a process that reads in between loads
  the defaults and reports no error; `LoadedAsWritten` speaks of loads that met no such file.
* Per-file ignores are also matched against an absolute path below the working directory (`src/engine.rs:303`), which is not part of the
  cache key (`src/cache.rs:294`), although `docs/caching.md:6` promises a cache "keyed by every setting that affects results". A file checked by its absolute path
  from `pkg/` with `--per-file-ignores a.py:A`, then from the root, replays the result without its violation of A. With two such command lines in
  `CommandLines` TLC finds `ReportsAsLinted` violated in two commands; hence `AbsoluteFromRoot`.
* The globs of per-file-ignores are tried on the path as the arguments spell it (`src/engine.rs:285`), not relative
  to the project as `docs/reference/settings.md:102` says.
* Changed files are named from the repository's root (`src/git.rs:25`) and reported ones from the working directory, so
  from a subdirectory the thresholds for changed files do not apply; `ExitTells` speaks of runs from the root.
* Comments and warnings that are empty leave those of the last run in the Zuul report (`src/output.rs:436`).
* `init` breaks a `pyproject.toml` whose konform table is written as dotted keys.
* A `pyproject.toml` without `[tool.konform]` yields the defaults before `[tool.ruff] src` is looked at (`src/config.rs:422`), although
  `docs/configuration.md:84` names that as the fallback without a condition. The empty table that `init` inserts (`src/main.rs:1264`) thus switches the search roots to
  ruff's, and with them what KIS001 finds; `InitKeepsSettings` states this case as it is. The pattern rules that `init` writes to
  `konform_patterns.toml` find things of their own; they are files beside the settings, and no part of what it speaks of.
* `clean` removes what lies below a directory that a check has tagged, sources included, when `cache-dir` names that directory and it is not the root, the working
  directory or above one of them (`src/main.rs:1463`); `CleanSparesProject` allows no more than that.
* A write of the cache that fails has already taken the results it was to store (`src/cache.rs:744`): a watcher does not try again before the next change,
  and the next run lints those files again.
* In the flat shape a setting may be there under its old and its new name, `cache_dir` and `cache-dir` or `KIS.unresolved_level` and
  `KIS.unresolved-level`. The migration lets the old one replace the new one (`src/migrations/lint_section.rs:82`), without a note that says so; `Overruled`
  takes this as the meaning of such a table.

Import rules (each is a conjunct of `Plain`):

* KIS001 renames through the whole file, with the first import of a local name deciding for every scope (`OnePerName`), also
  reads of a builtin or of another scope's name (`AllBound`, `Used`). `import x`, relative imports and imports below `try`, `with` or
  `for` do not count as binding a name, though the documentation of the rule (`src/rules/kis001.rs:112`) has it bow to "a different import".
* The names taken by fixes of other clauses are counted whether or not those fixes are made (`src/rules/kis001.rs:435`); an import that fixing makes may
  rebind a name in use (`Fresh`) or drop an import that another scope's equal line seems to provide (`src/rules/kis001.rs:950`, `OneBlock`).
* The new import goes below the last `from` import although a line above reads it (`ImportsFirst`); `a, a as y` of one statement
  lose both (`OncePerImport`); captures of a `match` inside a function are not seen as bindings (`src/rules/scope.rs:243`, `CapturesSeen`).
* Trailing comments of a rewritten statement are lost, also `# noqa`; of an import continued with a backslash the uses are renamed and the
  import is left.
* KIS002 says the name "isn't otherwise used in this module" (`src/rules/kis002.rs:630`) and never looks at its uses.

Pattern and structural rules:

* A fix of KPT ends the file with a line ending and makes all of them alike. A rules file that cannot be read, and inline entries that do not
  deserialise, are passed over silently.
* Two statements that KST may delete and that are the whole of a block are both deleted (`src/rules/kst/mod.rs:735`); the engine then rejects the
  text, every time. `OfferedFixWorks` asks for one fix at a time.
* Targets of tuples, `for` and `with` do not end an alias, though the documentation says that assignments do; an import that is later assigned to
  loses its qualified name altogether.

## Not modelled

* Wording, colours, columns and layout of reports, of documentation and of the notes that migrations print; the schema of
  structural rules; argument definitions; the Zed extension: text without state.
* Hover (`src/lsp/handler.rs:514`) and the capabilities the server announces: functions of a document that change nothing.
* Regular expressions: a pattern is a sequence of words, with the prefilter and the line or text mode around it.
* The parser: a file is what a parser makes of it. Texts with a lone carriage return as line end, which the parser and the line splitter of the
  pattern rules take differently, are left out of `EditorText`.
* The key of the saved interpreter answer and the handling of the subprocess; the sweeping of temporary files, which never match the name of
  the cache file; symbolic links.
