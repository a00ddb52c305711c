----------------------------- MODULE ConfigLoad -----------------------------
(* Finding, upgrading and merging the configuration (config.rs), by several *)
(* processes at once: a command line run and a language server load the      *)
(* same files, and a load may rewrite the files it reads.                    *)
(*                                                                           *)
(* A rewrite is what `std::fs::write` does: the file is emptied, then filled. *)
(* Between the two steps another process may read it, its user may save it,   *)
(* and the process may die.  An empty file is a valid configuration.          *)
EXTENDS TomlTree

CONSTANTS
    Loaders,        \* processes that load a configuration
    Dirs,           \* directories a load may look into
    Ancestors,      \* of each directory: itself, its parent, and so on up
    Files,          \* configuration files that may exist
    KonformToml,    \* the files named konform.toml; the others are pyproject.toml
    DirOf,          \* where each file lies
    ReadOnly,       \* files konform may not write
    Contents,       \* of each file: what its user may put there
    Sites,          \* what else lies in the directories: .git, environments
    Starts,         \* where a load may start
    MaxEdits,       \* bound: how often users save a file
    MaxCrashes,     \* bound: how often a load is killed while it rewrites
    NoFile

ASSUME TreeAssumption ==
    /\ Ancestors \in [Dirs -> Seq(Dirs)]
    /\ \A d \in Dirs :
          /\ Ancestors[d] # << >> /\ Ancestors[d][1] = d
          /\ \A i \in DOMAIN Ancestors[d] :
                Ancestors[Ancestors[d][i]] = SubSeq(Ancestors[d], i, Len(Ancestors[d]))
    /\ KonformToml \subseteq Files /\ ReadOnly \subseteq Files
    /\ NoFile \notin Files /\ Branch \notin Files
    /\ DirOf \in [Files -> Dirs]
    /\ Starts \subseteq Dirs
    /\ \A s \in Sites : s.git \subseteq Dirs

VARIABLES
    site,       \* [git, venv: sets of directories, active: an active environment]
    disk,       \* what each file holds
    wrote,      \* what its user last put there
    spoiled,    \* files whose user's text a rewrite has cut across
    loader,     \* where each process is in its load
    result,     \* what each process's last load gave, once it is over
    edits, crashes

vars == <<site, disk, wrote, spoiled, loader, result, edits, crashes>>

Toml(doc) == [status |-> "toml", doc |-> doc]
Absent == [status |-> "absent", doc |-> EmptyTable]
Unreadable == [status |-> "unreadable", doc |-> EmptyTable]
Garbled == [status |-> "garbled", doc |-> EmptyTable]
EmptyFile == Toml(EmptyTable)
IsFile(f) == disk[f].status # "absent"

(* A file holds a document, or nothing that could be read as one. *)
IsContent(c) ==
    \/ c \in {Absent, Unreadable, Garbled}
    \/ c = Toml(c.doc) /\ IsDocument(c.doc)

ASSUME ContentsAssumption == \A f \in Files : \A c \in Contents[f] : IsContent(c)

IsPyproject(f) == f \notin KonformToml

-----------------------------------------------------------------------------
(* Walking up from a directory. *)

(* The directories of s up to and including the first that is in ends. *)
UpTo(s, ends) ==
    LET hits == {i \in DOMAIN s : s[i] \in ends}
    IN  IF hits = {} THEN s ELSE SubSeq(s, 1, Min(hits))

(* Directories with a .git; and with a .git or a pyproject.toml. *)
GitDirs == site.git
RootDirs == GitDirs \cup {DirOf[f] : f \in {f \in Files : IsPyproject(f) /\ IsFile(f)}}

(* The first directory of s with a configuration file, and konform.toml      *)
(* before pyproject.toml in it.                                              *)
HasConfig(a) == \E f \in Files : DirOf[f] = a /\ IsFile(f)
FirstConfig(s) ==
    LET found == {i \in DOMAIN s : HasConfig(s[i])}
        here == {f \in Files : DirOf[f] = s[Min(found)] /\ IsFile(f)}
    IN  IF found = {} THEN NoFile
        ELSE CHOOSE f \in here : f \in KonformToml \/ here \cap KonformToml = {}

(* A slip: the search goes on above the repository. *)
FindConfigFileAbove(d) == FirstConfig(Ancestors[d])

(* Each directory up to the repository's root. *)
FindConfigFile(d) == FirstConfig(UpTo(Ancestors[d], GitDirs))

(* git.rs: the first directory with a .git or a pyproject.toml; the cache is *)
(* kept there.  None when there is neither.                                  *)
FindRepoRoot(d) ==
    LET up == UpTo(Ancestors[d], RootDirs)
    IN  IF Last(up) \in RootDirs THEN {Last(up)} ELSE {}

(* Where project environments are looked for: up to the repository's root,   *)
(* or only in the directory itself when there is no repository.              *)
VenvSearchDirs(d) ==
    LET up == UpTo(Ancestors[d], GitDirs)
    IN  IF Last(up) \in GitDirs THEN up ELSE <<d>>

(* An explicit interpreter, one of a project environment, the active         *)
(* environment's, or the system's.                                           *)
ResolvePython(settings, d) ==
    LET dirs == VenvSearchDirs(d)
        venvs == {i \in DOMAIN dirs : dirs[i] \in site.venv}
    IN  IF Has(settings, "python") THEN [how |-> "explicit", at |-> d]
        ELSE IF venvs # {} THEN [how |-> "venv", at |-> dirs[Min(venvs)]]
        ELSE [how |-> IF site.active THEN "active" ELSE "path", at |-> d]

-----------------------------------------------------------------------------
(* The steps of a load. *)

Idle == [pc |-> "idle", start |-> "", file |-> NoFile, text |-> EmptyTable, ruff |-> EmptyTable,
         chain |-> << >>, layers |-> << >>, calm |-> TRUE]

Defaults == EmptyTable
DefaultSrc == Leaf("default src")

Result(file, extends, errors, settings, src, where, me) ==
    [file |-> file, extends |-> extends, errors |-> errors, settings |-> settings, src |-> src,
     python |-> ResolvePython(settings, where), root |-> FindRepoRoot(me.start), calm |-> me.calm]

NoResult == [file |-> NoFile, extends |-> << >>, errors |-> {}, settings |-> Defaults,
             src |-> DefaultSrc, python |-> [how |-> "path", at |-> ""], root |-> {}, calm |-> TRUE]

Init ==
    /\ site \in Sites
    /\ disk \in [Files -> UNION {Contents[f] : f \in Files}]
    /\ \A f \in Files : disk[f] \in Contents[f]
    /\ wrote = disk
    /\ spoiled = {}
    /\ loader = [l \in Loaders |-> Idle]
    /\ result = [l \in Loaders |-> NoResult]
    /\ edits = 0
    /\ crashes = 0

(* load_config: without a file there are only the defaults. *)
Start(l, d) ==
    /\ loader[l].pc = "idle"
    /\ LET f == FindConfigFile(d)
           begun == [Idle EXCEPT !.pc = "read", !.start = d, !.file = f, !.chain = <<f>>]
       IN  IF f = NoFile
           THEN /\ loader' = [loader EXCEPT ![l] = [Idle EXCEPT !.start = d]]
                /\ result' = [result EXCEPT ![l] =
                       [NoResult EXCEPT !.python = ResolvePython(Defaults, d), !.root = FindRepoRoot(d)]]
           ELSE /\ loader' = [loader EXCEPT ![l] = begun]
                /\ result' = [result EXCEPT ![l] = NoResult]
    /\ UNCHANGED <<site, disk, wrote, spoiled, edits, crashes>>

(* A setting holds a value of the wrong type. *)
Misfit == "misfit"
Fits(settings) == \A s \in Leaves(settings) : s.val # Misfit

(* The end of load_config_file: what the merged section says, or the         *)
(* defaults where it does not fit.  A file that did not fit is reported      *)
(* without the files it extends.                                             *)
Loaded(me, settings, errors, ruff) ==
    LET root == me.chain[1]
        src == IF Has(settings, "src") THEN At(settings, "src")
               ELSE IF HasPath(ruff, <<"tool", "ruff", "src">>) THEN AtPath(ruff, <<"tool", "ruff", "src">>)
               ELSE DefaultSrc
    IN  IF Fits(settings)
        THEN Result(root, Tail(me.chain), errors, settings, src, DirOf[root], me)
        ELSE Result(root, << >>, errors \cup {"settings"}, Defaults, DefaultSrc, DirOf[root], me)

(* The process has its configuration. *)
Done(l, me, r) ==
    /\ result' = [result EXCEPT ![l] = r]
    /\ loader' = [loader EXCEPT ![l] = [Idle EXCEPT !.start = me.start]]

(* resolve_extend, from the innermost base outwards: each file is laid over  *)
(* the ones it extends.                                                      *)
Merged(layers) ==
    LET from[i \in DOMAIN layers] ==
          IF i = Len(layers) THEN layers[i] ELSE MergeToml(from[i + 1], layers[i])
    IN  from[1]

(* `extend` does not name a file that is there, or closes a circle. *)
BrokenLink(target, chain) ==
    target \notin {f \in Files : IsFile(f)} \ ToSet(chain)

(* What a load does with the text of the file it is at: fail, go on to the  *)
(* file this one extends, or finish.                                         *)
Take(l, me, content) ==
    LET f == me.file
        isRoot == me.layers = << >>
        usable == content.status = "toml"
        hasSection == HasKonform(content.doc, IsPyproject(f))
        section == IF hasSection THEN KonformSection(content.doc, IsPyproject(f)) ELSE EmptyTable
        layers == Append(me.layers, Cut(section, <<"extend">>))
        ruff == IF isRoot THEN content.doc ELSE me.ruff
        Plain(errors) == Result(f, << >>, errors, Defaults, DefaultSrc, DirOf[f], me)
    IN  \/ /\ ~usable /\ isRoot
           /\ Done(l, me, Plain({"unusable"}))
        \/ /\ ~usable /\ ~isRoot
           /\ Done(l, me, Loaded(me, me.layers[1], {"extend"}, ruff))
        \/ /\ usable /\ isRoot /\ ~hasSection
           /\ Done(l, me, Plain({}))
        \/ /\ usable /\ (isRoot => hasSection) /\ ~Has(section, "extend")
           /\ Done(l, me, Loaded(me, Merged(layers), {}, ruff))
        \/ /\ usable /\ (isRoot => hasSection) /\ Has(section, "extend")
           /\ LET target == At(section, "extend")[<< >>]
              IN  \/ /\ BrokenLink(target, me.chain)
                     /\ Done(l, me, Loaded(me, layers[1], {"extend"}, ruff))
                  \/ /\ ~BrokenLink(target, me.chain)
                     /\ loader' = [loader EXCEPT ![l] =
                            [me EXCEPT !.pc = "read", !.file = target, !.ruff = ruff,
                                       !.layers = layers, !.chain = Append(@, target)]]
                     /\ UNCHANGED result

(* Another process has emptied the file and not yet filled it, or a rewrite  *)
(* has cut across what a user wrote (and may bring back a deleted file).     *)
Torn(f, l) == spoiled # {} \/ \E o \in Loaders \ {l} : loader[o].pc = "write" /\ loader[o].file = f
Reading(l) == [loader[l] EXCEPT !.calm = @ /\ ~Torn(loader[l].file, l)]

(* read_migrated: the file is read; an outdated one is going to be rewritten. *)
ReadCurrent(l) ==
    /\ loader[l].pc = "read"
    /\ LET f == loader[l].file
       IN  /\ ~Outdated(disk[f].doc, IsPyproject(f))
           /\ Take(l, Reading(l), disk[f])
    /\ UNCHANGED <<site, disk, wrote, spoiled, edits, crashes>>

ReadOutdated(l) ==
    /\ loader[l].pc = "read"
    /\ LET f == loader[l].file
       IN  /\ Outdated(disk[f].doc, IsPyproject(f))
           /\ loader' = [loader EXCEPT ![l] = [Reading(l) EXCEPT !.pc = "truncate",
                             !.text = MigrateContent(disk[f].doc, IsPyproject(f))]]
    /\ UNCHANGED <<site, disk, wrote, spoiled, result, edits, crashes>>

(* The file cannot be written: the upgraded text is used all the same. *)
UseCopy(l) ==
    /\ loader[l].pc = "truncate"
    /\ loader[l].file \in ReadOnly
    /\ Take(l, loader[l], Toml(loader[l].text))
    /\ UNCHANGED <<site, disk, wrote, spoiled, edits, crashes>>

Truncate(l) ==
    /\ loader[l].pc = "truncate"
    /\ loader[l].file \notin ReadOnly
    /\ disk' = [disk EXCEPT ![loader[l].file] = EmptyFile]
    /\ loader' = [loader EXCEPT ![l].pc = "write"]
    /\ UNCHANGED <<site, wrote, spoiled, result, edits, crashes>>

Fill(l) ==
    /\ loader[l].pc = "write"
    /\ disk' = [disk EXCEPT ![loader[l].file] = Toml(loader[l].text)]
    /\ Take(l, loader[l], Toml(loader[l].text))
    /\ UNCHANGED <<site, wrote, spoiled, edits, crashes>>

(* Killed between the two steps of a rewrite. *)
Crash(l) ==
    /\ loader[l].pc = "write"
    /\ crashes < MaxCrashes
    /\ crashes' = crashes + 1
    /\ spoiled' = spoiled \cup {loader[l].file}
    /\ loader' = [loader EXCEPT ![l] = Idle]
    /\ UNCHANGED <<site, disk, wrote, result, edits>>

(* A user saves a file.  A rewrite under way goes on from the older text.    *)
Edit(f, c) ==
    /\ edits < MaxEdits
    /\ edits' = edits + 1
    /\ c # disk[f]
    /\ disk' = [disk EXCEPT ![f] = c]
    /\ wrote' = [wrote EXCEPT ![f] = c]
    /\ spoiled' = IF \E l \in Loaders : loader[l].pc \in {"truncate", "write"} /\ loader[l].file = f
                  THEN spoiled \cup {f} ELSE spoiled \ {f}
    /\ loader' = [l \in Loaders |-> IF loader[l].pc = "idle" THEN loader[l]
                                    ELSE [loader[l] EXCEPT !.calm = FALSE]]
    /\ UNCHANGED <<site, result, crashes>>

Work(l) == ReadCurrent(l) \/ ReadOutdated(l) \/ UseCopy(l) \/ Truncate(l) \/ Fill(l)

Next ==
    \/ \E l \in Loaders : Work(l) \/ Crash(l) \/ \E d \in Starts : Start(l, d)
    \/ \E f \in Files : \E c \in Contents[f] : Edit(f, c)

Spec == Init /\ [][Next]_vars
-----------------------------------------------------------------------------
(* Properties. *)

SectionSays(f, c) ==
    IF c.status = "toml" /\ HasKonform(c.doc, IsPyproject(f))
    THEN Says(KonformSection(c.doc, IsPyproject(f))) ELSE {}
Elsewhere(f, c) ==
    {s \in Leaves(c.doc) : ~IsPrefix(KonformPath(c.doc, IsPyproject(f)), s.path)}

(* A rewrite keeps every setting its user wrote, under today's name, and      *)
(* everything else in the file, whoever rewrites it and however often; only   *)
(* a save or a kill in the middle of one can lose something (read_migrated).  *)
RewriteKeepsMeaning ==
    \A f \in Files :
        /\ disk[f] # wrote[f] /\ f \notin spoiled
        /\ \A l \in Loaders : ~(loader[l].pc = "write" /\ loader[l].file = f)
        => /\ disk[f].status = wrote[f].status
           /\ SectionSays(f, disk[f]) = SectionSays(f, wrote[f])
           /\ Elsewhere(f, disk[f]) = Elsewhere(f, wrote[f])

(* What a user said about `extend` in f, and about everything else. *)
Link(f) == {s \in SectionSays(f, wrote[f]) : IsPrefix(<<"extend">>, s.path)}
OwnSettings(f) == SectionSays(f, wrote[f]) \ Link(f)
Extends(f, t) == \E s \in Link(f) : s.path = <<"extend">> /\ s.val = t

(* A way through files, each of which extends the next, that goes on to a     *)
(* file without a link, or only as far as its links are good.                *)
Whole(chain) == wrote[Last(chain)].status = "toml" /\ Link(Last(chain)) = {}
Followed(chain) ==
    /\ \A i \in 1 .. Len(chain) - 1 : Extends(chain[i], chain[i + 1])
    /\ wrote[Last(chain)].status = "toml" /\ ~Whole(chain) =>
          \A t \in Files : Extends(Last(chain), t) => t \in ToSet(chain) \/ wrote[t].status = "absent"

(* What a load should give that has gone this way: the nearest file that sets *)
(* a key has the last word on it; a broken chain leaves the file on its own   *)
(* and says so; what does not fit leaves the defaults and says so.           *)
Expected(chain) ==
    LET laid == LastWords([i \in 1 .. IF Whole(chain) THEN Len(chain) ELSE 1 |-> OwnSettings(chain[i])])
        fits == \A s \in laid : s.val # Misfit
    IN  IF wrote[chain[1]].status # "toml" THEN [errors |-> {"unusable"}, says |-> {}]
        ELSE [errors |-> (IF Whole(chain) THEN {} ELSE {"extend"}) \cup (IF fits THEN {} ELSE {"settings"}),
              says |-> IF fits THEN laid ELSE {}]

Finishes(l) == loader[l].pc # "idle" /\ loader'[l].pc = "idle" /\ crashes' = crashes

(* What an undisturbed load gives at its end. *)
EndsAsWritten(l) ==
    Finishes(l) /\ result'[l].calm =>
        LET chain == loader[l].chain
        IN  /\ result'[l].file = chain[1] /\ Followed(chain)
            /\ result'[l].errors = Expected(chain).errors
            /\ Leaves(result'[l].settings) = Expected(chain).says
            /\ \A f \in ToSet(chain) \ ReadOnly : ~Outdated(disk'[f].doc, IsPyproject(f))

(* A load that no save and no half-written file disturbed goes where the      *)
(* `extend`s of its files' users lead, and ends with exactly the settings     *)
(* they wrote, in whatever shape, nearest file first, with an error exactly   *)
(* when the chain or a value is bad, and leaves no file it read and may write *)
(* in the old shape                                                           *)
(* (load_config_file, resolve_extend, merge_toml, the migrations).            *)
LoadedAsWritten == [][\A l \in Loaders : EndsAsWritten(l)]_vars

(* Tables that settings tell all about (an empty one may stand in the way of  *)
(* another file's value, which is then not of its type).                     *)
FilledIn(f, doc) == HasKonform(doc, IsPyproject(f)) => Filled(KonformSection(doc, IsPyproject(f)))
FilledContents == \A f \in Files : \A c \in Contents[f] : FilledIn(f, c.doc)

(* What a load finds by walking up lies in the repository it starts in: its   *)
(* configuration, the environment whose interpreter it takes and the          *)
(* directory of its cache, which is the configuration's own or one above it   *)
(* (find_config_file, venv_search_dirs, find_repo_root).                      *)
FoundInsideRepository ==
    \A l \in Loaders :
        LET r == result[l]
            inside == ToSet(UpTo(Ancestors[loader[l].start], GitDirs))
        IN  loader[l].pc = "idle" /\ loader[l].start \in Dirs /\ r.calm =>
                /\ r.file # NoFile => DirOf[r.file] \in inside
                /\ r.python.how = "venv" => r.python.at \in inside
                /\ r.root \subseteq inside
                /\ r.file # NoFile => r.root \subseteq ToSet(Ancestors[DirOf[r.file]])

(* A load reads no file twice and so comes to an end, however the files it    *)
(* goes through change under it: the chain holds every file it has been at    *)
(* (resolve_extend).                                                          *)
NoFileTwice ==
    \A l \in Loaders : IsInjective(loader[l].chain) /\ IsInjective(<<result[l].file>> \o result[l].extends)

(* A load keeps its bounds: in space, to the repository; in length, to one    *)
(* reading of each file.                                                      *)
LoadKeepsBounds == FoundInsideRepository /\ NoFileTwice
=============================================================================
