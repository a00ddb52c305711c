------------------------------ MODULE CheckRun ------------------------------
(***************************************************************************)
(* `konform check` (run_check in src/main.rs): any number of konform       *)
(* processes lint the same tree and share one cache file, while users edit *)
(* the files.  A process is                                                *)
(*                                                                         *)
(*    idle -> fix -> check -> rename -> report -> idle                     *)
(*                     \----------------/                                  *)
(*                                                                         *)
(* A file is [present, stamp, ver]: its content is version ver, its mtime  *)
(* and permissions are stamp.  Every write to a file makes a version that  *)
(* never existed before.  FineStamps says that a write also gives the file *)
(* a stamp it never had; without it two writes within one tick of the file *)
(* system's clock share a stamp.                                           *)
(*                                                                         *)
(* The processes share file, disk and the clock only: everything else is   *)
(* their own memory, and a crash loses it.                                 *)
(***************************************************************************)
EXTENDS CacheStore

CONSTANTS
  Procs,       \* konform processes
  TargetSets,  \* the sets of paths users pass on the command line
  Modes,       \* the combinations of options users run with
  Spellings,   \* working directories and path arguments: how a file is named
  KeyOf,       \* KeyOf[s][f]: the path string of f under spelling s
  FineStamps,  \* does every write change the (mtime, permissions) stamp?
  MaxWrites,   \* bound: number of writes to files
  MaxTime      \* bound: ticks of the clock

ASSUME SpellAssumption  == Spellings # {}
ASSUME KeyOfAssumption  ==
  /\ KeyOf \in [Spellings -> [Files -> Keys]]
  /\ \A s \in Spellings : \A f, g \in Files : KeyOf[s][f] = KeyOf[s][g] => f = g
ASSUME StampAssumption  == FineStamps \in BOOLEAN
ASSUME TargetAssumption == TargetSets \subseteq SUBSET Files
ASSUME ModesAssumption  ==
  /\ Modes \subseteq [raw : BOOLEAN, fix : BOOLEAN, fixOnly : BOOLEAN]
  /\ \A m \in Modes : m.fixOnly => m.fix
ASSUME BoundAssumption  == MaxWrites \in Nat /\ MaxTime \in Nat

VARIABLES
  file,     \* file[f]: what is on disk
  writes,   \* number of writes so far; the newest version
  now,      \* the clock
  disk,     \* the cache file
  pc,       \* pc[p]
  run,      \* run[p]: the options of the process
  cache,    \* cache[p]: its Cache object
  work,     \* work[p][f]: how far p is with f
  key,      \* key[p][f]: FileCacheKey read for f; NoEntry when None
  res       \* res[p][f]: the result p has for f; NoEntry before there is one

vars == <<file, writes, now, disk, pc, run, cache, work, key, res>>

procVars == <<pc, run, cache, work, key, res>>

-----------------------------------------------------------------------------
PC == {"idle", "fix", "check", "rename", "report"}

(* Where a file stands in a process: not asked for, waiting for the fix    *)
(* pass, read by it, waiting for the check pass, stat'ed and missed in the *)
(* cache, finished from the cache, or linted.                              *)
Work == {"none", "tofix", "fixing", "todo", "missed", "hit", "linted"}

(* The options of a process.  raw: `--ignore-noqa`, which turns the cache  *)
(* off; a `--no-cache` run takes the same path and differs only in the     *)
(* comments it honours.  fixOnly: the process ends after the fix pass, for *)
(* `--fix-only` or because `--exit-non-zero-on-fix` fixed something.       *)
Run == [spell : Spellings, raw : BOOLEAN, fixOnly : BOOLEAN]

KeyFor(p, f) == KeyOf[run[p].spell][f]

Targets(p) == {f \in Files : work[p][f] # "none"}

(* A process that does not run has no memory.                              *)
NoRun   == [spell |-> CHOOSE s \in Spellings : TRUE, raw |-> FALSE, fixOnly |-> FALSE]
NoCache == Open([kind |-> "ignored"])
NoWork  == [f \in Files |-> "none"]
NoValue == [f \in Files |-> NoEntry]

Terminate(p) ==
  /\ pc'    = [pc EXCEPT ![p] = "idle"]
  /\ run'   = [run EXCEPT ![p] = NoRun]
  /\ cache' = [cache EXCEPT ![p] = NoCache]
  /\ work'  = [work EXCEPT ![p] = NoWork]
  /\ key'   = [key EXCEPT ![p] = NoValue]
  /\ res'   = [res EXCEPT ![p] = NoValue]

Init ==
  /\ file   = [f \in Files |-> [present |-> TRUE, stamp |-> 0, ver |-> 0]]
  /\ writes = 0
  /\ now    = 0
  /\ disk   = [kind |-> "ignored"]
  /\ pc     = [p \in Procs |-> "idle"]
  /\ run    = [p \in Procs |-> NoRun]
  /\ cache  = [p \in Procs |-> NoCache]
  /\ work   = [p \in Procs |-> NoWork]
  /\ key    = [p \in Procs |-> NoValue]
  /\ res    = [p \in Procs |-> NoValue]

-----------------------------------------------------------------------------
(* The users and the file system.                                          *)

(* Put a new version of f on disk.                                         *)
Put(f) ==
  /\ writes < MaxWrites
  /\ writes' = writes + 1
  /\ \E s \in IF FineStamps THEN {writes + 1} ELSE {file[f].stamp, writes + 1} :
       file' = [file EXCEPT ![f] = [present |-> TRUE, stamp |-> s, ver |-> writes + 1]]

Edit(f) ==
  /\ Put(f)
  /\ UNCHANGED <<now, disk, procVars>>

(* chmod or touch: a new stamp for the same content.                       *)
Restamp(f) ==
  /\ writes < MaxWrites
  /\ writes' = writes + 1
  /\ file[f].present
  /\ file' = [file EXCEPT ![f].stamp = writes + 1]
  /\ UNCHANGED <<now, disk, procVars>>

Delete(f) ==
  /\ file[f].present
  /\ file' = [file EXCEPT ![f].present = FALSE]
  /\ UNCHANGED <<writes, now, disk, procVars>>

Tick ==
  /\ now < MaxTime
  /\ now' = now + 1
  /\ UNCHANGED <<file, writes, disk, procVars>>

(* The cache file is lost (konform clean) or damaged outside konform.      *)
LoseDisk ==
  /\ disk' \in [kind : {"ignored", "corrupt"}]
  /\ UNCHANGED <<file, writes, now, procVars>>

-----------------------------------------------------------------------------
(* A process starts: it walks its arguments, then opens the cache.  The    *)
(* two steps commute with every step of the others, so they are one here.  *)
Start(p) ==
  /\ pc[p] = "idle"
  /\ \E T \in TargetSets, m \in Modes, s \in Spellings :
       /\ run'   = [run EXCEPT ![p] = [spell |-> s, raw |-> m.raw, fixOnly |-> m.fixOnly]]
       /\ pc'    = [pc EXCEPT ![p] = IF m.fix THEN "fix" ELSE "check"]
       /\ work'  = [work EXCEPT ![p] =
                     [f \in Files |-> IF f \notin T \/ ~file[f].present THEN "none"
                                      ELSE IF m.fix THEN "tofix" ELSE "todo"]]
       /\ cache' = [cache EXCEPT ![p] = IF m.raw THEN NoCache ELSE Open(disk)]
  /\ UNCHANGED <<file, writes, now, disk, key, res>>

(* The fix pass, one file after the other: read the source, ...            *)
FixRead(p, f) ==
  /\ pc[p] = "fix"
  /\ work[p][f] = "tofix"
  /\ \A g \in Files : work[p][g] # "fixing"
  /\ file[f].present
  /\ work' = [work EXCEPT ![p][f] = "fixing"]
  /\ UNCHANGED <<file, writes, now, disk, pc, run, cache, key, res>>

(* ... then write the fixed text over the file and drop its cache entry.   *)
(* The file is not looked at again before it is overwritten.               *)
FixWrite(p, f) ==
  /\ pc[p] = "fix"
  /\ work[p][f] = "fixing"
  /\ Put(f)
  /\ work'  = [work EXCEPT ![p][f] = "todo"]
  /\ cache' = [cache EXCEPT ![p] = Invalidate(cache[p], KeyFor(p, f))]
  /\ UNCHANGED <<now, disk, pc, run, key, res>>

(* Nothing to fix, or the read, the fix or the write failed.               *)
FixSkip(p, f) ==
  /\ pc[p] = "fix"
  /\ \/ work[p][f] = "fixing"
     \/ work[p][f] = "tofix" /\ (\A g \in Files : work[p][g] # "fixing")
  /\ work' = [work EXCEPT ![p][f] = "todo"]
  /\ UNCHANGED <<file, writes, now, disk, pc, run, cache, key, res>>

(* After the pass a fixOnly process ends, without a persist.               *)
FixDone(p) ==
  /\ pc[p] = "fix"
  /\ \A f \in Files : work[p][f] \in {"none", "todo"}
  /\ \/ /\ run[p].fixOnly
        /\ Terminate(p)
     \/ /\ ~run[p].fixOnly
        /\ pc' = [pc EXCEPT ![p] = "check"]
        /\ UNCHANGED <<run, cache, work, key, res>>
  /\ UNCHANGED <<file, writes, now, disk>>

-----------------------------------------------------------------------------
(* The check pass: the files are handled by parallel workers.              *)

(* The file's stamp, before its text: FileCacheKey::from_path is None for  *)
(* a file that is gone.                                                    *)
CurrentKey(f) == IF file[f].present THEN file[f].stamp ELSE NoEntry

Stat(p, f) ==
  LET k == KeyFor(p, f) IN
  /\ pc[p] = "check"
  /\ work[p][f] = "todo"
  /\ IF ~run[p].raw /\ file[f].present /\ Hits(cache[p], k, file[f].stamp)
     THEN /\ res'   = [res EXCEPT ![p][f] = cache[p].files[k].viols]
          /\ cache' = [cache EXCEPT ![p] = Touch(cache[p], k)]
          /\ work'  = [work EXCEPT ![p][f] = "hit"]
          /\ UNCHANGED key
     ELSE /\ key'  = [key EXCEPT ![p][f] = CurrentKey(f)]
          /\ work' = [work EXCEPT ![p][f] = "missed"]
          /\ UNCHANGED <<res, cache>>
  /\ UNCHANGED <<file, writes, now, disk, pc, run>>

(* Read and lint; a read that fails counts as no violations.               *)
Read(p, f) ==
  /\ pc[p] = "check"
  /\ work[p][f] = "missed"
  /\ \/ /\ file[f].present
        /\ res' = [res EXCEPT ![p][f] = Lint(f, file[f].ver, run[p].raw)]
     \/ res' = [res EXCEPT ![p][f] = Unread]
  /\ work' = [work EXCEPT ![p][f] = "linted"]
  /\ UNCHANGED <<file, writes, now, disk, pc, run, cache, key>>

(* The files linted in this run whose stamp could be read.                 *)
Fresh(p) == {f \in Files : work[p][f] = "linted" /\ key[p][f] # NoEntry}

(* The Cache object after set_linted for each of them.                     *)
Staged(p) ==
  [cache[p] EXCEPT !.pending =
    [k \in Keys |->
      IF \E f \in Fresh(p) : KeyFor(p, f) = k
      THEN LET f == CHOOSE f \in Fresh(p) : KeyFor(p, f) = k
           IN  [key |-> key[p][f], viols |-> res[p][f]]
      ELSE @[k]]]

(* Slips: the results of an `--ignore-noqa` run are persisted too; the run *)
(* goes on before every missed file is linted.                             *)
CollectRaw(p) ==
  /\ pc[p] = "check"
  /\ \A f \in Files : work[p][f] \in {"none", "hit", "linted"}
  /\ NeedsWrite(Staged(p), now)
  /\ pc' = [pc EXCEPT ![p] = "rename"]
  /\ \E files \in Packages(Staged(p), now) :
       cache' = [cache EXCEPT ![p] = Merge(Staged(p), files)]
  /\ UNCHANGED <<file, writes, now, disk, run, work, key, res>>

CollectEarly(p) ==
  /\ pc[p] = "check"
  /\ \A f \in Files : work[p][f] # "todo"
  /\ pc' = [pc EXCEPT ![p] = "report"]
  /\ UNCHANGED <<file, writes, now, disk, run, cache, work, key, res>>

(* When the workers are done the results are staged and persisted: with    *)
(* nothing to write the run goes on to report, otherwise it encodes the    *)
(* merged package.                                                         *)
Collect(p) ==
  /\ pc[p] = "check"
  /\ \A f \in Files : work[p][f] \in {"none", "hit", "linted"}
  /\ IF run[p].raw \/ ~NeedsWrite(Staged(p), now)
     THEN /\ pc'    = [pc EXCEPT ![p] = "report"]
          /\ cache' = [cache EXCEPT ![p] = Untouched(Staged(p))]
     ELSE /\ pc'    = [pc EXCEPT ![p] = "rename"]
          /\ \E files \in Packages(Staged(p), now) :
               cache' = [cache EXCEPT ![p] = Merge(Staged(p), files)]
  /\ UNCHANGED <<file, writes, now, disk, run, work, key, res>>

(* A slip: the staged records are written as they are.                     *)
RenameStaged(p) ==
  /\ pc[p] = "rename"
  /\ disk' = Loaded(Staged(p).pending)
  /\ pc'   = [pc EXCEPT ![p] = "report"]
  /\ UNCHANGED <<file, writes, now, run, cache, work, key, res>>

(* The package is complete in a temporary file, which replaces the cache   *)
(* file in one step ...                                                    *)
Rename(p) ==
  /\ pc[p] = "rename"
  /\ disk'  = Loaded(cache[p].files)
  /\ cache' = [cache EXCEPT ![p] = Written(cache[p])]
  /\ pc'    = [pc EXCEPT ![p] = "report"]
  /\ UNCHANGED <<file, writes, now, run, work, key, res>>

(* ... unless the write or the rename fails, an error main.rs ignores.     *)
RenameFails(p) ==
  /\ pc[p] = "rename"
  /\ pc' = [pc EXCEPT ![p] = "report"]
  /\ UNCHANGED <<file, writes, now, disk, run, cache, work, key, res>>

(* The results are printed and the process ends.                           *)
Exit(p) ==
  /\ pc[p] = "report"
  /\ Terminate(p)
  /\ UNCHANGED <<file, writes, now, disk>>

(* Ctrl-C, a kill or a lost machine, at any other moment.                  *)
Crash(p) ==
  /\ pc[p] \notin {"idle", "report"}
  /\ Terminate(p)
  /\ UNCHANGED <<file, writes, now, disk>>

-----------------------------------------------------------------------------
FileSystem == Tick \/ LoseDisk \/ \E f \in Files : Edit(f) \/ Restamp(f) \/ Delete(f)

FixPass(p)   == FixDone(p) \/ \E f \in Files : FixRead(p, f) \/ FixWrite(p, f) \/ FixSkip(p, f)
CheckPass(p) == Collect(p) \/ \E f \in Files : Stat(p, f) \/ Read(p, f)
Persist(p)   == Rename(p) \/ RenameFails(p)

Process(p) == Start(p) \/ FixPass(p) \/ CheckPass(p) \/ Persist(p) \/ Exit(p) \/ Crash(p)

Next == FileSystem \/ \E p \in Procs : Process(p)

Spec == Init /\ [][Next]_vars

-----------------------------------------------------------------------------
(* Every variable holds a value of the program's type.                     *)
TypeOK ==
  /\ file   \in [Files -> [present : BOOLEAN, stamp : Nat, ver : Nat]]
  /\ writes \in Nat
  /\ now    \in Nat
  /\ disk   \in DiskFile
  /\ pc     \in [Procs -> PC]
  /\ run    \in [Procs -> Run]
  /\ cache  \in [Procs -> Cache]
  /\ work   \in [Procs -> [Files -> Work]]
  /\ key    \in [Procs -> [Files -> Nat \cup {NoEntry}]]
  /\ res    \in [Procs -> [Files -> Results \cup {NoEntry}]]

(* What an entry stored under path string k may claim: if its stamp is the *)
(* stamp a file of that name has now, its violations are those of the      *)
(* text the file has now.                                                  *)
Current(e, k) ==
  \A s \in Spellings, f \in Files :
    KeyOf[s][f] = k /\ file[f].present /\ e.key = file[f].stamp
      => e.viols \in {Unread, Lint(f, file[f].ver, FALSE)}

CurrentPackage(files) == \A k \in Live(files) : Current(files[k], k)

(* A hit never replays another content's violations, whatever edits, fixes *)
(* and crashes happened between the run that stored the entry and the run  *)
(* that hits it, and never those of a run that ignored `# noqa`: this      *)
(* holds of the shared cache file and of every open Cache, at any time.    *)
HitsAreCurrent ==
  /\ disk.kind = "loaded" => CurrentPackage(disk.files)
  /\ \A p \in Procs : CurrentPackage(cache[p].files)

(* "A file that cannot be used is ignored and replaced by the next run":   *)
(* once nobody damages the file any more and no run is killed or fails to  *)
(* write, runs that use the cache and come to their end leave a cache file *)
(* that is readable for good.                                              *)
DamageHeals ==
  /\ <>[][~(LoseDisk \/ \E p \in Procs : Crash(p) \/ RenameFails(p))]_vars
  /\ []<><<\E p \in Procs : ~run[p].raw /\ Exit(p)>>_vars
  => <>[](disk.kind # "corrupt")

(* "Repeated runs leave the file untouched": when the tree is left alone,  *)
(* runs of different parts of it, which may lose each other's entries,     *)
(* do not go on rewriting the cache file for ever.                         *)
EventuallyQuiet ==
  <>[][~LoseDisk]_vars => <>[][~\E p \in Procs : Rename(p)]_vars

(* The cache is transparent: a check with the cache does what a check that *)
(* reads and lints every file during the run could have done.  In terms of *)
(* that check:                                                             *)
OnDisk   == [f \in Files |-> IF file[f].present THEN file[f].ver ELSE NoEntry]
Phase    == [p \in Procs |-> IF pc[p] = "idle" THEN "off"
                             ELSE IF pc[p] \in {"fix", "check"} THEN "lint" ELSE "report"]
Asked    == [p \in Procs |-> Targets(p)]
NoqaOff  == [p \in Procs |-> run[p].raw]

Uncached == INSTANCE UncachedLint WITH
  content <- OnDisk, Absent <- NoEntry, None <- NoEntry,
  phase <- Phase, asked <- Asked, raw <- NoqaOff

LintsWithoutCache == Uncached!Spec

=============================================================================
