--------------------------- MODULE CheckRun_proofs --------------------------
(***************************************************************************)
(* Proofs about CheckRun: every variable keeps its type, the results       *)
(* replayed from the cache are those of the present text, and a check with *)
(* the cache implements one without, for any number of files, processes,   *)
(* spellings and writes; and about CheckRun with the history of            *)
(* CacheExpiry: entries in use stay.                                       *)
(***************************************************************************)
EXTENDS CacheExpiry, FiniteSetTheorems, TLAPS

-----------------------------------------------------------------------------
(* The operators of CacheStore keep the types of their arguments.          *)

(* Whatever file is found on disk, opening it gives a Cache.               *)
LEMMA OpenType ==
  ASSUME NEW d \in DiskFile
  PROVE  Open(d) \in Cache
BY DEF Open, DiskFile, Cache, NoFiles, Package

(* It has the entries of the file, if it is a usable one, and no others.   *)
LEMMA OpenFields ==
  ASSUME NEW d
  PROVE  /\ Open(d).pending = NoFiles
         /\ Open(d).files = IF d.kind = "loaded" THEN d.files ELSE NoFiles
BY DEF Open

(* Recording a hit gives a Cache.                                          *)
LEMMA TouchType ==
  ASSUME NEW c \in Cache, NEW k \in Keys
  PROVE  Touch(c, k) \in Cache
BY DEF Touch, Cache

(* Dropping the entry of a fixed file gives a Cache.                       *)
LEMMA InvalidateType ==
  ASSUME NEW c \in Cache, NEW k \in Keys
  PROVE  Invalidate(c, k) \in Cache
BY DEF Invalidate, Cache, Package

(* Persisting leaves a Cache, whichever package it encoded.                *)
LEMMA MergeType ==
  ASSUME NEW c \in Cache, NEW files \in Package
  PROVE  Merge(c, files) \in Cache /\ Written(c) \in Cache /\ Untouched(c) \in Cache
BY DEF Merge, Written, Untouched, Cache, NoFiles

(* An entry of the encoded package is a staged result or an entry that was *)
(* there before; eviction and trimming only leave entries out.             *)
LEMMA PackagesOrigin ==
  ASSUME NEW c \in Cache, NEW t \in Nat, NEW files \in Packages(c, t), NEW k \in Keys
  PROVE  \/ files[k] = NoEntry
         \/ /\ c.pending[k] # NoEntry
            /\ files[k] = [key |-> c.pending[k].key, seen |-> t, viols |-> c.pending[k].viols]
         \/ /\ c.files[k] # NoEntry
            /\ files[k] \in Entry
            /\ files[k].key = c.files[k].key
            /\ files[k].viols = c.files[k].viols
<1> DEFINE M == Merged(c, t)
<1>1. files[k] = NoEntry \/ files[k] = M[k]
  BY DEF Packages, Trimmed, Evicted, Restricted
<1>2. \/ M[k] = NoEntry
      \/ /\ c.pending[k] # NoEntry
         /\ M[k] = [key |-> c.pending[k].key, seen |-> t, viols |-> c.pending[k].viols]
      \/ /\ c.files[k] # NoEntry
         /\ M[k] \in Entry
         /\ M[k].key = c.files[k].key
         /\ M[k].viols = c.files[k].viols
  BY DEF Merged, Cache, Package, Entry
<1> QED
  BY <1>1, <1>2

(* The encoded package is a package.                                       *)
LEMMA PackagesType ==
  ASSUME NEW c \in Cache, NEW t \in Nat, NEW files \in Packages(c, t)
  PROVE  files \in Package
<1>1. files = [k \in Keys |-> files[k]]
  BY DEF Packages, Trimmed, Restricted
<1>2. \A k \in Keys : files[k] \in Entry \cup {NoEntry}
  <2> TAKE k \in Keys
  <2>1. c.pending[k] \in StagedEntry \cup {NoEntry}
    BY DEF Cache
  <2>2. CASE c.pending[k] # NoEntry
    <3>1. [key |-> c.pending[k].key, seen |-> t, viols |-> c.pending[k].viols] \in Entry
      BY <2>1, <2>2 DEF Entry, StagedEntry
    <3> QED
      BY <3>1, PackagesOrigin
  <2>3. CASE c.pending[k] = NoEntry
    BY <2>3, PackagesOrigin
  <2> QED
    BY <2>2, <2>3
<1> QED
  BY <1>1, <1>2 DEF Package

-----------------------------------------------------------------------------
(* Type correctness.  TypeOK alone is not inductive: the results that are  *)
(* staged are typed because a file counts as linted only once it has one.  *)

LintedHasResult ==
  \A p \in Procs, f \in Files : work[p][f] = "linted" => res[p][f] # NoEntry

TypeInv == TypeOK /\ LintedHasResult

(* The keys a process uses for a file are path strings of the package.     *)
LEMMA KeyForType ==
  ASSUME TypeOK, NEW p \in Procs, NEW f \in Files
  PROVE  KeyFor(p, f) \in Keys
BY KeyOfAssumption DEF TypeOK, Run, KeyFor

(* A staged record is the stamp and the result of a file linted in this    *)
(* run, or was staged before.                                              *)
LEMMA StagedOrigin ==
  ASSUME TypeOK, NEW p \in Procs, NEW k \in Keys
  PROVE  /\ Staged(p).files = cache[p].files
         /\ \/ Staged(p).pending[k] = cache[p].pending[k]
            \/ \E f \in Fresh(p) :
                 /\ KeyFor(p, f) = k
                 /\ Staged(p).pending[k] = [key |-> key[p][f], viols |-> res[p][f]]
<1>1. cache[p] \in Cache
  BY DEF TypeOK
<1>2. CASE \E f \in Fresh(p) : KeyFor(p, f) = k
  <2> DEFINE g == CHOOSE f \in Fresh(p) : KeyFor(p, f) = k
  <2>1. g \in Fresh(p) /\ KeyFor(p, g) = k
    BY <1>2
  <2>2. Staged(p).pending[k] = [key |-> key[p][g], viols |-> res[p][g]]
    BY <1>1, <1>2 DEF Staged, Cache
  <2>3. Staged(p).files = cache[p].files
    BY <1>1 DEF Staged, Cache
  <2> QED
    BY <2>1, <2>2, <2>3
<1>3. CASE ~\E f \in Fresh(p) : KeyFor(p, f) = k
  BY <1>1, <1>3 DEF Staged, Cache
<1> QED
  BY <1>2, <1>3

(* What the check pass stages is typed, and it is a Cache.                 *)
LEMMA StagedType ==
  ASSUME TypeInv, NEW p \in Procs
  PROVE  Staged(p) \in Cache
<1> DEFINE pend == Staged(p).pending
<1>1. cache[p] \in Cache
  BY DEF TypeInv, TypeOK
<1>2. \A k \in Keys : pend[k] \in StagedEntry \cup {NoEntry}
  <2>1. ASSUME NEW k \in Keys, NEW f \in Fresh(p)
        PROVE  [key |-> key[p][f], viols |-> res[p][f]] \in StagedEntry
    BY DEF TypeInv, TypeOK, LintedHasResult, Fresh, StagedEntry
  <2>2. ASSUME NEW k \in Keys
        PROVE  cache[p].pending[k] \in StagedEntry \cup {NoEntry}
    BY <1>1 DEF Cache
  <2> QED
    BY <2>1, <2>2, StagedOrigin DEF TypeInv
<1>3. pend = [k \in Keys |-> pend[k]]
  BY <1>1 DEF Staged, Cache
<1>4. pend \in [Keys -> StagedEntry \cup {NoEntry}]
  BY <1>2, <1>3
<1> HIDE DEF pend
<1>5. Staged(p) = [cache[p] EXCEPT !.pending = pend]
  BY <1>1 DEF Staged, Cache, pend
<1> QED
  BY <1>1, <1>4, <1>5 DEF Cache

(* The initial state is typed.                                             *)
LEMMA InitType == Init => TypeInv
<1> SUFFICES ASSUME Init PROVE TypeInv
  OBVIOUS
<1>1. NoRun \in Run
  BY SpellAssumption DEF NoRun, Run
<1>2. NoCache \in Cache
  BY OpenType DEF NoCache, DiskFile
<1> QED
  BY <1>1, <1>2 DEF Init, TypeInv, TypeOK, LintedHasResult, NoWork, NoValue, Work, PC, DiskFile

(* The steps of the users and of the file system keep every type.          *)
LEMMA FileSystemType ==
  ASSUME TypeInv, FileSystem
  PROVE  TypeInv'
<1>1. CASE Tick
  BY <1>1 DEF Tick, TypeInv, TypeOK, LintedHasResult, procVars
<1>2. CASE LoseDisk
  BY <1>2 DEF LoseDisk, TypeInv, TypeOK, LintedHasResult, DiskFile, procVars
<1>3. ASSUME NEW f \in Files, Edit(f)
      PROVE  TypeInv'
  <2>1. /\ writes' \in Nat
        /\ file' \in [Files -> [present : BOOLEAN, stamp : Nat, ver : Nat]]
    BY <1>3 DEF Edit, Put, TypeInv, TypeOK
  <2> QED
    BY <1>3, <2>1 DEF Edit, TypeInv, TypeOK, LintedHasResult, procVars
<1>4. ASSUME NEW f \in Files, Restamp(f)
      PROVE  TypeInv'
  <2>1. /\ writes' \in Nat
        /\ file' \in [Files -> [present : BOOLEAN, stamp : Nat, ver : Nat]]
    <3>1. /\ writes' = writes + 1 /\ writes \in Nat
          /\ file \in [Files -> [present : BOOLEAN, stamp : Nat, ver : Nat]]
          /\ file' = [file EXCEPT ![f] = [file[f] EXCEPT !.stamp = writes + 1]]
      BY <1>4 DEF Restamp, TypeInv, TypeOK
    <3>2. [file[f] EXCEPT !.stamp = writes + 1] \in [present : BOOLEAN, stamp : Nat, ver : Nat]
      BY <3>1
    <3> QED
      BY <3>1, <3>2
  <2> QED
    BY <1>4, <2>1 DEF Restamp, TypeInv, TypeOK, LintedHasResult, procVars
<1>5. ASSUME NEW f \in Files, Delete(f)
      PROVE  TypeInv'
  BY <1>5 DEF Delete, TypeInv, TypeOK, LintedHasResult, procVars
<1> QED
  BY <1>1, <1>2, <1>3, <1>4, <1>5 DEF FileSystem

(* A process that ends leaves typed memory.                                *)
LEMMA TerminateType ==
  ASSUME TypeInv, NEW p \in Procs, Terminate(p), UNCHANGED <<file, writes, now, disk>>
  PROVE  TypeInv'
<1>1. NoRun \in Run
  BY SpellAssumption DEF NoRun, Run
<1>2. NoCache \in Cache
  BY OpenType DEF NoCache, DiskFile
<1>3. /\ NoWork \in [Files -> Work]
      /\ NoValue \in [Files -> Nat \cup {NoEntry}]
      /\ NoValue \in [Files -> Results \cup {NoEntry}]
  BY DEF NoWork, NoValue, Work
<1> QED
  BY <1>1, <1>2, <1>3 DEF Terminate, TypeInv, TypeOK, LintedHasResult, PC, NoWork

(* The steps of the fix pass keep every type.                              *)
LEMMA FixPassType ==
  ASSUME TypeInv, NEW p \in Procs, FixPass(p)
  PROVE  TypeInv'
<1>1. CASE FixDone(p)
  <2>1. CASE run[p].fixOnly
    BY <1>1, <2>1, TerminateType DEF FixDone
  <2>2. CASE ~run[p].fixOnly
    <3>1. /\ pc' = [pc EXCEPT ![p] = "check"]
          /\ UNCHANGED <<run, cache, work, key, res, file, writes, now, disk>>
      BY <1>1, <2>2 DEF FixDone
    <3> QED
      BY <3>1 DEF TypeInv, TypeOK, LintedHasResult, PC
  <2> QED
    BY <2>1, <2>2
<1>2. ASSUME NEW f \in Files, FixRead(p, f)
      PROVE  TypeInv'
  BY <1>2 DEF FixRead, TypeInv, TypeOK, LintedHasResult, Work
<1>3. ASSUME NEW f \in Files, FixWrite(p, f)
      PROVE  TypeInv'
  <2>1. /\ writes' \in Nat
        /\ file' \in [Files -> [present : BOOLEAN, stamp : Nat, ver : Nat]]
    BY <1>3 DEF FixWrite, Put, TypeInv, TypeOK
  <2>2. Invalidate(cache[p], KeyFor(p, f)) \in Cache
    BY InvalidateType, KeyForType DEF TypeInv, TypeOK
  <2> QED
    BY <1>3, <2>1, <2>2 DEF FixWrite, TypeInv, TypeOK, LintedHasResult, Work
<1>4. ASSUME NEW f \in Files, FixSkip(p, f)
      PROVE  TypeInv'
  BY <1>4 DEF FixSkip, TypeInv, TypeOK, LintedHasResult, Work
<1> QED
  BY <1>1, <1>2, <1>3, <1>4 DEF FixPass

(* A hit gives the process a result.                                       *)
LEMMA HitType ==
  ASSUME TypeOK, NEW p \in Procs, NEW k \in Keys, cache[p].files[k] # NoEntry
  PROVE  cache[p].files[k] \in Entry /\ cache[p].files[k].viols \in Results
BY DEF TypeOK, Cache, Package, Entry

(* The steps of the check pass keep every type.                            *)
LEMMA CheckPassType ==
  ASSUME TypeInv, NEW p \in Procs, CheckPass(p)
  PROVE  TypeInv'
<1>1. CASE Collect(p)
  <2>1. Staged(p) \in Cache
    BY StagedType
  <2>2. cache' \in [Procs -> Cache]
    <3>1. CASE run[p].raw \/ ~NeedsWrite(Staged(p), now)
      <4>1. Untouched(Staged(p)) \in Cache
        BY <2>1 DEF Untouched, Cache
      <4> QED
        BY <1>1, <3>1, <4>1 DEF Collect, TypeInv, TypeOK
    <3>2. CASE ~(run[p].raw \/ ~NeedsWrite(Staged(p), now))
      <4>1. PICK files \in Packages(Staged(p), now) :
              cache' = [cache EXCEPT ![p] = Merge(Staged(p), files)]
        BY <1>1, <3>2 DEF Collect
      <4>2. Merge(Staged(p), files) \in Cache
        BY <2>1, PackagesType, MergeType DEF TypeInv, TypeOK
      <4> QED
        BY <4>1, <4>2 DEF TypeInv, TypeOK
    <3> QED
      BY <3>1, <3>2
  <2>3. pc' \in [Procs -> PC]
    BY <1>1 DEF Collect, TypeInv, TypeOK, PC
  <2> QED
    BY <1>1, <2>2, <2>3 DEF Collect, TypeInv, TypeOK, LintedHasResult
<1>2. ASSUME NEW f \in Files, Stat(p, f)
      PROVE  TypeInv'
  <2> DEFINE k == KeyFor(p, f)
  <2>1. k \in Keys
    BY KeyForType DEF TypeInv
  <2> HIDE DEF k
  <2>2. CASE ~run[p].raw /\ file[f].present /\ Hits(cache[p], k, file[f].stamp)
    <3>1. /\ res'   = [res EXCEPT ![p][f] = cache[p].files[k].viols]
          /\ cache' = [cache EXCEPT ![p] = Touch(cache[p], k)]
          /\ work'  = [work EXCEPT ![p][f] = "hit"]
          /\ UNCHANGED <<key, file, writes, now, disk, pc, run>>
      BY <1>2, <2>2 DEF Stat, k
    <3>2. cache[p].files[k].viols \in Results
      BY <2>1, <2>2, HitType DEF Hits, TypeInv
    <3>3. Touch(cache[p], k) \in Cache
      BY <2>1, TouchType DEF TypeInv, TypeOK
    <3> QED
      BY <3>1, <3>2, <3>3 DEF TypeInv, TypeOK, LintedHasResult, Work
  <2>3. CASE ~(~run[p].raw /\ file[f].present /\ Hits(cache[p], k, file[f].stamp))
    <3>1. /\ key'  = [key EXCEPT ![p][f] = CurrentKey(f)]
          /\ work' = [work EXCEPT ![p][f] = "missed"]
          /\ UNCHANGED <<res, cache, file, writes, now, disk, pc, run>>
      BY <1>2, <2>3 DEF Stat, k
    <3>2. CurrentKey(f) \in Nat \cup {NoEntry}
      BY DEF CurrentKey, TypeInv, TypeOK
    <3> QED
      BY <3>1, <3>2 DEF TypeInv, TypeOK, LintedHasResult, Work
  <2> QED
    BY <2>2, <2>3
<1>3. ASSUME NEW f \in Files, Read(p, f)
      PROVE  TypeInv'
  <2>1. PICK r \in Results : res' = [res EXCEPT ![p][f] = r]
    BY <1>3 DEF Read, Lint, Results, Linted, TypeInv, TypeOK, Run
  <2> QED
    BY <1>3, <2>1, NoEntryAssumption DEF Read, TypeInv, TypeOK, LintedHasResult, Work
<1> QED
  BY <1>1, <1>2, <1>3 DEF CheckPass

(* Replacing the cache file keeps every type.                              *)
LEMMA PersistType ==
  ASSUME TypeInv, NEW p \in Procs, Persist(p)
  PROVE  TypeInv'
<1>1. CASE Rename(p)
  <2>1. Loaded(cache[p].files) \in DiskFile
    BY DEF Loaded, DiskFile, TypeInv, TypeOK, Cache
  <2>2. Written(cache[p]) \in Cache
    BY DEF Written, Cache, TypeInv, TypeOK
  <2> QED
    BY <1>1, <2>1, <2>2 DEF Rename, TypeInv, TypeOK, LintedHasResult, PC
<1>2. CASE RenameFails(p)
  BY <1>2 DEF RenameFails, TypeInv, TypeOK, LintedHasResult, PC
<1> QED
  BY <1>1, <1>2 DEF Persist

(* A process starts with typed memory.                                     *)
LEMMA StartType ==
  ASSUME TypeInv, NEW p \in Procs, Start(p)
  PROVE  TypeInv'
<1>1. PICK T \in TargetSets, m \in Modes, s \in Spellings :
       /\ run'   = [run EXCEPT ![p] = [spell |-> s, raw |-> m.raw, fixOnly |-> m.fixOnly]]
       /\ pc'    = [pc EXCEPT ![p] = IF m.fix THEN "fix" ELSE "check"]
       /\ work'  = [work EXCEPT ![p] =
                     [f \in Files |-> IF f \notin T \/ ~file[f].present THEN "none"
                                      ELSE IF m.fix THEN "tofix" ELSE "todo"]]
       /\ cache' = [cache EXCEPT ![p] = IF m.raw THEN NoCache ELSE Open(disk)]
  BY DEF Start
<1>2. [spell |-> s, raw |-> m.raw, fixOnly |-> m.fixOnly] \in Run
  BY ModesAssumption DEF Run
<1>3. NoCache \in Cache /\ Open(disk) \in Cache
  BY OpenType DEF NoCache, DiskFile, TypeInv, TypeOK
<1>4. [f \in Files |-> IF f \notin T \/ ~file[f].present THEN "none"
                       ELSE IF m.fix THEN "tofix" ELSE "todo"] \in [Files -> Work \ {"linted"}]
  BY DEF Work
<1> QED
  BY <1>1, <1>2, <1>3, <1>4 DEF Start, TypeInv, TypeOK, LintedHasResult, PC

(* A step of a process keeps every type.                                   *)
LEMMA ProcessType ==
  ASSUME TypeInv, NEW p \in Procs, Process(p)
  PROVE  TypeInv'
BY StartType, FixPassType, CheckPassType, PersistType, TerminateType DEF Process, Exit, Crash

(* Type correctness: every reachable state of any number of processes      *)
(* satisfies TypeOK, so in particular every record that is staged or       *)
(* written is a complete one.                                              *)
THEOREM TypeCorrect == Spec => []TypeOK
<1>1. Init => TypeInv
  BY InitType
<1>2. TypeInv /\ [Next]_vars => TypeInv'
  <2> SUFFICES ASSUME TypeInv, [Next]_vars PROVE TypeInv'
    OBVIOUS
  <2>1. CASE FileSystem
    BY <2>1, FileSystemType
  <2>2. ASSUME NEW p \in Procs, Process(p)
        PROVE  TypeInv'
    BY <2>2, ProcessType
  <2>3. CASE UNCHANGED vars
    BY <2>3 DEF vars, TypeInv, TypeOK, LintedHasResult
  <2> QED
    BY <2>1, <2>2, <2>3 DEF Next
<1>3. TypeInv => TypeOK
  BY DEF TypeInv
<1> QED
  BY <1>1, <1>2, <1>3, PTL DEF Spec

-----------------------------------------------------------------------------
(* Hits are current.  The invariant says of every stamp that is stored or  *)
(* will be stored next to a result that it is not newer than the last      *)
(* write, and that the file has it only as long as it has the text the     *)
(* result belongs to.  F is the state of the files and w the last write.   *)

Sound(F, w, stamp, viols, f) ==
  /\ stamp <= w
  /\ F[f].present /\ stamp = F[f].stamp => viols \in {Unread, Lint(f, F[f].ver, FALSE)}

EntrySound(F, w, e, k) ==
  e # NoEntry =>
    \A s \in Spellings, f \in Files : KeyOf[s][f] = k => Sound(F, w, e.key, e.viols, f)

MapSound(F, w, map) == \A k \in Keys : EntrySound(F, w, map[k], k)

(* What process p remembers.  A run that ignores `# noqa` has an empty     *)
(* cache, and nothing else of it is ever stored.                           *)
MemorySound(p) ==
  /\ MapSound(file, writes, cache[p].files)
  /\ ~run[p].raw =>
       /\ MapSound(file, writes, cache[p].pending)
       /\ \A f \in Files :
            key[p][f] # NoEntry =>
              /\ work[p][f] = "missed" => key[p][f] <= writes
              /\ work[p][f] = "linted" => Sound(file, writes, key[p][f], res[p][f], f)

StampsOld == \A f \in Files : file[f].stamp <= writes

DiskSound == disk.kind = "loaded" => MapSound(file, writes, disk.files)

SoundInv == TypeInv /\ StampsOld /\ DiskSound /\ \A p \in Procs : MemorySound(p)

(* The two conditions under which a stamp identifies a text: each write    *)
(* changes it, and a path string names one file, whatever the spelling.    *)
OneFilePerKey ==
  \A s, t \in Spellings, f, g \in Files : KeyOf[s][f] = KeyOf[t][g] => f = g

FileStates == [Files -> [present : BOOLEAN, stamp : Nat, ver : Nat]]

(* From F to G, at most deletions and writes that give fresh stamps.       *)
Follows(F, v, G, w) ==
  /\ v <= w
  /\ \A f \in Files : G[f] = F[f] \/ ~G[f].present \/ G[f].stamp > v

(* Such steps never make a sound result unsound.                           *)
LEMMA SoundLater ==
  ASSUME NEW F \in FileStates, NEW G \in FileStates, NEW v \in Nat, NEW w \in Nat,
         Follows(F, v, G, w),
         NEW stamp \in Nat, NEW viols, NEW f \in Files,
         Sound(F, v, stamp, viols, f)
  PROVE  Sound(G, w, stamp, viols, f)
<1>1. stamp <= v /\ v <= w
  BY DEF Sound, Follows
<1>2. CASE G[f] = F[f]
  BY <1>1, <1>2 DEF Sound, Lint
<1>3. CASE ~G[f].present \/ G[f].stamp > v
  <2>1. ~(G[f].present /\ stamp = G[f].stamp)
    BY <1>1, <1>3
  <2> QED
    BY <1>1, <2>1 DEF Sound, Lint
<1> QED
  BY <1>2, <1>3 DEF Follows

(* The same of a map from path strings to entries.                         *)
LEMMA MapLater ==
  ASSUME NEW F \in FileStates, NEW G \in FileStates, NEW v \in Nat, NEW w \in Nat,
         Follows(F, v, G, w),
         NEW map, \A k \in Keys : map[k] # NoEntry => map[k].key \in Nat,
         MapSound(F, v, map)
  PROVE  MapSound(G, w, map)
<1> SUFFICES ASSUME NEW k \in Keys, map[k] # NoEntry,
                    NEW s \in Spellings, NEW f \in Files, KeyOf[s][f] = k
             PROVE  Sound(G, w, map[k].key, map[k].viols, f)
  BY DEF MapSound, EntrySound
<1>1. map[k].key \in Nat /\ Sound(F, v, map[k].key, map[k].viols, f)
  BY DEF MapSound, EntrySound
<1> QED
  BY <1>1, SoundLater

(* The entries of a Cache and of a package have stamps.                    *)
LEMMA StampsTyped ==
  ASSUME NEW c \in Cache, NEW files \in Package, NEW k \in Keys
  PROVE  /\ c.files \in Package
         /\ files[k] # NoEntry => files[k].key \in Nat
         /\ c.pending[k] # NoEntry => c.pending[k].key \in Nat
BY DEF Cache, Package, Entry, StagedEntry

(* Every step of the system is such a step.                                *)
LEMMA StepFollows ==
  ASSUME FineStamps, TypeOK, StampsOld, Next
  PROVE  Follows(file, writes, file', writes') /\ StampsOld'
<1> USE DEF TypeOK
<1>1. ASSUME NEW f \in Files, Put(f)
      PROVE  Follows(file, writes, file', writes') /\ StampsOld'
  BY <1>1 DEF Put, Follows, StampsOld
<1>2. ASSUME NEW f \in Files, Restamp(f)
      PROVE  Follows(file, writes, file', writes') /\ StampsOld'
  BY <1>2 DEF Restamp, Follows, StampsOld
<1>3. ASSUME NEW f \in Files, Delete(f)
      PROVE  Follows(file, writes, file', writes') /\ StampsOld'
  BY <1>3 DEF Delete, Follows, StampsOld
<1>4. ASSUME UNCHANGED <<file, writes>>
      PROVE  Follows(file, writes, file', writes') /\ StampsOld'
  BY <1>4 DEF Follows, StampsOld
<1>5. CASE FileSystem
  BY <1>1, <1>2, <1>3, <1>4, <1>5 DEF FileSystem, Tick, LoseDisk, Edit
<1>6. ASSUME NEW p \in Procs, Process(p)
      PROVE  Follows(file, writes, file', writes') /\ StampsOld'
  <2>1. CASE FixPass(p)
    BY <1>1, <1>4, <2>1 DEF FixPass, FixDone, FixRead, FixWrite, FixSkip
  <2>2. CASE CheckPass(p)
    BY <1>4, <2>2 DEF CheckPass, Collect, Stat, Read
  <2>3. CASE Start(p) \/ Persist(p) \/ Exit(p) \/ Crash(p)
    BY <1>4, <2>3 DEF Start, Persist, Rename, RenameFails, Exit, Crash
  <2> QED
    BY <1>6, <2>1, <2>2, <2>3 DEF Process
<1> QED
  BY <1>5, <1>6 DEF Next

(* What p remembered before a step is sound after it.                      *)
LEMMA OldMemorySound ==
  ASSUME SoundInv, TypeInv', Follows(file, writes, file', writes'), NEW p \in Procs
  PROVE  /\ MapSound(file', writes', cache[p].files)
         /\ ~run[p].raw =>
              /\ MapSound(file', writes', cache[p].pending)
              /\ \A f \in Files :
                   key[p][f] # NoEntry =>
                     /\ work[p][f] = "missed" => key[p][f] <= writes'
                     /\ work[p][f] = "linted" =>
                          Sound(file', writes', key[p][f], res[p][f], f)
<1>1. /\ file \in FileStates /\ file' \in FileStates
      /\ writes \in Nat /\ writes' \in Nat
      /\ cache[p] \in Cache /\ cache[p].files \in Package
      /\ key[p] \in [Files -> Nat \cup {NoEntry}]
  BY DEF SoundInv, TypeInv, TypeOK, FileStates, Cache
<1>2. MapSound(file', writes', cache[p].files)
  BY <1>1, MapLater, StampsTyped DEF SoundInv, MemorySound
<1>3. ASSUME ~run[p].raw
      PROVE  MapSound(file', writes', cache[p].pending)
  BY <1>1, <1>3, MapLater, StampsTyped DEF SoundInv, MemorySound
<1>4. ASSUME ~run[p].raw, NEW f \in Files, key[p][f] # NoEntry
      PROVE  /\ work[p][f] = "missed" => key[p][f] <= writes'
             /\ work[p][f] = "linted" => Sound(file', writes', key[p][f], res[p][f], f)
  <2>1. key[p][f] \in Nat
    BY <1>1, <1>4
  <2>2. /\ work[p][f] = "missed" => key[p][f] <= writes
        /\ work[p][f] = "linted" => Sound(file, writes, key[p][f], res[p][f], f)
    BY <1>4 DEF SoundInv, MemorySound
  <2>3. writes <= writes'
    BY DEF Follows
  <2> QED
    BY <1>1, <2>1, <2>2, <2>3, SoundLater
<1> QED
  BY <1>2, <1>3, <1>4

(* The memory of a process that a step leaves alone stays sound.           *)
LEMMA MemoryLater ==
  ASSUME SoundInv, TypeInv', Follows(file, writes, file', writes'), NEW p \in Procs,
         UNCHANGED <<run[p], cache[p], work[p], key[p], res[p]>>
  PROVE  MemorySound(p)'
BY OldMemorySound DEF MemorySound

(* The same of the cache file.                                             *)
LEMMA DiskLater ==
  ASSUME SoundInv, TypeInv', Follows(file, writes, file', writes'), UNCHANGED disk
  PROVE  DiskSound'
<1>1. /\ file \in FileStates /\ file' \in FileStates
      /\ writes \in Nat /\ writes' \in Nat
      /\ disk \in DiskFile
  BY DEF SoundInv, TypeInv, TypeOK, FileStates
<1>2. CASE disk.kind = "loaded"
  <2>1. disk.files \in Package /\ MapSound(file, writes, disk.files)
    BY <1>1, <1>2 DEF DiskFile, SoundInv, DiskSound
  <2>2. \A k \in Keys : disk.files[k] # NoEntry => disk.files[k].key \in Nat
    BY <2>1 DEF Package, Entry
  <2> QED
    BY <1>1, <2>1, <2>2, MapLater DEF DiskSound
<1> QED
  BY <1>2 DEF DiskSound

(* An empty map is sound.                                                  *)
LEMMA NoFilesSound ==
  ASSUME NEW F, NEW w
  PROVE  MapSound(F, w, NoFiles)
BY DEF MapSound, EntrySound, NoFiles

(* A process that ends remembers nothing.                                  *)
LEMMA TerminateSound ==
  ASSUME SoundInv, NEW p \in Procs, Terminate(p), UNCHANGED <<file, writes>>
  PROVE  MemorySound(p)'
<1>1. cache'[p].files = NoFiles /\ cache'[p].pending = NoFiles
  BY DEF Terminate, NoCache, Open, SoundInv, TypeInv, TypeOK
<1>2. \A f \in Files : key'[p][f] = NoEntry
  BY DEF Terminate, NoValue, SoundInv, TypeInv, TypeOK
<1> QED
  BY <1>1, <1>2, NoFilesSound DEF MemorySound

(* What a process finds in the cache file when it starts is sound.         *)
LEMMA StartSound ==
  ASSUME SoundInv, NEW p \in Procs, Start(p)
  PROVE  MemorySound(p)'
<1>1. /\ cache'[p].pending = NoFiles
      /\ \/ cache'[p].files = NoFiles
         \/ disk.kind = "loaded" /\ cache'[p].files = disk.files
  <2>1. PICK c \in {NoCache, Open(disk)} : cache' = [cache EXCEPT ![p] = c]
    BY DEF Start
  <2>2. cache'[p] = c
    BY <2>1 DEF SoundInv, TypeInv, TypeOK
  <2> QED
    BY <2>1, <2>2, OpenFields DEF NoCache
<1>2. \A f \in Files : work'[p][f] \notin {"missed", "linted"}
  BY DEF Start, SoundInv, TypeInv, TypeOK
<1>3. UNCHANGED <<file, writes>>
  BY DEF Start
<1> QED
  BY <1>1, <1>2, <1>3, NoFilesSound DEF MemorySound, SoundInv, DiskSound

(* A fix keeps the memory sound: the entry of the fixed file is dropped,   *)
(* and no other entry is about it.                                         *)
LEMMA FixPassSound ==
  ASSUME SoundInv, TypeInv', Follows(file, writes, file', writes'), NEW p \in Procs, FixPass(p)
  PROVE  MemorySound(p)'
<1>1. CASE FixDone(p)
  <2>1. CASE run[p].fixOnly
    BY <1>1, <2>1, TerminateSound DEF FixDone
  <2>2. CASE ~run[p].fixOnly
    <3>1. UNCHANGED <<run, cache, work, key, res>>
      BY <1>1, <2>2 DEF FixDone
    <3> QED
      BY <3>1, MemoryLater
  <2> QED
    BY <2>1, <2>2
<1>2. ASSUME NEW f \in Files, FixRead(p, f) \/ FixSkip(p, f)
      PROVE  MemorySound(p)'
  <2>1. UNCHANGED <<file, writes, run, cache, key, res>>
    BY <1>2 DEF FixRead, FixSkip
  <2>2. \A g \in Files : work'[p][g] = work[p][g] \/ work'[p][g] \in {"fixing", "todo"}
    BY <1>2 DEF FixRead, FixSkip, SoundInv, TypeInv, TypeOK
  <2> QED
    BY <2>1, <2>2 DEF SoundInv, MemorySound
<1>3. ASSUME NEW f \in Files, FixWrite(p, f)
      PROVE  MemorySound(p)'
  <2> DEFINE k == KeyFor(p, f)
  <2>1. cache[p] \in Cache /\ cache[p].files \in Package
    BY DEF SoundInv, TypeInv, TypeOK, Cache
  <2>2. /\ UNCHANGED <<run, key, res>>
        /\ cache'[p] = Invalidate(cache[p], k)
        /\ \A g \in Files : work'[p][g] = work[p][g] \/ work'[p][g] = "todo"
    BY <1>3 DEF FixWrite, SoundInv, TypeInv, TypeOK
  <2> HIDE DEF k
  <2>3. \A j \in Keys : /\ cache'[p].files[j] \in {NoEntry, cache[p].files[j]}
                        /\ cache'[p].pending[j] \in {NoEntry, cache[p].pending[j]}
    BY <2>1, <2>2 DEF Invalidate, Cache, Package
  <2>4. MapSound(file', writes', cache'[p].files)
    BY <2>3, OldMemorySound DEF MapSound, EntrySound
  <2>5. ~run[p].raw => MapSound(file', writes', cache'[p].pending)
    BY <2>3, OldMemorySound DEF MapSound, EntrySound
  <2> QED
    BY <2>2, <2>4, <2>5, OldMemorySound DEF MemorySound
<1> QED
  BY <1>1, <1>2, <1>3 DEF FixPass

(* A lint keeps the memory sound: the stamp was taken before the text was  *)
(* read, so either it is still the file's stamp and the text is the one    *)
(* read, or the file will never have it again.                             *)
LEMMA CheckStepSound ==
  ASSUME SoundInv, NEW p \in Procs, NEW f \in Files, Stat(p, f) \/ Read(p, f)
  PROVE  MemorySound(p)'
<1>1. CASE Stat(p, f)
  <2>1. /\ UNCHANGED <<file, writes, run>>
        /\ cache'[p].files = cache[p].files /\ cache'[p].pending = cache[p].pending
    BY <1>1 DEF Stat, Touch, SoundInv, TypeInv, TypeOK, Cache
  <2>2. \A g \in Files : \/ work'[p][g] = "hit"
                         \/ work'[p][g] = "missed" /\ key'[p][g] = CurrentKey(g)
                         \/ UNCHANGED <<work[p][g], key[p][g], res[p][g]>>
    BY <1>1 DEF Stat, SoundInv, TypeInv, TypeOK
  <2>3. \A g \in Files : CurrentKey(g) # NoEntry => CurrentKey(g) <= writes
    BY DEF CurrentKey, SoundInv, StampsOld
  <2> QED
    BY <2>1, <2>2, <2>3 DEF SoundInv, MemorySound
<1>2. CASE Read(p, f)
  <2>1. UNCHANGED <<file, writes, run, cache, key>>
    BY <1>2 DEF Read
  <2>2. \A g \in Files \ {f} : UNCHANGED <<work[p][g], res[p][g]>>
    BY <1>2 DEF Read, SoundInv, TypeInv, TypeOK
  <2>3. /\ work[p][f] = "missed" /\ work'[p][f] = "linted"
        /\ res'[p][f] \in {Unread, Lint(f, file[f].ver, run[p].raw)}
    BY <1>2 DEF Read, SoundInv, TypeInv, TypeOK
  <2>4. ~run[p].raw => run[p].raw = FALSE
    BY DEF SoundInv, TypeInv, TypeOK, Run
  <2>5. ~run[p].raw /\ key[p][f] # NoEntry
          => Sound(file, writes, key[p][f], res'[p][f], f)
    BY <2>3, <2>4 DEF SoundInv, MemorySound, Sound, Lint
  <2> QED
    BY <2>1, <2>2, <2>3, <2>5 DEF SoundInv, MemorySound
<1> QED
  BY <1>1, <1>2

(* What is staged and merged is sound: a staged record is about the one    *)
(* file that has its path string.                                          *)
LEMMA CollectSound ==
  ASSUME OneFilePerKey, SoundInv, NEW p \in Procs, Collect(p)
  PROVE  MemorySound(p)'
<1> DEFINE S == Staged(p)
<1>1. /\ UNCHANGED <<file, writes, run, work, key, res>>
      /\ now \in Nat /\ cache[p] \in Cache /\ S \in Cache
  BY StagedType DEF Collect, SoundInv, TypeInv, TypeOK
<1>2. S.files = cache[p].files
  BY <1>1 DEF Staged, Cache
<1>3. ASSUME ~run[p].raw
      PROVE  MapSound(file, writes, S.pending)
  <2> SUFFICES ASSUME NEW k \in Keys PROVE EntrySound(file, writes, S.pending[k], k)
    BY DEF MapSound
  <2>1. CASE S.pending[k] = cache[p].pending[k]
    BY <1>3, <2>1 DEF SoundInv, MemorySound, MapSound
  <2>2. ASSUME NEW f \in Fresh(p), KeyFor(p, f) = k,
               S.pending[k] = [key |-> key[p][f], viols |-> res[p][f]]
        PROVE  EntrySound(file, writes, S.pending[k], k)
    <3>1. f \in Files /\ Sound(file, writes, key[p][f], res[p][f], f)
      BY <1>3, <2>2 DEF Fresh, SoundInv, MemorySound
    <3>2. \A s \in Spellings, g \in Files : KeyOf[s][g] = k => g = f
      BY <2>2, <3>1 DEF OneFilePerKey, KeyFor, SoundInv, TypeInv, TypeOK, Run
    <3> QED
      BY <2>2, <3>1, <3>2 DEF EntrySound
  <2> QED
    BY <2>1, <2>2, StagedOrigin DEF SoundInv, TypeInv
<1>4. CASE run[p].raw \/ ~NeedsWrite(S, now)
  <2>1. /\ cache'[p].files = S.files
        /\ cache'[p].pending = S.pending
    BY <1>1, <1>4 DEF Collect, Untouched, SoundInv, TypeInv, TypeOK, Cache
  <2> QED
    BY <1>1, <1>2, <1>3, <2>1 DEF SoundInv, MemorySound
<1>5. CASE ~(run[p].raw \/ ~NeedsWrite(S, now))
  <2>1. PICK files \in Packages(S, now) : cache' = [cache EXCEPT ![p] = Merge(S, files)]
    BY <1>5 DEF Collect
  <2>2. cache'[p].files = files /\ cache'[p].pending = NoFiles
    BY <2>1 DEF Merge, SoundInv, TypeInv, TypeOK
  <2>3. MapSound(file, writes, S.files) /\ MapSound(file, writes, S.pending)
    BY <1>2, <1>3, <1>5 DEF SoundInv, MemorySound
  <2>4. MapSound(file, writes, files)
    <3> SUFFICES ASSUME NEW k \in Keys PROVE EntrySound(file, writes, files[k], k)
      BY DEF MapSound
    <3>1. /\ EntrySound(file, writes, S.files[k], k)
          /\ EntrySound(file, writes, S.pending[k], k)
      BY <2>3 DEF MapSound
    <3>2. \/ files[k] = NoEntry
          \/ /\ S.pending[k] # NoEntry
             /\ files[k].key = S.pending[k].key /\ files[k].viols = S.pending[k].viols
          \/ /\ S.files[k] # NoEntry
             /\ files[k].key = S.files[k].key /\ files[k].viols = S.files[k].viols
      <4>1. \/ files[k] = NoEntry
            \/ /\ S.pending[k] # NoEntry
               /\ files[k] = [key |-> S.pending[k].key, seen |-> now, viols |-> S.pending[k].viols]
            \/ /\ S.files[k] # NoEntry
               /\ files[k].key = S.files[k].key /\ files[k].viols = S.files[k].viols
        BY <1>1, PackagesOrigin, Zenon
      <4> QED
        BY <4>1
    <3> QED
      BY <3>1, <3>2 DEF EntrySound
  <2> QED
    BY <1>1, <2>2, <2>4, NoFilesSound DEF SoundInv, MemorySound
<1> QED
  BY <1>4, <1>5

(* Replacing the cache file leaves the memory as it was, but for dirty.    *)
LEMMA PersistSound ==
  ASSUME SoundInv, NEW p \in Procs, Persist(p)
  PROVE  MemorySound(p)' /\ DiskSound'
<1>1. UNCHANGED <<file, writes, run, work, key, res>>
  BY DEF Persist, Rename, RenameFails
<1>2. /\ cache'[p].files = cache[p].files
      /\ cache'[p].pending = cache[p].pending
  BY DEF Persist, Rename, RenameFails, Written, SoundInv, TypeInv, TypeOK, Cache
<1>3. MemorySound(p)'
  BY <1>1, <1>2 DEF SoundInv, MemorySound
<1>4. UNCHANGED disk \/ disk' = Loaded(cache[p].files)
  BY DEF Persist, Rename, RenameFails
<1>5. DiskSound'
  BY <1>1, <1>4 DEF SoundInv, DiskSound, MemorySound, Loaded
<1> QED
  BY <1>3, <1>5

(* A step of one process does not reach into the memory of another.        *)
LEMMA OthersKeepMemory ==
  ASSUME TypeInv, NEW p \in Procs, Process(p), NEW q \in Procs \ {p}
  PROVE  UNCHANGED <<run[q], cache[q], work[q], key[q], res[q]>>
<1> USE DEF TypeInv, TypeOK
<1>1. ASSUME Terminate(p) PROVE UNCHANGED <<run[q], cache[q], work[q], key[q], res[q]>>
  BY <1>1 DEF Terminate
<1>2. CASE FixPass(p)
  BY <1>1, <1>2 DEF FixPass, FixDone, FixRead, FixWrite, FixSkip
<1>3. CASE CheckPass(p)
  BY <1>3 DEF CheckPass, Collect, Stat, Read
<1>4. CASE Start(p) \/ Persist(p) \/ Exit(p) \/ Crash(p)
  BY <1>1, <1>4 DEF Start, Persist, Rename, RenameFails, Exit, Crash
<1> QED
  BY <1>2, <1>3, <1>4 DEF Process

(* A step of process p keeps the invariant.                                *)
LEMMA ProcessSound ==
  ASSUME FineStamps, OneFilePerKey, SoundInv, NEW p \in Procs, Process(p)
  PROVE  SoundInv'
<1>1. TypeInv'
  BY ProcessType DEF SoundInv
<1>2. Follows(file, writes, file', writes') /\ StampsOld'
  BY StepFollows DEF SoundInv, TypeInv, Next
<1>3. \A q \in Procs \ {p} : MemorySound(q)'
  BY <1>1, <1>2, OthersKeepMemory, MemoryLater DEF SoundInv
<1>4. MemorySound(p)' /\ DiskSound'
  <2>1. CASE FixPass(p)
    <3>1. UNCHANGED disk
      BY <2>1 DEF FixPass, FixDone, FixRead, FixWrite, FixSkip
    <3> QED
      BY <1>1, <1>2, <2>1, <3>1, FixPassSound, DiskLater
  <2>2. CASE CheckPass(p)
    <3>1. UNCHANGED disk
      BY <2>2 DEF CheckPass, Collect, Stat, Read
    <3> QED
      BY <1>1, <1>2, <2>2, <3>1, CollectSound, CheckStepSound, DiskLater DEF CheckPass
  <2>3. CASE Persist(p)
    BY <2>3, PersistSound
  <2>4. CASE Start(p)
    <3>1. UNCHANGED disk
      BY <2>4 DEF Start
    <3> QED
      BY <1>1, <1>2, <2>4, <3>1, StartSound, DiskLater
  <2>5. CASE Exit(p) \/ Crash(p)
    <3>1. Terminate(p) /\ UNCHANGED <<file, writes, now, disk>>
      BY <2>5 DEF Exit, Crash
    <3> QED
      BY <1>1, <1>2, <3>1, TerminateSound, DiskLater
  <2> QED
    BY <2>1, <2>2, <2>3, <2>4, <2>5 DEF Process
<1> QED
  BY <1>1, <1>2, <1>3, <1>4 DEF SoundInv

(* A step of the users or of the file system keeps the invariant.          *)
LEMMA FileSystemSound ==
  ASSUME FineStamps, SoundInv, FileSystem
  PROVE  SoundInv'
<1>1. TypeInv'
  BY FileSystemType DEF SoundInv
<1>2. Follows(file, writes, file', writes') /\ StampsOld'
  BY StepFollows DEF SoundInv, TypeInv, Next
<1>3. UNCHANGED procVars
  BY DEF FileSystem, Tick, LoseDisk, Edit, Restamp, Delete
<1>4. \A q \in Procs : MemorySound(q)'
  BY <1>1, <1>2, <1>3, MemoryLater DEF procVars
<1>5. DiskSound'
  <2>1. CASE UNCHANGED disk
    BY <1>1, <1>2, <2>1, DiskLater
  <2>2. CASE LoseDisk
    BY <2>2 DEF LoseDisk, DiskSound
  <2> QED
    BY <2>1, <2>2 DEF FileSystem, Tick, Edit, Restamp, Delete
<1> QED
  BY <1>1, <1>2, <1>4, <1>5 DEF SoundInv

(* The initial state satisfies the invariant.                              *)
LEMMA InitSound == Init => SoundInv
<1> SUFFICES ASSUME Init PROVE SoundInv
  OBVIOUS
<1>1. TypeInv
  BY InitType
<1>2. StampsOld /\ DiskSound
  BY DEF Init, StampsOld, DiskSound
<1>3. \A p \in Procs : MemorySound(p)
  BY NoFilesSound, OpenFields DEF Init, MemorySound, NoCache, NoValue
<1> QED
  BY <1>1, <1>2, <1>3 DEF SoundInv

(* A hit never replays another content's violations, nor those of a run    *)
(* that ignored `# noqa`: for any number of processes, files and writes,   *)
(* whatever is edited, fixed, killed or damaged in between, provided that  *)
(* each write changes the stamp and each path string names one file.       *)
THEOREM HitsAlwaysCurrent ==
  ASSUME FineStamps, OneFilePerKey
  PROVE  Spec => []HitsAreCurrent
<1>1. Init => SoundInv
  BY InitSound
<1>2. SoundInv /\ [Next]_vars => SoundInv'
  <2> SUFFICES ASSUME SoundInv, [Next]_vars PROVE SoundInv'
    OBVIOUS
  <2>1. CASE FileSystem
    BY <2>1, FileSystemSound
  <2>2. ASSUME NEW p \in Procs, Process(p)
        PROVE  SoundInv'
    BY <2>2, ProcessSound
  <2>3. CASE UNCHANGED vars
    BY <2>3 DEF vars, SoundInv, TypeInv, TypeOK, LintedHasResult, StampsOld, DiskSound,
                MemorySound
  <2> QED
    BY <2>1, <2>2, <2>3 DEF Next
<1>3. SoundInv => HitsAreCurrent
  BY DEF SoundInv, DiskSound, MemorySound, MapSound, EntrySound, Sound, HitsAreCurrent,
         CurrentPackage, Current, Live, Lint
<1> QED
  BY <1>1, <1>2, <1>3, PTL DEF Spec

-----------------------------------------------------------------------------
(* The cache is transparent: CheckRun implements UncachedLint under the    *)
(* refinement mapping of CheckRun, by the invariant of the hits and one    *)
(* more, about which files have results.                                   *)

(* A file has a result exactly when the process has finished with it, and  *)
(* a process that does not run has been asked for nothing.                 *)
ResultsMatch ==
  /\ \A p \in Procs, f \in Files :
       res[p][f] = NoEntry <=> work[p][f] \notin {"hit", "linted"}
  /\ \A p \in Procs : pc[p] = "idle" => \A f \in Files : work[p][f] = "none"

(* The results of the replayed and of the linted files are results.        *)
LEMMA ResultsAreValues ==
  /\ NoEntry \notin Results
  /\ NoEntry \notin Nat
  /\ NoEntry # Unread
BY NoEntryAssumption DEF Results

-----------------------------------------------------------------------------
(* What the steps are in terms of the uncached check.                      *)

(* Nothing a reader of the output could see.                               *)
Unseen == UNCHANGED <<OnDisk, Phase, Asked, NoqaOff, res>>

(* The file system changes files; the clock and the cache file are unseen. *)
LEMMA FileSystemRefines ==
  ASSUME TypeOK, FileSystem
  PROVE  Unseen \/ \E f \in Files : Uncached!Change(f)
<1> USE DEF TypeOK, Unseen, OnDisk, Phase, Asked, Targets, NoqaOff, procVars
<1>1. CASE Tick \/ LoseDisk
  BY <1>1 DEF Tick, LoseDisk
<1>2. ASSUME NEW f \in Files, Edit(f)
      PROVE  Uncached!Change(f)
  BY <1>2 DEF Edit, Put, Uncached!Change
<1>3. ASSUME NEW f \in Files, Restamp(f)
      PROVE  Unseen
  BY <1>3 DEF Restamp
<1>4. ASSUME NEW f \in Files, Delete(f)
      PROVE  Uncached!Change(f)
  BY <1>4 DEF Delete, Uncached!Change
<1> QED
  BY <1>1, <1>2, <1>3, <1>4 DEF FileSystem

(* A process that ends stops.                                              *)
LEMMA TerminateRefines ==
  ASSUME TypeOK, NEW p \in Procs, pc[p] # "idle", Terminate(p), UNCHANGED file
  PROVE  Uncached!Stop(p)
<1> USE DEF TypeOK
<1>1. OnDisk' = OnDisk
  BY DEF OnDisk
<1>2. Phase[p] # "off" /\ Phase' = [Phase EXCEPT ![p] = "off"]
  BY DEF Phase, Terminate
<1>3. Asked' = [Asked EXCEPT ![p] = {}]
  BY DEF Asked, Targets, Terminate, NoWork
<1>4. NoqaOff' = [NoqaOff EXCEPT ![p] = FALSE]
  BY DEF NoqaOff, Terminate, NoRun
<1>5. res' = [res EXCEPT ![p] = [f \in Files |-> NoEntry]]
  BY DEF Terminate, NoValue
<1> QED
  BY <1>1, <1>2, <1>3, <1>4, <1>5 DEF Uncached!Stop

(* A process that starts begins.                                           *)
LEMMA StartRefines ==
  ASSUME TypeOK, NEW p \in Procs, Start(p)
  PROVE  Uncached!Begin(p)
<1> USE DEF TypeOK
<1>1. OnDisk' = OnDisk /\ res' = res
  BY DEF OnDisk, Start
<1>2. Phase[p] = "off" /\ Phase' = [Phase EXCEPT ![p] = "lint"]
  BY DEF Phase, Start
<1>3. PICK T \in TargetSets, m \in Modes, s \in Spellings :
       /\ run'   = [run EXCEPT ![p] = [spell |-> s, raw |-> m.raw, fixOnly |-> m.fixOnly]]
       /\ pc'    = [pc EXCEPT ![p] = IF m.fix THEN "fix" ELSE "check"]
       /\ work'  = [work EXCEPT ![p] =
                     [f \in Files |-> IF f \notin T \/ ~file[f].present THEN "none"
                                      ELSE IF m.fix THEN "tofix" ELSE "todo"]]
       /\ cache' = [cache EXCEPT ![p] = IF m.raw THEN NoCache ELSE Open(disk)]
  BY DEF Start
<1>4. Asked' = [Asked EXCEPT ![p] = {f \in Files : f \in T /\ file[f].present}]
  <2>1. \A f \in Files : work'[p][f] # "none" <=> f \in T /\ file[f].present
    BY <1>3
  <2>2. \A q \in Procs \ {p} : work'[q] = work[q]
    BY <1>3
  <2>3. \A q \in Procs \ {p} : {f \in Files : work'[q][f] # "none"} = {f \in Files : work[q][f] # "none"}
    BY <2>2
  <2>4. {f \in Files : work'[p][f] # "none"} = {f \in Files : f \in T /\ file[f].present}
    BY <2>1
  <2> QED
    BY <2>3, <2>4 DEF Asked, Targets
<1>5. {f \in Files : f \in T /\ file[f].present} \in SUBSET {f \in Files : OnDisk[f] # NoEntry}
  BY ResultsAreValues DEF OnDisk
<1>6. NoqaOff' = [NoqaOff EXCEPT ![p] = m.raw] /\ m.raw \in BOOLEAN
  BY <1>3, ModesAssumption DEF NoqaOff
<1> QED
  BY <1>1, <1>2, <1>4, <1>5, <1>6 DEF Uncached!Begin

(* The fix pass is unseen, but for the files it changes.                   *)
LEMMA FixPassRefines ==
  ASSUME TypeOK, NEW p \in Procs, FixPass(p)
  PROVE  Unseen \/ Uncached!Stop(p) \/ \E f \in Files : Uncached!Change(f)
<1> USE DEF TypeOK
<1>1. CASE FixDone(p)
  <2>1. CASE run[p].fixOnly
    BY <1>1, <2>1, TerminateRefines DEF FixDone
  <2>2. CASE ~run[p].fixOnly
    <3>1. /\ pc[p] = "fix" /\ pc' = [pc EXCEPT ![p] = "check"]
          /\ UNCHANGED <<file, run, work, res>>
      BY <1>1, <2>2 DEF FixDone
    <3> QED
      BY <3>1 DEF Unseen, OnDisk, Phase, Asked, Targets, NoqaOff
  <2> QED
    BY <2>1, <2>2
<1>2. ASSUME UNCHANGED <<pc, run, res>>, NEW f \in Files, NEW to \in Work \ {"none"},
             work[p][f] # "none", work' = [work EXCEPT ![p][f] = to]
      PROVE  UNCHANGED <<Phase, Asked, NoqaOff, res>>
  <2>1. \A q \in Procs, g \in Files : work'[q][g] = "none" <=> work[q][g] = "none"
    BY <1>2
  <2> QED
    BY <1>2, <2>1 DEF Phase, Asked, Targets, NoqaOff
<1>3. ASSUME NEW f \in Files, FixRead(p, f) \/ FixSkip(p, f)
      PROVE  Unseen
  <2>1. UNCHANGED OnDisk
    BY <1>3 DEF FixRead, FixSkip, OnDisk
  <2> QED
    BY <1>2, <1>3, <2>1 DEF FixRead, FixSkip, Unseen, Work
<1>4. ASSUME NEW f \in Files, FixWrite(p, f)
      PROVE  Uncached!Change(f)
  <2>1. \A g \in Files \ {f} : OnDisk'[g] = OnDisk[g]
    BY <1>4 DEF FixWrite, Put, OnDisk
  <2> QED
    BY <1>2, <1>4, <2>1 DEF FixWrite, Uncached!Change, Work
<1> QED
  BY <1>1, <1>3, <1>4 DEF FixPass

(* A hit lints the file as it is now, and so does a read.                  *)
LEMMA LintRefines ==
  ASSUME SoundInv, ResultsMatch, NEW p \in Procs, NEW f \in Files, Stat(p, f) \/ Read(p, f)
  PROVE  Unseen \/ Uncached!LintNow(p, f)
<1> USE DEF SoundInv, TypeInv, TypeOK
<1>1. /\ pc[p] = "check" /\ work[p][f] \in {"todo", "missed"}
      /\ UNCHANGED <<file, pc, run>>
      /\ \E to \in Work \ {"none"} : work' = [work EXCEPT ![p][f] = to]
  BY DEF Stat, Read, Work
<1>2. UNCHANGED <<OnDisk, Phase, Asked, NoqaOff>>
  <2>1. \A q \in Procs, g \in Files : work'[q][g] = "none" <=> work[q][g] = "none"
    BY <1>1
  <2> QED
    BY <1>1, <2>1 DEF OnDisk, Phase, Asked, Targets, NoqaOff
<1>3. Phase[p] = "lint" /\ f \in Asked[p] /\ res[p][f] = NoEntry
  BY <1>1 DEF Phase, Asked, Targets, ResultsMatch
<1>4. ASSUME NEW r, res' = [res EXCEPT ![p][f] = r],
             r = Unread \/ (file[f].present /\ r = Lint(f, file[f].ver, run[p].raw))
      PROVE  Uncached!LintNow(p, f)
  <2>1. OnDisk[f] = IF file[f].present THEN file[f].ver ELSE NoEntry
    BY DEF OnDisk
  <2>2. r \in {Unread} \cup IF OnDisk[f] = NoEntry THEN {}
                           ELSE {[file |-> f, ver |-> OnDisk[f], raw |-> NoqaOff[p]]}
    BY <1>4, <2>1, ResultsAreValues DEF Lint, NoqaOff
  <2> QED
    BY <1>2, <1>3, <1>4, <2>2 DEF Uncached!LintNow
<1>5. CASE Read(p, f)
  BY <1>4, <1>5 DEF Read
<1>6. CASE Stat(p, f) /\ UNCHANGED res
  BY <1>2, <1>6 DEF Unseen
<1>7. CASE Stat(p, f) /\ ~UNCHANGED res
  <2> DEFINE k == KeyFor(p, f)
             r == cache[p].files[k].viols
  <2>1. /\ ~run[p].raw /\ file[f].present /\ Hits(cache[p], k, file[f].stamp)
        /\ res' = [res EXCEPT ![p][f] = r]
    BY <1>7 DEF Stat
  <2>2. k \in Keys /\ KeyOf[run[p].spell][f] = k /\ run[p].spell \in Spellings
    BY KeyForType DEF KeyFor, Run
  <2>3. EntrySound(file, writes, cache[p].files[k], k)
    BY <2>2 DEF MemorySound, MapSound
  <2> HIDE DEF k
  <2>4. r \in {Unread, Lint(f, file[f].ver, FALSE)}
    BY <2>1, <2>2, <2>3 DEF EntrySound, Sound, Hits, Lint
  <2>5. run[p].raw = FALSE
    BY <2>1 DEF Run
  <2> HIDE DEF r
  <2>6. r = Unread \/ r = Lint(f, file[f].ver, run[p].raw)
    BY <2>4, <2>5 DEF Lint
  <2> QED
    BY <1>4, <2>1, <2>6
<1> QED
  BY <1>5, <1>6, <1>7

(* When the results are collected, every file has one.                     *)
LEMMA CollectRefines ==
  ASSUME TypeOK, ResultsMatch, NEW p \in Procs, Collect(p)
  PROVE  Uncached!Report(p)
<1> USE DEF TypeOK
<1>1. /\ pc[p] = "check"
      /\ pc' = [pc EXCEPT ![p] = "report"] \/ pc' = [pc EXCEPT ![p] = "rename"]
      /\ UNCHANGED <<file, run, work, res>>
  BY DEF Collect
<1>2. UNCHANGED <<OnDisk, Asked, NoqaOff, res>>
  BY <1>1 DEF OnDisk, Asked, Targets, NoqaOff
<1>3. Phase[p] = "lint" /\ Phase' = [Phase EXCEPT ![p] = "report"]
  BY <1>1 DEF Phase
<1>4. \A f \in Asked[p] : res[p][f] # NoEntry
  BY DEF Asked, Targets, Collect, ResultsMatch
<1> QED
  BY <1>2, <1>3, <1>4 DEF Uncached!Report

(* The cache file is not part of what is reported.                         *)
LEMMA PersistRefines ==
  ASSUME TypeOK, NEW p \in Procs, Persist(p)
  PROVE  Unseen
BY DEF TypeOK, Persist, Rename, RenameFails, Unseen, OnDisk, Phase, Asked, Targets, NoqaOff

-----------------------------------------------------------------------------
(* The results match the work in every reachable state.                    *)
LEMMA ResultsMatchStep ==
  ASSUME SoundInv, ResultsMatch, NEW p \in Procs, Process(p)
  PROVE  ResultsMatch'
<1> USE DEF SoundInv, TypeInv, TypeOK
<1>1. \A q \in Procs \ {p} : UNCHANGED <<work[q], res[q], pc[q]>>
  <2>1. \A q \in Procs \ {p} : UNCHANGED <<work[q], res[q]>>
    BY OthersKeepMemory
  <2>2. \E to : pc' = [pc EXCEPT ![p] = to]
    <3>1. UNCHANGED pc => pc' = [pc EXCEPT ![p] = pc[p]]
      OBVIOUS
    <3>2. Terminate(p) => pc' = [pc EXCEPT ![p] = "idle"]
      BY DEF Terminate
    <3>3. CASE FixPass(p)
      BY <3>1, <3>2, <3>3 DEF FixPass, FixDone, FixRead, FixWrite, FixSkip
    <3>4. CASE CheckPass(p) \/ Persist(p)
      BY <3>1, <3>4 DEF CheckPass, Collect, Stat, Read, Persist, Rename, RenameFails
    <3>5. CASE Start(p) \/ Exit(p) \/ Crash(p)
      BY <3>2, <3>5 DEF Start, Exit, Crash
    <3> QED
      BY <3>3, <3>4, <3>5 DEF Process
  <2> QED
    BY <2>1, <2>2
<1>2. ASSUME \A f \in Files : res'[p][f] = NoEntry <=> work'[p][f] \notin {"hit", "linted"},
             pc'[p] = "idle" => \A f \in Files : work'[p][f] = "none"
      PROVE  ResultsMatch'
  <2> SUFFICES ASSUME NEW q \in Procs
               PROVE  /\ \A f \in Files :
                           res'[q][f] = NoEntry <=> work'[q][f] \notin {"hit", "linted"}
                      /\ pc'[q] = "idle" => \A f \in Files : work'[q][f] = "none"
    BY DEF ResultsMatch
  <2>1. CASE q = p
    BY <1>2, <2>1
  <2>2. CASE q # p
    <3>1. work'[q] = work[q] /\ res'[q] = res[q] /\ pc'[q] = pc[q]
      BY <1>1, <2>2
    <3> QED
      BY <3>1 DEF ResultsMatch
  <2> QED
    BY <2>1, <2>2
<1>3. ASSUME Terminate(p)
      PROVE  ResultsMatch'
  <2>1. \A f \in Files : work'[p][f] = "none" /\ res'[p][f] = NoEntry
    BY <1>3 DEF Terminate, NoWork, NoValue
  <2> QED
    BY <1>2, <2>1
<1>4. CASE Start(p)
  <2>1. /\ \A f \in Files : work'[p][f] \in {"none", "tofix", "todo"}
        /\ UNCHANGED res
        /\ pc[p] = "idle" /\ pc'[p] # "idle"
    BY <1>4 DEF Start
  <2>2. \A f \in Files : res[p][f] = NoEntry
    BY <2>1 DEF ResultsMatch
  <2> QED
    BY <1>2, <2>1, <2>2
<1>5. CASE FixPass(p)
  <2>1. CASE Terminate(p)
    BY <1>3, <2>1
  <2>2. CASE ~Terminate(p)
    <3>1. /\ pc'[p] # "idle" /\ UNCHANGED res
          /\ \A f \in Files : \/ work'[p][f] = work[p][f]
                              \/ /\ work[p][f] \in {"tofix", "fixing"}
                                 /\ work'[p][f] \in {"fixing", "todo"}
      BY <1>5, <2>2 DEF FixPass, FixDone, FixRead, FixWrite, FixSkip
    <3>2. ASSUME NEW f \in Files
          PROVE  res'[p][f] = NoEntry <=> work'[p][f] \notin {"hit", "linted"}
      <4>1. res[p][f] = NoEntry <=> work[p][f] \notin {"hit", "linted"}
        BY DEF ResultsMatch
      <4> QED
        BY <3>1, <4>1
    <3> QED
      BY <1>2, <3>1, <3>2
  <2> QED
    BY <2>1, <2>2
<1>6. ASSUME NEW f \in Files, Stat(p, f) \/ Read(p, f)
      PROVE  ResultsMatch'
  <2>1. /\ pc'[p] # "idle"
        /\ \A g \in Files \ {f} : UNCHANGED <<work[p][g], res[p][g]>>
    BY <1>6 DEF Stat, Read
  <2>2. res'[p][f] = NoEntry <=> work'[p][f] \notin {"hit", "linted"}
    <3>1. CASE Read(p, f)
      BY <3>1, ResultsAreValues DEF Read, Lint, Results, Linted, Run
    <3>2. CASE Stat(p, f) /\ work'[p][f] = "hit"
      <4>1. /\ Hits(cache[p], KeyFor(p, f), file[f].stamp)
            /\ res'[p][f] = cache[p].files[KeyFor(p, f)].viols
        BY <3>2 DEF Stat
      <4> QED
        BY <3>2, <4>1, HitType, KeyForType, ResultsAreValues DEF Hits
    <3>3. CASE Stat(p, f) /\ work'[p][f] # "hit"
      <4>1. work[p][f] = "todo" /\ work'[p][f] = "missed" /\ UNCHANGED res
        BY <3>3 DEF Stat
      <4> QED
        BY <4>1 DEF ResultsMatch
    <3> QED
      BY <1>6, <3>1, <3>2, <3>3
  <2> QED
    <3>1. ASSUME NEW g \in Files \ {f}
          PROVE  res'[p][g] = NoEntry <=> work'[p][g] \notin {"hit", "linted"}
      BY <2>1, <3>1 DEF ResultsMatch
    <3> QED
      BY <1>2, <2>1, <2>2, <3>1
<1>7. CASE Collect(p) \/ Persist(p)
  <2>1. pc'[p] # "idle" /\ UNCHANGED <<work, res>>
    BY <1>7 DEF Collect, Persist, Rename, RenameFails
  <2> QED
    BY <1>2, <2>1 DEF ResultsMatch
<1>8. CASE Exit(p) \/ Crash(p)
  BY <1>3, <1>8 DEF Exit, Crash
<1> QED
  BY <1>4, <1>5, <1>6, <1>7, <1>8 DEF Process, CheckPass

RefineInv == SoundInv /\ ResultsMatch

(* The initial states of the two specifications match.                     *)
LEMMA InitRefines == Init => RefineInv /\ Uncached!Init
<1> SUFFICES ASSUME Init PROVE RefineInv /\ Uncached!Init
  OBVIOUS
<1>1. SoundInv
  BY InitSound
<1>2. ResultsMatch
  BY DEF Init, ResultsMatch, NoWork, NoValue
<1>3. OnDisk = [f \in Files |-> 0]
  BY DEF Init, OnDisk
<1>4. /\ Phase = [p \in Procs |-> "off"]
      /\ NoqaOff = [p \in Procs |-> FALSE]
      /\ Asked = [p \in Procs |-> {}]
  BY DEF Init, Phase, NoqaOff, NoRun, Asked, Targets, NoWork
<1>5. res = [p \in Procs |-> [f \in Files |-> NoEntry]]
  BY DEF Init, NoValue
<1> QED
  BY <1>1, <1>2, <1>3, <1>4, <1>5 DEF RefineInv, Uncached!Init

(* Each step is a step of the uncached check or is not seen by it.         *)
LEMMA StepRefines ==
  ASSUME FineStamps, OneFilePerKey, RefineInv, [Next]_vars
  PROVE  RefineInv' /\ [Uncached!Next]_Uncached!vars
<1> USE DEF RefineInv
<1>1. ASSUME Unseen PROVE UNCHANGED Uncached!vars
  BY <1>1 DEF Unseen, Uncached!vars
<1>2. TypeInv /\ TypeOK
  BY DEF SoundInv, TypeInv
<1>3. CASE FileSystem
  <2>1. SoundInv'
    BY <1>3, FileSystemSound
  <2>2. UNCHANGED <<pc, work, res>>
    BY <1>3 DEF FileSystem, Tick, LoseDisk, Edit, Restamp, Delete, procVars
  <2>3. ResultsMatch'
    BY <2>2 DEF ResultsMatch
  <2> QED
    BY <1>1, <1>2, <1>3, <2>1, <2>3, FileSystemRefines DEF Uncached!Next
<1>4. ASSUME NEW p \in Procs, Process(p)
      PROVE  RefineInv' /\ (Unseen \/ Uncached!Next)
  <2>1. SoundInv' /\ ResultsMatch'
    BY <1>4, ProcessSound, ResultsMatchStep
  <2>2. CASE Start(p)
    BY <1>2, <2>1, <2>2, StartRefines DEF Uncached!Next
  <2>3. CASE FixPass(p)
    BY <1>2, <2>1, <2>3, FixPassRefines DEF Uncached!Next
  <2>4. CASE CheckPass(p)
    BY <1>2, <2>1, <2>4, CollectRefines, LintRefines DEF CheckPass, Uncached!Next
  <2>5. CASE Persist(p)
    BY <1>2, <2>1, <2>5, PersistRefines
  <2>6. CASE Exit(p) \/ Crash(p)
    <3>1. pc[p] # "idle" /\ Terminate(p) /\ UNCHANGED file
      BY <2>6 DEF Exit, Crash
    <3> QED
      BY <1>2, <2>1, <3>1, TerminateRefines DEF Uncached!Next
  <2> QED
    BY <1>4, <2>2, <2>3, <2>4, <2>5, <2>6 DEF Process
<1>5. CASE UNCHANGED vars
  BY <1>5 DEF vars, SoundInv, TypeInv, TypeOK, LintedHasResult, StampsOld, DiskSound,
              MemorySound, ResultsMatch, Uncached!vars, OnDisk, Phase, Asked, Targets, NoqaOff
<1> QED
  BY <1>1, <1>3, <1>4, <1>5 DEF Next

(* The cache is transparent: whatever konform processes with a shared      *)
(* cache do, for any files, edits, fixes, crashes and damage to the cache  *)
(* file, is what processes without a cache could have done, provided that  *)
(* each write changes the stamp and each path string names one file.       *)
THEOREM CacheIsTransparent ==
  ASSUME FineStamps, OneFilePerKey
  PROVE  Spec => LintsWithoutCache
<1>1. Init => RefineInv /\ Uncached!Init
  BY InitRefines
<1>2. RefineInv /\ [Next]_vars => RefineInv' /\ [Uncached!Next]_Uncached!vars
  BY StepRefines
<1> QED
  BY <1>1, <1>2, PTL DEF Spec, LintsWithoutCache, Uncached!Spec

-----------------------------------------------------------------------------
(* In-use entries stay.  One process at a time: then what it finds in its  *)
(* Cache when it writes is still what is on disk.                          *)

OneProcess == \A p, q \in Procs : p = q

(* No entry was used much later than it says.                              *)
Fresher(files) == \A k \in Live(files) : used[k] <= files[k].seen + RefreshAfter

HitKeys(p) == {KeyFor(p, f) : f \in {g \in Files : work[p][g] = "hit"}}

(* Before it stages its results a process has in its Cache what is on disk, *)
(* but for what it rewrote, and has touched what it hit.                   *)
Working(p) ==
  pc[p] \in {"fix", "check"} =>
    /\ cache[p].touched = HitKeys(p)
    /\ run[p].raw => HitKeys(p) = {}
    /\ \A k \in HitKeys(p) : cache[p].files[k] # NoEntry
    /\ pc[p] = "fix" => HitKeys(p) = {}
    /\ ~run[p].raw =>
         /\ cache[p].pending = NoFiles
         /\ Fresher(cache[p].files)
         /\ disk.kind = "loaded" =>
              \A k \in Keys : cache[p].files[k] = IF k \in rewrote[p] THEN NoEntry ELSE disk.files[k]

(* What it is about to write records its uses, and lacks an entry only if  *)
(* there are too many or the entry is too old.                             *)
Writing(p) ==
  pc[p] = "rename" =>
    /\ staged[p] <= now
    /\ \A k \in Live(cache[p].files) :
         IF k \in UsedBy(p) THEN cache[p].files[k].seen = staged[p]
         ELSE used[k] <= cache[p].files[k].seen + RefreshAfter
    /\ disk.kind = "loaded" /\ Cardinality(AtHand(p)) <= MaxEntries
         => \A k \in Live(disk.files) \ (Live(cache[p].files) \cup rewrote[p]) :
              disk.files[k].seen < staged[p] - EvictAfter

HistoryOK ==
  /\ used    \in [Keys -> Nat]
  /\ staged  \in [Procs -> Nat]
  /\ rewrote \in [Procs -> SUBSET Keys]

RunOK(p) == (pc[p] = "idle" => rewrote[p] = {}) /\ Working(p) /\ Writing(p)

ExpiryInv ==
  /\ TypeInv /\ HistoryOK
  /\ disk.kind = "loaded" => Fresher(disk.files)
  /\ \A p \in Procs : RunOK(p)

(* The entries a step of the clock or the users leaves alone are as fresh  *)
(* as they were, in the memory of the process and on disk.                 *)
LEMMA FileSystemExpiry ==
  ASSUME ExpiryInv, FileSystem, UNCHANGED <<used, staged, rewrote>>
  PROVE  ExpiryInv'
<1> USE DEF ExpiryInv
<1>1. TypeInv'
  BY FileSystemType
<1>2. /\ UNCHANGED <<pc, run, cache, work, key, res>>
      /\ now' \in Nat /\ now \in Nat /\ now <= now'
      /\ UNCHANGED disk \/ disk'.kind # "loaded"
  BY DEF FileSystem, Tick, LoseDisk, Edit, Put, Restamp, Delete, procVars, TypeInv, TypeOK
<1>3. HistoryOK'
  BY DEF HistoryOK
<1>4. disk'.kind = "loaded" => Fresher(disk.files)'
  BY <1>2 DEF Fresher
<1>5. ASSUME NEW p \in Procs PROVE RunOK(p)'
  <2>1. /\ RunOK(p)
        /\ HitKeys(p)' = HitKeys(p) /\ UsedBy(p)' = UsedBy(p)
        /\ Targets(p)' = Targets(p) /\ Fresher(cache[p].files)' = Fresher(cache[p].files)
    BY <1>2 DEF HitKeys, UsedBy, Fresh, Targets, KeyFor, Fresher, HistoryOK
  <2>2. Working(p)'
    BY <1>2, <2>1 DEF RunOK, Working
  <2>3. Writing(p)'
    <3>1. disk'.kind = "loaded" => disk' = disk /\ AtHand(p)' = AtHand(p)
      BY <1>2, <2>1 DEF AtHand, KeyFor
    <3>2. staged[p] \in Nat
      BY DEF HistoryOK
    <3> QED
      BY <1>2, <2>1, <3>1, <3>2 DEF RunOK, Writing
  <2> QED
    BY <1>2, <2>1, <2>2, <2>3 DEF RunOK
<1> QED
  BY <1>1, <1>3, <1>4, <1>5

(* A process that ends has nothing left to lose.                           *)
LEMMA IdleExpiry ==
  ASSUME NEW p \in Procs, pc'[p] \in {"idle", "report"}, pc'[p] = "idle" => rewrote'[p] = {}
  PROVE  RunOK(p)'
BY DEF RunOK, Working, Writing

(* What a process finds on disk when it starts is as fresh as the disk.    *)
LEMMA StartExpiry ==
  ASSUME ExpiryInv, NEW p \in Procs, Start(p), UNCHANGED <<used, staged, rewrote>>
  PROVE  RunOK(p)'
<1> USE DEF ExpiryInv, TypeInv, TypeOK
<1>1. /\ pc'[p] \in {"fix", "check"} /\ rewrote'[p] = {} /\ disk' = disk
      /\ \A f \in Files : work'[p][f] \in {"none", "tofix", "todo"}
      /\ ~run'[p].raw => cache'[p] = Open(disk)
      /\ run'[p].raw => cache'[p] = NoCache
  BY DEF Start, RunOK
<1>2. HitKeys(p)' = {}
  BY <1>1 DEF HitKeys
<1>3. cache'[p].touched = {} /\ cache'[p].pending = NoFiles
  BY <1>1 DEF Open, NoCache
<1>4. ~run'[p].raw => cache'[p].files = IF disk.kind = "loaded" THEN disk.files ELSE NoFiles
  BY <1>1 DEF Open
<1>5. ~run'[p].raw => Fresher(cache[p].files)'
  BY <1>4 DEF Fresher, Live, NoFiles
<1> QED
  BY <1>1, <1>2, <1>3, <1>4, <1>5 DEF RunOK, Working, Writing

(* A hit is touched, and nothing else is.                                  *)
LEMMA StatExpiry ==
  ASSUME ExpiryInv, NEW p \in Procs, NEW f \in Files, Stat(p, f), UNCHANGED <<used, staged, rewrote>>
  PROVE  RunOK(p)'
<1> DEFINE k == KeyFor(p, f)
<1>1. /\ k \in Keys /\ cache[p] \in Cache /\ work \in [Procs -> [Files -> Work]]
      /\ cache \in [Procs -> Cache] /\ RunOK(p)
  BY KeyForType DEF ExpiryInv, TypeInv, TypeOK
<1>2. /\ pc[p] = "check" /\ work[p][f] = "todo"
      /\ UNCHANGED <<pc, run, disk>>
  BY DEF Stat
<1>3. Working(p)
  BY <1>1 DEF RunOK
<1> HIDE DEF k
<1>4. CASE ~run[p].raw /\ file[f].present /\ Hits(cache[p], k, file[f].stamp)
  <2>1. /\ cache' = [cache EXCEPT ![p] = Touch(cache[p], k)]
        /\ work'  = [work EXCEPT ![p][f] = "hit"]
    BY <1>4 DEF Stat, k
  <2>2. /\ cache'[p].files = cache[p].files /\ cache'[p].pending = cache[p].pending
        /\ cache'[p].touched = cache[p].touched \cup {k}
    BY <1>1, <2>1 DEF Touch, Cache
  <2>3. HitKeys(p)' = HitKeys(p) \cup {k}
    <3>1. {g \in Files : work'[p][g] = "hit"} = {g \in Files : work[p][g] = "hit"} \cup {f}
      BY <1>1, <2>1
    <3>2. \A g \in Files : KeyFor(p, g)' = KeyFor(p, g)
      BY <1>2 DEF KeyFor
    <3> QED
      BY <3>1, <3>2 DEF HitKeys, k
  <2>4. Fresher(cache[p].files)' = Fresher(cache[p].files)
    BY <2>2 DEF Fresher
  <2> QED
    BY <1>1, <1>2, <1>3, <1>4, <2>2, <2>3, <2>4 DEF RunOK, Working, Writing, Hits
<1>5. CASE ~(~run[p].raw /\ file[f].present /\ Hits(cache[p], k, file[f].stamp))
  <2>1. work' = [work EXCEPT ![p][f] = "missed"] /\ cache' = cache
    BY <1>5 DEF Stat, k
  <2>2. HitKeys(p)' = HitKeys(p)
    <3>1. {g \in Files : work'[p][g] = "hit"} = {g \in Files : work[p][g] = "hit"}
      BY <1>1, <1>2, <2>1
    <3> QED
      BY <1>2, <3>1 DEF HitKeys, KeyFor
  <2>3. Fresher(cache[p].files)' = Fresher(cache[p].files)
    BY <2>1 DEF Fresher
  <2> QED
    BY <1>1, <1>2, <1>3, <2>1, <2>2, <2>3 DEF RunOK, Working, Writing
<1> QED
  BY <1>4, <1>5

(* A step that neither hits nor touches the Cache keeps all of it.         *)
LEMMA QuietExpiry ==
  ASSUME ExpiryInv, NEW p \in Procs, UNCHANGED <<run, disk, used, staged, rewrote>>,
         cache'[p] = cache[p], pc[p] \in {"fix", "check"}, pc'[p] \in {pc[p], "check"},
         \A g \in Files : work'[p][g] = "hit" <=> work[p][g] = "hit"
  PROVE  RunOK(p)'
<1>1. HitKeys(p)' = HitKeys(p)
  BY DEF HitKeys, KeyFor
<1>2. Fresher(cache[p].files)' = Fresher(cache[p].files)
  BY DEF Fresher
<1>3. RunOK(p)
  BY DEF ExpiryInv
<1> QED
  BY <1>1, <1>2, <1>3 DEF RunOK, Working, Writing

(* A fix takes the entry out of the Cache and says so.                     *)
LEMMA FixWriteExpiry ==
  ASSUME ExpiryInv, NEW p \in Procs, NEW f \in Files, Rewritten(p, f)
  PROVE  RunOK(p)' /\ rewrote' \in [Procs -> SUBSET Keys]
<1> DEFINE k == KeyFor(p, f)
<1>1. /\ k \in Keys /\ cache[p] \in Cache /\ cache[p].files \in Package
      /\ work \in [Procs -> [Files -> Work]]
      /\ cache \in [Procs -> Cache] /\ RunOK(p) /\ HistoryOK
  BY KeyForType DEF ExpiryInv, TypeInv, TypeOK, Cache
<1>2. /\ pc[p] = "fix" /\ work[p][f] = "fixing" /\ UNCHANGED <<pc, run, disk, used, staged>>
      /\ work' = [work EXCEPT ![p][f] = "todo"]
      /\ cache' = [cache EXCEPT ![p] = Invalidate(cache[p], k)]
      /\ rewrote' = [rewrote EXCEPT ![p] = @ \cup {k}]
  BY DEF Rewritten, FixWrite
<1> HIDE DEF k
<1>3. rewrote' \in [Procs -> SUBSET Keys] /\ rewrote'[p] = rewrote[p] \cup {k}
  BY <1>1, <1>2 DEF HistoryOK
<1>4. /\ cache'[p].touched = cache[p].touched
      /\ cache'[p].files = [cache[p].files EXCEPT ![k] = NoEntry]
      /\ cache'[p].pending = [cache[p].pending EXCEPT ![k] = NoEntry]
  BY <1>1, <1>2 DEF Invalidate, Cache
<1>5. \A j \in Keys : cache'[p].files[j] = IF j = k THEN NoEntry ELSE cache[p].files[j]
  BY <1>1, <1>4 DEF Package
<1>6. cache[p].pending = NoFiles => cache'[p].pending = NoFiles
  BY <1>1, <1>4 DEF NoFiles
<1>7. Working(p)
  BY <1>1 DEF RunOK
<1>8. HitKeys(p)' = {}
  <2>1. HitKeys(p) = {}
    BY <1>2, <1>7 DEF Working
  <2>2. \A g \in Files : work'[p][g] # "hit"
    BY <1>1, <1>2, <2>1 DEF HitKeys
  <2> QED
    BY <2>2 DEF HitKeys
<1>9. Fresher(cache[p].files) => Fresher(cache[p].files)'
  BY <1>2, <1>5 DEF Fresher, Live
<1> QED
  BY <1>1, <1>2, <1>3, <1>4, <1>5, <1>6, <1>7, <1>8, <1>9 DEF RunOK, Working, Writing

(* When the entries fit, trimming drops none.                              *)
LEMMA NothingTrimmed ==
  ASSUME NEW files, NEW S, IsFiniteSet(S), Live(files) \subseteq S, Cardinality(S) <= MaxEntries,
         NEW new \in Trimmed(files)
  PROVE  Live(new) = Live(files)
<1> DEFINE L == Live(files)
<1>1. IsFiniteSet(L) /\ Cardinality(L) <= Cardinality(S) /\ Cardinality(L) \in Nat /\ Cardinality(S) \in Nat
  BY FS_Subset, FS_CardinalityType
<1>2. Fitting(Cardinality(L)) = Cardinality(L)
  BY <1>1, SizeAssumption DEF Fitting
<1>3. PICK K \in SUBSET L : new = Restricted(files, K) /\ Cardinality(K) = Cardinality(L)
  BY <1>2 DEF Trimmed
<1>4. K = L
  BY <1>1, <1>3, FS_Subset
<1> QED
  BY <1>3, <1>4 DEF Restricted, Live

(* What a run stages is what it linted, and it keeps what it touched.      *)
LEMMA StagedFields ==
  ASSUME TypeInv, NEW p \in Procs, cache[p].pending = NoFiles
  PROVE  /\ Staged(p).files = cache[p].files /\ Staged(p).touched = cache[p].touched
         /\ Live(Staged(p).pending) = {KeyFor(p, f) : f \in Fresh(p)}
<1>1. cache[p] \in Cache
  BY DEF TypeInv, TypeOK
<1>2. Staged(p).files = cache[p].files /\ Staged(p).touched = cache[p].touched
  BY <1>1 DEF Staged, Cache
<1>3. ASSUME NEW k \in Keys, ~\E f \in Fresh(p) : KeyFor(p, f) = k
      PROVE  Staged(p).pending[k] = NoEntry
  BY <1>1, <1>3 DEF Staged, Cache, NoFiles
<1>4. ASSUME NEW k \in Keys, \E f \in Fresh(p) : KeyFor(p, f) = k
      PROVE  Staged(p).pending[k] # NoEntry
  <2> DEFINE g == CHOOSE f \in Fresh(p) : KeyFor(p, f) = k
  <2>1. g \in Fresh(p)
    BY <1>4
  <2>2. Staged(p).pending[k] = [key |-> key[p][g], viols |-> res[p][g]]
    BY <1>1, <1>4 DEF Staged, Cache
  <2>3. [key |-> key[p][g], viols |-> res[p][g]] \in StagedEntry
    BY <2>1 DEF TypeInv, TypeOK, LintedHasResult, Fresh, StagedEntry
  <2> QED
    BY <2>2, <2>3, NoEntryAssumption
<1>5. \A f \in Fresh(p) : KeyFor(p, f) \in Keys
  BY KeyForType DEF TypeInv, Fresh
<1> QED
  BY <1>2, <1>3, <1>4, <1>5 DEF Live

(* With nothing to write the hits are fresh enough, and nothing was linted *)
(* that could have been stored.                                            *)
LEMMA CollectQuietly ==
  ASSUME ExpiryInv, NEW p \in Procs, Collected(p), pc'[p] = "report"
  PROVE  /\ used' \in [Keys -> Nat]
         /\ disk.kind = "loaded" => Fresher(disk.files)'
<1>1. /\ now \in Nat /\ HistoryOK /\ RunOK(p) /\ TypeInv /\ pc \in [Procs -> PC]
      /\ disk \in DiskFile
  BY DEF ExpiryInv, TypeInv, TypeOK
<1>2. /\ pc[p] = "check" /\ disk' = disk
      /\ used' = [k \in Keys |-> IF k \in UsedBy(p) THEN now ELSE used[k]]
  BY DEF Collected, Collect, Note
<1>3. run[p].raw \/ ~NeedsWrite(Staged(p), now)
  <2>1. CASE ~(run[p].raw \/ ~NeedsWrite(Staged(p), now))
    BY <1>1, <2>1 DEF Collected, Collect
  <2> QED
    BY <2>1
<1>4. ASSUME NEW k \in Live(disk.files), k \in UsedBy(p), disk.kind = "loaded"
      PROVE  now <= disk.files[k].seen + RefreshAfter
  <2>1. ~run[p].raw /\ ~NeedsWrite(Staged(p), now)
    BY <1>3, <1>4 DEF UsedBy
  <2>2. /\ cache[p].touched = HitKeys(p) /\ cache[p].pending = NoFiles
        /\ \A j \in HitKeys(p) : cache[p].files[j] # NoEntry
        /\ \A j \in Keys : cache[p].files[j] = IF j \in rewrote[p] THEN NoEntry ELSE disk.files[j]
    BY <1>1, <1>2, <1>4, <2>1 DEF RunOK, Working
  <2>3. k \notin {KeyFor(p, f) : f \in Fresh(p)}
    BY <1>1, <2>1, <2>2, StagedFields DEF NeedsWrite
  <2>4. k \in HitKeys(p) /\ k \in Keys
    BY <1>4, <2>1, <2>3 DEF UsedBy, HitKeys, Live
  <2>5. ~(now - cache[p].files[k].seen > RefreshAfter)
    BY <1>1, <2>1, <2>2, <2>4, StagedFields DEF NeedsWrite, StaleHit
  <2>6. cache[p].files[k] = disk.files[k]
    BY <2>2, <2>4
  <2>7. disk.files[k] \in Entry
    BY <1>1, <1>4 DEF DiskFile, Package, Live
  <2> QED
    BY <1>1, <2>5, <2>6, <2>7, RefreshAssumption DEF Entry
<1>5. used' \in [Keys -> Nat]
  BY <1>1, <1>2 DEF HistoryOK
<1>6. disk.kind = "loaded" => Fresher(disk.files)'
  BY <1>2, <1>4 DEF ExpiryInv, Fresher, Live
<1> QED
  BY <1>5, <1>6

(* What is encoded records the uses of this run, and lacks what is too old.*)
LEMMA CollectToWrite ==
  ASSUME ExpiryInv, NEW p \in Procs, Collected(p), pc'[p] # "report"
  PROVE  used' = used /\ Writing(p)'
<1> DEFINE S == Staged(p)  M == Merged(S, now)
<1>1. /\ now \in Nat /\ HistoryOK /\ RunOK(p) /\ TypeInv /\ pc \in [Procs -> PC]
      /\ disk \in DiskFile /\ cache \in [Procs -> Cache]
  BY DEF ExpiryInv, TypeInv, TypeOK
<1>2. /\ pc[p] = "check" /\ UNCHANGED <<now, disk, run, work, key, used, rewrote>>
      /\ staged'[p] = now
  BY <1>1 DEF Collected, Collect, HistoryOK
<1>3. ~run[p].raw
  BY <1>1 DEF Collected, Collect
<1>4. PICK files \in Packages(S, now) : cache'[p].files = files
  <2>1. PICK files \in Packages(S, now) : cache' = [cache EXCEPT ![p] = Merge(S, files)]
    BY <1>1 DEF Collected, Collect
  <2>2. cache'[p].files = files
    BY <1>1, <2>1 DEF Merge
  <2> QED
    BY <2>1, <2>2
<1>5. /\ cache[p].touched = HitKeys(p) /\ cache[p].pending = NoFiles
      /\ \A j \in HitKeys(p) : cache[p].files[j] # NoEntry
      /\ Fresher(cache[p].files)
      /\ disk.kind = "loaded" =>
           \A j \in Keys : cache[p].files[j] = IF j \in rewrote[p] THEN NoEntry ELSE disk.files[j]
  BY <1>1, <1>2, <1>3 DEF RunOK, Working
<1>6. /\ S.files = cache[p].files /\ S.touched = HitKeys(p)
      /\ Live(S.pending) = {KeyFor(p, f) : f \in Fresh(p)}
  BY <1>1, <1>5, StagedFields
<1>7. UsedBy(p) = HitKeys(p) \cup Live(S.pending)
  BY <1>3, <1>6 DEF UsedBy, HitKeys
<1>8. UsedBy(p)' = UsedBy(p) /\ AtHand(p)' = AtHand(p)
  BY <1>2 DEF UsedBy, AtHand, Targets, Fresh, KeyFor
<1> HIDE DEF S
<1>9. ASSUME NEW k \in Keys
      PROVE  /\ k \in UsedBy(p) /\ M[k] # NoEntry => M[k].seen = now
             /\ k \notin UsedBy(p) => M[k] = cache[p].files[k]
             /\ M[k] # NoEntry => k \in Live(S.pending) \/ cache[p].files[k] # NoEntry
             /\ cache[p].files[k] # NoEntry => M[k] # NoEntry
  <2>1. cache[p].files[k] \in Entry \cup {NoEntry}
    BY <1>1 DEF Cache, Package
  <2>2. CASE S.pending[k] # NoEntry
    <3>1. M[k] = [key |-> S.pending[k].key, seen |-> now, viols |-> S.pending[k].viols]
      BY <2>2 DEF Merged
    <3>2. k \in Live(S.pending)
      BY <2>2 DEF Live
    <3>3. S.pending[k] \in StagedEntry
      BY <1>1, <2>2, StagedType DEF S, Cache
    <3>4. M[k] \in Entry
      BY <1>1, <3>1, <3>3 DEF StagedEntry, Entry
    <3> QED
      BY <1>7, <3>1, <3>2, <3>4, NoEntryAssumption
  <2>3. CASE S.pending[k] = NoEntry /\ k \in HitKeys(p)
    <3>1. M[k] = [cache[p].files[k] EXCEPT !.seen = now] /\ cache[p].files[k] # NoEntry
      BY <1>5, <1>6, <2>3 DEF Merged
    <3>2. M[k] \in Entry /\ M[k].seen = now
      BY <1>1, <2>1, <3>1 DEF Entry
    <3> QED
      BY <1>7, <2>3, <3>1, <3>2, NoEntryAssumption
  <2>4. CASE S.pending[k] = NoEntry /\ k \notin HitKeys(p)
    <3>1. M[k] = cache[p].files[k] /\ k \notin Live(S.pending)
      BY <1>6, <2>4 DEF Merged, Live
    <3> QED
      BY <1>7, <2>4, <3>1
  <2> QED
    BY <2>2, <2>3, <2>4
<1>10. \A k \in Keys : files[k] \in {NoEntry, M[k]}
  BY DEF Packages, Trimmed, Evicted, Restricted
<1>11. ASSUME NEW k \in Live(files)
       PROVE  IF k \in UsedBy(p) THEN files[k].seen = now
              ELSE used[k] <= files[k].seen + RefreshAfter
  <2>1. k \in Keys /\ files[k] = M[k] /\ files[k] # NoEntry
    BY <1>10 DEF Live
  <2> QED
    BY <1>5, <1>9, <2>1 DEF Fresher, Live
<1>12. ASSUME disk.kind = "loaded", Cardinality(AtHand(p)) <= MaxEntries,
              NEW k \in Live(disk.files), k \notin Live(files), k \notin rewrote[p]
       PROVE  disk.files[k].seen < now - EvictAfter
  <2> DEFINE E == Evicted(M, now)
  <2>1. k \in Keys /\ disk.files[k] \in Entry /\ cache[p].files[k] = disk.files[k]
        /\ disk.files[k] # NoEntry
    BY <1>1, <1>5, <1>12 DEF Live, DiskFile, Package
  <2>2. M[k] # NoEntry
    BY <1>9, <2>1
  <2>3. Live(E) \subseteq AtHand(p)
    <3> SUFFICES ASSUME NEW j \in Live(E) PROVE j \in AtHand(p)
      OBVIOUS
    <3>1. j \in Keys /\ M[j] # NoEntry
      BY DEF Evicted, Restricted, Live
    <3>2. CASE j \in Live(S.pending)
      <4>1. PICK f \in Fresh(p) : j = KeyFor(p, f)
        BY <1>6, <3>2
      <4> QED
        BY <4>1 DEF Fresh, AtHand, Targets
    <3>3. CASE cache[p].files[j] # NoEntry
      BY <1>5, <1>12, <3>1, <3>3 DEF AtHand, Live
    <3> QED
      BY <1>9, <3>1, <3>2, <3>3
  <2>4. IsFiniteSet(AtHand(p))
    <3>1. AtHand(p) \subseteq Keys
      BY <1>1, KeyForType DEF AtHand, Live, Targets, TypeInv
    <3> QED
      BY <3>1, FS_Subset, KeysAssumption
  <2> HIDE DEF M
  <2>5. files \in Trimmed(E)
    BY DEF Packages, M
  <2> HIDE DEF E
  <2>6. Live(files) = Live(E)
    BY <1>12, <2>3, <2>4, <2>5, NothingTrimmed
  <2>7. E[k] = NoEntry
    BY <1>12, <2>1, <2>6 DEF Live
  <2>8. ~(M[k].seen >= now - EvictAfter)
    BY <2>1, <2>2, <2>7 DEF E, Evicted, Restricted, Live
  <2>9. M[k].seen = now \/ M[k] = disk.files[k]
    BY <1>9, <2>1, <2>2 DEF M
  <2> QED
    BY <1>1, <2>1, <2>8, <2>9, EvictAssumption DEF Entry
<1> HIDE DEF M
<1> QED
  BY <1>1, <1>2, <1>4, <1>8, <1>11, <1>12 DEF Writing

(* The file that is written records the uses of this run.                  *)
LEMMA RenamedExpiry ==
  ASSUME ExpiryInv, NEW p \in Procs, Renamed(p)
  PROVE  used' \in [Keys -> Nat] /\ Fresher(disk.files)' /\ RunOK(p)'
<1>1. HistoryOK /\ RunOK(p) /\ pc \in [Procs -> PC] /\ cache \in [Procs -> Cache]
  BY DEF ExpiryInv, TypeInv, TypeOK
<1>2. /\ pc[p] = "rename" /\ pc'[p] = "report" /\ disk'.files = cache[p].files
      /\ used' = [k \in Keys |-> IF k \in UsedBy(p) THEN staged[p] ELSE used[k]]
  BY <1>1 DEF Renamed, Rename, Note, Loaded
<1>3. staged[p] \in Nat /\ used \in [Keys -> Nat]
  BY <1>1 DEF HistoryOK
<1>4. ASSUME NEW k \in Live(cache[p].files)
      PROVE  used'[k] <= cache[p].files[k].seen + RefreshAfter
  <2>1. k \in Keys /\ cache[p].files[k] \in Entry
    BY <1>1, <1>4 DEF Live, Cache, Package
  <2>2. CASE k \in UsedBy(p)
    <3>1. used'[k] = staged[p] /\ cache[p].files[k].seen = staged[p]
      BY <1>1, <1>2, <1>4, <2>1, <2>2 DEF RunOK, Writing
    <3> QED
      BY <1>3, <3>1, RefreshAssumption
  <2>3. CASE k \notin UsedBy(p)
    <3>1. used'[k] = used[k] /\ used[k] <= cache[p].files[k].seen + RefreshAfter
      BY <1>1, <1>2, <1>4, <2>1, <2>3 DEF RunOK, Writing
    <3> QED
      BY <3>1
  <2> QED
    BY <2>2, <2>3
<1> QED
  BY <1>1, <1>2, <1>3, <1>4, IdleExpiry DEF Fresher, Live

(* The steps that history does not note.                                   *)
LEMMA UnnotedExpiry ==
  ASSUME ExpiryInv, NEW p \in Procs, Unnoted(p)
  PROVE  RunOK(p)' /\ HistoryOK' /\ UNCHANGED disk
<1> USE DEF ExpiryInv, TypeInv, TypeOK
<1>1. /\ UNCHANGED <<used, staged>> /\ HistoryOK
      /\ rewrote' = [rewrote EXCEPT ![p] = IF pc'[p] = "idle" THEN {} ELSE @]
  BY DEF Unnoted
<1>2. HistoryOK' /\ (pc'[p] # "idle" => rewrote' = rewrote) /\ (pc'[p] = "idle" => rewrote'[p] = {})
  BY <1>1 DEF HistoryOK
<1>3. ASSUME Terminate(p) PROVE RunOK(p)'
  <2>1. pc'[p] = "idle"
    BY <1>3 DEF Terminate
  <2> QED
    BY <1>2, <2>1, IdleExpiry
<1>4. CASE Start(p)
  <2>1. pc'[p] # "idle" /\ UNCHANGED disk
    BY <1>4 DEF Start
  <2> QED
    BY <1>1, <1>2, <1>4, <2>1, StartExpiry
<1>5. CASE FixDone(p)
  <2>1. CASE Terminate(p)
    BY <1>2, <1>3, <1>5, <2>1 DEF FixDone
  <2>2. CASE ~Terminate(p)
    <3>1. /\ pc[p] = "fix" /\ pc'[p] = "check" /\ UNCHANGED <<run, cache, work, disk>>
      BY <1>5, <2>2 DEF FixDone
    <3> QED
      BY <1>1, <1>2, <3>1, QuietExpiry
  <2> QED
    BY <2>1, <2>2
<1>6. CASE RenameFails(p)
  <2>1. pc'[p] = "report" /\ UNCHANGED disk
    BY <1>6 DEF RenameFails
  <2> QED
    BY <1>2, <2>1, IdleExpiry
<1>7. CASE Exit(p) \/ Crash(p)
  BY <1>2, <1>3, <1>7 DEF Exit, Crash
<1>8. ASSUME NEW f \in Files, FixRead(p, f) \/ FixSkip(p, f) \/ Read(p, f)
      PROVE  RunOK(p)' /\ UNCHANGED disk
  <2>1. /\ UNCHANGED <<pc, run, cache, disk>> /\ pc[p] \in {"fix", "check"}
        /\ work[p][f] # "hit"
        /\ \E w \in {"fixing", "todo", "linted"} : work' = [work EXCEPT ![p][f] = w]
    BY <1>8 DEF FixRead, FixSkip, Read
  <2>2. \A g \in Files : work'[p][g] = "hit" <=> work[p][g] = "hit"
    BY <2>1
  <2>3. rewrote' = rewrote
    BY <1>2, <2>1
  <2> QED
    BY <1>1, <2>1, <2>2, <2>3, QuietExpiry
<1>9. ASSUME NEW f \in Files, Stat(p, f)
      PROVE  RunOK(p)' /\ UNCHANGED disk
  <2>1. UNCHANGED <<pc, disk>> /\ pc[p] = "check"
    BY <1>9 DEF Stat
  <2>2. rewrote' = rewrote
    BY <1>2, <2>1
  <2> QED
    BY <1>1, <1>9, <2>1, <2>2, StatExpiry
<1> QED
  BY <1>2, <1>4, <1>5, <1>6, <1>7, <1>8, <1>9 DEF Unnoted

(* A step of the only process keeps the invariant.                         *)
LEMMA ProcessExpiry ==
  ASSUME OneProcess, ExpiryInv, NEW p \in Procs,
         Unnoted(p) \/ Collected(p) \/ Renamed(p) \/ \E f \in Files : Rewritten(p, f)
  PROVE  ExpiryInv'
<1>1. Process(p)
  BY DEF Unnoted, Collected, Renamed, Rewritten, Process, FixPass, CheckPass, Persist
<1>2. TypeInv'
  BY <1>1, ProcessType DEF ExpiryInv
<1>3. /\ HistoryOK /\ TypeInv /\ RunOK(p) /\ now \in Nat
      /\ disk.kind = "loaded" => Fresher(disk.files)
  BY DEF ExpiryInv, TypeInv, TypeOK
<1>4. ASSUME UNCHANGED <<disk, used>> PROVE disk'.kind = "loaded" => Fresher(disk.files)'
  BY <1>3, <1>4 DEF Fresher
<1>5. ASSUME HistoryOK', RunOK(p)', disk'.kind = "loaded" => Fresher(disk.files)'
      PROVE  ExpiryInv'
  BY <1>2, <1>5 DEF ExpiryInv, OneProcess
<1>6. CASE Unnoted(p)
  <2>1. UNCHANGED used
    BY <1>6 DEF Unnoted
  <2> QED
    BY <1>4, <1>5, <1>6, <2>1, UnnotedExpiry
<1>7. CASE Collected(p)
  <2>1. UNCHANGED <<disk, rewrote>> /\ staged' = [staged EXCEPT ![p] = now]
    BY <1>7 DEF Collected, Collect
  <2>2. pc'[p] \in {"report", "rename"}
    BY <1>3, <1>7 DEF Collected, Collect, TypeInv, TypeOK
  <2>3. CASE pc'[p] = "report"
    <3>1. used' \in [Keys -> Nat] /\ (disk.kind = "loaded" => Fresher(disk.files)')
      BY <1>7, <2>3, CollectQuietly
    <3>2. HistoryOK' /\ RunOK(p)'
      BY <1>3, <2>1, <2>3, <3>1, IdleExpiry DEF HistoryOK
    <3>3. disk'.kind = "loaded" => Fresher(disk.files)'
      BY <2>1, <3>1
    <3> QED
      BY <1>5, <3>2, <3>3
  <2>4. CASE pc'[p] = "rename"
    <3>1. used' = used /\ Writing(p)'
      BY <1>7, <2>4, CollectToWrite
    <3>2. HistoryOK' /\ RunOK(p)'
      BY <1>3, <2>1, <2>4, <3>1 DEF HistoryOK, RunOK, Working
    <3> QED
      BY <1>4, <1>5, <2>1, <3>1, <3>2
  <2> QED
    BY <2>2, <2>3, <2>4
<1>8. CASE Renamed(p)
  <2>1. used' \in [Keys -> Nat] /\ Fresher(disk.files)' /\ RunOK(p)'
    BY <1>8, RenamedExpiry
  <2>2. HistoryOK'
    BY <1>3, <1>8, <2>1 DEF Renamed, HistoryOK
  <2> QED
    BY <1>5, <2>1, <2>2
<1>9. ASSUME NEW f \in Files, Rewritten(p, f)
      PROVE  ExpiryInv'
  <2>1. RunOK(p)' /\ rewrote' \in [Procs -> SUBSET Keys]
    BY <1>9, FixWriteExpiry
  <2>2. UNCHANGED <<disk, used, staged>>
    BY <1>9 DEF Rewritten, FixWrite
  <2>3. HistoryOK'
    BY <1>3, <2>1, <2>2 DEF HistoryOK
  <2> QED
    BY <1>4, <1>5, <2>1, <2>2, <2>3
<1> QED
  BY <1>6, <1>7, <1>8, <1>9

(* What a write drops, its process has not used for long enough.           *)
LEMMA DroppedIsOld ==
  ASSUME ExpiryInv, [ExpiryNext]_expiryVars, NEW p \in Procs,
         pc[p] = "rename", pc'[p] = "report", disk.kind = "loaded", disk' # disk,
         Cardinality(AtHand(p)) <= MaxEntries,
         NEW k \in Live(disk.files), k \notin Live(disk'.files), k \notin rewrote[p]
  PROVE  now - used[k] > EvictAfter - RefreshAfter
<1>1. /\ RunOK(p) /\ HistoryOK /\ now \in Nat /\ disk \in DiskFile /\ Fresher(disk.files)
      /\ pc \in [Procs -> PC]
  BY DEF ExpiryInv, TypeInv, TypeOK
<1>2. disk' = Loaded(cache[p].files)
  <2>1. PICK q \in Procs : Process(q)
    <3>1. ~(FileSystem \/ UNCHANGED expiryVars)
      BY DEF FileSystem, Tick, LoseDisk, Edit, Restamp, Delete, procVars, expiryVars, vars
    <3> QED
      BY <3>1 DEF ExpiryNext, Unnoted, Collected, Renamed, Rewritten, Process, FixPass, CheckPass, Persist
  <2>2. Rename(q)
    BY <2>1 DEF Process, Start, FixPass, FixDone, FixRead, FixWrite, FixSkip, CheckPass, Collect, Stat,
                Read, Persist, RenameFails, Exit, Crash
  <2>3. q = p
    BY <1>1, <2>2 DEF Rename
  <2> QED
    BY <2>2, <2>3 DEF Rename
<1>3. k \in Keys /\ disk.files[k] \in Entry /\ used[k] \in Nat /\ staged[p] \in Nat
  BY <1>1 DEF Live, DiskFile, Package, HistoryOK
<1>4. k \notin Live(cache[p].files)
  BY <1>2 DEF Loaded
<1>5. disk.files[k].seen < staged[p] - EvictAfter /\ staged[p] <= now
  BY <1>1, <1>4 DEF RunOK, Writing
<1>6. used[k] <= disk.files[k].seen + RefreshAfter /\ disk.files[k].seen \in Nat
  BY <1>1, <1>3 DEF Fresher, Entry
<1> QED
  BY <1>1, <1>3, <1>5, <1>6, EvictAssumption, RefreshAssumption

(* In-use entries never expire: where processes do not overlap, any number *)
(* of runs after each other, of any modes over any files, drop an entry    *)
(* only for its size, for a fix of its file, or because it was not used    *)
(* for EVICT_DAYS less the throttle of its refresh.                        *)
THEOREM UsedNeverExpire ==
  ASSUME OneProcess
  PROVE  ExpirySpec => InUseNeverExpires
<1>1. ExpiryInit => ExpiryInv
  <2> SUFFICES ASSUME ExpiryInit PROVE ExpiryInv
    OBVIOUS
  <2>1. TypeInv
    BY InitType DEF ExpiryInit
  <2>2. HistoryOK
    BY DEF ExpiryInit, HistoryOK
  <2> QED
    BY <2>1, <2>2 DEF ExpiryInit, Init, ExpiryInv, RunOK, Working, Writing
<1>2. ExpiryInv /\ [ExpiryNext]_expiryVars => ExpiryInv'
  <2> SUFFICES ASSUME ExpiryInv, [ExpiryNext]_expiryVars PROVE ExpiryInv'
    OBVIOUS
  <2>1. CASE FileSystem /\ UNCHANGED <<used, staged, rewrote>>
    BY <2>1, FileSystemExpiry
  <2>2. CASE UNCHANGED expiryVars
    <3>1. UNCHANGED <<vars, used, staged, rewrote>>
      BY <2>2 DEF expiryVars
    <3>2. TypeInv' /\ HistoryOK' /\ (disk'.kind = "loaded" => Fresher(disk.files)')
      BY <3>1 DEF vars, ExpiryInv, TypeInv, TypeOK, LintedHasResult, HistoryOK, Fresher
    <3>3. ASSUME NEW p \in Procs PROVE RunOK(p)'
      <4>1. /\ RunOK(p) /\ HitKeys(p)' = HitKeys(p) /\ UsedBy(p)' = UsedBy(p) /\ AtHand(p)' = AtHand(p)
            /\ Fresher(cache[p].files)' = Fresher(cache[p].files)
        BY <3>1 DEF vars, ExpiryInv, HitKeys, UsedBy, Fresh, KeyFor, AtHand, Targets, Fresher
      <4> QED
        BY <3>1, <4>1 DEF vars, RunOK, Working, Writing
    <3> QED
      BY <3>2, <3>3 DEF ExpiryInv
  <2> QED
    BY <2>1, <2>2, ProcessExpiry DEF ExpiryNext
<1>3. ExpiryInv /\ [ExpiryNext]_expiryVars =>
        [\A p \in Procs :
           /\ pc[p] = "rename" /\ pc'[p] = "report"
           /\ disk.kind = "loaded" /\ disk' # disk
           /\ Cardinality(AtHand(p)) <= MaxEntries
           => \A k \in Live(disk.files) \ (Live(disk'.files) \cup rewrote[p]) :
                now - used[k] > EvictAfter - RefreshAfter]_expiryVars
  BY DroppedIsOld
<1> QED
  BY <1>1, <1>2, <1>3, PTL DEF ExpirySpec, InUseNeverExpires

=============================================================================
