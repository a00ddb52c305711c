-------------------------- MODULE WatchMode_proofs --------------------------
(***************************************************************************)
(* Proofs about WatchMode: types, what a watcher has stored and what it    *)
(* has printed, for any number of processes, files, spellings and writes.  *)
(* None of them needs FineStamps: what recheck_batch gets wrong is made    *)
(* good by the event of the edit that made it wrong.                       *)
(***************************************************************************)
EXTENDS WatchMode, CheckRun_proofs

(* A process watches after its report and until it is stopped; what it is  *)
(* busy with tells what it has collected.                                  *)
StageOK(p) ==
  /\ Watching(p) => pc[p] = "report"
  /\ ~Watching(p) => noticed[p] = {} /\ queue[p] = {} /\ pending[p] = {}
  /\ watch[p] # "batch" => batch[p] = {} /\ linting[p] = NoEntry
  /\ linting[p] # NoEntry => linting[p] \in batch[p]

(* An entry for f does not claim a result of an older text.                *)
Fits(e, f) ==
  e # NoEntry /\ file[f].present /\ e.key = file[f].stamp
    => e.viols \in {Unread, Lint(f, file[f].ver, FALSE)}

(* Between the two halves of recheck_batch for f there is no entry for f,  *)
(* and its result is that of the text it has, unless an event is waiting.  *)
BetweenOK(p, f) ==
  linting[p] = f =>
    /\ cache[p].files[KeyFor(p, f)] = NoEntry
    /\ cache[p].pending[KeyFor(p, f)] = NoEntry
    /\ res[p][f] # NoEntry
    /\ f \notin queue[p] /\ file[f].present => res[p][f] = Lint(f, file[f].ver, run[p].raw)

(* A file that changed and that the watcher is through with.               *)
DoneOK(p, f) ==
  f \in noticed[p] \ Backlog(p) =>
    /\ file[f].present => ShowsCurrent(p, f)
    /\ ~run[p].raw => /\ Fits(cache[p].files[KeyFor(p, f)], f)
                      /\ Fits(cache[p].pending[KeyFor(p, f)], f)

WatcherOK(p) == StageOK(p) /\ \A f \in Files : BetweenOK(p, f) /\ DoneOK(p, f)

(* The types of what a watcher keeps to itself.                            *)
WatchTypes ==
  /\ watch   \in [Procs -> {"off", "wait", "batch", "rename"}]
  /\ queue   \in [Procs -> SUBSET Files]
  /\ pending \in [Procs -> SUBSET Files]
  /\ batch   \in [Procs -> SUBSET Files]
  /\ linting \in [Procs -> Files \cup {NoEntry}]
  /\ noticed \in [Procs -> SUBSET Files]

WatchInv == TypeInv /\ WatchTypes /\ \A p \in Procs : WatcherOK(p)

-----------------------------------------------------------------------------
(* Steps that are not the watcher's own.                                   *)

(* The state of q, and what is on disk of the files.                       *)
Unmoved(q) ==
  UNCHANGED <<run[q], cache[q], res[q], pc[q], watch[q], queue[q], pending[q], batch[q],
              linting[q], noticed[q]>>

(* A watcher that a step leaves alone is as it was.                        *)
LEMMA Bystander ==
  ASSUME NEW q \in Procs, WatcherOK(q), UNCHANGED file, Unmoved(q)
  PROVE  WatcherOK(q)'
<1>1. StageOK(q)'
  BY DEF Unmoved, WatcherOK, StageOK, Watching
<1>2. ASSUME NEW f \in Files PROVE BetweenOK(q, f)' /\ DoneOK(q, f)'
  <2>1. BetweenOK(q, f)'
    BY DEF Unmoved, WatcherOK, BetweenOK, KeyFor
  <2>2. DoneOK(q, f)'
    BY DEF Unmoved, WatcherOK, DoneOK, KeyFor, Backlog, ShowsCurrent, Fits
  <2> QED BY <2>1, <2>2
<1> QED BY <1>1, <1>2 DEF WatcherOK

(* A step of the users or of another process.  What it does to a file is   *)
(* put into the channels, unless the file is gone.                         *)
LEMMA FilesMove ==
  ASSUME NEW q \in Procs, WatcherOK(q), WatchTypes, Notify, Watching(q),
         UNCHANGED <<run[q], cache[q], res[q], pc[q], watch, pending, batch, linting>>
  PROVE  WatcherOK(q)'
<1>1. queue'[q] = queue[q] \cup Changed /\ noticed'[q] = noticed[q] \cup Changed
  BY DEF Notify
<1>2. \A f \in Files : f \in Changed \/ file'[f] = file[f] \/ ~file'[f].present
  BY DEF Changed
<1>3. StageOK(q)'
  BY <1>1 DEF WatcherOK, StageOK, Watching
<1>4. ASSUME NEW f \in Files PROVE BetweenOK(q, f)' /\ DoneOK(q, f)'
  <2>1. BetweenOK(q, f) /\ DoneOK(q, f)
    BY DEF WatcherOK
  <2>2. BetweenOK(q, f)'
    BY <1>1, <1>2, <2>1 DEF BetweenOK, KeyFor
  <2>3. DoneOK(q, f)'
    BY <1>1, <1>2, <2>1 DEF DoneOK, KeyFor, Backlog, ShowsCurrent, Fits
  <2> QED BY <2>2, <2>3
<1> QED BY <1>3, <1>4 DEF WatcherOK

(* A process that does not watch has nothing to be wrong about.            *)
LEMMA NotWatching ==
  ASSUME NEW q \in Procs, watch'[q] = "off", noticed'[q] = {}, queue'[q] = {}, pending'[q] = {},
         batch'[q] = {}, linting'[q] = NoEntry
  PROVE  WatcherOK(q)'
BY NoFileAssumption DEF WatcherOK, StageOK, BetweenOK, DoneOK, Watching

(* Check runs do not touch the memory of a process that watches, since it  *)
(* has reported.                                                           *)
LEMMA WatcherUntouched ==
  ASSUME TypeInv, NEW q \in Procs, pc[q] = "report",
         \/ FileSystem
         \/ \E p \in Procs : FixPass(p) \/ CheckPass(p) \/ Persist(p) \/ Crash(p) \/ Start(p)
  PROVE  UNCHANGED <<run[q], cache[q], res[q], pc[q]>>
<1>1. CASE FileSystem
  BY <1>1 DEF FileSystem, Tick, LoseDisk, Edit, Restamp, Delete, procVars
<1>2. ASSUME NEW p \in Procs, FixPass(p) \/ CheckPass(p) \/ Persist(p) \/ Crash(p) \/ Start(p)
      PROVE  UNCHANGED <<run[q], cache[q], res[q], pc[q]>>
  <2>1. p # q
    BY <1>2 DEF FixPass, FixDone, FixRead, FixWrite, FixSkip, CheckPass, Collect, Stat, Read,
                Persist, Rename, RenameFails, Crash, Start
  <2>2. UNCHANGED <<run[q], cache[q], res[q]>>
    BY <1>2, <2>1, OthersKeepMemory DEF Process
  <2>3. pc'[q] = pc[q]
    BY <1>2, <2>1 DEF FixPass, FixDone, FixRead, FixWrite, FixSkip, CheckPass, Collect, Stat, Read,
                      Persist, Rename, RenameFails, Crash, Start, Terminate, TypeInv, TypeOK
  <2> QED BY <2>2, <2>3
<1> QED BY <1>1, <1>2

(* A step of the others: a file that moved is in the backlog of every       *)
(* watcher, which is thereby not through with it.                          *)
LEMMA OthersInv == ASSUME WatchInv, Others PROVE WatchInv'
<1>1. TypeInv'
  BY FileSystemType, ProcessType DEF Others, WatchInv, Process
<1>2. WatchTypes'
  <2>1. Changed \subseteq Files
    BY DEF Changed
  <2> QED BY <2>1 DEF Others, Notify, WatchInv, WatchTypes
<1>3. ASSUME NEW q \in Procs PROVE WatcherOK(q)'
  <2>1. /\ WatcherOK(q) /\ Notify /\ UNCHANGED <<watch, pending, batch, linting>>
        /\ StageOK(q)
    BY DEF WatchInv, Others, WatcherOK
  <2>2. CASE Watching(q)
    <3>1. UNCHANGED <<run[q], cache[q], res[q], pc[q]>>
      BY <2>1, <2>2, WatcherUntouched DEF StageOK, Others, WatchInv
    <3> QED BY <2>1, <2>2, <3>1, FilesMove DEF WatchInv
  <2>3. CASE ~Watching(q)
    <3>1. watch[q] = "off"
      BY <2>3 DEF Watching
    <3>2. queue'[q] = {} /\ noticed'[q] = {}
      BY <2>1, <2>3 DEF Notify
    <3>3. pending[q] = {} /\ batch[q] = {} /\ linting[q] = NoEntry
      BY <2>1, <2>3, <3>1 DEF StageOK
    <3> QED BY <2>1, <3>1, <3>2, <3>3, NotWatching
  <2> QED BY <2>2, <2>3
<1> QED BY <1>1, <1>2, <1>3 DEF WatchInv

-----------------------------------------------------------------------------
(* The watcher's own steps.                                                *)

(* A step of p is judged by what it does to p.                             *)
LEMMA OwnStep ==
  ASSUME WatchInv, NEW p \in Procs, UNCHANGED file, \A q \in Procs \ {p} : Unmoved(q),
         TypeInv', WatchTypes', WatcherOK(p)'
  PROVE  WatchInv'
<1>1. \A q \in Procs \ {p} : WatcherOK(q)'
  BY Bystander DEF WatchInv
<1> QED BY <1>1 DEF WatchInv

(* Two files have two path strings in one process.                         *)
LEMMA OwnKeys ==
  ASSUME TypeInv, NEW p \in Procs, NEW f \in Files, NEW g \in Files, f # g
  PROVE  /\ KeyFor(p, f) \in Keys /\ KeyFor(p, g) \in Keys
         /\ KeyFor(p, f) # KeyFor(p, g)
BY KeyOfAssumption DEF KeyFor, TypeInv, TypeOK, Run

(* Dropping the entry of a file leaves all others.                         *)
LEMMA InvalidateFields ==
  ASSUME NEW c \in Cache, NEW k \in Keys, NEW j \in Keys
  PROVE  /\ Invalidate(c, k).files[j] = IF j = k THEN NoEntry ELSE c.files[j]
         /\ Invalidate(c, k).pending[j] = IF j = k THEN NoEntry ELSE c.pending[j]
BY DEF Invalidate, Cache, Package

(* Staging a result changes what is pending of that file only.             *)
LEMMA SetLintedFields ==
  ASSUME NEW c \in Cache, NEW k \in Keys, NEW j \in Keys, NEW s \in Nat, NEW v \in Results
  PROVE  /\ SetLinted(c, k, s, v) \in Cache
         /\ SetLinted(c, k, s, v).files = c.files
         /\ SetLinted(c, k, s, v).pending[j] = IF j = k THEN [key |-> s, viols |-> v] ELSE c.pending[j]
<1>1. [key |-> s, viols |-> v] \in StagedEntry
  BY DEF StagedEntry
<1> QED BY <1>1 DEF SetLinted, Cache

(* Registering the watcher: nothing is noticed yet.                        *)
LEMMA EnterWatchInv == ASSUME WatchInv, NEW p \in Procs, EnterWatch(p) PROVE WatchInv'
<1>1. TypeInv'
  <2>1. PICK s \in Spellings : run' = [run EXCEPT ![p].spell = s]
    BY DEF EnterWatch
  <2>2. [run[p] EXCEPT !.spell = s] \in Run
    BY DEF WatchInv, TypeInv, TypeOK, Run
  <2>3. run' \in [Procs -> Run]
    BY <2>1, <2>2 DEF WatchInv, TypeInv, TypeOK
  <2> QED BY <2>3 DEF EnterWatch, WatchInv, TypeInv, TypeOK, LintedHasResult
<1>2. WatchTypes'
  BY DEF EnterWatch, WatchInv, WatchTypes
<1>3. WatcherOK(p)'
  <2>1. /\ noticed'[p] = {} /\ batch'[p] = {} /\ linting'[p] = NoEntry /\ watch'[p] = "wait"
        /\ pc'[p] = "report"
    BY DEF EnterWatch, WatchInv, WatchTypes, WatcherOK, StageOK, Watching
  <2> QED BY <2>1, NoFileAssumption DEF WatcherOK, StageOK, Watching, BetweenOK, DoneOK
<1>4. \A q \in Procs \ {p} : Unmoved(q)
  BY DEF EnterWatch, Unmoved, WatchInv, WatchTypes, TypeInv, TypeOK
<1> QED BY <1>1, <1>2, <1>3, <1>4, OwnStep DEF EnterWatch

(* Steps that only move what p has collected, and leave the check run's    *)
(* memory alone.                                                           *)
LEMMA CollectingStep ==
  ASSUME WatchInv, NEW p \in Procs, UNCHANGED vars, WatchTypes', StageOK(p)',
         UNCHANGED <<linting, noticed>>, queue'[p] \subseteq queue[p],
         \A f \in Files : linting[p] = f /\ f \in queue[p] => f \in queue'[p],
         \A f \in Files : file[f].present /\ f \in Backlog(p) => f \in Backlog(p)',
         \A q \in Procs \ {p} : UNCHANGED <<watch[q], queue[q], pending[q], batch[q]>>
  PROVE  WatchInv'
<1>1. TypeInv'
  BY DEF WatchInv, TypeInv, TypeOK, LintedHasResult, vars
<1>2. ASSUME NEW f \in Files PROVE BetweenOK(p, f)' /\ DoneOK(p, f)'
  <2>1. BetweenOK(p, f) /\ DoneOK(p, f)
    BY DEF WatchInv, WatcherOK
  <2>2. BetweenOK(p, f)'
    BY <2>1 DEF BetweenOK, KeyFor, vars
  <2>3. DoneOK(p, f)'
    <3>1. CASE file[f].present
      BY <2>1, <3>1 DEF DoneOK, KeyFor, vars, ShowsCurrent, Fits
    <3>2. CASE ~file[f].present
      BY <3>2 DEF DoneOK, vars, Fits
    <3> QED BY <3>1, <3>2
  <2> QED BY <2>2, <2>3
<1>3. \A q \in Procs \ {p} : Unmoved(q)
  BY DEF Unmoved, vars
<1> QED BY <1>1, <1>2, <1>3, OwnStep DEF WatcherOK, vars

(* A path goes from the channel into the next batch, or its file is gone.   *)
LEMMA ReceiveInv == ASSUME WatchInv, NEW p \in Procs, NEW f \in Files, Receive(p, f) PROVE WatchInv'
<1>1. WatchTypes'
  BY DEF Receive, WatchInv, WatchTypes
<1>2. StageOK(p)'
  BY DEF Receive, WatchInv, WatchTypes, WatcherOK, StageOK, Watching, vars
<1>3. linting[p] = NoEntry
  BY DEF Receive, WatchInv, WatcherOK, StageOK
<1>4. /\ queue'[p] = queue[p] \ {f} /\ batch'[p] = batch[p]
      /\ pending'[p] = IF file[f].present THEN pending[p] \cup {f} ELSE pending[p]
  BY DEF Receive, WatchInv, WatchTypes
<1>5. \A q \in Procs \ {p} : UNCHANGED <<watch[q], queue[q], pending[q], batch[q]>>
  BY DEF Receive, WatchInv, WatchTypes
<1>6. UNCHANGED <<vars, linting, noticed>>
  BY DEF Receive
<1>7. \A g \in Files : file[g].present /\ g \in Backlog(p) => g \in Backlog(p)'
  BY <1>4 DEF Backlog
<1> QED BY <1>1, <1>2, <1>3, <1>4, <1>5, <1>6, <1>7, CollectingStep, NoFileAssumption

(* The collected paths become the batch.                                   *)
LEMMA DebounceInv == ASSUME WatchInv, NEW p \in Procs, Debounce(p) PROVE WatchInv'
<1>1. WatchTypes'
  BY DEF Debounce, WatchInv, WatchTypes
<1>2. linting[p] = NoEntry /\ batch[p] = {}
  BY DEF Debounce, WatchInv, WatcherOK, StageOK
<1>3. queue'[p] = queue[p] /\ batch'[p] = pending[p] /\ pending'[p] = {} /\ watch'[p] = "batch"
  BY DEF Debounce, WatchInv, WatchTypes
<1>4. StageOK(p)'
  BY <1>2, <1>3 DEF Debounce, WatchInv, WatcherOK, StageOK, Watching, vars
<1>5. \A q \in Procs \ {p} : UNCHANGED <<watch[q], queue[q], pending[q], batch[q]>>
  BY DEF Debounce, WatchInv, WatchTypes
<1>6. UNCHANGED <<vars, linting, noticed>>
  BY DEF Debounce
<1>7. \A g \in Files : file[g].present /\ g \in Backlog(p) => g \in Backlog(p)'
  BY <1>2, <1>3 DEF Backlog
<1> QED BY <1>1, <1>2, <1>3, <1>4, <1>5, <1>6, <1>7, CollectingStep, NoFileAssumption

(* The first half of recheck_batch: what was known of f is forgotten.      *)
LEMMA RelintInv == ASSUME WatchInv, NEW p \in Procs, NEW f \in Files, Relint(p, f) PROVE WatchInv'
<1> DEFINE k == KeyFor(p, f)
           viols == IF linting'[p] = f THEN Lint(f, file[f].ver, run[p].raw) ELSE Unread
<1>1. /\ cache[p] \in Cache /\ cache \in [Procs -> Cache] /\ run[p] \in Run /\ k \in Keys
      /\ res \in [Procs -> [Files -> Results \cup {NoEntry}]]
  BY KeyForType DEF WatchInv, TypeInv, TypeOK
<1>2. /\ watch[p] = "batch" /\ linting[p] = NoEntry /\ f \in batch[p]
      /\ cache' = [cache EXCEPT ![p] = Invalidate(cache[p], k)]
      /\ UNCHANGED <<file, writes, now, disk, pc, run, work, key, watch, queue, pending, noticed>>
  BY DEF Relint
<1>3. /\ res' = [res EXCEPT ![p][f] = viols]
      /\ \/ file[f].present /\ linting' = [linting EXCEPT ![p] = f] /\ batch' = batch
         \/ linting' = linting /\ batch' = [batch EXCEPT ![p] = @ \ {f}]
  <2>1. linting \in [Procs -> Files \cup {NoEntry}] /\ linting[p] # f
    BY <1>2, NoFileAssumption DEF WatchInv, WatchTypes
  <2> QED BY <2>1 DEF Relint
<1>4. viols \in Results /\ viols # NoEntry
  <2>1. Lint(f, file[f].ver, run[p].raw) \in Linted
    BY <1>1 DEF Lint, Linted, WatchInv, TypeInv, TypeOK, Run
  <2> QED BY <2>1, NoEntryAssumption DEF Results
<1>5. /\ res'[p][f] = viols
      /\ \A g \in Files \ {f} : res'[p][g] = res[p][g]
      /\ cache'[p] = Invalidate(cache[p], k) /\ cache'[p] \in Cache
  BY <1>1, <1>2, <1>3, InvalidateType
<1> HIDE DEF viols, k
<1>6. TypeInv'
  <2>1. res' \in [Procs -> [Files -> Results \cup {NoEntry}]] /\ cache' \in [Procs -> Cache]
    BY <1>1, <1>2, <1>3, <1>4, InvalidateType
  <2>2. LintedHasResult'
    BY <1>1, <1>2, <1>3, <1>4 DEF LintedHasResult, WatchInv, TypeInv
  <2> QED BY <1>2, <2>1, <2>2 DEF WatchInv, TypeInv, TypeOK
<1>7. WatchTypes'
  BY <1>2, <1>3 DEF WatchInv, WatchTypes
<1>8. StageOK(p)'
  BY <1>2, <1>3 DEF WatchInv, WatchTypes, WatcherOK, StageOK, Watching
<1>9. ASSUME NEW g \in Files PROVE BetweenOK(p, g)' /\ DoneOK(p, g)'
  <2>1. BetweenOK(p, g) /\ DoneOK(p, g)
    BY DEF WatchInv, WatcherOK
  <2>2. CASE g = f
    <3>1. cache'[p].files[KeyFor(p, g)] = NoEntry /\ cache'[p].pending[KeyFor(p, g)] = NoEntry
      BY <1>1, <1>5, <2>2, InvalidateFields DEF k
    <3>2. KeyFor(p, g)' = KeyFor(p, g)
      BY <1>2 DEF KeyFor
    <3>3. BetweenOK(p, g)'
      BY <1>2, <1>4, <1>5, <2>2, <3>1, <3>2 DEF BetweenOK, viols
    <3>4. DoneOK(p, g)'
      BY <1>2, <1>5, <2>2, <3>1, <3>2 DEF DoneOK, ShowsCurrent, Fits, viols
    <3> QED BY <3>3, <3>4
  <2>3. CASE g # f
    <3>1. KeyFor(p, g) \in Keys /\ KeyFor(p, g) # k /\ KeyFor(p, g)' = KeyFor(p, g)
      BY <1>2, <2>3, OwnKeys DEF WatchInv, k, KeyFor
    <3>2. /\ cache'[p].files[KeyFor(p, g)] = cache[p].files[KeyFor(p, g)]
          /\ cache'[p].pending[KeyFor(p, g)] = cache[p].pending[KeyFor(p, g)]
      BY <1>1, <1>5, <3>1, InvalidateFields
    <3>3. linting'[p] # g
      BY <1>2, <1>3, <2>3, NoFileAssumption DEF WatchInv, WatchTypes
    <3>4. g \in Backlog(p) => g \in Backlog(p)'
      BY <1>2, <1>3, <2>3 DEF Backlog, WatchInv, WatchTypes
    <3>5. DoneOK(p, g)'
      BY <1>2, <1>5, <2>1, <2>3, <3>1, <3>2, <3>4 DEF DoneOK, ShowsCurrent, Fits
    <3> QED BY <3>3, <3>5 DEF BetweenOK
  <2> QED BY <2>2, <2>3
<1>10. \A q \in Procs \ {p} : Unmoved(q)
  BY <1>1, <1>2, <1>3 DEF Unmoved, WatchInv, WatchTypes
<1> QED BY <1>2, <1>6, <1>7, <1>8, <1>9, <1>10, OwnStep DEF WatcherOK

(* The second half: the result is stored under the stamp of the moment,    *)
(* which is that of its text unless an event is waiting.                   *)
LEMMA StoreInv == ASSUME WatchInv, NEW p \in Procs, NEW f \in Files, Store(p, f) PROVE WatchInv'
<1> DEFINE k == KeyFor(p, f)
<1>1. /\ cache[p] \in Cache /\ cache \in [Procs -> Cache] /\ run[p] \in Run /\ k \in Keys
      /\ file[f].stamp \in Nat
  BY KeyForType DEF WatchInv, TypeInv, TypeOK
<1>2. /\ watch[p] = "batch" /\ linting[p] = f
      /\ linting' = [linting EXCEPT ![p] = NoEntry] /\ batch' = [batch EXCEPT ![p] = @ \ {f}]
      /\ UNCHANGED <<file, writes, now, disk, pc, run, work, key, res, watch, queue, pending, noticed>>
  BY DEF Store
<1>3. BetweenOK(p, f) /\ res[p][f] \in Results
  BY <1>2 DEF WatchInv, WatcherOK, BetweenOK, TypeInv, TypeOK
<1>4. /\ cache'[p] \in Cache /\ cache' = [cache EXCEPT ![p] = cache'[p]]
      /\ cache'[p].files = cache[p].files
      /\ \A j \in Keys : \/ cache'[p].pending[j] = cache[p].pending[j]
                         \/ /\ j = k /\ ~run[p].raw /\ file[f].present
                            /\ cache'[p].pending[j] = [key |-> file[f].stamp, viols |-> res[p][f]]
  <2>1. CASE ~run[p].raw /\ file[f].present
    <3>1. cache' = [cache EXCEPT ![p] = SetLinted(cache[p], k, file[f].stamp, res[p][f])]
      BY <2>1 DEF Store
    <3> HIDE DEF k
    <3> QED BY <1>1, <1>3, <2>1, <3>1, SetLintedFields
  <2>2. CASE ~(~run[p].raw /\ file[f].present)
    BY <1>1, <2>2 DEF Store
  <2> QED BY <2>1, <2>2
<1> HIDE DEF k
<1>5. TypeInv'
  <2>1. cache' \in [Procs -> Cache]
    BY <1>1, <1>4
  <2> QED BY <1>2, <2>1 DEF WatchInv, TypeInv, TypeOK, LintedHasResult
<1>6. WatchTypes' /\ StageOK(p)'
  BY <1>2 DEF WatchInv, WatchTypes, WatcherOK, StageOK, Watching
<1>7. ASSUME NEW g \in Files PROVE BetweenOK(p, g)' /\ DoneOK(p, g)'
  <2>1. BetweenOK(p, g) /\ DoneOK(p, g) /\ KeyFor(p, g)' = KeyFor(p, g) /\ KeyFor(p, g) \in Keys
    BY <1>2, KeyForType DEF WatchInv, WatcherOK, TypeInv, KeyFor
  <2>2. linting'[p] # g
    BY <1>2, NoFileAssumption DEF WatchInv, WatchTypes
  <2>3. CASE g = f
    <3>1. \/ cache'[p].pending[k] = NoEntry
          \/ /\ ~run[p].raw /\ file[f].present
             /\ cache'[p].pending[k] = [key |-> file[f].stamp, viols |-> res[p][f]]
      BY <1>1, <1>3, <1>2, <1>4 DEF BetweenOK, k
    <3>2. cache'[p].files[k] = NoEntry
      BY <1>2, <1>3, <1>4 DEF BetweenOK, k
    <3>3. f \notin queue[p] /\ file[f].present => res[p][f] = Lint(f, file[f].ver, run[p].raw)
      BY <1>2, <1>3 DEF BetweenOK
    <3>4. run[p].raw \in BOOLEAN
      BY <1>1 DEF Run
    <3>5. f \in noticed'[p] \ Backlog(p)' => f \notin queue[p]
      BY <1>2 DEF Backlog
    <3>6. ASSUME file[f].present, f \notin queue[p] PROVE DoneOK(p, g)'
      BY <1>2, <2>1, <2>3, <3>1, <3>2, <3>3, <3>4, <3>6 DEF DoneOK, ShowsCurrent, Fits, k, Lint
    <3>7. ASSUME ~(file[f].present /\ f \notin queue[p]) PROVE DoneOK(p, g)'
      BY <1>2, <2>3, <3>5, <3>7 DEF DoneOK, Fits
    <3>8. DoneOK(p, g)'
      BY <3>6, <3>7
    <3> QED BY <2>2, <3>8 DEF BetweenOK
  <2>4. CASE g # f
    <3>1. KeyFor(p, g) # k
      BY <2>4, OwnKeys DEF WatchInv, k
    <3>2. /\ cache'[p].files[KeyFor(p, g)] = cache[p].files[KeyFor(p, g)]
          /\ cache'[p].pending[KeyFor(p, g)] = cache[p].pending[KeyFor(p, g)]
      BY <1>4, <2>1, <3>1
    <3>3. g \in Backlog(p) => g \in Backlog(p)'
      BY <1>2, <2>4 DEF Backlog, WatchInv, WatchTypes
    <3>4. DoneOK(p, g)'
      BY <1>2, <2>1, <3>2, <3>3 DEF DoneOK, ShowsCurrent, Fits
    <3> QED BY <2>2, <3>4 DEF BetweenOK
  <2> QED BY <2>3, <2>4
<1>8. \A q \in Procs \ {p} : Unmoved(q)
  BY <1>1, <1>2, <1>4 DEF Unmoved, WatchInv, WatchTypes
<1> QED BY <1>2, <1>5, <1>6, <1>7, <1>8, OwnStep DEF WatcherOK

(* Each entry of Cache c was staged or was there before, but for its age.  *)
KeepsEntries(p, c) ==
  \A k \in Keys : \A e \in {c.files[k], c.pending[k]} :
    e # NoEntry => \E d \in {cache[p].files[k], cache[p].pending[k]} :
                      d # NoEntry /\ d.key = e.key /\ d.viols = e.viols

(* What a watcher that persists leaves alone.                              *)
OnlyPersists ==
  UNCHANGED <<file, writes, now, pc, run, work, key, res, queue, pending, batch, linting, noticed>>

(* Persisting keeps what is true of the entries.                           *)
LEMMA PersistingStep ==
  ASSUME WatchInv, NEW p \in Procs, watch[p] # "off", linting[p] = NoEntry, batch[p] = {},
         NEW c \in Cache, cache' = [cache EXCEPT ![p] = c], KeepsEntries(p, c),
         disk' \in DiskFile, NEW s \in {"wait", "rename"}, watch' = [watch EXCEPT ![p] = s],
         OnlyPersists
  PROVE  WatchInv'
<1> USE DEF OnlyPersists, KeepsEntries
<1>1. TypeInv'
  <2>1. cache' \in [Procs -> Cache]
    BY DEF WatchInv, TypeInv, TypeOK
  <2> QED BY <2>1 DEF WatchInv, TypeInv, TypeOK, LintedHasResult
<1>2. WatchTypes' /\ StageOK(p)'
  BY DEF WatchInv, WatchTypes, WatcherOK, StageOK, Watching
<1>3. ASSUME NEW f \in Files PROVE BetweenOK(p, f)' /\ DoneOK(p, f)'
  <2> DEFINE k == KeyFor(p, f)
  <2>1. DoneOK(p, f) /\ KeyFor(p, f)' = k /\ k \in Keys
    BY KeyForType DEF WatchInv, WatcherOK, TypeInv, KeyFor
  <2>2. cache'[p] = c
    BY DEF WatchInv, TypeInv, TypeOK
  <2> HIDE DEF k
  <2>3. DoneOK(p, f)'
    <3>1. SUFFICES ASSUME f \in noticed[p] \ Backlog(p)
                   PROVE  /\ file[f].present => ShowsCurrent(p, f)
                          /\ ~run[p].raw => /\ Fits(c.files[k], f) /\ Fits(c.pending[k], f)
      BY <2>1, <2>2 DEF DoneOK, Backlog, ShowsCurrent, Fits
    <3>2. /\ file[f].present => ShowsCurrent(p, f)
          /\ ~run[p].raw => Fits(cache[p].files[k], f) /\ Fits(cache[p].pending[k], f)
      BY <2>1, <3>1 DEF DoneOK, k
    <3>3. ASSUME ~run[p].raw, NEW e \in {c.files[k], c.pending[k]} PROVE Fits(e, f)
      <4>1. CASE e = NoEntry
        BY <4>1 DEF Fits
      <4>2. CASE e # NoEntry
        <5>1. PICK d \in {cache[p].files[k], cache[p].pending[k]} :
                d # NoEntry /\ d.key = e.key /\ d.viols = e.viols
          BY <2>1, <4>2
        <5>2. Fits(d, f)
          BY <3>2, <3>3
        <5> QED BY <5>1, <5>2 DEF Fits
      <4> QED BY <4>1, <4>2
    <3> QED BY <3>2, <3>3
  <2>4. BetweenOK(p, f)'
    BY NoFileAssumption DEF BetweenOK
  <2> QED BY <2>3, <2>4
<1>4. \A q \in Procs \ {p} : Unmoved(q)
  BY DEF Unmoved, WatchInv, WatchTypes, TypeInv, TypeOK
<1> QED BY <1>1, <1>2, <1>3, <1>4, OwnStep DEF WatcherOK

(* The end of a batch: nothing to write, or the package is made.           *)
LEMMA BatchDoneInv == ASSUME WatchInv, NEW p \in Procs, BatchDone(p) PROVE WatchInv'
<1>1. cache[p] \in Cache /\ now \in Nat /\ disk \in DiskFile /\ watch \in [Procs -> {"off", "wait", "batch", "rename"}]
  BY DEF WatchInv, TypeInv, TypeOK, WatchTypes
<1>2. /\ watch[p] = "batch" /\ linting[p] = NoEntry /\ batch[p] = {}
      /\ OnlyPersists /\ disk' = disk
  BY DEF BatchDone, OnlyPersists
<1>3. PICK s \in {"wait", "rename"} : watch' = [watch EXCEPT ![p] = s]
  BY DEF BatchDone
<1>4. watch[p] # "off" /\ disk' \in DiskFile
  BY <1>1, <1>2
<1>5. CASE run[p].raw \/ ~NeedsWrite(cache[p], now)
  <2> DEFINE c == Untouched(cache[p])
  <2>1. cache' = [cache EXCEPT ![p] = c] /\ c \in Cache /\ c.files = cache[p].files /\ c.pending = cache[p].pending
    BY <1>1, <1>5 DEF BatchDone, Untouched, Cache
  <2>2. KeepsEntries(p, c)
    BY <2>1 DEF KeepsEntries
  <2> HIDE DEF c
  <2> QED BY <1>2, <1>3, <1>4, <2>1, <2>2, PersistingStep
<1>6. CASE ~(run[p].raw \/ ~NeedsWrite(cache[p], now))
  <2>1. PICK files \in Packages(cache[p], now) : cache' = [cache EXCEPT ![p] = Merge(cache[p], files)]
    BY <1>6 DEF BatchDone
  <2> DEFINE c == Merge(cache[p], files)
  <2>2. c \in Cache /\ c.files = files /\ c.pending = NoFiles
    BY <1>1, PackagesType, MergeType DEF Merge
  <2>3. \A k \in Keys : files[k] # NoEntry =>
          \E d \in {cache[p].files[k], cache[p].pending[k]} :
             d # NoEntry /\ d.key = files[k].key /\ d.viols = files[k].viols
    <3> TAKE k \in Keys
    <3>1. \/ files[k] = NoEntry
          \/ /\ cache[p].pending[k] # NoEntry
             /\ files[k] = [key |-> cache[p].pending[k].key, seen |-> now, viols |-> cache[p].pending[k].viols]
          \/ /\ cache[p].files[k] # NoEntry
             /\ files[k].key = cache[p].files[k].key /\ files[k].viols = cache[p].files[k].viols
      BY <1>1, PackagesOrigin, Zenon
    <3> QED BY <3>1
  <2>4. \A k \in Keys : c.pending[k] = NoEntry
    BY <2>2 DEF NoFiles
  <2>5. KeepsEntries(p, c)
    BY <2>2, <2>3, <2>4 DEF KeepsEntries
  <2>6. cache' = [cache EXCEPT ![p] = c]
    BY <2>1
  <2> HIDE DEF c
  <2> QED BY <1>2, <1>3, <1>4, <2>2, <2>5, <2>6, PersistingStep
<1> QED BY <1>5, <1>6

(* The package is renamed to the cache file, or that fails.                *)
LEMMA BatchRenameInv == ASSUME WatchInv, NEW p \in Procs, BatchRename(p) PROVE WatchInv'
<1>1. /\ cache \in [Procs -> Cache] /\ cache[p] \in Cache /\ disk \in DiskFile
      /\ watch \in [Procs -> {"off", "wait", "batch", "rename"}]
  BY DEF WatchInv, TypeInv, TypeOK, WatchTypes
<1>2. /\ watch[p] = "rename" /\ watch' = [watch EXCEPT ![p] = "wait"] /\ watch[p] # "off"
      /\ OnlyPersists
  BY <1>1 DEF BatchRename, OnlyPersists
<1>3. linting[p] = NoEntry /\ batch[p] = {}
  BY <1>2 DEF WatchInv, WatcherOK, StageOK
<1>4. PICK c \in Cache : /\ cache' = [cache EXCEPT ![p] = c]
                         /\ c.files = cache[p].files /\ c.pending = cache[p].pending
                         /\ disk' \in DiskFile
  <2>1. CASE disk' = Loaded(cache[p].files) /\ cache' = [cache EXCEPT ![p] = Written(cache[p])]
    <3>1. Written(cache[p]) \in Cache /\ Written(cache[p]).files = cache[p].files
          /\ Written(cache[p]).pending = cache[p].pending
      BY <1>1 DEF Written, Cache
    <3>2. Loaded(cache[p].files) \in DiskFile
      BY <1>1 DEF Loaded, DiskFile, Cache
    <3> QED BY <2>1, <3>1, <3>2
  <2>2. CASE UNCHANGED <<disk, cache>>
    <3>1. cache' = [cache EXCEPT ![p] = cache[p]]
      BY <1>1, <2>2
    <3> QED BY <1>1, <2>2, <3>1
  <2> QED BY <2>1, <2>2 DEF BatchRename
<1>5. KeepsEntries(p, c)
  BY <1>4 DEF KeepsEntries
<1> QED BY <1>2, <1>3, <1>4, <1>5, PersistingStep

(* A watcher that is stopped forgets everything.                           *)
LEMMA LeaveInv == ASSUME WatchInv, NEW p \in Procs, Leave(p) PROVE WatchInv'
<1>1. TypeInv'
  BY TerminateType DEF Leave, Exit, WatchInv
<1>2. WatchTypes'
  BY DEF Leave, WatchInv, WatchTypes
<1>3. WatcherOK(p)'
  BY NotWatching DEF Leave, WatchInv, WatchTypes
<1>4. \A q \in Procs \ {p} : Unmoved(q)
  BY DEF Leave, Exit, Terminate, Unmoved, WatchInv, WatchTypes, TypeInv, TypeOK
<1> QED BY <1>1, <1>2, <1>3, <1>4, OwnStep DEF Leave, Exit

-----------------------------------------------------------------------------
(* Nobody watches at first.                                                *)
LEMMA WatchInitInv == WatchInit => WatchInv
<1> SUFFICES ASSUME WatchInit PROVE WatchInv
  OBVIOUS
<1>1. TypeInv
  BY InitType DEF WatchInit
<1>2. WatchTypes /\ \A p \in Procs : WatcherOK(p)
  BY NoFileAssumption DEF WatchInit, WatchTypes, WatcherOK, StageOK, Watching, BetweenOK, DoneOK
<1> QED BY <1>1, <1>2 DEF WatchInv

(* The invariant is inductive.                                             *)
LEMMA WatchInvariant == WatchSpec => []WatchInv
<1>1. WatchInv /\ [WatchNext]_allVars => WatchInv'
  <2> SUFFICES ASSUME WatchInv, [WatchNext]_allVars PROVE WatchInv'
    OBVIOUS
  <2>1. CASE Others
    BY <2>1, OthersInv
  <2>2. ASSUME NEW p \in Procs, WatchStep(p) PROVE WatchInv'
    BY <2>2, EnterWatchInv, DebounceInv, BatchDoneInv, BatchRenameInv, ReceiveInv, RelintInv, StoreInv
       DEF WatchStep
  <2>3. ASSUME NEW p \in Procs, Leave(p) PROVE WatchInv'
    BY <2>3, LeaveInv
  <2>4. CASE UNCHANGED allVars
    <3>1. TypeInv'
      BY <2>4 DEF allVars, vars, WatchInv, TypeInv, TypeOK, LintedHasResult
    <3>2. WatchTypes' /\ UNCHANGED file /\ \A p \in Procs : Unmoved(p)
      BY <2>4 DEF allVars, watchVars, vars, WatchInv, WatchTypes, Unmoved
    <3> QED BY <3>1, <3>2, Bystander DEF WatchInv
  <2> QED BY <2>1, <2>2, <2>3, <2>4 DEF WatchNext
<1> QED BY <1>1, WatchInitInv, PTL DEF WatchSpec

(* Every reachable state of any number of watchers is well typed.          *)
THEOREM WatchTypeCorrect == WatchSpec => []WatchTypeOK
<1>1. WatchInv => WatchTypeOK
  BY DEF WatchInv, WatchTypes, WatchTypeOK, TypeInv
<1> QED BY <1>1, WatchInvariant, PTL

(* recheck_batch reads the stamp after the lint, so it may store a result  *)
(* of an older text under the stamp of the newer one: for any number of    *)
(* processes and files, only while the event of the edit in between is     *)
(* still to be worked off, if a path string names one file.                *)
THEOREM WrongUntilNextBatch ==
  ASSUME OneFilePerKey
  PROVE  WatchSpec => []WrongOnlyUntilNextBatch
<1>1. WatchInv => WrongOnlyUntilNextBatch
  <2> SUFFICES ASSUME WatchInv, NEW p \in Procs, NEW f \in Files,
                      f \in noticed[p] \ Backlog(p), ~run[p].raw,
                      NEW e \in {cache[p].files[KeyFor(p, f)], cache[p].pending[KeyFor(p, f)]},
                      e # NoEntry
               PROVE  Current(e, KeyFor(p, f))
    BY DEF WrongOnlyUntilNextBatch
  <2>1. Fits(e, f)
    BY DEF WatchInv, WatcherOK, DoneOK
  <2>2. \A s \in Spellings, g \in Files : KeyOf[s][g] = KeyFor(p, f) => g = f
    BY DEF OneFilePerKey, KeyFor, WatchInv, TypeInv, TypeOK, Run
  <2> QED BY <2>1, <2>2 DEF Fits, Current
<1> QED BY <1>1, WatchInvariant, PTL

(* A watcher that has nothing left to do has printed, for every file that  *)
(* changed while it watched, what its present text deserves.               *)
THEOREM IdleAlwaysShowsNoticed == WatchSpec => []IdleShowsNoticed
<1>1. WatchInv => IdleShowsNoticed
  BY DEF WatchInv, WatcherOK, DoneOK, IdleShowsNoticed
<1> QED BY <1>1, WatchInvariant, PTL

=============================================================================
