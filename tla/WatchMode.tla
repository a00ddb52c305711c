------------------------------ MODULE WatchMode -----------------------------
(***************************************************************************)
(* `konform check --watch` (run_watch_loop and recheck_batch in            *)
(* src/main.rs).  A process that has reported stays alive: it registers a  *)
(* file watcher, collects the paths of the events it receives, and when no *)
(* event came for the debounce time it lints the collected files again,    *)
(* into the Cache it opened when it started.                               *)
(*                                                                         *)
(* While a process watches, its pc stays "report" and watch[p] says what   *)
(* it does; Exit is Ctrl-C.  res[p] is what it last printed for each file: *)
(* Unread also stands for the message that a file could not be read.       *)
(***************************************************************************)
EXTENDS CheckRun

ASSUME NoFileAssumption == NoEntry \notin Files

VARIABLES
  watch,    \* watch[p]: "off", "wait", "batch", "rename"
  queue,    \* queue[p]: files with an event in the channel
  pending,  \* pending[p]: files collected for the next batch
  batch,    \* batch[p]: files of the batch still to be linted
  linting,  \* linting[p]: the file linted but not yet stored, or NoEntry
  noticed   \* noticed[p]: history, the files that changed while p watched

watchVars == <<watch, queue, pending, batch, linting, noticed>>
allVars   == <<vars, watchVars>>

Watching(p) == watch[p] # "off"

WatchInit ==
  /\ Init
  /\ watch   = [p \in Procs |-> "off"]
  /\ queue   = [p \in Procs |-> {}]
  /\ pending = [p \in Procs |-> {}]
  /\ batch   = [p \in Procs |-> {}]
  /\ linting = [p \in Procs |-> NoEntry]
  /\ noticed = [p \in Procs |-> {}]

-----------------------------------------------------------------------------
(* The watcher thread puts an event into the channel of every process that *)
(* watches when a file is created, written or restamped; the loop ignores  *)
(* an event whose file is gone.                                            *)
Changed == {f \in Files : file'[f] # file[f] /\ file'[f].present}

Notify ==
  /\ queue'   = [p \in Procs |-> IF Watching(p) THEN queue[p] \cup Changed ELSE {}]
  /\ noticed' = [p \in Procs |-> IF Watching(p) THEN noticed[p] \cup Changed ELSE {}]

(* Any step of a check run or of the users, as the watchers see it.        *)
Others ==
  /\ FileSystem \/ \E p \in Procs : FixPass(p) \/ CheckPass(p) \/ Persist(p) \/ Crash(p) \/ Start(p)
  /\ Notify
  /\ UNCHANGED <<watch, pending, batch, linting>>

(* The initial check is done: register the watcher.  Changes made before   *)
(* this moment produce no event.  The events may name the files otherwise  *)
(* than the user did (an absolute path for a relative argument).           *)
EnterWatch(p) ==
  /\ pc[p] = "report"
  /\ ~Watching(p)
  /\ watch' = [watch EXCEPT ![p] = "wait"]
  /\ \E s \in Spellings : run' = [run EXCEPT ![p].spell = s]
  /\ UNCHANGED <<file, writes, now, disk, pc, cache, work, key, res,
                 queue, pending, batch, linting, noticed>>

(* One event: collect the path if the file still exists.                   *)
Receive(p, f) ==
  /\ watch[p] = "wait"
  /\ f \in queue[p]
  /\ queue'   = [queue EXCEPT ![p] = @ \ {f}]
  /\ pending' = [pending EXCEPT ![p] = IF file[f].present THEN @ \cup {f} ELSE @]
  /\ UNCHANGED <<vars, watch, batch, linting, noticed>>

(* The debounce time passed without an event.                              *)
Debounce(p) ==
  /\ watch[p] = "wait"
  /\ queue[p] = {}
  /\ pending[p] # {}
  /\ watch'   = [watch EXCEPT ![p] = "batch"]
  /\ batch'   = [batch EXCEPT ![p] = pending[p]]
  /\ pending' = [pending EXCEPT ![p] = {}]
  /\ UNCHANGED <<vars, queue, linting, noticed>>

(* Slips: a file that cannot be read keeps its entry; or is tried again.   *)
RelintKeepsEntry(p, f) ==
  /\ watch[p] = "batch"
  /\ linting[p] = NoEntry
  /\ f \in batch[p]
  /\ \/ /\ file[f].present
        /\ cache'   = [cache EXCEPT ![p] = Invalidate(cache[p], KeyFor(p, f))]
        /\ res'     = [res EXCEPT ![p][f] = Lint(f, file[f].ver, run[p].raw)]
        /\ linting' = [linting EXCEPT ![p] = f]
        /\ UNCHANGED batch
     \/ /\ batch' = [batch EXCEPT ![p] = @ \ {f}]
        /\ res'   = [res EXCEPT ![p][f] = Unread]
        /\ UNCHANGED <<cache, linting>>
  /\ UNCHANGED <<file, writes, now, disk, pc, run, work, key, watch, queue, pending,
                 noticed>>

RelintRetries(p, f) ==
  /\ watch[p] = "batch"
  /\ linting[p] = NoEntry
  /\ f \in batch[p]
  /\ cache' = [cache EXCEPT ![p] = Invalidate(cache[p], KeyFor(p, f))]
  /\ \/ /\ file[f].present
        /\ res'     = [res EXCEPT ![p][f] = Lint(f, file[f].ver, run[p].raw)]
        /\ linting' = [linting EXCEPT ![p] = f]
     \/ /\ res' = [res EXCEPT ![p][f] = Unread]
        /\ UNCHANGED linting
  /\ UNCHANGED <<file, writes, now, disk, pc, run, work, key, watch, queue, pending,
                 batch, noticed>>

(* recheck_batch, for one file: drop its entry, read it and lint it ...    *)
Relint(p, f) ==
  /\ watch[p] = "batch"
  /\ linting[p] = NoEntry
  /\ f \in batch[p]
  /\ cache' = [cache EXCEPT ![p] = Invalidate(cache[p], KeyFor(p, f))]
  /\ \/ /\ file[f].present
        /\ res'     = [res EXCEPT ![p][f] = Lint(f, file[f].ver, run[p].raw)]
        /\ linting' = [linting EXCEPT ![p] = f]
        /\ UNCHANGED batch
     \/ /\ batch' = [batch EXCEPT ![p] = @ \ {f}]
        /\ res'   = [res EXCEPT ![p][f] = Unread]
        /\ UNCHANGED linting
  /\ UNCHANGED <<file, writes, now, disk, pc, run, work, key, watch, queue, pending,
                 noticed>>

(* ... then take the stamp the file has by now, and stage the result.      *)
Store(p, f) ==
  /\ watch[p] = "batch"
  /\ linting[p] = f
  /\ cache' = [cache EXCEPT ![p] =
       IF ~run[p].raw /\ file[f].present
       THEN SetLinted(cache[p], KeyFor(p, f), file[f].stamp, res[p][f])
       ELSE cache[p]]
  /\ linting' = [linting EXCEPT ![p] = NoEntry]
  /\ batch'   = [batch EXCEPT ![p] = @ \ {f}]
  /\ UNCHANGED <<file, writes, now, disk, pc, run, work, key, res, watch, queue, pending,
                 noticed>>

(* A slip: the events that came in during the batch are drained after it.  *)
BatchDoneDrains(p) ==
  /\ watch[p] = "batch"
  /\ linting[p] = NoEntry
  /\ batch[p] = {}
  /\ watch' = [watch EXCEPT ![p] = "wait"]
  /\ queue' = [queue EXCEPT ![p] = {}]
  /\ UNCHANGED <<file, writes, now, disk, pc, run, cache, work, key, res, pending, batch,
                 linting, noticed>>

(* The batch is done: persist as a check run does, then print.             *)
BatchDone(p) ==
  /\ watch[p] = "batch"
  /\ linting[p] = NoEntry
  /\ batch[p] = {}
  /\ IF run[p].raw \/ ~NeedsWrite(cache[p], now)
     THEN /\ watch' = [watch EXCEPT ![p] = "wait"]
          /\ cache' = [cache EXCEPT ![p] = Untouched(cache[p])]
     ELSE /\ watch' = [watch EXCEPT ![p] = "rename"]
          /\ \E files \in Packages(cache[p], now) :
               cache' = [cache EXCEPT ![p] = Merge(cache[p], files)]
  /\ UNCHANGED <<file, writes, now, disk, pc, run, work, key, res, queue, pending, batch,
                 linting, noticed>>

BatchRename(p) ==
  /\ watch[p] = "rename"
  /\ watch' = [watch EXCEPT ![p] = "wait"]
  /\ \/ /\ disk'  = Loaded(cache[p].files)
        /\ cache' = [cache EXCEPT ![p] = Written(cache[p])]
     \/ UNCHANGED <<disk, cache>>
  /\ UNCHANGED <<file, writes, now, pc, run, work, key, res, queue, pending, batch,
                 linting, noticed>>

(* Ctrl-C in watch mode, or the end of a process that does not watch.      *)
Leave(p) ==
  /\ Exit(p)
  /\ watch'   = [watch EXCEPT ![p] = "off"]
  /\ queue'   = [queue EXCEPT ![p] = {}]
  /\ pending' = [pending EXCEPT ![p] = {}]
  /\ batch'   = [batch EXCEPT ![p] = {}]
  /\ linting' = [linting EXCEPT ![p] = NoEntry]
  /\ noticed' = [noticed EXCEPT ![p] = {}]

WatchStep(p) ==
  \/ EnterWatch(p) \/ Debounce(p) \/ BatchDone(p) \/ BatchRename(p)
  \/ \E f \in Files : Receive(p, f) \/ Relint(p, f) \/ Store(p, f)

WatchNext == Others \/ \E p \in Procs : WatchStep(p) \/ Leave(p)

WatchSpec == WatchInit /\ [][WatchNext]_allVars

(* The loop never stops taking events and working off its batches.         *)
WatchFairSpec ==
  WatchSpec /\ \A p \in Procs : WF_allVars(WatchStep(p))

-----------------------------------------------------------------------------
WatchTypeOK ==
  /\ TypeOK
  /\ watch   \in [Procs -> {"off", "wait", "batch", "rename"}]
  /\ queue   \in [Procs -> SUBSET Files]
  /\ pending \in [Procs -> SUBSET Files]
  /\ batch   \in [Procs -> SUBSET Files]
  /\ linting \in [Procs -> Files \cup {NoEntry}]

(* What p still has to look at.                                            *)
Backlog(p) == queue[p] \cup pending[p] \cup batch[p]

(* For a file that changed while p watched, p's Cache holds or stages a    *)
(* result of an older text under the file's present stamp only while an    *)
(* edit is still on its way through the watcher: the next batch repairs    *)
(* what recheck_batch got wrong.                                           *)
WrongOnlyUntilNextBatch ==
  \A p \in Procs, f \in Files :
    LET k == KeyFor(p, f)
        Wrong(e) == e # NoEntry /\ ~Current(e, k)
    IN  f \in noticed[p] \ Backlog(p) /\ ~run[p].raw
          => ~Wrong(cache[p].files[k]) /\ ~Wrong(cache[p].pending[k])

(* What p printed last for f is what the file's text now deserves.         *)
ShowsCurrent(p, f) == res[p][f] \in {Unread, Lint(f, file[f].ver, run[p].raw)}

(* A watcher with nothing left to do has printed the present state of      *)
(* every file that changed while it watched.                               *)
IdleShowsNoticed ==
  \A p \in Procs, f \in Files :
    watch[p] = "wait" /\ Backlog(p) = {} /\ f \in noticed[p] /\ file[f].present
      => ShowsCurrent(p, f)

(* ... and every watcher that is not stopped gets there again and again.   *)
WatchDrains ==
  \A p \in Procs : []<>(Watching(p) => watch[p] = "wait" /\ Backlog(p) = {})

=============================================================================
