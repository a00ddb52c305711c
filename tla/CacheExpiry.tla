----------------------------- MODULE CacheExpiry ----------------------------
(***************************************************************************)
(* How long entries live: CheckRun with history variables that remember,   *)
(* for every path string, when a run last used its entry (hit or linted    *)
(* it) and got as far as it would go to record that on disk.  A run with   *)
(* `--ignore-noqa` does not use the cache.                                 *)
(***************************************************************************)
EXTENDS CheckRun

VARIABLES
  used,     \* used[k]: time of the last use of k that was not cut short
  staged,   \* staged[p]: when p staged its results
  rewrote   \* rewrote[p]: what the fix pass of p took out of its cache

expiryVars == <<vars, used, staged, rewrote>>

ExpiryInit ==
  /\ Init
  /\ used    = [k \in Keys |-> 0]
  /\ staged  = [p \in Procs |-> 0]
  /\ rewrote = [p \in Procs |-> {}]

UsedBy(p) ==
  IF run[p].raw THEN {}
  ELSE {KeyFor(p, f) : f \in {g \in Files : work[p][g] = "hit"} \cup Fresh(p)}

(* A run uses its entries when it stages its results; they count once it   *)
(* has decided not to write or has replaced the cache file.                *)
Note(p, time) == used' = [k \in Keys |-> IF k \in UsedBy(p) THEN time ELSE used[k]]

Collected(p) ==
  /\ Collect(p)
  /\ staged' = [staged EXCEPT ![p] = now]
  /\ IF pc'[p] = "report" THEN Note(p, now) ELSE UNCHANGED used
  /\ UNCHANGED rewrote

Renamed(p) == Rename(p) /\ Note(p, staged[p]) /\ UNCHANGED <<staged, rewrote>>

Rewritten(p, f) ==
  /\ FixWrite(p, f)
  /\ rewrote' = [rewrote EXCEPT ![p] = @ \cup {KeyFor(p, f)}]
  /\ UNCHANGED <<used, staged>>

Unnoted(p) ==
  /\ \/ Start(p) \/ FixDone(p) \/ RenameFails(p) \/ Exit(p) \/ Crash(p)
     \/ \E f \in Files : FixRead(p, f) \/ FixSkip(p, f) \/ Stat(p, f) \/ Read(p, f)
  /\ rewrote' = [rewrote EXCEPT ![p] = IF pc'[p] = "idle" THEN {} ELSE @]
  /\ UNCHANGED <<used, staged>>

ExpiryNext ==
  \/ FileSystem /\ UNCHANGED <<used, staged, rewrote>>
  \/ \E p \in Procs :
       Unnoted(p) \/ Collected(p) \/ Renamed(p) \/ \E f \in Files : Rewritten(p, f)

ExpirySpec == ExpiryInit /\ [][ExpiryNext]_expiryVars

-----------------------------------------------------------------------------
(* The entries a write of p can hold: those on disk and those of its run.  *)
AtHand(p) == Live(disk.files) \cup {KeyFor(p, f) : f \in Targets(p)}

(* "It must stay far below EVICT_DAYS so in-use entries never expire": a   *)
(* write that need not trim an oversized package drops an entry only when  *)
(* its own fix pass rewrote the file or no run used it for more than       *)
(* EVICT_DAYS less the refresh throttle.                                   *)
InUseNeverExpires ==
  [][\A p \in Procs :
       /\ pc[p] = "rename" /\ pc'[p] = "report"
       /\ disk.kind = "loaded" /\ disk' # disk
       /\ Cardinality(AtHand(p)) <= MaxEntries
       => \A k \in Live(disk.files) \ (Live(disk'.files) \cup rewrote[p]) :
            now - used[k] > EvictAfter - RefreshAfter]_expiryVars

=============================================================================
