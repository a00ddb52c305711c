---------------------------- MODULE MCCheckSafety ---------------------------
EXTENDS MCCheckRun

(* Processes one after the other on two files, with every combination of   *)
(* options and one write less; or processes that overlap and share one     *)
(* file, with and without a fix pass.  Time passes in the first, as long   *)
(* as no file is written.                                                  *)
InSequence ==
  /\ Cardinality({p \in Procs : pc[p] # "idle"}) <= 1
  /\ writes + now < MaxWrites

Overlap ==
  /\ now = 0
  /\ file[f2] = [present |-> TRUE, stamp |-> 0, ver |-> 0]
  /\ \A p \in Procs : work[p][f2] = "none" /\ ~run[p].raw /\ ~run[p].fixOnly
                      /\ cache[p].files[k2] = NoEntry
  /\ disk.kind = "loaded" => disk.files[k2] = NoEntry

MCFits == InSequence \/ Overlap

=============================================================================
