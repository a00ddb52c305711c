---------------------------- MODULE MCWatchMode -----------------------------
(***************************************************************************)
(* Instances of WatchMode for TLC.                                         *)
(***************************************************************************)
EXTENDS WatchMode, TLC

CONSTANTS p1, p2, f1, k1, k2, abs, rel

(* Every spelling has a path string of its own.                            *)
MCKeyOf     == [s \in Spellings |-> [f \in Files |-> IF s = abs THEN k1 ELSE k2]]
MCWholeTree == {Files}
MCPlain     == {[raw |-> FALSE, fix |-> FALSE, fixOnly |-> FALSE]}
MCPlainRaw  == MCPlain \cup {[raw |-> TRUE, fix |-> FALSE, fixOnly |-> FALSE]}

=============================================================================
