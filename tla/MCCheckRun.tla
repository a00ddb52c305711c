----------------------------- MODULE MCCheckRun -----------------------------
(***************************************************************************)
(* Instances of CheckRun for TLC.                                          *)
(***************************************************************************)
EXTENDS CheckRun, TLC

CONSTANTS p1, p2, f1, f2, k1, k2, abs

MCKeysTwo  == {k1, k2}
MCKeyOfTwo == [s \in {abs} |-> [f \in Files |-> IF f = f1 THEN k1 ELSE k2]]

(* The whole tree or the first file alone; or one of two files each time.  *)
MCSomeOrAll == {{f1}, Files}
MCEachOne   == {{f1}, {f2}}

Mode(raw, fix, fixOnly) == [raw |-> raw, fix |-> fix, fixOnly |-> fixOnly]
Plain   == Mode(FALSE, FALSE, FALSE)
Fix     == Mode(FALSE, TRUE, FALSE)
FixOnly == Mode(FALSE, TRUE, TRUE)
Raw     == Mode(TRUE, FALSE, FALSE)
RawFix  == Mode(TRUE, TRUE, FALSE)

MCAllModes   == {Plain, Fix, FixOnly, Raw, RawFix}
MCPlain      == {Plain}

MCSymmetry == Permutations(Procs)

=============================================================================
