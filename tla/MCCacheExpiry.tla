---------------------------- MODULE MCCacheExpiry ---------------------------
(***************************************************************************)
(* Instances of CacheExpiry for TLC: one process, since concurrent writers *)
(* may lose each other's refreshes.                                        *)
(***************************************************************************)
EXTENDS CacheExpiry, TLC

CONSTANTS p1, f1, f2, f3, k1, k2, k3, abs

MCKeyOf == [s \in {abs} |-> [f \in Files |-> CASE f = f1 -> k1 [] f = f2 -> k2
                                               [] OTHER -> k3]]

MCModes == {[raw |-> r, fix |-> FALSE, fixOnly |-> FALSE] : r \in BOOLEAN}
             \cup {[raw |-> FALSE, fix |-> TRUE, fixOnly |-> FALSE]}

(* One file alone, another one alone, or two together: a third entry makes *)
(* the package oversized.  Only fixes change the files.                    *)
MCParts == {{f1}, {f2}, {f2, f3}}
MCSpec  == ExpiryInit /\ [][ExpiryNext /\ (pc = pc' /\ cache = cache' => file' = file)]_expiryVars

=============================================================================
