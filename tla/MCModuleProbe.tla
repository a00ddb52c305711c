--------------------------- MODULE MCModuleProbe ----------------------------
(* Three names, every list of at most two leads.                            *)
EXTENDS ModuleProbe, TLC

CONSTANTS k1, k2, k3, r1, r2

Lists(S) == {<< >>} \cup {<<a>> : a \in S} \cup {ab \in S \X S : ab[1] # ab[2]}
MCRootOf == (k1 :> r1) @@ (k2 :> r1) @@ (k3 :> r2)

(* A name leads to later names only. *)
MCAcyclic ==
    {(k1 :> a) @@ (k2 :> b) @@ (k3 :> c) :
        a \in Lists({k2, k3, Found}), b \in Lists({k3, Found}), c \in {<< >>, <<Found>>}}

(* Circular re-exports between all three names. *)
MCCircular ==
    {(k1 :> a) @@ (k2 :> b) @@ (k3 :> c) :
        a \in Lists({k1, k2, k3}), b \in Lists({k1, k3}), c \in {<< >>, <<Found>>, <<k1>>}}

MCLayouts == MCAcyclic \cup MCCircular
=============================================================================
