SPECIFICATION Spec
CONSTANTS
    k1 = k1
    k2 = k2
    k3 = k3
    r1 = r1
    r2 = r2
    Found = Found
    NoKey = NoKey
    Keys = {k1, k2, k3}
    Roots = {r1, r2}
    RootOf <- MCRootOf
    Threads = {t1, t2}
    Layouts <- MCLayouts
    MaxQueries = 2
INVARIANTS
    VerdictsRight
    FoundIsModule
PROPERTY EveryQueryAnswered
CHECK_DEADLOCK FALSE
