---------------------------- MODULE ModuleProbe -----------------------------
(***************************************************************************)
(* The module probe of konform (module_probe.rs), shared by the worker      *)
(* threads that lint files: is the name `attr` of module `module` itself a  *)
(* module?  A key stands for a pair (module, attr).  What the file system   *)
(* says of a key is the list of its leads, in the order check_filesystem    *)
(* follows them over the directories of sys.path: Found is a directory, a   *)
(* `.py` file or a C extension, a key is a re-export in an `__init__.py`.   *)
(***************************************************************************)
EXTENDS Naturals, Sequences, FiniteSets, SequencesExt

CONSTANTS
    Threads,    \* the workers
    Keys,       \* the pairs (module, attr)
    Found,      \* a lead that ends in a file
    NoKey,      \* in place of a key
    Layouts,    \* the file systems: [Keys -> Seq(Keys \cup {Found})]
    Roots,      \* the top-level packages
    RootOf,     \* the package of a key
    MaxQueries  \* bound on the queries of a run

ASSUME ProbeAssumption ==
    /\ IsFiniteSet(Keys) /\ Found \notin Keys /\ NoKey \notin Keys
    /\ Layouts \subseteq [Keys -> Seq(Keys \cup {Found})]
    /\ RootOf \in [Keys -> Roots] /\ MaxQueries \in Nat

VARIABLES
    leads,      \* the layout of this run
    installed,  \* the top-level packages found on sys.path
    cache,      \* key -> "yes", "no" or "unknown", shared
    rootCache,  \* package -> "yes", "no" or "unknown", shared
    queries,
    asked,      \* thread -> the key it was last asked for
    call,       \* thread -> the key is_module_recursive is called with
    stack,      \* thread -> the calls in progress, innermost last
    visiting,   \* thread -> its call-local cycle guard
    ret,        \* thread -> "yes" or "no" when a call has returned, "none" otherwise
    verdict     \* thread -> the last answer of ModuleProbe::check

task == <<asked, call, stack, visiting, ret>>
vars == <<leads, installed, cache, rootCache, queries, task, verdict>>

Verdicts == {"Module", "NotModule", "Unknown"}

(* The keys that lead to a file: the least set closed under following leads. *)
ClosedUnderLeads(S) ==
    \A k \in Keys : (\E l \in Range(leads[k]) : l = Found \/ l \in S) => k \in S
IsModule(k) == \A S \in SUBSET Keys : ClosedUnderLeads(S) => k \in S

YesNo(b) == IF b THEN "yes" ELSE "no"

Init ==
    /\ leads \in Layouts
    \* a key that has leads is in a package that is there
    /\ installed \in SUBSET Roots
    /\ \A k \in Keys : leads[k] # << >> => RootOf[k] \in installed
    /\ cache = [k \in Keys |-> "unknown"]
    /\ rootCache = [r \in Roots |-> "unknown"]
    /\ queries = 0
    /\ asked = [t \in Threads |-> NoKey] /\ call = [t \in Threads |-> NoKey]
    /\ stack = [t \in Threads |-> << >>] /\ visiting = [t \in Threads |-> {}]
    /\ ret = [t \in Threads |-> "none"]
    /\ verdict = [t \in Threads |-> "none"]

Idle(t) == call[t] = NoKey /\ stack[t] = << >> /\ ret[t] = "none"

(* A rule asks for a key. *)
Ask(t, k) ==
    /\ queries < MaxQueries /\ Idle(t)
    /\ queries' = queries + 1
    /\ asked' = [asked EXCEPT ![t] = k]
    /\ call' = [call EXCEPT ![t] = k]
    /\ visiting' = [visiting EXCEPT ![t] = {}]
    /\ verdict' = [verdict EXCEPT ![t] = "none"]
    /\ UNCHANGED <<leads, installed, cache, rootCache, stack, ret>>

(* A slip: a cycle counts as a module.                                       *)
EnterCycleFound(t) ==
    /\ call[t] # NoKey
    /\ call' = [call EXCEPT ![t] = NoKey]
    /\ \/ /\ call[t] \in visiting[t]
          /\ ret' = [ret EXCEPT ![t] = "yes"]
          /\ UNCHANGED <<stack, visiting>>
       \/ /\ call[t] \notin visiting[t]
          /\ visiting' = [visiting EXCEPT ![t] = @ \cup {call[t]}]
          /\ stack' = [stack EXCEPT ![t] = Append(@, [key |-> call[t], at |-> 1])]
          /\ UNCHANGED ret
    /\ UNCHANGED <<leads, installed, cache, rootCache, queries, asked, verdict>>

(* is_module_recursive returns what is cached, "no" for a key it is         *)
(* resolving already, and otherwise looks at the file system.                *)
Enter(t) ==
    /\ call[t] # NoKey
    /\ call' = [call EXCEPT ![t] = NoKey]
    /\ \/ /\ cache[call[t]] # "unknown"
          /\ ret' = [ret EXCEPT ![t] = cache[call[t]]]
          /\ UNCHANGED <<stack, visiting>>
       \/ /\ cache[call[t]] = "unknown" /\ call[t] \in visiting[t]
          /\ ret' = [ret EXCEPT ![t] = "no"]
          /\ UNCHANGED <<stack, visiting>>
       \/ /\ cache[call[t]] = "unknown" /\ call[t] \notin visiting[t]
          /\ visiting' = [visiting EXCEPT ![t] = @ \cup {call[t]}]
          /\ stack' = [stack EXCEPT ![t] = Append(@, [key |-> call[t], at |-> 1])]
          /\ UNCHANGED ret
    /\ UNCHANGED <<leads, installed, cache, rootCache, queries, asked, verdict>>

Top(t) == Last(stack[t])

(* The innermost call is done: its result is cached and returned. *)
Resolve(t, v) ==
    /\ cache' = [cache EXCEPT ![Top(t).key] = v]
    /\ ret' = [ret EXCEPT ![t] = v]
    /\ stack' = [stack EXCEPT ![t] = Front(@)]

(* A slip: a failed re-export is tried again.                                *)
FollowAgain(t) ==
    /\ call[t] = NoKey /\ ret[t] = "none" /\ stack[t] # << >>
    /\ LET key == Top(t).key
           at == Top(t).at
       IN  \/ /\ at > Len(leads[key])
              /\ Resolve(t, "no") /\ UNCHANGED call
           \/ /\ at <= Len(leads[key]) /\ leads[key][at] = Found
              /\ Resolve(t, "yes") /\ UNCHANGED call
           \/ /\ at <= Len(leads[key]) /\ leads[key][at] # Found
              /\ call' = [call EXCEPT ![t] = leads[key][at]]
              /\ UNCHANGED <<cache, stack, ret>>
    /\ UNCHANGED <<leads, installed, rootCache, queries, asked, visiting, verdict>>

(* check_filesystem: the next lead of the innermost call. *)
Follow(t) ==
    /\ call[t] = NoKey /\ ret[t] = "none" /\ stack[t] # << >>
    /\ LET key == Top(t).key
           at == Top(t).at
       IN  \/ /\ at > Len(leads[key])
              /\ Resolve(t, "no") /\ UNCHANGED call
           \/ /\ at <= Len(leads[key]) /\ leads[key][at] = Found
              /\ Resolve(t, "yes") /\ UNCHANGED call
           \/ /\ at <= Len(leads[key]) /\ leads[key][at] # Found
              /\ call' = [call EXCEPT ![t] = leads[key][at]]
              /\ stack' = [stack EXCEPT ![t][Len(stack[t])].at = @ + 1]
              /\ UNCHANGED <<cache, ret>>
    /\ UNCHANGED <<leads, installed, rootCache, queries, asked, visiting, verdict>>

(* A re-export that is a module settles the caller; otherwise it goes on.    *)
Return(t) ==
    /\ ret[t] # "none" /\ stack[t] # << >>
    /\ \/ /\ ret[t] = "yes" /\ Resolve(t, "yes")
       \/ /\ ret[t] = "no"
          /\ ret' = [ret EXCEPT ![t] = "none"] /\ UNCHANGED <<cache, stack>>
    /\ UNCHANGED <<leads, installed, rootCache, queries, asked, call, visiting, verdict>>

(* A slip: a package is looked for by the name that was asked for.           *)
CheckByName(t) ==
    /\ ret[t] # "none" /\ stack[t] = << >>
    /\ LET exists == YesNo(leads[asked[t]] # << >>)
       IN  verdict' = [verdict EXCEPT ![t] =
                          IF ret[t] = "yes" THEN "Module"
                          ELSE IF exists = "yes" THEN "NotModule" ELSE "Unknown"]
    /\ ret' = [ret EXCEPT ![t] = "none"]
    /\ UNCHANGED <<leads, installed, cache, rootCache, queries, asked, call, stack, visiting>>

(* ModuleProbe::check: a name that is no module is unknown when its package  *)
(* is not installed.                                                         *)
Check(t) ==
    /\ ret[t] # "none" /\ stack[t] = << >>
    /\ LET root == RootOf[asked[t]]
           exists == IF rootCache[root] # "unknown" THEN rootCache[root]
                     ELSE YesNo(root \in installed)
       IN  \/ /\ ret[t] = "yes"
              /\ verdict' = [verdict EXCEPT ![t] = "Module"] /\ UNCHANGED rootCache
           \/ /\ ret[t] = "no"
              /\ rootCache' = [rootCache EXCEPT ![root] = exists]
              /\ verdict' = [verdict EXCEPT ![t] =
                                IF exists = "yes" THEN "NotModule" ELSE "Unknown"]
    /\ ret' = [ret EXCEPT ![t] = "none"]
    /\ UNCHANGED <<leads, installed, cache, queries, asked, call, stack, visiting>>

Work(t) == Enter(t) \/ Follow(t) \/ Return(t) \/ Check(t)
Next == \E t \in Threads : (\E k \in Keys : Ask(t, k)) \/ Work(t)

Spec == Init /\ [][Next]_vars /\ \A t \in Threads : WF_vars(Work(t))

-----------------------------------------------------------------------------
TypeOK ==
    /\ leads \in [Keys -> Seq(Keys \cup {Found})] /\ installed \subseteq Roots
    /\ cache \in [Keys -> {"yes", "no", "unknown"}]
    /\ rootCache \in [Roots -> {"yes", "no", "unknown"}]
    /\ queries \in 0..MaxQueries
    /\ asked \in [Threads -> Keys \cup {NoKey}] /\ call \in [Threads -> Keys \cup {NoKey}]
    /\ stack \in [Threads -> Seq([key : Keys, at : Nat \ {0}])]
    /\ visiting \in [Threads -> SUBSET Keys]
    /\ ret \in [Threads -> {"yes", "no", "none"}]
    /\ verdict \in [Threads -> Verdicts \cup {"none"}]

(* What the shared cache calls a module leads to a file, whichever threads   *)
(* resolved it and however the re-exports loop.                              *)
FoundIsModule == \A k \in Keys : cache[k] = "yes" => IsModule(k)

(* "Only fully-resolved results are ever cached", is_module: the cache has   *)
(* the answer a query would have alone.                                      *)
CachedIsResolved == \A k \in Keys : cache[k] # "unknown" => cache[k] = YesNo(IsModule(k))

(* No re-export leads back to itself: every set of keys has one that leads   *)
(* to none of them.                                                          *)
Acyclic == \A S \in (SUBSET Keys) \ {{}} : \E k \in S : Range(leads[k]) \cap S = {}

(* When the re-exports are not circular, ModuleProbe::check says Module for  *)
(* a module, NotModule for another name of an installed package and Unknown  *)
(* for the rest, although other threads write to the cache meanwhile.        *)
VerdictsRight ==
    Acyclic => \A t \in Threads : verdict[t] # "none" =>
        verdict[t] = IF IsModule(asked[t]) THEN "Module"
                     ELSE IF RootOf[asked[t]] \in installed THEN "NotModule" ELSE "Unknown"

(* Every query is answered, also over circular re-exports.                   *)
EveryQueryAnswered == \A t \in Threads : ~Idle(t) ~> Idle(t)
=============================================================================
