----------------------- MODULE PythonEnvironment_proofs ----------------------
(***************************************************************************)
(* What is saved of the Python environment is used only while it is right, *)
(* for any number of runs and of changes: a stamp is never given twice, so *)
(* a guard that still fits has not moved since it was taken.               *)
(***************************************************************************)
EXTENDS PythonEnvironment, TLAPS

Time == Nat \cup {Missing}
Prints == UNION {[p -> Time] : p \in SUBSET Dirs}

(* Stamps that were given before now.                                      *)
Past(f) == \A d \in DOMAIN f : f[d] # Missing => f[d] <= clock

Types ==
    /\ clock \in Nat /\ pth \in BOOLEAN /\ has \in [Dirs -> BOOLEAN]
    /\ stamp \in [Dirs -> Time] /\ stamp[Site] # Missing /\ Past(stamp)

(* An answer that was right when it was given, and fits the stamps at it.  *)
Answer(p) == p \in SUBSET Dirs /\ Site \in p
SavedOK ==
    saved # NoInfo =>
        /\ Answer(saved.info)
        /\ saved.stamps \in [saved.info \cup {User} -> Time] /\ Past(saved.stamps)
        /\ surprise # "restless" =>
              /\ User \in saved.info <=> saved.stamps[User] # Missing
              /\ saved.stamps[Site] = stamp[Site] => (Extra \in saved.info <=> pth)

(* What a result says of the directories while their stamps fit.           *)
Right(f, found) ==
    surprise # "nested" =>
        (AllThere(f) /\ f = Fingerprint(DOMAIN f) => found = Resolved(DOMAIN f))

(* What a run holds at each stage, by the stage, answer, fingerprint and    *)
(* result.                                                                 *)
Holds(c, i, p, f) ==
    /\ c = "queried" => Answer(i) /\ (surprise # "restless" => i = SysPath)
    /\ c \in {"known", "linting", "linted"} => i \in SUBSET Dirs
    /\ c \in {"linting", "linted"} => p \in [i -> Time] /\ Past(p)
    /\ c = "linted" => Right(p, f)

RunOK(r) == Holds(pc[r], info[r], print[r], result[r])

ResultsOK == \A e \in results : e.print \in Prints /\ Past(e.print) /\ Right(e.print, e.found)

(* Together, and inductive.                                                *)
Stages == {"idle", "queried", "known", "linting", "linted", "done"}

EnvInv ==
    /\ pc \in [Runs -> Stages] /\ DOMAIN info = Runs /\ DOMAIN print = Runs /\ DOMAIN result = Runs
    /\ Types /\ SavedOK /\ ResultsOK /\ \A r \in Runs : RunOK(r)

-----------------------------------------------------------------------------
(* The environment. *)

Moved(d) == stamp'[d] = Missing \/ stamp'[d] = clock'

(* A directory whose stamp a change leaves alone is left alone, unless the *)
(* change is below it; and a new stamp was never given before.             *)
LEMMA ChangeMoves ==
    ASSUME Types, Environment
    PROVE  /\ Types' /\ clock' = clock + 1 /\ UNCHANGED <<surprise, saved, results, pc, info, print, result>>
           /\ \A d \in Dirs : stamp'[d] = stamp[d] \/ Moved(d)
           /\ surprise # "nested" => \A d \in Dirs : stamp'[d] = stamp[d] => has'[d] = has[d] \/ stamp[d] = Missing
           /\ stamp'[Site] = stamp[Site] => pth' = pth
           /\ surprise # "restless" => \A r \in Runs : pc[r] # "queried"
<1>1. /\ Site \in Dirs /\ User \in Dirs /\ Extra \in Dirs /\ Site # User
      /\ clock \in Nat /\ clock + 1 \in Nat /\ clock + 1 # Missing
    BY EnvironmentAssumption DEF Types, Dirs, Site, User, Extra
<1>2. /\ stamp \in [Dirs -> Time] /\ \A d \in Dirs : stamp[d] # Missing => stamp[d] \in Nat /\ stamp[d] <= clock
      /\ stamp[Site] # Missing /\ pth \in BOOLEAN /\ has \in [Dirs -> BOOLEAN]
    BY DEF Types, Past, Time
<1>3. ASSUME Changes PROVE /\ clock' = clock + 1 /\ UNCHANGED <<surprise, saved, results, pc, info, print, result>>
                           /\ surprise # "restless" => \A r \in Runs : pc[r] # "queried"
    BY <1>3 DEF Changes
<1>4. ASSUME stamp' \in [Dirs -> Time], clock' = clock + 1, pth' \in BOOLEAN, has' \in [Dirs -> BOOLEAN],
             stamp'[Site] # Missing, \A d \in Dirs : stamp'[d] = stamp[d] \/ Moved(d)
      PROVE  Types'
    BY <1>1, <1>2, <1>4 DEF Types, Past, Moved
<1>5. CASE ChangePth
    <2>1. /\ stamp' \in [Dirs -> Time] /\ stamp'[Site] = clock' /\ stamp'[Site] # stamp[Site]
          /\ \A d \in Dirs : d # Site => stamp'[d] = stamp[d]
        BY <1>1, <1>2, <1>3, <1>5 DEF ChangePth, Time
    <2>2. pth' \in BOOLEAN /\ has' = has
        BY <1>2, <1>5 DEF ChangePth
    <2> QED BY <2>1, <2>2, <1>1, <1>2, <1>3, <1>4, <1>5 DEF ChangePth, Moved
<1>6. CASE ChangeUserSite
    <2>1. /\ stamp' \in [Dirs -> Time] /\ stamp'[User] # stamp[User] /\ Moved(User)
          /\ \A d \in Dirs : d # User => stamp'[d] = stamp[d] /\ has'[d] = has[d]
        <3>1. PICK s \in {clock', Missing} : /\ stamp' = [stamp EXCEPT ![User] = s]
                                             /\ s = IF stamp[User] = Missing THEN clock' ELSE Missing
            BY <1>6 DEF ChangeUserSite
        <3>2. s # stamp[User] /\ s \in Time
            BY <1>1, <1>2, <1>3, <1>6, <3>1 DEF ChangeUserSite, Time
        <3> QED BY <1>1, <1>2, <1>6, <3>1, <3>2 DEF ChangeUserSite, Moved
    <2>2. pth' = pth /\ has' \in [Dirs -> BOOLEAN]
        BY <1>2, <1>6 DEF ChangeUserSite
    <2>3. stamp'[Site] = stamp[Site]
        BY <1>1, <2>1
    <2> QED BY <2>1, <2>2, <2>3, <1>1, <1>2, <1>3, <1>4, <1>6 DEF ChangeUserSite, Moved
<1>7. ASSUME NEW d \in Dirs, Install(d)
      PROVE  /\ Types' /\ Changes /\ pth' = pth
             /\ \A q \in Dirs : stamp'[q] = stamp[q] \/ Moved(q)
             /\ \A q \in Dirs : stamp'[q] = stamp[q] => has'[q] = has[q]
    <2>1. /\ stamp' = [stamp EXCEPT ![d] = clock'] /\ has' = [has EXCEPT ![d] = ~@] /\ pth' = pth /\ Changes
          /\ stamp[d] # Missing
        BY <1>7 DEF Install
    <2>2. /\ stamp' \in [Dirs -> Time] /\ stamp'[d] = clock' /\ stamp'[d] # stamp[d]
          /\ \A q \in Dirs : q # d => stamp'[q] = stamp[q]
        BY <2>1, <1>1, <1>2, <1>3 DEF Time
    <2>3. has' \in [Dirs -> BOOLEAN] /\ \A q \in Dirs : q # d => has'[q] = has[q]
        BY <2>1, <1>2
    <2> QED BY <2>1, <2>2, <2>3, <1>1, <1>2, <1>3, <1>4 DEF Moved
<1>8. ASSUME NEW d \in Dirs, InstallNested(d)
      PROVE  Types' /\ Changes /\ pth' = pth /\ stamp' = stamp /\ surprise = "nested"
    <2>1. has' \in [Dirs -> BOOLEAN]
        BY <1>2, <1>8 DEF InstallNested
    <2> QED BY <2>1, <1>2, <1>3, <1>4, <1>8 DEF InstallNested
<1> QED BY <1>3, <1>5, <1>6, <1>7, <1>8 DEF Environment, ChangePth, ChangeUserSite

(* Past stamps stay past.                                                  *)
LEMMA StillPast ==
    ASSUME NEW f \in Prints, Past(f), clock \in Nat, clock' \in Nat, clock <= clock'
    PROVE  Past(f)'
BY DEF Prints, Past, Time

(* A result that was right is right still: if its guards fit, no directory *)
(* of it has moved.                                                        *)
LEMMA StillRight ==
    ASSUME Types, Environment, NEW f \in Prints, NEW found, Past(f), Right(f, found)
    PROVE  Right(f, found)'
<1> SUFFICES ASSUME surprise # "nested", AllThere(f), f = Fingerprint(DOMAIN f)'
             PROVE  found = Resolved(DOMAIN f)'
    BY ChangeMoves DEF Right, AllThere
<1>1. DOMAIN f \subseteq Dirs /\ \A d \in DOMAIN f : f[d] \in Nat /\ f[d] <= clock /\ clock \in Nat
    BY DEF Prints, Past, AllThere, Types, Time
<1>2. \A d \in DOMAIN f : f[d] = stamp'[d]
    BY DEF Fingerprint
<1>3. \A d \in DOMAIN f : stamp'[d] = stamp[d] /\ has'[d] = has[d] /\ f[d] = stamp[d]
    <2> TAKE d \in DOMAIN f
    <2>1. ~Moved(d)
        BY <1>1, <1>2, ChangeMoves, EnvironmentAssumption DEF Moved
    <2> QED BY <2>1, <1>1, <1>2, ChangeMoves DEF AllThere
<1>4. f = Fingerprint(DOMAIN f)
    BY <1>3 DEF Fingerprint, Prints
<1>5. found = Resolved(DOMAIN f)
    BY <1>4 DEF Right
<1> QED BY <1>3, <1>5 DEF Resolved

(* A change of the environment keeps the invariant.                        *)
LEMMA EnvironmentInv == ASSUME EnvInv, Environment PROVE EnvInv'
<1>1. /\ Types /\ Types' /\ clock \in Nat /\ clock' \in Nat /\ clock <= clock'
      /\ UNCHANGED <<surprise, saved, results, pc, info, print, result>>
    BY ChangeMoves DEF EnvInv, Types
<1>2. SavedOK'
    <2> SUFFICES ASSUME saved # NoInfo
                 PROVE  /\ Past(saved.stamps)'
                        /\ surprise # "restless" /\ saved.stamps[Site] = stamp'[Site] =>
                              (Extra \in saved.info <=> pth')
        BY <1>1 DEF EnvInv, SavedOK, Answer
    <2>1. saved.stamps \in Prints /\ Past(saved.stamps) /\ Site \in DOMAIN saved.stamps
        BY DEF EnvInv, SavedOK, Answer, Prints, Dirs
    <2>2. saved.stamps[Site] = stamp'[Site] => saved.stamps[Site] = stamp[Site] /\ pth' = pth
        <3> SUFFICES ASSUME saved.stamps[Site] = stamp'[Site] PROVE stamp'[Site] = stamp[Site]
            BY <1>1, ChangeMoves DEF EnvInv
        <3>1. Site \in Dirs /\ stamp'[Site] # Missing
            BY <1>1 DEF Types, Dirs
        <3>2. saved.stamps[Site] <= clock /\ clock' = clock + 1
            BY <2>1, <3>1, <1>1, ChangeMoves DEF Past
        <3> QED BY <3>1, <3>2, <1>1, ChangeMoves DEF Moved
    <2> QED BY <2>1, <2>2, <1>1, StillPast DEF EnvInv, SavedOK
<1>3. ResultsOK'
    BY <1>1, StillPast, StillRight DEF EnvInv, ResultsOK
<1>4. \A r \in Runs : RunOK(r)'
    <2> TAKE r \in Runs
    <2>1. RunOK(r)
        BY DEF EnvInv
    <2>2. pc[r] = "queried" => surprise = "restless"
        BY <1>1, ChangeMoves
    <2>3. pc[r] \in {"linting", "linted"} => print[r] \in Prints
        BY <2>1 DEF RunOK, Holds, Prints
    <2>4. pc[r] \in {"linting", "linted"} => Past(print[r])'
        BY <2>1, <2>3, <1>1, StillPast DEF RunOK, Holds
    <2>5. pc[r] = "linted" => Right(print[r], result[r])'
        BY <2>1, <2>3, <1>1, StillRight DEF RunOK, Holds
    <2> QED BY <1>1, <2>1, <2>2, <2>4, <2>5 DEF RunOK, Holds, Answer
<1> QED BY <1>1, <1>2, <1>3, <1>4 DEF EnvInv

-----------------------------------------------------------------------------
(* A run. *)

(* The stamps of directories taken now.                                    *)
LEMMA TakenNow ==
    ASSUME Types, NEW p \in SUBSET Dirs
    PROVE  /\ Fingerprint(p) \in [p -> Time] /\ Past(Fingerprint(p)) /\ Fingerprint(p) \in Prints
           /\ InfoStamps(p) \in [p \cup {User} -> Time] /\ Past(InfoStamps(p))
BY DEF Types, Fingerprint, InfoStamps, Past, Prints, Dirs

(* A step of a run r leaves the environment and the other runs alone.      *)
Alone(r) ==
    /\ UNCHANGED environment
    /\ DOMAIN info' = Runs /\ DOMAIN print' = Runs /\ DOMAIN result' = Runs /\ pc' \in [Runs -> Stages]
    /\ \A q \in Runs \ {r} : /\ pc'[q] = pc[q] /\ info'[q] = info[q]
                             /\ print'[q] = print[q] /\ result'[q] = result[q]

(* What a run holds, it holds while the environment does not change.       *)
LEMMA StillHolds ==
    ASSUME UNCHANGED environment, NEW c, NEW i, NEW p, NEW f, Holds(c, i, p, f)
    PROVE  Holds(c, i, p, f)'
BY DEF Holds, Answer, SysPath, Past, Right, AllThere, Fingerprint, Resolved, environment

(* Such a step has to be looked at only where it changes something.        *)
LEMMA OneRun ==
    ASSUME EnvInv, NEW r \in Runs, Alone(r), SavedOK', ResultsOK', RunOK(r)'
    PROVE  EnvInv'
<1>1. Types'
    BY DEF EnvInv, Types, Past, Alone, environment
<1>2. ASSUME NEW q \in Runs \ {r} PROVE RunOK(q)'
    <2>1. PICK c, i, p, f : c = pc[q] /\ i = info[q] /\ p = print[q] /\ f = result[q]
        OBVIOUS
    <2>2. c = pc'[q] /\ i = info'[q] /\ p = print'[q] /\ f = result'[q]
        BY <2>1 DEF Alone
    <2>3. Holds(c, i, p, f)
        BY <2>1 DEF EnvInv, RunOK
    <2>4. Holds(c, i, p, f)'
        BY <2>3, StillHolds DEF Alone
    <2> QED BY <2>2, <2>4 DEF RunOK
<1> QED BY <1>1, <1>2 DEF EnvInv, Alone

(* What is saved stays right while neither it nor the environment changes. *)
LEMMA KeptOK ==
    ASSUME EnvInv, UNCHANGED environment
    PROVE  (UNCHANGED saved => SavedOK') /\ (UNCHANGED results => ResultsOK')
BY DEF EnvInv, SavedOK, ResultsOK, Answer, Past, Right, AllThere, Fingerprint, Resolved, environment

(* A step of a run keeps the invariant.                                    *)
LEMMA RunInv == ASSUME EnvInv, NEW r \in Runs, Run(r) PROVE EnvInv'
<1> USE DEF Moves, Stages
<1>0. /\ Types /\ RunOK(r) /\ pc \in [Runs -> Stages]
      /\ DOMAIN info = Runs /\ DOMAIN print = Runs /\ DOMAIN result = Runs
    BY DEF EnvInv
<1>a. /\ UNCHANGED environment
      /\ UNCHANGED saved => SavedOK'
      /\ UNCHANGED results => ResultsOK'
    BY KeptOK DEF Run, LoadInfo, QueryInterpreter, QueryFails, StoreInfo, OpenCache, Replay,
                  LintImport, StoreResult, EndRun
<1>1. CASE LoadInfo(r)
    <2>1. info'[r] \in SUBSET Dirs /\ pc'[r] = "known"
        BY <1>0, <1>1 DEF LoadInfo, Accepts, EnvInv, SavedOK, Answer
    <2>8. RunOK(r)'
        BY <2>1 DEF RunOK, Holds
    <2>9. Alone(r) /\ UNCHANGED <<saved, results>>
        BY <1>0, <1>1 DEF LoadInfo, Alone
    <2> QED BY <1>a, <2>8, <2>9, OneRun
<1>2. CASE QueryInterpreter(r)
    <2>1. info'[r] = SysPath /\ pc'[r] = "queried" /\ SysPath' = SysPath
        BY <1>0, <1>2 DEF QueryInterpreter, SysPath, environment
    <2>2. Answer(SysPath)
        BY DEF Answer, SysPath, Dirs
    <2>8. RunOK(r)'
        BY <2>1, <2>2 DEF RunOK, Holds, Answer
    <2>9. Alone(r) /\ UNCHANGED <<saved, results>>
        BY <1>0, <1>2 DEF QueryInterpreter, Alone
    <2> QED BY <1>a, <2>8, <2>9, OneRun
<1>3. CASE QueryFails(r)
    <2>1. info'[r] = {} /\ pc'[r] = "known"
        BY <1>0, <1>3 DEF QueryFails
    <2>8. RunOK(r)'
        BY <2>1 DEF RunOK, Holds
    <2>9. Alone(r) /\ UNCHANGED <<saved, results>>
        BY <1>0, <1>3 DEF QueryFails, Alone
    <2> QED BY <1>a, <2>8, <2>9, OneRun
<1>4. CASE StoreInfo(r)
    <2>1. /\ pc[r] = "queried" /\ pc'[r] = "known" /\ info'[r] = info[r] /\ UNCHANGED results
          /\ Alone(r)
        BY <1>0, <1>4 DEF StoreInfo, Alone
    <2>2. PICK i : i = info[r]
        OBVIOUS
    <2>3. Answer(i) /\ (surprise # "restless" => i = SysPath)
        BY <1>0, <2>1, <2>2 DEF RunOK, Holds
    <2>4. RunOK(r)'
        BY <2>1, <2>2, <2>3 DEF RunOK, Holds, Answer
    <2>5. SavedOK'
        <3>1. CASE saved' = saved
            BY <1>a, <3>1
        <3>2. CASE saved' = [info |-> info[r], stamps |-> InfoStamps(info[r])]
            <4>1. PICK s : s = InfoStamps(i)
                OBVIOUS
            <4>2. saved'.info = i /\ saved'.stamps = s
                BY <2>2, <3>2, <4>1
            <4>3. s \in [i \cup {User} -> Time] /\ Past(s)
                BY <1>0, <2>3, <4>1, TakenNow DEF Answer
            <4>4. surprise # "restless" =>
                     /\ User \in i <=> s[User] # Missing
                     /\ Extra \in i <=> pth
                BY <2>3, <4>1 DEF SysPath, InfoStamps, Site, User, Extra
            <4>5. UNCHANGED <<surprise, stamp, pth, clock>>
                BY <1>a DEF environment
            <4> QED BY <2>3, <4>2, <4>3, <4>4, <4>5 DEF SavedOK, Answer, Past
        <3> QED BY <1>4, <3>1, <3>2 DEF StoreInfo
    <2> QED BY <1>a, <2>1, <2>4, <2>5, OneRun
<1>5. CASE OpenCache(r)
    <2>1. /\ info'[r] = info[r] /\ info[r] \in SUBSET Dirs /\ pc'[r] = "linting"
          /\ print'[r] = Fingerprint(info[r])
        BY <1>0, <1>5 DEF OpenCache, RunOK, Holds
    <2>2. print'[r] \in [info'[r] -> Time] /\ Past(print'[r])
        BY <1>0, <2>1, TakenNow
    <2>8. RunOK(r)'
        BY <1>a, <2>1, <2>2 DEF RunOK, Holds, Past, environment
    <2>9. Alone(r) /\ UNCHANGED <<saved, results>>
        BY <1>0, <1>5 DEF OpenCache, Alone
    <2> QED BY <1>a, <2>8, <2>9, OneRun
<1>6. CASE Replay(r)
    <2>1. pc'[r] = "done"
        BY <1>0, <1>6 DEF Replay
    <2>2. RunOK(r)'
        BY <2>1 DEF RunOK, Holds
    <2>3. DOMAIN result' = Runs /\ \A q \in Runs \ {r} : result'[q] = result[q]
        BY <1>0, <1>6 DEF Replay
    <2>4. Alone(r) /\ UNCHANGED <<saved, results>>
        BY <1>0, <1>6, <2>3 DEF Replay, Alone
    <2> QED BY <1>a, <2>2, <2>4, OneRun
<1>7. CASE LintImport(r)
    <2>1. /\ pc[r] = "linting" /\ pc'[r] = "linted" /\ info'[r] = info[r] /\ print'[r] = print[r]
          /\ result'[r] = Resolved(info[r])
        BY <1>0, <1>7 DEF LintImport
    <2>2. PICK i, p, f : i = info[r] /\ p = print[r] /\ f = Resolved(i)
        OBVIOUS
    <2>3. i \in SUBSET Dirs /\ p \in [i -> Time] /\ Past(p)
        BY <1>0, <2>1, <2>2 DEF RunOK, Holds
    <2>4. DOMAIN p = i /\ f = Resolved(i)'
        BY <1>a, <2>2, <2>3 DEF Resolved, environment
    <2>5. Right(p, f)'
        BY <2>4 DEF Right
    <2>6. Past(p)'
        BY <1>a, <2>3 DEF Past, environment
    <2>8. RunOK(r)'
        BY <2>1, <2>2, <2>3, <2>5, <2>6 DEF RunOK, Holds
    <2>9. Alone(r) /\ UNCHANGED <<saved, results>>
        BY <1>0, <1>7 DEF LintImport, Alone
    <2> QED BY <1>a, <2>8, <2>9, OneRun
<1>8. CASE StoreResult(r)
    <2>1. /\ pc[r] = "linted" /\ pc'[r] = "done" /\ Alone(r) /\ UNCHANGED saved
          /\ results' \subseteq results \cup {[print |-> print[r], found |-> result[r]]}
        BY <1>0, <1>8 DEF StoreResult, Alone
    <2>2. RunOK(r)'
        BY <2>1 DEF RunOK, Holds
    <2>3. print[r] \in Prints /\ Past(print[r]) /\ Right(print[r], result[r])
        BY <1>0, <2>1 DEF RunOK, Holds, Prints
    <2>4. \A e \in results' : e.print \in Prints /\ Past(e.print) /\ Right(e.print, e.found)
        BY <2>1, <2>3 DEF EnvInv, ResultsOK
    <2>5. ResultsOK'
        BY <1>a, <2>4 DEF ResultsOK, Past, Right, AllThere, Fingerprint, Resolved, environment
    <2> QED BY <1>a, <2>1, <2>2, <2>5, OneRun
<1>9. CASE EndRun(r)
    <2>1. pc'[r] = "idle"
        BY <1>0, <1>9 DEF EndRun
    <2>8. RunOK(r)'
        BY <2>1 DEF RunOK, Holds
    <2>9. Alone(r) /\ UNCHANGED <<saved, results>>
        BY <1>0, <1>9 DEF EndRun, Alone
    <2> QED BY <1>a, <2>8, <2>9, OneRun
<1> QED BY <1>1, <1>2, <1>3, <1>4, <1>5, <1>6, <1>7, <1>8, <1>9 DEF Run

-----------------------------------------------------------------------------
(* The invariant holds in a fresh environment.                             *)
LEMMA InitInv == Init => EnvInv
<1> SUFFICES ASSUME Init PROVE EnvInv
    OBVIOUS
<1>1. Types
    <2>1. /\ clock = 0 /\ pth = FALSE /\ has = [d \in Dirs |-> FALSE] /\ DOMAIN stamp = Dirs
          /\ stamp = [d \in Dirs |-> stamp[d]]
        BY DEF Init
    <2>2. \A d \in Dirs : stamp[d] = Missing \/ stamp[d] = 0
        BY DEF Init
    <2>3. stamp[Site] = 0
        BY DEF Init, Dirs, Site, User
    <2>4. stamp \in [Dirs -> Time] /\ stamp[Site] # Missing /\ Past(stamp)
        BY <2>1, <2>2, <2>3, EnvironmentAssumption DEF Past, Time
    <2>5. has \in [Dirs -> BOOLEAN]
        BY <2>1
    <2> QED BY <2>1, <2>4, <2>5 DEF Types
<1>2. SavedOK /\ ResultsOK
    BY DEF Init, SavedOK, ResultsOK
<1>3. ASSUME NEW r \in Runs PROVE RunOK(r)
    <2>1. pc[r] = "idle"
        BY DEF Init
    <2> QED BY <2>1 DEF RunOK, Holds
<1>4. pc \in [Runs -> Stages] /\ DOMAIN info = Runs /\ DOMAIN print = Runs /\ DOMAIN result = Runs
    BY DEF Init, Stages
<1> QED BY <1>1, <1>2, <1>3, <1>4 DEF EnvInv

(* And throughout.                                                         *)
LEMMA Invariance == Spec => []EnvInv
<1>1. EnvInv /\ [Next]_vars => EnvInv'
    <2> SUFFICES ASSUME EnvInv, [Next]_vars PROVE EnvInv'
        OBVIOUS
    <2>1. CASE UNCHANGED vars
        <3>1. UNCHANGED <<environment, saved, results, pc, info, print, result>>
            BY <2>1 DEF vars
        <3>2. SavedOK' /\ ResultsOK'
            BY <3>1, KeptOK
        <3>3. Types'
            BY <3>1 DEF EnvInv, Types, Past, environment
        <3>4. ASSUME NEW r \in Runs PROVE RunOK(r)'
            <4>1. PICK c, i, p, f : c = pc[r] /\ i = info[r] /\ p = print[r] /\ f = result[r]
                OBVIOUS
            <4>2. Holds(c, i, p, f)
                BY <4>1 DEF EnvInv, RunOK
            <4>3. Holds(c, i, p, f)'
                BY <3>1, <4>2, StillHolds
            <4> QED BY <3>1, <4>1, <4>3 DEF RunOK
        <3> QED BY <3>1, <3>2, <3>3, <3>4 DEF EnvInv
    <2> QED BY <2>1, EnvironmentInv, RunInv DEF Next
<1> QED BY <1>1, InitInv, PTL DEF Spec

(* An answer whose guards still fit is the one the interpreter would give, *)
(* unless something was installed between its answer and the stamps        *)
(* (load_info, store_info).                                                *)
THEOREM SavedAlwaysCurrent == Spec => []SavedAnswerCurrent
<1>1. ASSUME EnvInv PROVE SavedAnswerCurrent
    <2> SUFFICES ASSUME surprise # "restless", Accepts(saved) PROVE saved.info = SysPath
        BY DEF SavedAnswerCurrent
    <2>1. SavedOK /\ saved # NoInfo /\ InfoStamps(saved.info) = saved.stamps /\ Answer(saved.info)
        BY <1>1 DEF EnvInv, Accepts, SavedOK
    <2>2. saved.stamps[Site] = stamp[Site] /\ saved.stamps[User] = stamp[User]
        BY <2>1 DEF InfoStamps, Answer
    <2>3. (User \in saved.info <=> stamp[User] # Missing) /\ (Extra \in saved.info <=> pth)
        BY <2>1, <2>2 DEF SavedOK
    <2> QED BY <2>1, <2>3 DEF Answer, SysPath, Dirs
<1> QED BY <1>1, Invariance, PTL

(* A result whose fingerprint still fits is what linting again would give, *)
(* unless something changed below the directories (env_fingerprint).       *)
THEOREM ReplayAlwaysCurrent == Spec => []ReplayCurrent
<1>1. EnvInv => ReplayCurrent
    BY DEF EnvInv, ResultsOK, Right, ReplayCurrent
<1> QED BY <1>1, Invariance, PTL
=============================================================================
