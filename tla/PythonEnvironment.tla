-------------------------- MODULE PythonEnvironment -------------------------
(***************************************************************************)
(* What konform remembers of the Python environment between runs: the       *)
(* interpreter's answer saved in the cache directory, and the results in    *)
(* the violation cache that depend on what can be imported, which are kept  *)
(* apart by a fingerprint of sys.path.  Both are guarded by modification    *)
(* times of directories, read while packages come and go.                   *)
(*                                                                          *)
(* sys.path has the directory Site always, Extra when a `.pth` file in Site *)
(* names it, and the user site when it exists.  The rule under test asks    *)
(* for one import: `has` says below which directories it can be found.      *)
(***************************************************************************)
EXTENDS Naturals, FiniteSets

CONSTANTS
    Runs,         \* konform processes
    Missing,      \* the stamp of a directory that does not exist
    NoInfo,       \* no saved answer, no result yet
    Surprises,    \* what may change unnoticed: see surprise
    MaxClock      \* bound on the changes to the environment

Site == "site"
Extra == "extra"
User == "user"
Dirs == {Site, Extra, User}

ASSUME EnvironmentAssumption ==
    MaxClock \in Nat /\ Surprises \subseteq {"restless", "nested"} /\ Missing \notin Nat

VARIABLES
    surprise, \* "restless": the environment changes between query_interpreter and
              \* store_info too; "nested": below the directories of sys.path too
    stamp,    \* directory -> modification time
    pth,      \* Site has a `.pth` file that names Extra
    has,      \* directory -> the import can be found below it
    clock,
    saved,    \* the `.python` file: the answer and the stamps that guard it
    results,  \* the violation cache: fingerprint and result of the file that imports
    pc, info, print, result   \* run -> its progress, answer, fingerprint and result

environment == <<surprise, stamp, pth, has, clock>>
vars == <<environment, saved, results, pc, info, print, result>>

(* query_interpreter: sys.path as the interpreter sees it now. *)
SysPath == {Site} \cup (IF pth THEN {Extra} ELSE {})
                  \cup (IF stamp[User] # Missing THEN {User} ELSE {})

(* A slip: the user site is guarded once it is on sys.path.                  *)
InfoStampsOfPath(path) == [d \in path |-> stamp[d]]

(* info_stamps: every directory of the answer, and the user site. *)
InfoStamps(path) == [d \in path \cup {User} |-> stamp[d]]

(* load_info accepts the saved answer while its guards have not changed. *)
Accepts(file) == file # NoInfo /\ InfoStamps(file.info) = file.stamps

(* env_fingerprint *)
Fingerprint(path) == [d \in path |-> stamp[d]]

(* The import is resolved below one of the directories searched. *)
Resolved(path) == \E d \in path : stamp[d] # Missing /\ has[d]

Init ==
    /\ surprise \in Surprises
    /\ stamp = [d \in Dirs |-> IF d = User THEN Missing ELSE 0]
    /\ pth = FALSE /\ has = [d \in Dirs |-> FALSE] /\ clock = 0
    /\ saved = NoInfo /\ results = {}
    /\ pc = [r \in Runs |-> "idle"] /\ info = [r \in Runs |-> NoInfo]
    /\ print = [r \in Runs |-> NoInfo] /\ result = [r \in Runs |-> NoInfo]

-----------------------------------------------------------------------------
(* Packages come and go. *)

Changes ==
    /\ clock < MaxClock /\ clock' = clock + 1
    /\ surprise = "restless" \/ \A r \in Runs : pc[r] # "queried"
    /\ UNCHANGED <<surprise, saved, results, pc, info, print, result>>

ChangePth ==
    /\ Changes /\ pth' = ~pth
    /\ stamp' = [stamp EXCEPT ![Site] = clock'] /\ UNCHANGED has

ChangeUserSite ==
    /\ Changes
    /\ stamp' = [stamp EXCEPT ![User] = IF @ = Missing THEN clock' ELSE Missing]
    /\ has' = [has EXCEPT ![User] = FALSE] /\ UNCHANGED pth

(* A package is installed in or removed from a directory of sys.path. *)
Install(d) ==
    /\ Changes /\ stamp[d] # Missing
    /\ has' = [has EXCEPT ![d] = ~@]
    /\ stamp' = [stamp EXCEPT ![d] = clock'] /\ UNCHANGED pth

(* A module is added to or removed from a package: the stamp of the package  *)
(* changes and not that of the directory the package is in.                  *)
InstallNested(d) ==
    /\ surprise = "nested" /\ Changes /\ stamp[d] # Missing
    /\ has' = [has EXCEPT ![d] = ~@] /\ UNCHANGED <<stamp, pth>>

-----------------------------------------------------------------------------
(* A run. *)

Moves(r, from, to) == pc[r] = from /\ pc' = [pc EXCEPT ![r] = to]

(* new_cached with an answer that is still current. *)
LoadInfo(r) ==
    /\ Moves(r, "idle", "known") /\ Accepts(saved)
    /\ info' = [info EXCEPT ![r] = saved.info]
    /\ UNCHANGED <<environment, saved, results, print, result>>

QueryInterpreter(r) ==
    /\ Moves(r, "idle", "queried") /\ ~Accepts(saved)
    /\ info' = [info EXCEPT ![r] = SysPath]
    /\ UNCHANGED <<environment, saved, results, print, result>>

(* The interpreter is missing, fails or does not answer in time: nothing is  *)
(* saved, and nothing is on sys.path.                                        *)
QueryFails(r) ==
    /\ Moves(r, "idle", "known") /\ ~Accepts(saved)
    /\ info' = [info EXCEPT ![r] = {}]
    /\ UNCHANGED <<environment, saved, results, print, result>>

(* store_info stamps the directories after the interpreter has answered, and *)
(* renames the file into place, or fails.                                    *)
StoreInfo(r) ==
    /\ Moves(r, "queried", "known")
    /\ saved' \in {saved, [info |-> info[r], stamps |-> InfoStamps(info[r])]}
    /\ UNCHANGED <<environment, results, info, print, result>>

(* The fingerprint is part of the settings that the violation cache is       *)
(* opened with, before any file is linted.                                   *)
OpenCache(r) ==
    /\ Moves(r, "known", "linting")
    /\ print' = [print EXCEPT ![r] = Fingerprint(info[r])]
    /\ UNCHANGED <<environment, saved, results, info, result>>

Replay(r) ==
    /\ Moves(r, "linting", "done")
    /\ \E e \in results : e.print = print[r] /\ result' = [result EXCEPT ![r] = e.found]
    /\ UNCHANGED <<environment, saved, results, info, print>>

LintImport(r) ==
    /\ Moves(r, "linting", "linted")
    /\ \A e \in results : e.print # print[r]
    /\ result' = [result EXCEPT ![r] = Resolved(info[r])]
    /\ UNCHANGED <<environment, saved, results, info, print>>

(* A slip: what a run stores is what its fingerprint says at the end of it.  *)
StoreResultLate(r) ==
    /\ Moves(r, "linted", "done")
    /\ results' = {e \in results : e.print # Fingerprint(info[r])}
                  \cup {[print |-> Fingerprint(info[r]), found |-> result[r]]}
    /\ UNCHANGED <<environment, saved, info, print, result>>

StoreResult(r) ==
    /\ Moves(r, "linted", "done")
    /\ results' = {e \in results : e.print # print[r]}
                  \cup {[print |-> print[r], found |-> result[r]]}
    /\ UNCHANGED <<environment, saved, info, print, result>>

(* The process ends, and may be started again. *)
EndRun(r) ==
    /\ Moves(r, "done", "idle")
    /\ info' = [info EXCEPT ![r] = NoInfo] /\ print' = [print EXCEPT ![r] = NoInfo]
    /\ result' = [result EXCEPT ![r] = NoInfo]
    /\ UNCHANGED <<environment, saved, results>>

Run(r) ==
    \/ LoadInfo(r) \/ QueryInterpreter(r) \/ QueryFails(r) \/ StoreInfo(r)
    \/ OpenCache(r) \/ Replay(r) \/ LintImport(r) \/ StoreResult(r) \/ EndRun(r)
Environment ==
    ChangePth \/ ChangeUserSite \/ \E d \in Dirs : Install(d) \/ InstallNested(d)

Next == Environment \/ \E r \in Runs : Run(r)
Spec == Init /\ [][Next]_vars

-----------------------------------------------------------------------------
(* new_cached: the saved answer "is used only while every `sys.path`         *)
(* directory (and the user site directory) still has the mtime it had when   *)
(* saved, so installing a package or adding a `.pth` file re-queries": an    *)
(* answer that would be used is the one the interpreter would give, unless   *)
(* something was installed between its answer and the stamps.                *)
SavedAnswerCurrent ==
    surprise # "restless" => (Accepts(saved) => saved.info = SysPath)

(* env_fingerprint "changes whenever the resolvable module set changes": a   *)
(* result stored under the fingerprint of the directories as they are is     *)
(* what linting the file would give, so that replaying it is right, unless   *)
(* something changed below those directories.  (A directory that is missing  *)
(* has one stamp however often it comes and goes: fingerprints that have it  *)
(* are left out.)                                                            *)
AllThere(f) == \A d \in DOMAIN f : f[d] # Missing
ReplayCurrent ==
    surprise # "nested" =>
        \A e \in results : AllThere(e.print) /\ e.print = Fingerprint(DOMAIN e.print) =>
            e.found = Resolved(DOMAIN e.print)
=============================================================================
