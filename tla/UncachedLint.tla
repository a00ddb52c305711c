---------------------------- MODULE UncachedLint ----------------------------
(***************************************************************************)
(* What `konform check` promises, whether or not it uses a cache: a run    *)
(* reports, for every file it was asked for, the violations of a text the  *)
(* file had while the run was going on, or nothing for a file it could not *)
(* read.                                                                   *)
(***************************************************************************)
CONSTANTS
  Files, Procs,
  Absent,   \* the content of a file that is not there
  None,     \* no result yet
  Unread    \* the result of a failed read

VARIABLES
  content,  \* content[f]: the version on disk, or Absent
  phase,    \* phase[p]: "off", "lint" or "report"
  asked,    \* asked[p]: the files p was asked for
  raw,      \* raw[p]: does p ignore `# noqa`?
  res       \* res[p][f]: the result of p for f

vars == <<content, phase, asked, raw, res>>

Init ==
  /\ content \in [Files -> {0}]
  /\ phase = [p \in Procs |-> "off"]
  /\ asked = [p \in Procs |-> {}]
  /\ raw   = [p \in Procs |-> FALSE]
  /\ res   = [p \in Procs |-> [f \in Files |-> None]]

(* Somebody, a fixing run included, changes or removes a file.             *)
Change(f) ==
  /\ \A g \in Files \ {f} : content'[g] = content[g]
  /\ UNCHANGED <<phase, asked, raw, res>>

Begin(p) ==
  /\ phase[p] = "off"
  /\ phase' = [phase EXCEPT ![p] = "lint"]
  /\ \E T \in SUBSET {f \in Files : content[f] # Absent} :
       asked' = [asked EXCEPT ![p] = T]
  /\ \E b \in BOOLEAN : raw' = [raw EXCEPT ![p] = b]
  /\ UNCHANGED <<content, res>>

(* One file is linted as it is at this moment.                             *)
LintNow(p, f) ==
  /\ phase[p] = "lint"
  /\ f \in asked[p]
  /\ res[p][f] = None
  /\ \E r \in {Unread} \cup IF content[f] = Absent THEN {}
                            ELSE {[file |-> f, ver |-> content[f], raw |-> raw[p]]} :
       res' = [res EXCEPT ![p][f] = r]
  /\ UNCHANGED <<content, phase, asked, raw>>

Report(p) ==
  /\ phase[p] = "lint"
  /\ \A f \in asked[p] : res[p][f] # None
  /\ phase' = [phase EXCEPT ![p] = "report"]
  /\ UNCHANGED <<content, asked, raw, res>>

(* The process ends, with or without having reported.                      *)
Stop(p) ==
  /\ phase[p] # "off"
  /\ phase' = [phase EXCEPT ![p] = "off"]
  /\ asked' = [asked EXCEPT ![p] = {}]
  /\ raw'   = [raw EXCEPT ![p] = FALSE]
  /\ res'   = [res EXCEPT ![p] = [f \in Files |-> None]]
  /\ UNCHANGED content

Next ==
  \/ \E f \in Files : Change(f)
  \/ \E p \in Procs : \/ Begin(p) \/ Report(p) \/ Stop(p)
                      \/ \E f \in Files : LintNow(p, f)

Spec == Init /\ [][Next]_vars

=============================================================================
