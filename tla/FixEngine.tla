----------------------------- MODULE FixEngine ------------------------------
(***************************************************************************)
(* Linting, fixing and annotating one file: run_check and run_fix of       *)
(* src/engine.rs with the rules they drive, the fix pass and `--add-noqa`  *)
(* of src/main.rs, and the quick fix of the language server, while the     *)
(* user edits.                                                             *)
(*                                                                         *)
(* The text of a file is [faults, comment]: the places where a rule finds  *)
(* something when it ignores comments, and the `# noqa` comment of every   *)
(* line.  A fault x is reported with code CodeOf[x] on line LineOf[x]; a   *)
(* comment on one of the lines HeardAt[x] silences it.  Its fix removes    *)
(* it, brings up the faults Leads[x] and drops the comments on DropsAt[x]. *)
(***************************************************************************)
EXTENDS NoqaComments, SequencesExt

CONSTANTS
  Faults, CodeOf, LineOf, HeardAt, Leads, DropsAt,
  Fixable,     \* faults that have a fix
  UnsafeFix,   \* faults whose fix is unsafe
  Breaks,      \* faults whose fix leaves text that does not parse
  Outer,       \* Outer[x]: the faults whose edit overlaps that of x, before it
  KptCodes,    \* codes of the user's patterns, in their order
  KstCodes,    \* codes of the user's structural rules
  Takes,       \* lines that can take a comment
  Configs,     \* the configurations
  Texts,       \* texts the user may start with
  Whys,        \* arguments of --noqa-reason, "none" without it
  NoTarget,    \* no single violation is asked for
  MaxPasses,   \* MAX_FIX_PASSES
  EditPhases,  \* bound: the phases in which edits are explored
  MaxEvents    \* bound: number of commands and edits

ASSUME FaultsAssumption ==
  /\ CodeOf \in [Faults -> Codes] /\ LineOf \in [Faults -> Lines]
  /\ HeardAt \in [Faults -> SUBSET Lines] /\ DropsAt \in [Faults -> SUBSET Lines]
  /\ Leads \in [Faults -> SUBSET Faults] /\ Outer \in [Faults -> SUBSET Faults]
  /\ \A x \in Faults : LineOf[x] \in HeardAt[x]
\* of edits that overlap some one is the outermost
ASSUME OuterAssumption ==
  \A X \in SUBSET Faults : X # {} => \E x \in X : Outer[x] \cap X = {}
\* every code is of one rule, and KIS002 and structural rules have unsafe fixes
ASSUME RulesAssumption ==
  /\ KptCodes \in Seq(Codes)
  /\ Codes = {"KIS001", "KIS002"} \cup Range(KptCodes) \cup KstCodes
  /\ (Range(KptCodes) \cup {"KIS001", "KIS002"}) \cap KstCodes = {}
  /\ Range(KptCodes) \cap {"KIS001", "KIS002"} = {}
  /\ \A x \in Faults : /\ CodeOf[x] = "KIS002" => x \in UnsafeFix
                       /\ x \in UnsafeFix => CodeOf[x] \in KstCodes \cup {"KIS002"}
ASSUME BoundsAssumption ==
  /\ MaxPasses \in Nat \ {0} /\ MaxEvents \in Nat
  /\ "none" \in Whys /\ Whys \subseteq Reasons

VARIABLES
  text,     \* the file
  config,   \* its configuration
  phase,    \* what konform is doing with it
  opts,     \* with which options
  src,      \* run_fix: the text so far
  pass,     \* run_fix: number of the pass
  at,       \* run_fix: index of the next rule
  changed,  \* run_fix: pass_changed
  seen,     \* --add-noqa: the violations found
  touched,  \* has the user edited the file since konform read it?
  events    \* number of commands and edits so far

vars == <<text, config, phase, opts, src, pass, at, changed, seen, touched, events>>

-----------------------------------------------------------------------------
(* The rules, in the order of all_rules.                                   *)
Rules == <<"KIS001", "KIS002", "KNQ001", "KNQ002", "KNQ003", "KPT", "KST">>

RuleOf(code) ==
  IF code \in Range(KptCodes) THEN "KPT" ELSE IF code \in KstCodes THEN "KST" ELSE code

GatesPerViolation(r) == r \in {"KPT", "KST"}

(* active_rules: rules that emit several codes gate each code themselves.  *)
Active(r) == GatesPerViolation(r) \/ RunsRule(config.selection, r, r \in KnqCodes)

EnabledCodes ==
  {c \in Codes : IF GatesPerViolation(RuleOf(c)) THEN IsEnabled(config.selection, c)
                 ELSE Active(RuleOf(c))}

PerFileIgnored(code) == \E t \in config.perFile : code \in StartsWith[t]

CanFix(code) == IsEnabled(config.fixSelection, code)

-----------------------------------------------------------------------------
(* run_check on text T.                                                    *)
Silenced(x, T) == \E l \in HeardAt[x] : HasNoqa(T.comment[l], CodeOf[x])

Found(T) == {x \in T.faults : CodeOf[x] \in EnabledCodes}

Kept(found) == {x \in found : ~PerFileIgnored(CodeOf[x])}

ReportedFaults(T, ignoreNoqa) == Kept({x \in Found(T) : ignoreNoqa \/ ~Silenced(x, T)})

NoqaAudit(T) ==
  [codes      |-> EnabledCodes,
   violations |-> {[code |-> CodeOf[x], line |-> LineOf[x]] : x \in Kept(Found(T))}]

(* The suppression comments that rule r objects to, by line.               *)
KnqLines(r, T) ==
  {l \in Lines : CASE r = "KNQ001" -> LacksReason(T.comment[l])
                   [] r = "KNQ002" -> BadStyle(T.comment[l])
                   [] OTHER -> Unused(T.comment[l], l, NoqaAudit(T)) # {}}

KnqViolations(T) ==
  UNION {{[code |-> r, line |-> l] : l \in KnqLines(r, T)} :
           r \in {k \in KnqCodes : Active(k) /\ ~PerFileIgnored(k)}}

Violations(T, ignoreNoqa) ==
  {[code |-> CodeOf[x], line |-> LineOf[x]] : x \in ReportedFaults(T, ignoreNoqa)}
    \cup KnqViolations(T)

-----------------------------------------------------------------------------
(* Rule::fix of each rule on text T, with the options of the run.          *)
Wants(code, line) == opts.target = NoTarget \/ opts.target = [code |-> code, line |-> line]

Fixes(T, X) ==
  [faults  |-> (T.faults \ X) \cup UNION {Leads[x] : x \in X},
   comment |-> [l \in Lines |-> IF \E x \in X : l \in DropsAt[x] THEN NoComment
                                ELSE T.comment[l]]]

Heeded(x, T) == opts.ignoreNoqa \/ ~Silenced(x, T)

(* The faults in T that a rule's fix is for.                               *)
Fixed(r, T) ==
  {x \in T.faults : RuleOf(CodeOf[x]) = r /\ x \in Fixable /\ Wants(CodeOf[x], LineOf[x])}

(* KIS001 and KIS002: every fault at once.                                 *)
FixImports(r, T) == Fixes(T, {x \in Fixed(r, T) : Heeded(x, T)})

(* KPT: one pattern after the other, each on the text the one before left. *)
FixPattern(T, c) ==
  IF IsEnabled(config.selection, c) /\ CanFix(c)
  THEN Fixes(T, {x \in Fixed("KPT", T) : CodeOf[x] = c}) ELSE T

FixPatterns(T) ==
  LET after[i \in 0..Len(KptCodes)] == IF i = 0 THEN T ELSE FixPattern(after[i - 1], KptCodes[i])
  IN  after[Len(KptCodes)]

(* A slip: the edits are not held back for --unsafe-fixes.                 *)
FixStructureUnasked(T) ==
  LET X == {x \in Fixed("KST", T) :
              /\ IsEnabled(config.selection, CodeOf[x]) /\ CanFix(CodeOf[x])
              /\ Heeded(x, T)}
  IN  Fixes(T, {x \in X : Outer[x] \cap X = {}})

(* KST: in one traversal; of edits that overlap the outermost is applied.  *)
FixStructure(T) ==
  LET X == {x \in Fixed("KST", T) :
              /\ IsEnabled(config.selection, CodeOf[x]) /\ CanFix(CodeOf[x])
              /\ Heeded(x, T)
              /\ x \in UnsafeFix => opts.unsafe}
  IN  Fixes(T, {x \in X : Outer[x] \cap X = {}})

FixComments(r, T) ==
  [T EXCEPT !.comment = [l \in Lines |->
     IF ~Wants(r, l) THEN @[l]
     ELSE IF r = "KNQ002" THEN Restyled(@[l]) ELSE WithoutUnused(@[l], l, NoqaAudit(T))]]

FixBy(r, T) ==
  CASE r \in {"KIS001", "KIS002"} -> FixImports(r, T)
    [] r = "KNQ001" -> T
    [] r \in {"KNQ002", "KNQ003"} -> FixComments(r, T)
    [] r = "KPT" -> FixPatterns(T)
    [] OTHER -> FixStructure(T)

(* Does run_fix call the rule?  KIS002 is the rule whose fix is unsafe.    *)
Called(r) ==
  /\ Active(r)
  /\ r = "KIS002" => opts.unsafe
  /\ GatesPerViolation(r) \/ CanFix(r)

(* The result is rejected when it does not parse.                          *)
Rejected(r, T) == \E x \in T.faults \ FixBy(r, T).faults : x \in Breaks

-----------------------------------------------------------------------------
Options == [unsafe : BOOLEAN, ignoreNoqa : BOOLEAN, why : Whys,
            target : {NoTarget} \cup [code : AllCodes, line : Lines]]

NoText == [faults |-> {}, comment |-> [l \in Lines |-> NoComment]]

NoOptions == [unsafe |-> FALSE, ignoreNoqa |-> FALSE, why |-> "none", target |-> NoTarget]

Init ==
  /\ text \in Texts
  /\ config \in Configs
  /\ phase = "idle" /\ opts = NoOptions
  /\ src = NoText /\ pass = 0 /\ at = 0 /\ changed = FALSE
  /\ seen = {} /\ touched = FALSE /\ events = 0

(* The user edits the file; once while konform runs.                       *)
Edit ==
  /\ phase \in EditPhases /\ ~touched /\ events < MaxEvents
  /\ \E x \in Faults, l \in Takes :
       \/ text' = [text EXCEPT !.faults = @ \cup {x}]
       \/ text' = [text EXCEPT !.faults = @ \ {x}]
       \/ text' = [text EXCEPT !.comment[l] = NoComment]
  /\ touched' = (phase # "idle") /\ events' = events + 1
  /\ UNCHANGED <<config, phase, opts, src, pass, at, changed, seen>>

(* What the editor offers a quick fix for.                                 *)
QuickFixes ==
  {v \in Violations(text, FALSE) :
     /\ CanFix(v.code)
     /\ \/ v.code \in {"KNQ002", "KNQ003"}
        \/ \E x \in ReportedFaults(text, FALSE) \cap Fixable :
             CodeOf[x] = v.code /\ LineOf[x] = v.line}

(* run_fix starts, for `check --fix` or for a quick fix, which may be      *)
(* unsafe and aims at one violation.                                       *)
StartFix ==
  /\ phase = "idle" /\ events < MaxEvents
  /\ \/ \E u, i \in BOOLEAN :
          opts' = [NoOptions EXCEPT !.unsafe = u, !.ignoreNoqa = i]
     \/ \E v \in QuickFixes :
          opts' = [NoOptions EXCEPT !.unsafe = TRUE, !.target = v]
  /\ phase' = "fix"
  /\ src' = text /\ pass' = 1 /\ at' = 1 /\ changed' = FALSE /\ touched' = FALSE /\ events' = events + 1
  /\ UNCHANGED <<text, config, seen>>

(* A slip: pass_changed tells of the last rule only.                       *)
FixRuleForgets ==
  /\ phase = "fix"
  /\ at <= Len(Rules)
  /\ at' = at + 1
  /\ src' = IF Called(Rules[at]) /\ ~Rejected(Rules[at], src) THEN FixBy(Rules[at], src) ELSE src
  /\ changed' = (src' # src)
  /\ UNCHANGED <<text, config, phase, opts, pass, seen, touched, events>>

(* The next rule of the pass.                                              *)
FixRule ==
  /\ phase = "fix"
  /\ at <= Len(Rules)
  /\ at' = at + 1
  /\ LET r == Rules[at] IN
     src' = IF Called(r) /\ ~Rejected(r, src) THEN FixBy(r, src) ELSE src
  /\ changed' = (changed \/ src' # src)
  /\ UNCHANGED <<text, config, phase, opts, pass, seen, touched, events>>

PassLimit == IF opts.target = NoTarget THEN MaxPasses ELSE 1

(* A slip: the cap on the passes is missing.                               *)
EndPassUncapped ==
  /\ phase = "fix"
  /\ at = Len(Rules) + 1
  /\ IF changed
     THEN at' = 1 /\ changed' = FALSE /\ UNCHANGED <<phase, pass>>
     ELSE phase' = "fixed" /\ UNCHANGED <<pass, at, changed>>
  /\ UNCHANGED <<text, config, opts, src, seen, touched, events>>

EndPass ==
  /\ phase = "fix"
  /\ at = Len(Rules) + 1
  /\ IF changed /\ pass < PassLimit
     THEN phase' = "fix" /\ pass' = pass + 1 /\ at' = 1 /\ changed' = FALSE
     ELSE phase' = "fixed" /\ UNCHANGED <<pass, at, changed>>
  /\ UNCHANGED <<text, config, opts, src, seen, touched, events>>

(* What run_fix made of the file is written over it.                       *)
WriteFixed ==
  /\ phase = "fixed"
  /\ text' = src
  /\ phase' = "idle" /\ opts' = NoOptions /\ src' = NoText
  /\ pass' = 0 /\ at' = 0 /\ changed' = FALSE /\ touched' = FALSE
  /\ UNCHANGED <<config, seen, events>>

(* `check --add-noqa` lints, ...                                           *)
Lint ==
  /\ phase = "idle" /\ events < MaxEvents
  /\ \E i \in BOOLEAN, why \in Whys : opts' = [NoOptions EXCEPT !.ignoreNoqa = i, !.why = why]
  /\ seen' = Violations(text, opts'.ignoreNoqa)
  /\ phase' = "linted" /\ touched' = FALSE /\ events' = events + 1
  /\ UNCHANGED <<text, config, src, pass, at, changed>>

(* ... then reads the file again and annotates what it finds there.        *)
Annotate ==
  /\ phase = "linted"
  /\ text' = [text EXCEPT !.comment = Annotated(@, seen, opts.why, Takes)]
  /\ phase' = "annotated"
  /\ UNCHANGED <<config, opts, src, pass, at, changed, seen, touched, events>>

AnnotateDone ==
  /\ phase = "annotated"
  /\ phase' = "idle" /\ opts' = NoOptions /\ seen' = {} /\ touched' = FALSE
  /\ UNCHANGED <<text, config, src, pass, at, changed, events>>

RunFix   == StartFix \/ FixRule \/ EndPass \/ WriteFixed
AddNoqa  == Lint \/ Annotate \/ AnnotateDone

Next == Edit \/ RunFix \/ AddNoqa

(* A run that was started goes on.                                         *)
Spec == Init /\ [][Next]_vars /\ WF_vars(FixRule \/ EndPass \/ WriteFixed)

-----------------------------------------------------------------------------
Text == [faults : SUBSET Faults, comment : [Lines -> Comment \cup {NoComment}]]

ASSUME TextsAssumption == Texts \subseteq Text

(* All variables are of the program's types; in particular no rewriting    *)
(* makes a directive without codes and text, which would be a blanket one. *)
TypeOK ==
  /\ text \in Text /\ src \in Text
  /\ phase \in {"idle", "fix", "fixed", "linted", "annotated"}
  /\ opts \in Options
  /\ pass \in 0..MaxPasses /\ at \in 0..Len(Rules) + 1
  /\ changed \in BOOLEAN /\ touched \in BOOLEAN /\ events \in 0..MaxEvents
  /\ \A v \in seen : v.code \in AllCodes /\ v.line \in Lines

(* May a fix with these options apply to x?                                *)
Permitted(x) ==
  /\ x \in Fixable /\ CodeOf[x] \in EnabledCodes /\ CanFix(CodeOf[x])
  /\ x \in UnsafeFix => opts.unsafe

(* Patterns of the user may undo each other: run_fix compares the texts    *)
(* before and after a rule, so it does not see what one pattern of KPT did *)
(* and the next undid.  The fixes of each rule settle if of any faults of  *)
(* the rule one is not brought up by fixing another.                       *)
RulesSettle ==
  \A S \in SUBSET Faults :
    S # {} /\ (\A x, y \in S : RuleOf(CodeOf[x]) = RuleOf(CodeOf[y]))
      => \E x \in S : \A y \in S : x \notin Leads[y]

(* A run that ends before the pass limit leaves nothing undone: no         *)
(* violation that a check of the result would mark fixable and that the    *)
(* options permit to fix, and no suppression comment that KNQ002 or KNQ003 *)
(* would rewrite.  A rule whose result did not parse is the exception, and *)
(* so are rules whose fixes do not settle.                                 *)
ConvergedIsClean ==
  phase = "fixed" /\ opts.target = NoTarget /\ ~changed =>
    /\ \A x \in ReportedFaults(src, opts.ignoreNoqa) :
         Permitted(x) => Rejected(RuleOf(CodeOf[x]), src)
    /\ \A r \in {"KNQ002", "KNQ003"} : Active(r) /\ CanFix(r) => KnqLines(r, src) = {}

(* Three places decide what may be fixed: the engine for whole rules, KPT  *)
(* and KST for each of their codes.  Together they let no step remove a    *)
(* fault that is not enabled, not fixable or unsafe without consent, one   *)
(* that a comment silences (unless KPT removes it), or, in a quick fix,    *)
(* one that is not the target.                                             *)
FixesOnlyPermitted ==
  [][FixRule => \A x \in src.faults \ src'.faults :
       /\ Permitted(x)
       /\ Wants(CodeOf[x], LineOf[x])
       /\ ~opts.ignoreNoqa /\ RuleOf(CodeOf[x]) # "KPT" => ~Silenced(x, src)]_vars

(* "The cap is a pure safety guard against a fix that oscillates for       *)
(* ever": every run comes to an end.                                       *)
FixEnds == phase = "fix" ~> phase = "idle"

(* After `--add-noqa` a check of the file reports none of its violations   *)
(* any more but those on lines that cannot take a comment, and a second    *)
(* `--add-noqa` has nothing to add.                                        *)
AddNoqaSilences ==
  phase = "annotated" /\ ~touched =>
    /\ \A x \in ReportedFaults(text, FALSE) : LineOf[x] \notin Takes
    /\ Annotated(text.comment, Violations(text, opts.ignoreNoqa), opts.why, Takes) = text.comment

(* Annotating never takes away what a comment does: whatever it silenced   *)
(* stays silenced, and "an existing reason is never overwritten".          *)
AnnotateKeeps ==
  [][Annotate => \A l \in Lines : text.comment[l] # NoComment =>
       /\ \A c \in Codes : HasNoqa(text.comment[l], c) => HasNoqa(text'.comment[l], c)
       /\ text.comment[l].reason # "none" => text'.comment[l].reason = text.comment[l].reason]_vars

=============================================================================
