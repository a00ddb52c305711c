---------------------------- MODULE NoqaComments ----------------------------
(***************************************************************************)
(* The `# noqa` comments of a file and the rule lists of the configuration *)
(* (src/rules/mod.rs, src/rules/knq00*.rs, RuleSelection of src/config.rs, *)
(* add_noqa of src/main.rs), as operators.                                 *)
(*                                                                         *)
(* A token is what users write where a code is expected: a code, a prefix  *)
(* of codes, a name that noqa-aliases maps to one, or a code of another    *)
(* tool.  StartsWith[t] are the codes that start with t, AliasOf[t] those  *)
(* that start with what t is an alias of.                                  *)
(***************************************************************************)
EXTENDS Naturals, FiniteSets

CONSTANTS
  Lines,       \* the lines of the file
  Codes,       \* the codes the linting rules report
  Tokens,      \* what is written in comments and in rule lists
  StartsWith,  \* StartsWith[t], AliasOf[t]: see above
  AliasOf,
  Exempt,      \* tokens whose comments need no reason (KNQ001's exempt-codes)
  NoComment    \* a line without a `# noqa` comment

KnqCodes == {"KNQ001", "KNQ002", "KNQ003"}
AllCodes == Codes \cup KnqCodes

ASSUME CodesAssumption == Codes \cap KnqCodes = {} /\ AllCodes \subseteq Tokens
ASSUME TokensAssumption ==
  /\ StartsWith \in [Tokens -> SUBSET AllCodes]
  /\ AliasOf \in [Tokens -> SUBSET AllCodes]
  /\ \A c \in AllCodes : c \in StartsWith[c]
ASSUME ExemptAssumption == Exempt \subseteq Tokens

-----------------------------------------------------------------------------
(* RuleSelection: the lists `select`, `extend-select` and `ignore`.        *)
Selection == [select : SUBSET Tokens, extend : SUBSET Tokens, ignore : SUBSET Tokens]

ExplicitlySelected(sel, code) == \E t \in sel.select \cup sel.extend : code \in StartsWith[t]

IsEnabled(sel, code) ==
  /\ sel.select = {} \/ ExplicitlySelected(sel, code)
  /\ ~\E t \in sel.ignore : code \in StartsWith[t]

(* An opt-in rule must be named.                                           *)
RunsRule(sel, code, optIn) ==
  IsEnabled(sel, code) /\ (optIn => ExplicitlySelected(sel, code))

-----------------------------------------------------------------------------
(* A comment is what parse_noqa makes of it: its tokens, or blanket; and   *)
(* its reason: none, one that says too little ("weak"), a good one glued   *)
(* to the directive, or a good one behind a `#` of its own.  Text that is  *)
(* no token is a reason, so a comment without both is a blanket one.       *)
Reasons == {"none", "weak", "glued", "good"}

Comment ==
  {c \in [codes : SUBSET Tokens, blanket : BOOLEAN, reason : Reasons] :
     /\ c.blanket => c.codes = {}
     /\ c.codes = {} /\ c.reason = "none" => c.blanket}

ASSUME NoCommentAssumption == NoComment \notin Comment

Covers(t) == StartsWith[t] \cup AliasOf[t]

HasNoqa(c, code) ==
  /\ c # NoComment
  /\ c.blanket \/ \E t \in c.codes : code \in Covers(t)

(* A slip: a reason that is given replaces the one that is there.          *)
MergeNoqaAnew(c, new, why) ==
  IF c = NoComment
  THEN IF new = {} THEN NoComment ELSE [codes |-> new, blanket |-> FALSE, reason |-> why]
  ELSE [codes   |-> IF c.blanket THEN {} ELSE c.codes \cup new,
        blanket |-> c.blanket,
        reason  |-> IF why # "none" THEN why ELSE c.reason]

(* merge_noqa: the comment of a line that gets the codes `new` and, if it  *)
(* has none, the reason `why` ("none" when the user gives none).           *)
MergeNoqa(c, new, why) ==
  IF c = NoComment
  THEN IF new = {} THEN NoComment ELSE [codes |-> new, blanket |-> FALSE, reason |-> why]
  ELSE [codes   |-> IF c.blanket THEN {} ELSE c.codes \cup new,
        blanket |-> c.blanket,
        reason  |-> IF c.reason = "none" THEN why ELSE c.reason]

-----------------------------------------------------------------------------
(* KNQ001: every comment says why, unless all its tokens are exempt.       *)
IsExempt(c) == c.codes # {} /\ \A t \in c.codes : t \in Exempt

LacksReason(c) == c # NoComment /\ ~IsExempt(c) /\ c.reason \in {"none", "weak"}

(* KNQ002: the reason is a comment of its own.  A comment that has text    *)
(* where tokens belong may be a mistyped code and is left alone.           *)
BadStyle(c) == c # NoComment /\ c.reason = "glued" /\ (c.blanket \/ c.codes # {})

Restyled(c) == IF BadStyle(c) THEN [c EXCEPT !.reason = "good"] ELSE c

(* KNQ003 judges tokens by an audit: audit.codes are the enabled codes,    *)
(* audit.violations what their rules report when they ignore comments.     *)
NamesKnq(codes) == codes # {} /\ codes \subseteq KnqCodes

IsUnused(t, line, audit) ==
  /\ ~NamesKnq(StartsWith[t]) /\ ~NamesKnq(AliasOf[t])
  /\ Covers(t) \cap audit.codes # {}
  /\ ~\E v \in audit.violations : v.line = line /\ v.code \in Covers(t)

Unused(c, line, audit) ==
  IF c = NoComment THEN {} ELSE {t \in c.codes : IsUnused(t, line, audit)}

(* Its fix removes them, and the whole directive with the last one.        *)
WithoutUnused(c, line, audit) ==
  LET unused == Unused(c, line, audit)
  IN  IF unused = {} THEN c
      ELSE IF unused = c.codes THEN NoComment
      ELSE [c EXCEPT !.codes = @ \ unused]

-----------------------------------------------------------------------------
(* add_noqa: the comments of a file annotated with the violations `seen`,  *)
(* given as sets of [code, line].  Lines in `takes` can take a comment.    *)
NewCodes(seen, line) == {v.code : v \in {w \in seen : w.line = line}} \ {"KNQ001", "KNQ002"}

(* A slip: a line that has a comment is passed over.                       *)
AnnotatedBare(comment, seen, why, takes) ==
  [l \in Lines |->
     IF l \in takes /\ NewCodes(seen, l) # {} /\ comment[l] = NoComment
     THEN MergeNoqa(comment[l], NewCodes(seen, l), why)
     ELSE comment[l]]

Annotated(comment, seen, why, takes) ==
  [l \in Lines |->
     IF /\ l \in takes
        /\ \/ NewCodes(seen, l) # {}
           \/ why # "none" /\ \E v \in seen : v.line = l /\ v.code = "KNQ001"
     THEN MergeNoqa(comment[l], NewCodes(seen, l), why)
     ELSE comment[l]]

=============================================================================
