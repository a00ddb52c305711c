--------------------------- MODULE FixEngine_proofs ---------------------------
(***************************************************************************)
(* Proofs about FixEngine: what fixes may remove and when they are done,   *)
(* and what --add-noqa silences, for any rules, texts and configurations.  *)
(***************************************************************************)
EXTENDS FixEngine, NaturalsInduction, WellFoundedInduction, TLAPS

-----------------------------------------------------------------------------
(* Induction over the natural numbers, for a set.                          *)
LEMMA FromZero ==
  ASSUME NEW S, 0 \in S, \A i \in Nat : i \in S => i + 1 \in S
  PROVE  Nat \subseteq S
<1> DEFINE T == Nat \ S
<1> SUFFICES ASSUME T # {} PROVE FALSE
  OBVIOUS
<1>1. PICK m \in T : \A k \in T : ~(<<k, m>> \in OpToRel(<, Nat))
  BY WFMin, NatLessThanWellFounded
<1>2. m # 0 /\ m - 1 \in Nat /\ (m - 1) + 1 = m
  OBVIOUS
<1>3. <<m - 1, m>> \in OpToRel(<, Nat)
  BY <1>2 DEF OpToRel
<1>4. m - 1 \in S
  BY <1>1, <1>2, <1>3
<1> QED BY <1>2, <1>4

(* What is true somewhere, and before each place where it is true, is true *)
(* at the start.                                                           *)
LEMMA ToZero ==
  ASSUME NEW S, NEW k \in Nat, k \in S, \A i \in 1..k : i \in S => i - 1 \in S
  PROVE  \A i \in 0..k : i \in S
<1> DEFINE D == {j \in Nat : j <= k => k - j \in S}
<1>1. 0 \in D
  OBVIOUS
<1>2. ASSUME NEW j \in Nat, j \in D PROVE j + 1 \in D
  <2> SUFFICES ASSUME j + 1 <= k PROVE k - (j + 1) \in S
    OBVIOUS
  <2>1. k - j \in 1..k /\ k - j \in S /\ (k - j) - 1 = k - (j + 1)
    BY <1>2
  <2> QED BY <2>1
<1> HIDE DEF D
<1>3. Nat \subseteq D
  BY <1>1, <1>2, FromZero
<1>4. ASSUME NEW i \in 0..k PROVE i \in S
  <2>1. k - i \in D /\ k - i \in Nat /\ k - i <= k /\ k - (k - i) = i
    BY <1>3
  <2> QED BY <2>1 DEF D
<1> QED BY <1>4

-----------------------------------------------------------------------------
(* Comments.                                                               *)
MaybeComment == Comment \cup {NoComment}

(* What KNQ002 and KNQ003 leave of a comment is one, and if it is the same *)
(* there was nothing to do.                                                *)
LEMMA RewrittenComment ==
  ASSUME NEW c \in MaybeComment, NEW l, NEW audit
  PROVE  /\ Restyled(c) \in MaybeComment /\ WithoutUnused(c, l, audit) \in MaybeComment
         /\ Restyled(c) = c => ~BadStyle(c)
         /\ WithoutUnused(c, l, audit) = c => Unused(c, l, audit) = {}
<1>1. CASE c = NoComment
  BY <1>1 DEF Restyled, BadStyle, WithoutUnused, Unused, MaybeComment
<1>2. CASE c # NoComment
  <2>1. /\ c \in [codes : SUBSET Tokens, blanket : BOOLEAN, reason : Reasons]
        /\ c.blanket => c.codes = {}
        /\ c.codes = {} /\ c.reason = "none" => c.blanket
    BY <1>2 DEF MaybeComment, Comment
  <2>2. Restyled(c) \in MaybeComment /\ (Restyled(c) = c => ~BadStyle(c))
    <3>1. CASE BadStyle(c)
      <4>1. Restyled(c) = [c EXCEPT !.reason = "good"] /\ c.reason = "glued"
        BY <3>1 DEF Restyled, BadStyle
      <4>2. Restyled(c) \in Comment /\ Restyled(c).reason = "good"
        BY <2>1, <4>1 DEF Comment, Reasons
      <4> QED BY <4>1, <4>2 DEF MaybeComment
    <3> QED BY <3>1 DEF Restyled
  <2>3. WithoutUnused(c, l, audit) \in MaybeComment
        /\ (WithoutUnused(c, l, audit) = c => Unused(c, l, audit) = {})
    <3> DEFINE u == Unused(c, l, audit)
    <3>1. u \subseteq c.codes
      BY <1>2 DEF Unused
    <3> HIDE DEF u
    <3>2. CASE u = {}
      BY <3>2 DEF WithoutUnused, u
    <3>3. CASE u # {} /\ u = c.codes
      BY <1>2, <3>3 DEF WithoutUnused, u, MaybeComment
    <3>4. CASE u # {} /\ u # c.codes
      <4>1. WithoutUnused(c, l, audit) = [c EXCEPT !.codes = c.codes \ u]
        BY <3>4 DEF WithoutUnused, u
      <4>2. /\ WithoutUnused(c, l, audit) \in Comment
            /\ WithoutUnused(c, l, audit).codes = c.codes \ u
        BY <2>1, <3>1, <3>4, <4>1 DEF Comment
      <4>3. c.codes \ u # c.codes
        BY <3>1, <3>4
      <4> QED BY <4>2, <4>3 DEF MaybeComment
    <3> QED BY <3>2, <3>3, <3>4
  <2> QED BY <2>2, <2>3
<1> QED BY <1>1, <1>2

(* A comment that codes are merged into silences them and what it did.     *)
Merges(c, new, why, d) ==
  /\ d \in MaybeComment
  /\ \A code : HasNoqa(c, code) => HasNoqa(d, code)
  /\ \A code \in new : HasNoqa(d, code)
  /\ c # NoComment =>
       /\ d # NoComment
       /\ d.blanket = c.blanket
       /\ d.codes = IF c.blanket THEN {} ELSE c.codes \cup new
       /\ d.reason = IF c.reason = "none" THEN why ELSE c.reason
  /\ c = NoComment /\ new = {} => d = NoComment
  /\ c = NoComment /\ new # {} =>
       d # NoComment /\ d.blanket = FALSE /\ d.codes = new /\ d.reason = why

LEMMA MergedComment ==
  ASSUME NEW c \in MaybeComment, NEW new \in SUBSET AllCodes, NEW why \in Reasons
  PROVE  Merges(c, new, why, MergeNoqa(c, new, why))
<1> DEFINE d == MergeNoqa(c, new, why)
<1>0. new \subseteq Tokens /\ \A code \in new : code \in Covers(code)
  BY CodesAssumption, TokensAssumption DEF Covers
<1>1. CASE c = NoComment /\ new = {}
  BY <1>1 DEF Merges, MergeNoqa, MaybeComment, HasNoqa
<1>2. CASE c = NoComment /\ new # {}
  <2>1. d = [codes |-> new, blanket |-> FALSE, reason |-> why]
    BY <1>2 DEF MergeNoqa
  <2>2. d \in Comment
    BY <1>0, <1>2, <2>1 DEF Comment
  <2>3. d # NoComment
    BY <2>2, NoCommentAssumption
  <2> HIDE DEF d
  <2>4. \A code \in new : HasNoqa(d, code)
    BY <1>0, <2>1, <2>3 DEF HasNoqa
  <2>5. \A code : ~HasNoqa(c, code)
    BY <1>2 DEF HasNoqa
  <2>6. d.blanket = FALSE /\ d.codes = new /\ d.reason = why
    BY <2>1
  <2>7. d \in MaybeComment
    BY <2>2 DEF MaybeComment
  <2> QED BY <1>2, <2>3, <2>4, <2>5, <2>6, <2>7 DEF Merges, d
<1>3. CASE c # NoComment
  <2>1. /\ c \in [codes : SUBSET Tokens, blanket : BOOLEAN, reason : Reasons]
        /\ c.blanket => c.codes = {}
        /\ c.codes = {} /\ c.reason = "none" => c.blanket
    BY <1>3 DEF MaybeComment, Comment
  <2>2. d = [codes |-> IF c.blanket THEN {} ELSE c.codes \cup new, blanket |-> c.blanket,
             reason |-> IF c.reason = "none" THEN why ELSE c.reason]
    BY <1>3 DEF MergeNoqa
  <2>3. d \in Comment
    BY <1>0, <2>1, <2>2 DEF Comment
  <2>4. d # NoComment
    BY <2>3, NoCommentAssumption
  <2> HIDE DEF d
  <2>5. d.blanket = c.blanket /\ (~c.blanket => d.codes = c.codes \cup new)
    BY <2>2
  <2>6. \A code \in new : HasNoqa(d, code)
    BY <1>0, <2>4, <2>5 DEF HasNoqa
  <2>7. \A code : HasNoqa(c, code) => HasNoqa(d, code)
    BY <2>4, <2>5 DEF HasNoqa
  <2>8. d.codes = (IF c.blanket THEN {} ELSE c.codes \cup new)
        /\ d.reason = (IF c.reason = "none" THEN why ELSE c.reason)
    BY <2>2
  <2>9. d \in MaybeComment
    BY <2>3 DEF MaybeComment
  <2> QED BY <1>3, <2>4, <2>5, <2>6, <2>7, <2>8, <2>9 DEF Merges, d
<1> QED BY <1>1, <1>2, <1>3

-----------------------------------------------------------------------------
(* Texts.                                                                  *)
LEMMA TextParts ==
  ASSUME NEW T \in Text
  PROVE  /\ T.faults \in SUBSET Faults /\ \A l \in Lines : T.comment[l] \in MaybeComment
         /\ T.comment \in [Lines -> MaybeComment]
         /\ T = [faults |-> T.faults, comment |-> T.comment]
BY DEF Text, MaybeComment

LEMMA FixesType ==
  ASSUME NEW T \in Text, NEW X \in SUBSET Faults
  PROVE  /\ Fixes(T, X) \in Text
         /\ Fixes(T, X).faults = (T.faults \ X) \cup UNION {Leads[x] : x \in X}
<1>1. UNION {Leads[x] : x \in X} \subseteq Faults
  BY FaultsAssumption
<1>2. [l \in Lines |-> IF \E x \in X : l \in DropsAt[x] THEN NoComment ELSE T.comment[l]]
        \in [Lines -> MaybeComment]
  BY TextParts DEF MaybeComment
<1> QED BY <1>1, <1>2, TextParts DEF Fixes, Text, MaybeComment

LEMMA FixCommentsType ==
  ASSUME NEW T \in Text, NEW r
  PROVE  /\ FixComments(r, T) \in Text /\ FixComments(r, T).faults = T.faults
         /\ \A l \in Lines : Wants(r, l) =>
              FixComments(r, T).comment[l] =
                IF r = "KNQ002" THEN Restyled(T.comment[l])
                ELSE WithoutUnused(T.comment[l], l, NoqaAudit(T))
<1> DEFINE f == [l \in Lines |->
                   IF ~Wants(r, l) THEN T.comment[l]
                   ELSE IF r = "KNQ002" THEN Restyled(T.comment[l])
                   ELSE WithoutUnused(T.comment[l], l, NoqaAudit(T))]
<1>1. FixComments(r, T) = [T EXCEPT !.comment = f]
  BY DEF FixComments
<1>2. \A l \in Lines : Restyled(T.comment[l]) \in MaybeComment
                       /\ WithoutUnused(T.comment[l], l, NoqaAudit(T)) \in MaybeComment
  BY TextParts, RewrittenComment
<1>3. f \in [Lines -> MaybeComment]
  BY <1>2, TextParts
<1>4. \A l \in Lines : Wants(r, l) =>
        f[l] = IF r = "KNQ002" THEN Restyled(T.comment[l])
               ELSE WithoutUnused(T.comment[l], l, NoqaAudit(T))
  OBVIOUS
<1> HIDE DEF f
<1>5. FixComments(r, T) = [faults |-> T.faults, comment |-> f]
  BY <1>1, TextParts
<1>6. FixComments(r, T) \in Text
  BY <1>3, <1>5, TextParts DEF Text, MaybeComment
<1>7. FixComments(r, T).faults = T.faults /\ FixComments(r, T).comment = f
  BY <1>5
<1> QED BY <1>4, <1>6, <1>7

LEMMA ViolationsType ==
  ASSUME NEW T \in Text, NEW i
  PROVE  /\ Violations(T, i) \subseteq [code : AllCodes, line : Lines]
         /\ \A v \in Violations(T, i) : v.code \in AllCodes /\ v.line \in Lines
<1>1. ASSUME NEW v \in {[code |-> CodeOf[x], line |-> LineOf[x]] : x \in ReportedFaults(T, i)}
      PROVE  v \in [code : AllCodes, line : Lines]
  <2>1. PICK x \in ReportedFaults(T, i) : v = [code |-> CodeOf[x], line |-> LineOf[x]]
    BY <1>1
  <2>2. x \in Faults
    BY TextParts DEF ReportedFaults, Kept, Found
  <2>3. CodeOf[x] \in Codes /\ LineOf[x] \in Lines
    BY <2>2, FaultsAssumption
  <2> QED BY <2>1, <2>3 DEF AllCodes
<1>2. ASSUME NEW v \in KnqViolations(T) PROVE v \in [code : AllCodes, line : Lines]
  <2>1. PICK r \in KnqCodes, l \in Lines : v = [code |-> r, line |-> l]
    BY <1>2 DEF KnqViolations, KnqLines
  <2> QED BY <2>1 DEF AllCodes
<1> QED BY <1>1, <1>2 DEF Violations

LEMMA AnnotatedType ==
  ASSUME NEW T \in Text, NEW why \in Reasons,
         NEW found, \A v \in found : v.code \in AllCodes
  PROVE  [T EXCEPT !.comment = Annotated(@, found, why, Takes)] \in Text
<1>1. \A l : NewCodes(found, l) \in SUBSET AllCodes
  BY DEF NewCodes
<1>2. \A l \in Lines : MergeNoqa(T.comment[l], NewCodes(found, l), why) \in MaybeComment
  <2> SUFFICES ASSUME NEW l \in Lines
               PROVE  MergeNoqa(T.comment[l], NewCodes(found, l), why) \in MaybeComment
    OBVIOUS
  <2> DEFINE c == T.comment[l]
             new == NewCodes(found, l)
  <2>1. c \in MaybeComment /\ new \in SUBSET AllCodes
    BY <1>1, TextParts
  <2> HIDE DEF c, new
  <2>2. MergeNoqa(c, new, why) \in MaybeComment
    BY <2>1, MergedComment DEF Merges
  <2> QED BY <2>2 DEF c, new
<1>3. Annotated(T.comment, found, why, Takes) \in [Lines -> MaybeComment]
  <2> DEFINE merged == [l \in Lines |-> MergeNoqa(T.comment[l], NewCodes(found, l), why)]
             gets == {l \in Lines : /\ l \in Takes
                                    /\ \/ NewCodes(found, l) # {}
                                       \/ why # "none" /\ \E v \in found : v.line = l /\ v.code = "KNQ001"}
  <2>1. merged \in [Lines -> MaybeComment]
    BY <1>2
  <2>2. Annotated(T.comment, found, why, Takes)
          = [l \in Lines |-> IF l \in gets THEN merged[l] ELSE T.comment[l]]
    BY DEF Annotated
  <2> HIDE DEF merged, gets
  <2> QED BY <2>1, <2>2, TextParts
<1> DEFINE f == Annotated(T.comment, found, why, Takes)
<1> HIDE DEF f
<1>4. [T EXCEPT !.comment = f] = [faults |-> T.faults, comment |-> f]
  BY TextParts
<1>5. [T EXCEPT !.comment = f] \in Text
  BY <1>3, <1>4, TextParts DEF Text, MaybeComment, f
<1> QED BY <1>5 DEF f

-----------------------------------------------------------------------------
(* The texts that the patterns leave one after the other.                  *)
PatternsFrom(T, after) ==
  /\ after[0] = T
  /\ \A i \in 1..Len(KptCodes) : after[i] = FixPattern(after[i - 1], KptCodes[i])

LEMMA KptLength == Len(KptCodes) \in Nat /\ \A i \in 1..Len(KptCodes) : KptCodes[i] \in Codes
BY RulesAssumption

LEMMA PatternType ==
  ASSUME NEW T \in Text, NEW c
  PROVE  /\ FixPattern(T, c) \in Text
         /\ \A x \in T.faults \ FixPattern(T, c).faults :
              /\ IsEnabled(config.selection, c) /\ CanFix(c)
              /\ x \in Fixed("KPT", T) /\ CodeOf[x] = c
<1> DEFINE X == {x \in Fixed("KPT", T) : CodeOf[x] = c}
<1>1. X \in SUBSET Faults
  BY TextParts DEF Fixed
<1>2. Fixes(T, X) \in Text /\ Fixes(T, X).faults = (T.faults \ X) \cup UNION {Leads[x] : x \in X}
  BY <1>1, FixesType
<1>3. FixPattern(T, c) = IF IsEnabled(config.selection, c) /\ CanFix(c) THEN Fixes(T, X) ELSE T
  BY DEF FixPattern
<1>4. \A x \in T.faults \ Fixes(T, X).faults : x \in X
  BY <1>2
<1> HIDE DEF X
<1>5. \A x \in X : x \in Fixed("KPT", T) /\ CodeOf[x] = c
  BY DEF X
<1> QED BY <1>2, <1>3, <1>4, <1>5

LEMMA PatternsExist ==
  ASSUME NEW T \in Text
  PROVE  \E after \in [0..Len(KptCodes) -> Text] : PatternsFrom(T, after)
<1> DEFINE n == Len(KptCodes)
           UpTo(g, k) == /\ g[0] = T
                         /\ \A i \in 1..k : g[i] = FixPattern(g[i - 1], KptCodes[i])
           S == {k \in Nat : k <= n => \E g \in [0..n -> Text] : UpTo(g, k)}
<1>0. n \in Nat
  BY KptLength
<1> HIDE DEF n
<1>1. 0 \in S
  <2> DEFINE g == [i \in 0..n |-> T]
  <2>1. g \in [0..n -> Text] /\ UpTo(g, 0)
    BY <1>0
  <2> QED BY <2>1
<1>2. ASSUME NEW k \in Nat, k \in S PROVE k + 1 \in S
  <2> SUFFICES ASSUME k + 1 <= n PROVE \E g \in [0..n -> Text] : UpTo(g, k + 1)
    OBVIOUS
  <2>1. k <= n
    BY <1>0
  <2>2. PICK g \in [0..n -> Text] : UpTo(g, k)
    BY <1>2, <2>1
  <2> DEFINE new == FixPattern(g[k], KptCodes[k + 1])
             h == [g EXCEPT ![k + 1] = new]
  <2>3. new \in Text
    BY <1>0, <2>1, PatternType
  <2> HIDE DEF new
  <2>4. h \in [0..n -> Text] /\ h[0] = T /\ h[k + 1] = new /\ \A i \in 1..k : h[i] = g[i]
    BY <1>0, <2>2, <2>3
  <2>5. \A i \in 0..k : h[i] = g[i]
    BY <1>0, <2>2, <2>4
  <2> HIDE DEF h
  <2>6. \A i \in 1..k : h[i] = FixPattern(h[i - 1], KptCodes[i])
    <3> SUFFICES ASSUME NEW i \in 1..k PROVE h[i] = FixPattern(h[i - 1], KptCodes[i])
      OBVIOUS
    <3>1. i - 1 \in 0..k /\ i \in 0..k
      OBVIOUS
    <3> QED BY <2>2, <2>5, <3>1
  <2>7. h[k + 1] = FixPattern(h[(k + 1) - 1], KptCodes[k + 1])
    <3>1. (k + 1) - 1 = k /\ h[k] = g[k]
      BY <2>5
    <3> QED BY <2>4, <3>1 DEF new
  <2>8. \A i \in 1..(k + 1) : i \in 1..k \/ i = k + 1
    OBVIOUS
  <2>9. UpTo(h, k + 1)
    BY <2>4, <2>6, <2>7, <2>8
  <2> QED BY <2>4, <2>9
<1>3. n \in S
  <2> HIDE DEF S
  <2> QED BY <1>0, <1>1, <1>2, FromZero
<1>4. PICK g \in [0..n -> Text] : UpTo(g, n)
  BY <1>0, <1>3
<1> QED BY <1>4 DEF PatternsFrom, n

LEMMA PatternsFacts ==
  ASSUME NEW T \in Text
  PROVE  \E after \in [0..Len(KptCodes) -> Text] :
           PatternsFrom(T, after) /\ FixPatterns(T) = after[Len(KptCodes)]
<1> DEFINE n == Len(KptCodes)
           Step(g) == [i \in 0..n |-> IF i = 0 THEN T ELSE FixPattern(g[i - 1], KptCodes[i])]
           a == CHOOSE g : g = Step(g)
<1>0. n \in Nat
  BY KptLength
<1>1. PICK g \in [0..n -> Text] : PatternsFrom(T, g)
  BY PatternsExist
<1>2. g = Step(g)
  <2>1. \A i \in 0..n : g[i] = Step(g)[i]
    <3> SUFFICES ASSUME NEW i \in 0..n PROVE g[i] = Step(g)[i]
      OBVIOUS
    <3>1. i = 0 \/ i \in 1..n
      BY <1>0
    <3> QED BY <1>1, <3>1 DEF PatternsFrom
  <2> QED BY <2>1
<1>3. a = Step(a)
  <2> HIDE DEF Step
  <2> QED BY <1>2
<1>4. FixPatterns(T) = a[n]
  BY DEF FixPatterns
<1> HIDE DEF a
<1>5. a[0] = T /\ \A i \in 1..n : a[i] = FixPattern(a[i - 1], KptCodes[i])
  BY <1>0, <1>3
<1>6. \A i \in 0..n : a[i] \in Text
  <2> DEFINE S == {i \in Nat : i <= n => a[i] \in Text}
  <2>1. 0 \in S
    BY <1>5
  <2>2. ASSUME NEW i \in Nat, i \in S PROVE i + 1 \in S
    <3> SUFFICES ASSUME i + 1 <= n PROVE a[i + 1] \in Text
      OBVIOUS
    <3>1. a[i] \in Text /\ i + 1 \in 1..n /\ (i + 1) - 1 = i
      BY <1>0, <2>2
    <3>2. a[i + 1] = FixPattern(a[i], KptCodes[i + 1])
      BY <1>5, <3>1
    <3> QED BY <3>1, <3>2, PatternType
  <2> HIDE DEF S
  <2>3. Nat \subseteq S
    BY <2>1, <2>2, FromZero
  <2> QED BY <1>0, <2>3 DEF S
<1>7. a \in [0..n -> Text]
  BY <1>3, <1>6
<1> QED BY <1>4, <1>5, <1>7 DEF PatternsFrom

LEMMA PatternsType ==
  ASSUME NEW T \in Text
  PROVE  FixPatterns(T) \in Text
BY PatternsFacts, KptLength

(* What the patterns remove is of one that is enabled and may be fixed.    *)
Picked(x) ==
  /\ x \in Fixable /\ RuleOf(CodeOf[x]) = "KPT" /\ Wants(CodeOf[x], LineOf[x])
  /\ IsEnabled(config.selection, CodeOf[x]) /\ CanFix(CodeOf[x])

LEMMA PatternPicks ==
  ASSUME NEW T \in Text, NEW c
  PROVE  \A x \in T.faults \ FixPattern(T, c).faults : Picked(x)
BY PatternType DEF Picked, Fixed

LEMMA PatternsPick ==
  ASSUME NEW T \in Text
  PROVE  \A x \in T.faults \ FixPatterns(T).faults : Picked(x)
<1> DEFINE n == Len(KptCodes)
<1>0. n \in Nat
  BY KptLength
<1>1. PICK a \in [0..n -> Text] : PatternsFrom(T, a) /\ FixPatterns(T) = a[n]
  BY PatternsFacts
<1> DEFINE S == {i \in Nat : i <= n => \A x \in T.faults \ a[i].faults : Picked(x)}
<1>2. 0 \in S
  BY <1>1 DEF PatternsFrom
<1>3. ASSUME NEW i \in Nat, i \in S PROVE i + 1 \in S
  <2> SUFFICES ASSUME i + 1 <= n, NEW x \in T.faults \ a[i + 1].faults PROVE Picked(x)
    OBVIOUS
  <2>1. a[i] \in Text /\ i + 1 \in 1..n /\ (i + 1) - 1 = i
    BY <1>0, <1>1
  <2>2. a[i + 1] = FixPattern(a[i], KptCodes[i + 1])
    BY <1>1, <2>1 DEF PatternsFrom
  <2>3. CASE x \in a[i].faults
    BY <2>1, <2>2, <2>3, PatternPicks
  <2>4. CASE x \notin a[i].faults
    BY <1>0, <1>3, <2>1, <2>4
  <2> QED BY <2>3, <2>4
<1>4. n \in S
  <2> HIDE DEF S
  <2> QED BY <1>0, <1>2, <1>3, FromZero
<1> QED BY <1>0, <1>1, <1>4

-----------------------------------------------------------------------------
(* The fixes of the other rules.                                           *)
ImportFaults(r, T) == {x \in Fixed(r, T) : Heeded(x, T)}

StructureFaults(T) ==
  {x \in Fixed("KST", T) :
     /\ IsEnabled(config.selection, CodeOf[x]) /\ CanFix(CodeOf[x])
     /\ Heeded(x, T)
     /\ x \in UnsafeFix => opts.unsafe}

Outermost(X) == {x \in X : Outer[x] \cap X = {}}

LEMMA ImportsAndStructure ==
  ASSUME NEW T \in Text, NEW r
  PROVE  /\ ImportFaults(r, T) \in SUBSET Faults /\ Outermost(StructureFaults(T)) \in SUBSET Faults
         /\ FixImports(r, T) = Fixes(T, ImportFaults(r, T))
         /\ FixStructure(T) = Fixes(T, Outermost(StructureFaults(T)))
         /\ Outermost(StructureFaults(T)) = {} => StructureFaults(T) = {}
<1>1. T.faults \in SUBSET Faults
  BY TextParts
<1>2. ImportFaults(r, T) \in SUBSET Faults /\ FixImports(r, T) = Fixes(T, ImportFaults(r, T))
  BY <1>1 DEF ImportFaults, FixImports, Fixed
<1>3. StructureFaults(T) \in SUBSET Faults
  BY <1>1 DEF StructureFaults, Fixed
<1>4. FixStructure(T) = Fixes(T, Outermost(StructureFaults(T)))
  BY DEF FixStructure, StructureFaults, Outermost
<1>5. \A X \in SUBSET Faults : Outermost(X) \in SUBSET Faults /\ (Outermost(X) = {} => X = {})
  BY OuterAssumption DEF Outermost
<1> QED BY <1>2, <1>3, <1>4, <1>5

RuleNames == {"KIS001", "KIS002", "KNQ001", "KNQ002", "KNQ003", "KPT", "KST"}

LEMMA RulesAre ==
  /\ Len(Rules) = 7
  /\ \A k \in 1..7 : Rules[k] \in RuleNames
  /\ \A r \in RuleNames : \E k \in 1..7 : Rules[k] = r
<1>1. /\ Rules[1] = "KIS001" /\ Rules[2] = "KIS002" /\ Rules[3] = "KNQ001" /\ Rules[4] = "KNQ002"
      /\ Rules[5] = "KNQ003" /\ Rules[6] = "KPT" /\ Rules[7] = "KST"
  BY DEF Rules
<1>2. \A k \in 1..7 : k = 1 \/ k = 2 \/ k = 3 \/ k = 4 \/ k = 5 \/ k = 6 \/ k = 7
  OBVIOUS
<1>3. 1 \in 1..7 /\ 2 \in 1..7 /\ 3 \in 1..7 /\ 4 \in 1..7 /\ 5 \in 1..7 /\ 6 \in 1..7 /\ 7 \in 1..7
  OBVIOUS
<1>4. Len(Rules) = 7
  BY DEF Rules
<1> QED BY <1>1, <1>2, <1>3, <1>4 DEF RuleNames

LEMMA FixByType ==
  ASSUME NEW T \in Text, NEW r \in RuleNames
  PROVE  FixBy(r, T) \in Text
<1>1. FixImports(r, T) \in Text /\ FixStructure(T) \in Text
  BY ImportsAndStructure, FixesType
<1>2. FixPatterns(T) \in Text
  BY PatternsType
<1>3. FixComments(r, T) \in Text
  BY FixCommentsType
<1> QED BY <1>1, <1>2, <1>3 DEF FixBy, RuleNames

(* The rule of a code.                                                     *)
LEMMA CodeRules ==
  ASSUME NEW x \in Faults
  PROVE  /\ RuleOf(CodeOf[x]) \in {"KIS001", "KIS002", "KPT", "KST"}
         /\ ~GatesPerViolation(RuleOf(CodeOf[x])) =>
              RuleOf(CodeOf[x]) = CodeOf[x] /\ CodeOf[x] \in {"KIS001", "KIS002"}
         /\ RuleOf(CodeOf[x]) = "KPT" => x \notin UnsafeFix /\ CodeOf[x] \in Range(KptCodes)
         /\ CodeOf[x] \in EnabledCodes <=>
              IF GatesPerViolation(RuleOf(CodeOf[x])) THEN IsEnabled(config.selection, CodeOf[x])
              ELSE Active(RuleOf(CodeOf[x]))
         /\ x \in UnsafeFix /\ RuleOf(CodeOf[x]) # "KST" => CodeOf[x] = "KIS002"
<1> DEFINE c == CodeOf[x]
<1>1. /\ c \in Codes
      /\ c = "KIS002" => x \in UnsafeFix
      /\ x \in UnsafeFix => c \in KstCodes \cup {"KIS002"}
  BY FaultsAssumption, RulesAssumption
<1> HIDE DEF c
<1>2. c \in {"KIS001", "KIS002"} \/ c \in Range(KptCodes) \/ c \in KstCodes
  BY <1>1, RulesAssumption
<1>3. (c \in Range(KptCodes) => c \notin KstCodes /\ c \notin {"KIS001", "KIS002"})
      /\ (c \in {"KIS001", "KIS002"} => c \notin KstCodes)
  BY RulesAssumption
<1>4. RuleOf(c) = IF c \in Range(KptCodes) THEN "KPT" ELSE IF c \in KstCodes THEN "KST" ELSE c
  BY DEF RuleOf
<1>5. /\ RuleOf(c) \in {"KIS001", "KIS002", "KPT", "KST"}
      /\ RuleOf(c) \notin {"KPT", "KST"} => RuleOf(c) = c /\ c \in {"KIS001", "KIS002"}
      /\ RuleOf(c) = "KPT" => x \notin UnsafeFix /\ c \in Range(KptCodes)
      /\ x \in UnsafeFix /\ RuleOf(c) # "KST" => c = "KIS002"
  BY <1>1, <1>2, <1>3, <1>4
<1>6. c \in EnabledCodes <=>
        IF GatesPerViolation(RuleOf(c)) THEN IsEnabled(config.selection, c) ELSE Active(RuleOf(c))
  BY <1>1 DEF EnabledCodes
<1> QED BY <1>5, <1>6 DEF GatesPerViolation, c

(* A rule that run_fix calls removes what the options permit.              *)
LEMMA FixByPermitted ==
  ASSUME NEW T \in Text, NEW r \in RuleNames, Called(r),
         NEW x \in T.faults \ FixBy(r, T).faults
  PROVE  /\ Permitted(x) /\ Wants(CodeOf[x], LineOf[x])
         /\ ~opts.ignoreNoqa /\ RuleOf(CodeOf[x]) # "KPT" => ~Silenced(x, T)
<1>0. x \in Faults
  BY TextParts
<1>1. CASE r \in {"KIS001", "KIS002"}
  <2>1. FixBy(r, T) = Fixes(T, ImportFaults(r, T))
    BY <1>1, ImportsAndStructure DEF FixBy
  <2>2. x \in ImportFaults(r, T)
    BY <2>1, ImportsAndStructure, FixesType
  <2>3. /\ RuleOf(CodeOf[x]) = r /\ x \in Fixable /\ Wants(CodeOf[x], LineOf[x]) /\ Heeded(x, T)
    BY <2>2 DEF ImportFaults, Fixed
  <2>4. ~GatesPerViolation(r)
    BY <1>1 DEF GatesPerViolation
  <2>5. CodeOf[x] = r /\ CodeOf[x] \in EnabledCodes /\ CanFix(CodeOf[x])
    BY <1>0, <2>3, <2>4, CodeRules DEF Called
  <2>6. x \in UnsafeFix => opts.unsafe
    <3>1. x \in UnsafeFix => r = "KIS002"
      BY <1>0, <1>1, <2>3, <2>5, CodeRules
    <3> QED BY <3>1 DEF Called
  <2> QED BY <2>3, <2>5, <2>6 DEF Permitted, Heeded
<1>2. CASE r \in {"KNQ001", "KNQ002", "KNQ003"}
  BY <1>2, FixCommentsType DEF FixBy
<1>3. CASE r = "KPT"
  <2>1. FixBy(r, T) = FixPatterns(T)
    BY <1>3 DEF FixBy
  <2>2. Picked(x)
    BY <2>1, PatternsPick
  <2>3. CodeOf[x] \in EnabledCodes
    BY <1>0, <2>2, CodeRules DEF Picked, GatesPerViolation
  <2>4. x \notin UnsafeFix
    BY <1>0, <2>2, CodeRules DEF Picked
  <2> QED BY <2>2, <2>3, <2>4 DEF Picked, Permitted
<1>4. CASE r = "KST"
  <2>1. FixBy(r, T) = Fixes(T, Outermost(StructureFaults(T)))
    BY <1>4, ImportsAndStructure DEF FixBy
  <2>2. x \in StructureFaults(T)
    BY <2>1, ImportsAndStructure, FixesType DEF Outermost
  <2>3. /\ RuleOf(CodeOf[x]) = "KST" /\ x \in Fixable /\ Wants(CodeOf[x], LineOf[x])
        /\ IsEnabled(config.selection, CodeOf[x]) /\ CanFix(CodeOf[x]) /\ Heeded(x, T)
        /\ x \in UnsafeFix => opts.unsafe
    BY <2>2 DEF StructureFaults, Fixed
  <2>4. CodeOf[x] \in EnabledCodes
    BY <1>0, <2>3, CodeRules DEF GatesPerViolation
  <2> QED BY <2>3, <2>4 DEF Permitted, Heeded
<1> QED BY <1>1, <1>2, <1>3, <1>4 DEF RuleNames

LEMMA SameFixBy ==
  ASSUME UNCHANGED <<config, opts, src>>, NEW r
  PROVE  FixBy(r, src)' = FixBy(r, src)
BY DEF FixBy, FixPatterns, FixPattern, FixImports, FixStructure, Fixed, FixComments, Heeded, Wants, Silenced, NoqaAudit, EnabledCodes, Active, CanFix, Kept, Found, PerFileIgnored

-----------------------------------------------------------------------------
(* What is left when fixes change nothing.                                 *)
LEMMA FixesSettle ==
  ASSUME RulesSettle, NEW T \in Text, NEW X \in SUBSET T.faults, NEW r,
         \A x \in X : RuleOf(CodeOf[x]) = r, Fixes(T, X) = T
  PROVE  X = {}
<1>1. X \in SUBSET Faults
  BY TextParts
<1>2. T.faults = (T.faults \ X) \cup UNION {Leads[x] : x \in X}
  BY <1>1, FixesType
<1> SUFFICES ASSUME X # {} PROVE FALSE
  OBVIOUS
<1>3. PICK x \in X : \A y \in X : x \notin Leads[y]
  BY <1>1 DEF RulesSettle
<1> QED BY <1>2, <1>3

(* The faults that a pattern fixes.                                        *)
FixedBy(c, T) ==
  IF IsEnabled(config.selection, c) /\ CanFix(c)
  THEN {x \in Fixed("KPT", T) : CodeOf[x] = c} ELSE {}

LEMMA FixedByFacts ==
  ASSUME NEW T \in Text, NEW c
  PROVE  /\ FixedBy(c, T) \in SUBSET Faults /\ FixedBy(c, T) \subseteq T.faults
         /\ \A x \in FixedBy(c, T) : RuleOf(CodeOf[x]) = "KPT"
         /\ FixPattern(T, c).faults
              = (T.faults \ FixedBy(c, T)) \cup UNION {Leads[x] : x \in FixedBy(c, T)}
<1> DEFINE X == {x \in Fixed("KPT", T) : CodeOf[x] = c}
<1>1. X \in SUBSET Faults /\ X \subseteq T.faults /\ \A x \in X : RuleOf(CodeOf[x]) = "KPT"
  BY TextParts DEF Fixed
<1>2. Fixes(T, X).faults = (T.faults \ X) \cup UNION {Leads[x] : x \in X}
  BY <1>1, FixesType
<1>3. CASE IsEnabled(config.selection, c) /\ CanFix(c)
  <2>1. FixedBy(c, T) = X /\ FixPattern(T, c) = Fixes(T, X)
    BY <1>3 DEF FixedBy, FixPattern
  <2> QED BY <1>1, <1>2, <2>1
<1>4. CASE ~(IsEnabled(config.selection, c) /\ CanFix(c))
  <2>1. FixedBy(c, T) = {} /\ FixPattern(T, c) = T
    BY <1>4 DEF FixedBy, FixPattern
  <2> QED BY <2>1
<1> QED BY <1>3, <1>4

LEMMA PatternsSettle ==
  ASSUME RulesSettle, NEW T \in Text, FixPatterns(T) = T
  PROVE  \A x \in T.faults : ~Picked(x)
<1> DEFINE n == Len(KptCodes)
<1>0. n \in Nat
  BY KptLength
<1>1. PICK a \in [0..n -> Text] : PatternsFrom(T, a) /\ FixPatterns(T) = a[n]
  BY PatternsFacts
<1> DEFINE f(i) == a[i].faults
           X(i) == FixedBy(KptCodes[i], a[i - 1])
           R == {x \in Faults : \E i \in 1..n : x \in X(i)}
<1> HIDE DEF n
<1>2. \A i \in 1..n : /\ X(i) \in SUBSET Faults /\ X(i) \subseteq f(i - 1)
                      /\ \A x \in X(i) : RuleOf(CodeOf[x]) = "KPT"
                      /\ f(i) = (f(i - 1) \ X(i)) \cup UNION {Leads[x] : x \in X(i)}
  <2> SUFFICES ASSUME NEW i \in 1..n
               PROVE  /\ X(i) \in SUBSET Faults /\ X(i) \subseteq f(i - 1)
                      /\ \A x \in X(i) : RuleOf(CodeOf[x]) = "KPT"
                      /\ f(i) = (f(i - 1) \ X(i)) \cup UNION {Leads[x] : x \in X(i)}
    OBVIOUS
  <2>1. a[i - 1] \in Text
    BY <1>0, <1>1
  <2>2. a[i] = FixPattern(a[i - 1], KptCodes[i])
    BY <1>1 DEF PatternsFrom, n
  <2> QED BY <2>1, <2>2, FixedByFacts
<1>3. f(0) = T.faults /\ f(n) = T.faults
  BY <1>1 DEF PatternsFrom
<1> HIDE DEF f, X
<1>4. R = {}
  <2> SUFFICES ASSUME R # {} PROVE FALSE
    OBVIOUS
  <2>1. R \in SUBSET Faults /\ \A x, y \in R : RuleOf(CodeOf[x]) = RuleOf(CodeOf[y])
    BY <1>2
  <2>2. PICK x \in R : \A y \in R : x \notin Leads[y]
    <3> HIDE DEF R
    <3> QED BY <2>1 DEF RulesSettle
  <2>3. PICK k \in 1..n : x \in X(k)
    BY <2>2
  <2>4. \A i \in 1..n : x \in f(i) => x \in f(i - 1)
    <3> SUFFICES ASSUME NEW i \in 1..n, x \in f(i) PROVE x \in f(i - 1)
      OBVIOUS
    <3>1. \A y \in X(i) : y \in R
      BY <1>2
    <3> QED BY <1>2, <2>2, <3>1
  <2> DEFINE S == {i \in 0..n : x \in f(i)}
  <2>5. k - 1 \in S /\ k - 1 \in Nat /\ \A i \in 1..(k - 1) : i \in S => i - 1 \in S
    <3>1. k - 1 \in 0..n /\ k - 1 \in Nat /\ \A i \in 1..(k - 1) : i \in 1..n /\ i - 1 \in 0..n
      BY <1>0
    <3> QED BY <1>2, <2>3, <2>4, <3>1
  <2>6. 0 \in S
    <3> HIDE DEF S
    <3>1. \A i \in 0..(k - 1) : i \in S
      BY <2>5, ToZero
    <3>2. 0 \in 0..(k - 1)
      BY <2>5
    <3> QED BY <3>1, <3>2
  <2>7. n \in S
    BY <1>0, <1>3, <2>6
  <2>8. \A i \in 1..n : i \in S => i - 1 \in S
    <3>1. \A i \in 1..n : i - 1 \in 0..n
      BY <1>0
    <3> QED BY <2>4, <3>1
  <2>9. k \in S
    <3> HIDE DEF S
    <3>1. \A i \in 0..n : i \in S
      BY <1>0, <2>7, <2>8, ToZero
    <3>2. k \in 0..n
      BY <1>0
    <3> QED BY <3>1, <3>2
  <2>10. x \in f(k) /\ x \notin f(k)
    <3>1. \A y \in X(k) : y \in R
      BY <1>2
    <3> QED BY <1>2, <2>2, <2>3, <2>9, <3>1
  <2> QED BY <2>10
<1>5. \A i \in 1..n : X(i) = {} /\ f(i) = f(i - 1)
  <2> SUFFICES ASSUME NEW i \in 1..n PROVE X(i) = {} /\ f(i) = f(i - 1)
    OBVIOUS
  <2>1. \A x \in X(i) : x \in R
    BY <1>2
  <2>2. X(i) = {}
    BY <1>4, <2>1
  <2>3. UNION {Leads[x] : x \in X(i)} = {}
    BY <2>2
  <2>4. f(i) = (f(i - 1) \ X(i)) \cup UNION {Leads[x] : x \in X(i)}
    BY <1>2
  <2> QED BY <2>2, <2>3, <2>4
<1>6. \A i \in 0..n : f(i) = T.faults
  <2> DEFINE S == {i \in Nat : i <= n => f(i) = T.faults}
  <2>1. 0 \in S
    BY <1>3
  <2>2. ASSUME NEW i \in Nat, i \in S PROVE i + 1 \in S
    <3> SUFFICES ASSUME i + 1 <= n PROVE f(i + 1) = T.faults
      OBVIOUS
    <3>1. f(i) = T.faults /\ i + 1 \in 1..n /\ (i + 1) - 1 = i
      BY <1>0, <2>2
    <3> QED BY <1>5, <3>1
  <2> HIDE DEF S
  <2>3. Nat \subseteq S
    BY <2>1, <2>2, FromZero
  <2> QED BY <1>0, <2>3 DEF S
<1> SUFFICES ASSUME NEW x \in T.faults, Picked(x) PROVE FALSE
  OBVIOUS
<1>7. x \in Faults
  BY TextParts
<1>8. PICK i \in 1..n : CodeOf[x] = KptCodes[i]
  <2>1. CodeOf[x] \in Range(KptCodes)
    BY <1>7, CodeRules DEF Picked
  <2> QED BY <2>1, RulesAssumption DEF Range, n
<1>9. x \in a[i - 1].faults
  <2>1. i - 1 \in 0..n
    BY <1>0
  <2> QED BY <1>6, <2>1 DEF f
<1>10. x \in X(i)
  BY <1>8, <1>9 DEF X, FixedBy, Fixed, Picked
<1> QED BY <1>5, <1>10

(* A rule that is called, but changes nothing has nothing to do.           *)
Finished(r) == ~Called(r) \/ Rejected(r, src) \/ FixBy(r, src) = src

LEMMA FixBySettles ==
  ASSUME RulesSettle, NEW r \in RuleNames, src \in Text, opts.target = NoTarget,
         FixBy(r, src) = src, Called(r)
  PROVE  /\ r \in {"KIS001", "KIS002", "KPT", "KST"} =>
              \A x \in ReportedFaults(src, opts.ignoreNoqa) :
                RuleOf(CodeOf[x]) = r => ~Permitted(x)
         /\ r \in {"KNQ002", "KNQ003"} => KnqLines(r, src) = {}
<1>0. \A code, line : Wants(code, line)
  BY DEF Wants
<1>1. ASSUME r \in {"KIS001", "KIS002", "KPT", "KST"},
             NEW x \in ReportedFaults(src, opts.ignoreNoqa), RuleOf(CodeOf[x]) = r, Permitted(x)
      PROVE  FALSE
  <2>1. x \in src.faults /\ Heeded(x, src)
    BY DEF ReportedFaults, Kept, Found, Heeded
  <2>2. x \in Faults
    BY <2>1, TextParts
  <2>3. x \in Fixed(r, src)
    BY <1>0, <1>1, <2>1 DEF Fixed, Permitted
  <2>4. CASE r \in {"KIS001", "KIS002"}
    <3>1. x \in ImportFaults(r, src)
      BY <2>1, <2>3 DEF ImportFaults
    <3>2. Fixes(src, ImportFaults(r, src)) = src
      BY <2>4, ImportsAndStructure DEF FixBy
    <3>3. ImportFaults(r, src) \in SUBSET src.faults
          /\ \A y \in ImportFaults(r, src) : RuleOf(CodeOf[y]) = r
      BY DEF ImportFaults, Fixed
    <3> QED BY <3>1, <3>2, <3>3, FixesSettle
  <2>5. CASE r = "KPT"
    <3>1. FixPatterns(src) = src
      BY <2>5 DEF FixBy
    <3>2. Picked(x)
      BY <1>0, <1>1, <2>2, <2>5, CodeRules DEF Picked, Permitted, GatesPerViolation
    <3> QED BY <2>1, <3>1, <3>2, PatternsSettle
  <2>6. CASE r = "KST"
    <3>1. x \in StructureFaults(src)
      BY <1>1, <2>1, <2>2, <2>3, <2>6, CodeRules DEF StructureFaults, Permitted, GatesPerViolation
    <3>2. Fixes(src, Outermost(StructureFaults(src))) = src
      BY <2>6, ImportsAndStructure DEF FixBy
    <3>3. Outermost(StructureFaults(src)) \in SUBSET src.faults
          /\ \A y \in Outermost(StructureFaults(src)) : RuleOf(CodeOf[y]) = "KST"
      BY DEF StructureFaults, Fixed, Outermost
    <3>4. Outermost(StructureFaults(src)) = {}
      BY <3>2, <3>3, FixesSettle
    <3> QED BY <3>1, <3>4, ImportsAndStructure
  <2> QED BY <1>1, <2>4, <2>5, <2>6
<1>2. ASSUME r \in {"KNQ002", "KNQ003"}, NEW l \in KnqLines(r, src)
      PROVE  FALSE
  <2>1. FixComments(r, src) = src
    BY <1>2 DEF FixBy
  <2>2. l \in Lines
    BY DEF KnqLines
  <2> DEFINE c == src.comment[l]
  <2>3. c \in MaybeComment
    BY <2>2, TextParts
  <2>4. c = IF r = "KNQ002" THEN Restyled(c) ELSE WithoutUnused(c, l, NoqaAudit(src))
    BY <1>0, <2>1, <2>2, FixCommentsType
  <2>5. IF r = "KNQ002" THEN BadStyle(c) ELSE Unused(c, l, NoqaAudit(src)) # {}
    BY <1>2 DEF KnqLines
  <2> HIDE DEF c
  <2> QED BY <2>3, <2>4, <2>5, RewrittenComment
<1> QED BY <1>1, <1>2

-----------------------------------------------------------------------------
(* What --add-noqa sees and writes.                                        *)
Seen(code, l, found) == \E v \in found : v.line = l /\ v.code = code

LEMMA SeenFaults ==
  ASSUME NEW T \in Text, NEW i, NEW l, NEW code \in Codes
  PROVE  Seen(code, l, Violations(T, i))
           <=> \E x \in ReportedFaults(T, i) : CodeOf[x] = code /\ LineOf[x] = l
<1> DEFINE F == {[code |-> CodeOf[x], line |-> LineOf[x]] : x \in ReportedFaults(T, i)}
<1>1. ASSUME NEW v \in KnqViolations(T) PROVE v.code # code
  <2>1. v.code \in KnqCodes
    BY <1>1 DEF KnqViolations
  <2> QED BY <2>1, CodesAssumption
<1>2. Violations(T, i) = F \cup KnqViolations(T)
  BY DEF Violations
<1>3. ASSUME NEW x \in ReportedFaults(T, i), CodeOf[x] = code, LineOf[x] = l
      PROVE  Seen(code, l, Violations(T, i))
  <2>1. [code |-> code, line |-> l] \in Violations(T, i)
    BY <1>2, <1>3
  <2> QED BY <2>1 DEF Seen
<1>4. ASSUME NEW v \in Violations(T, i), v.line = l, v.code = code
      PROVE  \E x \in ReportedFaults(T, i) : CodeOf[x] = code /\ LineOf[x] = l
  <2>1. PICK x \in ReportedFaults(T, i) : v = [code |-> CodeOf[x], line |-> LineOf[x]]
    BY <1>1, <1>2, <1>4
  <2> QED BY <1>4, <2>1
<1> QED BY <1>3, <1>4 DEF Seen

LEMMA SeenComments ==
  ASSUME NEW T \in Text, NEW i, NEW l \in Lines, NEW r \in KnqCodes
  PROVE  Seen(r, l, Violations(T, i))
           <=> Active(r) /\ ~PerFileIgnored(r) /\ l \in KnqLines(r, T)
<1> DEFINE K == {k \in KnqCodes : Active(k) /\ ~PerFileIgnored(k)}
<1>1. KnqViolations(T) = UNION {{[code |-> k, line |-> m] : m \in KnqLines(k, T)} : k \in K}
  BY DEF KnqViolations
<1> HIDE DEF K
<1>2. ASSUME NEW v \in Violations(T, i), v.line = l, v.code = r
      PROVE  r \in K /\ l \in KnqLines(r, T)
  <2>1. CASE v \in KnqViolations(T)
    <3>1. PICK k \in K : v \in {[code |-> k, line |-> m] : m \in KnqLines(k, T)}
      BY <1>1, <2>1
    <3> QED BY <1>2, <3>1
  <2>2. CASE v \notin KnqViolations(T)
    <3>1. PICK x \in ReportedFaults(T, i) : v = [code |-> CodeOf[x], line |-> LineOf[x]]
      BY <2>2 DEF Violations
    <3>2. x \in Faults
      BY TextParts DEF ReportedFaults, Kept, Found
    <3>3. CodeOf[x] \in Codes
      BY <3>2, FaultsAssumption
    <3> QED BY <1>2, <3>1, <3>3, CodesAssumption
  <2> QED BY <2>1, <2>2
<1>3. ASSUME r \in K, l \in KnqLines(r, T)
      PROVE  Seen(r, l, Violations(T, i))
  <2>1. [code |-> r, line |-> l] \in {[code |-> r, line |-> m] : m \in KnqLines(r, T)}
    BY <1>3
  <2>2. {[code |-> r, line |-> m] : m \in KnqLines(r, T)}
          \in {{[code |-> k, line |-> m] : m \in KnqLines(k, T)} : k \in K}
    BY <1>3
  <2>3. [code |-> r, line |-> l] \in KnqViolations(T)
    BY <1>1, <2>1, <2>2
  <2>4. [code |-> r, line |-> l] \in Violations(T, i)
    BY <2>3 DEF Violations
  <2> QED BY <2>4 DEF Seen
<1> QED BY <1>2, <1>3 DEF Seen, K

LEMMA NewCodesAre ==
  ASSUME NEW found, NEW l, NEW code
  PROVE  code \in NewCodes(found, l)
           <=> Seen(code, l, found) /\ code \notin {"KNQ001", "KNQ002"}
BY DEF NewCodes, Seen

(* Which faults are there does not depend on the comments.                 *)
LEMMA SameAudit ==
  ASSUME NEW T \in Text, NEW U \in Text, T.faults = U.faults
  PROVE  NoqaAudit(T) = NoqaAudit(U) /\ Found(T) = Found(U)
<1>1. Found(T) = Found(U)
  BY DEF Found
<1> QED BY <1>1 DEF NoqaAudit

(* The comment of a line after --add-noqa.                                 *)
Taken(l, found, why) ==
  l \in Takes /\ (NewCodes(found, l) # {} \/ (why # "none" /\ Seen("KNQ001", l, found)))

LEMMA AnnotatedComment ==
  ASSUME NEW comment, NEW found, NEW why, NEW l \in Lines
  PROVE  Annotated(comment, found, why, Takes)[l]
           = IF Taken(l, found, why) THEN MergeNoqa(comment[l], NewCodes(found, l), why)
             ELSE comment[l]
BY DEF Annotated, Taken, Seen

(* What a comment silenced it silences after --add-noqa.                   *)
LEMMA AnnotatedKeeps ==
  ASSUME NEW T \in Text, NEW why \in Reasons, NEW l \in Lines,
         NEW found, \A v \in found : v.code \in AllCodes
  PROVE  /\ \A code : HasNoqa(T.comment[l], code)
                        => HasNoqa(Annotated(T.comment, found, why, Takes)[l], code)
         /\ T.comment[l] # NoComment /\ T.comment[l].reason # "none"
              => Annotated(T.comment, found, why, Takes)[l].reason = T.comment[l].reason
<1> DEFINE c == T.comment[l]
           new == NewCodes(found, l)
           d == Annotated(T.comment, found, why, Takes)[l]
<1>1. c \in MaybeComment /\ new \in SUBSET AllCodes
  <2>1. c \in MaybeComment
    BY TextParts
  <2>2. new \in SUBSET AllCodes
    BY DEF NewCodes
  <2> QED BY <2>1, <2>2
<1>2. d = IF Taken(l, found, why) THEN MergeNoqa(c, new, why) ELSE c
  BY AnnotatedComment
<1> HIDE DEF c, new, d
<1>3. /\ \A code : HasNoqa(c, code) => HasNoqa(MergeNoqa(c, new, why), code)
      /\ c # NoComment /\ c.reason # "none" => MergeNoqa(c, new, why).reason = c.reason
  <2>1. Merges(c, new, why, MergeNoqa(c, new, why))
    BY <1>1, MergedComment
  <2> QED BY <2>1 DEF Merges
<1>4. /\ \A code : HasNoqa(c, code) => HasNoqa(d, code)
      /\ c # NoComment /\ c.reason # "none" => d.reason = c.reason
  BY <1>2, <1>3
<1> QED BY <1>4 DEF c, d

(* --add-noqa on a file that nobody edited: what it reported on lines that *)
(* can take a comment is silenced, and there is nothing more to add.       *)
LEMMA AnnotateSilences ==
  ASSUME NEW T \in Text, NEW U \in Text, NEW i, NEW why \in Reasons,
         U.faults = T.faults,
         U.comment = Annotated(T.comment, Violations(T, i), why, Takes)
  PROVE  /\ \A x \in ReportedFaults(U, FALSE) : LineOf[x] \notin Takes
         /\ Annotated(U.comment, Violations(U, i), why, Takes) = U.comment
<1> DEFINE seen1 == Violations(T, i)
           seen2 == Violations(U, i)
<1>0. \A v \in seen1 : v.code \in AllCodes
  BY ViolationsType
<1>1. NoqaAudit(T) = NoqaAudit(U) /\ Found(T) = Found(U)
  BY SameAudit
<1>2. \A x \in Faults : Silenced(x, T) => Silenced(x, U)
  <2> SUFFICES ASSUME NEW x \in Faults, NEW l \in HeardAt[x], HasNoqa(T.comment[l], CodeOf[x])
               PROVE  HasNoqa(U.comment[l], CodeOf[x])
    BY DEF Silenced
  <2>1. l \in Lines
    BY FaultsAssumption
  <2> QED BY <1>0, <2>1, AnnotatedKeeps
\* whatever is reported afterwards was reported before
<1>3. ReportedFaults(U, i) \subseteq ReportedFaults(T, i)
  <2>1. \A x \in Found(U) : x \in Faults
    BY TextParts DEF Found
  <2> QED BY <1>1, <1>2, <2>1 DEF ReportedFaults, Kept
<1>4. ReportedFaults(U, FALSE) \subseteq ReportedFaults(U, i)
  BY DEF ReportedFaults, Kept
<1>5. \A x \in ReportedFaults(T, i) : /\ x \in Faults /\ LineOf[x] \in Lines /\ CodeOf[x] \in Codes
                                      /\ LineOf[x] \in HeardAt[x]
  <2>1. \A x \in ReportedFaults(T, i) : x \in Faults
    BY TextParts DEF ReportedFaults, Kept, Found
  <2> QED BY <2>1, FaultsAssumption
<1>6. \A x \in ReportedFaults(T, i) : CodeOf[x] \in NewCodes(seen1, LineOf[x])
  <2> SUFFICES ASSUME NEW x \in ReportedFaults(T, i) PROVE CodeOf[x] \in NewCodes(seen1, LineOf[x])
    OBVIOUS
  <2>1. Seen(CodeOf[x], LineOf[x], seen1)
    BY <1>5, SeenFaults
  <2>2. CodeOf[x] \notin {"KNQ001", "KNQ002"}
    BY <1>5, CodesAssumption DEF KnqCodes
  <2> QED BY <2>1, <2>2, NewCodesAre
<1>7. ASSUME NEW x \in ReportedFaults(U, FALSE), LineOf[x] \in Takes
      PROVE  FALSE
  <2> DEFINE l == LineOf[x]
             new == NewCodes(seen1, l)
  <2>1. x \in ReportedFaults(T, i) /\ l \in Lines /\ l \in HeardAt[x] /\ CodeOf[x] \in new
    BY <1>3, <1>4, <1>5, <1>6
  <2>2. Taken(l, seen1, why)
    BY <1>7, <2>1 DEF Taken
  <2>3. new \in SUBSET AllCodes
    BY <1>0 DEF NewCodes
  <2>4. T.comment[l] \in MaybeComment
    BY <2>1, TextParts
  <2> HIDE DEF l, new
  <2>5. HasNoqa(MergeNoqa(T.comment[l], new, why), CodeOf[x])
    BY <2>1, <2>3, <2>4, MergedComment DEF Merges
  <2>6. HasNoqa(U.comment[l], CodeOf[x])
    BY <2>1, <2>2, <2>5, AnnotatedComment DEF new
  <2>7. Silenced(x, U)
    BY <2>1, <2>6 DEF Silenced
  <2> QED BY <2>7 DEF ReportedFaults, Kept
<1>8. ASSUME NEW l \in Lines, Taken(l, seen2, why)
      PROVE  MergeNoqa(U.comment[l], NewCodes(seen2, l), why) = U.comment[l]
  <2> DEFINE c == T.comment[l]
             d == U.comment[l]
             new1 == NewCodes(seen1, l)
             new2 == NewCodes(seen2, l)
             taken == Taken(l, seen1, why)
  <2>1. c \in MaybeComment /\ d \in MaybeComment
    BY TextParts
  <2>2. new1 \in SUBSET AllCodes
    BY <1>0 DEF NewCodes
  <2>3. l \in Takes
    BY <1>8 DEF Taken
  <2>4. new1 # {} => taken
    BY <2>3 DEF Taken
  <2>5. d = IF taken THEN MergeNoqa(c, new1, why) ELSE c
    BY AnnotatedComment
  <2>6. Seen("KNQ003", l, seen1)
          <=> Active("KNQ003") /\ ~PerFileIgnored("KNQ003") /\ Unused(c, l, NoqaAudit(T)) # {}
    <3>1. l \in KnqLines("KNQ003", T) <=> Unused(c, l, NoqaAudit(T)) # {}
      BY DEF KnqLines
    <3> QED BY <3>1, SeenComments DEF KnqCodes
  <2>7. Seen("KNQ003", l, seen2)
          <=> Active("KNQ003") /\ ~PerFileIgnored("KNQ003") /\ Unused(d, l, NoqaAudit(T)) # {}
    <3>1. l \in KnqLines("KNQ003", U) <=> Unused(d, l, NoqaAudit(T)) # {}
      BY <1>1 DEF KnqLines
    <3> QED BY <3>1, SeenComments DEF KnqCodes
  <2>8. /\ Seen("KNQ001", l, seen1) <=> Active("KNQ001") /\ ~PerFileIgnored("KNQ001") /\ LacksReason(c)
        /\ Seen("KNQ001", l, seen2) <=> Active("KNQ001") /\ ~PerFileIgnored("KNQ001") /\ LacksReason(d)
    <3>1. /\ l \in KnqLines("KNQ001", T) <=> LacksReason(c)
          /\ l \in KnqLines("KNQ001", U) <=> LacksReason(d)
      BY DEF KnqLines
    <3> QED BY <3>1, SeenComments DEF KnqCodes
  <2>9. \A code \in new2 : code = "KNQ003" \/ code \in new1
    <3> SUFFICES ASSUME NEW code \in new2, code # "KNQ003" PROVE code \in new1
      OBVIOUS
    <3>1. Seen(code, l, seen2) /\ code \notin {"KNQ001", "KNQ002"} /\ code \in AllCodes
      BY NewCodesAre, ViolationsType DEF Seen
    <3>2. code \in Codes
      BY <3>1 DEF AllCodes, KnqCodes
    <3>3. PICK x \in ReportedFaults(U, i) : CodeOf[x] = code /\ LineOf[x] = l
      BY <3>1, <3>2, SeenFaults
    <3> QED BY <1>3, <1>6, <3>3
  \* a token that is unused now was unused before
  <2>10. "KNQ003" \in new2 => "KNQ003" \in new1
    <3> SUFFICES ASSUME "KNQ003" \in new2, "KNQ003" \notin new1 PROVE FALSE
      OBVIOUS
    <3>1. Seen("KNQ003", l, seen2) /\ ~Seen("KNQ003", l, seen1)
      BY NewCodesAre
    <3>2. Unused(c, l, NoqaAudit(T)) = {}
      BY <2>6, <2>7, <3>1
    <3>3. PICK t : t \in Unused(d, l, NoqaAudit(T))
      BY <2>7, <3>1
    <3>4. d # NoComment /\ t \in d.codes /\ IsUnused(t, l, NoqaAudit(T))
      BY <3>3 DEF Unused
    <3>5. c = NoComment \/ t \notin c.codes
      BY <3>2, <3>4 DEF Unused
    <3>6. taken /\ t \in new1
      <4> HIDE DEF c, d, new1, taken
      <4>1. taken
        BY <2>5, <3>4, <3>5
      <4>2. Merges(c, new1, why, d)
        BY <2>1, <2>2, <2>5, <4>1, MergedComment
      <4>3. c = NoComment => d.codes = new1
        BY <3>4, <4>2 DEF Merges
      <4>4. c # NoComment => d.codes = IF c.blanket THEN {} ELSE c.codes \cup new1
        BY <4>2 DEF Merges
      <4> QED BY <3>4, <3>5, <4>1, <4>3, <4>4
    <3>7. Seen(t, l, seen1) /\ t \notin {"KNQ001", "KNQ002"} /\ t \in AllCodes
      BY <2>2, <3>6, NewCodesAre
    <3>8. t \in Codes
      BY <3>1, <3>7 DEF AllCodes, KnqCodes
    <3>9. PICK x \in ReportedFaults(T, i) : CodeOf[x] = t /\ LineOf[x] = l
      BY <3>7, <3>8, SeenFaults
    <3>10. x \in Kept(Found(T))
      BY <3>9 DEF ReportedFaults, Kept
    <3>11. [code |-> t, line |-> l] \in NoqaAudit(T).violations
      BY <3>9, <3>10 DEF NoqaAudit
    <3>12. t \in Covers(t)
      BY <3>7, CodesAssumption, TokensAssumption DEF Covers
    <3> QED BY <3>4, <3>11, <3>12 DEF IsUnused
  <2>11. new2 \subseteq new1
    BY <2>9, <2>10
  <2>12. new2 # {} \/ (why # "none" /\ LacksReason(d))
    BY <1>8, <2>8 DEF Taken
  <2>13. Seen("KNQ001", l, seen2) /\ ~taken /\ why # "none" => LacksReason(c) = FALSE /\ d = c
    BY <2>3, <2>5, <2>8 DEF Taken
  <2>14. taken
    <3>1. Seen("KNQ001", l, seen2) \/ new2 # {}
      BY <1>8 DEF Taken
    <3>2. CASE new2 # {}
      BY <2>4, <2>11, <3>2
    <3>3. CASE new2 = {}
      <4>1. Seen("KNQ001", l, seen2) /\ why # "none"
        BY <1>8, <3>3 DEF Taken
      <4> QED BY <2>8, <2>12, <2>13, <3>3, <4>1
    <3> QED BY <3>2, <3>3
  <2>16. new2 # {} \/ d # NoComment
    BY <2>12 DEF LacksReason
  <2> HIDE DEF c, d, new1, new2, taken
  <2>15. Merges(c, new1, why, d)
    BY <2>1, <2>2, <2>5, <2>14, MergedComment
  <2>17. d # NoComment
    BY <2>11, <2>15, <2>16 DEF Merges
  <2>18. d.blanket \/ new2 \subseteq d.codes
    BY <2>11, <2>15, <2>17 DEF Merges
  <2>19. d.reason = "none" => why = "none"
    BY <2>15, <2>17 DEF Merges
  <2>20. /\ d \in [codes : SUBSET Tokens, blanket : BOOLEAN, reason : Reasons]
         /\ d.blanket => d.codes = {}
    BY <2>1, <2>17 DEF MaybeComment, Comment
  <2>21. MergeNoqa(d, new2, why)
           = [codes |-> IF d.blanket THEN {} ELSE d.codes \cup new2, blanket |-> d.blanket,
              reason |-> IF d.reason = "none" THEN why ELSE d.reason]
    BY <2>17 DEF MergeNoqa
  <2>22. MergeNoqa(d, new2, why) = d
    BY <2>18, <2>19, <2>20, <2>21
  <2> QED BY <2>22 DEF d, new2
<1>9. Annotated(U.comment, seen2, why, Takes) = U.comment
  <2> DEFINE a == Annotated(U.comment, seen2, why, Takes)
  <2>1. a = [l \in Lines |-> a[l]]
    BY DEF Annotated
  <2>2. \A l \in Lines : a[l] = U.comment[l]
    <3> HIDE DEF seen2
    <3> SUFFICES ASSUME NEW l \in Lines PROVE a[l] = U.comment[l]
      OBVIOUS
    <3>1. a[l] = IF Taken(l, seen2, why) THEN MergeNoqa(U.comment[l], NewCodes(seen2, l), why)
                 ELSE U.comment[l]
      BY AnnotatedComment
    <3> QED BY <1>8, <3>1 DEF seen2
  <2>3. U.comment = [l \in Lines |-> U.comment[l]]
    BY TextParts
  <2> HIDE DEF a
  <2> QED BY <2>1, <2>2, <2>3 DEF a
<1> QED BY <1>7, <1>9

-----------------------------------------------------------------------------
(* The inductive invariant.  While nothing changed in a pass, the rules    *)
(* that had their turn are finished with the text; and what --add-noqa     *)
(* saw is what is there as long as the user edits nothing.                 *)
Done ==
  phase \in {"fix", "fixed"} /\ ~changed =>
    \A k \in 1..Len(Rules) : (phase = "fix" => k < at) => Finished(Rules[k])

SawText == phase = "linted" /\ ~touched => seen = Violations(text, opts.ignoreNoqa)

Inv ==
  /\ TypeOK
  /\ phase = "fix" => at >= 1
  /\ Done
  /\ SawText
  /\ AddNoqaSilences

LEMMA SameFinished ==
  ASSUME UNCHANGED <<config, opts, src>>, NEW r
  PROVE  Finished(r)' <=> Finished(r)
<1>1. FixBy(r, src)' = FixBy(r, src)
  BY SameFixBy
<1>2. Called(r)' <=> Called(r)
  BY DEF Called, Active, CanFix
<1>3. Rejected(r, src)' <=> Rejected(r, src)
  BY <1>1 DEF Rejected
<1> QED BY <1>1, <1>2, <1>3 DEF Finished

LEMMA SameViolations ==
  ASSUME UNCHANGED config, NEW U, text' = U, NEW i
  PROVE  /\ ReportedFaults(text, i)' = ReportedFaults(U, i)
         /\ Violations(text, i)' = Violations(U, i)
<1>1. EnabledCodes' = EnabledCodes /\ \A c : PerFileIgnored(c)' <=> PerFileIgnored(c)
  BY DEF EnabledCodes, Active, PerFileIgnored
<1>2. Found(text)' = Found(U)
  BY <1>1 DEF Found
<1>3. ReportedFaults(text, i)' = ReportedFaults(U, i)
  BY <1>1, <1>2 DEF ReportedFaults, Kept, Silenced
<1>4. NoqaAudit(text)' = NoqaAudit(U)
  BY <1>1, <1>2 DEF NoqaAudit, Kept
<1>5. \A r : KnqLines(r, text)' = KnqLines(r, U)
  BY <1>4 DEF KnqLines
<1>6. KnqViolations(text)' = KnqViolations(U)
  BY <1>1, <1>5 DEF KnqViolations, Active
<1> QED BY <1>3, <1>6 DEF Violations

LEMMA LastRule == Len(Rules) + 1 = 8
BY RulesAre

LEMMA NoTextType == NoText \in Text
BY DEF NoText, Text

LEMMA NoOptionsType ==
  /\ NoOptions \in Options
  /\ \A u \in BOOLEAN, i \in BOOLEAN : [NoOptions EXCEPT !.unsafe = u, !.ignoreNoqa = i] \in Options
  /\ \A v \in [code : AllCodes, line : Lines] :
       [NoOptions EXCEPT !.unsafe = TRUE, !.target = v] \in Options
  /\ \A i \in BOOLEAN, why \in Whys :
       [NoOptions EXCEPT !.ignoreNoqa = i, !.why = why] \in Options
BY BoundsAssumption DEF NoOptions, Options

LEMMA InitInv ==
  ASSUME Init
  PROVE  Inv
<1>1. TypeOK
  <2>1. changed \in BOOLEAN /\ touched \in BOOLEAN
    BY DEF Init
  <2>2. pass \in 0..MaxPasses /\ at \in 0..8 /\ events \in 0..MaxEvents
    BY BoundsAssumption DEF Init
  <2>3. /\ text \in Text /\ src \in Text /\ opts \in Options
        /\ phase \in {"idle", "fix", "fixed", "linted", "annotated"}
        /\ \A v \in seen : v.code \in AllCodes /\ v.line \in Lines
    BY NoTextType, NoOptionsType, TextsAssumption DEF Init
  <2> QED BY <2>1, <2>2, <2>3, LastRule DEF TypeOK
<1> QED BY <1>1 DEF Init, Inv, Done, SawText, AddNoqaSilences

LEMMA OnlyPhase ==
  ASSUME TypeOK', phase' = "idle"
  PROVE  Inv'
BY DEF Inv, Done, SawText, AddNoqaSilences

LEMMA EditInv ==
  ASSUME Inv, Edit
  PROVE  Inv'
<1> USE DEF Inv
<1>1. PICK x \in Faults, l \in Takes :
        \/ text' = [text EXCEPT !.faults = @ \cup {x}]
        \/ text' = [text EXCEPT !.faults = @ \ {x}]
        \/ text' = [text EXCEPT !.comment[l] = NoComment]
  BY DEF Edit
<1>2. text' \in Text
  BY <1>1 DEF TypeOK, Text
<1>3. TypeOK'
  <2>1. changed' \in BOOLEAN /\ touched' \in BOOLEAN
    BY DEF Edit, TypeOK
  <2>2. pass' \in 0..MaxPasses /\ at' \in 0..8 /\ events' \in 0..MaxEvents
    BY BoundsAssumption, LastRule DEF Edit, TypeOK
  <2>3. /\ text' \in Text /\ src' \in Text /\ opts' \in Options
        /\ phase' \in {"idle", "fix", "fixed", "linted", "annotated"}
        /\ \A v \in seen' : v.code \in AllCodes /\ v.line \in Lines
    BY <1>2 DEF Edit, TypeOK
  <2> QED BY <2>1, <2>2, <2>3, LastRule DEF TypeOK
<1>4. Done'
  <2>1. \A r : Finished(r)' <=> Finished(r)
    BY SameFinished DEF Edit
  <2> QED BY <2>1 DEF Edit, Done
<1>5. phase' = phase /\ touched' = (phase # "idle") /\ at' = at
  BY DEF Edit
<1>6. SawText' /\ AddNoqaSilences'
  BY <1>5 DEF SawText, AddNoqaSilences
<1> QED BY <1>3, <1>4, <1>5, <1>6

LEMMA StartFixInv ==
  ASSUME Inv, StartFix
  PROVE  Inv'
<1> USE DEF Inv
<1>1. opts' \in Options
  <2>1. QuickFixes \subseteq [code : AllCodes, line : Lines]
    BY ViolationsType DEF QuickFixes, TypeOK
  <2> QED BY <2>1, NoOptionsType DEF StartFix
<1>2. TypeOK'
  <2>1. changed' \in BOOLEAN /\ touched' \in BOOLEAN
    BY DEF StartFix
  <2>2. pass' \in 0..MaxPasses /\ at' \in 0..8 /\ events' \in 0..MaxEvents
    <3>1. pass' = 1 /\ at' = 1 /\ events < MaxEvents /\ events' = events + 1
      BY DEF StartFix
    <3> QED BY <3>1, BoundsAssumption DEF TypeOK
  <2>3. /\ text' \in Text /\ src' \in Text /\ opts' \in Options
        /\ phase' \in {"idle", "fix", "fixed", "linted", "annotated"}
        /\ \A v \in seen' : v.code \in AllCodes /\ v.line \in Lines
    BY <1>1 DEF StartFix, TypeOK
  <2> QED BY <2>1, <2>2, <2>3, LastRule DEF TypeOK
<1>3. phase' = "fix" /\ at' = 1
  BY DEF StartFix
<1> QED BY <1>2, <1>3, RulesAre DEF Done, SawText, AddNoqaSilences

LEMMA FixRuleInv ==
  ASSUME Inv, FixRule
  PROVE  Inv'
<1> USE DEF Inv
<1>1. /\ phase = "fix" /\ phase' = "fix" /\ at \in 1..7 /\ at' = at + 1
      /\ Rules[at] \in RuleNames /\ src \in Text
  BY RulesAre DEF FixRule, TypeOK
<1>2. /\ src' = IF Called(Rules[at]) /\ ~Rejected(Rules[at], src) THEN FixBy(Rules[at], src) ELSE src
      /\ changed' = (changed \/ src' # src)
      /\ UNCHANGED <<text, config, phase, opts, pass, seen, touched, events>>
  BY DEF FixRule
<1>3. src' \in Text
  BY <1>1, <1>2, FixByType
<1>4. TypeOK'
  BY <1>1, <1>2, <1>3, RulesAre DEF TypeOK
<1>5. Done'
  <2> SUFFICES ASSUME ~changed', NEW k \in 1..7, k < at + 1 PROVE Finished(Rules[k])'
    BY <1>1, RulesAre DEF Done
  <2>1. ~changed /\ src' = src
    BY <1>2
  <2>2. Finished(Rules[k])
    <3>1. CASE k < at
      BY <1>1, <2>1, <3>1, RulesAre DEF Done
    <3>2. CASE k = at
      BY <1>2, <2>1, <3>2 DEF Finished
    <3> QED BY <1>1, <3>1, <3>2
  <2> QED BY <1>2, <2>1, <2>2, SameFinished
<1> QED BY <1>1, <1>4, <1>5 DEF SawText, AddNoqaSilences

LEMMA EndPassInv ==
  ASSUME Inv, EndPass
  PROVE  Inv'
<1> USE DEF Inv
<1>1. /\ phase = "fix" /\ at = Len(Rules) + 1
      /\ UNCHANGED <<text, config, opts, src, seen, touched, events>>
  BY DEF EndPass
<1>2. CASE changed /\ pass < PassLimit
  <2>1. phase' = "fix" /\ pass' = pass + 1 /\ at' = 1 /\ changed' = FALSE
    BY <1>2 DEF EndPass
  <2>2. pass + 1 \in 0..MaxPasses
    BY <1>2, BoundsAssumption DEF PassLimit, TypeOK
  <2>3. TypeOK'
    <3>1. changed' \in BOOLEAN /\ touched' \in BOOLEAN
      BY <1>1, <2>1 DEF TypeOK
    <3>2. pass' \in 0..MaxPasses /\ at' \in 0..8 /\ events' \in 0..MaxEvents
      BY <1>1, <2>1, <2>2 DEF TypeOK
    <3>3. /\ text' \in Text /\ src' \in Text /\ opts' \in Options
          /\ phase' \in {"idle", "fix", "fixed", "linted", "annotated"}
          /\ \A v \in seen' : v.code \in AllCodes /\ v.line \in Lines
      BY <1>1, <2>1 DEF TypeOK
    <3> QED BY <3>1, <3>2, <3>3, LastRule DEF TypeOK
  <2> QED BY <2>1, <2>3, RulesAre DEF Done, SawText, AddNoqaSilences
<1>3. CASE ~(changed /\ pass < PassLimit)
  <2>1. phase' = "fixed" /\ UNCHANGED <<pass, at, changed>>
    BY <1>3 DEF EndPass
  <2>2. TypeOK'
    BY <1>1, <2>1 DEF TypeOK
  <2>3. \A r : Finished(r)' <=> Finished(r)
    BY <1>1, SameFinished
  <2>4. Done'
    BY <1>1, <2>1, <2>3, RulesAre DEF Done
  <2> QED BY <2>1, <2>2, <2>4 DEF SawText, AddNoqaSilences
<1> QED BY <1>2, <1>3

LEMMA WriteFixedInv ==
  ASSUME Inv, WriteFixed
  PROVE  Inv'
<1> USE DEF Inv
<1>1. TypeOK'
  <2>1. changed' \in BOOLEAN /\ touched' \in BOOLEAN
    BY DEF WriteFixed
  <2>2. pass' \in 0..MaxPasses /\ at' \in 0..8 /\ events' \in 0..MaxEvents
    BY BoundsAssumption DEF WriteFixed, TypeOK
  <2>3. /\ text' \in Text /\ src' \in Text /\ opts' \in Options
        /\ phase' \in {"idle", "fix", "fixed", "linted", "annotated"}
        /\ \A v \in seen' : v.code \in AllCodes /\ v.line \in Lines
    BY NoTextType, NoOptionsType DEF WriteFixed, TypeOK
  <2> QED BY <2>1, <2>2, <2>3, LastRule DEF TypeOK
<1> QED BY <1>1, OnlyPhase DEF WriteFixed

LEMMA LintInv ==
  ASSUME Inv, Lint
  PROVE  Inv'
<1> USE DEF Inv
<1>1. PICK i \in BOOLEAN, why \in Whys : opts' = [NoOptions EXCEPT !.ignoreNoqa = i, !.why = why]
  BY DEF Lint
<1>2. opts' \in Options
  BY <1>1, NoOptionsType
<1>3. /\ seen' = Violations(text, opts'.ignoreNoqa)
      /\ phase' = "linted" /\ touched' = FALSE /\ events' = events + 1 /\ events < MaxEvents
      /\ UNCHANGED <<text, config, src, pass, at, changed>>
  BY DEF Lint
<1>4. \A v \in seen' : v.code \in AllCodes /\ v.line \in Lines
  BY <1>3, ViolationsType DEF TypeOK
<1>5. TypeOK'
  <2>1. changed' \in BOOLEAN /\ touched' \in BOOLEAN
    BY <1>3 DEF TypeOK
  <2>2. pass' \in 0..MaxPasses /\ at' \in 0..8 /\ events' \in 0..MaxEvents
    BY <1>3, BoundsAssumption, LastRule DEF TypeOK
  <2>3. /\ text' \in Text /\ src' \in Text /\ opts' \in Options
        /\ phase' \in {"idle", "fix", "fixed", "linted", "annotated"}
        /\ \A v \in seen' : v.code \in AllCodes /\ v.line \in Lines
    BY <1>2, <1>3, <1>4 DEF TypeOK
  <2> QED BY <2>1, <2>2, <2>3, LastRule DEF TypeOK
<1>6. SawText'
  <2>1. PICK U : U = text
    OBVIOUS
  <2>2. PICK j : j = opts'.ignoreNoqa
    OBVIOUS
  <2>3. Violations(text, j)' = Violations(U, j)
    BY <1>3, <2>1, SameViolations
  <2>4. Violations(text, opts.ignoreNoqa)' = Violations(text, j)'
    BY <2>2
  <2> QED BY <1>3, <2>1, <2>2, <2>3, <2>4 DEF SawText
<1> QED BY <1>3, <1>5, <1>6 DEF Done, AddNoqaSilences

LEMMA AnnotateInv ==
  ASSUME Inv, Annotate
  PROVE  Inv'
<1> USE DEF Inv
<1>1. /\ phase = "linted" /\ phase' = "annotated"
      /\ text' = [text EXCEPT !.comment = Annotated(@, seen, opts.why, Takes)]
      /\ UNCHANGED <<config, opts, src, pass, at, changed, seen, touched, events>>
  BY DEF Annotate
<1>2. opts.why \in Reasons /\ text \in Text /\ \A v \in seen : v.code \in AllCodes
  BY BoundsAssumption DEF TypeOK, Options
<1>3. text' \in Text
  BY <1>1, <1>2, AnnotatedType
<1>4. TypeOK'
  BY <1>1, <1>3 DEF TypeOK
<1>5. AddNoqaSilences'
  <2> SUFFICES ASSUME ~touched
               PROVE  /\ \A x \in ReportedFaults(text, FALSE)' : LineOf[x] \notin Takes
                      /\ Annotated(text.comment, Violations(text, opts.ignoreNoqa), opts.why, Takes)'
                           = text.comment'
    BY <1>1 DEF AddNoqaSilences
  <2>1. PICK T \in Text : T = text
    BY <1>2
  <2>2. PICK U \in Text : U = text'
    BY <1>3
  <2>3. PICK i : i = opts.ignoreNoqa
    OBVIOUS
  <2>4. PICK why \in Reasons : why = opts.why
    BY <1>2
  <2>5. seen = Violations(T, i)
    BY <1>1, <2>1, <2>3 DEF SawText
  <2>6. U.faults = T.faults /\ U.comment = Annotated(T.comment, Violations(T, i), why, Takes)
    <3>1. U = [T EXCEPT !.comment = Annotated(@, Violations(T, i), why, Takes)]
      BY <1>1, <2>1, <2>2, <2>4, <2>5
    <3> QED BY <3>1, TextParts
  <2>7. /\ \A x \in ReportedFaults(U, FALSE) : LineOf[x] \notin Takes
        /\ Annotated(U.comment, Violations(U, i), why, Takes) = U.comment
    BY <2>6, AnnotateSilences
  <2>8. ReportedFaults(text, FALSE)' = ReportedFaults(U, FALSE)
    BY <1>1, <2>2, SameViolations
  <2>9. Violations(text, opts.ignoreNoqa)' = Violations(U, i)
    <3>1. Violations(text, i)' = Violations(U, i)
      BY <1>1, <2>2, SameViolations
    <3> QED BY <1>1, <2>3, <3>1
  <2> QED BY <1>1, <2>2, <2>4, <2>7, <2>8, <2>9
<1> QED BY <1>1, <1>4, <1>5 DEF Done, SawText

LEMMA AnnotateDoneInv ==
  ASSUME Inv, AnnotateDone
  PROVE  Inv'
<1> USE DEF Inv
<1>1. TypeOK'
  BY NoOptionsType DEF AnnotateDone, TypeOK
<1> QED BY <1>1, OnlyPhase DEF AnnotateDone

LEMMA StutterInv ==
  ASSUME Inv, UNCHANGED vars
  PROVE  Inv'
<1> USE DEF Inv
<1>1. /\ UNCHANGED <<text, config, phase, opts, src, pass, at>>
      /\ UNCHANGED <<changed, seen, touched, events>>
  BY DEF vars
<1>2. TypeOK'
  BY <1>1 DEF TypeOK
<1>3. Done'
  <2>1. \A r : Finished(r)' <=> Finished(r)
    BY <1>1, SameFinished
  <2> QED BY <1>1, <2>1 DEF Done
<1>4. PICK U : U = text
  OBVIOUS
<1>5. \A i : /\ ReportedFaults(text, i)' = ReportedFaults(U, i)
             /\ Violations(text, i)' = Violations(U, i)
  BY <1>1, <1>4, SameViolations
<1>6. PICK j : j = opts.ignoreNoqa
  OBVIOUS
<1>7. Violations(text, opts.ignoreNoqa)' = Violations(text, opts.ignoreNoqa)
  <2>1. Violations(text, j)' = Violations(U, j)
    BY <1>5
  <2> QED BY <1>1, <1>4, <1>6, <2>1
<1>8. SawText'
  BY <1>1, <1>7 DEF SawText
<1>9. AddNoqaSilences'
  <2>1. ReportedFaults(text, FALSE)' = ReportedFaults(text, FALSE)
    BY <1>4, <1>5
  <2> QED BY <1>1, <1>7, <2>1 DEF AddNoqaSilences
<1> QED BY <1>1, <1>2, <1>3, <1>8, <1>9

(* The invariant holds of every state that can be reached.                 *)
THEOREM Invariant == Spec => []Inv
<1>1. Init => Inv
  BY InitInv
<1>2. Inv /\ [Next]_vars => Inv'
  BY EditInv, StartFixInv, FixRuleInv, EndPassInv, WriteFixedInv, LintInv, AnnotateInv,
     AnnotateDoneInv, StutterInv DEF Next, RunFix, AddNoqa
<1> QED BY <1>1, <1>2, PTL DEF Spec

-----------------------------------------------------------------------------
(* All variables are of the program's types: no rewriting of a comment     *)
(* makes a directive without codes and text, which would be a blanket one. *)
THEOREM FixTypeCorrect == Spec => []TypeOK
<1>1. Inv => TypeOK
  BY DEF Inv
<1> QED BY <1>1, Invariant, PTL

(* After --add-noqa a check reports none of what was reported on lines     *)
(* that can take a comment, and a second run has nothing to add.           *)
THEOREM AddNoqaAlwaysSilences == Spec => []AddNoqaSilences
<1>1. Inv => AddNoqaSilences
  BY DEF Inv
<1> QED BY <1>1, Invariant, PTL

(* The engine, KPT and KST together let no fix remove a fault that the     *)
(* selection, a comment, --unsafe-fixes or the target of a quick fix       *)
(* protects.                                                               *)
THEOREM FixesAlwaysPermitted == Spec => FixesOnlyPermitted
<1>1. Inv /\ [Next]_vars =>
        [FixRule => \A x \in src.faults \ src'.faults :
           /\ Permitted(x)
           /\ Wants(CodeOf[x], LineOf[x])
           /\ ~opts.ignoreNoqa /\ RuleOf(CodeOf[x]) # "KPT" => ~Silenced(x, src)]_vars
  <2> SUFFICES ASSUME Inv, FixRule, NEW x \in src.faults \ src'.faults
               PROVE  /\ Permitted(x)
                      /\ Wants(CodeOf[x], LineOf[x])
                      /\ ~opts.ignoreNoqa /\ RuleOf(CodeOf[x]) # "KPT" => ~Silenced(x, src)
    OBVIOUS
  <2>1. src \in Text /\ Rules[at] \in RuleNames
    BY RulesAre DEF Inv, TypeOK, FixRule
  <2>2. Called(Rules[at]) /\ src' = FixBy(Rules[at], src)
    BY DEF FixRule
  <2> QED BY <2>1, <2>2, FixByPermitted
<1> QED BY <1>1, Invariant, PTL DEF Spec, FixesOnlyPermitted

(* What a comment silences it silences after --add-noqa, and a reason that *)
(* is there stays.                                                         *)
THEOREM AnnotatingKeeps == Spec => AnnotateKeeps
<1>1. Inv /\ [Next]_vars =>
        [Annotate => \A l \in Lines : text.comment[l] # NoComment =>
           /\ \A c \in Codes : HasNoqa(text.comment[l], c) => HasNoqa(text'.comment[l], c)
           /\ text.comment[l].reason # "none" => text'.comment[l].reason = text.comment[l].reason]_vars
  <2> SUFFICES ASSUME Inv, Annotate, NEW l \in Lines, text.comment[l] # NoComment
               PROVE  /\ \A c \in Codes : HasNoqa(text.comment[l], c) => HasNoqa(text'.comment[l], c)
                      /\ text.comment[l].reason # "none"
                           => text'.comment[l].reason = text.comment[l].reason
    OBVIOUS
  <2>1. /\ text \in Text /\ opts.why \in Reasons
        /\ \A v \in seen : v.code \in AllCodes
    BY BoundsAssumption DEF Inv, TypeOK, Options
  <2>2. text'.comment = Annotated(text.comment, seen, opts.why, Takes)
    BY <2>1, TextParts DEF Annotate
  <2> DEFINE d == Annotated(text.comment, seen, opts.why, Takes)[l]
  <2>3. /\ \A code : HasNoqa(text.comment[l], code) => HasNoqa(d, code)
        /\ text.comment[l] # NoComment /\ text.comment[l].reason # "none"
             => d.reason = text.comment[l].reason
    BY <2>1, AnnotatedKeeps
  <2>4. text'.comment[l] = d
    BY <2>2
  <2> HIDE DEF d
  <2> QED BY <2>3, <2>4
<1> QED BY <1>1, Invariant, PTL DEF Spec, AnnotateKeeps

(* A run that ends with a pass in which nothing changed leaves nothing     *)
(* undone, if the fixes of each rule settle.                               *)
THEOREM ConvergedAlwaysClean ==
  ASSUME RulesSettle
  PROVE  Spec => []ConvergedIsClean
<1>1. Inv => ConvergedIsClean
  <2> SUFFICES ASSUME Inv, phase = "fixed", opts.target = NoTarget, ~changed
               PROVE  /\ \A x \in ReportedFaults(src, opts.ignoreNoqa) :
                           Permitted(x) => Rejected(RuleOf(CodeOf[x]), src)
                      /\ \A r \in {"KNQ002", "KNQ003"} :
                           Active(r) /\ CanFix(r) => KnqLines(r, src) = {}
    BY DEF ConvergedIsClean
  <2>1. src \in Text
    BY DEF Inv, TypeOK
  <2>2. \A r \in RuleNames : Finished(r)
    <3>1. \A k \in 1..7 : Finished(Rules[k])
      BY RulesAre DEF Inv, Done
    <3> QED BY <3>1, RulesAre
  <2>3. ASSUME NEW x \in ReportedFaults(src, opts.ignoreNoqa), Permitted(x)
        PROVE  Rejected(RuleOf(CodeOf[x]), src)
    <3> DEFINE r == RuleOf(CodeOf[x])
    <3>1. x \in Faults
      BY <2>1, TextParts DEF ReportedFaults, Kept, Found
    <3>2. r \in {"KIS001", "KIS002", "KPT", "KST"} /\ r \in RuleNames
      BY <3>1, CodeRules DEF RuleNames
    <3>3. Called(r)
      <4>1. CASE GatesPerViolation(r)
        BY <4>1 DEF Called, Active, GatesPerViolation
      <4>2. CASE ~GatesPerViolation(r)
        <5>1. r = CodeOf[x] /\ Active(r)
          BY <2>3, <3>1, <4>2, CodeRules DEF Permitted
        <5>2. r = "KIS002" => x \in UnsafeFix
          BY <3>1, <5>1, RulesAssumption
        <5> QED BY <2>3, <5>1, <5>2 DEF Called, Permitted
      <4> QED BY <4>1, <4>2
    <3>4. Rejected(r, src) \/ FixBy(r, src) = src
      BY <2>2, <3>2, <3>3 DEF Finished
    <3> QED BY <2>1, <2>3, <3>2, <3>3, <3>4, FixBySettles
  <2>4. ASSUME NEW r \in {"KNQ002", "KNQ003"}, Active(r), CanFix(r)
        PROVE  KnqLines(r, src) = {}
    <3>1. r \in RuleNames /\ Called(r)
      BY <2>4 DEF RuleNames, Called
    <3>2. ~Rejected(r, src)
      <4>1. FixBy(r, src).faults = src.faults
        BY <2>1, <2>4, FixCommentsType DEF FixBy
      <4> QED BY <4>1 DEF Rejected
    <3>3. FixBy(r, src) = src
      BY <2>2, <3>1, <3>2 DEF Finished
    <3> QED BY <2>1, <2>4, <3>1, <3>3, FixBySettles
  <2> QED BY <2>3, <2>4
<1> QED BY <1>1, Invariant, PTL

=============================================================================
