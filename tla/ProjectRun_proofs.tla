-------------------------- MODULE ProjectRun_proofs --------------------------
(***************************************************************************)
(* Proofs about ProjectRun: what a command reports, removes and rewrites,  *)
(* whatever users did before it, for any files, configurations, command    *)
(* lines and rules.                                                        *)
(***************************************************************************)
EXTENDS ProjectRun, TLAPS

-----------------------------------------------------------------------------
(* Paths.                                                                  *)
LEMMA FromTheRoot ==
  ASSUME NEW f \in Files
  PROVE  Under(Root, f) /\ Below(Root, f) = f /\ IsPrefix(Root, Root)
<1>1. f \in Seq(STRING)
  BY FilesAssumption
<1>2. Len(Root) = 0
  BY DEF Root
<1>3. SubSeq(f, 1, Len(f)) = f
  BY <1>1
<1>4. SubSeq(Root, 1, 0) = SubSeq(f, 1, 0)
  BY <1>1 DEF Root
<1> QED BY <1>1, <1>2, <1>3, <1>4 DEF Under, Below, IsPrefix

(* A relative path is no absolute one.                                     *)
LEMMA RelativePath ==
  ASSUME NEW f \in Files, NEW from \in Seq(STRING)
  PROVE  Below(from, f) # <<"/">> \o f
<1>1. f \in Seq(STRING)
  BY FilesAssumption
<1>2. Len(<<"/">> \o f) = Len(f) + 1
  BY <1>1
<1>3. Len(Below(from, f)) <= Len(f)
  <2> DEFINE n == Len(from)
  <2>1. n \in Nat /\ Len(f) \in Nat
    BY <1>1
  <2>2. \A i \in n + 1 .. Len(f) : f[i] \in STRING
    BY <1>1
  <2>3. Len(SubSeq(f, n + 1, Len(f))) = IF n + 1 <= Len(f) THEN Len(f) - n ELSE 0
    BY <1>1, <2>1
  <2> QED BY <2>1, <2>3 DEF Below
<1> QED BY <1>1, <1>2, <1>3

(* With absolute paths from the root only, the path as it is spelled tells *)
(* which globs match.                                                      *)
LEMMA IgnoredByPath ==
  ASSUME AbsoluteFromRoot, NEW s, NEW a \in CommandLines, NEW f \in Files, NEW code
  PROVE  PerFileIgnored(s, a, f, code) <=>
           \E i \in s.perFile :
             /\ i.glob = Spelled(f, a) \/ (Spelled(f, a) = <<"/">> \o f /\ i.glob = f)
             /\ \E t \in i.codes : code \in StartsWith[t]
<1>1. CASE a.absolute
  <2>1. a.from = Root /\ Below(a.from, f) = f
    BY <1>1, FromTheRoot DEF AbsoluteFromRoot
  <2>2. Spelled(f, a) = <<"/">> \o f
    BY <1>1 DEF Spelled
  <2> QED BY <1>1, <2>1, <2>2 DEF PerFileIgnored
<1>2. CASE ~a.absolute
  <2>1. Spelled(f, a) # <<"/">> \o f
    BY <1>2, RelativePath, CommandLinesAssumption DEF Spelled
  <2> QED BY <1>2, <2>1 DEF PerFileIgnored
<1> QED BY <1>1, <1>2

-----------------------------------------------------------------------------
(* What a key of the cache says of the run that made it.                   *)
KeySelection(k) ==
  [select |-> {x.code : x \in {y \in k.select : ~y.plus}},
   extend |-> {x.code : x \in {y \in k.select : y.plus}},
   ignore |-> k.ignore]

KeyFixable(k, code) ==
  IsEnabled([select |-> k.rules.fixable, extend |-> {}, ignore |-> k.rules.unfixable], code)

(* What a run whose key is k finds in the file f by its path p.            *)
FoundBy(k, p, f, left) ==
  {[rule |-> v.rule, line |-> v.line, level |-> k.rules.levels[v.rule], unsafe |-> v.unsafe,
    fixable |-> v.fixable /\ KeyFixable(k, v.rule)] :
      v \in {v \in left :
               /\ k.env \in v.roots
               /\ RunsRule(KeySelection(k), v.rule, v.rule \in OptIn)
               /\ ~v.silenced
               /\ ~\E i \in k.rules.perFile :
                     /\ i.glob = p \/ (p = <<"/">> \o f /\ i.glob = f)
                     /\ \E t \in i.codes : v.rule \in StartsWith[t]}}

LEMMA SelectionOfKey ==
  ASSUME NEW s, NEW a
  PROVE  KeySelection(SettingsHash(s, a)) = Chosen(s)
<1> DEFINE K == SelectionKey(s)
<1>1. SettingsHash(s, a).select = K /\ SettingsHash(s, a).ignore = s.ignore
  BY DEF SettingsHash
<1>2. {x.code : x \in {y \in K : ~y.plus}} = s.select
  <2>1. \A y \in K : ~y.plus => y.code \in s.select
    BY DEF SelectionKey
  <2>2. ASSUME NEW c \in s.select PROVE \E y \in K : ~y.plus /\ y.code = c
    <3>1. [code |-> c, plus |-> FALSE] \in K
      BY DEF SelectionKey
    <3> QED BY <3>1
  <2> QED BY <2>1, <2>2
<1>3. {x.code : x \in {y \in K : y.plus}} = s.extend
  <2>1. \A y \in K : y.plus => y.code \in s.extend
    BY DEF SelectionKey
  <2>2. ASSUME NEW c \in s.extend PROVE \E y \in K : y.plus /\ y.code = c
    <3>1. [code |-> c, plus |-> TRUE] \in K
      BY DEF SelectionKey
    <3> QED BY <3>1
  <2> QED BY <2>1, <2>2
<1> HIDE DEF K
<1> QED BY <1>1, <1>2, <1>3 DEF KeySelection, Chosen

(* The key and the path tell everything that results depend on.            *)
LEMMA KeyTellsAll ==
  ASSUME AbsoluteFromRoot, NEW s, NEW a \in CommandLines, NEW f \in Files, ~Uncached(a)
  PROVE  Lint(s, a, f) = FoundBy(SettingsHash(s, a), Spelled(f, a), f, text[f].left)
<1> DEFINE k == SettingsHash(s, a)
<1>1. KeySelection(k) = Chosen(s)
  BY SelectionOfKey
<1>2. /\ k.rules.levels = s.levels /\ k.rules.perFile = s.perFile
      /\ k.rules.fixable = s.fixable /\ k.rules.unfixable = s.unfixable
      /\ k.env = s.src
  BY DEF SettingsHash, RulesFingerprint, EnvFingerprint
<1>3. \A c : KeyFixable(k, c) = Fixable(s, c)
  BY <1>2 DEF KeyFixable, Fixable
<1> HIDE DEF k
<1>4. ~a.ignoreNoqa
  BY DEF Uncached
<1>5. \A c : PerFileIgnored(s, a, f, c) <=>
         \E i \in k.rules.perFile :
           /\ i.glob = Spelled(f, a) \/ (Spelled(f, a) = <<"/">> \o f /\ i.glob = f)
           /\ \E t \in i.codes : c \in StartsWith[t]
  BY <1>2, IgnoredByPath
<1>6. {v \in text[f].left :
         /\ s.src \in v.roots
         /\ RunsRule(Chosen(s), v.rule, v.rule \in OptIn)
         /\ a.ignoreNoqa \/ ~v.silenced
         /\ ~PerFileIgnored(s, a, f, v.rule)}
      = {v \in text[f].left :
         /\ k.env \in v.roots
         /\ RunsRule(KeySelection(k), v.rule, v.rule \in OptIn)
         /\ ~v.silenced
         /\ ~\E i \in k.rules.perFile :
               /\ i.glob = Spelled(f, a) \/ (Spelled(f, a) = <<"/">> \o f /\ i.glob = f)
               /\ \E t \in i.codes : v.rule \in StartsWith[t]}
  BY <1>1, <1>2, <1>4, <1>5
<1> QED BY <1>2, <1>3, <1>6 DEF Lint, FoundBy, k


-----------------------------------------------------------------------------
(* What no command breaks.                                                 *)
TextOK ==
  text \in [Files -> [there : BOOLEAN, left : SUBSET UNION {Raw[f] : f \in Files}, stamp : Nat]]

DocSet == [konform : Document, pyproject : Document, ruff : Document, patterns : BOOLEAN]
DocsOK == docs \in DocSet

RunOK ==
  /\ run.pc = "check" => run.args \in CommandLines
  /\ run.pc = "cleaned" => run.from \in Paths

Sound ==
  /\ TextOK /\ DocsOK /\ RunOK
  /\ Root \in Paths
  /\ report.foreign \in BOOLEAN
  /\ \A e \in cache : e.stamp \in Nat

LEMMA InitSound == Init => Sound
<1> SUFFICES ASSUME Init PROVE Sound
  OBVIOUS
<1>1. TextOK
  BY DEF Init, TextOK
<1>2. DocsOK
  BY DocumentsAssumption DEF InDocuments, Init, DocsOK, DocSet
<1>3. RunOK
  BY DEF Init, RunOK, Idle
<1>4. Root \in Paths
  <2>1. [path |-> Root, tag |-> FALSE] \in dirs
    BY DEF Init
  <2> QED BY <2>1 DEF Paths
<1>5. report.foreign \in BOOLEAN /\ \A e \in cache : e.stamp \in Nat
  BY OldReportsAssumption DEF Init
<1> QED BY <1>1, <1>2, <1>3, <1>4, <1>5 DEF Sound

-----------------------------------------------------------------------------
(* `init` makes no file that a user could not have written, and without    *)
(* --force it changes no setting but src.                                  *)
LEMMA TemplateIsDocument ==
  Template \in Document /\ Template.kind = "toml" /\ Template.konform # "none"
    /\ Template.settings = NoSettings /\ Template.ruffSrc = NoSrc
BY DEF Template, AbsentDoc, Document

LEMMA PatchedDocument ==
  ASSUME NEW doc \in Document
  PROVE  /\ WithKonformTable(doc) \in Document /\ PatchRuffConfig(doc) \in Document
         /\ doc.lint # "keys" => /\ PatchRuffConfig(doc).kind = doc.kind
                                 /\ PatchRuffConfig(doc).konform = doc.konform
                                 /\ PatchRuffConfig(doc).settings = doc.settings
                                 /\ PatchRuffConfig(doc).ruffSrc = doc.ruffSrc
         /\ doc.konform # "keys" => /\ WithKonformTable(doc).kind = doc.kind
                                    /\ WithKonformTable(doc).konform = "header"
                                    /\ WithKonformTable(doc).settings = NoSettings
                                    /\ WithKonformTable(doc).ruffSrc = doc.ruffSrc
         /\ WithKonformTable(doc).lint = doc.lint
BY DEF Document, WithKonformTable, PatchRuffConfig, WithExternal

(* The documents after `init`.                                             *)
InitDocs(d, force, noPatterns, diff) ==
  LET configured == InitConfig(d, force)
      patterned == IF noPatterns THEN configured ELSE InitPatterns(configured)
  IN  IF diff THEN d ELSE InitRuffCompat(patterned)

LEMMA InitKeepsDocs ==
  ASSUME NEW d \in DocSet, NEW force \in BOOLEAN, NEW noPatterns \in BOOLEAN, NEW diff \in BOOLEAN
  PROVE  InitDocs(d, force, noPatterns, diff) \in DocSet
<1> DEFINE configured == InitConfig(d, force)
           patterned == IF noPatterns THEN configured ELSE InitPatterns(configured)
<1>1. configured \in DocSet
  BY TemplateIsDocument, PatchedDocument DEF DocSet, InitConfig
<1> HIDE DEF configured
<1>2. patterned \in DocSet
  BY <1>1 DEF DocSet, InitPatterns
<1> HIDE DEF patterned
<1>3. InitRuffCompat(patterned) \in DocSet
  BY <1>2, PatchedDocument DEF DocSet, InitRuffCompat
<1> QED BY <1>3 DEF InitDocs, patterned, configured

(* The configuration that a run finds, of the documents d.                 *)
ConfigOf(d) == IF d.konform.kind # "absent" THEN d.konform ELSE d.pyproject

(* The settings that a run takes from the file doc.                        *)
SettingsIn(doc) ==
  IF HasSection(doc) THEN [doc.settings EXCEPT !.src = SrcOf(doc)] ELSE Defaults

(* c has the settings of b, and is broken when b is.                       *)
SameSettings(b, c) == SettingsIn(c) = SettingsIn(b) /\ (c.kind = "garbled" <=> b.kind = "garbled")

(* The src of ruff's table comes in with a konform table.                  *)
RuffSrcComes(d) ==
  /\ d.konform.kind = "absent"
  /\ d.pyproject.kind = "toml" /\ d.pyproject.konform = "none"
  /\ d.pyproject.ruffSrc # NoSrc

(* A konform table that sets nothing leaves the defaults, but for src.     *)
LEMMA EmptyTable ==
  ASSUME NEW doc, HasSection(doc), doc.settings = NoSettings
  PROVE  SettingsIn(doc) = IF doc.ruffSrc # NoSrc THEN [Defaults EXCEPT !.src = doc.ruffSrc] ELSE Defaults
<1>1. NoSettings.src = NoSrc /\ DOMAIN NoSettings = DOMAIN Defaults
  BY DefaultsAssumption DEF NoSettings
<1>2. SrcOf(doc) = IF doc.ruffSrc # NoSrc THEN doc.ruffSrc ELSE Defaults.src
  BY <1>1 DEF SrcOf
<1>3. \A roots : [NoSettings EXCEPT !.src = roots] = [Defaults EXCEPT !.src = roots]
  BY DefaultsAssumption DEF NoSettings
<1>4. [Defaults EXCEPT !.src = Defaults.src] = Defaults
  BY DefaultsAssumption
<1> QED BY <1>2, <1>3, <1>4 DEF SettingsIn

LEMMA InitSettings ==
  ASSUME NEW d \in DocSet, NEW noPatterns \in BOOLEAN,
         d.pyproject.konform # "keys", d.pyproject.lint # "keys"
  PROVE  LET b == ConfigOf(d)
             c == ConfigOf(InitDocs(d, FALSE, noPatterns, FALSE))
         IN  /\ c.kind = "garbled" <=> b.kind = "garbled"
             /\ SettingsIn(c) = IF RuffSrcComes(d)
                               THEN [SettingsIn(b) EXCEPT !.src = d.pyproject.ruffSrc]
                               ELSE SettingsIn(b)
<1> DEFINE configured == InitConfig(d, FALSE)
           patterned == IF noPatterns THEN configured ELSE InitPatterns(configured)
<1>1. configured \in DocSet
  BY TemplateIsDocument, PatchedDocument DEF DocSet, InitConfig
<1> DEFINE After(doc) ==
             /\ doc.kind = "garbled" <=> ConfigOf(d).kind = "garbled"
             /\ SettingsIn(doc) = IF RuffSrcComes(d)
                                 THEN [SettingsIn(ConfigOf(d)) EXCEPT !.src = d.pyproject.ruffSrc]
                                 ELSE SettingsIn(ConfigOf(d))
<1>2. After(ConfigOf(configured)) /\ configured.pyproject.lint # "keys"
  <2>1. CASE d.konform.kind # "absent"
    BY <2>1 DEF InitConfig, RuffSrcComes, ConfigOf
  <2>2. CASE d.konform.kind = "absent" /\ d.pyproject.kind # "absent"
    <3>1. CASE HasKonformTable(d.pyproject)
      BY <2>2, <3>1 DEF InitConfig, RuffSrcComes, ConfigOf, HasKonformTable
    <3>2. CASE ~HasKonformTable(d.pyproject)
      <4>1. configured = [d EXCEPT !.pyproject = WithKonformTable(@)]
        BY <2>2, <3>2 DEF InitConfig
      <4>2. configured.konform = d.konform /\ configured.pyproject = WithKonformTable(d.pyproject)
        BY <4>1 DEF DocSet
      <4>3. d.pyproject \in Document /\ d.pyproject.konform = "none"
        BY <3>2 DEF DocSet, Document, HasKonformTable
      <4>4. /\ configured.pyproject.kind = d.pyproject.kind
            /\ configured.pyproject.konform = "header"
            /\ configured.pyproject.settings = NoSettings
            /\ configured.pyproject.ruffSrc = d.pyproject.ruffSrc
            /\ configured.pyproject.lint = d.pyproject.lint
        BY <4>2, <4>3, PatchedDocument
      <4>5. ConfigOf(d) = d.pyproject /\ ConfigOf(configured) = configured.pyproject
        BY <2>2, <4>2 DEF ConfigOf
      <4> HIDE DEF configured
      <4>6. SettingsIn(d.pyproject) = Defaults
        BY <4>3 DEF SettingsIn, HasSection
      <4>7. CASE d.pyproject.kind = "toml"
        <5>1. HasSection(configured.pyproject)
          BY <4>4, <4>7 DEF HasSection
        <5> QED BY <2>2, <4>3, <4>4, <4>5, <4>6, <4>7, <5>1, EmptyTable DEF RuffSrcComes
      <4>8. CASE d.pyproject.kind # "toml"
        <5>1. SettingsIn(configured.pyproject) = Defaults
          BY <4>4, <4>8 DEF SettingsIn, HasSection
        <5> QED BY <4>4, <4>5, <4>6, <4>8, <5>1 DEF RuffSrcComes
      <4> QED BY <4>7, <4>8
    <3> QED BY <3>1, <3>2
  <2>3. CASE d.konform.kind = "absent" /\ d.pyproject.kind = "absent"
    <3>1. configured = [d EXCEPT !.konform = Template]
      BY <2>3 DEF InitConfig
    <3>2. configured.konform = Template /\ configured.pyproject = d.pyproject
      BY <3>1 DEF DocSet
    <3>3. SettingsIn(Template) = Defaults
      BY TemplateIsDocument, EmptyTable DEF HasSection
    <3>4. SettingsIn(d.pyproject) = Defaults
      BY <2>3 DEF SettingsIn, HasSection
    <3>5. ConfigOf(d) = d.pyproject /\ ConfigOf(configured) = Template
      BY <2>3, <3>2, TemplateIsDocument DEF ConfigOf
    <3> HIDE DEF configured
    <3> QED BY <2>3, <3>2, <3>3, <3>4, <3>5, TemplateIsDocument DEF RuffSrcComes
  <2> QED BY <2>1, <2>2, <2>3
<1> HIDE DEF configured
<1>3. /\ patterned \in DocSet /\ patterned.pyproject.lint # "keys"
      /\ patterned.konform = configured.konform /\ patterned.pyproject = configured.pyproject
  BY <1>1, <1>2 DEF DocSet, InitPatterns
<1> HIDE DEF patterned
<1>4. SameSettings(ConfigOf(patterned), ConfigOf(InitRuffCompat(patterned)))
  <2>1. CASE InitRuffCompat(patterned) = [patterned EXCEPT !.pyproject = PatchRuffConfig(@)]
    <3>1. /\ InitRuffCompat(patterned).konform = patterned.konform
          /\ InitRuffCompat(patterned).pyproject = PatchRuffConfig(patterned.pyproject)
          /\ patterned.pyproject \in Document
      BY <1>3, <2>1 DEF DocSet
    <3> QED BY <1>3, <3>1, PatchedDocument DEF SameSettings, SettingsIn, HasSection, SrcOf, ConfigOf
  <2>2. CASE InitRuffCompat(patterned) = [patterned EXCEPT !.ruff = PatchRuffConfig(@)]
    <3>1. /\ InitRuffCompat(patterned).konform = patterned.konform
          /\ InitRuffCompat(patterned).pyproject = patterned.pyproject
      BY <1>3, <2>2 DEF DocSet
    <3> QED BY <3>1 DEF SameSettings, ConfigOf
  <2>3. CASE InitRuffCompat(patterned) = patterned
    BY <2>3 DEF SameSettings
  <2> QED BY <2>1, <2>2, <2>3 DEF InitRuffCompat
<1>5. After(ConfigOf(InitRuffCompat(patterned)))
  <2>1. ConfigOf(patterned) = ConfigOf(configured)
    BY <1>3 DEF ConfigOf
  <2> QED BY <1>2, <1>4, <2>1 DEF SameSettings
<1>6. InitDocs(d, FALSE, noPatterns, FALSE) = InitRuffCompat(patterned)
  BY DEF InitDocs, patterned, configured
<1> QED BY <1>5, <1>6


-----------------------------------------------------------------------------
(* The invariant, command by command.                                      *)
LEMMA SameSound ==
  ASSUME Sound, UNCHANGED <<docs, text, dirs, cache>>, run' = run \/ run'.pc \notin {"check", "cleaned"},
         report'.foreign \in BOOLEAN
  PROVE  Sound'
<1>1. Paths' = Paths
  BY DEF Paths
<1>2. TextOK' /\ DocsOK'
  BY DEF Sound, TextOK, DocsOK
<1>3. RunOK'
  BY <1>1 DEF Sound, RunOK
<1> QED BY <1>1, <1>2, <1>3 DEF Sound

LEMMA TaggedPaths ==
  ASSUME Root \in Paths, NEW path, dirs' = dirs \/ dirs' = WithCacheDir(dirs, path)
  PROVE  Root \in Paths'
<1>1. PICK d \in dirs : d.path = Root
  BY DEF Paths
<1>2. CASE path = Root /\ dirs' = WithCacheDir(dirs, path)
  <2>1. [path |-> Root, tag |-> TRUE] \in dirs'
    BY <1>2 DEF WithCacheDir
  <2> QED BY <2>1 DEF Paths
<1>3. CASE path # Root \/ dirs' = dirs
  <2>1. d \in dirs'
    BY <1>1, <1>3 DEF WithCacheDir
  <2> QED BY <1>1, <2>1 DEF Paths
<1> QED BY <1>2, <1>3

LEMMA BeginRuns ==
  ASSUME NEW a, Begin(a)
  PROVE  run'.pc = "done" \/ (run'.pc = "check" /\ run'.args = a)
<1>1. \/ Ends(0) \/ Ends(1)
      \/ run' = [pc |-> "check", args |-> a, settings |-> SettingsOf(a), found |-> {}]
  BY Zenon DEF Begin
<1> QED BY <1>1 DEF Ends

LEMMA BeginSound ==
  ASSUME Sound, NEW a \in CommandLines, Begin(a)
  PROVE  Sound' /\ \A f \in Files : /\ text'[f].there = text[f].there
                                    /\ \/ text'[f].stamp = text[f].stamp /\ text'[f].left = text[f].left
                                       \/ text'[f].stamp = text[f].stamp + 1
<1> DEFINE s == SettingsOf(a)
           fixed == {f \in Targets(s, a) : (a.fix \/ a.fixOnly) /\ Fixes(s, a, f) # {}}
<1>a. /\ text' = [f \in Files |->
                   IF f \in fixed THEN [text[f] EXCEPT !.left = @ \ Fixes(s, a, f), !.stamp = @ + 1]
                   ELSE text[f]]
      /\ UNCHANGED <<docs, cache, report>>
      /\ dirs' = WithCacheDir(dirs, s.cacheDir)
  BY DEF Begin, Proceeds
<1> HIDE DEF fixed, s
<1>1. /\ UNCHANGED <<docs, cache, report>> /\ dirs' = WithCacheDir(dirs, s.cacheDir)
      /\ run'.pc = "done" \/ (run'.pc = "check" /\ run'.args = a)
  BY <1>a, BeginRuns
<1>2. ASSUME NEW f \in Files
      PROVE  /\ text'[f] \in [there : BOOLEAN, left : SUBSET UNION {Raw[g] : g \in Files}, stamp : Nat]
             /\ text'[f].there = text[f].there
             /\ \/ text'[f].stamp = text[f].stamp /\ text'[f].left = text[f].left
                \/ text'[f].stamp = text[f].stamp + 1
  <2> DEFINE L == UNION {Raw[g] : g \in Files}
  <2>1. text[f] \in [there : BOOLEAN, left : SUBSET L, stamp : Nat]
    BY DEF Sound, TextOK
  <2> HIDE DEF L
  <2>2. CASE f \notin fixed
    BY <1>a, <2>1, <2>2 DEF L
  <2>3. CASE f \in fixed
    <3> DEFINE gone == Fixes(s, a, f)
    <3>1. text'[f] = [text[f] EXCEPT !.left = @ \ gone, !.stamp = @ + 1]
      BY <1>a, <2>3
    <3> HIDE DEF gone
    <3>2. text'[f] = [there |-> text[f].there, left |-> text[f].left \ gone, stamp |-> text[f].stamp + 1]
      BY <2>1, <3>1
    <3>3. text[f].there \in BOOLEAN /\ text[f].left \ gone \in SUBSET L
      BY <2>1
    <3>4. text[f].stamp + 1 \in Nat
      BY <2>1
    <3> QED BY <3>2, <3>3, <3>4 DEF L
  <2> QED BY <2>2, <2>3
<1>3. TextOK'
  BY <1>a, <1>2 DEF TextOK
<1>4. RunOK' /\ DocsOK'
  BY <1>1 DEF Sound, RunOK, DocsOK
<1>5. Root \in Paths'
  BY <1>1, TaggedPaths DEF Sound
<1> QED BY <1>1, <1>2, <1>3, <1>4, <1>5 DEF Sound

LEMMA CheckSound ==
  ASSUME Sound, Check
  PROVE  Sound'
<1> DEFINE a == run.args
           s == run.settings
           new == {Entry(s, a, f, Results(s, a, f)) : f \in Targets(s, a)}
<1>1. /\ cache' = Stored(s, a, new)
      /\ run'.pc = "reported"
      /\ UNCHANGED <<docs, text, dirs>>
  BY DEF Check
<1>2. report'.foreign \in BOOLEAN
  BY DEF Check, Sound, WriteZuulReturn
<1>3. \A e \in cache' : e.stamp \in Nat
  <2>1. \A f \in Files : text[f].stamp \in Nat
    BY DEF Sound, TextOK
  <2>2. \A e \in new : e.stamp \in Nat
    BY <2>1 DEF Entry, Targets
  <2> HIDE DEF new
  <2> QED BY <1>1, <2>2 DEF Stored, Sound
<1>4. Paths' = Paths
  BY <1>1 DEF Paths
<1> QED BY <1>1, <1>2, <1>3, <1>4 DEF Sound, TextOK, DocsOK, RunOK

(* `clean` removes only below a tagged directory that is neither the root  *)
(* nor one that it is run in or below.                                     *)
LEMMA CleanSound ==
  ASSUME Sound, NEW from, Clean(from)
  PROVE  /\ Sound'
         /\ from \in Paths' /\ run'.from = from
         /\ cache' \subseteq cache
         /\ \A f \in Files :
              /\ text'[f].left = text[f].left /\ text'[f].stamp = text[f].stamp
              /\ text[f].there /\ ~text'[f].there =>
                   \E d \in dirs : d.tag /\ d.path # Root /\ IsPrefix(d.path, f)
<1> DEFINE path == CleanPath(from)
           removes == path \in Paths /\ ~CleanRefusal(path, from)
<1>1. /\ from \in Paths
      /\ dirs' = {d \in dirs : ~(removes /\ IsPrefix(path, d.path))}
      /\ cache' = {e \in cache : ~(removes /\ IsPrefix(path, e.dir))}
      /\ text' = [f \in Files |-> [text[f] EXCEPT !.there = @ /\ ~(removes /\ IsPrefix(path, f))]]
      /\ run'.pc = "cleaned" /\ run'.from = from
      /\ UNCHANGED <<docs, report>>
  BY DEF Clean
<1>2. removes => ~IsPrefix(path, Root) /\ ~IsPrefix(path, from) /\ Tagged(path)
  BY DEF CleanRefusal
<1> HIDE DEF removes, path
<1>3. ASSUME NEW p \in Paths, removes => ~IsPrefix(path, p)
      PROVE  p \in Paths'
  BY <1>1, <1>3 DEF Paths
<1>4. Root \in Paths' /\ from \in Paths'
  BY <1>1, <1>2, <1>3 DEF Sound
<1>5. ASSUME NEW f \in Files
      PROVE  /\ text'[f] \in [there : BOOLEAN, left : SUBSET UNION {Raw[g] : g \in Files}, stamp : Nat]
             /\ text'[f].left = text[f].left /\ text'[f].stamp = text[f].stamp
             /\ text'[f].there <=> text[f].there /\ ~(removes /\ IsPrefix(path, f))
  <2> DEFINE L == UNION {Raw[g] : g \in Files}
  <2>1. text[f] \in [there : BOOLEAN, left : SUBSET L, stamp : Nat]
    BY DEF Sound, TextOK
  <2> HIDE DEF L
  <2>2. PICK b \in BOOLEAN : b = (text[f].there /\ ~(removes /\ IsPrefix(path, f)))
    OBVIOUS
  <2>3. text'[f] = [there |-> b, left |-> text[f].left, stamp |-> text[f].stamp]
    BY <1>1, <2>1, <2>2
  <2>4. text[f].left \in SUBSET L /\ text[f].stamp \in Nat
    BY <2>1
  <2>5. text'[f] \in [there : BOOLEAN, left : SUBSET L, stamp : Nat]
    BY <2>3, <2>4
  <2>6. text'[f].there = b /\ text'[f].left = text[f].left /\ text'[f].stamp = text[f].stamp
    BY <2>3
  <2> QED BY <2>2, <2>5, <2>6 DEF L
<1>6. TextOK'
  BY <1>1, <1>5 DEF TextOK
<1>7. ASSUME NEW f \in Files, text[f].there, ~text'[f].there
      PROVE  \E d \in dirs : d.tag /\ d.path # Root /\ IsPrefix(d.path, f)
  <2>1. removes /\ IsPrefix(path, f)
    BY <1>5, <1>7
  <2>2. [path |-> path, tag |-> TRUE] \in dirs /\ path # Root
    BY <1>2, <2>1, FromTheRoot DEF Tagged
  <2> QED BY <2>1, <2>2
<1>8. RunOK' /\ DocsOK'
  BY <1>1, <1>4 DEF Sound, RunOK, DocsOK
<1> QED BY <1>1, <1>4, <1>5, <1>6, <1>7, <1>8 DEF Sound

LEMMA EditFileSound ==
  ASSUME Sound, NEW f \in Files, NEW left \in {{}, Raw[f]}, EditFile(f, left)
  PROVE  Sound' /\ \A g \in Files : /\ text'[g].there = text[g].there
                                    /\ \/ text'[g].stamp = text[g].stamp /\ text'[g].left = text[g].left
                                       \/ text'[g].stamp = text[g].stamp + 1
<1> DEFINE L == UNION {Raw[g] : g \in Files}
<1>1. /\ text' = [text EXCEPT ![f].left = left, ![f].stamp = @ + 1]
      /\ UNCHANGED <<docs, dirs, cache, report, run>>
  BY DEF EditFile
<1>2. left \in SUBSET L
  OBVIOUS
<1>3. text \in [Files -> [there : BOOLEAN, left : SUBSET L, stamp : Nat]]
  BY DEF Sound, TextOK
<1> HIDE DEF L
<1>4. text'[f] = [there |-> text[f].there, left |-> left, stamp |-> text[f].stamp + 1]
  BY <1>1, <1>3
<1>5. \A g \in Files : g # f => text'[g] = text[g]
  BY <1>1, <1>3
<1>6. text'[f] \in [there : BOOLEAN, left : SUBSET L, stamp : Nat]
  <2>1. text[f].there \in BOOLEAN
    BY <1>3
  <2>2. text[f].stamp + 1 \in Nat
    BY <1>3
  <2> QED BY <1>2, <1>4, <2>1, <2>2
<1>7. TextOK'
  <2>1. DOMAIN text' = Files /\ text' = [g \in Files |-> text'[g]]
    BY <1>1, <1>3
  <2>2. \A g \in Files : text'[g] \in [there : BOOLEAN, left : SUBSET L, stamp : Nat]
    BY <1>3, <1>5, <1>6
  <2> QED BY <2>1, <2>2 DEF TextOK, L
<1>8. Paths' = Paths
  BY <1>1 DEF Paths
<1>9. Sound'
  BY <1>1, <1>7, <1>8 DEF Sound, DocsOK, RunOK
<1>10. text'[f].there = text[f].there /\ text'[f].stamp = text[f].stamp + 1
  BY <1>4
<1> QED BY <1>5, <1>9, <1>10

LEMMA EditSettingsSound ==
  ASSUME Sound, NEW which \in {"konform", "pyproject", "ruff"}, NEW doc \in Documents[which],
         EditSettings(which, doc)
  PROVE  Sound'
<1>1. doc \in Document
  BY DocumentsAssumption DEF InDocuments
<1>2. DocsOK'
  BY <1>1 DEF EditSettings, Sound, DocsOK, DocSet
<1>3. Paths' = Paths
  BY DEF EditSettings, Paths
<1> QED BY <1>2, <1>3 DEF EditSettings, Sound, TextOK, RunOK

LEMMA InitCommandSound ==
  ASSUME Sound, NEW force \in BOOLEAN, NEW noPatterns \in BOOLEAN, NEW diff \in BOOLEAN,
         InitCommand(force, noPatterns, diff)
  PROVE  Sound' /\ docs' = InitDocs(docs, force, noPatterns, diff)
<1>1. /\ docs' = InitDocs(docs, force, noPatterns, diff)
      /\ run'.pc = "initialised" /\ UNCHANGED <<text, dirs, cache, report>>
  BY DEF InitCommand, InitDocs
<1>2. DocsOK'
  BY <1>1, InitKeepsDocs DEF Sound, DocsOK
<1>3. Paths' = Paths
  BY <1>1 DEF Paths
<1> QED BY <1>1, <1>2, <1>3 DEF Sound, TextOK, RunOK


(* The other steps leave all of this alone, the cache directory aside.     *)
LEMMA OtherSound ==
  ASSUME Sound,
         \/ \E a \in CommandLines : ShowSettings(a) \/ Refuse(a) \/ ShowFiles(a) \/ Diff(a)
         \/ Exit
         \/ \E mode \in {"list", "explain", "test", "none"}, found \in BOOLEAN : RuleCommand(mode, found)
         \/ Commit
         \/ UNCHANGED vars
  PROVE  Sound' /\ UNCHANGED <<docs, text, cache, report>>
<1>1. CASE \E a \in CommandLines : ShowSettings(a) \/ Refuse(a) \/ ShowFiles(a) \/ Diff(a)
  <2>1. PICK a \in CommandLines : ShowSettings(a) \/ Refuse(a) \/ ShowFiles(a) \/ Diff(a)
    BY <1>1
  <2>2. UNCHANGED <<docs, text, cache, report>> /\ run'.pc = "done"
    BY <2>1 DEF ShowSettings, Refuse, ShowFiles, Diff, Proceeds, Ends
  <2>3. dirs' = dirs \/ dirs' = WithCacheDir(dirs, SettingsOf(a).cacheDir)
    BY <2>1 DEF ShowSettings, Refuse, ShowFiles, Diff, Proceeds
  <2>4. Root \in Paths'
    BY <2>3, TaggedPaths DEF Sound
  <2> QED BY <2>2, <2>4 DEF Sound, TextOK, DocsOK, RunOK
<1>2. CASE Exit
  <2>1. UNCHANGED <<docs, text, dirs, cache, report>> /\ run'.pc = "idle"
    BY <1>2 DEF Exit, Idle
  <2> QED BY <2>1, SameSound DEF Sound
<1>3. CASE \E mode \in {"list", "explain", "test", "none"}, found \in BOOLEAN : RuleCommand(mode, found)
  <2>1. UNCHANGED <<docs, text, dirs, cache, report>> /\ run'.pc = "rule"
    BY <1>3 DEF RuleCommand
  <2> QED BY <2>1, SameSound DEF Sound
<1>4. CASE Commit \/ UNCHANGED vars
  <2>1. UNCHANGED <<docs, text, dirs, cache, report>> /\ run' = run
    BY <1>4 DEF Commit, vars
  <2> QED BY <2>1, SameSound DEF Sound
<1> QED BY <1>1, <1>2, <1>3, <1>4

(* The disjuncts of a step, as the lemmas above take them.                 *)
LEMMA Steps ==
  ASSUME [Next]_vars
  PROVE  \/ \E a \in CommandLines : Begin(a)
         \/ Check
         \/ \E from \in {a.from : a \in CommandLines} : Clean(from)
         \/ \E force, noPatterns, diff \in BOOLEAN : InitCommand(force, noPatterns, diff)
         \/ \E which \in {"konform", "pyproject", "ruff"} :
               \E doc \in Documents[which] : EditSettings(which, doc)
         \/ \E f \in Files : \E left \in {{}, Raw[f]} : EditFile(f, left)
         \/ \/ \E a \in CommandLines : ShowSettings(a) \/ Refuse(a) \/ ShowFiles(a) \/ Diff(a)
            \/ Exit
            \/ \E mode \in {"list", "explain", "test", "none"}, found \in BOOLEAN : RuleCommand(mode, found)
            \/ Commit
            \/ UNCHANGED vars
BY Zenon DEF Next, Command

LEMMA NextSound == Sound /\ [Next]_vars => Sound'
<1> SUFFICES ASSUME Sound, [Next]_vars PROVE Sound'
  OBVIOUS
<1>1. ASSUME NEW a \in CommandLines, Begin(a) PROVE Sound'
  BY <1>1, BeginSound
<1>2. CASE Check
  BY <1>2, CheckSound
<1>3. ASSUME NEW from, Clean(from) PROVE Sound'
  BY <1>3, CleanSound
<1>4. ASSUME NEW force \in BOOLEAN, NEW noPatterns \in BOOLEAN, NEW diff \in BOOLEAN,
             InitCommand(force, noPatterns, diff)
      PROVE  Sound'
  BY <1>4, InitCommandSound
<1>5. ASSUME NEW which \in {"konform", "pyproject", "ruff"}, NEW doc \in Documents[which],
             EditSettings(which, doc)
      PROVE  Sound'
  BY <1>5, EditSettingsSound
<1>6. ASSUME NEW f \in Files, NEW left \in {{}, Raw[f]}, EditFile(f, left) PROVE Sound'
  BY <1>6, EditFileSound
<1> QED BY <1>1, <1>2, <1>3, <1>4, <1>5, <1>6, OtherSound, Steps

-----------------------------------------------------------------------------
(* `clean` removes neither the repository nor the directory it is run from *)
(* (clean_refusal), and no file of a user but below a tagged directory.    *)
LEMMA CleanSpares ==
  ASSUME Sound, [Next]_vars
  PROVE  /\ {Root} \cup (IF run'.pc = "cleaned" THEN {run'.from} ELSE {}) \subseteq Paths'
         /\ \A f \in Files : text[f].there /\ ~text'[f].there =>
               \E d \in dirs : d.tag /\ d.path # Root /\ IsPrefix(d.path, f)
<1>1. Root \in Paths' /\ (run'.pc = "cleaned" => run'.from \in Paths')
  BY NextSound DEF Sound, RunOK
<1>2. ASSUME NEW f \in Files, text[f].there, ~text'[f].there
      PROVE  \E d \in dirs : d.tag /\ d.path # Root /\ IsPrefix(d.path, f)
  <2>1. ASSUME NEW a \in CommandLines PROVE ~Begin(a)
    BY <1>2, BeginSound
  <2>2. ASSUME NEW g \in Files, NEW left \in {{}, Raw[g]} PROVE ~EditFile(g, left)
    BY <1>2, EditFileSound
  <2>3. text' # text
    BY <1>2
  <2>4. ~Check /\ \A which, doc : ~EditSettings(which, doc)
    BY <2>3 DEF Check, EditSettings
  <2>5. \A force, noPatterns, diff : ~InitCommand(force, noPatterns, diff)
    BY <2>3 DEF InitCommand
  <2>6. \E from : Clean(from)
    BY <2>1, <2>2, <2>3, <2>4, <2>5, Steps, OtherSound
  <2> QED BY <1>2, <2>6, CleanSound
<1> QED BY <1>1, <1>2

THEOREM CleanAlwaysSpares == Spec => CleanSparesProject
<1>1. Init => Sound
  BY InitSound
<1>2. Sound /\ [Next]_vars => Sound'
  BY NextSound
<1>3. Sound /\ [Next]_vars =>
        [/\ {Root} \cup (IF run'.pc = "cleaned" THEN {run'.from} ELSE {}) \subseteq Paths'
         /\ \A f \in Files : text[f].there /\ ~text'[f].there =>
               \E d \in dirs : d.tag /\ d.path # Root /\ IsPrefix(d.path, f)]_vars
  BY CleanSpares
<1> QED BY <1>1, <1>2, <1>3, PTL DEF Spec, CleanSparesProject

(* Without --force `init` breaks no configuration and changes no setting,  *)
(* but for the src of ruff's table that a new konform table lets in; with  *)
(* --diff it changes nothing (init_config, init_ruff_compat).              *)
LEMMA InitKeeps ==
  ASSUME Sound, [Next]_vars, run'.pc = "initialised", commands' # commands
  PROVE  /\ run'.diff => docs' = docs
         /\ ~run'.diff /\ ~run'.force
               /\ docs.pyproject.konform # "keys" /\ docs.pyproject.lint # "keys" =>
               /\ Broken' = Broken
               /\ Effective' = IF GetsRuffSrc
                               THEN [Effective EXCEPT !.src = docs.pyproject.ruffSrc]
                               ELSE Effective
<1>1. \E force, noPatterns, diff \in BOOLEAN : InitCommand(force, noPatterns, diff)
  <2>1. \A a : ~(ShowSettings(a) \/ Refuse(a) \/ ShowFiles(a) \/ Diff(a))
    BY DEF ShowSettings, Refuse, ShowFiles, Diff, Ends
  <2>2. \A a : ~Begin(a)
    BY BeginRuns
  <2>3. \A from : ~Clean(from)
    BY DEF Clean
  <2>4. \A mode, found : ~RuleCommand(mode, found)
    BY DEF RuleCommand
  <2>5. ~(Check \/ Exit \/ Commit \/ UNCHANGED vars)
    BY DEF Check, Exit, Commit, vars
  <2>6. \A which, doc : ~EditSettings(which, doc)
    BY DEF EditSettings
  <2>7. \A f, left : ~EditFile(f, left)
    BY DEF EditFile
  <2> QED BY <2>1, <2>2, <2>3, <2>4, <2>5, <2>6, <2>7, Steps
<1>2. PICK force \in BOOLEAN, noPatterns \in BOOLEAN, diff \in BOOLEAN :
        InitCommand(force, noPatterns, diff)
  BY <1>1
<1>3. docs' = InitDocs(docs, force, noPatterns, diff)
  BY <1>2, InitCommandSound
<1>4. run'.force = force /\ run'.diff = diff
  BY <1>2 DEF InitCommand
<1>5. diff => docs' = docs
  BY <1>3 DEF InitDocs
<1>6. ASSUME ~diff, ~force, docs.pyproject.konform # "keys", docs.pyproject.lint # "keys"
      PROVE  /\ Broken' = Broken
             /\ Effective' = IF GetsRuffSrc
                             THEN [Effective EXCEPT !.src = docs.pyproject.ruffSrc]
                             ELSE Effective
  <2>1. docs \in DocSet /\ docs' = InitDocs(docs, FALSE, noPatterns, FALSE)
    BY <1>3, <1>6 DEF Sound, DocsOK
  <2>2. ConfigFile = ConfigOf(docs) /\ ConfigFile' = ConfigOf(docs')
    BY DEF ConfigFile, ConfigOf
  <2>3. Effective = SettingsIn(ConfigOf(docs)) /\ Effective' = SettingsIn(ConfigOf(docs'))
    BY <2>2 DEF Effective, SettingsIn
  <2>4. GetsRuffSrc = RuffSrcComes(docs)
    BY DEF GetsRuffSrc, RuffSrcComes
  <2> QED BY <1>6, <2>1, <2>2, <2>3, <2>4, InitSettings DEF Broken
<1> QED BY <1>4, <1>5, <1>6

THEOREM InitAlwaysKeeps == Spec => InitKeepsSettings
<1>1. Init => Sound
  BY InitSound
<1>2. Sound /\ [Next]_vars => Sound'
  BY NextSound
<1>3. Sound /\ [Next]_vars =>
        [run'.pc = "initialised" /\ commands' # commands =>
          /\ run'.diff => docs' = docs
          /\ ~run'.diff /\ ~run'.force
                /\ docs.pyproject.konform # "keys" /\ docs.pyproject.lint # "keys" =>
                /\ Broken' = Broken
                /\ Effective' = IF GetsRuffSrc
                                THEN [Effective EXCEPT !.src = docs.pyproject.ruffSrc]
                                ELSE Effective]_vars
  BY InitKeeps
<1> QED BY <1>1, <1>2, <1>3, PTL DEF Spec, InitKeepsSettings


-----------------------------------------------------------------------------
(* What is cached.  A path names a file when some command line spells it   *)
(* so; an entry of the text that the file has now holds what linting it    *)
(* under the settings of its key finds.                                    *)
Names(p, f) == \E a \in CommandLines : Under(a.from, f) /\ p = Spelled(f, a)

EntriesFit ==
  \A e \in cache, f \in Files : Names(e.path, f) =>
    /\ e.stamp <= text[f].stamp
    /\ e.stamp = text[f].stamp => e.results = FoundBy(e.key, e.path, f, text[f].left)

(* A hit is what linting would find.                                       *)
LEMMA ResultsAsLinted ==
  ASSUME AbsoluteFromRoot, EntriesFit, NEW s, NEW a \in CommandLines, NEW f \in Files,
         Under(a.from, f)
  PROVE  Results(s, a, f) = Lint(s, a, f)
<1>1. CASE Hits(s, a, f) = {}
  BY <1>1 DEF Results
<1>2. CASE Hits(s, a, f) # {}
  <2> DEFINE e == CHOOSE e \in Hits(s, a, f) : TRUE
  <2>1. e \in Hits(s, a, f)
    BY <1>2
  <2>2. Results(s, a, f) = e.results
    BY <1>2 DEF Results
  <2> HIDE DEF e
  <2>3. /\ ~Uncached(a)
        /\ e \in cache /\ e.key = SettingsHash(s, a)
        /\ e.path = Spelled(f, a) /\ e.stamp = text[f].stamp
    BY <2>1 DEF Hits
  <2>4. Names(e.path, f)
    BY <2>3 DEF Names
  <2>5. e.results = FoundBy(e.key, e.path, f, text[f].left)
    BY <2>3, <2>4 DEF EntriesFit
  <2> QED BY <2>2, <2>3, <2>5, KeyTellsAll
<1> QED BY <1>1, <1>2

(* A text that changes gets a stamp that no entry has.                     *)
LEMMA FitUnderEdits ==
  ASSUME Sound, EntriesFit, cache' \subseteq cache,
         \A f \in Files : \/ text'[f].stamp = text[f].stamp /\ text'[f].left = text[f].left
                          \/ text'[f].stamp = text[f].stamp + 1
  PROVE  EntriesFit'
<1> SUFFICES ASSUME NEW e \in cache', NEW f \in Files, Names(e.path, f)
             PROVE  /\ e.stamp <= text'[f].stamp
                    /\ e.stamp = text'[f].stamp =>
                         e.results = FoundBy(e.key, e.path, f, text'[f].left)
  BY DEF EntriesFit, Names, FoundBy, Under, Spelled, Below, KeySelection, KeyFixable
<1>1. /\ e.stamp <= text[f].stamp
      /\ e.stamp = text[f].stamp => e.results = FoundBy(e.key, e.path, f, text[f].left)
  BY DEF EntriesFit
<1>2. e.stamp \in Nat /\ text[f].stamp \in Nat
  BY DEF Sound, TextOK
<1>3. CASE text'[f].stamp = text[f].stamp /\ text'[f].left = text[f].left
  BY <1>1, <1>3
<1>4. CASE text'[f].stamp = text[f].stamp + 1
  BY <1>1, <1>2, <1>4
<1> QED BY <1>3, <1>4

(* What a check stores fits: it is what it found.                          *)
LEMMA FitAfterCheck ==
  ASSUME AbsoluteFromRoot, OneFilePerPath, Sound, EntriesFit, Check
  PROVE  EntriesFit'
<1> DEFINE a == run.args
           s == run.settings
           new == {Entry(s, a, f, Results(s, a, f)) : f \in Targets(s, a)}
<1>1. cache' = Stored(s, a, new) /\ text' = text /\ a \in CommandLines
  BY DEF Check, Sound, RunOK
<1> SUFFICES ASSUME NEW e \in cache', NEW f \in Files, Names(e.path, f)
             PROVE  /\ e.stamp <= text[f].stamp
                    /\ e.stamp = text[f].stamp =>
                         e.results = FoundBy(e.key, e.path, f, text[f].left)
  BY <1>1 DEF EntriesFit, Names, FoundBy, Under, Spelled, Below, KeySelection, KeyFixable
<1>2. CASE e \in cache
  BY <1>2 DEF EntriesFit
<1>3. CASE e \notin cache
  <2>1. e \in new /\ ~Uncached(a)
    BY <1>1, <1>3 DEF Stored
  <2>2. PICK g \in Targets(s, a) : e = Entry(s, a, g, Results(s, a, g))
    BY <2>1
  <2>3. g \in Files /\ Under(a.from, g)
    BY DEF Targets
  <2> HIDE DEF a, s, new
  <2>4. /\ e.path = Spelled(g, a) /\ e.key = SettingsHash(s, a) /\ e.stamp = text[g].stamp
        /\ e.results = Results(s, a, g)
    BY <2>2 DEF Entry
  <2>5. g = f
    BY <1>1, <2>3, <2>4 DEF Names, OneFilePerPath
  <2>6. e.results = FoundBy(e.key, e.path, f, text[f].left)
    BY <1>1, <2>1, <2>3, <2>4, <2>5, ResultsAsLinted, KeyTellsAll
  <2>7. text[f].stamp \in Nat
    BY DEF Sound, TextOK
  <2> QED BY <2>4, <2>5, <2>6, <2>7
<1> QED BY <1>2, <1>3

LEMMA InitFit == Init => EntriesFit
BY DEF Init, EntriesFit

LEMMA NextFit ==
  ASSUME AbsoluteFromRoot, OneFilePerPath, Sound, EntriesFit, [Next]_vars
  PROVE  EntriesFit'
<1>1. ASSUME NEW a \in CommandLines, Begin(a) PROVE EntriesFit'
  <2>1. cache' = cache
    BY <1>1 DEF Begin
  <2> QED BY <1>1, <2>1, BeginSound, FitUnderEdits
<1>2. CASE Check
  BY <1>2, FitAfterCheck
<1>3. ASSUME NEW from, Clean(from) PROVE EntriesFit'
  BY <1>3, CleanSound, FitUnderEdits
<1>4. ASSUME NEW f \in Files, NEW left \in {{}, Raw[f]}, EditFile(f, left) PROVE EntriesFit'
  <2>1. cache' = cache
    BY <1>4 DEF EditFile
  <2> QED BY <1>4, <2>1, EditFileSound, FitUnderEdits
<1>5. CASE UNCHANGED <<text, cache>>
  BY <1>5, FitUnderEdits
<1>6. ASSUME NEW force, NEW noPatterns, NEW diff, InitCommand(force, noPatterns, diff)
      PROVE  UNCHANGED <<text, cache>>
  BY <1>6 DEF InitCommand
<1>7. ASSUME NEW which, NEW doc, EditSettings(which, doc) PROVE UNCHANGED <<text, cache>>
  BY <1>7 DEF EditSettings
<1> QED BY <1>1, <1>2, <1>3, <1>4, <1>5, <1>6, <1>7, OtherSound, Steps

(* A run that has begun checks.                                            *)
LEMMA ThenItChecks ==
  ASSUME [Next]_vars, run.pc = "check"
  PROVE  Check \/ UNCHANGED vars
<1>1. ~Given /\ run # Idle
  BY DEF Given, Idle
<1>2. \A a : ~(ShowSettings(a) \/ Refuse(a) \/ ShowFiles(a) \/ Diff(a) \/ Begin(a))
  BY <1>1 DEF ShowSettings, Refuse, ShowFiles, Diff, Begin, Proceeds
<1>3. /\ \A from : ~Clean(from)
      /\ \A force, noPatterns, diff : ~InitCommand(force, noPatterns, diff)
      /\ \A mode, found : ~RuleCommand(mode, found)
  BY <1>1 DEF Clean, InitCommand, RuleCommand
<1>4. /\ \A which, doc : ~EditSettings(which, doc)
      /\ \A f, left : ~EditFile(f, left)
      /\ ~Commit /\ ~Exit
  BY <1>1 DEF EditSettings, EditFile, Commit, Exit, Edits
<1> QED BY <1>2, <1>3, <1>4, Steps


-----------------------------------------------------------------------------
(* What a check finds.                                                     *)
Finds(s, a) ==
  {[path |-> Spelled(f, a), results |-> Results(s, a, f)] :
     f \in {f \in Targets(s, a) : Results(s, a, f) # {}}}

LEMMA FindsAsLinted ==
  ASSUME AbsoluteFromRoot, OneFilePerPath, EntriesFit, NEW s, NEW a \in CommandLines,
         NEW f \in Targets(s, a)
  PROVE  UNION {r.results : r \in {r \in Finds(s, a) : r.path = Spelled(f, a)}} = Lint(s, a, f)
<1> DEFINE S == {r \in Finds(s, a) : r.path = Spelled(f, a)}
<1>1. f \in Files /\ Under(a.from, f) /\ Results(s, a, f) = Lint(s, a, f)
  BY ResultsAsLinted DEF Targets
<1>2. ASSUME NEW r \in S PROVE r.results = Lint(s, a, f)
  <2>1. PICK g \in Targets(s, a) : r = [path |-> Spelled(g, a), results |-> Results(s, a, g)]
    BY DEF Finds
  <2>2. g \in Files /\ Under(a.from, g) /\ Spelled(g, a) = Spelled(f, a)
    BY <2>1 DEF Targets
  <2>3. g = f
    BY <1>1, <2>2 DEF OneFilePerPath
  <2> QED BY <1>1, <2>1, <2>3
<1>3. ASSUME NEW v \in Lint(s, a, f) PROVE \E r \in S : v \in r.results
  <2> DEFINE r == [path |-> Spelled(f, a), results |-> Results(s, a, f)]
  <2>1. r \in Finds(s, a)
    BY <1>1, <1>3 DEF Finds
  <2>2. r \in S /\ v \in r.results
    BY <1>1, <2>1
  <2> QED BY <2>2
<1> QED BY <1>2, <1>3

(* A run that has begun reports what linting each file now would give.     *)
LEMMA Reported ==
  ASSUME AbsoluteFromRoot, OneFilePerPath, Sound, EntriesFit, [Next]_vars, vars' # vars,
         run.pc = "check"
  PROVE  \A f \in Targets(run.settings, run.args) :
           UNION {r.results : r \in {r \in run'.found : r.path = Spelled(f, run.args)}} =
             Lint(run.settings, run.args, f)
<1>1. Check /\ run.args \in CommandLines
  BY ThenItChecks DEF Sound, RunOK
<1>2. run'.found = Finds(run.settings, run.args)
  BY <1>1 DEF Check, Finds
<1> QED BY <1>1, <1>2, FindsAsLinted

(* Whatever was cached before under other settings and arguments, a run    *)
(* reports what linting each file now, under its own settings, gives       *)
(* (settings_hash and rules_fingerprint of cache.rs).                      *)
THEOREM ReportsAlwaysAsLinted ==
  ASSUME AbsoluteFromRoot, OneFilePerPath
  PROVE  Spec => ReportsAsLinted
<1>1. Init => Sound /\ EntriesFit
  BY InitSound, InitFit
<1>2. Sound /\ EntriesFit /\ [Next]_vars => (Sound /\ EntriesFit)'
  BY NextSound, NextFit
<1>3. Sound /\ EntriesFit /\ [Next]_vars =>
        [run.pc = "check" =>
          \A f \in Targets(run.settings, run.args) :
              UNION {r.results : r \in {r \in run'.found : r.path = Spelled(f, run.args)}} =
                  Lint(run.settings, run.args, f)]_vars
  BY Reported
<1> QED BY <1>1, <1>2, <1>3, PTL DEF Spec, ReportsAsLinted

-----------------------------------------------------------------------------
(* Exit codes.  From the root, files are named as git names them.          *)
Fails(s, a) ==
  \E f \in Targets(s, a) : \E v \in Lint(s, a, f) :
     AtLeast(v.level, IF f \in GetChangedFiles THEN a.changedLevel ELSE a.level)

LEMMA ExitCode ==
  ASSUME AbsoluteFromRoot, EntriesFit, NEW s, NEW a \in CommandLines,
         a.from = Root, ~a.absolute
  PROVE  ExitCodeFor(Finds(s, a), ChangedFilesFor(Finds(s, a), a), a) =
           IF Fails(s, a) THEN 1 ELSE 0
<1> DEFINE found == Finds(s, a)
           changed == ChangedFilesFor(found, a)
           Threshold(p, files) == IF p \in files THEN a.changedLevel ELSE a.level
<1>1. ASSUME NEW f \in Targets(s, a)
      PROVE  Results(s, a, f) = Lint(s, a, f) /\ Spelled(f, a) = f
  <2>1. f \in Files /\ Under(a.from, f)
    BY DEF Targets
  <2> QED BY <2>1, ResultsAsLinted, FromTheRoot DEF Spelled
<1>2. found # {} => \A p : Threshold(p, changed) = Threshold(p, GetChangedFiles)
  BY DEF ChangedFilesFor
<1>3. ASSUME NEW r \in found, NEW v \in r.results, AtLeast(v.level, Threshold(r.path, changed))
      PROVE  Fails(s, a)
  <2>1. PICK f \in Targets(s, a) : r = [path |-> Spelled(f, a), results |-> Results(s, a, f)]
    BY DEF Finds
  <2>2. r.path = f /\ v \in Lint(s, a, f)
    BY <1>1, <2>1
  <2>3. AtLeast(v.level, Threshold(f, GetChangedFiles))
    BY <1>2, <1>3, <2>2
  <2> QED BY <2>2, <2>3 DEF Fails
<1>4. ASSUME Fails(s, a)
      PROVE  \E r \in found : \E v \in r.results : AtLeast(v.level, Threshold(r.path, changed))
  <2>1. PICK f \in Targets(s, a) : \E v \in Lint(s, a, f) :
           AtLeast(v.level, Threshold(f, GetChangedFiles))
    BY <1>4 DEF Fails
  <2>2. PICK v \in Lint(s, a, f) : AtLeast(v.level, Threshold(f, GetChangedFiles))
    BY <2>1
  <2> DEFINE r == [path |-> Spelled(f, a), results |-> Results(s, a, f)]
  <2>3. r \in found
    BY <1>1, <2>2 DEF Finds
  <2>4. r.path = f /\ v \in r.results
    BY <1>1, <2>2
  <2>5. AtLeast(v.level, Threshold(r.path, changed))
    BY <1>2, <2>2, <2>3, <2>4
  <2> QED BY <2>3, <2>4, <2>5
<1> QED BY <1>3, <1>4 DEF ExitCodeFor

LEMMA ExitAsFound ==
  ASSUME AbsoluteFromRoot, Sound, EntriesFit, [Next]_vars, vars' # vars,
         run.pc = "check", run.args.from = Root, ~run.args.absolute
  PROVE  run'.exit = IF run.args.format = "zuul" /\ report.kind = "odd" THEN 2
                     ELSE IF Fails(run.settings, run.args) /\ ~run.args.exitZero THEN 1 ELSE 0
<1> DEFINE a == run.args
           s == run.settings
<1>1. Check /\ a \in CommandLines
  BY ThenItChecks DEF Sound, RunOK
<1>2. run'.exit = IF a.format = "zuul" /\ report.kind = "odd" THEN 2 ELSE IF a.exitZero THEN 0
                  ELSE ExitCodeFor(Finds(s, a), ChangedFilesFor(Finds(s, a), a), a)
  BY <1>1 DEF Check, Finds
<1> QED BY <1>1, <1>2, ExitCode

(* A run from the root ends with 1 exactly when a violation of one of its  *)
(* files, as they are now, reaches the threshold of that file (exit_code,  *)
(* changed_files_for), and with 2 when it cannot write its report.         *)
THEOREM ExitAlwaysTells ==
  ASSUME AbsoluteFromRoot, OneFilePerPath
  PROVE  Spec => ExitTells
<1>1. Init => Sound /\ EntriesFit
  BY InitSound, InitFit
<1>2. Sound /\ EntriesFit /\ [Next]_vars => (Sound /\ EntriesFit)'
  BY NextSound, NextFit
<1>3. Sound /\ EntriesFit /\ [Next]_vars =>
        [run.pc = "check" /\ run.args.from = Root /\ ~run.args.absolute =>
          LET a == run.args
              Threshold(f) == IF f \in GetChangedFiles THEN a.changedLevel ELSE a.level
              bad == \E f \in Targets(run.settings, a) :
                        \E v \in Lint(run.settings, a, f) : AtLeast(v.level, Threshold(f))
          IN  run'.exit = IF a.format = "zuul" /\ report.kind = "odd" THEN 2
                          ELSE IF bad /\ ~a.exitZero THEN 1 ELSE 0]_vars
  BY ExitAsFound DEF Fails
<1> QED BY <1>1, <1>2, <1>3, PTL DEF Spec, ExitTells


-----------------------------------------------------------------------------
(* Reports.  Formats differ in the levels they give.                       *)
LEMMA ErasedLevel ==
  ASSUME NEW found, NEW i \in Items(found), NEW l
  PROVE  [[i EXCEPT !.level = l] EXCEPT !.level = ""] = [i EXCEPT !.level = ""]
<1>1. PICK r \in found : i \in {Item(r, v) : v \in r.results}
  BY DEF Items
<1>2. PICK v \in r.results : i = Item(r, v)
  BY <1>1
<1> QED BY <1>2 DEF Item

(* S has the items with other levels.                                      *)
LEMMA SameTold ==
  ASSUME NEW found, NEW S,
         \A j \in S : \E i \in Items(found) : \E l : j = [i EXCEPT !.level = l],
         \A i \in Items(found) : \E l : [i EXCEPT !.level = l] \in S
  PROVE  Told(S) = Told(Items(found))
<1> DEFINE Erased(i) == [i EXCEPT !.level = ""]
<1>1. ASSUME NEW j \in S PROVE Erased(j) \in Told(Items(found))
  <2>1. PICK i \in Items(found) : \E l : j = [i EXCEPT !.level = l]
    OBVIOUS
  <2>2. [j EXCEPT !.level = ""] = [i EXCEPT !.level = ""]
    BY <2>1, ErasedLevel
  <2> QED BY <2>2 DEF Told
<1>2. ASSUME NEW i \in Items(found) PROVE Erased(i) \in Told(S)
  <2>1. PICK l : [i EXCEPT !.level = l] \in S
    OBVIOUS
  <2> DEFINE j == [i EXCEPT !.level = l]
  <2>2. j \in S /\ [j EXCEPT !.level = ""] = [i EXCEPT !.level = ""]
    BY <2>1, ErasedLevel
  <2> HIDE DEF j
  <2> QED BY <2>2 DEF Told
<1>3. Told(S) = {Erased(j) : j \in S} /\ Told(Items(found)) = {Erased(i) : i \in Items(found)}
  BY DEF Told
<1> HIDE DEF Erased
<1> QED BY <1>1, <1>2, <1>3

LEMMA EveryFormatTells ==
  ASSUME NEW found, NEW format
  PROVE  Told(RenderForFile(found, format)) = Told(Items(found))
<1>1. Told(RenderGitlab(found)) = Told(Items(found))
  <2>1. \A j \in RenderGitlab(found) : \E i \in Items(found) : \E l : j = [i EXCEPT !.level = l]
    BY DEF RenderGitlab
  <2>2. ASSUME NEW i \in Items(found) PROVE \E l : [i EXCEPT !.level = l] \in RenderGitlab(found)
    BY DEF RenderGitlab
  <2> QED BY <2>1, <2>2, SameTold
<1>2. Told(RenderJunit(found)) = Told(Items(found))
  <2>1. \A j \in RenderJunit(found) : \E i \in Items(found) : \E l : j = [i EXCEPT !.level = l]
    BY DEF RenderJunit
  <2>2. ASSUME NEW i \in Items(found) PROVE \E l : [i EXCEPT !.level = l] \in RenderJunit(found)
    BY DEF RenderJunit
  <2> QED BY <2>1, <2>2, SameTold
<1> QED BY <1>1, <1>2 DEF RenderForFile, RenderGithub, RenderSarif

(* The two lists of the Zuul report have everything between them.          *)
LEMMA ZuulTellsAll ==
  ASSUME NEW found, NEW changed, NEW old, old.foreign \in BOOLEAN
  PROVE  LET new == WriteZuulReturn(old, Comments(found, changed), Warnings(found, changed))
         IN  /\ new.foreign \in BOOLEAN
             /\ old.kind = "object" => new.foreign = old.foreign
             /\ Told(Items(found)) \subseteq Told(new.comments \cup new.warnings)
<1> DEFINE C == Comments(found, changed)
           W == Warnings(found, changed)
           new == WriteZuulReturn(old, C, W)
<1>1. Items(found) \subseteq C \cup W
  BY DEF Items, Comments, Warnings
<1> HIDE DEF C, W
<1>2. C \subseteq new.comments /\ W \subseteq new.warnings
  BY DEF WriteZuulReturn
<1>3. new.foreign = (old.kind = "object" /\ old.foreign)
  BY DEF WriteZuulReturn
<1> HIDE DEF new
<1>4. Told(Items(found)) \subseteq Told(new.comments \cup new.warnings)
  BY <1>1, <1>2 DEF Told
<1> QED BY <1>3, <1>4 DEF new, C, W

LEMMA ReportTells ==
  ASSUME Sound, [Next]_vars, vars' # vars, run.pc = "check"
  PROVE  /\ Told(run'.file) = Told(Items(run'.found))
         /\ run.args.format # "zuul" =>
               Told(run'.shown) = Told(Items(run'.found)) /\ report' = report
         /\ run.args.format = "zuul" =>
               \/ report' = report /\ run'.exit = 2
               \/ /\ run'.exit # 2
                  /\ report.kind = "object" => report'.foreign = report.foreign
                  /\ Told(Items(run'.found)) \subseteq Told(report'.comments \cup report'.warnings)
<1> DEFINE a == run.args
           found == Finds(run.settings, a)
           changed == ChangedFilesFor(found, a)
           fails == a.format = "zuul" /\ report.kind = "odd"
<1>1. Check
  BY ThenItChecks
<1>2. /\ report' = IF a.format = "zuul" /\ ~fails
                   THEN WriteZuulReturn(report, Comments(found, changed), Warnings(found, changed))
                   ELSE report
      /\ run'.found = found
      /\ run'.shown = PrintViolations(found, a.format)
      /\ run'.file = RenderForFile(found, a.format)
      /\ run'.exit = IF fails THEN 2 ELSE IF a.exitZero THEN 0 ELSE ExitCodeFor(found, changed, a)
  BY <1>1 DEF Check, Finds
<1>3. ~fails => run'.exit # 2
  BY <1>2 DEF ExitCodeFor
<1>4. report.foreign \in BOOLEAN
  BY DEF Sound
<1> HIDE DEF found, changed
<1>5. Told(RenderForFile(found, a.format)) = Told(Items(found))
  BY EveryFormatTells
<1>6. CASE a.format # "zuul"
  BY <1>2, <1>5, <1>6 DEF PrintViolations
<1>7. CASE a.format = "zuul" /\ fails
  BY <1>2, <1>5, <1>7
<1>8. CASE a.format = "zuul" /\ ~fails
  <2> DEFINE new == WriteZuulReturn(report, Comments(found, changed), Warnings(found, changed))
  <2>1. report' = new /\ run'.exit # 2
    BY <1>2, <1>3, <1>8
  <2>2. /\ report.kind = "object" => new.foreign = report.foreign
        /\ Told(Items(found)) \subseteq Told(new.comments \cup new.warnings)
    BY <1>4, ZuulTellsAll
  <2> HIDE DEF new
  <2> QED BY <1>2, <1>5, <1>8, <2>1, <2>2
<1> QED BY <1>6, <1>7, <1>8

(* Every violation is told in the format asked for, and the Zuul report    *)
(* keeps what others wrote or is left alone (write_zuul_return).           *)
THEOREM ReportsAreComplete == Spec => ReportComplete
<1>1. Init => Sound
  BY InitSound
<1>2. Sound /\ [Next]_vars => Sound'
  BY NextSound
<1>3. Sound /\ [Next]_vars =>
        [run.pc = "check" =>
          LET all == Told(Items(run'.found))
          IN  /\ Told(run'.file) = all
              /\ run.args.format # "zuul" => Told(run'.shown) = all /\ report' = report
              /\ run.args.format = "zuul" =>
                    \/ report' = report /\ run'.exit = 2
                    \/ /\ run'.exit # 2
                       /\ report.kind = "object" => report'.foreign = report.foreign
                       /\ all \subseteq Told(report'.comments \cup report'.warnings)]_vars
  BY ReportTells
<1> QED BY <1>1, <1>2, <1>3, PTL DEF Spec, ReportComplete
=============================================================================
