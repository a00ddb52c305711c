---------------------------- MODULE PatternRules ----------------------------
(***************************************************************************)
(* KPT (src/rules/kpt.rs): where the user's patterns come from, what of    *)
(* them survives compilation, what they report and what their fix leaves.  *)
(* A line is a sequence of words and the codes its comment silences; a     *)
(* regular expression is a sequence of words, matched where they stand in  *)
(* a row.  In a multi-line match EOL is a word too.                        *)
(***************************************************************************)
EXTENDS Integers, FiniteSets, FiniteSetsExt, SequencesExt

EOL == "EOL"      \* the end of a line
Match == "$0"     \* in a replacement: the text that was matched

NoReplacement == <<"none">>
Absent == "absent"

Line(words, hush) == [words |-> words, hush |-> hush]

-----------------------------------------------------------------------------
(* Loading: patterns in the configuration, else the file it names, else    *)
(* the files next to it.  disk says what each file holds.                  *)

(* A pattern as written.  ok: it deserialises; res: each alternative and   *)
(* whether it is a valid expression; globs: likewise.                      *)
RawPattern ==
  [id |-> "", ok |-> TRUE, message |-> "", res |-> <<>>, globs |-> <<>>, level |-> Absent,
   multiline |-> FALSE, by |-> NoReplacement, subs |-> <<>>]

(* What is ill-formed goes; so does a pattern with no expression left.  A  *)
(* glob that is ill-formed goes too, and globs that all go match nothing.  *)
Valid(res) == LET good == SelectSeq(res, LAMBDA r : r.ok) IN [n \in DOMAIN good |-> good[n].re]

Compiled(raw, level) ==
  [id |-> raw.id, message |-> raw.message, res |-> Valid(raw.res), raw |-> raw.res,
   everywhere |-> raw.globs = <<>>,
   globs |-> {g.glob : g \in {h \in Range(raw.globs) : h.ok}}, rawGlobs |-> raw.globs,
   level |-> IF raw.level = Absent THEN level ELSE raw.level,
   multiline |-> raw.multiline, by |-> raw.by,
   subs |-> SelectSeq([n \in DOMAIN raw.subs |-> [res |-> Valid(raw.subs[n].res),
                                                  message |-> raw.subs[n].message]],
                      LAMBDA s : s.res # <<>>)]

CompilePatterns(raws, level) ==
  LET usable == SelectSeq(raws, LAMBDA r : Valid(r.res) # <<>>)
  IN  [n \in DOMAIN usable |-> Compiled(usable[n], level)]

(* load_from_file: a file that is missing, or has one pattern that does    *)
(* not deserialise, gives nothing.                                         *)
Readable(disk, name) ==
  name \in DOMAIN disk /\ \A n \in DOMAIN disk[name] : disk[name][n].ok

DiscoveredPatterns == <<"konform_patterns.toml", "konform_patterns.yaml">>

DefaultLevel(cfg) == IF cfg.level = Absent THEN "warning" ELSE cfg.level

(* The first source that yields patterns.  The one in the configuration    *)
(* counts as soon as it has an entry, whatever becomes of the entry.       *)
LoadPatterns(cfg, disk) ==
  LET files == (IF cfg.file = Absent THEN <<>> ELSE <<cfg.file>>) \o DiscoveredPatterns
      found == SelectSeq(files, LAMBDA f : Readable(disk, f))
  IN  IF cfg.rules # <<>>
      THEN CompilePatterns(SelectSeq(cfg.rules, LAMBDA r : r.ok), DefaultLevel(cfg))
      ELSE IF found = <<>> THEN <<>>
      ELSE CompilePatterns(disk[found[1]], DefaultLevel(cfg))

(* KptRule::patterns: compiled once per configuration and process.         *)
NoMemo == [filled |-> FALSE, key |-> {}, rules |-> <<>>]

Memo(memo, cfg, fresh) ==
  IF memo.filled /\ memo.key = {cfg} THEN memo
  ELSE [filled |-> TRUE, key |-> {cfg}, rules |-> fresh]

(* glob_matches: the path as given, below the configuration's directory,   *)
(* below the working directory, and its last name.                         *)
Below(path, dir) == IF IsPrefix(dir, path) THEN {SubSeq(path, Len(dir) + 1, Len(path))} ELSE {}

GlobMatches(globs, place) ==
  globs \cap ({place.path} \cup Below(place.path, place.configDir)
                \cup Below(place.path, place.cwd) \cup {<<Last(place.path)>>}) # {}

MatchesFile(p, place) == p.everywhere \/ GlobMatches(p.globs, place)

-----------------------------------------------------------------------------
(* Matching.                                                               *)

IsAt(words, re, n) == n + Len(re) - 1 <= Len(words) /\ SubSeq(words, n, n + Len(re) - 1) = re

(* find_iter: where re matches, from the left and without overlap.         *)
Found(words, re) ==
  FoldLeft(LAMBDA acc, n : IF n >= acc.free /\ IsAt(words, re, n)
                           THEN [at |-> acc.at \cup {n}, free |-> n + Len(re)] ELSE acc,
           [at |-> {}, free |-> 1], [n \in 1..Len(words) |-> n]).at

Expanded(by, re) == FlattenSeq([n \in DOMAIN by |-> IF by[n] = Match THEN re ELSE <<by[n]>>])

(* replace_all, at the places that are wanted.                             *)
SubstitutedAt(words, re, by, at) ==
  FlattenSeq([n \in DOMAIN words |->
    IF n \in at THEN Expanded(by, re)
    ELSE IF \E m \in at : m < n /\ n < m + Len(re) THEN <<>> ELSE <<words[n]>>])

Substituted(words, re, by) == SubstitutedAt(words, re, by, Found(words, re))

(* The whole text, and the line and column of a place in it.               *)
Source(lines) == FlattenSeq([n \in DOMAIN lines |-> Append(lines[n].words, EOL)])

LineOfPlace(words, n) == 1 + Cardinality({m \in 1..n - 1 : words[m] = EOL})
ColOfPlace(words, n) == n - Max({m \in 1..n - 1 : words[m] = EOL} \cup {0})

(* The lines of a text; a comment stays with the line it is the n-th of.   *)
SplitLines(words, hush) ==
  LET ends == SelectSeq([n \in DOMAIN words |-> n], LAMBDA n : words[n] = EOL)
      from(k) == IF k = 1 THEN 1 ELSE ends[k - 1] + 1
  IN  [k \in DOMAIN ends |-> Line(SubSeq(words, from(k), ends[k] - 1),
                                  IF k \in DOMAIN hush THEN hush[k] ELSE {})]

Hushes(lines) == [n \in DOMAIN lines |-> lines[n].hush]

(* The first sub-rule that matches gives the message.                      *)
MessageOf(p, words) ==
  LET subs == SelectSeq(p.subs, LAMBDA s : \E re \in Range(s.res) : Found(words, re) # {})
  IN  IF subs = <<>> THEN p.message ELSE subs[1].message

Heard(hush, code, c) == c.ignoreNoqa \/ code \notin hush

Active(p, place, c) == p.id \in c.enabled /\ MatchesFile(p, place)

(* The widest match of a line; of equally wide ones that of the last       *)
(* alternative.                                                            *)
WidestMatch(p, words) ==
  LET hits == {n \in DOMAIN p.res : Found(words, p.res[n]) # {}}
      best == {n \in hits : \A m \in hits : Len(p.res[m]) <= Len(p.res[n])}
  IN  p.res[Max(best)]

(* check, line by line.  The prefilter skips a file with no match at all.  *)
LineViolations(p, lines, c) ==
  LET flagged == {i \in DOMAIN lines : /\ \E re \in Range(p.res) : Found(lines[i].words, re) # {}
                                       /\ Heard(lines[i].hush, p.id, c)}
  IN  IF \A re \in Range(p.res) : Found(Source(lines), re) = {} THEN {}
      ELSE {[code |-> p.id, line |-> i, col |-> Min(Found(lines[i].words, WidestMatch(p, lines[i].words))),
             message |-> MessageOf(p, lines[i].words), level |-> p.level,
             fixable |-> p.by # NoReplacement] : i \in flagged}

(* check, on the whole text: each match of each alternative.               *)
TextViolations(p, lines, c) ==
  LET words == Source(lines)
      Spot(n) == [line |-> LineOfPlace(words, n), col |-> ColOfPlace(words, n)]
  IN  UNION {{[code |-> p.id, line |-> Spot(n).line, col |-> Spot(n).col,
               message |-> MessageOf(p, re), level |-> p.level,
               fixable |-> p.by # NoReplacement] :
                 n \in {m \in Found(words, re) : Heard(lines[Spot(m).line].hush, p.id, c)}}
             : re \in Range(p.res)}

PatternViolations(patterns, lines, place, c) ==
  UNION {IF p.multiline THEN TextViolations(p, lines, c) ELSE LineViolations(p, lines, c)
           : p \in {q \in Range(patterns) : Active(q, place, c)}}

-----------------------------------------------------------------------------
(* fix: one pattern after the other, each on what the one before it left.  *)
(* A comment does not hold it back.                                        *)

NoPlace == [code |-> "none", line |-> 0, col |-> 0]

(* replace_multiline_match_at: the first match that starts at the target.  *)
ReplaceTarget(words, p, t) ==
  LET hits == {n \in DOMAIN p.res : \E m \in Found(words, p.res[n]) :
                 LineOfPlace(words, m) = t.line /\ ColOfPlace(words, m) = t.col}
      re == p.res[Min(hits)]
      at == {m \in Found(words, re) : LineOfPlace(words, m) = t.line /\ ColOfPlace(words, m) = t.col}
  IN  IF hits = {} THEN words ELSE SubstitutedAt(words, re, p.by, at)

(* A slip: a quick fix replaces in every line.                             *)
FixedByEverywhere(p, lines, c) ==
  [i \in DOMAIN lines |->
     [lines[i] EXCEPT !.words = FoldLeft(LAMBDA w, re : Substituted(w, re, p.by), @, p.res)]]

FixedBy(p, lines, c) ==
  IF p.multiline
  THEN SplitLines(IF c.target # NoPlace THEN ReplaceTarget(Source(lines), p, c.target)
                  ELSE FoldLeft(LAMBDA w, re : Substituted(w, re, p.by), Source(lines), p.res),
                  Hushes(lines))
  ELSE [i \in DOMAIN lines |->
          IF c.target = NoPlace \/ c.target.line = i
          THEN [lines[i] EXCEPT !.words = FoldLeft(LAMBDA w, re : Substituted(w, re, p.by), @, p.res)]
          ELSE lines[i]]

PatternFix(patterns, lines, place, c) ==
  FoldLeft(LAMBDA acc, p :
             IF /\ p.by # NoReplacement /\ Active(p, place, c)
                /\ p.id \in c.fixes
                /\ c.target = NoPlace \/ c.target.code = p.id
             THEN FixedBy(p, acc, c) ELSE acc,
           lines, patterns)

-----------------------------------------------------------------------------
(* fingerprint: what the key of cached results knows of the patterns.      *)

(* A slip: the globs are left out.                                         *)
PatternPrintNoFiles(patterns) ==
  [n \in DOMAIN patterns |->
     <<patterns[n].id, patterns[n].message, patterns[n].raw, patterns[n].level,
       patterns[n].multiline, patterns[n].by, patterns[n].subs>>]

PatternPrint(patterns) ==
  [n \in DOMAIN patterns |->
     <<patterns[n].id, patterns[n].message, patterns[n].raw, patterns[n].rawGlobs,
       patterns[n].level, patterns[n].multiline, patterns[n].by, patterns[n].subs>>]

=============================================================================
