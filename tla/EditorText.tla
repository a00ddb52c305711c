----------------------------- MODULE EditorText -----------------------------
(***************************************************************************)
(* One document between an editor and the language server.  Both hold it   *)
(* as a sequence of characters; the server counts in bytes of UTF-8, the   *)
(* protocol in lines and units of UTF-16 (src/lsp/convert.rs).  The editor *)
(* tells the server what changed (Session::update), the server tells the   *)
(* editor what to change (src/lsp/handler.rs).                             *)
(***************************************************************************)
EXTENDS Integers, FiniteSets, FiniteSetsExt, SequencesExt

CONSTANTS
  Bytes,   \* for each character, what it takes in UTF-8
  Units    \* and what it takes in UTF-16

NL == "NL"
CR == "CR"
Noqa == "noqa"    \* the comment that silences a line

ByteLen(s) == FoldLeft(LAMBDA n, ch : n + Bytes[ch], 0, s)
UnitLen(s) == FoldLeft(LAMBDA n, ch : n + Units[ch], 0, s)

Pos(line, character) == [line |-> line, character |-> character]
TextEdit(from, to, new) == [from |-> from, to |-> to, new |-> new]

(* split_inclusive: lines with their ends; the last may have none.         *)
SplitInclusive(s) ==
  LET ends == SelectSeq([n \in DOMAIN s |-> n], LAMBDA n : s[n] = NL \/ n = Len(s))
  IN  [k \in DOMAIN ends |-> SubSeq(s, IF k = 1 THEN 1 ELSE ends[k - 1] + 1, ends[k])]

(* str::lines: the same without \n or \r\n.                                *)
WithoutEnd(line) ==
  IF IsSuffix(<<CR, NL>>, line) THEN SubSeq(line, 1, Len(line) - 2)
  ELSE IF IsSuffix(<<NL>>, line) THEN Front(line) ELSE line

(* Where the line after the first k begins, in bytes.                      *)
LineStart(s, k) == ByteLen(FlattenSeq(SubSeq(SplitInclusive(s), 1, k)))

-----------------------------------------------------------------------------
(* convert.rs                                                              *)

(* utf16_col_to_byte: the first character that col does not lie behind.    *)
Utf16ColToByte(line, col) ==
  ByteLen(SubSeq(line, 1, Min({n \in 0..Len(line) : UnitLen(SubSeq(line, 1, n)) >= col}
                                \cup {Len(line)})))

(* lsp_pos_to_byte_offset: lines end at \n only; there is one after the    *)
(* last \n, which may be empty.                                            *)
LspPosToByteOffset(s, pos) ==
  LET lines == SplitInclusive(s)
      rest == IF pos.line < Len(lines) THEN lines[pos.line + 1] ELSE <<>>
      line == IF IsSuffix(<<NL>>, rest) THEN Front(rest) ELSE rest
  IN  IF pos.line < Len(lines) THEN LineStart(s, pos.line) + Utf16ColToByte(line, pos.character)
      ELSE ByteLen(s)

(* The characters that make up the first so many bytes.                    *)
Upto(s, offset) == SubSeq(s, 1, CHOOSE n \in 0..Len(s) : ByteLen(SubSeq(s, 1, n)) = offset)

(* byte_offset_to_lsp_pos.                                                 *)
ByteOffsetToLspPos(s, offset) ==
  LET before == Upto(s, Min({offset, ByteLen(s)}))
      last == Max({n \in DOMAIN before : before[n] = NL} \cup {0})
  IN  Pos(Cardinality({n \in DOMAIN before : before[n] = NL}),
          UnitLen(SubSeq(before, last + 1, Len(before))))

-----------------------------------------------------------------------------
(* Session::update: each change on what the one before it left.            *)
Changed(s, change) ==
  LET upto == Upto(s, LspPosToByteOffset(s, change.from))
      past == Len(Upto(s, LspPosToByteOffset(s, change.to)))
  IN  upto \o change.new \o SubSeq(s, past + 1, Len(s))

Update(s, changes) == FoldLeft(Changed, s, changes)

-----------------------------------------------------------------------------
(* handler.rs: the edits that turn s into what was computed from it.       *)

(* What a diff of two texts may pair: equal lines, in the same order.      *)
Pairings(old, new) ==
  {ps \in SUBSET {<<i, j>> \in (DOMAIN old) \X (DOMAIN new) : old[i] = new[j]} :
     \A p, q \in ps : p[1] < q[1] <=> p[2] < q[2]}

(* The stretches between the pairs, as lines of both texts that come       *)
(* before them and lines up to which they go.                              *)
Hunks(old, new, ps) ==
  LET ends == SetToSortSeq(ps \cup {<<Len(old) + 1, Len(new) + 1>>}, LAMBDA p, q : p[1] < q[1])
      all == [k \in DOMAIN ends |->
                LET from == IF k = 1 THEN <<0, 0>> ELSE ends[k - 1]
                IN  [old |-> <<from[1], ends[k][1] - 1>>, new |-> <<from[2], ends[k][2] - 1>>]]
  IN  SelectSeq(all, LAMBDA h : h.old[1] < h.old[2] \/ h.new[1] < h.new[2])

(* A slip: an insertion takes the line below with it.                      *)
LineDiffEditsWide(s, fixed, ps) ==
  LET new == SplitInclusive(fixed)
      hunks == Hunks(SplitInclusive(s), new, ps)
  IN  [k \in DOMAIN hunks |->
         TextEdit(Pos(hunks[k].old[1], 0), Pos(Max({hunks[k].old[1] + 1, hunks[k].old[2]}), 0),
                  FlattenSeq(SubSeq(new, hunks[k].new[1] + 1, hunks[k].new[2])))]

(* line_diff_edits: a quick fix, as whole lines.                           *)
LineDiffEdits(s, fixed, ps) ==
  LET new == SplitInclusive(fixed)
      hunks == Hunks(SplitInclusive(s), new, ps)
  IN  [k \in DOMAIN hunks |->
         TextEdit(Pos(hunks[k].old[1], 0), Pos(hunks[k].old[2], 0),
                  FlattenSeq(SubSeq(new, hunks[k].new[1] + 1, hunks[k].new[2])))]

(* full_document_edit: formatting, and a fix of the whole document.        *)
FullDocumentEdit(s, fixed) == TextEdit(Pos(0, 0), ByteOffsetToLspPos(s, ByteLen(s)), fixed)

(* noqa_line_edit: the line with index idx, silenced, if it is not yet.    *)
NoqaLineEdit(s, idx) ==
  LET line == WithoutEnd(SplitInclusive(s)[idx + 1])
  IN  TextEdit(Pos(idx, 0), ByteOffsetToLspPos(s, LineStart(s, idx) + ByteLen(line)),
               Append(line, Noqa))

(* What the server may answer when a rule would leave `fixed`: the edits,  *)
(* and the text it means to bring about.                                   *)
Offers(s, fixed) ==
  LET old == SplitInclusive(s)
      Silenced(idx) == LET line == WithoutEnd(old[idx + 1])
                       IN  FlattenSeq(SubSeq(old, 1, idx)) \o Append(line, Noqa)
                             \o SubSeq(old[idx + 1], Len(line) + 1, Len(old[idx + 1]))
                             \o FlattenSeq(SubSeq(old, idx + 2, Len(old)))
  IN  {[edits |-> LineDiffEdits(s, fixed, ps), gives |-> fixed]
         : ps \in Pairings(old, SplitInclusive(fixed))}
      \cup {[edits |-> <<FullDocumentEdit(s, fixed)>>, gives |-> fixed]}
      \cup {[edits |-> <<NoqaLineEdit(s, idx)>>, gives |-> Silenced(idx)]
              : idx \in {k \in 0..Len(old) - 1 : Noqa \notin Range(old[k + 1])}}

-----------------------------------------------------------------------------
(* The editor, by the protocol: a line also ends at \r\n, no position lies *)
(* inside one, and what lies beyond a line or a text is its end.           *)

Gaps(s) == {n \in 0..Len(s) : ~(n \in 1..Len(s) - 1 /\ s[n] = CR /\ s[n + 1] = NL)}

PosOfGap(s, n) ==
  LET last == Max({m \in 1..n : s[m] = NL} \cup {0})
  IN  Pos(Cardinality({m \in 1..n : s[m] = NL}), UnitLen(SubSeq(s, last + 1, n)))

GapOfPos(s, pos) ==
  LET behind == {n \in Gaps(s) : \/ PosOfGap(s, n).line > pos.line
                                 \/ /\ PosOfGap(s, n).line = pos.line
                                    /\ PosOfGap(s, n).character > pos.character}
  IN  Max({n \in Gaps(s) : \A m \in behind : n < m})

Spliced(s, from, to, new) == SubSeq(s, 1, from) \o new \o SubSeq(s, to + 1, Len(s))

(* All edits of an answer are about the text before it.                    *)
Applied(s, edits) ==
  FoldRight(LAMBDA e, acc : Spliced(acc, GapOfPos(s, e.from), GapOfPos(s, e.to), e.new), edits, s)

(* What the editor tells the server of them: the last one first.           *)
Told(s, edits) ==
  Reverse([k \in DOMAIN edits |-> TextEdit(PosOfGap(s, GapOfPos(s, edits[k].from)),
                                           PosOfGap(s, GapOfPos(s, edits[k].to)), edits[k].new)])

=============================================================================
