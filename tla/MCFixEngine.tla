---------------------------- MODULE MCFixEngine -----------------------------
(***************************************************************************)
(* FixEngine for TLC: a statement on lines 1 and 2 that imports two names, *)
(* `first` and, on line 2, `second`, imports there a third that is         *)
(* shadowed, and gives a name an alias; a line 3 that two patterns and a   *)
(* structural rule are about, whose fixes go in a circle; and a line 4     *)
(* that ends inside a string, where a replacement breaks the syntax.       *)
(***************************************************************************)
EXTENDS FixEngine, TLC

CONSTANTS first, second, shadowed, alias, print, log, call, quoted

MCCodes  == {"KIS001", "KIS002", "KPT001", "KPT002", "KST001"}
MCTokens == MCCodes \cup KnqCodes \cup {"KIS", "KNQ", "K", "IS001", "E501"}

Prefixed(p) == CASE p = "KIS" -> {"KIS001", "KIS002"} [] p = "KNQ" -> KnqCodes
                 [] p = "K" -> MCCodes \cup KnqCodes [] p \in AllCodes -> {p} [] OTHER -> {}
MCStartsWith == [t \in Tokens |-> Prefixed(t)]
MCAliasOf    == [t \in Tokens |-> IF t = "IS001" THEN {"KIS001"} ELSE {}]

MCFaults == {first, second, shadowed, alias, print, log, call, quoted}
By(a, b, c, d, e, f, g, h) ==
  (first :> a) @@ (second :> b) @@ (shadowed :> c) @@ (alias :> d) @@ (print :> e)
    @@ (log :> f) @@ (call :> g) @@ (quoted :> h)
MCCodeOf  == By("KIS001", "KIS001", "KIS001", "KIS002", "KPT001", "KPT002", "KST001", "KPT001")
MCLineOf  == By(1, 1, 1, 2, 3, 3, 3, 4)
MCHeardAt == By({1}, {1, 2}, {1, 2}, {2}, {3}, {3}, {3}, {4})
MCDropsAt == By({1, 2}, {1, 2}, {}, {}, {}, {}, {}, {})
MCLeads   == By({}, {}, {}, {}, {log}, {call}, {print}, {})
MCOuter   == [x \in MCFaults |-> {}]
MCFixable == MCFaults \ {shadowed}
MCBreaks  == {quoted}
MCKpt     == <<"KPT001", "KPT002">>
MCUnsafe  == {alias, call}

Noqa(codes, reason) == [codes |-> codes, blanket |-> codes = {}, reason |-> reason]
File(faults, c1, c2, c3) == [faults |-> faults, comment |-> <<c1, c2, c3, NoComment>>]

Imports ==
  {File(faults, c1, c2, NoComment) :
     faults \in SUBSET {first, second, alias} \cup {{first, shadowed}},
     c1 \in {NoComment, Noqa({"IS001", "E501"}, "weak")},
     c2 \in {NoComment, Noqa({"KIS001"}, "none"), Noqa({"E501", "KIS"}, "glued")}}
Statements ==
  {File(faults, NoComment, NoComment, c3) :
     faults \in SUBSET {print, call, quoted},
     c3 \in {NoComment, Noqa({}, "none"), Noqa({"KST001"}, "good"), Noqa({"K"}, "weak")}}
MCTexts == Imports \cup Statements

All == [select |-> {}, extend |-> {}, ignore |-> {}]
Config(sel, fixable, perFile) == [selection |-> sel, fixSelection |-> fixable, perFile |-> perFile]
WithKnq == [All EXCEPT !.extend = {"KNQ"}]
MCConfigs ==
  {Config(All, All, {}), Config(WithKnq, All, {}),
   Config(WithKnq, [All EXCEPT !.ignore = {"KPT002"}], {"KIS001"}),
   Config([All EXCEPT !.select = {"K"}, !.ignore = {"KIS002"}], [All EXCEPT !.select = {"KIS", "KST001", "KNQ003"}], {})}

\* here no rule undoes its own fixes; KPT and KST go in a circle together
ASSUME MCRulesSettle == RulesSettle

=============================================================================
