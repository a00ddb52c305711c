------------------------------ MODULE PyScope ------------------------------
(***************************************************************************)
(* A Python file as the rules about imports see it, and the scope analysis *)
(* of src/rules/scope.rs.  The file is the sequence of its statements; a   *)
(* compound statement is its header, and the statements of its body name   *)
(* it in `in`, outermost block first.  Text, columns and line numbers are  *)
(* left out: a place in the file is the index of a statement.              *)
(***************************************************************************)
EXTENDS Integers, FiniteSets, FiniteSetsExt, SequencesExt

(* k: def, class, if, tc (`if TYPE_CHECKING`), else, for, with, try,       *)
(* except or case; n tells blocks apart and is the name of a def or class. *)
Block(k, n) == [k |-> k, n |-> n]
NoBlock == Block("none", "")

(* One statement: the names it binds, those that only a pattern or a       *)
(* parameter list binds, the dotted names it reads, and what an import     *)
(* imports.  hush: the codes silenced on its first line.                   *)
Statement ==
  [in |-> <<>>, k |-> "other", opens |-> NoBlock, binds |-> {}, captures |-> {},
   params |-> {}, reads |-> <<>>, exports |-> {}, mod |-> <<>>, dots |-> "",
   names |-> <<>>, bent |-> FALSE, hush |-> {}]

Alias(name, as) == [name |-> name, as |-> as, hush |-> {}]

(* The name an import clause binds.                                        *)
LocalName(a) == IF a.as = "" THEN a.name ELSE a.as

DefKinds == {"def", "class"}

-----------------------------------------------------------------------------
(* scope.rs                                                                *)

(* collect_all_exports: top-level `__all__` only.                          *)
AllExports(p) == UNION {s.exports : s \in {t \in Range(p) : t.in = <<>>}}

(* collect_load_names, as pairs of a statement and a name read in it.      *)
LoadNames(p) == UNION {{<<s, r[1]>> : r \in Range(s.reads)} : s \in Range(p)}

(* bucket_for_offset: the outermost def or class around or opened here.    *)
BucketOf(s) ==
  LET defs == SelectSeq(Append(s.in, s.opens), LAMBDA b : b.k \in DefKinds)
  IN  IF defs = <<>> THEN NoBlock ELSE Head(defs)

(* collect_bound_names: neither imports nor the captures of a pattern.     *)
BoundNames(S) == UNION {s.binds \cup s.params : s \in S}

(* build_scope_index: one bucket for all that is bound below a top-level   *)
(* def or class; `global` reaches the module from anywhere.                *)
ScopeNames(p, b) == BoundNames({s \in Range(p) : BucketOf(s) = b})

AtModule(s) == \A b \in Range(s.in) : b.k \notin DefKinds

(* A slip: a `global` inside a function stays in the function's bucket.    *)
ModuleNamesNoGlobal(p) ==
  UNION {s.binds \cup s.captures : s \in {t \in Range(p) : AtModule(t)}}

ModuleNames(p) ==
  UNION {s.binds \cup s.captures : s \in {t \in Range(p) : AtModule(t) \/ t.k = "global"}}

IsNameShadowed(p, name, b) ==
  \/ name \in ModuleNames(p)
  \/ b # NoBlock /\ name \in ScopeNames(p, b)

ShadowedAtUses(p, name, used) ==
  \E u \in LoadNames(p) : u[2] = used /\ IsNameShadowed(p, name, BucketOf(u[1]))

-----------------------------------------------------------------------------
(* What Python makes of a name, the reference for the rules above: scopes  *)
(* nest, a class body is seen only by its own statements, `global` names   *)
(* belong to the module.                                                   *)

ScopePath(s) == SelectSeq(s.in, LAMBDA b : b.k \in DefKinds)

(* The scope in which the body of what s opens runs.                       *)
InnerPath(s) == Append(ScopePath(s), s.opens)

Declared(p, sp, name) ==
  \E s \in Range(p) : s.k = "global" /\ ScopePath(s) = sp /\ name \in s.binds

ImportBinds(s, name) ==
  \/ s.k = "from" /\ \E a \in Range(s.names) : LocalName(a) = name
  \/ s.k = "import" /\ name = (IF s.names[1].as = "" THEN s.mod[1] ELSE s.names[1].as)

(* The statements that bind name in the scope sp.                          *)
Binders(p, sp, name) ==
  {i \in DOMAIN p :
     LET s == p[i]
         here == IF name \in s.params /\ s.opens.k = "def" THEN InnerPath(s)
                 ELSE IF Declared(p, ScopePath(s), name) THEN <<>> ELSE ScopePath(s)
     IN  /\ here = sp
         /\ s.k # "global"
         /\ name \in s.binds \cup s.captures \cup s.params \/ ImportBinds(s, name)}

(* The scopes a name read in scope sp is looked up in, innermost first.    *)
LookedUp(sp) ==
  SelectSeq([n \in 1..Len(sp) + 1 |-> SubSeq(sp, 1, Len(sp) + 1 - n)],
            LAMBDA q : q = sp \/ q = <<>> \/ Last(q).k = "def")

(* What the name stands for if statement s binds it.                       *)
BoundTo(s, name, sp) ==
  IF s.k = "from"
  THEN {<<s.dots>> \o s.mod \o <<a.name>> : a \in {b \in Range(s.names) : LocalName(b) = name}}
  ELSE IF s.k = "import"
  THEN {<<"">> \o (IF s.names[1].as = "" THEN <<s.mod[1]>> ELSE s.mod)}
  ELSE {<<"local", name>> \o [n \in DOMAIN sp |-> sp[n].n]}

(* What the dotted name r, read by the i-th statement, stands for.  In the *)
(* scope that runs it, a binding counts only from where it is made.        *)
Denotes(p, i, r) ==
  LET own == ScopePath(p[i])
      scopes == IF Declared(p, own, r[1]) THEN <<(<<>>)>> ELSE LookedUp(own)
      found == SelectSeq(scopes, LAMBDA sp : Binders(p, sp, r[1]) # {})
  IN  IF found = <<>> THEN {<<"builtin">> \o r}
      ELSE LET bs == Binders(p, found[1], r[1])
               made == IF found[1] = own THEN {b \in bs : b < i} ELSE bs
           IN  IF made = {} THEN {<<"unbound">> \o r}
               ELSE UNION {{t \o Tail(r) : t \in BoundTo(p[b], r[1], found[1])} : b \in made}

(* The reads of a file in order, each as what it stands for.               *)
Meaning(p) ==
  FoldLeft(LAMBDA acc, i : acc \o [j \in DOMAIN p[i].reads |-> Denotes(p, i, p[i].reads[j])],
           <<>>, [i \in 1..Len(p) |-> i])

=============================================================================
