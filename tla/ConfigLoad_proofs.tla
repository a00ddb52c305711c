------------------------- MODULE ConfigLoad_proofs --------------------------
(***************************************************************************)
(* Proofs about ConfigLoad, for any number of processes, files and         *)
(* directories, any contents and any number of saves and kills: a rewrite  *)
(* keeps what its user wrote; a load stays in its repository and reads no  *)
(* file twice; and, where no table is empty, an undisturbed load gives     *)
(* exactly what the users of its files wrote.                              *)
(***************************************************************************)
EXTENDS ConfigLoad, SequenceTheorems, FiniteSetTheorems, TLAPS

Paths == Seq(Keys)

-----------------------------------------------------------------------------
(* Paths.                                                                  *)

(* A prefix of a path agrees with it as far as it goes.                    *)
LEMMA PrefixPoints ==
  ASSUME NEW p \in Paths, NEW q \in Paths
  PROVE  IsPrefix(p, q) <=> Len(p) <= Len(q) /\ \A i \in 1 .. Len(p) : q[i] = p[i]
<1>1. Len(p) \in Nat /\ Len(q) \in Nat
  BY LenProperties DEF Paths
<1>2. SubSeq(p, 1, Len(p)) = p
  BY SubSeqFull DEF Paths
<1> SUFFICES ASSUME Len(p) <= Len(q)
             PROVE  p = SubSeq(q, 1, Len(p)) <=> \A i \in 1 .. Len(p) : q[i] = p[i]
  BY <1>1, <1>2 DEF IsPrefix
<1>3. \A i \in 1 .. Len(p) : q[i] \in Keys
  BY <1>1, ElementOfSeq DEF Paths
<1>4. /\ SubSeq(q, 1, Len(p)) \in Paths
      /\ Len(SubSeq(q, 1, Len(p))) = Len(p)
      /\ \A i \in 1 .. Len(p) : SubSeq(q, 1, Len(p))[i] = q[i]
  BY <1>1, <1>3, SubSeqProperties DEF Paths
<1> HIDE DEF Paths
<1>5. ASSUME \A i \in 1 .. Len(p) : q[i] = p[i]
      PROVE  p = SubSeq(q, 1, Len(p))
  BY <1>4, <1>5, SeqEqual DEF Paths
<1> QED
  BY <1>4, <1>5

(* What is left of a path, key by key.                                     *)
LEMMA RestPoints ==
  ASSUME NEW p \in Paths, NEW n \in 0 .. Len(p)
  PROVE  /\ Rest(p, n) \in Paths
         /\ Len(Rest(p, n)) = Len(p) - n
         /\ \A i \in 1 .. Len(p) - n : Rest(p, n)[i] = p[n + i]
<1>1. Len(p) \in Nat
  BY LenProperties DEF Paths
<1>2. \A i \in n + 1 .. Len(p) : p[i] \in Keys
  BY <1>1, ElementOfSeq DEF Paths
<1>3. /\ SubSeq(p, n + 1, Len(p)) \in Paths
      /\ Len(SubSeq(p, n + 1, Len(p))) = IF n + 1 <= Len(p) THEN Len(p) - (n + 1) + 1 ELSE 0
      /\ \A i \in 1 .. Len(p) - (n + 1) + 1 : SubSeq(p, n + 1, Len(p))[i] = p[n + 1 + i - 1]
  BY <1>1, <1>2, SubSeqProperties DEF Paths
<1> QED
  BY <1>1, <1>3 DEF Rest

(* A path with other first keys, key by key.                               *)
LEMMA PlacePoints ==
  ASSUME NEW a \in Paths, NEW p \in Paths, NEW n \in 0 .. Len(p)
  PROVE  /\ a \o Rest(p, n) \in Paths
         /\ Len(a \o Rest(p, n)) = Len(a) + Len(p) - n
         /\ \A i \in 1 .. Len(a) : (a \o Rest(p, n))[i] = a[i]
         /\ \A i \in n + 1 .. Len(p) : (a \o Rest(p, n))[Len(a) + i - n] = p[i]
<1> DEFINE r == Rest(p, n)
<1>1. Len(p) \in Nat /\ Len(a) \in Nat
  BY LenProperties DEF Paths
<1>2. r \in Paths /\ Len(r) = Len(p) - n /\ \A i \in 1 .. Len(p) - n : r[i] = p[n + i]
  BY RestPoints
<1> HIDE DEF r
<1>3. /\ a \o r \in Paths
      /\ Len(a \o r) = Len(a) + Len(r)
      /\ \A i \in 1 .. Len(a) + Len(r) : (a \o r)[i] = IF i <= Len(a) THEN a[i] ELSE r[i - Len(a)]
  BY <1>2, ConcatProperties DEF Paths
<1>4. ASSUME NEW i \in n + 1 .. Len(p)
      PROVE  (a \o r)[Len(a) + i - n] = p[i]
  <2>1. (a \o r)[Len(a) + i - n] = r[i - n]
    BY <1>1, <1>2, <1>3
  <2>2. r[i - n] = p[n + (i - n)]
    BY <1>1, <1>2
  <2> QED
    BY <1>1, <2>1, <2>2
<1>5. Len(a \o r) = Len(a) + Len(p) - n /\ \A i \in 1 .. Len(a) : (a \o r)[i] = a[i]
  BY <1>1, <1>2, <1>3
<1> QED
  BY <1>3, <1>4, <1>5 DEF r

(* A path is its prefix and what is left of it below that.                 *)
LEMMA PrefixJoin ==
  ASSUME NEW p \in Paths, NEW q \in Paths, IsPrefix(p, q)
  PROVE  Len(p) \in 0 .. Len(q) /\ Below(q, p) \in Paths /\ p \o Below(q, p) = q
<1>1. Len(p) \in Nat /\ Len(q) \in Nat /\ Len(p) <= Len(q) /\ \A i \in 1 .. Len(p) : q[i] = p[i]
  BY PrefixPoints, LenProperties DEF Paths
<1> DEFINE j == p \o Rest(q, Len(p))
<1>2. /\ j \in Paths
      /\ Len(j) = Len(p) + Len(q) - Len(p)
      /\ \A i \in 1 .. Len(p) : j[i] = p[i]
      /\ \A i \in Len(p) + 1 .. Len(q) : j[Len(p) + i - Len(p)] = q[i]
  <2>1. Len(p) \in 0 .. Len(q)
    BY <1>1
  <2> QED
    BY <2>1, PlacePoints
<1>3. \A i \in 1 .. Len(q) : j[i] = q[i]
  <2> SUFFICES ASSUME NEW i \in 1 .. Len(q) PROVE j[i] = q[i]
    OBVIOUS
  <2> HIDE DEF j
  <2>1. CASE i <= Len(p)
    BY <1>1, <1>2, <2>1
  <2>2. CASE i > Len(p)
    <3>1. i \in Len(p) + 1 .. Len(q) /\ Len(p) + i - Len(p) = i
      BY <1>1, <2>2
    <3> QED
      BY <1>2, <3>1
  <2> QED
    BY <1>1, <2>1, <2>2
<1>4. j = q
  <2> HIDE DEF j
  <2> QED
    BY <1>1, <1>2, <1>3, SeqEqual DEF Paths
<1>5. Rest(q, Len(p)) \in Paths
  BY <1>1, RestPoints
<1> QED
  BY <1>1, <1>4, <1>5 DEF Below

(* A path is a prefix of every path that goes on from it, and the rest is   *)
(* what it goes on with.                                                   *)
LEMMA JoinPrefix ==
  ASSUME NEW p \in Paths, NEW r \in Paths
  PROVE  p \o r \in Paths /\ IsPrefix(p, p \o r) /\ Below(p \o r, p) = r
<1> DEFINE j == p \o r
           b == Rest(j, Len(p))
<1>1. Len(p) \in Nat /\ Len(r) \in Nat
  BY LenProperties DEF Paths
<1>2. /\ j \in Paths
      /\ Len(j) = Len(p) + Len(r)
      /\ \A i \in 1 .. Len(p) + Len(r) : j[i] = IF i <= Len(p) THEN p[i] ELSE r[i - Len(p)]
  BY ConcatProperties DEF Paths
<1> HIDE DEF j
<1>3. IsPrefix(p, j)
  BY <1>1, <1>2, PrefixPoints
<1>4. /\ b \in Paths /\ Len(b) = Len(j) - Len(p)
      /\ \A i \in 1 .. Len(j) - Len(p) : b[i] = j[Len(p) + i]
  <2>1. Len(p) \in 0 .. Len(j)
    BY <1>1, <1>2
  <2> QED
    BY <1>2, <2>1, RestPoints
<1> HIDE DEF b
<1>5. \A i \in 1 .. Len(r) : b[i] = r[i]
  <2> SUFFICES ASSUME NEW i \in 1 .. Len(r) PROVE b[i] = r[i]
    OBVIOUS
  <2>1. b[i] = j[Len(p) + i]
    BY <1>1, <1>2, <1>4
  <2>2. j[Len(p) + i] = r[(Len(p) + i) - Len(p)]
    BY <1>1, <1>2
  <2> QED
    BY <1>1, <2>1, <2>2
<1>6. b = r
  BY <1>1, <1>2, <1>4, <1>5, SeqEqual DEF Paths
<1> QED
  BY <1>2, <1>3, <1>6 DEF Below, b, j

(* Prefixes of prefixes; two prefixes of one path; a path before another.   *)
LEMMA PrefixOrder ==
  ASSUME NEW p \in Paths, NEW q \in Paths
  PROVE  /\ IsPrefix(p, p) /\ IsPrefix(<< >>, p)
         /\ IsPrefix(p, q) /\ IsPrefix(q, p) => p = q
         /\ \A s \in Paths : IsPrefix(p, q) /\ IsPrefix(q, s) => IsPrefix(p, s)
         /\ \A s \in Paths : IsPrefix(p, s) /\ IsPrefix(q, s) => IsPrefix(p, q) \/ IsPrefix(q, p)
<1>1. \A s \in Paths : Len(s) \in Nat
  BY LenProperties DEF Paths
<1>2. << >> \in Paths /\ Len(<< >>) = 0
  BY EmptySeq DEF Paths
<1>3. IsPrefix(p, p) /\ IsPrefix(<< >>, p)
  BY <1>1, <1>2, PrefixPoints
<1>4. ASSUME IsPrefix(p, q), IsPrefix(q, p)
      PROVE  p = q
  <2>1. Len(p) = Len(q) /\ \A i \in 1 .. Len(p) : p[i] = q[i]
    BY <1>1, <1>4, PrefixPoints
  <2> QED
    BY <2>1, SeqEqual DEF Paths
<1>5. ASSUME NEW s \in Paths, IsPrefix(p, q), IsPrefix(q, s)
      PROVE  IsPrefix(p, s)
  BY <1>1, <1>5, PrefixPoints
<1>6. ASSUME NEW s \in Paths, IsPrefix(p, s), IsPrefix(q, s)
      PROVE  IsPrefix(p, q) \/ IsPrefix(q, p)
  BY <1>1, <1>6, PrefixPoints
<1> QED
  BY <1>3, <1>4, <1>5, <1>6

(* Below a common prefix, prefixes stay prefixes.                          *)
LEMMA BelowPrefix ==
  ASSUME NEW p \in Paths, NEW r \in Paths, NEW q \in Paths, IsPrefix(p, r), IsPrefix(r, q)
  PROVE  IsPrefix(Below(r, p), Below(q, p))
<1>1. IsPrefix(p, q)
  BY PrefixOrder
<1>2. /\ Len(p) \in 0 .. Len(r) /\ Len(p) \in 0 .. Len(q)
      /\ Len(p) \in Nat /\ Len(r) \in Nat /\ Len(q) \in Nat
  BY <1>1, PrefixJoin, LenProperties DEF Paths
<1>3. Len(r) <= Len(q) /\ \A i \in 1 .. Len(r) : q[i] = r[i]
  BY PrefixPoints
<1> DEFINE a == Rest(r, Len(p))
           b == Rest(q, Len(p))
<1>4. /\ a \in Paths /\ b \in Paths
      /\ Len(a) = Len(r) - Len(p) /\ Len(b) = Len(q) - Len(p)
      /\ \A i \in 1 .. Len(r) - Len(p) : a[i] = r[Len(p) + i]
      /\ \A i \in 1 .. Len(q) - Len(p) : b[i] = q[Len(p) + i]
  BY <1>2, RestPoints
<1> HIDE DEF a, b
<1>5. Len(a) <= Len(b) /\ \A i \in 1 .. Len(a) : b[i] = a[i]
  <2> SUFFICES ASSUME NEW i \in 1 .. Len(a) PROVE b[i] = a[i]
    BY <1>2, <1>3, <1>4
  <2>1. i \in 1 .. Len(r) - Len(p) /\ i \in 1 .. Len(q) - Len(p) /\ Len(p) + i \in 1 .. Len(r)
    BY <1>2, <1>3, <1>4
  <2> QED
    BY <1>3, <1>4, <2>1
<1>6. IsPrefix(a, b)
  BY <1>4, <1>5, PrefixPoints
<1> QED
  BY <1>6 DEF Below, a, b

(* Sequences of one, two and three elements.                               *)
LEMMA ShortSequences ==
  ASSUME NEW S, NEW a \in S, NEW b \in S, NEW c \in S
  PROVE  /\ <<a>> \in Seq(S) /\ Len(<<a>>) = 1 /\ <<a>>[1] = a
         /\ <<a, b>> \in Seq(S) /\ Len(<<a, b>>) = 2 /\ <<a, b>>[1] = a /\ <<a, b>>[2] = b
         /\ <<a, b, c>> \in Seq(S) /\ Len(<<a, b, c>>) = 3
         /\ <<a, b, c>>[1] = a /\ <<a, b, c>>[2] = b /\ <<a, b, c>>[3] = c
  OBVIOUS

(* Prefixes of one key and of two.                                         *)
LEMMA PrefixOfOne ==
  ASSUME NEW k \in Keys, NEW q \in Paths
  PROVE  <<k>> \in Paths /\ Len(<<k>>) = 1 /\ (IsPrefix(<<k>>, q) <=> Len(q) >= 1 /\ q[1] = k)
<1>1. <<k>> \in Paths /\ Len(<<k>>) = 1 /\ <<k>>[1] = k /\ Len(q) \in Nat
  BY ShortSequences, LenProperties, Zenon DEF Paths
<1>2. IsPrefix(<<k>>, q) <=> Len(<<k>>) <= Len(q) /\ \A i \in 1 .. Len(<<k>>) : q[i] = <<k>>[i]
  BY <1>1, PrefixPoints
<1>3. 1 .. Len(<<k>>) = {1}
  BY <1>1
<1> QED
  BY <1>1, <1>2, <1>3

LEMMA PrefixOfTwo ==
  ASSUME NEW k \in Keys, NEW m \in Keys, NEW q \in Paths
  PROVE  /\ <<k, m>> \in Paths /\ Len(<<k, m>>) = 2
         /\ IsPrefix(<<k, m>>, q) <=> Len(q) >= 2 /\ q[1] = k /\ q[2] = m
<1>1. /\ <<k, m>> \in Paths /\ Len(<<k, m>>) = 2 /\ <<k, m>>[1] = k /\ <<k, m>>[2] = m
      /\ Len(q) \in Nat
  BY ShortSequences, LenProperties, Zenon DEF Paths
<1>2. IsPrefix(<<k, m>>, q) <=>
         Len(<<k, m>>) <= Len(q) /\ \A i \in 1 .. Len(<<k, m>>) : q[i] = <<k, m>>[i]
  BY <1>1, PrefixPoints
<1>3. 1 .. Len(<<k, m>>) = {1, 2}
  BY <1>1
<1> QED
  BY <1>1, <1>2, <1>3

-----------------------------------------------------------------------------
(* Documents.                                                              *)

(* Every path to a node leads through tables of the document.              *)
LEMMA DocumentPrefix ==
  ASSUME NEW t, IsDocument(t), NEW q \in DOMAIN t, NEW p \in Paths, IsPrefix(p, q)
  PROVE  p \in DOMAIN t /\ (p # q => t[p] = Branch)
<1>1. q \in Paths
  BY DEF IsDocument, Paths
<1>2. Len(p) \in Nat /\ Len(q) \in Nat /\ Len(p) <= Len(q) /\ p = SubSeq(q, 1, Len(p))
  BY <1>1, LenProperties, SubSeqFull DEF Paths, IsPrefix
<1>3. CASE Len(p) = Len(q)
  <2>1. p = q
    BY <1>1, <1>2, <1>3, SubSeqFull DEF Paths
  <2> QED
    BY <2>1
<1>4. CASE Len(p) < Len(q)
  <2>1. Len(p) + 1 \in 1 .. Len(q) /\ Len(p) + 1 - 1 = Len(p)
    BY <1>2, <1>4
  <2>2. SubSeq(q, 1, Len(p) + 1 - 1) \in DOMAIN t /\ t[SubSeq(q, 1, Len(p) + 1 - 1)] = Branch
    BY <2>1 DEF IsDocument
  <2> QED
    BY <1>2, <2>1, <2>2
<1> QED
  BY <1>2, <1>3, <1>4

LEMMA DocumentByPrefix ==
  ASSUME NEW t, DOMAIN t \subseteq Paths, << >> \in DOMAIN t,
         \A q \in DOMAIN t, p \in Paths : IsPrefix(p, q) /\ p # q => p \in DOMAIN t /\ t[p] = Branch
  PROVE  IsDocument(t)
<1> SUFFICES ASSUME NEW q \in DOMAIN t, NEW n \in 1 .. Len(q)
             PROVE  SubSeq(q, 1, n - 1) \in DOMAIN t /\ t[SubSeq(q, 1, n - 1)] = Branch
  BY DEF IsDocument, Paths
<1> DEFINE p == SubSeq(q, 1, n - 1)
<1>1. q \in Paths /\ Len(q) \in Nat
  BY LenProperties DEF Paths
<1>2. \A i \in 1 .. n - 1 : q[i] \in Keys
  BY <1>1, ElementOfSeq DEF Paths
<1>3. p \in Paths /\ Len(p) = n - 1 /\ \A i \in 1 .. n - 1 : p[i] = q[i]
  <2>1. /\ p \in Paths
        /\ Len(p) = IF 1 <= n - 1 THEN (n - 1) - 1 + 1 ELSE 0
        /\ \A i \in 1 .. (n - 1) - 1 + 1 : p[i] = q[1 + i - 1]
    BY <1>1, <1>2, SubSeqProperties DEF Paths
  <2> HIDE DEF p
  <2> QED
    BY <1>1, <2>1
<1> HIDE DEF p
<1>4. IsPrefix(p, q) /\ p # q
  BY <1>1, <1>3, PrefixPoints
<1> QED
  BY <1>3, <1>4 DEF p

(* The nodes of what is at a path.                                         *)
LEMMA AtPathNodes ==
  ASSUME NEW t, DOMAIN t \subseteq Paths, NEW p \in Paths
  PROVE  /\ DOMAIN AtPath(t, p) \subseteq Paths
         /\ \A r \in Paths : r \in DOMAIN AtPath(t, p) <=> p \o r \in DOMAIN t
         /\ \A r \in DOMAIN AtPath(t, p) : AtPath(t, p)[r] = t[p \o r]
<1>1. ASSUME NEW q \in Under(t, p)
      PROVE  Below(q, p) \in Paths /\ p \o Below(q, p) = q
  BY PrefixJoin DEF Under
<1>2. ASSUME NEW r \in Paths, p \o r \in DOMAIN t
      PROVE  r \in {Below(q, p) : q \in Under(t, p)}
  <2>1. p \o r \in Under(t, p) /\ Below(p \o r, p) = r
    BY <1>2, JoinPrefix DEF Under
  <2> QED
    BY <2>1
<1> QED
  BY <1>1, <1>2 DEF AtPath, Under

(* The nodes of a document in which another one was put at a path.         *)
LEMMA ReplacedNodes ==
  ASSUME NEW t, DOMAIN t \subseteq Paths, NEW v, DOMAIN v \subseteq Paths, NEW p \in Paths
  PROVE  /\ DOMAIN Replaced(t, p, v) \subseteq Paths
         /\ \A q \in Paths : q \in DOMAIN Replaced(t, p, v) <=>
               IF IsPrefix(p, q) THEN Below(q, p) \in DOMAIN v ELSE q \in DOMAIN t
         /\ \A q \in DOMAIN Replaced(t, p, v) :
               Replaced(t, p, v)[q] = IF IsPrefix(p, q) THEN v[Below(q, p)] ELSE t[q]
<1> DEFINE D == (DOMAIN t \ Under(t, p)) \cup {p \o r : r \in DOMAIN v}
<1>1. DOMAIN Replaced(t, p, v) = D
  BY DEF Replaced
<1>2. D \subseteq Paths
  BY JoinPrefix
<1>3. ASSUME NEW q \in Paths, IsPrefix(p, q)
      PROVE  q \in D <=> Below(q, p) \in DOMAIN v
  <2>1. Below(q, p) \in Paths /\ p \o Below(q, p) = q
    BY <1>3, PrefixJoin
  <2>2. \A r \in DOMAIN v : p \o r = q => r = Below(q, p)
    BY JoinPrefix
  <2> QED
    BY <1>3, <2>1, <2>2 DEF Under
<1>4. ASSUME NEW q \in Paths, ~IsPrefix(p, q)
      PROVE  q \in D <=> q \in DOMAIN t
  <2>1. \A r \in DOMAIN v : p \o r # q
    BY <1>4, JoinPrefix
  <2> QED
    BY <1>4, <2>1 DEF Under
<1>5. \A q \in D : Replaced(t, p, v)[q] = IF IsPrefix(p, q) THEN v[Below(q, p)] ELSE t[q]
  BY DEF Replaced
<1> QED
  BY <1>1, <1>2, <1>3, <1>4, <1>5

(* What was put at a path is what is found there.                          *)
LEMMA AtReplaced ==
  ASSUME NEW t, DOMAIN t \subseteq Paths, NEW v, DOMAIN v \subseteq Paths,
         v = [r \in DOMAIN v |-> v[r]], NEW p \in Paths
  PROVE  AtPath(Replaced(t, p, v), p) = v
<1> DEFINE R == Replaced(t, p, v)
<1>1. DOMAIN R \subseteq Paths
  BY ReplacedNodes
<1>2. ASSUME NEW r \in Paths
      PROVE  /\ p \o r \in DOMAIN R <=> r \in DOMAIN v
             /\ r \in DOMAIN v => R[p \o r] = v[r]
  <2>1. p \o r \in Paths /\ IsPrefix(p, p \o r) /\ Below(p \o r, p) = r
    BY JoinPrefix
  <2> QED
    BY <2>1, ReplacedNodes
<1> HIDE DEF R
<1>3. DOMAIN AtPath(R, p) = DOMAIN v
  BY <1>1, <1>2, AtPathNodes
<1>4. \A r \in DOMAIN v : AtPath(R, p)[r] = v[r]
  BY <1>1, <1>2, <1>3, AtPathNodes
<1>5. AtPath(R, p) = [r \in DOMAIN v |-> v[r]]
  BY <1>3, <1>4 DEF AtPath
<1> QED
  BY <1>5 DEF R

(* A table without one of its entries, and with the entry under a new name. *)
LEMMA CutNodes ==
  ASSUME NEW t, IsDocument(t), NEW p \in Paths, p # << >>
  PROVE  /\ IsDocument(Cut(t, p))
         /\ DOMAIN Cut(t, p) = {q \in DOMAIN t : ~IsPrefix(p, q)}
         /\ \A q \in DOMAIN Cut(t, p) : Cut(t, p)[q] = t[q]
<1> DEFINE C == Cut(t, p)
<1>1. DOMAIN t \subseteq Paths /\ << >> \in DOMAIN t
  BY DEF IsDocument, Paths
<1>2. /\ DOMAIN C = {q \in DOMAIN t : ~IsPrefix(p, q)}
      /\ \A q \in DOMAIN C : C[q] = t[q]
  BY DEF Cut, Under
<1> HIDE DEF C
<1>3. << >> \in Paths /\ << >> \in DOMAIN C
  BY <1>1, <1>2, PrefixOrder DEF Paths
<1>4. ASSUME NEW q \in DOMAIN C, NEW r \in Paths, IsPrefix(r, q), r # q
      PROVE  r \in DOMAIN C /\ C[r] = Branch
  <2>1. r \in DOMAIN t /\ t[r] = Branch
    BY <1>2, <1>4, DocumentPrefix
  <2>2. ~IsPrefix(p, r)
    BY <1>1, <1>2, <1>4, PrefixOrder
  <2> QED
    BY <1>2, <2>1, <2>2
<1>5. IsDocument(C)
  BY <1>1, <1>2, <1>3, <1>4, DocumentByPrefix
<1> QED
  BY <1>2, <1>5 DEF C

(* A document put at a path all of whose prefixes are tables.              *)
LEMMA ReplacedDocument ==
  ASSUME NEW t, IsDocument(t), NEW v, IsDocument(v), NEW p \in Paths,
         \A q \in Paths : IsPrefix(q, p) /\ q # p => q \in DOMAIN t /\ t[q] = Branch
  PROVE  IsDocument(Replaced(t, p, v))
<1> DEFINE R == Replaced(t, p, v)
<1>1. DOMAIN t \subseteq Paths /\ << >> \in DOMAIN t /\ DOMAIN v \subseteq Paths /\ << >> \in DOMAIN v
  BY DEF IsDocument, Paths
<1>2. /\ DOMAIN R \subseteq Paths
      /\ \A q \in Paths : q \in DOMAIN R <=>
            IF IsPrefix(p, q) THEN Below(q, p) \in DOMAIN v ELSE q \in DOMAIN t
      /\ \A q \in DOMAIN R : R[q] = IF IsPrefix(p, q) THEN v[Below(q, p)] ELSE t[q]
  BY <1>1, ReplacedNodes
<1> HIDE DEF R
<1>3. << >> \in Paths
  BY DEF Paths
<1>4. << >> \in DOMAIN R
  <2>1. ASSUME IsPrefix(p, << >>)
        PROVE  Below(<< >>, p) = << >>
    <3>1. p = << >>
      BY <1>3, <2>1, PrefixOrder
    <3>2. << >> \o << >> = << >>
      OBVIOUS
    <3> QED
      BY <1>3, <3>1, <3>2, JoinPrefix
  <2> QED
    BY <1>1, <1>2, <1>3, <2>1
<1>5. ASSUME NEW q \in DOMAIN R, NEW r \in Paths, IsPrefix(r, q), r # q
      PROVE  r \in DOMAIN R /\ R[r] = Branch
  <2>1. CASE ~IsPrefix(p, q)
    <3>1. r \in DOMAIN t /\ t[r] = Branch
      BY <1>2, <1>5, <2>1, DocumentPrefix
    <3>2. ~IsPrefix(p, r)
      BY <1>2, <1>5, <2>1, PrefixOrder
    <3> QED
      BY <1>2, <3>1, <3>2
  <2>2. CASE IsPrefix(p, q) /\ ~IsPrefix(p, r)
    <3>1. IsPrefix(r, p) /\ r # p
      BY <1>2, <1>5, <2>2, PrefixOrder
    <3> QED
      BY <1>2, <2>2, <3>1
  <2>3. CASE IsPrefix(p, q) /\ IsPrefix(p, r)
    <3>1. /\ Below(q, p) \in DOMAIN v
          /\ Below(r, p) \in Paths
          /\ p \o Below(q, p) = q /\ p \o Below(r, p) = r
      BY <1>2, <1>5, <2>3, PrefixJoin
    <3>2. Below(q, p) \in Paths /\ Below(r, p) # Below(q, p)
      BY <1>1, <1>5, <3>1
    <3>3. IsPrefix(Below(r, p), Below(q, p))
      BY <1>2, <1>5, <2>3, BelowPrefix
    <3>4. Below(r, p) \in DOMAIN v /\ v[Below(r, p)] = Branch
      BY <3>1, <3>2, <3>3, DocumentPrefix
    <3> QED
      BY <1>2, <2>3, <3>4
  <2> QED
    BY <2>1, <2>2, <2>3
<1>6. IsDocument(R)
  BY <1>2, <1>4, <1>5, DocumentByPrefix
<1> QED
  BY <1>6 DEF R

(* What is at the path of a node is a document.                            *)
LEMMA AtPathDocument ==
  ASSUME NEW t, IsDocument(t), NEW p \in DOMAIN t
  PROVE  IsDocument(AtPath(t, p))
<1> DEFINE A == AtPath(t, p)
<1>1. DOMAIN t \subseteq Paths /\ p \in Paths /\ << >> \in Paths
  BY DEF IsDocument, Paths
<1>2. /\ DOMAIN A \subseteq Paths
      /\ \A r \in Paths : r \in DOMAIN A <=> p \o r \in DOMAIN t
      /\ \A r \in DOMAIN A : A[r] = t[p \o r]
  BY <1>1, AtPathNodes
<1> HIDE DEF A
<1>3. << >> \in DOMAIN A
  <2>1. p \o << >> = p
    BY <1>1, ConcatEmptySeq DEF Paths
  <2> QED
    BY <1>1, <1>2, <2>1
<1>4. ASSUME NEW q \in DOMAIN A, NEW r \in Paths, IsPrefix(r, q), r # q
      PROVE  r \in DOMAIN A /\ A[r] = Branch
  <2>1. p \o q \in DOMAIN t /\ q \in Paths /\ p \o r \in Paths
    BY <1>1, <1>2, JoinPrefix
  <2>2. IsPrefix(p \o r, p \o q) /\ p \o r # p \o q
    <3>1. q = r \o Below(q, r) /\ Below(q, r) \in Paths
      BY <1>4, <2>1, PrefixJoin
    <3> DEFINE b == Below(q, r)
    <3> HIDE DEF b
    <3>2. p \o q = (p \o r) \o b
      <4>1. q = r \o b /\ b \in Paths
        BY <3>1 DEF b
      <4>2. (p \o r) \o b = p \o (r \o b)
        BY <1>1, <4>1, ConcatAssociative DEF Paths
      <4> QED
        BY <4>1, <4>2
    <3>3. IsPrefix(p \o r, p \o q)
      BY <2>1, <3>1, <3>2, JoinPrefix DEF b
    <3>4. Below(p \o r, p) = r /\ Below(p \o q, p) = q
      BY <1>1, <2>1, JoinPrefix
    <3> QED
      BY <1>4, <3>3, <3>4
  <2>3. p \o r \in DOMAIN t /\ t[p \o r] = Branch
    BY <2>1, <2>2, DocumentPrefix
  <2> QED
    BY <1>2, <2>3
<1>5. IsDocument(A)
  BY <1>2, <1>3, <1>4, DocumentByPrefix
<1> QED
  BY <1>5 DEF A

(* The leaves of a document, as pairs of path and value.                   *)
LEMMA LeafOf ==
  ASSUME NEW t, NEW l
  PROVE  l \in Leaves(t) <=> \E p \in DOMAIN t : t[p] # Branch /\ l = [path |-> p, val |-> t[p]]
BY DEF Leaves

(* Two names of one entry: neither leads through the other, and both lie in *)
(* the same table.                                                         *)
Siblings(old, new) ==
    /\ old \in Paths /\ new \in Paths /\ old # << >>
    /\ ~IsPrefix(old, new) /\ ~IsPrefix(new, old)
    /\ \A q \in Paths : IsPrefix(q, new) /\ q # new => IsPrefix(q, old) /\ q # old

(* The path of a node once an entry has a new name.                        *)
Swapped(p, old, new) == IF IsPrefix(old, p) THEN new \o Below(p, old) ELSE p

(* An entry that gets a new name takes everything below it along, and       *)
(* replaces what was there under that name.                                *)
LEMMA RenamedNodes ==
  ASSUME NEW t, IsDocument(t), NEW old, NEW new, Siblings(old, new), HasPath(t, old)
  PROVE  /\ IsDocument(Renamed(t, old, new))
         /\ \A q \in Paths : q \in DOMAIN Renamed(t, old, new) <=>
               IF IsPrefix(new, q) THEN old \o Below(q, new) \in DOMAIN t
                                   ELSE q \in DOMAIN t /\ ~IsPrefix(old, q)
         /\ \A q \in DOMAIN Renamed(t, old, new) : Renamed(t, old, new)[q] =
               IF IsPrefix(new, q) THEN t[old \o Below(q, new)] ELSE t[q]
<1> DEFINE C == Cut(t, old)
           A == AtPath(t, old)
<1>1. /\ old \in Paths /\ new \in Paths /\ old # << >>
      /\ ~IsPrefix(old, new) /\ ~IsPrefix(new, old)
      /\ \A q \in Paths : IsPrefix(q, new) /\ q # new => IsPrefix(q, old) /\ q # old
  BY DEF Siblings
<1>2. DOMAIN t \subseteq Paths /\ old \in DOMAIN t
  BY DEF IsDocument, Paths, HasPath
<1>3. Renamed(t, old, new) = Replaced(C, new, A)
  BY DEF Renamed
<1>4. /\ IsDocument(C)
      /\ DOMAIN C = {q \in DOMAIN t : ~IsPrefix(old, q)}
      /\ \A q \in DOMAIN C : C[q] = t[q]
  BY <1>1, CutNodes
<1>5. IsDocument(A)
  BY <1>2, AtPathDocument
<1>6. /\ \A r \in Paths : r \in DOMAIN A <=> old \o r \in DOMAIN t
      /\ \A r \in DOMAIN A : A[r] = t[old \o r]
  BY <1>1, <1>2, AtPathNodes
<1> HIDE DEF A, C
<1>7. DOMAIN C \subseteq Paths /\ DOMAIN A \subseteq Paths
  BY <1>4, <1>5 DEF IsDocument, Paths
<1>8. ASSUME NEW q \in Paths, IsPrefix(q, new), q # new
      PROVE  q \in DOMAIN C /\ C[q] = Branch
  <2>1. IsPrefix(q, old) /\ q # old
    BY <1>1, <1>8
  <2>2. q \in DOMAIN t /\ t[q] = Branch
    BY <1>2, <2>1, DocumentPrefix
  <2>3. ~IsPrefix(old, q)
    BY <1>1, <2>1, PrefixOrder
  <2> QED
    BY <1>4, <2>2, <2>3
<1>9. IsDocument(Replaced(C, new, A))
  BY <1>1, <1>4, <1>5, <1>8, ReplacedDocument
<1>10. /\ \A q \in Paths : q \in DOMAIN Replaced(C, new, A) <=>
             IF IsPrefix(new, q) THEN Below(q, new) \in DOMAIN A ELSE q \in DOMAIN C
       /\ \A q \in DOMAIN Replaced(C, new, A) :
             Replaced(C, new, A)[q] = IF IsPrefix(new, q) THEN A[Below(q, new)] ELSE C[q]
  BY <1>1, <1>7, ReplacedNodes
<1>11. \A q \in Paths : IsPrefix(new, q) => Below(q, new) \in Paths
  BY <1>1, PrefixJoin
<1>12. DOMAIN Replaced(C, new, A) \subseteq Paths
  BY <1>9 DEF IsDocument, Paths
<1>13. \A q \in Paths : q \in DOMAIN Replaced(C, new, A) <=>
             IF IsPrefix(new, q) THEN old \o Below(q, new) \in DOMAIN t
                                 ELSE q \in DOMAIN t /\ ~IsPrefix(old, q)
  BY <1>4, <1>6, <1>10, <1>11
<1>14. \A q \in DOMAIN Replaced(C, new, A) : Replaced(C, new, A)[q] =
             IF IsPrefix(new, q) THEN t[old \o Below(q, new)] ELSE t[q]
  BY <1>4, <1>6, <1>10, <1>11, <1>12
<1> QED
  BY <1>3, <1>9, <1>13, <1>14

LEMMA RenamedLeaves ==
  ASSUME NEW t, IsDocument(t), NEW old, NEW new, Siblings(old, new), HasPath(t, old), NEW l
  PROVE  l \in Leaves(Renamed(t, old, new)) <=>
           \E m \in Leaves(t) : /\ ~IsPrefix(new, m.path)
                                /\ l = [path |-> Swapped(m.path, old, new), val |-> m.val]
<1> DEFINE R == Renamed(t, old, new)
<1>1. DOMAIN t \subseteq Paths /\ old \in Paths /\ new \in Paths
      /\ ~IsPrefix(old, new) /\ ~IsPrefix(new, old)
  BY DEF IsDocument, Paths, Siblings
<1>2. /\ IsDocument(R)
      /\ \A q \in Paths : q \in DOMAIN R <=>
            IF IsPrefix(new, q) THEN old \o Below(q, new) \in DOMAIN t
                                ELSE q \in DOMAIN t /\ ~IsPrefix(old, q)
      /\ \A q \in DOMAIN R : R[q] = IF IsPrefix(new, q) THEN t[old \o Below(q, new)] ELSE t[q]
  BY RenamedNodes
<1> HIDE DEF R
<1>3. DOMAIN R \subseteq Paths
  BY <1>2 DEF IsDocument, Paths
<1>4. ASSUME NEW q \in DOMAIN R, R[q] # Branch
      PROVE  \E p \in DOMAIN t : /\ t[p] = R[q]
                                 /\ ~IsPrefix(new, p)
                                 /\ q = Swapped(p, old, new)
  <2>1. CASE IsPrefix(new, q)
    <3> DEFINE p == old \o Below(q, new)
    <3>1. Below(q, new) \in Paths /\ new \o Below(q, new) = q
      BY <1>1, <1>3, <2>1, PrefixJoin
    <3>2. p \in Paths /\ IsPrefix(old, p) /\ Below(p, old) = Below(q, new)
      BY <1>1, <3>1, JoinPrefix
    <3>3. ~IsPrefix(new, p)
      BY <1>1, <3>2, PrefixOrder
    <3>4. p \in DOMAIN t /\ t[p] = R[q]
      BY <1>2, <1>3, <2>1
    <3> QED
      BY <3>1, <3>2, <3>3, <3>4 DEF Swapped
  <2>2. CASE ~IsPrefix(new, q)
    BY <1>2, <1>3, <2>2 DEF Swapped
  <2> QED
    BY <2>1, <2>2
<1>5. ASSUME NEW p \in DOMAIN t, ~IsPrefix(new, p)
      PROVE  Swapped(p, old, new) \in DOMAIN R /\ R[Swapped(p, old, new)] = t[p]
  <2>1. CASE IsPrefix(old, p)
    <3> DEFINE q == new \o Below(p, old)
    <3>1. Below(p, old) \in Paths /\ old \o Below(p, old) = p
      BY <1>1, <2>1, PrefixJoin
    <3>2. q \in Paths /\ IsPrefix(new, q) /\ Below(q, new) = Below(p, old)
      BY <1>1, <3>1, JoinPrefix
    <3>3. Swapped(p, old, new) = q
      BY <2>1 DEF Swapped
    <3> HIDE DEF q
    <3>4. q \in DOMAIN R
      BY <1>2, <3>1, <3>2
    <3> QED
      BY <1>2, <3>1, <3>2, <3>3, <3>4
  <2>2. CASE ~IsPrefix(old, p)
    BY <1>1, <1>2, <1>5, <2>2 DEF Swapped
  <2> QED
    BY <2>1, <2>2
<1>6. ASSUME l \in Leaves(R)
      PROVE  \E m \in Leaves(t) : /\ ~IsPrefix(new, m.path)
                                  /\ l = [path |-> Swapped(m.path, old, new), val |-> m.val]
  <2>1. PICK q \in DOMAIN R : R[q] # Branch /\ l = [path |-> q, val |-> R[q]]
    BY <1>6, LeafOf
  <2>2. PICK p \in DOMAIN t : t[p] = R[q] /\ ~IsPrefix(new, p) /\ q = Swapped(p, old, new)
    BY <1>4, <2>1
  <2>3. [path |-> p, val |-> t[p]] \in Leaves(t)
    BY <2>1, <2>2, LeafOf
  <2> QED
    BY <2>1, <2>2, <2>3
<1>7. ASSUME NEW m \in Leaves(t), ~IsPrefix(new, m.path),
             l = [path |-> Swapped(m.path, old, new), val |-> m.val]
      PROVE  l \in Leaves(R)
  <2>1. PICK p \in DOMAIN t : t[p] # Branch /\ m = [path |-> p, val |-> t[p]]
    BY LeafOf
  <2>2. Swapped(p, old, new) \in DOMAIN R /\ R[Swapped(p, old, new)] = t[p]
    BY <1>5, <1>7, <2>1
  <2> QED
    BY <1>7, <2>1, <2>2, LeafOf
<1> QED
  BY <1>6, <1>7 DEF R

(* Moving nodes to different places moves the leaves with them.            *)
LEMMA RelocatedLeaves ==
  ASSUME NEW t, NEW place,
         \A p \in DOMAIN t, q \in DOMAIN t : place[p] = place[q] => p = q, NEW l
  PROVE  /\ DOMAIN Relocated(t, place) = {place[p] : p \in DOMAIN t}
         /\ \A p \in DOMAIN t : Relocated(t, place)[place[p]] = t[p]
         /\ l \in Leaves(Relocated(t, place)) <=>
              \E m \in Leaves(t) : l = [path |-> place[m.path], val |-> m.val]
<1> DEFINE R == Relocated(t, place)
<1>1. DOMAIN R = {place[p] : p \in DOMAIN t}
  BY DEF Relocated
<1>2. \A p \in DOMAIN t : R[place[p]] = t[p]
  BY DEF Relocated
<1> HIDE DEF R
<1>3. ASSUME l \in Leaves(R)
      PROVE  \E m \in Leaves(t) : l = [path |-> place[m.path], val |-> m.val]
  <2>1. PICK q \in DOMAIN R : R[q] # Branch /\ l = [path |-> q, val |-> R[q]]
    BY <1>3, LeafOf
  <2>2. PICK p \in DOMAIN t : q = place[p]
    BY <1>1
  <2>3. [path |-> p, val |-> t[p]] \in Leaves(t)
    BY <1>2, <2>1, <2>2, LeafOf
  <2> QED
    BY <1>2, <2>1, <2>2, <2>3
<1>4. ASSUME NEW m \in Leaves(t), l = [path |-> place[m.path], val |-> m.val]
      PROVE  l \in Leaves(R)
  <2>1. PICK p \in DOMAIN t : t[p] # Branch /\ m = [path |-> p, val |-> t[p]]
    BY LeafOf
  <2> QED
    BY <1>1, <1>2, <1>4, <2>1, LeafOf
<1> QED
  BY <1>1, <1>2, <1>3, <1>4 DEF R

(* Giving an entry a new name, whether or not it is there.                 *)
LEMMA RenamedAny ==
  ASSUME NEW t, IsDocument(t), NEW old, NEW new, Siblings(old, new)
  PROVE  /\ IsDocument(Renamed(t, old, new))
         /\ ~HasPath(Renamed(t, old, new), old)
         /\ \A q \in Paths : ~IsPrefix(old, q) /\ ~IsPrefix(new, q) =>
               (HasPath(Renamed(t, old, new), q) <=> HasPath(t, q))
         /\ \A l : l \in Leaves(Renamed(t, old, new)) <=>
              \E m \in Leaves(t) : /\ ~(HasPath(t, old) /\ IsPrefix(new, m.path))
                                   /\ l = [path |-> Swapped(m.path, old, new), val |-> m.val]
<1>1. old \in Paths /\ new \in Paths /\ ~IsPrefix(new, old) /\ IsPrefix(old, old)
  BY PrefixOrder DEF Siblings
<1>2. CASE HasPath(t, old)
  <2>1. IsDocument(Renamed(t, old, new))
    BY <1>2, RenamedNodes
  <2>2. ~HasPath(Renamed(t, old, new), old)
    BY <1>1, <1>2, RenamedNodes DEF HasPath
  <2>3. \A q \in Paths : ~IsPrefix(old, q) /\ ~IsPrefix(new, q) =>
           (HasPath(Renamed(t, old, new), q) <=> HasPath(t, q))
    BY <1>2, RenamedNodes DEF HasPath
  <2> QED
    BY <1>2, <2>1, <2>2, <2>3, RenamedLeaves
<1>3. CASE ~HasPath(t, old)
  <2>1. Renamed(t, old, new) = t
    BY <1>3 DEF Renamed
  <2>2. \A m \in Leaves(t) : Swapped(m.path, old, new) = m.path /\ m = [path |-> m.path, val |-> m.val]
    <3> SUFFICES ASSUME NEW m \in Leaves(t)
                 PROVE  Swapped(m.path, old, new) = m.path /\ m = [path |-> m.path, val |-> m.val]
      OBVIOUS
    <3>1. PICK p \in DOMAIN t : m = [path |-> p, val |-> t[p]]
      BY LeafOf
    <3>2. ~IsPrefix(old, p)
      BY <1>1, <1>3, DocumentPrefix DEF HasPath
    <3> QED
      BY <3>1, <3>2 DEF Swapped
  <2>3. \A l : l \in Leaves(t) <=>
          \E m \in Leaves(t) : l = [path |-> Swapped(m.path, old, new), val |-> m.val]
    BY <2>2
  <2> QED
    BY <1>3, <2>1, <2>3
<1> QED
  BY <1>2, <1>3

-----------------------------------------------------------------------------
(* The migration to `lint`.                                                *)

(* The names the program gives to what it moves.                           *)
LEMMA KnownNames ==
  /\ DOMAIN LintNames = {"select", "ignore", "level", "per_file_ignores", "noqa_aliases", "KIS", "KPT"}
  /\ LintNames["select"] = "select" /\ LintNames["ignore"] = "ignore" /\ LintNames["level"] = "level"
  /\ LintNames["per_file_ignores"] = "per-file-ignores"
  /\ LintNames["noqa_aliases"] = "noqa-aliases"
  /\ LintNames["KIS"] = "module-only-imports" /\ LintNames["KPT"] = "user-defined-patterns"
  /\ DOMAIN RuleTableRenames = {"unnecessary-import-alias"}
  /\ RuleTableRenames["unnecessary-import-alias"] = "import-alias-policy"
BY DEF LintNames, Laid, FlatKeyRenames, CategoryToRuleConfigName, RuleTableRenames

LEMMA KnownKeys ==
  /\ {"tool", "konform", "extend", "lint", "cache_dir", "cache-dir", "unresolved_level",
      "unresolved-level", "KIS", "unnecessary-import-alias", "import-alias-policy"} \subseteq Keys
  /\ DOMAIN LintNames \subseteq Keys
  /\ \A k \in DOMAIN LintNames : LintNames[k] \in Keys
BY KeysAssumption, KnownNames

OldCache == <<"cache_dir">>
NewCache == <<"cache-dir">>
OldLevel == <<"KIS", "unresolved_level">>
NewLevel == <<"KIS", "unresolved-level">>

LEMMA SpellingPaths ==
  /\ OldCache \in Paths /\ Len(OldCache) = 1 /\ OldCache[1] = "cache_dir"
  /\ NewCache \in Paths /\ Len(NewCache) = 1 /\ NewCache[1] = "cache-dir"
  /\ OldLevel \in Paths /\ Len(OldLevel) = 2 /\ OldLevel[1] = "KIS" /\ OldLevel[2] = "unresolved_level"
  /\ NewLevel \in Paths /\ Len(NewLevel) = 2 /\ NewLevel[1] = "KIS" /\ NewLevel[2] = "unresolved-level"
  /\ \A q \in Paths : /\ IsPrefix(OldCache, q) <=> Len(q) >= 1 /\ q[1] = "cache_dir"
                      /\ IsPrefix(NewCache, q) <=> Len(q) >= 1 /\ q[1] = "cache-dir"
                      /\ IsPrefix(OldLevel, q) <=>
                            Len(q) >= 2 /\ q[1] = "KIS" /\ q[2] = "unresolved_level"
                      /\ IsPrefix(NewLevel, q) <=>
                            Len(q) >= 2 /\ q[1] = "KIS" /\ q[2] = "unresolved-level"
<1>1. /\ "cache_dir" \in Keys /\ "cache-dir" \in Keys /\ "KIS" \in Keys
      /\ "unresolved_level" \in Keys /\ "unresolved-level" \in Keys
  BY KnownKeys
<1>2. OldCache \in Paths /\ Len(OldCache) = 1 /\ OldCache[1] = "cache_dir"
  BY <1>1, ShortSequences, Zenon DEF OldCache, Paths
<1>3. NewCache \in Paths /\ Len(NewCache) = 1 /\ NewCache[1] = "cache-dir"
  BY <1>1, ShortSequences, Zenon DEF NewCache, Paths
<1>4. OldLevel \in Paths /\ Len(OldLevel) = 2 /\ OldLevel[1] = "KIS" /\ OldLevel[2] = "unresolved_level"
  BY <1>1, ShortSequences, Zenon DEF OldLevel, Paths
<1>5. NewLevel \in Paths /\ Len(NewLevel) = 2 /\ NewLevel[1] = "KIS" /\ NewLevel[2] = "unresolved-level"
  BY <1>1, ShortSequences, Zenon DEF NewLevel, Paths
<1>6. ASSUME NEW q \in Paths
      PROVE  /\ IsPrefix(OldCache, q) <=> Len(q) >= 1 /\ q[1] = "cache_dir"
             /\ IsPrefix(NewCache, q) <=> Len(q) >= 1 /\ q[1] = "cache-dir"
             /\ IsPrefix(OldLevel, q) <=> Len(q) >= 2 /\ q[1] = "KIS" /\ q[2] = "unresolved_level"
             /\ IsPrefix(NewLevel, q) <=> Len(q) >= 2 /\ q[1] = "KIS" /\ q[2] = "unresolved-level"
  <2>1. IsPrefix(OldCache, q) <=> Len(q) >= 1 /\ q[1] = "cache_dir"
    BY <1>1, PrefixOfOne, Zenon DEF OldCache
  <2>2. IsPrefix(NewCache, q) <=> Len(q) >= 1 /\ q[1] = "cache-dir"
    BY <1>1, PrefixOfOne, Zenon DEF NewCache
  <2>3. IsPrefix(OldLevel, q) <=> Len(q) >= 2 /\ q[1] = "KIS" /\ q[2] = "unresolved_level"
    BY <1>1, PrefixOfTwo, Zenon DEF OldLevel
  <2>4. IsPrefix(NewLevel, q) <=> Len(q) >= 2 /\ q[1] = "KIS" /\ q[2] = "unresolved-level"
    BY <1>1, PrefixOfTwo, Zenon DEF NewLevel
  <2> QED
    BY <2>1, <2>2, <2>3, <2>4
<1> QED
  BY <1>2, <1>3, <1>4, <1>5, <1>6

LEMMA CacheSiblings == Siblings(OldCache, NewCache)
<1>1. /\ OldCache \in Paths /\ Len(OldCache) = 1 /\ NewCache \in Paths /\ Len(NewCache) = 1
      /\ OldCache[1] = "cache_dir" /\ NewCache[1] = "cache-dir"
  BY SpellingPaths
<1>2. OldCache # << >>
  BY <1>1
<1>3. ~IsPrefix(OldCache, NewCache) /\ ~IsPrefix(NewCache, OldCache)
  BY SpellingPaths
<1>4. ASSUME NEW q \in Paths, IsPrefix(q, NewCache), q # NewCache
      PROVE  IsPrefix(q, OldCache) /\ q # OldCache
  <2>1. Len(q) \in Nat /\ Len(q) <= 1 /\ \A i \in 1 .. Len(q) : NewCache[i] = q[i]
    BY <1>1, <1>4, PrefixPoints, LenProperties DEF Paths
  <2>2. CASE Len(q) = 1
    BY <1>1, <1>4, <2>1, <2>2, SeqEqual DEF Paths
  <2>3. CASE Len(q) = 0
    <3>1. q = << >>
      BY <2>3, EmptySeq DEF Paths
    <3> QED
      BY <1>1, <1>2, <3>1, PrefixOrder
  <2>4. Len(q) = 0 \/ Len(q) = 1
    <3> DEFINE n == Len(q)
    <3>1. n \in Nat /\ n <= 1
      BY <2>1
    <3> HIDE DEF n
    <3>2. n = 0 \/ n = 1
      BY <3>1
    <3> QED
      BY <3>2 DEF n
  <2> QED
    BY <2>2, <2>3, <2>4
<1> QED
  BY <1>1, <1>2, <1>3, <1>4 DEF Siblings

LEMMA LevelSiblings == Siblings(OldLevel, NewLevel)
<1>1. /\ OldLevel \in Paths /\ Len(OldLevel) = 2 /\ NewLevel \in Paths /\ Len(NewLevel) = 2
      /\ OldLevel[1] = "KIS" /\ NewLevel[1] = "KIS"
      /\ OldLevel[2] = "unresolved_level" /\ NewLevel[2] = "unresolved-level"
  BY SpellingPaths
<1>2. OldLevel # << >>
  BY <1>1
<1>3. ~IsPrefix(OldLevel, NewLevel) /\ ~IsPrefix(NewLevel, OldLevel)
  BY SpellingPaths
<1>4. ASSUME NEW q \in Paths, IsPrefix(q, NewLevel), q # NewLevel
      PROVE  IsPrefix(q, OldLevel) /\ q # OldLevel
  <2>1. Len(q) \in Nat /\ Len(q) <= 2 /\ \A i \in 1 .. Len(q) : NewLevel[i] = q[i]
    BY <1>1, <1>4, PrefixPoints, LenProperties DEF Paths
  <2>2. CASE Len(q) = 2
    BY <1>1, <1>4, <2>1, <2>2, SeqEqual DEF Paths
  <2>3. CASE Len(q) < 2
    <3>1. \A i \in 1 .. Len(q) : OldLevel[i] = q[i]
      BY <1>1, <2>1, <2>3
    <3>2. IsPrefix(q, OldLevel)
      BY <1>1, <2>1, <3>1, PrefixPoints
    <3> QED
      BY <1>1, <2>3, <3>2
  <2>4. Len(q) < 2 \/ Len(q) = 2
    <3> DEFINE n == Len(q)
    <3>1. n \in Nat /\ n <= 2
      BY <2>1
    <3> HIDE DEF n
    <3>2. n < 2 \/ n = 2
      BY <3>1
    <3> QED
      BY <3>2 DEF n
  <2> QED
    BY <2>2, <2>3, <2>4
<1> QED
  BY <1>1, <1>2, <1>3, <1>4 DEF Siblings

(* The table with both settings spelled as today, before anything moves.    *)
Spelled(t) == CategoryTable(Renamed(t, <<"cache_dir">>, <<"cache-dir">>))
Respelled(p) == Swapped(Swapped(p, OldCache, NewCache), OldLevel, NewLevel)

LEMMA SpelledNodes ==
  ASSUME NEW t, IsDocument(t)
  PROVE  /\ IsDocument(Spelled(t))
         /\ ~HasPath(Spelled(t), OldCache) /\ ~HasPath(Spelled(t), OldLevel)
         /\ \A k \in Keys \ {"cache_dir", "cache-dir"} : Has(Spelled(t), k) <=> Has(t, k)
         /\ \A l : l \in Leaves(Spelled(t)) <=>
              \E m \in Leaves(t) : /\ ~Overruled(t, m.path)
                                   /\ l = [path |-> Respelled(m.path), val |-> m.val]
<1> DEFINE R == Renamed(t, OldCache, NewCache)
           S == Renamed(R, OldLevel, NewLevel)
<1>1. Spelled(t) = S
  BY DEF Spelled, CategoryTable, OldCache, NewCache, OldLevel, NewLevel
<1>2. /\ IsDocument(R)
      /\ ~HasPath(R, OldCache)
      /\ \A q \in Paths : ~IsPrefix(OldCache, q) /\ ~IsPrefix(NewCache, q) =>
            (HasPath(R, q) <=> HasPath(t, q))
      /\ \A l : l \in Leaves(R) <=>
           \E m \in Leaves(t) : /\ ~(HasPath(t, OldCache) /\ IsPrefix(NewCache, m.path))
                                /\ l = [path |-> Swapped(m.path, OldCache, NewCache), val |-> m.val]
  BY CacheSiblings, RenamedAny
<1> HIDE DEF R
<1>3. /\ IsDocument(S)
      /\ ~HasPath(S, OldLevel)
      /\ \A q \in Paths : ~IsPrefix(OldLevel, q) /\ ~IsPrefix(NewLevel, q) =>
            (HasPath(S, q) <=> HasPath(R, q))
      /\ \A l : l \in Leaves(S) <=>
           \E m \in Leaves(R) : /\ ~(HasPath(R, OldLevel) /\ IsPrefix(NewLevel, m.path))
                                /\ l = [path |-> Swapped(m.path, OldLevel, NewLevel), val |-> m.val]
  BY <1>2, LevelSiblings, RenamedAny
<1> HIDE DEF S
<1>4. /\ OldCache \in Paths /\ NewCache \in Paths /\ OldLevel \in Paths /\ NewLevel \in Paths
      /\ \A q \in Paths : /\ IsPrefix(OldCache, q) <=> Len(q) >= 1 /\ q[1] = "cache_dir"
                          /\ IsPrefix(NewCache, q) <=> Len(q) >= 1 /\ q[1] = "cache-dir"
                          /\ IsPrefix(OldLevel, q) <=>
                                Len(q) >= 2 /\ q[1] = "KIS" /\ q[2] = "unresolved_level"
                          /\ IsPrefix(NewLevel, q) <=>
                                Len(q) >= 2 /\ q[1] = "KIS" /\ q[2] = "unresolved-level"
  BY SpellingPaths
<1>5. ~HasPath(S, OldCache)
  <2>1. ~IsPrefix(OldLevel, OldCache) /\ ~IsPrefix(NewLevel, OldCache)
    <3>1. Len(OldCache) = 1
      BY SpellingPaths
    <3> QED
      BY <1>4, <3>1
  <2> QED
    BY <1>2, <1>3, <1>4, <2>1
<1>6. HasPath(R, OldLevel) <=> HasPath(t, OldLevel)
  <2>1. ~IsPrefix(OldCache, OldLevel) /\ ~IsPrefix(NewCache, OldLevel)
    <3>1. OldLevel[1] = "KIS"
      BY DEF OldLevel
    <3> QED
      BY <1>4, <3>1
  <2> QED
    BY <1>2, <1>4, <2>1
<1>7. ASSUME NEW k \in Keys \ {"cache_dir", "cache-dir"}
      PROVE  Has(S, k) <=> Has(t, k)
  <2>1. <<k>> \in Paths /\ Len(<<k>>) = 1 /\ <<k>>[1] = k
    BY ShortSequences, Zenon DEF Paths
  <2>2. /\ ~IsPrefix(OldLevel, <<k>>) /\ ~IsPrefix(NewLevel, <<k>>)
        /\ ~IsPrefix(OldCache, <<k>>) /\ ~IsPrefix(NewCache, <<k>>)
    BY <1>4, <2>1
  <2> QED
    BY <1>2, <1>3, <2>1, <2>2 DEF Has
<1>8. ASSUME NEW m \in Leaves(t)
      PROVE  IsPrefix(NewLevel, Swapped(m.path, OldCache, NewCache)) <=> IsPrefix(NewLevel, m.path)
  <2>1. m.path \in Paths
    BY LeafOf DEF IsDocument, Paths
  <2>2. CASE IsPrefix(OldCache, m.path)
    <3>1. /\ Below(m.path, OldCache) \in Paths
          /\ Swapped(m.path, OldCache, NewCache) = NewCache \o Below(m.path, OldCache)
      BY <1>4, <2>1, <2>2, PrefixJoin DEF Swapped
    <3>2. /\ Swapped(m.path, OldCache, NewCache) \in Paths
          /\ IsPrefix(NewCache, Swapped(m.path, OldCache, NewCache))
      BY <1>4, <3>1, JoinPrefix
    <3> QED
      BY <1>4, <2>1, <2>2, <3>2
  <2>3. CASE ~IsPrefix(OldCache, m.path)
    BY <2>3 DEF Swapped
  <2> QED
    BY <2>2, <2>3
<1>9. \A m \in Leaves(t) : Overruled(t, m.path) <=>
         \/ HasPath(t, OldCache) /\ IsPrefix(NewCache, m.path)
         \/ HasPath(t, OldLevel) /\ IsPrefix(NewLevel, m.path)
  BY DEF Overruled, Has, OldCache, NewCache, OldLevel, NewLevel
<1>10. ASSUME NEW l
       PROVE  l \in Leaves(S) <=>
                \E m \in Leaves(t) : /\ ~Overruled(t, m.path)
                                     /\ l = [path |-> Respelled(m.path), val |-> m.val]
  <2>1. ASSUME l \in Leaves(S)
        PROVE  \E m \in Leaves(t) : /\ ~Overruled(t, m.path)
                                    /\ l = [path |-> Respelled(m.path), val |-> m.val]
    <3>1. PICK n \in Leaves(R) : /\ ~(HasPath(R, OldLevel) /\ IsPrefix(NewLevel, n.path))
                                 /\ l = [path |-> Swapped(n.path, OldLevel, NewLevel), val |-> n.val]
      BY <1>3, <2>1
    <3>2. PICK m \in Leaves(t) : /\ ~(HasPath(t, OldCache) /\ IsPrefix(NewCache, m.path))
                                 /\ n = [path |-> Swapped(m.path, OldCache, NewCache), val |-> m.val]
      BY <1>2
    <3>3. n.path = Swapped(m.path, OldCache, NewCache) /\ n.val = m.val
      BY <3>2
    <3> QED
      BY <1>6, <1>8, <1>9, <3>1, <3>2, <3>3 DEF Respelled
  <2>2. ASSUME NEW m \in Leaves(t), ~Overruled(t, m.path),
               l = [path |-> Respelled(m.path), val |-> m.val]
        PROVE  l \in Leaves(S)
    <3> DEFINE n == [path |-> Swapped(m.path, OldCache, NewCache), val |-> m.val]
    <3>1. n \in Leaves(R)
      BY <1>2, <1>9, <2>2
    <3>2. n.path = Swapped(m.path, OldCache, NewCache) /\ n.val = m.val
      OBVIOUS
    <3> HIDE DEF n
    <3> QED
      BY <1>3, <1>6, <1>8, <1>9, <2>2, <3>1, <3>2 DEF Respelled
  <2> QED
    BY <2>1, <2>2
<1> QED
  BY <1>1, <1>3, <1>5, <1>7, <1>10

(* What moves under `lint`, key by key; the rest stays where it is.         *)
LEMMA LintPlacePoints ==
  ASSUME NEW p \in Paths
  PROVE  /\ LintPlace(p) \in Paths
         /\ ~Moves(p) => LintPlace(p) = p
         /\ Moves(p) => /\ Len(p) >= 1 /\ p[1] \in DOMAIN LintNames
                        /\ Len(LintPlace(p)) = Len(p) + 1
                        /\ LintPlace(p)[1] = "lint" /\ LintPlace(p)[2] = LintNames[p[1]]
                        /\ \A i \in 2 .. Len(p) : LintPlace(p)[i + 1] = p[i]
<1>1. CASE ~Moves(p)
  BY <1>1 DEF LintPlace
<1>2. CASE Moves(p)
  <2> DEFINE a == <<"lint", LintNames[p[1]]>>
             L == a \o Rest(p, 1)
  <2>1. Len(p) \in Nat \ {0} /\ p[1] \in DOMAIN LintNames
    BY <1>2, EmptySeq, Zenon DEF Moves, Paths
  <2>2. "lint" \in Keys /\ LintNames[p[1]] \in Keys
    BY <2>1, KnownKeys
  <2>3. a \in Paths /\ Len(a) = 2 /\ a[1] = "lint" /\ a[2] = LintNames[p[1]]
    BY <2>2, ShortSequences, Zenon DEF Paths
  <2> HIDE DEF a
  <2>4. 1 \in 0 .. Len(p)
    BY <2>1
  <2>5. /\ L \in Paths /\ Len(L) = Len(a) + Len(p) - 1
        /\ \A i \in 1 .. Len(a) : L[i] = a[i]
        /\ \A i \in 1 + 1 .. Len(p) : L[Len(a) + i - 1] = p[i]
    BY <2>3, <2>4, PlacePoints
  <2>6. LintPlace(p) = L
    BY <1>2 DEF LintPlace, a
  <2> HIDE DEF L
  <2>7. Len(L) = Len(p) + 1 /\ L[1] = "lint" /\ L[2] = LintNames[p[1]]
    BY <2>1, <2>3, <2>5
  <2>8. \A i \in 2 .. Len(p) : L[i + 1] = p[i]
    <3> SUFFICES ASSUME NEW i \in 2 .. Len(p) PROVE L[i + 1] = p[i]
      OBVIOUS
    <3>1. i \in 1 + 1 .. Len(p) /\ Len(a) + i - 1 = i + 1
      BY <2>1, <2>3
    <3> QED
      BY <2>5, <3>1
  <2>9. Len(p) >= 1
    BY <2>1
  <2> QED
    BY <1>2, <2>1, <2>5, <2>6, <2>7, <2>8, <2>9
<1> QED
  BY <1>1, <1>2

(* Nothing moves onto anything else in a table without `lint`.             *)
OutsideLint(p) == ~(Len(p) >= 1 /\ p[1] = "lint")

LEMMA LintPlaceInjective ==
  ASSUME NEW p \in Paths, NEW q \in Paths, OutsideLint(p), OutsideLint(q),
         LintPlace(p) = LintPlace(q)
  PROVE  p = q
<1>1. Len(p) \in Nat /\ Len(q) \in Nat
  BY LenProperties DEF Paths
<1>2. CASE Moves(p) /\ Moves(q)
  <2>1. Len(p) >= 1 /\ Len(p) = Len(q) /\ p[1] \in DOMAIN LintNames /\ q[1] \in DOMAIN LintNames
    BY <1>1, <1>2, LintPlacePoints
  <2>2. LintNames[p[1]] = LintNames[q[1]]
    BY <1>2, LintPlacePoints
  <2>3. p[1] = q[1]
    BY <2>1, <2>2, KnownNames
  <2>4. \A i \in 2 .. Len(p) : p[i] = q[i]
    BY <1>2, <2>1, LintPlacePoints
  <2>5. \A i \in 1 .. Len(p) : p[i] = q[i]
    BY <1>1, <2>3, <2>4
  <2> QED
    BY <2>1, <2>5, SeqEqual DEF Paths
<1>3. CASE ~Moves(p) /\ ~Moves(q)
  BY <1>3, LintPlacePoints
<1>4. CASE Moves(p) /\ ~Moves(q)
  BY <1>1, <1>4, LintPlacePoints DEF OutsideLint
<1>5. CASE ~Moves(p) /\ Moves(q)
  BY <1>1, <1>5, LintPlacePoints DEF OutsideLint
<1> QED
  BY <1>2, <1>3, <1>4, <1>5

(* In a table without `lint` no path leads through one.                    *)
LEMMA NoLint ==
  ASSUME NEW t, IsDocument(t), NEW k \in Keys, ~Has(t, k), NEW p \in DOMAIN t
  PROVE  p \in Paths /\ ~(Len(p) >= 1 /\ p[1] = k)
<1>1. p \in Paths
  BY DEF IsDocument, Paths
<1>2. <<k>> \in Paths /\ (IsPrefix(<<k>>, p) <=> Len(p) >= 1 /\ p[1] = k)
  BY <1>1, PrefixOfOne, Zenon
<1>3. ~IsPrefix(<<k>>, p)
  BY <1>2, DocumentPrefix DEF Has, HasPath
<1> QED
  BY <1>1, <1>2, <1>3

(* The table whose flat keys have moved.                                   *)
LEMMA LintNodes ==
  ASSUME NEW t, IsDocument(t), ~Has(t, "lint")
  PROVE  LET S == Spelled(t)
             A == ApplyLintSection(t)
         IN  /\ DOMAIN A = {LintPlace(p) : p \in DOMAIN S} \cup
                              {q \in {<<"lint">>} : \E p \in DOMAIN S : Moves(p)}
             /\ \A p \in DOMAIN S : A[LintPlace(p)] = S[p]
             /\ \A q \in DOMAIN A : q = <<"lint">> => A[q] = Branch
             /\ A = [q \in DOMAIN A |-> A[q]]
             /\ \A l : l \in Leaves(A) <=>
                  \E m \in Leaves(S) : l = [path |-> LintPlace(m.path), val |-> m.val]
<1> DEFINE S == Spelled(t)
           place == [p \in DOMAIN S |-> LintPlace(p)]
           moved == Relocated(S, place)
           A == ApplyLintSection(t)
<1>1. IsDocument(S) /\ ~Has(S, "lint")
  BY SpelledNodes, KnownKeys
<1>2. \A p \in DOMAIN S : p \in Paths /\ OutsideLint(p)
  BY <1>1, NoLint, KnownKeys DEF OutsideLint
<1>3. \A p \in DOMAIN S, q \in DOMAIN S : place[p] = place[q] => p = q
  BY <1>2, LintPlaceInjective
<1>4. A = IF \E p \in DOMAIN S : Moves(p) THEN Laid([p \in {<<"lint">>} |-> Branch], moved) ELSE moved
  BY DEF ApplyLintSection, Spelled
<1> HIDE DEF S, A
<1>6. \A m \in Leaves(S) : place[m.path] = LintPlace(m.path)
  BY LeafOf
<1>7. moved = [q \in DOMAIN moved |-> moved[q]]
  BY DEF Relocated
<1>8. \A p \in DOMAIN S : place[p] = LintPlace(p)
  OBVIOUS
<1> HIDE DEF place
<1>5. /\ DOMAIN moved = {place[p] : p \in DOMAIN S}
      /\ \A p \in DOMAIN S : moved[place[p]] = S[p]
      /\ \A l : l \in Leaves(moved) <=>
           \E m \in Leaves(S) : l = [path |-> place[m.path], val |-> m.val]
  BY <1>3, RelocatedLeaves
<1> HIDE DEF moved
<1>9. <<"lint">> \in Paths /\ Len(<<"lint">>) = 1 /\ <<"lint">>[1] = "lint"
  BY ShortSequences, KnownKeys, Zenon DEF Paths
<1>10. \A p \in DOMAIN S : LintPlace(p) # <<"lint">>
  <2> SUFFICES ASSUME NEW p \in DOMAIN S, LintPlace(p) = <<"lint">> PROVE FALSE
    OBVIOUS
  <2>1. Len(p) \in Nat
    BY <1>2, LenProperties DEF Paths
  <2>2. CASE Moves(p)
    BY <1>2, <1>9, <2>1, <2>2, LintPlacePoints
  <2>3. CASE ~Moves(p)
    BY <1>2, <1>9, <2>1, <2>3, LintPlacePoints DEF OutsideLint
  <2> QED
    BY <2>2, <2>3
<1>11. DOMAIN moved = {LintPlace(p) : p \in DOMAIN S}
  BY <1>5, <1>8
<1>12. CASE \E p \in DOMAIN S : Moves(p)
  <2>1. A = Laid([p \in {<<"lint">>} |-> Branch], moved)
    BY <1>4, <1>12
  <2>2. /\ DOMAIN A = {<<"lint">>} \cup DOMAIN moved
        /\ A[<<"lint">>] = Branch
        /\ \A q \in DOMAIN moved : q # <<"lint">> => A[q] = moved[q]
        /\ A = [q \in DOMAIN A |-> A[q]]
    BY <2>1 DEF Laid
  <2>3. \A p \in DOMAIN S : A[LintPlace(p)] = S[p]
    BY <1>5, <1>8, <1>10, <2>2
  <2>4. ASSUME NEW l
        PROVE  l \in Leaves(A) <=> l \in Leaves(moved)
    <3>1. ASSUME l \in Leaves(A) PROVE l \in Leaves(moved)
      <4>1. PICK q \in DOMAIN A : A[q] # Branch /\ l = [path |-> q, val |-> A[q]]
        BY <3>1, LeafOf
      <4>2. q \in DOMAIN moved /\ A[q] = moved[q]
        BY <2>2, <4>1
      <4> QED
        BY <4>1, <4>2, LeafOf
    <3>2. ASSUME l \in Leaves(moved) PROVE l \in Leaves(A)
      <4>1. PICK q \in DOMAIN moved : moved[q] # Branch /\ l = [path |-> q, val |-> moved[q]]
        BY <3>2, LeafOf
      <4>2. q \in DOMAIN A /\ A[q] = moved[q]
        BY <1>10, <1>11, <2>2
      <4> QED
        BY <4>1, <4>2, LeafOf
    <3> QED
      BY <3>1, <3>2
  <2>5. \A l : l \in Leaves(A) <=>
           \E m \in Leaves(S) : l = [path |-> LintPlace(m.path), val |-> m.val]
    BY <1>5, <1>6, <2>4
  <2>6. DOMAIN A = {LintPlace(p) : p \in DOMAIN S} \cup
                      {q \in {<<"lint">>} : \E p \in DOMAIN S : Moves(p)}
    BY <1>11, <1>12, <2>2
  <2> QED
    BY <2>2, <2>3, <2>5, <2>6 DEF A, S
<1>13. CASE ~\E p \in DOMAIN S : Moves(p)
  <2>1. A = moved
    BY <1>4, <1>13
  <2>2. DOMAIN A = {LintPlace(p) : p \in DOMAIN S} \cup
                      {q \in {<<"lint">>} : \E p \in DOMAIN S : Moves(p)}
    BY <1>11, <1>13, <2>1
  <2>3. \A q \in DOMAIN A : q # <<"lint">>
    BY <1>10, <1>11, <2>1
  <2>4. \A p \in DOMAIN S : A[LintPlace(p)] = S[p]
    BY <1>5, <1>8, <2>1
  <2>5. \A l : l \in Leaves(A) <=>
           \E m \in Leaves(S) : l = [path |-> LintPlace(m.path), val |-> m.val]
    BY <1>5, <1>6, <2>1
  <2> QED
    BY <1>7, <2>1, <2>2, <2>3, <2>4, <2>5 DEF A, S
<1> QED
  BY <1>12, <1>13

(* It is a document again.                                                 *)
LEMMA LintDocument ==
  ASSUME NEW t, IsDocument(t), ~Has(t, "lint")
  PROVE  IsDocument(ApplyLintSection(t))
<1> DEFINE S == Spelled(t)
           A == ApplyLintSection(t)
<1>1. IsDocument(S) /\ ~Has(S, "lint")
  BY SpelledNodes, KnownKeys
<1>2. \A p \in DOMAIN S : p \in Paths /\ OutsideLint(p)
  BY <1>1, NoLint, KnownKeys DEF OutsideLint
<1>3. /\ DOMAIN A = {LintPlace(p) : p \in DOMAIN S} \cup
                       {q \in {<<"lint">>} : \E p \in DOMAIN S : Moves(p)}
      /\ \A p \in DOMAIN S : A[LintPlace(p)] = S[p]
      /\ \A q \in DOMAIN A : q = <<"lint">> => A[q] = Branch
  BY LintNodes
<1> HIDE DEF A, S
<1>4. <<"lint">> \in Paths /\ Len(<<"lint">>) = 1 /\ <<"lint">>[1] = "lint"
  BY ShortSequences, KnownKeys, Zenon DEF Paths
<1>5. DOMAIN A \subseteq Paths
  BY <1>2, <1>3, <1>4, LintPlacePoints
<1>6. << >> \in DOMAIN S /\ ~Moves(<< >>) /\ << >> \in Paths /\ Len(<< >>) = 0
  BY <1>1, EmptySeq DEF IsDocument, Moves, Paths
<1>7. << >> \in DOMAIN A /\ A[<< >>] = S[<< >>]
  <2>1. LintPlace(<< >>) = << >>
    BY <1>6, LintPlacePoints
  <2> QED
    BY <1>3, <1>6, <2>1
<1>8. ASSUME NEW p \in DOMAIN S, NEW r \in Paths, IsPrefix(r, LintPlace(p)), r # LintPlace(p)
      PROVE  r \in DOMAIN A /\ A[r] = Branch
  <2>1. /\ Len(p) \in Nat /\ Len(r) \in Nat /\ p \in Paths
        /\ LintPlace(p) \in Paths /\ Len(LintPlace(p)) \in Nat
    BY <1>2, LintPlacePoints, LenProperties DEF Paths
  <2>2. Len(r) <= Len(LintPlace(p)) /\ \A i \in 1 .. Len(r) : LintPlace(p)[i] = r[i]
    BY <1>8, <2>1, PrefixPoints
  <2>3. Len(r) # Len(LintPlace(p))
    BY <1>8, <2>1, <2>2, SeqEqual DEF Paths
  <2>4. CASE ~Moves(p)
    <3>1. LintPlace(p) = p
      BY <2>1, <2>4, LintPlacePoints
    <3>2. r \in DOMAIN S /\ S[r] = Branch
      BY <1>1, <1>8, <3>1, DocumentPrefix
    <3>3. ~Moves(r)
      <4>1. CASE r = << >>
        BY <1>6, <4>1
      <4>2. CASE r # << >>
        <5>1. Len(r) >= 1
          BY <4>2, EmptySeq DEF Paths
        <5>2. Len(p) >= 1 /\ p[1] = r[1]
          BY <2>1, <2>2, <3>1, <5>1
        <5>3. p # << >>
          BY <1>6, <2>1, <5>2
        <5> QED
          BY <2>4, <5>2, <5>3 DEF Moves
      <4> QED
        BY <4>1, <4>2
    <3>4. LintPlace(r) = r
      BY <3>3, LintPlacePoints
    <3> QED
      BY <1>3, <3>2, <3>4
  <2>5. CASE Moves(p)
    <3>1. /\ Len(p) >= 1 /\ p[1] \in DOMAIN LintNames
          /\ Len(LintPlace(p)) = Len(p) + 1
          /\ LintPlace(p)[1] = "lint" /\ LintPlace(p)[2] = LintNames[p[1]]
          /\ \A i \in 2 .. Len(p) : LintPlace(p)[i + 1] = p[i]
      BY <2>1, <2>5, LintPlacePoints
    <3>2. CASE Len(r) = 0
      <4>1. r = << >>
        BY <3>2, EmptySeq DEF Paths
      <4>2. << >> # p /\ IsPrefix(<< >>, p)
        BY <1>6, <2>1, <3>1, PrefixOrder
      <4>3. S[<< >>] = Branch
        BY <1>1, <1>6, <4>2, DocumentPrefix
      <4> QED
        BY <1>7, <4>1, <4>3
    <3>3. CASE Len(r) = 1
      <4>1. r[1] = "lint"
        BY <2>2, <3>1, <3>3
      <4>2. r = <<"lint">>
        BY <1>4, <3>3, <4>1, SeqEqual DEF Paths
      <4> QED
        BY <1>3, <2>5, <4>2
    <3>4. CASE Len(r) >= 2
      <4> DEFINE n == Len(r) - 1
                 s == SubSeq(p, 1, n)
      <4>1. n \in Nat /\ n >= 1 /\ n < Len(p)
        BY <2>1, <2>2, <2>3, <3>1, <3>4
      <4>2. \A i \in 1 .. n : p[i] \in Keys
        BY <2>1, <4>1, ElementOfSeq DEF Paths
      <4> HIDE DEF n
      <4>3. s \in Paths /\ Len(s) = n /\ \A i \in 1 .. n : s[i] = p[i]
        <5>1. /\ SubSeq(p, 1, n) \in Paths
              /\ Len(SubSeq(p, 1, n)) = IF 1 <= n THEN n - 1 + 1 ELSE 0
              /\ \A i \in 1 .. n - 1 + 1 : SubSeq(p, 1, n)[i] = p[1 + i - 1]
          BY <4>1, <4>2, SubSeqProperties DEF Paths
        <5> QED
          BY <4>1, <5>1
      <4> HIDE DEF s
      <4>4. IsPrefix(s, p) /\ s # p
        BY <2>1, <4>1, <4>3, PrefixPoints
      <4>5. s \in DOMAIN S /\ S[s] = Branch
        BY <1>1, <4>3, <4>4, DocumentPrefix
      <4>6. Moves(s)
        <5>1. s[1] = p[1] /\ s # << >>
          BY <1>6, <4>1, <4>3
        <5> QED
          BY <3>1, <5>1 DEF Moves
      <4>7. /\ LintPlace(s) \in Paths /\ Len(LintPlace(s)) = n + 1
            /\ LintPlace(s)[1] = "lint" /\ LintPlace(s)[2] = LintNames[p[1]]
            /\ \A i \in 2 .. n : LintPlace(s)[i + 1] = p[i]
        <5>1. s[1] = p[1] /\ \A i \in 2 .. n : s[i] = p[i]
          BY <4>1, <4>3
        <5> QED
          BY <4>3, <4>6, <5>1, LintPlacePoints
      <4>8. Len(LintPlace(s)) = Len(r)
        BY <2>1, <4>7 DEF n
      <4>9. \A i \in 1 .. Len(r) : LintPlace(s)[i] = r[i]
        <5> SUFFICES ASSUME NEW i \in 1 .. Len(r) PROVE LintPlace(s)[i] = r[i]
          OBVIOUS
        <5>1. LintPlace(p)[i] = r[i]
          BY <2>2
        <5>2. CASE i = 1
          BY <3>1, <4>7, <5>1, <5>2
        <5>3. CASE i = 2
          BY <3>1, <4>7, <5>1, <5>3
        <5>4. CASE i > 2
          <6>1. i - 1 \in 2 .. n /\ i - 1 \in 2 .. Len(p) /\ (i - 1) + 1 = i
            BY <2>1, <4>1, <5>4 DEF n
          <6>2. LintPlace(s)[(i - 1) + 1] = p[i - 1] /\ LintPlace(p)[(i - 1) + 1] = p[i - 1]
            BY <3>1, <4>7, <6>1
          <6> QED
            BY <5>1, <6>1, <6>2
        <5> QED
          BY <5>2, <5>3, <5>4
      <4>10. LintPlace(s) = r
        BY <4>7, <4>8, <4>9, SeqEqual DEF Paths
      <4> QED
        BY <1>3, <4>5, <4>10
    <3>5. Len(r) = 0 \/ Len(r) = 1 \/ Len(r) >= 2
      <4> DEFINE n == Len(r)
      <4>1. n \in Nat
        BY <2>1
      <4> HIDE DEF n
      <4>2. n = 0 \/ n = 1 \/ n >= 2
        BY <4>1
      <4> QED
        BY <4>2 DEF n
    <3> QED
      BY <3>2, <3>3, <3>4, <3>5
  <2> QED
    BY <2>4, <2>5
<1>9. ASSUME NEW r \in Paths, IsPrefix(r, <<"lint">>), r # <<"lint">>, \E p \in DOMAIN S : Moves(p)
      PROVE  r \in DOMAIN A /\ A[r] = Branch
  <2>1. PICK p \in DOMAIN S : Moves(p)
    BY <1>9
  <2>2. p \in Paths /\ Len(p) >= 1 /\ LintPlace(p) \in Paths
        /\ Len(LintPlace(p)) = Len(p) + 1 /\ LintPlace(p)[1] = "lint" /\ Len(p) \in Nat
    BY <1>2, <2>1, LintPlacePoints, LenProperties DEF Paths
  <2>3. IsPrefix(<<"lint">>, LintPlace(p))
    <3>1. Len(LintPlace(p)) >= 1
      BY <2>2
    <3>2. "lint" \in Keys
      BY KnownKeys
    <3> QED
      BY <2>2, <3>1, <3>2, PrefixOfOne, Zenon
  <2>4. IsPrefix(r, LintPlace(p)) /\ r # LintPlace(p)
    BY <1>4, <1>9, <2>2, <2>3, PrefixOrder
  <2> QED
    BY <1>8, <2>4
<1>10. ASSUME NEW q \in DOMAIN A, NEW r \in Paths, IsPrefix(r, q), r # q
       PROVE  r \in DOMAIN A /\ A[r] = Branch
  BY <1>3, <1>8, <1>9, <1>10
<1>11. IsDocument(A)
  BY <1>5, <1>7, <1>10, DocumentByPrefix
<1> QED
  BY <1>11 DEF A

(* Where a setting of the flat shape ends up has today's name for it.      *)
LEMMA ModernIsPlace ==
  ASSUME NEW p \in Paths
  PROVE  ModernFlat(p) = LintPlace(Respelled(p))
<1>1. Len(p) \in Nat
  BY LenProperties DEF Paths
<1>2. /\ IsPrefix(OldCache, p) <=> Len(p) >= 1 /\ p[1] = "cache_dir"
      /\ IsPrefix(OldLevel, p) <=> Len(p) >= 2 /\ p[1] = "KIS" /\ p[2] = "unresolved_level"
  BY SpellingPaths
<1>3. CASE IsPrefix(OldCache, p)
  <2> DEFINE q == NewCache \o Rest(p, 1)
  <2>1. Swapped(p, OldCache, NewCache) = q
    BY <1>3, SpellingPaths DEF Swapped, Below
  <2>2. q \in Paths /\ q[1] = "cache-dir"
    <3>1. 1 \in 0 .. Len(p) /\ 1 \in 1 .. Len(NewCache)
      BY <1>1, <1>2, <1>3, SpellingPaths
    <3> QED
      BY <3>1, SpellingPaths, PlacePoints
  <2>3. ModernFlat(p) = q
    <3>1. ~IsPrefix(OldLevel, p) /\ ~Moves(p)
      BY <1>2, <1>3, KnownNames DEF Moves
    <3> QED
      BY <1>3, <3>1 DEF ModernFlat, OldCache, NewCache, OldLevel
  <2> HIDE DEF q
  <2>4. ~IsPrefix(OldLevel, q)
    BY <2>2, SpellingPaths
  <2>5. ~Moves(q)
    BY <2>2, KnownNames DEF Moves
  <2> QED
    BY <2>1, <2>2, <2>3, <2>4, <2>5, LintPlacePoints DEF Respelled, Swapped
<1>4. CASE IsPrefix(OldLevel, p)
  <2> DEFINE r == Rest(p, 2)
             q == NewLevel \o r
             a == <<"lint", "module-only-imports", "unresolved-level">>
             M == a \o r
  <2>1. Respelled(p) = q
    BY <1>2, <1>4, SpellingPaths DEF Respelled, Swapped, Below
  <2>2. ModernFlat(p) = M
    BY <1>2, <1>4 DEF ModernFlat, OldCache, OldLevel
  <2>3. a \in Paths /\ Len(a) = 3 /\ a[1] = "lint" /\ a[2] = "module-only-imports" /\ a[3] = "unresolved-level"
    <3>1. {"lint", "module-only-imports", "unresolved-level"} \subseteq Keys
      BY KnownNames, KnownKeys
    <3> QED
      BY <3>1, ShortSequences, Zenon DEF Paths
  <2>4. r \in Paths /\ Len(r) \in Nat
    <3>1. 2 \in 0 .. Len(p)
      BY <1>1, <1>2, <1>4
    <3>2. r \in Paths
      BY <3>1, RestPoints
    <3> QED
      BY <3>2, LenProperties DEF Paths
  <2> HIDE DEF a, r
  <2>5. /\ q \in Paths /\ Len(q) = 2 + Len(r) /\ q[1] = "KIS" /\ q[2] = "unresolved-level"
        /\ \A i \in 1 .. Len(r) : q[2 + i] = r[i]
    <3>1. /\ NewLevel \in Paths /\ Len(NewLevel) = 2
          /\ NewLevel[1] = "KIS" /\ NewLevel[2] = "unresolved-level"
      BY SpellingPaths
    <3>2. /\ q \in Paths /\ Len(q) = Len(NewLevel) + Len(r)
          /\ \A i \in 1 .. Len(NewLevel) + Len(r) :
                q[i] = IF i <= Len(NewLevel) THEN NewLevel[i] ELSE r[i - Len(NewLevel)]
      BY <2>4, <3>1, ConcatProperties DEF Paths
    <3> HIDE DEF q
    <3>3. q[1] = "KIS" /\ q[2] = "unresolved-level"
      BY <2>4, <3>1, <3>2
    <3>4. ASSUME NEW i \in 1 .. Len(r) PROVE q[2 + i] = r[i]
      <4>1. q[2 + i] = r[(2 + i) - 2]
        BY <2>4, <3>1, <3>2
      <4> QED
        BY <2>4, <4>1
    <3> QED
      BY <3>1, <3>2, <3>3, <3>4
  <2>6. /\ M \in Paths /\ Len(M) = 3 + Len(r)
        /\ M[1] = "lint" /\ M[2] = "module-only-imports" /\ M[3] = "unresolved-level"
        /\ \A i \in 1 .. Len(r) : M[3 + i] = r[i]
    <3>1. /\ M \in Paths /\ Len(M) = Len(a) + Len(r)
          /\ \A i \in 1 .. Len(a) + Len(r) : M[i] = IF i <= Len(a) THEN a[i] ELSE r[i - Len(a)]
      BY <2>3, <2>4, ConcatProperties DEF Paths
    <3> HIDE DEF M
    <3>2. M[1] = "lint" /\ M[2] = "module-only-imports" /\ M[3] = "unresolved-level"
      BY <2>3, <2>4, <3>1
    <3>3. ASSUME NEW i \in 1 .. Len(r) PROVE M[3 + i] = r[i]
      <4>1. M[3 + i] = r[(3 + i) - 3]
        BY <2>3, <2>4, <3>1
      <4> QED
        BY <2>4, <4>1
    <3> QED
      BY <2>3, <3>1, <3>2, <3>3
  <2> HIDE DEF q, M
  <2>7. q # << >> /\ Moves(q)
    <3>1. q # << >>
      BY <2>4, <2>5, EmptySeq
    <3> QED
      BY <2>5, <3>1, KnownNames DEF Moves
  <2> DEFINE L == LintPlace(q)
  <2>8. /\ L \in Paths /\ Len(L) = Len(q) + 1 /\ L[1] = "lint" /\ L[2] = "module-only-imports"
        /\ \A i \in 2 .. Len(q) : L[i + 1] = q[i]
    BY <2>5, <2>7, KnownNames, LintPlacePoints
  <2> HIDE DEF L
  <2>9. Len(L) = Len(M)
    BY <2>4, <2>5, <2>6, <2>8
  <2>10. \A i \in 1 .. Len(M) : L[i] = M[i]
    <3> SUFFICES ASSUME NEW i \in 1 .. Len(M) PROVE L[i] = M[i]
      OBVIOUS
    <3>1. CASE i <= 2
      BY <2>6, <2>8, <3>1
    <3>2. CASE i = 3
      <4>1. 2 \in 2 .. Len(q)
        BY <2>4, <2>5
      <4>2. L[2 + 1] = q[2]
        BY <2>8, <4>1
      <4> QED
        BY <2>5, <2>6, <3>2, <4>2
    <3>3. CASE i > 3
      <4>1. i - 3 \in 1 .. Len(r) /\ i - 1 \in 2 .. Len(q) /\ (i - 1) + 1 = i
            /\ 2 + (i - 3) = i - 1 /\ 3 + (i - 3) = i
        BY <2>4, <2>5, <2>6, <3>3
      <4>2. L[(i - 1) + 1] = q[i - 1] /\ q[2 + (i - 3)] = r[i - 3] /\ M[3 + (i - 3)] = r[i - 3]
        BY <2>5, <2>6, <2>8, <4>1
      <4> QED
        BY <4>1, <4>2
    <3> QED
      BY <3>1, <3>2, <3>3
  <2>11. L = M
    BY <2>6, <2>8, <2>9, <2>10, SeqEqual DEF Paths
  <2> QED
    BY <2>1, <2>2, <2>11 DEF L
<1>5. CASE ~IsPrefix(OldCache, p) /\ ~IsPrefix(OldLevel, p)
  <2>1. Respelled(p) = p
    BY <1>5 DEF Respelled, Swapped
  <2>2. ModernFlat(p) = IF Moves(p) THEN <<"lint", LintNames[p[1]]>> \o Rest(p, 1) ELSE p
    BY <1>5 DEF ModernFlat, OldCache, OldLevel
  <2> QED
    BY <2>1, <2>2 DEF LintPlace
<1> QED
  BY <1>3, <1>4, <1>5

(* The migration keeps what a flat table says, and leaves nothing that      *)
(* either migration would find.                                            *)
LEMMA LintKeepsSays ==
  ASSUME NEW t, IsDocument(t), ~Has(t, "lint")
  PROVE  /\ Says(ApplyLintSection(t)) = Says(t)
         /\ ~DetectRuleTableRename(ApplyLintSection(t))
         /\ \A k \in Keys \ {"lint", "cache_dir", "cache-dir"} : Has(ApplyLintSection(t), k) => Has(t, k)
<1> DEFINE S == Spelled(t)
           A == ApplyLintSection(t)
<1>1. /\ IsDocument(S)
      /\ ~HasPath(S, OldCache) /\ ~HasPath(S, OldLevel)
      /\ \A k \in Keys \ {"cache_dir", "cache-dir"} : Has(S, k) <=> Has(t, k)
      /\ \A l : l \in Leaves(S) <=>
           \E m \in Leaves(t) : /\ ~Overruled(t, m.path)
                                /\ l = [path |-> Respelled(m.path), val |-> m.val]
  BY SpelledNodes
<1>2. ~Has(S, "lint")
  BY <1>1, KnownKeys
<1>3. \A p \in DOMAIN S : p \in Paths /\ OutsideLint(p)
  BY <1>1, <1>2, NoLint, KnownKeys DEF OutsideLint
<1>4. /\ DOMAIN A = {LintPlace(p) : p \in DOMAIN S} \cup
                       {q \in {<<"lint">>} : \E p \in DOMAIN S : Moves(p)}
      /\ \A l : l \in Leaves(A) <=>
           \E m \in Leaves(S) : l = [path |-> LintPlace(m.path), val |-> m.val]
  BY LintNodes
<1> HIDE DEF A, S
<1>5. <<"lint">> \in Paths /\ Len(<<"lint">>) = 1 /\ <<"lint">>[1] = "lint"
  BY ShortSequences, KnownKeys, Zenon DEF Paths
<1>6. ASSUME NEW q \in DOMAIN A, Len(q) > 1, q[1] = "lint"
      PROVE  q[2] # "unnecessary-import-alias"
  <2> DEFINE n == Len(q)
  <2>1. PICK p \in DOMAIN S : q = LintPlace(p)
    <3>1. n > 1
      BY <1>6
    <3>2. n # Len(<<"lint">>)
      <4> HIDE DEF n
      <4> QED
        BY <1>5, <3>1
    <3>3. q # <<"lint">>
      BY <3>2
    <3> QED
      BY <1>4, <3>3
  <2>2. p \in Paths /\ OutsideLint(p) /\ Len(p) \in Nat
    BY <1>3, LenProperties DEF Paths
  <2>3. Moves(p)
    <3>1. ASSUME ~Moves(p) PROVE FALSE
      <4>1. q = p
        BY <2>1, <2>2, <3>1, LintPlacePoints
      <4> QED
        BY <1>6, <2>2, <4>1 DEF OutsideLint
    <3> QED
      BY <3>1
  <2>4. q[2] = LintNames[p[1]] /\ p[1] \in DOMAIN LintNames
    BY <2>1, <2>2, <2>3, LintPlacePoints
  <2> QED
    BY <2>4, KnownNames
<1>7. ~DetectRuleTableRename(A)
  BY <1>6, KnownNames DEF DetectRuleTableRename, RenamesTable
<1>8. \A q \in DOMAIN A : ModernTable(A, q) = q
  BY <1>6, KnownNames DEF ModernTable
<1>9. ASSUME ~Has(A, "lint"), NEW q \in DOMAIN A
      PROVE  ModernFlat(q) = q /\ ~Overruled(A, q)
  <2>1. \A p \in DOMAIN S : ~Moves(p)
    BY <1>4, <1>9 DEF Has, HasPath
  <2>2. DOMAIN A = DOMAIN S
    <3>1. \A p \in DOMAIN S : LintPlace(p) = p
      BY <1>3, <2>1, LintPlacePoints
    <3> QED
      BY <1>4, <2>1, <3>1
  <2>3. q \in Paths /\ OldCache \in Paths /\ OldLevel \in Paths
    BY <1>3, <2>2, SpellingPaths
  <2>4. ~IsPrefix(OldCache, q) /\ ~IsPrefix(OldLevel, q)
    <3>1. OldCache \notin DOMAIN S /\ OldLevel \notin DOMAIN S /\ q \in DOMAIN S
      BY <1>1, <2>2 DEF HasPath
    <3> QED
      BY <1>1, <2>3, <3>1, DocumentPrefix
  <2>5. ModernFlat(q) = q
    BY <2>1, <2>2, <2>4 DEF ModernFlat, OldCache, OldLevel
  <2>6. ~HasPath(A, OldCache) /\ ~HasPath(A, OldLevel)
    BY <1>1, <2>2 DEF HasPath
  <2>7. ~Overruled(A, q)
    BY <2>6 DEF Overruled, Has, OldCache, OldLevel
  <2> QED
    BY <2>5, <2>7
<1>10. Says(A) = Leaves(A)
  <2>1. \A l \in Leaves(A) : l.path \in DOMAIN A /\ l = [path |-> l.path, val |-> l.val]
    BY LeafOf
  <2>2. CASE Has(A, "lint")
    <3>1. Says(A) = {[path |-> ModernTable(A, l.path), val |-> l.val] : l \in Leaves(A)}
      BY <2>2 DEF Says
    <3>2. \A l \in Leaves(A) : [path |-> ModernTable(A, l.path), val |-> l.val] = l
      BY <1>8, <2>1
    <3> QED
      BY <3>1, <3>2
  <2>3. CASE ~Has(A, "lint")
    <3>1. Says(A) = {[path |-> ModernFlat(l.path), val |-> l.val] :
                        l \in {l \in Leaves(A) : ~Overruled(A, l.path)}}
      BY <2>3 DEF Says
    <3>2. \A l \in Leaves(A) : ~Overruled(A, l.path) /\ [path |-> ModernFlat(l.path), val |-> l.val] = l
      BY <1>9, <2>1, <2>3
    <3> QED
      BY <3>1, <3>2
  <2> QED
    BY <2>2, <2>3
<1>11. Says(t) = {[path |-> ModernFlat(m.path), val |-> m.val] :
                     m \in {m \in Leaves(t) : ~Overruled(t, m.path)}}
  BY DEF Says
<1>12. \A m \in Leaves(t) : ModernFlat(m.path) = LintPlace(Respelled(m.path))
  <2> SUFFICES ASSUME NEW m \in Leaves(t) PROVE ModernFlat(m.path) = LintPlace(Respelled(m.path))
    OBVIOUS
  <2>1. m.path \in Paths
    BY LeafOf DEF IsDocument, Paths
  <2> QED
    BY <2>1, ModernIsPlace
<1>13. ASSUME NEW l \in Leaves(A)
       PROVE  l \in Says(t)
  <2>1. PICK n \in Leaves(S) : l = [path |-> LintPlace(n.path), val |-> n.val]
    BY <1>4
  <2>2. PICK m \in Leaves(t) : /\ ~Overruled(t, m.path)
                               /\ n = [path |-> Respelled(m.path), val |-> m.val]
    BY <1>1
  <2>3. l = [path |-> ModernFlat(m.path), val |-> m.val]
    BY <1>12, <2>1, <2>2
  <2> QED
    BY <1>11, <2>2, <2>3
<1>14. ASSUME NEW m \in Leaves(t), ~Overruled(t, m.path)
       PROVE  [path |-> ModernFlat(m.path), val |-> m.val] \in Leaves(A)
  <2> DEFINE n == [path |-> Respelled(m.path), val |-> m.val]
  <2>1. n \in Leaves(S)
    BY <1>1, <1>14
  <2>2. n.path = Respelled(m.path) /\ n.val = m.val
    OBVIOUS
  <2> HIDE DEF n
  <2>3. [path |-> ModernFlat(m.path), val |-> m.val] = [path |-> LintPlace(n.path), val |-> n.val]
    BY <1>12, <2>2
  <2> QED
    BY <1>4, <2>1, <2>3
<1>15. Leaves(A) = Says(t)
  BY <1>11, <1>13, <1>14
<1>16. ASSUME NEW k \in Keys \ {"lint", "cache_dir", "cache-dir"}, Has(A, k)
       PROVE  Has(t, k)
  <2>1. <<k>> \in Paths /\ Len(<<k>>) = 1 /\ <<k>>[1] = k
    BY ShortSequences, Zenon DEF Paths
  <2>2. <<k>> # <<"lint">>
    BY <1>5, <2>1
  <2>3. PICK p \in DOMAIN S : <<k>> = LintPlace(p)
    BY <1>4, <1>16, <2>2 DEF Has, HasPath
  <2>4. p \in Paths
    BY <1>3
  <2>5. ~Moves(p)
    BY <2>1, <2>3, <2>4, LintPlacePoints
  <2>6. <<k>> = p
    BY <2>3, <2>4, <2>5, LintPlacePoints
  <2> QED
    BY <1>1, <2>6 DEF Has, HasPath
<1> QED
  BY <1>7, <1>10, <1>15, <1>16 DEF A

-----------------------------------------------------------------------------
(* The renaming of rule tables.                                            *)

RuleTable == <<"lint", "unnecessary-import-alias">>
NewRuleTable == <<"lint", "import-alias-policy">>

LEMMA RenamesPoints ==
  ASSUME NEW t, IsDocument(t), NEW p \in DOMAIN t
  PROVE  /\ p \in Paths
         /\ RenamesTable(t, p) <=>
               Len(p) > 1 /\ p[1] = "lint" /\ p[2] = "unnecessary-import-alias" /\ ~HasPath(t, NewRuleTable)
         /\ ~RenamesTable(t, p) => TablePlace(t, p) = p
         /\ RenamesTable(t, p) => /\ Len(p) \in Nat
                                  /\ TablePlace(t, p) \in Paths
                                  /\ Len(TablePlace(t, p)) = Len(p)
                                  /\ TablePlace(t, p)[1] = "lint"
                                  /\ TablePlace(t, p)[2] = "import-alias-policy"
                                  /\ \A i \in 3 .. Len(p) : TablePlace(t, p)[i] = p[i]
<1>1. p \in Paths
  BY DEF IsDocument, Paths
<1>2. Len(p) \in Nat
  BY <1>1, LenProperties DEF Paths
<1>3. RenamesTable(t, p) <=>
         Len(p) > 1 /\ p[1] = "lint" /\ p[2] = "unnecessary-import-alias" /\ ~HasPath(t, NewRuleTable)
  BY KnownNames DEF RenamesTable, NewRuleTable
<1>4. ~RenamesTable(t, p) => TablePlace(t, p) = p
  BY DEF TablePlace
<1>5. ASSUME RenamesTable(t, p)
      PROVE  /\ TablePlace(t, p) \in Paths
             /\ Len(TablePlace(t, p)) = Len(p)
             /\ TablePlace(t, p)[1] = "lint"
             /\ TablePlace(t, p)[2] = "import-alias-policy"
             /\ \A i \in 3 .. Len(p) : TablePlace(t, p)[i] = p[i]
  <2> DEFINE L == NewRuleTable \o Rest(p, 2)
  <2>1. /\ NewRuleTable \in Paths /\ Len(NewRuleTable) = 2
        /\ NewRuleTable[1] = "lint" /\ NewRuleTable[2] = "import-alias-policy"
    <3>1. "lint" \in Keys /\ "import-alias-policy" \in Keys
      BY KnownKeys
    <3> QED
      BY <3>1, ShortSequences, Zenon DEF NewRuleTable, Paths
  <2>2. TablePlace(t, p) = L
    BY <1>3, <1>5, KnownNames DEF TablePlace, NewRuleTable
  <2>3. /\ L \in Paths /\ Len(L) = Len(NewRuleTable) + Len(p) - 2
        /\ \A i \in 1 .. Len(NewRuleTable) : L[i] = NewRuleTable[i]
        /\ \A i \in 2 + 1 .. Len(p) : L[Len(NewRuleTable) + i - 2] = p[i]
    <3>1. 2 \in 0 .. Len(p)
      BY <1>2, <1>3, <1>5
    <3> QED
      BY <1>1, <2>1, <3>1, PlacePoints
  <2> HIDE DEF L
  <2>4. Len(L) = Len(p) /\ L[1] = "lint" /\ L[2] = "import-alias-policy"
    BY <1>2, <2>1, <2>3
  <2>5. ASSUME NEW i \in 3 .. Len(p) PROVE L[i] = p[i]
    <3>1. i \in 2 + 1 .. Len(p) /\ Len(NewRuleTable) + i - 2 = i
      BY <1>2, <2>1
    <3> QED
      BY <2>3, <3>1
  <2> QED
    BY <2>2, <2>3, <2>4, <2>5
<1> QED
  BY <1>1, <1>2, <1>3, <1>4, <1>5

(* The tables under `lint` keep what they say when their names change.     *)
LEMMA RenameKeepsSays ==
  ASSUME NEW t, IsDocument(t), DetectRuleTableRename(t)
  PROVE  LET A == ApplyRuleTableRename(t)
         IN  /\ IsDocument(A) /\ Says(A) = Says(t)
             /\ A = [q \in DOMAIN A |-> A[q]]
             /\ \A k \in Keys : Has(A, k) => Has(t, k)
             /\ DOMAIN A = {TablePlace(t, p) : p \in DOMAIN t}
             /\ \A p \in DOMAIN t : A[TablePlace(t, p)] = t[p]
<1> DEFINE place == [p \in DOMAIN t |-> TablePlace(t, p)]
           A == ApplyRuleTableRename(t)
<1>1. PICK r \in DOMAIN t : RenamesTable(t, r)
  BY DEF DetectRuleTableRename
<1>2. \A p \in DOMAIN t : p \in Paths /\ Len(p) \in Nat
  BY LenProperties DEF IsDocument, Paths
<1>3. /\ NewRuleTable \in Paths /\ RuleTable \in Paths
      /\ \A p \in Paths : /\ IsPrefix(NewRuleTable, p) <=>
                                Len(p) >= 2 /\ p[1] = "lint" /\ p[2] = "import-alias-policy"
                          /\ IsPrefix(RuleTable, p) <=>
                                Len(p) >= 2 /\ p[1] = "lint" /\ p[2] = "unnecessary-import-alias"
  <2>1. "lint" \in Keys /\ "import-alias-policy" \in Keys /\ "unnecessary-import-alias" \in Keys
    BY KnownKeys
  <2>2. NewRuleTable \in Paths /\ RuleTable \in Paths
    BY <2>1, ShortSequences, Zenon DEF NewRuleTable, RuleTable, Paths
  <2> QED
    BY <2>1, <2>2, PrefixOfTwo, Zenon DEF NewRuleTable, RuleTable
<1>4. ~HasPath(t, NewRuleTable) /\ IsPrefix(RuleTable, r)
  BY <1>1, <1>2, <1>3, RenamesPoints
<1>5. \A p \in DOMAIN t : RenamesTable(t, p) <=> IsPrefix(RuleTable, p)
  <2> SUFFICES ASSUME NEW p \in DOMAIN t PROVE RenamesTable(t, p) <=> IsPrefix(RuleTable, p)
    OBVIOUS
  <2>1. Len(p) >= 2 <=> Len(p) > 1
    BY <1>2
  <2> QED
    BY <1>2, <1>3, <1>4, <2>1, RenamesPoints
<1>6. \A p \in DOMAIN t : ~IsPrefix(NewRuleTable, p)
  BY <1>3, <1>4, DocumentPrefix DEF HasPath
<1>7. ASSUME NEW p \in DOMAIN t, RenamesTable(t, p)
      PROVE  IsPrefix(NewRuleTable, TablePlace(t, p))
  BY <1>2, <1>3, <1>7, RenamesPoints
<1>8. ASSUME NEW p \in DOMAIN t, NEW q \in DOMAIN t, place[p] = place[q]
      PROVE  p = q
  <2>1. TablePlace(t, p) = TablePlace(t, q)
    BY <1>8
  <2>2. CASE ~RenamesTable(t, p) /\ ~RenamesTable(t, q)
    BY <2>1, <2>2, RenamesPoints
  <2>3. CASE RenamesTable(t, p) /\ ~RenamesTable(t, q)
    BY <1>6, <1>7, <2>1, <2>3, RenamesPoints
  <2>4. CASE ~RenamesTable(t, p) /\ RenamesTable(t, q)
    BY <1>6, <1>7, <2>1, <2>4, RenamesPoints
  <2>5. CASE RenamesTable(t, p) /\ RenamesTable(t, q)
    <3>1. /\ Len(p) = Len(q) /\ p[1] = q[1] /\ p[2] = q[2]
          /\ \A i \in 3 .. Len(p) : p[i] = q[i]
      BY <2>1, <2>5, RenamesPoints
    <3>2. \A i \in 1 .. Len(p) : p[i] = q[i]
      BY <1>2, <3>1
    <3> QED
      BY <1>2, <3>1, <3>2, SeqEqual DEF Paths
  <2> QED
    BY <2>2, <2>3, <2>4, <2>5
<1>9. \A p \in DOMAIN t : place[p] = TablePlace(t, p)
  OBVIOUS
<1>10. A = Relocated(t, place)
  BY DEF ApplyRuleTableRename
<1> HIDE DEF place, A
<1>11. /\ DOMAIN A = {place[p] : p \in DOMAIN t}
       /\ \A p \in DOMAIN t : A[place[p]] = t[p]
       /\ \A l : l \in Leaves(A) <=>
            \E m \in Leaves(t) : l = [path |-> place[m.path], val |-> m.val]
  BY <1>8, <1>10, RelocatedLeaves
<1>12. A = [q \in DOMAIN A |-> A[q]]
  BY <1>10 DEF Relocated
<1>13. /\ DOMAIN A = {TablePlace(t, p) : p \in DOMAIN t}
       /\ \A p \in DOMAIN t : A[TablePlace(t, p)] = t[p]
       /\ \A p \in DOMAIN t : ~IsPrefix(RuleTable, p) => p \in DOMAIN A /\ A[p] = t[p]
  <2>1. \A p \in DOMAIN t : ~IsPrefix(RuleTable, p) => TablePlace(t, p) = p
    BY <1>5, RenamesPoints
  <2> QED
    BY <1>9, <1>11, <2>1
<1>14. DOMAIN A \subseteq Paths
  BY <1>2, <1>13, RenamesPoints
<1>15. IsDocument(A)
  <2>1. << >> \in DOMAIN A
    <3>1. << >> \in DOMAIN t
      BY DEF IsDocument
    <3>2. ~RenamesTable(t, << >>)
      BY <3>1, RenamesPoints, EmptySeq
    <3> QED
      BY <1>5, <1>13, <3>1, <3>2
  <2>2. ASSUME NEW q \in DOMAIN A, NEW s \in Paths, IsPrefix(s, q), s # q
        PROVE  s \in DOMAIN A /\ A[s] = Branch
    <3>1. PICK p \in DOMAIN t : q = TablePlace(t, p)
      BY <1>13
    <3>2. CASE ~RenamesTable(t, p)
      <4>1. q = p
        BY <3>1, <3>2, RenamesPoints
      <4>2. s \in DOMAIN t /\ t[s] = Branch
        BY <2>2, <4>1, DocumentPrefix
      <4>3. ~IsPrefix(RuleTable, s)
        BY <1>2, <1>3, <1>5, <2>2, <3>2, <4>1, PrefixOrder
      <4> QED
        BY <1>13, <4>2, <4>3
    <3>3. CASE RenamesTable(t, p)
      <4>1. /\ p \in Paths /\ Len(p) \in Nat /\ Len(p) > 1 /\ q \in Paths /\ Len(q) = Len(p)
            /\ p[1] = "lint" /\ q[1] = "lint" /\ q[2] = "import-alias-policy"
            /\ p[2] = "unnecessary-import-alias"
            /\ \A i \in 3 .. Len(p) : q[i] = p[i]
        BY <3>1, <3>3, RenamesPoints
      <4>2. Len(s) \in Nat /\ Len(s) <= Len(q) /\ \A i \in 1 .. Len(s) : q[i] = s[i]
        BY <2>2, <4>1, PrefixPoints, LenProperties DEF Paths
      <4>3. Len(s) < Len(p)
        <5>1. Len(s) # Len(q)
          BY <2>2, <4>1, <4>2, SeqEqual DEF Paths
        <5> QED
          BY <4>1, <4>2, <5>1
      <4> DEFINE n == Len(s)
                 u == SubSeq(p, 1, n)
      <4>4. \A i \in 1 .. n : p[i] \in Keys
        BY <4>1, <4>2, <4>3, ElementOfSeq DEF Paths
      <4>5. n \in Nat /\ n < Len(p)
        BY <4>2, <4>3
      <4>6. u \in Paths /\ Len(u) = n /\ \A i \in 1 .. n : u[i] = p[i]
        <5> HIDE DEF n
        <5>1. /\ SubSeq(p, 1, n) \in Paths
              /\ Len(SubSeq(p, 1, n)) = IF 1 <= n THEN n - 1 + 1 ELSE 0
              /\ \A i \in 1 .. n - 1 + 1 : SubSeq(p, 1, n)[i] = p[1 + i - 1]
          BY <4>4, <4>5, SubSeqProperties DEF Paths
        <5> QED
          BY <4>5, <5>1
      <4> HIDE DEF u
      <4>7. IsPrefix(u, p) /\ u # p
        BY <4>1, <4>5, <4>6, PrefixPoints
      <4>8. u \in DOMAIN t /\ t[u] = Branch
        BY <4>6, <4>7, DocumentPrefix
      <4>9. CASE n <= 1
        <5>1. \A i \in 1 .. n : u[i] = s[i]
          BY <4>1, <4>2, <4>5, <4>6, <4>9
        <5>2. u = s
          BY <4>6, <5>1, SeqEqual DEF Paths
        <5>3. ~(Len(u) >= 2)
          BY <4>5, <4>6, <4>9
        <5>4. ~IsPrefix(RuleTable, u)
          BY <1>3, <4>6, <5>3
        <5> QED
          BY <1>13, <4>8, <5>2, <5>4
      <4>10. CASE n > 1
        <5>1. u[1] = "lint" /\ u[2] = "unnecessary-import-alias" /\ Len(u) > 1 /\ Len(u) >= 2
          BY <4>1, <4>5, <4>6, <4>10
        <5>2. RenamesTable(t, u)
          BY <1>3, <1>5, <4>6, <4>8, <5>1
        <5> DEFINE w == TablePlace(t, u)
        <5>3. /\ w \in Paths /\ Len(w) = n /\ w[1] = "lint" /\ w[2] = "import-alias-policy"
              /\ \A i \in 3 .. n : w[i] = u[i]
          BY <4>6, <4>8, <5>2, RenamesPoints
        <5> HIDE DEF w
        <5>4. \A i \in 1 .. n : w[i] = s[i]
          <6> SUFFICES ASSUME NEW i \in 1 .. n PROVE w[i] = s[i]
            OBVIOUS
          <6>1. q[i] = s[i]
            BY <4>2
          <6>2. CASE i <= 2
            BY <4>1, <5>3, <6>1, <6>2
          <6>3. CASE i > 2
            <7>1. i \in 3 .. n /\ i \in 3 .. Len(p)
              BY <4>5, <6>3
            <7> QED
              BY <4>1, <4>6, <5>3, <6>1, <7>1
          <6> QED
            BY <6>2, <6>3
        <5>5. w = s
          BY <5>3, <5>4, SeqEqual DEF Paths
        <5> QED
          BY <1>13, <4>8, <5>5 DEF w
      <4>11. n <= 1 \/ n > 1
        BY <4>5
      <4> QED
        BY <4>9, <4>10, <4>11
    <3> QED
      BY <3>2, <3>3
  <2> QED
    BY <1>14, <2>1, <2>2, DocumentByPrefix
<1>16. <<"lint">> \in Paths /\ Len(<<"lint">>) = 1 /\ <<"lint">>[1] = "lint"
  BY ShortSequences, KnownKeys, Zenon DEF Paths
<1>17. Has(t, "lint") /\ Has(A, "lint")
  <2>1. IsPrefix(<<"lint">>, r)
    <3>1. r \in Paths /\ Len(r) >= 1 /\ r[1] = "lint" /\ "lint" \in Keys
      <4>1. Len(r) >= 2
        BY <1>2, <1>3, <1>4
      <4>2. Len(r) >= 1
        BY <1>2, <4>1
      <4> QED
        BY <1>2, <1>3, <1>4, <4>2, KnownKeys
    <3> QED
      BY <3>1, PrefixOfOne, Zenon
  <2>2. <<"lint">> \in DOMAIN t
    BY <1>16, <2>1, DocumentPrefix
  <2>3. ~IsPrefix(RuleTable, <<"lint">>)
    BY <1>3, <1>16
  <2> QED
    BY <1>13, <2>2, <2>3 DEF Has, HasPath
<1>18. \A p \in DOMAIN t : ModernTable(t, p) = TablePlace(t, p)
  BY DEF ModernTable, TablePlace, RenamesTable
<1>19. \A q \in DOMAIN A : ModernTable(A, q) = q
  <2> SUFFICES ASSUME NEW q \in DOMAIN A,
                      Len(q) > 1, q[1] = "lint", q[2] = "unnecessary-import-alias"
               PROVE  FALSE
    BY KnownNames DEF ModernTable
  <2>1. PICK p \in DOMAIN t : q = TablePlace(t, p)
    BY <1>13
  <2>2. CASE RenamesTable(t, p)
    BY <2>1, <2>2, RenamesPoints
  <2>3. CASE ~RenamesTable(t, p)
    <3>1. q = p /\ p \in Paths
      BY <2>1, <2>3, RenamesPoints
    <3> QED
      BY <1>4, <2>3, <3>1, RenamesPoints
  <2> QED
    BY <2>2, <2>3
<1>20. Says(A) = Leaves(A)
  <2>1. Says(A) = {[path |-> ModernTable(A, l.path), val |-> l.val] : l \in Leaves(A)}
    BY <1>17 DEF Says
  <2>2. \A l \in Leaves(A) : l.path \in DOMAIN A /\ l = [path |-> l.path, val |-> l.val]
    BY LeafOf
  <2>3. \A l \in Leaves(A) : [path |-> ModernTable(A, l.path), val |-> l.val] = l
    BY <1>19, <2>2
  <2> QED
    BY <2>1, <2>3
<1>21. Says(t) = Leaves(A)
  <2>1. Says(t) = {[path |-> ModernTable(t, m.path), val |-> m.val] : m \in Leaves(t)}
    BY <1>17 DEF Says
  <2>2. \A m \in Leaves(t) : m.path \in DOMAIN t
    BY LeafOf
  <2>3. \A m \in Leaves(t) : ModernTable(t, m.path) = place[m.path]
    BY <1>9, <1>18, <2>2
  <2> QED
    BY <1>11, <2>1, <2>3
<1>22. ASSUME NEW k \in Keys, Has(A, k)
       PROVE  Has(t, k)
  <2>1. <<k>> \in Paths /\ Len(<<k>>) = 1
    BY ShortSequences, Zenon DEF Paths
  <2>2. PICK p \in DOMAIN t : <<k>> = TablePlace(t, p)
    BY <1>13, <1>22 DEF Has, HasPath
  <2>3. ~RenamesTable(t, p)
    <3>1. ASSUME RenamesTable(t, p) PROVE FALSE
      <4>1. Len(p) > 1 /\ Len(TablePlace(t, p)) = Len(p)
        BY <3>1, RenamesPoints
      <4>2. Len(TablePlace(t, p)) = 1
        BY <2>1, <2>2, Zenon
      <4> QED
        BY <4>1, <4>2
    <3> QED
      BY <3>1
  <2>4. <<k>> = p
    BY <2>2, <2>3, RenamesPoints
  <2> QED
    BY <2>4 DEF Has, HasPath
<1> QED
  BY <1>12, <1>13, <1>15, <1>20, <1>21, <1>22 DEF A

(* The migrations one after the other keep what a konform table says.      *)
LEMMA MigrationsKeepSays ==
  ASSUME NEW t, IsDocument(t), NeedsMigration(t)
  PROVE  LET V == RunMigrations(t)
         IN  /\ IsDocument(V) /\ Says(V) = Says(t)
             /\ V = [q \in DOMAIN V |-> V[q]]
             /\ Has(V, "konform") => Has(t, "konform")
<1>1. "konform" \in Keys
  BY KnownKeys
<1>2. CASE DetectLintSection(t)
  <2>1. ~Has(t, "lint")
    BY <1>2 DEF DetectLintSection
  <2>2. RunMigrations(t) = ApplyLintSection(t)
    BY <1>2, <2>1, LintKeepsSays DEF RunMigrations
  <2> QED
    BY <1>1, <2>1, <2>2, LintKeepsSays, LintNodes, LintDocument
<1>3. CASE ~DetectLintSection(t)
  <2>1. DetectRuleTableRename(t) /\ RunMigrations(t) = ApplyRuleTableRename(t)
    BY <1>3 DEF NeedsMigration, RunMigrations
  <2> QED
    BY <1>1, <2>1, RenameKeepsSays
<1> QED
  BY <1>2, <1>3

-----------------------------------------------------------------------------
(* The konform table in its document.                                      *)

LEMMA KonformPaths ==
  ASSUME NEW doc, NEW pyproject \in BOOLEAN
  PROVE  KonformPath(doc, pyproject) \in Paths
<1>1. "tool" \in Keys /\ "konform" \in Keys
  BY KnownKeys
<1>2. <<"tool", "konform">> \in Paths /\ <<"konform">> \in Paths /\ << >> \in Paths
  BY <1>1, ShortSequences, EmptySeq, Zenon DEF Paths
<1> QED
  BY <1>2 DEF KonformPath

ElsewhereIn(doc, pyproject) ==
    {s \in Leaves(doc) : ~IsPrefix(KonformPath(doc, pyproject), s.path)}

(* Upgrading a document keeps what its konform table says and everything    *)
(* outside that table.                                                     *)
LEMMA MigrateKeeps ==
  ASSUME NEW doc, IsDocument(doc), NEW pyproject \in BOOLEAN, Outdated(doc, pyproject)
  PROVE  LET new == MigrateContent(doc, pyproject)
         IN  /\ IsDocument(new)
             /\ HasKonform(new, pyproject)
             /\ KonformSection(new, pyproject) = RunMigrations(KonformSection(doc, pyproject))
             /\ Says(KonformSection(new, pyproject)) = Says(KonformSection(doc, pyproject))
             /\ ElsewhereIn(new, pyproject) = ElsewhereIn(doc, pyproject)
<1> DEFINE p == KonformPath(doc, pyproject)
           t == AtPath(doc, p)
           V == RunMigrations(t)
           new == Replaced(doc, p, V)
<1>1. p \in Paths /\ p \in DOMAIN doc /\ DOMAIN doc \subseteq Paths
  BY KonformPaths DEF Outdated, HasKonform, HasPath, IsDocument, Paths
<1>2. IsDocument(t)
  BY <1>1, AtPathDocument
<1>3. NeedsMigration(t) /\ KonformSection(doc, pyproject) = t /\ MigrateContent(doc, pyproject) = new
  BY DEF Outdated, KonformSection, MigrateContent
<1>4. /\ IsDocument(V) /\ Says(V) = Says(t)
      /\ V = [q \in DOMAIN V |-> V[q]]
      /\ Has(V, "konform") => Has(t, "konform")
  BY <1>2, <1>3, MigrationsKeepSays
<1>5. ASSUME ~pyproject, ~Has(doc, "konform")
      PROVE  new = V /\ DOMAIN t = DOMAIN doc
  <2>1. p = << >>
    BY <1>5 DEF KonformPath
  <2>2. \A q \in Paths : /\ IsPrefix(<< >>, q) /\ << >> \o q = q /\ Below(q, << >>) = q
    <3> SUFFICES ASSUME NEW q \in Paths
                 PROVE  IsPrefix(<< >>, q) /\ << >> \o q = q /\ Below(q, << >>) = q
      OBVIOUS
    <3>1. IsPrefix(<< >>, q) /\ << >> \o q = q
      BY PrefixOrder, ConcatEmptySeq DEF Paths
    <3>2. << >> \o Below(q, << >>) = q /\ Below(q, << >>) \in Paths
      BY <1>1, <2>1, <3>1, PrefixJoin
    <3>3. << >> \o Below(q, << >>) = Below(q, << >>)
      BY <3>2, ConcatEmptySeq DEF Paths
    <3> QED
      BY <3>1, <3>2, <3>3
  <2>3. DOMAIN V \subseteq Paths
    BY <1>4 DEF IsDocument, Paths
  <2> HIDE DEF V
  <2>4. new = V
    <3>1. /\ \A q \in Paths : q \in DOMAIN Replaced(doc, << >>, V) <=>
                IF IsPrefix(<< >>, q) THEN Below(q, << >>) \in DOMAIN V ELSE q \in DOMAIN doc
          /\ \A q \in DOMAIN Replaced(doc, << >>, V) :
                Replaced(doc, << >>, V)[q] = IF IsPrefix(<< >>, q) THEN V[Below(q, << >>)] ELSE doc[q]
          /\ DOMAIN Replaced(doc, << >>, V) \subseteq Paths
      BY <1>1, <2>1, <2>3, ReplacedNodes
    <3>2. DOMAIN Replaced(doc, << >>, V) = DOMAIN V
      BY <2>2, <2>3, <3>1
    <3>3. \A q \in DOMAIN V : Replaced(doc, << >>, V)[q] = V[q]
      BY <2>2, <2>3, <3>1, <3>2
    <3>4. Replaced(doc, << >>, V) = [q \in DOMAIN V |-> V[q]]
      BY <3>2, <3>3 DEF Replaced
    <3> QED
      BY <1>4, <2>1, <3>4
  <2>5. DOMAIN t = DOMAIN doc
    <3>1. \A r \in Paths : p \o r = r
      BY <2>1, <2>2
    <3> HIDE DEF p
    <3>2. DOMAIN t \subseteq Paths /\ \A r \in Paths : r \in DOMAIN t <=> p \o r \in DOMAIN doc
      BY <1>1, AtPathNodes
    <3> QED
      BY <1>1, <3>1, <3>2
  <2> QED
    BY <2>4, <2>5
<1> HIDE DEF V
<1>6. IsDocument(new)
  <2>1. \A q \in Paths : IsPrefix(q, p) /\ q # p => q \in DOMAIN doc /\ doc[q] = Branch
    BY <1>1, DocumentPrefix
  <2> QED
    BY <1>1, <1>4, <2>1, ReplacedDocument
<1>7. AtPath(new, p) = V
  BY <1>1, <1>4, AtReplaced DEF IsDocument, Paths
<1>8. /\ \A q \in Paths : q \in DOMAIN new <=>
            IF IsPrefix(p, q) THEN Below(q, p) \in DOMAIN V ELSE q \in DOMAIN doc
      /\ \A q \in DOMAIN new : new[q] = IF IsPrefix(p, q) THEN V[Below(q, p)] ELSE doc[q]
      /\ DOMAIN new \subseteq Paths
  BY <1>1, <1>4, ReplacedNodes DEF IsDocument, Paths
<1>9. p \in DOMAIN new
  <2>1. p \o << >> = p /\ << >> \in Paths
    BY <1>1, ConcatEmptySeq, EmptySeq DEF Paths
  <2>2. IsPrefix(p, p) /\ Below(p, p) = << >>
    BY <1>1, <2>1, JoinPrefix
  <2>3. << >> \in DOMAIN V
    BY <1>4 DEF IsDocument
  <2> QED
    BY <1>1, <1>8, <2>2, <2>3
<1>10. KonformPath(new, pyproject) = p
  <2>1. CASE pyproject
    BY <2>1 DEF KonformPath
  <2>2. CASE ~pyproject /\ Has(doc, "konform")
    <3>1. p = <<"konform">>
      BY <2>2 DEF KonformPath
    <3>2. Has(new, "konform")
      BY <1>9, <3>1 DEF Has, HasPath
    <3> HIDE DEF p, new
    <3> QED
      BY <2>2, <3>1, <3>2 DEF KonformPath
  <2>3. CASE ~pyproject /\ ~Has(doc, "konform")
    <3>1. p = << >>
      BY <2>3 DEF KonformPath
    <3>2. ~Has(new, "konform")
      <4>1. new = V /\ DOMAIN t = DOMAIN doc
        BY <1>5, <2>3
      <4>2. ~Has(t, "konform")
        BY <2>3, <4>1 DEF Has, HasPath
      <4> QED
        BY <1>4, <4>1, <4>2
    <3> HIDE DEF p, new
    <3> QED
      BY <2>3, <3>1, <3>2 DEF KonformPath
  <2> QED
    BY <2>1, <2>2, <2>3
<1>11. HasKonform(new, pyproject) /\ KonformSection(new, pyproject) = V
  BY <1>7, <1>9, <1>10 DEF HasKonform, HasPath, KonformSection
<1>12. ElsewhereIn(new, pyproject) = ElsewhereIn(doc, pyproject)
  <2> HIDE DEF p, new
  <2>1. ElsewhereIn(new, pyproject) = {s \in Leaves(new) : ~IsPrefix(p, s.path)}
    BY <1>10 DEF ElsewhereIn
  <2>2. ElsewhereIn(doc, pyproject) = {s \in Leaves(doc) : ~IsPrefix(p, s.path)}
    BY DEF ElsewhereIn, p
  <2>3. ASSUME NEW s, s \in Leaves(new), ~IsPrefix(p, s.path) PROVE s \in Leaves(doc)
    <3>1. PICK q \in DOMAIN new : new[q] # Branch /\ s = [path |-> q, val |-> new[q]]
      BY <2>3, LeafOf
    <3>2. q \in DOMAIN doc /\ new[q] = doc[q]
      BY <1>8, <2>3, <3>1
    <3> QED
      BY <3>1, <3>2, LeafOf
  <2>4. ASSUME NEW s, s \in Leaves(doc), ~IsPrefix(p, s.path) PROVE s \in Leaves(new)
    <3>1. PICK q \in DOMAIN doc : doc[q] # Branch /\ s = [path |-> q, val |-> doc[q]]
      BY <2>4, LeafOf
    <3>2. q \in DOMAIN new /\ new[q] = doc[q]
      BY <1>1, <1>8, <2>4, <3>1
    <3> QED
      BY <3>1, <3>2, LeafOf
  <2> QED
    BY <2>1, <2>2, <2>3, <2>4
<1> QED
  BY <1>3, <1>4, <1>6, <1>11, <1>12 DEF V

-----------------------------------------------------------------------------
(* The invariants.                                                         *)

Rewriting(l) == loader[l].pc \in {"truncate", "write"}
Writing(l, f) == loader[l].pc = "write" /\ loader[l].file = f

(* Two contents of file f mean the same.                                   *)
Alike(f, c, d) ==
    /\ c.status = d.status
    /\ SectionSays(f, c) = SectionSays(f, d)
    /\ Elsewhere(f, c) = Elsewhere(f, d)

(* What a process is at.  The files it has read are all different; the one  *)
(* it started from has no layers yet.                                      *)
IsLoader(x) ==
    /\ DOMAIN x = {"pc", "start", "file", "text", "ruff", "chain", "layers", "calm"}
    /\ x.pc \in {"idle", "read", "truncate", "write"}
    /\ x.calm \in BOOLEAN
    /\ x.chain \in Seq(Files) /\ IsInjective(x.chain)
    /\ x.layers \in Seq(ToSet(x.layers))
    /\ x.pc # "idle" =>
          /\ x.start \in Dirs /\ x.file \in Files /\ x.chain # << >>
          /\ x.layers = << >> => x.chain = <<x.file>>
    /\ x.pc \in {"truncate", "write"} => IsDocument(x.text)

Shapes ==
    /\ DOMAIN disk = Files /\ DOMAIN wrote = Files
    /\ \A f \in Files : IsContent(disk[f])
    /\ DOMAIN loader = Loaders /\ DOMAIN result = Loaders
    /\ \A l \in Loaders : IsLoader(loader[l])

(* Unless a save or a kill cut across a rewrite, a file means what its user *)
(* wrote, or is empty for as long as someone writes it; and whoever is to   *)
(* write it has a text that means the same.                                *)
MeaningKept(f) ==
    /\ \/ Alike(f, disk[f], wrote[f])
       \/ disk[f] = EmptyFile /\ \E l \in Loaders : Writing(l, f)
    /\ \A l \in Loaders : Rewriting(l) /\ loader[l].file = f =>
          /\ Alike(f, Toml(loader[l].text), wrote[f])
          /\ IsFile(f)

RewriteInv == Shapes /\ \A f \in Files \ spoiled : MeaningKept(f)

(* The i-th directory of s is reached before one that is in ends is passed. *)
Reached(s, ends, i) == i \in DOMAIN s /\ \A j \in 1 .. i - 1 : s[j] \notin ends

(* No save and no rewrite cut short has disturbed the load, as far as it    *)
(* has noticed or will notice before it ends.                              *)
Undisturbed(l) == loader[l].calm /\ (spoiled = {} \/ Rewriting(l))

(* A load under way comes from a directory of the repository; below it there *)
(* is no configuration, and no rewrite brings one back.                     *)
UnderWay(l) ==
    /\ result[l] = NoResult
    /\ LET up == Ancestors[loader[l].start]
       IN  \E i \in DOMAIN up :
              /\ Reached(up, GitDirs, i) /\ up[i] = DirOf[loader[l].chain[1]]
              /\ Undisturbed(l) => \A j \in 1 .. i - 1 : ~HasConfig(up[j])
    /\ Undisturbed(l) => \A o \in Loaders : Rewriting(o) => IsFile(loader[o].file)

(* What a load gave when it was over.                                      *)
InsideOf(d, r) ==
    LET inside == ToSet(UpTo(Ancestors[d], GitDirs))
    IN  /\ r.file # NoFile => DirOf[r.file] \in inside
        /\ r.python.how = "venv" => r.python.at \in inside
        /\ r.root \subseteq inside
        /\ r.file # NoFile => r.root \subseteq ToSet(Ancestors[DirOf[r.file]])

Settled(l) ==
    loader[l].pc = "idle" /\ loader[l].start \in Dirs /\ result[l].calm =>
        InsideOf(loader[l].start, result[l])

Repeats(r) == ~IsInjective(<<r.file>> \o r.extends)

BoundsInv ==
    /\ site \in Sites
    /\ \A l \in Loaders : /\ loader[l].pc # "idle" => UnderWay(l)
                          /\ Settled(l)
                          /\ ~Repeats(result[l])

-----------------------------------------------------------------------------
(* The steps of a load.                                                    *)

(* What a load does with a text: it is over, with a result about the file it *)
(* started from, or it goes on to a file that is there and that it has not   *)
(* read.                                                                     *)
Finished(l, me) ==
    \E extends \in {<< >>, Tail(me.chain)} : \E errors, settings, src :
       Done(l, me, Result(me.chain[1], extends, errors, settings, src, DirOf[me.chain[1]], me))
GoesOn(l, me) ==
    /\ \E target, ruff, layer :
          /\ target \in Files /\ IsFile(target) /\ target \notin ToSet(me.chain)
          /\ loader' = [loader EXCEPT ![l] =
                 [me EXCEPT !.pc = "read", !.file = target, !.ruff = ruff,
                            !.layers = Append(me.layers, layer), !.chain = Append(me.chain, target)]]
    /\ UNCHANGED result

LEMMA TakeCases ==
  ASSUME NEW l, NEW me, NEW content, me.layers = << >> => me.chain = <<me.file>>, Take(l, me, content)
  PROVE  Finished(l, me) \/ GoesOn(l, me)
<1> DEFINE f == me.file
           hasSection == HasKonform(content.doc, IsPyproject(f))
           section == IF hasSection THEN KonformSection(content.doc, IsPyproject(f)) ELSE EmptyTable
           layers == Append(me.layers, Cut(section, <<"extend">>))
           ruff == IF me.layers = << >> THEN content.doc ELSE me.ruff
           target == At(section, "extend")[<< >>]
<1>1. ASSUME NEW errors, me.layers = << >>,
             Done(l, me, Result(f, << >>, errors, Defaults, DefaultSrc, DirOf[f], me))
      PROVE  Finished(l, me)
  <2>1. me.chain[1] = f
    BY <1>1
  <2> QED
    BY <1>1, <2>1 DEF Finished
<1>2. ASSUME NEW settings, NEW errors, NEW doc, Done(l, me, Loaded(me, settings, errors, doc))
      PROVE  Finished(l, me)
  <2>1. \E extends \in {<< >>, Tail(me.chain)} : \E e, s, src :
           Loaded(me, settings, errors, doc) =
              Result(me.chain[1], extends, e, s, src, DirOf[me.chain[1]], me)
    BY Zenon DEF Loaded
  <2> QED
    BY <1>2, <2>1, Zenon DEF Finished
<1>3. ASSUME ~BrokenLink(target, me.chain),
             loader' = [loader EXCEPT ![l] =
                [me EXCEPT !.pc = "read", !.file = target, !.ruff = ruff,
                           !.layers = layers, !.chain = Append(@, target)]],
             UNCHANGED result
      PROVE  GoesOn(l, me)
  <2>1. target \in Files /\ IsFile(target) /\ target \notin ToSet(me.chain)
    BY <1>3 DEF BrokenLink
  <2>2. [me EXCEPT !.pc = "read", !.file = target, !.ruff = ruff,
                   !.layers = layers, !.chain = Append(@, target)] =
        [me EXCEPT !.pc = "read", !.file = target, !.ruff = ruff,
                   !.layers = layers, !.chain = Append(me.chain, target)]
    OBVIOUS
  <2> HIDE DEF target, ruff
  <2> QED
    BY <1>3, <2>1, <2>2, Zenon DEF GoesOn
<1> QED
  BY <1>1, <1>2, <1>3, Zenon DEF Take

LEMMA IdleLoader ==
  ASSUME NEW d
  PROVE  /\ IsLoader([Idle EXCEPT !.start = d])
         /\ [Idle EXCEPT !.start = d].pc = "idle" /\ [Idle EXCEPT !.start = d].start = d
         /\ IsLoader(Idle) /\ Idle.pc = "idle"
<1> DEFINE x == [Idle EXCEPT !.start = d]
<1>1. /\ DOMAIN x = {"pc", "start", "file", "text", "ruff", "chain", "layers", "calm"}
      /\ x.pc = "idle" /\ x.start = d /\ x.chain = << >> /\ x.layers = << >> /\ x.calm = TRUE
  BY DEF Idle
<1>2. << >> \in Seq(Files) /\ << >> \in Seq(ToSet(<< >>)) /\ IsInjective(<< >>)
  BY DEF IsInjective
<1>3. IsLoader(Idle)
  BY <1>2 DEF Idle, IsLoader
<1> HIDE DEF x
<1>4. IsLoader(x)
  BY <1>1, <1>2 DEF IsLoader
<1> QED
  BY <1>1, <1>3, <1>4 DEF x, Idle

(* A chain that goes on to a file that is not in it.                       *)
LEMMA ChainGrows ==
  ASSUME NEW chain \in Seq(Files), IsInjective(chain), NEW target \in Files, target \notin ToSet(chain)
  PROVE  /\ Append(chain, target) \in Seq(Files) /\ IsInjective(Append(chain, target))
         /\ Append(chain, target) # << >>
         /\ chain # << >> => Append(chain, target)[1] = chain[1]
<1> DEFINE a == Append(chain, target)
<1>1. /\ a \in Seq(Files) /\ a # << >> /\ Len(a) = Len(chain) + 1
      /\ \A i \in 1 .. Len(chain) : a[i] = chain[i]
      /\ a[Len(chain) + 1] = target
  BY AppendProperties
<1>2. Len(chain) \in Nat /\ DOMAIN chain = 1 .. Len(chain) /\ DOMAIN a = 1 .. Len(a)
  BY <1>1, LenProperties
<1>3. \A i \in 1 .. Len(chain) : chain[i] # target
  BY <1>2 DEF ToSet
<1> HIDE DEF a
<1>4. IsInjective(a)
  <2> SUFFICES ASSUME NEW i \in 1 .. Len(chain) + 1, NEW j \in 1 .. Len(chain) + 1, a[i] = a[j]
               PROVE  i = j
    BY <1>1, <1>2 DEF IsInjective
  <2>1. CASE i \in 1 .. Len(chain) /\ j \in 1 .. Len(chain)
    BY <1>1, <1>2, <2>1 DEF IsInjective
  <2>2. CASE i = Len(chain) + 1 \/ j = Len(chain) + 1
    BY <1>1, <1>2, <1>3, <2>2
  <2> QED
    BY <1>2, <2>1, <2>2
<1>5. chain # << >> => a[1] = chain[1]
  BY <1>1, <1>2, EmptySeq
<1> QED
  BY <1>1, <1>4, <1>5 DEF a

LEMMA LayersGrow ==
  ASSUME NEW layers, layers \in Seq(ToSet(layers)), NEW layer
  PROVE  /\ Append(layers, layer) \in Seq(ToSet(Append(layers, layer)))
         /\ Append(layers, layer) # << >>
<1> DEFINE S == ToSet(layers) \cup {layer}
           a == Append(layers, layer)
<1>1. layers \in Seq(S)
  BY SeqMonotonic
<1>2. a \in Seq(S) /\ a # << >>
  BY <1>1, AppendProperties
<1>3. a \in Seq(Range(a))
  BY <1>2, SeqOfRange
<1>4. Range(a) = ToSet(a)
  BY DEF Range, ToSet
<1> QED
  BY <1>2, <1>3, <1>4

(* Whatever a load does with a text, it is a load over or one at the next   *)
(* file.                                                                   *)
LEMMA TakeLoader ==
  ASSUME NEW l, NEW me, NEW content, IsLoader(me), me.pc # "idle", Take(l, me, content)
  PROVE  \E x : /\ loader' = [loader EXCEPT ![l] = x] /\ IsLoader(x)
                /\ x.pc \in {"idle", "read"} /\ x.start = me.start
                /\ x.pc = "read" => x.calm = me.calm
<1>1. CASE Finished(l, me)
  BY <1>1, IdleLoader, Zenon DEF Finished, Done
<1>2. CASE GoesOn(l, me)
  <2>1. PICK target, ruff, layer :
          /\ target \in Files
          /\ target \notin ToSet(me.chain)
          /\ loader' = [loader EXCEPT ![l] =
                 [me EXCEPT !.pc = "read", !.file = target, !.ruff = ruff,
                            !.layers = Append(me.layers, layer), !.chain = Append(me.chain, target)]]
    BY <1>2, Zenon DEF GoesOn
  <2> DEFINE chain == Append(me.chain, target)
             layers == Append(me.layers, layer)
             x == [me EXCEPT !.pc = "read", !.file = target, !.ruff = ruff,
                             !.layers = layers, !.chain = chain]
  <2>2. chain \in Seq(Files) /\ IsInjective(chain) /\ chain # << >>
    BY <2>1, ChainGrows DEF IsLoader
  <2>3. layers \in Seq(ToSet(layers)) /\ layers # << >>
    BY LayersGrow DEF IsLoader
  <2>4. DOMAIN me = {"pc", "start", "file", "text", "ruff", "chain", "layers", "calm"}
        /\ me.calm \in BOOLEAN /\ me.start \in Dirs
    BY DEF IsLoader
  <2> HIDE DEF chain, layers
  <2>5. DOMAIN x = DOMAIN me /\ x.pc = "read" /\ x.start = me.start /\ x.file = target
        /\ x.chain = chain /\ x.layers = layers /\ x.calm = me.calm
    BY <2>4
  <2> HIDE DEF x
  <2>6. IsLoader(x) /\ x.pc = "read" /\ x.start = me.start /\ x.calm = me.calm
    BY <2>1, <2>2, <2>3, <2>4, <2>5 DEF IsLoader
  <2> QED
    BY <2>1, <2>6 DEF x, chain, layers
<1> QED
  BY <1>1, <1>2, TakeCases DEF IsLoader

-----------------------------------------------------------------------------
(* Walking up.                                                             *)

(* The least of some indices.                                              *)
LEMMA FirstOf ==
  ASSUME NEW n \in Nat, NEW hits \in SUBSET (1 .. n), hits # {}
  PROVE  Min(hits) \in hits /\ \A j \in hits : Min(hits) <= j
<1>1. hits \subseteq Nat
  OBVIOUS
<1>2. PICK i \in hits : \A j \in hits : ~(<<j, i>> \in OpToRel(<, Nat))
  BY <1>1, WFMin, NatLessThanWellFounded
<1>3. \A j \in hits : j < i => <<j, i>> \in OpToRel(<, Nat)
  BY <1>1 DEF OpToRel
<1>4. \A j \in hits : ~(j < i)
  BY <1>2, <1>3, Zenon
<1>5. \A j \in hits : i <= j
  BY <1>1, <1>4
<1> QED
  BY <1>5 DEF Min

(* A walk up goes to the first place where it may end, or all the way.     *)
LEMMA UpToPoints ==
  ASSUME NEW s \in Seq(Dirs), s # << >>, NEW ends
  PROVE  LET up == UpTo(s, ends)
         IN  \E n \in DOMAIN s :
               /\ up \in Seq(Dirs) /\ Len(up) = n
               /\ \A i \in 1 .. n : up[i] = s[i]
               /\ Reached(s, ends, n)
               /\ n = Len(s) \/ s[n] \in ends
<1> DEFINE hits == {i \in DOMAIN s : s[i] \in ends}
           up == UpTo(s, ends)
<1>1. Len(s) \in Nat \ {0} /\ DOMAIN s = 1 .. Len(s)
  BY LenProperties, EmptySeq
<1>2. CASE hits = {}
  <2>1. up = s
    BY <1>2 DEF UpTo
  <2>2. Len(s) \in DOMAIN s /\ Reached(s, ends, Len(s))
    BY <1>1, <1>2 DEF Reached
  <2> HIDE DEF up
  <2> QED
    BY <1>1, <2>1, <2>2 DEF up
<1>3. CASE hits # {}
  <2> DEFINE n == Min(hits)
  <2>1. n \in hits /\ \A j \in hits : n <= j
    BY <1>1, <1>3, FirstOf
  <2>2. up = SubSeq(s, 1, n)
    BY <1>3 DEF UpTo
  <2>3. n \in 1 .. Len(s) /\ s[n] \in ends
    BY <1>1, <2>1
  <2>4. \A j \in 1 .. Len(s) : s[j] \in ends => n <= j
    BY <1>1, <2>1
  <2> HIDE DEF n, up
  <2>5. Reached(s, ends, n)
    BY <1>1, <2>3, <2>4 DEF Reached
  <2>6. \A i \in 1 .. n : s[i] \in Dirs
    BY <1>1, <2>3, ElementOfSeq
  <2>7. /\ up \in Seq(Dirs) /\ Len(up) = n
        /\ \A i \in 1 .. n : up[i] = s[i]
    BY <1>1, <2>2, <2>3, <2>6, SubSeqProperties
  <2> QED
    BY <1>1, <2>3, <2>5, <2>7 DEF up
<1> QED
  BY <1>2, <1>3

(* The search for a configuration ends at the first directory that has one. *)
LEMMA FoundFile ==
  ASSUME NEW n \in Nat, NEW s, DOMAIN s = 1 .. n
  PROVE  /\ FirstConfig(s) = NoFile => \A i \in 1 .. n : ~HasConfig(s[i])
         /\ FirstConfig(s) # NoFile =>
               /\ FirstConfig(s) \in Files
               /\ \E i \in 1 .. n : s[i] = DirOf[FirstConfig(s)] /\ \A j \in 1 .. i - 1 : ~HasConfig(s[j])
<1> DEFINE found == {i \in DOMAIN s : HasConfig(s[i])}
           here == {f \in Files : DirOf[f] = s[Min(found)] /\ IsFile(f)}
<1>1. CASE found = {}
  BY <1>1 DEF FirstConfig
<1>2. CASE found # {}
  <2>1. Min(found) \in found /\ \A j \in found : Min(found) <= j
    BY <1>2, FirstOf
  <2>2. \E f \in here : f \in KonformToml \/ here \cap KonformToml = {}
    BY <2>1 DEF HasConfig
  <2>3. FirstConfig(s) \in here
    <3>1. FirstConfig(s) = CHOOSE f \in here : f \in KonformToml \/ here \cap KonformToml = {}
      BY <1>2 DEF FirstConfig
    <3> HIDE DEF here
    <3> QED
      BY <2>2, <3>1
  <2>4. \A j \in 1 .. Min(found) - 1 : ~HasConfig(s[j])
    <3> DEFINE m == Min(found)
    <3>1. m \in 1 .. n /\ \A j \in 1 .. n : HasConfig(s[j]) => m <= j
      BY <2>1
    <3> HIDE DEF m
    <3>2. \A j \in 1 .. m - 1 : ~HasConfig(s[j])
      BY <3>1
    <3> QED
      BY <3>2 DEF m
  <2>5. FirstConfig(s) \in Files /\ s[Min(found)] = DirOf[FirstConfig(s)] /\ NoFile \notin Files
    BY <2>3, TreeAssumption
  <2> QED
    BY <2>1, <2>4, <2>5
<1> QED
  BY <1>1, <1>2

(* A load that starts.                                                     *)
Begun(d, f) == [Idle EXCEPT !.pc = "read", !.start = d, !.file = f, !.chain = <<f>>]

LEMMA StartLoader ==
  ASSUME NEW d \in Dirs, NEW f \in Files
  PROVE  /\ IsLoader(Begun(d, f)) /\ Begun(d, f).pc = "read" /\ Begun(d, f).start = d
         /\ Begun(d, f).chain = <<f>> /\ Begun(d, f).calm = TRUE
<1> DEFINE x == Begun(d, f)
<1>1. /\ DOMAIN x = {"pc", "start", "file", "text", "ruff", "chain", "layers", "calm"}
      /\ x.pc = "read" /\ x.start = d /\ x.file = f /\ x.chain = <<f>> /\ x.layers = << >> /\ x.calm = TRUE
  BY DEF Begun, Idle
<1>2. << >> \in Seq(ToSet(<< >>)) /\ <<f>> \in Seq(Files) /\ <<f>> # << >> /\ IsInjective(<<f>>)
  BY DEF IsInjective
<1> HIDE DEF x
<1>3. IsLoader(x)
  BY <1>1, <1>2 DEF IsLoader
<1> QED
  BY <1>1, <1>3 DEF x

-----------------------------------------------------------------------------
(* What a rewrite may do to the file.                                      *)

LEMMA AlikeFacts ==
  ASSUME NEW f, NEW a, NEW b, NEW c
  PROVE  /\ Alike(f, a, a)
         /\ Alike(f, a, b) /\ Alike(f, b, c) => Alike(f, a, c)
BY DEF Alike

LEMMA EmptyIsCurrent ==
  ASSUME NEW pyproject \in BOOLEAN
  PROVE  ~Outdated(EmptyTable, pyproject) /\ IsDocument(EmptyTable)
<1>1. DOMAIN EmptyTable = {<< >>}
  BY DEF EmptyTable, Leaf
<1>2. /\ \A k : <<k>> # << >>
      /\ <<"tool", "konform">> # << >>
  OBVIOUS
<1>3. SUFFICES ASSUME HasKonform(EmptyTable, pyproject), NeedsMigration(KonformSection(EmptyTable, pyproject))
               PROVE  FALSE
  <2>1. << >> \in Seq(Keys) /\ Len(<< >>) = 0
    BY EmptySeq
  <2>2. IsDocument(EmptyTable)
    BY <1>1, <2>1 DEF IsDocument
  <2> QED
    BY <2>2 DEF Outdated
<1> DEFINE t == AtPath(EmptyTable, << >>)
<1>4. KonformPath(EmptyTable, pyproject) = << >>
  BY <1>1, <1>2, <1>3 DEF HasKonform, HasPath, KonformPath
<1>5. DOMAIN t = {<< >>}
  <2>1. \A q \in Under(EmptyTable, << >>) : Below(q, << >>) = << >>
    <3>1. Below(<< >>, << >>) = << >>
      BY SubSeqEmpty DEF Below, Rest
    <3> QED
      BY <1>1, <3>1 DEF Under
  <2>2. << >> \in Under(EmptyTable, << >>)
    BY <1>1, <1>3, <1>4 DEF Under, IsPrefix
  <2>3. DOMAIN t = {Below(q, << >>) : q \in Under(EmptyTable, << >>)}
    BY DEF AtPath
  <2> HIDE DEF t
  <2> QED
    BY <2>1, <2>2, <2>3
<1> HIDE DEF t
<1>6. ~DetectLintSection(t)
  BY <1>2, <1>5, Zenon DEF DetectLintSection, Has, HasPath
<1>7. ~DetectRuleTableRename(t)
  <2>1. Len(<< >>) = 0
    BY EmptySeq
  <2> QED
    BY <1>5, <2>1 DEF DetectRuleTableRename, RenamesTable
<1> QED
  BY <1>3, <1>4, <1>6, <1>7 DEF KonformSection, NeedsMigration, t

(* An outdated file is there, and the text it is rewritten with is a        *)
(* document that means the same.                                           *)
LEMMA MigratedAlike ==
  ASSUME NEW f \in Files, NEW c, IsContent(c), Outdated(c.doc, IsPyproject(f))
  PROVE  LET new == MigrateContent(c.doc, IsPyproject(f))
         IN  /\ c # EmptyFile /\ c.status # "absent"
             /\ IsDocument(new) /\ Alike(f, Toml(new), c)
<1> DEFINE py == IsPyproject(f)
           doc == c.doc
           new == MigrateContent(doc, py)
<1>1. py \in BOOLEAN
  BY DEF IsPyproject
<1>2. doc # EmptyTable
  BY <1>1, EmptyIsCurrent
<1>3. c = Toml(doc) /\ IsDocument(doc) /\ c # EmptyFile
  BY <1>2 DEF IsContent, Absent, Unreadable, Garbled, EmptyFile, Toml
<1> HIDE DEF py, doc
<1>4. Outdated(doc, py)
  BY DEF py, doc
<1>5. /\ IsDocument(new) /\ HasKonform(new, py)
      /\ Says(KonformSection(new, py)) = Says(KonformSection(doc, py))
      /\ ElsewhereIn(new, py) = ElsewhereIn(doc, py)
  BY <1>1, <1>3, <1>4, MigrateKeeps
<1> HIDE DEF new
<1>6. c.status = "toml" /\ Toml(new).status = "toml" /\ Toml(new).doc = new /\ c.doc = doc
  BY <1>3 DEF Toml
<1>7. SectionSays(f, Toml(new)) = SectionSays(f, c)
  <2>1. HasKonform(doc, py)
    BY <1>4 DEF Outdated
  <2>2. /\ SectionSays(f, Toml(new)) = Says(KonformSection(new, py))
        /\ SectionSays(f, c) = Says(KonformSection(doc, py))
    BY <1>5, <1>6, <2>1 DEF SectionSays, py
  <2> QED
    BY <1>5, <2>2
<1>8. Elsewhere(f, Toml(new)) = Elsewhere(f, c)
  BY <1>5, <1>6 DEF Elsewhere, ElsewhereIn, py
<1>9. IsDocument(new) /\ Alike(f, Toml(new), c)
  BY <1>5, <1>6, <1>7, <1>8 DEF Alike
<1> QED
  BY <1>3, <1>6, <1>9 DEF new, py, doc

-----------------------------------------------------------------------------
(* RewriteInv, step by step.                                               *)

(* One process moves on.                                                   *)
LEMMA OneMoves ==
  ASSUME Shapes, NEW l \in Loaders, NEW x, IsLoader(x), loader' = [loader EXCEPT ![l] = x]
  PROVE  /\ DOMAIN loader' = Loaders
         /\ loader'[l] = x
         /\ \A o \in Loaders \ {l} : loader'[o] = loader[o]
         /\ \A o \in Loaders : IsLoader(loader'[o])
<1>1. /\ DOMAIN loader' = Loaders /\ loader'[l] = x
      /\ \A o \in Loaders \ {l} : loader'[o] = loader[o]
  BY DEF Shapes
<1> QED
  BY <1>1 DEF Shapes

LEMMA OneResult ==
  ASSUME Shapes, NEW l \in Loaders, NEW me, NEW content, IsLoader(me), me.pc # "idle", Take(l, me, content)
  PROVE  DOMAIN result' = Loaders
<1>1. CASE Finished(l, me)
  BY <1>1 DEF Finished, Done, Shapes
<1>2. CASE GoesOn(l, me)
  BY <1>2 DEF GoesOn, Shapes
<1> QED
  BY <1>1, <1>2, TakeCases DEF IsLoader

(* A process that is not writing moves on and touches no file.             *)
LEMMA MovesOn ==
  ASSUME RewriteInv, NEW l \in Loaders, loader[l].pc # "write",
         NEW x, IsLoader(x), loader' = [loader EXCEPT ![l] = x], x.pc \in {"idle", "read"},
         DOMAIN result' = Loaders, UNCHANGED <<disk, wrote, spoiled>>
  PROVE  RewriteInv'
<1>1. /\ DOMAIN loader' = Loaders /\ loader'[l] = x
      /\ \A o \in Loaders \ {l} : loader'[o] = loader[o]
      /\ \A o \in Loaders : IsLoader(loader'[o])
  BY OneMoves DEF RewriteInv
<1>2. Shapes'
  BY <1>1 DEF RewriteInv, Shapes, IsContent
<1>3. ASSUME NEW f \in Files \ spoiled PROVE MeaningKept(f)'
  <2>1. MeaningKept(f)
    BY DEF RewriteInv
  <2>2. \A o \in Loaders : Writing(o, f) => Writing(o, f)'
    BY <1>1 DEF Writing
  <2>3. \A o \in Loaders : Rewriting(o)' => Rewriting(o) /\ loader'[o] = loader[o]
    BY <1>1 DEF Rewriting
  <2> QED
    BY <2>1, <2>2, <2>3 DEF MeaningKept, IsFile
<1> QED
  BY <1>2, <1>3 DEF RewriteInv

(* A load starts from a file.                                              *)
LEMMA FoundAbove ==
  ASSUME NEW d \in Dirs, FindConfigFile(d) # NoFile
  PROVE  FindConfigFile(d) \in Files
<1> DEFINE up == UpTo(Ancestors[d], GitDirs)
<1>1. up \in Seq(Dirs)
  BY UpToPoints, TreeAssumption
<1>2. Len(up) \in Nat /\ DOMAIN up = 1 .. Len(up)
  BY <1>1, LenProperties
<1> QED
  BY <1>2, FoundFile DEF FindConfigFile

LEMMA StartKeepsMeaning ==
  ASSUME RewriteInv, NEW l \in Loaders, NEW d \in Starts, Start(l, d)
  PROVE  RewriteInv'
<1>1. d \in Dirs /\ NoFile \notin Files
  BY TreeAssumption
<1> DEFINE f == FindConfigFile(d)
<1>2. CASE f = NoFile
  <2> DEFINE x == [Idle EXCEPT !.start = d]
  <2>1. IsLoader(x) /\ x.pc = "idle"
    BY IdleLoader
  <2>2. loader' = [loader EXCEPT ![l] = x] /\ loader[l].pc = "idle" /\ DOMAIN result' = Loaders
        /\ UNCHANGED <<disk, wrote, spoiled>>
    BY <1>2 DEF Start, RewriteInv, Shapes
  <2> HIDE DEF x
  <2> QED
    BY <2>1, <2>2, MovesOn
<1>3. CASE f # NoFile
  <2> DEFINE x == Begun(d, f)
  <2>1. f \in Files
    BY <1>1, <1>3, FoundAbove
  <2>2. loader' = [loader EXCEPT ![l] = x] /\ loader[l].pc = "idle" /\ DOMAIN result' = Loaders
        /\ UNCHANGED <<disk, wrote, spoiled>>
    BY <1>3 DEF Start, RewriteInv, Shapes, Begun
  <2> HIDE DEF f
  <2>3. IsLoader(x) /\ x.pc = "read"
    BY <1>1, <2>1, StartLoader
  <2> HIDE DEF x, f
  <2> QED
    BY <2>2, <2>3, MovesOn
<1> QED
  BY <1>2, <1>3

LEMMA ReadingLoader ==
  ASSUME NEW l, IsLoader(loader[l])
  PROVE  /\ IsLoader(Reading(l))
         /\ Reading(l).pc = loader[l].pc /\ Reading(l).start = loader[l].start
         /\ Reading(l).file = loader[l].file /\ Reading(l).chain = loader[l].chain
         /\ Reading(l).layers = loader[l].layers
         /\ Reading(l).calm <=> loader[l].calm /\ ~Torn(loader[l].file, l)
<1> DEFINE me == loader[l]
           x == Reading(l)
           calm == me.calm /\ ~Torn(me.file, l)
<1>1. calm \in BOOLEAN
  OBVIOUS
<1>2. x = [me EXCEPT !.calm = calm]
  BY DEF Reading
<1>3. DOMAIN me = {"pc", "start", "file", "text", "ruff", "chain", "layers", "calm"}
  BY DEF IsLoader
<1> HIDE DEF calm, x
<1>4. /\ DOMAIN x = DOMAIN me /\ x.pc = me.pc /\ x.start = me.start /\ x.file = me.file
      /\ x.text = me.text /\ x.chain = me.chain /\ x.layers = me.layers /\ x.calm = calm
  BY <1>2, <1>3
<1>5. IsLoader(x)
  BY <1>1, <1>3, <1>4 DEF IsLoader
<1>6. x.calm <=> (me.calm /\ ~Torn(me.file, l))
  BY <1>4 DEF calm
<1> QED
  BY <1>4, <1>5, <1>6 DEF x

LEMMA ReadCurrentKeepsMeaning ==
  ASSUME RewriteInv, NEW l \in Loaders, ReadCurrent(l)
  PROVE  RewriteInv'
<1>1. IsLoader(loader[l]) /\ loader[l].pc = "read"
  BY DEF RewriteInv, Shapes, ReadCurrent
<1>2. IsLoader(Reading(l)) /\ Reading(l).pc = "read"
  BY <1>1, ReadingLoader
<1>3. Take(l, Reading(l), disk[loader[l].file]) /\ UNCHANGED <<disk, wrote, spoiled>>
  BY DEF ReadCurrent
<1>4. PICK x : loader' = [loader EXCEPT ![l] = x] /\ IsLoader(x) /\ x.pc \in {"idle", "read"}
  BY <1>2, <1>3, TakeLoader
<1>5. DOMAIN result' = Loaders
  BY <1>2, <1>3, OneResult DEF RewriteInv
<1> QED
  BY <1>1, <1>3, <1>4, <1>5, MovesOn

LEMMA UseCopyKeepsMeaning ==
  ASSUME RewriteInv, NEW l \in Loaders, UseCopy(l)
  PROVE  RewriteInv'
<1>1. IsLoader(loader[l]) /\ loader[l].pc = "truncate"
  BY DEF RewriteInv, Shapes, UseCopy
<1>2. Take(l, loader[l], Toml(loader[l].text)) /\ UNCHANGED <<disk, wrote, spoiled>>
  BY DEF UseCopy
<1>3. PICK x : loader' = [loader EXCEPT ![l] = x] /\ IsLoader(x) /\ x.pc \in {"idle", "read"}
  BY <1>1, <1>2, TakeLoader
<1>4. DOMAIN result' = Loaders
  BY <1>1, <1>2, OneResult DEF RewriteInv
<1> QED
  BY <1>1, <1>2, <1>3, <1>4, MovesOn

LEMMA ReadOutdatedKeepsMeaning ==
  ASSUME RewriteInv, NEW l \in Loaders, ReadOutdated(l)
  PROVE  RewriteInv'
<1> DEFINE f == loader[l].file
           c == disk[f]
           new == MigrateContent(c.doc, IsPyproject(f))
           x == [Reading(l) EXCEPT !.pc = "truncate", !.text = new]
<1>1. IsLoader(loader[l]) /\ loader[l].pc = "read" /\ f \in Files /\ IsContent(c)
  BY DEF RewriteInv, Shapes, ReadOutdated, IsLoader
<1>2. Outdated(c.doc, IsPyproject(f)) /\ UNCHANGED <<disk, wrote, spoiled, result>>
  BY DEF ReadOutdated
<1>3. loader' = [loader EXCEPT ![l] = x]
  BY DEF ReadOutdated
<1>4. c # EmptyFile /\ IsFile(f) /\ IsDocument(new) /\ Alike(f, Toml(new), c)
  BY <1>1, <1>2, MigratedAlike DEF IsFile
<1> HIDE DEF new
<1>5. IsLoader(x) /\ x.pc = "truncate" /\ x.file = f /\ x.text = new
  <2> DEFINE me == Reading(l)
  <2>1. IsLoader(me) /\ me.pc = "read" /\ me.file = f
    BY <1>1, ReadingLoader
  <2> HIDE DEF me, f
  <2>2. DOMAIN me = {"pc", "start", "file", "text", "ruff", "chain", "layers", "calm"}
    BY <2>1 DEF IsLoader
  <2>3. /\ DOMAIN x = DOMAIN me /\ x.pc = "truncate" /\ x.start = me.start /\ x.file = me.file
        /\ x.text = new /\ x.chain = me.chain /\ x.layers = me.layers /\ x.calm = me.calm
    BY <2>2 DEF me
  <2> HIDE DEF x
  <2>4. IsLoader(x)
    BY <1>4, <2>1, <2>3 DEF IsLoader
  <2> QED
    BY <2>1, <2>3, <2>4
<1> HIDE DEF x
<1>6. /\ DOMAIN loader' = Loaders /\ loader'[l] = x
      /\ \A o \in Loaders \ {l} : loader'[o] = loader[o]
      /\ \A o \in Loaders : IsLoader(loader'[o])
  BY <1>3, <1>5, OneMoves DEF RewriteInv
<1>7. Shapes'
  BY <1>2, <1>6 DEF RewriteInv, Shapes, IsContent
<1>8. ASSUME NEW g \in Files \ spoiled PROVE MeaningKept(g)'
  <2>1. MeaningKept(g)
    BY DEF RewriteInv
  <2>2. \A o \in Loaders : Writing(o, g) => Writing(o, g)'
    BY <1>1, <1>6 DEF Writing
  <2>3. \A o \in Loaders \ {l} : Rewriting(o)' => Rewriting(o) /\ loader'[o] = loader[o]
    BY <1>6 DEF Rewriting
  <2>4. g = f => Alike(g, Toml(new), wrote[g]) /\ IsFile(g)
    BY <1>4, <2>1, AlikeFacts DEF MeaningKept
  <2>5. (\/ Alike(g, disk[g], wrote[g])
         \/ disk[g] = EmptyFile /\ \E o \in Loaders : Writing(o, g))'
    BY <1>2, <2>1, <2>2 DEF MeaningKept
  <2>6. ASSUME NEW o \in Loaders, Rewriting(o)', loader'[o].file = g
        PROVE  (Alike(g, Toml(loader[o].text), wrote[g]) /\ IsFile(g))'
    <3>1. CASE o = l
      BY <1>2, <1>5, <1>6, <2>4, <2>6, <3>1 DEF IsFile
    <3>2. CASE o # l
      BY <1>2, <2>1, <2>3, <2>6, <3>2 DEF MeaningKept, IsFile
    <3> QED
      BY <3>1, <3>2
  <2> QED
    BY <2>5, <2>6 DEF MeaningKept
<1> QED
  BY <1>2, <1>7, <1>8 DEF RewriteInv

LEMMA TruncateKeepsMeaning ==
  ASSUME RewriteInv, NEW l \in Loaders, Truncate(l)
  PROVE  RewriteInv'
<1> DEFINE f == loader[l].file
           x == [loader[l] EXCEPT !.pc = "write"]
<1>1. IsLoader(loader[l]) /\ loader[l].pc = "truncate" /\ f \in Files
  BY DEF RewriteInv, Shapes, Truncate, IsLoader
<1>2. /\ disk' = [disk EXCEPT ![f] = EmptyFile] /\ loader' = [loader EXCEPT ![l] = x]
      /\ UNCHANGED <<wrote, spoiled, result>>
  BY DEF Truncate
<1>3. IsLoader(x) /\ x.pc = "write" /\ x.file = f /\ x.text = loader[l].text
  <2>1. DOMAIN loader[l] = {"pc", "start", "file", "text", "ruff", "chain", "layers", "calm"}
    BY <1>1 DEF IsLoader
  <2>2. /\ DOMAIN x = DOMAIN loader[l] /\ x.pc = "write" /\ x.start = loader[l].start /\ x.file = f
        /\ x.text = loader[l].text /\ x.chain = loader[l].chain /\ x.layers = loader[l].layers
        /\ x.calm = loader[l].calm
    BY <2>1
  <2> HIDE DEF x
  <2>3. IsLoader(x)
    BY <1>1, <2>2 DEF IsLoader
  <2> QED
    BY <2>2, <2>3
<1> HIDE DEF x
<1>4. /\ DOMAIN loader' = Loaders /\ loader'[l] = x
      /\ \A o \in Loaders \ {l} : loader'[o] = loader[o]
      /\ \A o \in Loaders : IsLoader(loader'[o])
  BY <1>2, <1>3, OneMoves DEF RewriteInv
<1>5. /\ DOMAIN disk' = Files /\ disk'[f] = EmptyFile
      /\ \A g \in Files \ {f} : disk'[g] = disk[g]
  BY <1>1, <1>2 DEF RewriteInv, Shapes
<1>6. EmptyFile.status = "toml" /\ IsContent(EmptyFile)
  BY EmptyIsCurrent DEF EmptyFile, Toml, IsContent
<1>7. \A g \in Files : IsFile(g) => IsFile(g)'
  BY <1>5, <1>6 DEF IsFile
<1>8. Shapes'
  <2>1. \A g \in Files : IsContent(disk'[g])
    BY <1>5, <1>6 DEF RewriteInv, Shapes
  <2> QED
    BY <1>2, <1>4, <1>5, <2>1 DEF RewriteInv, Shapes
<1>9. ASSUME NEW g \in Files \ spoiled PROVE MeaningKept(g)'
  <2>1. MeaningKept(g)
    BY DEF RewriteInv
  <2>2. \A o \in Loaders : /\ Rewriting(o)' => Rewriting(o)
                           /\ loader'[o].file = loader[o].file /\ loader'[o].text = loader[o].text
                           /\ Writing(o, g) => Writing(o, g)'
    BY <1>1, <1>3, <1>4 DEF Rewriting, Writing
  <2>3. g = f => Writing(l, g)'
    BY <1>3, <1>4 DEF Writing
  <2>4. (\/ Alike(g, disk[g], wrote[g])
         \/ disk[g] = EmptyFile /\ \E o \in Loaders : Writing(o, g))'
    <3>1. CASE g = f
      BY <1>5, <2>3, <3>1
    <3>2. CASE g # f
      BY <1>2, <1>5, <2>1, <2>2, <3>2 DEF MeaningKept
    <3> QED
      BY <3>1, <3>2
  <2>5. \A o \in Loaders : Rewriting(o)' /\ loader'[o].file = g =>
           Alike(g, Toml(loader'[o].text), wrote'[g]) /\ IsFile(g)'
    BY <1>2, <1>7, <2>1, <2>2 DEF MeaningKept
  <2> QED
    BY <2>4, <2>5 DEF MeaningKept
<1> QED
  BY <1>2, <1>8, <1>9 DEF RewriteInv

LEMMA FillKeepsMeaning ==
  ASSUME RewriteInv, NEW l \in Loaders, Fill(l)
  PROVE  RewriteInv'
<1> DEFINE f == loader[l].file
           c == Toml(loader[l].text)
<1>1. IsLoader(loader[l]) /\ loader[l].pc = "write" /\ f \in Files
  BY DEF RewriteInv, Shapes, Fill, IsLoader
<1>2. /\ disk' = [disk EXCEPT ![f] = c] /\ Take(l, loader[l], c)
      /\ UNCHANGED <<wrote, spoiled>>
  BY DEF Fill
<1>3. PICK x : loader' = [loader EXCEPT ![l] = x] /\ IsLoader(x) /\ x.pc \in {"idle", "read"}
  BY <1>1, <1>2, TakeLoader
<1>4. DOMAIN result' = Loaders
  BY <1>1, <1>2, OneResult DEF RewriteInv
<1>5. /\ DOMAIN loader' = Loaders /\ loader'[l] = x
      /\ \A o \in Loaders \ {l} : loader'[o] = loader[o]
      /\ \A o \in Loaders : IsLoader(loader'[o])
  BY <1>3, OneMoves DEF RewriteInv
<1>6. c.status = "toml" /\ IsContent(c)
  BY <1>1 DEF Toml, IsContent, IsLoader
<1> HIDE DEF c
<1>7. /\ DOMAIN disk' = Files /\ disk'[f] = c
      /\ \A g \in Files \ {f} : disk'[g] = disk[g]
  BY <1>1, <1>2 DEF RewriteInv, Shapes
<1>8. \A g \in Files : IsFile(g) => IsFile(g)'
  BY <1>6, <1>7 DEF IsFile
<1>9. Shapes'
  <2>1. \A g \in Files : IsContent(disk'[g])
    BY <1>6, <1>7 DEF RewriteInv, Shapes
  <2> QED
    BY <1>2, <1>4, <1>5, <1>7, <2>1 DEF RewriteInv, Shapes
<1>10. ASSUME NEW g \in Files \ spoiled PROVE MeaningKept(g)'
  <2>1. MeaningKept(g)
    BY DEF RewriteInv
  <2>2. \A o \in Loaders : Rewriting(o)' => Rewriting(o) /\ loader'[o] = loader[o]
    BY <1>3, <1>5 DEF Rewriting
  <2>3. g # f => \A o \in Loaders : Writing(o, g) => Writing(o, g)'
    BY <1>5 DEF Writing
  <2>4. g = f => Alike(g, c, wrote[g])
    BY <1>1, <2>1 DEF MeaningKept, Rewriting, c
  <2>5. (\/ Alike(g, disk[g], wrote[g])
         \/ disk[g] = EmptyFile /\ \E o \in Loaders : Writing(o, g))'
    <3>1. CASE g = f
      BY <1>2, <1>7, <2>4, <3>1
    <3>2. CASE g # f
      BY <1>2, <1>7, <2>1, <2>3, <3>2 DEF MeaningKept
    <3> QED
      BY <3>1, <3>2
  <2>6. \A o \in Loaders : Rewriting(o)' /\ loader'[o].file = g =>
           Alike(g, Toml(loader'[o].text), wrote'[g]) /\ IsFile(g)'
    BY <1>2, <1>8, <2>1, <2>2 DEF MeaningKept
  <2> QED
    BY <2>5, <2>6 DEF MeaningKept
<1> QED
  BY <1>2, <1>9, <1>10 DEF RewriteInv

LEMMA CrashKeepsMeaning ==
  ASSUME RewriteInv, NEW l \in Loaders, Crash(l)
  PROVE  RewriteInv'
<1> DEFINE f == loader[l].file
<1>1. /\ loader[l].pc = "write" /\ spoiled' = spoiled \cup {f}
      /\ loader' = [loader EXCEPT ![l] = Idle] /\ UNCHANGED <<disk, wrote, result>>
  BY DEF Crash
<1>2. IsLoader(Idle) /\ Idle.pc = "idle"
  BY IdleLoader
<1>3. /\ DOMAIN loader' = Loaders /\ loader'[l] = Idle
      /\ \A o \in Loaders \ {l} : loader'[o] = loader[o]
      /\ \A o \in Loaders : IsLoader(loader'[o])
  BY <1>1, <1>2, OneMoves DEF RewriteInv
<1>4. Shapes'
  BY <1>1, <1>3 DEF RewriteInv, Shapes, IsContent
<1>5. ASSUME NEW g \in Files \ spoiled' PROVE MeaningKept(g)'
  <2>1. MeaningKept(g) /\ g # f
    BY <1>1 DEF RewriteInv
  <2>2. \A o \in Loaders : Rewriting(o)' => Rewriting(o) /\ loader'[o] = loader[o]
    BY <1>2, <1>3 DEF Rewriting
  <2>3. \A o \in Loaders : Writing(o, g) => Writing(o, g)'
    BY <1>3, <2>1 DEF Writing
  <2> QED
    BY <1>1, <2>1, <2>2, <2>3 DEF MeaningKept, IsFile
<1> QED
  BY <1>4, <1>5 DEF RewriteInv

LEMMA EditKeepsMeaning ==
  ASSUME RewriteInv, NEW f \in Files, NEW c \in Contents[f], Edit(f, c)
  PROVE  RewriteInv'
<1>1. /\ disk' = [disk EXCEPT ![f] = c] /\ wrote' = [wrote EXCEPT ![f] = c] /\ result' = result
      /\ spoiled' = IF \E l \in Loaders : loader[l].pc \in {"truncate", "write"} /\ loader[l].file = f
                    THEN spoiled \cup {f} ELSE spoiled \ {f}
  BY DEF Edit
<1>2. ASSUME NEW o \in Loaders
      PROVE  /\ IsLoader(loader'[o])
             /\ loader'[o].pc = loader[o].pc /\ loader'[o].file = loader[o].file
             /\ loader'[o].text = loader[o].text
  <2> DEFINE me == loader[o]
             x == [me EXCEPT !.calm = FALSE]
  <2>1. loader'[o] = IF me.pc = "idle" THEN me ELSE x
    BY DEF Edit
  <2>2. IsLoader(me) /\ DOMAIN me = {"pc", "start", "file", "text", "ruff", "chain", "layers", "calm"}
    BY DEF RewriteInv, Shapes, IsLoader
  <2>3. /\ DOMAIN x = DOMAIN me /\ x.pc = me.pc /\ x.start = me.start /\ x.file = me.file
        /\ x.text = me.text /\ x.chain = me.chain /\ x.layers = me.layers /\ x.calm = FALSE
    BY <2>2
  <2> HIDE DEF x
  <2>4. IsLoader(x)
    BY <2>2, <2>3 DEF IsLoader
  <2> QED
    BY <2>1, <2>2, <2>3, <2>4
<1>3. /\ DOMAIN disk' = Files /\ disk'[f] = c /\ \A g \in Files \ {f} : disk'[g] = disk[g]
      /\ DOMAIN wrote' = Files /\ wrote'[f] = c /\ \A g \in Files \ {f} : wrote'[g] = wrote[g]
  BY <1>1 DEF RewriteInv, Shapes
<1>4. Shapes'
  <2>1. \A g \in Files : IsContent(disk'[g])
    BY <1>3, ContentsAssumption DEF RewriteInv, Shapes
  <2>2. DOMAIN loader' = Loaders
    BY DEF Edit
  <2> QED
    BY <1>1, <1>2, <1>3, <2>1, <2>2 DEF RewriteInv, Shapes
<1>5. ASSUME NEW g \in Files \ spoiled' PROVE MeaningKept(g)'
  <2>1. \A o \in Loaders : /\ Rewriting(o)' <=> Rewriting(o)
                           /\ Writing(o, g) => Writing(o, g)'
    BY <1>2 DEF Rewriting, Writing
  <2>2. CASE g = f
    <3>1. \A o \in Loaders : ~(Rewriting(o) /\ loader[o].file = g)
      BY <1>1, <2>2 DEF Rewriting
    <3>2. Alike(g, disk'[g], wrote'[g])
      BY <1>3, <2>2, AlikeFacts
    <3> QED
      BY <1>2, <2>1, <3>1, <3>2 DEF MeaningKept
  <2>3. CASE g # f
    <3>1. MeaningKept(g)
      BY <1>1, <2>3 DEF RewriteInv
    <3>2. disk'[g] = disk[g] /\ wrote'[g] = wrote[g]
      BY <1>3, <2>3
    <3> QED
      BY <1>2, <2>1, <3>1, <3>2 DEF MeaningKept, IsFile
  <2> QED
    BY <2>2, <2>3
<1> QED
  BY <1>4, <1>5 DEF RewriteInv

LEMMA InitMeaning == Init => RewriteInv
<1> SUFFICES ASSUME Init PROVE RewriteInv
  OBVIOUS
<1>1. DOMAIN disk = Files /\ wrote = disk /\ \A f \in Files : IsContent(disk[f])
  BY ContentsAssumption DEF Init
<1>2. /\ DOMAIN loader = Loaders /\ DOMAIN result = Loaders
      /\ \A l \in Loaders : IsLoader(loader[l]) /\ loader[l].pc = "idle"
  BY IdleLoader DEF Init
<1>3. \A f \in Files : MeaningKept(f)
  BY <1>1, <1>2, AlikeFacts DEF MeaningKept, Rewriting
<1> QED
  BY <1>1, <1>2, <1>3 DEF RewriteInv, Shapes

LEMMA NextMeaning == RewriteInv /\ [Next]_vars => RewriteInv'
<1> SUFFICES ASSUME RewriteInv, [Next]_vars PROVE RewriteInv'
  OBVIOUS
<1>1. ASSUME NEW l \in Loaders, NEW d \in Starts, Start(l, d) PROVE RewriteInv'
  BY <1>1, StartKeepsMeaning
<1>2. ASSUME NEW l \in Loaders, ReadCurrent(l) PROVE RewriteInv'
  BY <1>2, ReadCurrentKeepsMeaning
<1>3. ASSUME NEW l \in Loaders, ReadOutdated(l) PROVE RewriteInv'
  BY <1>3, ReadOutdatedKeepsMeaning
<1>4. ASSUME NEW l \in Loaders, UseCopy(l) PROVE RewriteInv'
  BY <1>4, UseCopyKeepsMeaning
<1>5. ASSUME NEW l \in Loaders, Truncate(l) PROVE RewriteInv'
  BY <1>5, TruncateKeepsMeaning
<1>6. ASSUME NEW l \in Loaders, Fill(l) PROVE RewriteInv'
  BY <1>6, FillKeepsMeaning
<1>7. ASSUME NEW l \in Loaders, Crash(l) PROVE RewriteInv'
  BY <1>7, CrashKeepsMeaning
<1>8. ASSUME NEW f \in Files, NEW c \in Contents[f], Edit(f, c) PROVE RewriteInv'
  BY <1>8, EditKeepsMeaning
<1>9. CASE UNCHANGED vars
  <2>1. /\ disk' = disk /\ wrote' = wrote /\ spoiled' = spoiled /\ loader' = loader /\ result' = result
    BY <1>9 DEF vars
  <2>2. Shapes'
    BY <2>1 DEF RewriteInv, Shapes, IsContent
  <2>3. \A f \in Files \ spoiled : MeaningKept(f)'
    BY <2>1 DEF RewriteInv, MeaningKept, Rewriting, Writing, IsFile
  <2> QED
    BY <2>1, <2>2, <2>3 DEF RewriteInv
<1> QED
  BY <1>1, <1>2, <1>3, <1>4, <1>5, <1>6, <1>7, <1>8, <1>9 DEF Next, Work

(* Everything a file holds follows from what its user wrote in it, whoever  *)
(* rewrites it, for as long as no save and no kill cuts across a rewrite.   *)
THEOREM RewriteInvariant == Spec => []RewriteInv
<1>1. Init => RewriteInv
  BY InitMeaning
<1>2. RewriteInv /\ [Next]_vars => RewriteInv'
  BY NextMeaning
<1> QED
  BY <1>1, <1>2, PTL DEF Spec

(* A rewrite keeps every setting its user wrote, under today's name, and    *)
(* everything else in the file (read_migrated, the migrations).             *)
THEOREM RewriteKeepsWhatWasWritten == Spec => []RewriteKeepsMeaning
<1>1. RewriteInv => RewriteKeepsMeaning
  BY DEF RewriteInv, MeaningKept, RewriteKeepsMeaning, Writing, Alike
<1> QED
  BY <1>1, RewriteInvariant, PTL

-----------------------------------------------------------------------------
(* What a load finds by walking up.                                        *)

LEMMA UpToSet ==
  ASSUME NEW s \in Seq(Dirs), s # << >>, NEW ends, NEW i, Reached(s, ends, i)
  PROVE  s[i] \in ToSet(UpTo(s, ends))
<1> DEFINE up == UpTo(s, ends)
<1>1. PICK n \in DOMAIN s : /\ up \in Seq(Dirs) /\ Len(up) = n
                            /\ \A j \in 1 .. n : up[j] = s[j]
                            /\ n = Len(s) \/ s[n] \in ends
  BY UpToPoints
<1>2. Len(s) \in Nat /\ DOMAIN s = 1 .. Len(s) /\ DOMAIN up = 1 .. n
  BY <1>1, LenProperties
<1> HIDE DEF up
<1>3. i \in 1 .. n
  BY <1>1, <1>2 DEF Reached
<1>4. up[i] = s[i] /\ i \in DOMAIN up
  BY <1>1, <1>2, <1>3
<1>5. up[i] \in ToSet(up)
  BY <1>4 DEF ToSet
<1> QED
  BY <1>4, <1>5 DEF up

LEMMA AncestorsOf ==
  ASSUME NEW d \in Dirs
  PROVE  LET up == Ancestors[d]
         IN  /\ up \in Seq(Dirs) /\ up # << >> /\ up[1] = d
             /\ Len(up) \in Nat \ {0} /\ DOMAIN up = 1 .. Len(up)
             /\ \A i \in DOMAIN up :
                   LET above == Ancestors[up[i]]
                   IN  /\ up[i] \in Dirs /\ Len(above) = Len(up) - i + 1
                       /\ DOMAIN above = 1 .. Len(above)
                       /\ \A k \in 1 .. Len(above) : above[k] = up[i + k - 1]
<1> DEFINE up == Ancestors[d]
<1>1. up \in Seq(Dirs) /\ up # << >> /\ up[1] = d
  BY TreeAssumption
<1>2. Len(up) \in Nat \ {0} /\ DOMAIN up = 1 .. Len(up)
  BY <1>1, LenProperties, EmptySeq
<1>3. ASSUME NEW i \in DOMAIN up
      PROVE  LET above == Ancestors[up[i]]
             IN  /\ up[i] \in Dirs /\ Len(above) = Len(up) - i + 1
                 /\ DOMAIN above = 1 .. Len(above)
                 /\ \A k \in 1 .. Len(above) : above[k] = up[i + k - 1]
  <2> DEFINE above == Ancestors[up[i]]
  <2>1. above = SubSeq(up, i, Len(up))
    BY TreeAssumption
  <2>2. i \in 1 .. Len(up) /\ \A k \in i .. Len(up) : up[k] \in Dirs
    BY <1>1, <1>2, ElementOfSeq
  <2> HIDE DEF above, up
  <2>3. /\ above \in Seq(Dirs)
        /\ Len(above) = IF i <= Len(up) THEN Len(up) - i + 1 ELSE 0
        /\ \A k \in 1 .. Len(up) - i + 1 : above[k] = up[i + k - 1]
    BY <1>2, <2>1, <2>2, SubSeqProperties
  <2>4. DOMAIN above = 1 .. Len(above) /\ Len(above) = Len(up) - i + 1 /\ up[i] \in Dirs
    BY <1>2, <2>2, <2>3, LenProperties
  <2> QED
    BY <2>3, <2>4 DEF above
<1> QED
  BY <1>1, <1>2, <1>3

(* A project environment lies in the repository the load starts in.        *)
LEMMA VenvInside ==
  ASSUME NEW d \in Dirs, NEW i, Reached(Ancestors[d], GitDirs, i), NEW settings,
         ResolvePython(settings, Ancestors[d][i]).how = "venv"
  PROVE  ResolvePython(settings, Ancestors[d][i]).at \in ToSet(UpTo(Ancestors[d], GitDirs))
<1> DEFINE A == Ancestors[d]
           w == A[i]
           dirs == VenvSearchDirs(w)
           venvs == {k \in DOMAIN dirs : dirs[k] \in site.venv}
           above == Ancestors[w]
           up == UpTo(above, GitDirs)
<1>1. /\ A \in Seq(Dirs) /\ A # << >> /\ Len(A) \in Nat \ {0} /\ DOMAIN A = 1 .. Len(A)
      /\ i \in DOMAIN A /\ w \in Dirs
      /\ Len(above) = Len(A) - i + 1 /\ DOMAIN above = 1 .. Len(above)
      /\ \A k \in 1 .. Len(above) : above[k] = A[i + k - 1]
  BY AncestorsOf DEF Reached
<1>2. venvs # {} /\ ResolvePython(settings, w).at = dirs[Min(venvs)]
  BY DEF ResolvePython
<1>3. above \in Seq(Dirs) /\ above # << >>
  BY <1>1, AncestorsOf
<1>4. PICK n \in DOMAIN above : /\ up \in Seq(Dirs) /\ Len(up) = n
                                /\ \A k \in 1 .. n : up[k] = above[k]
                                /\ Reached(above, GitDirs, n)
  BY <1>3, UpToPoints
<1> HIDE DEF up, above, venvs, A
<1>5. DOMAIN up = 1 .. n
  BY <1>4, LenProperties
<1>6. ASSUME NEW k \in 1 .. n PROVE up[k] \in ToSet(UpTo(A, GitDirs))
  <2>1. i + k - 1 \in DOMAIN A /\ up[k] = A[i + k - 1]
    <3>1. n \in Nat /\ n <= Len(above) /\ Len(above) \in Nat
      BY <1>1, <1>4
    <3>2. k \in 1 .. Len(above)
      BY <3>1
    <3>3. up[k] = above[k] /\ above[k] = A[i + k - 1]
      BY <1>1, <1>4, <3>2
    <3>4. i + k - 1 \in 1 .. Len(A)
      BY <1>1, <3>2
    <3> QED
      BY <1>1, <3>3, <3>4
  <2>2. ASSUME NEW j \in 1 .. (i + k - 1) - 1 PROVE A[j] \notin GitDirs
    <3>1. CASE j <= i - 1
      BY <1>1, <3>1 DEF Reached, A
    <3>2. CASE j > i - 1
      <4>1. j - i + 1 \in 1 .. n - 1 /\ j - i + 1 \in 1 .. Len(above) /\ i + (j - i + 1) - 1 = j
        BY <1>1, <1>4, <3>2
      <4>2. above[j - i + 1] = A[i + (j - i + 1) - 1]
        BY <1>1, <4>1
      <4>3. above[j - i + 1] \notin GitDirs
        BY <1>4, <4>1 DEF Reached
      <4> QED
        BY <4>1, <4>2, <4>3
    <3> QED
      BY <1>1, <3>1, <3>2
  <2>3. Reached(A, GitDirs, i + k - 1)
    BY <2>1, <2>2 DEF Reached
  <2> QED
    BY <1>1, <2>1, <2>3, UpToSet
<1>7. \A k \in DOMAIN dirs : dirs[k] \in ToSet(UpTo(A, GitDirs))
  <2>1. CASE dirs = up
    BY <1>5, <1>6, <2>1
  <2>2. CASE dirs # up
    <3>1. dirs = <<w>>
      BY <2>2 DEF VenvSearchDirs, up, above
    <3>2. w \in ToSet(UpTo(A, GitDirs))
      BY <1>1, UpToSet DEF A
    <3> QED
      BY <3>1, <3>2
  <2> QED
    BY <2>1, <2>2
<1>8. DOMAIN dirs \in {1 .. n, 1 .. 1} /\ n \in Nat
  <2>1. dirs = up \/ dirs = <<w>>
    BY DEF VenvSearchDirs, up, above
  <2> QED
    BY <1>1, <1>4, <1>5, <2>1
<1>9. Min(venvs) \in DOMAIN dirs
  <2> DEFINE m == IF DOMAIN dirs = 1 .. n THEN n ELSE 1
  <2>1. m \in Nat /\ venvs \in SUBSET (1 .. m) /\ venvs \subseteq DOMAIN dirs
    BY <1>8 DEF venvs
  <2> HIDE DEF m, dirs
  <2> QED
    BY <1>2, <2>1, FirstOf
<1> QED
  BY <1>2, <1>7, <1>9 DEF A

(* The directory of the cache lies in it too, at the configuration or above *)
(* it.                                                                     *)
LEMMA RootInside ==
  ASSUME NEW d \in Dirs, NEW root \in FindRepoRoot(d)
  PROVE  /\ root \in ToSet(UpTo(Ancestors[d], GitDirs))
         /\ \A i : /\ Reached(Ancestors[d], GitDirs, i)
                   /\ \A j \in 1 .. i - 1 : ~HasConfig(Ancestors[d][j])
                   => root \in ToSet(Ancestors[Ancestors[d][i]])
<1> DEFINE A == Ancestors[d]
           up == UpTo(A, RootDirs)
<1>1. /\ A \in Seq(Dirs) /\ A # << >> /\ Len(A) \in Nat \ {0} /\ DOMAIN A = 1 .. Len(A)
  BY AncestorsOf
<1>2. PICK m \in DOMAIN A : /\ up \in Seq(Dirs) /\ Len(up) = m
                            /\ \A k \in 1 .. m : up[k] = A[k]
                            /\ Reached(A, RootDirs, m)
  BY <1>1, UpToPoints
<1>3. root = A[m] /\ A[m] \in RootDirs
  <2>1. root = Last(up) /\ Last(up) \in RootDirs
    BY DEF FindRepoRoot
  <2> HIDE DEF up, A
  <2>2. Last(up) = up[m]
    BY <1>2 DEF Last
  <2>3. up[m] = A[m]
    BY <1>1, <1>2
  <2> QED
    BY <2>1, <2>2, <2>3
<1> HIDE DEF up
<1>4. Reached(A, GitDirs, m)
  BY <1>2 DEF Reached, RootDirs
<1>5. root \in ToSet(UpTo(A, GitDirs))
  BY <1>1, <1>3, <1>4, UpToSet
<1>6. ASSUME NEW i, Reached(A, GitDirs, i), \A j \in 1 .. i - 1 : ~HasConfig(A[j])
      PROVE  root \in ToSet(Ancestors[A[i]])
  <2> DEFINE above == Ancestors[A[i]]
  <2>1. /\ i \in DOMAIN A
        /\ Len(above) = Len(A) - i + 1 /\ DOMAIN above = 1 .. Len(above)
        /\ \A k \in 1 .. Len(above) : above[k] = A[i + k - 1]
    BY <1>6, AncestorsOf DEF Reached
  <2>2. i <= m
    <3> SUFFICES ASSUME m \in 1 .. i - 1 PROVE FALSE
      BY <1>1, <2>1
    <3>1. A[m] \notin GitDirs /\ ~HasConfig(A[m])
      BY <1>6 DEF Reached
    <3> QED
      BY <1>3, <3>1 DEF RootDirs, HasConfig
  <2> HIDE DEF above, A
  <2>3. m - i + 1 \in 1 .. Len(above) /\ i + (m - i + 1) - 1 = m
    BY <1>1, <2>1, <2>2
  <2>4. above[m - i + 1] = A[m]
    BY <2>1, <2>3
  <2>5. root \in ToSet(above)
    BY <1>3, <2>1, <2>3, <2>4 DEF ToSet
  <2> QED
    BY <2>5 DEF above
<1> QED
  BY <1>5, <1>6

-----------------------------------------------------------------------------
(* BoundsInv, step by step.                                                *)

LEMMA ResultFields ==
  ASSUME NEW file, NEW extends, NEW errors, NEW settings, NEW src, NEW where, NEW me
  PROVE  LET r == Result(file, extends, errors, settings, src, where, me)
         IN  /\ r.file = file /\ r.extends = extends /\ r.calm = me.calm
             /\ r.python = ResolvePython(settings, where) /\ r.root = FindRepoRoot(me.start)
BY DEF Result

(* A load that is over has found everything in its repository.             *)
LEMMA FinishedInside ==
  ASSUME NEW me, me.start \in Dirs, NEW i,
         Reached(Ancestors[me.start], GitDirs, i),
         Ancestors[me.start][i] = DirOf[me.chain[1]],
         me.calm => \A j \in 1 .. i - 1 : ~HasConfig(Ancestors[me.start][j]),
         NEW extends, NEW errors, NEW settings, NEW src,
         NEW r, r = Result(me.chain[1], extends, errors, settings, src, DirOf[me.chain[1]], me), r.calm
  PROVE  InsideOf(me.start, r)
<1> DEFINE d == me.start
           A == Ancestors[d]
           inside == ToSet(UpTo(A, GitDirs))
<1>1. A \in Seq(Dirs) /\ A # << >>
  BY AncestorsOf
<1>2. /\ r.file = me.chain[1] /\ me.calm
      /\ r.python = ResolvePython(settings, A[i]) /\ r.root = FindRepoRoot(d)
  BY ResultFields
<1>3. A[i] \in inside
  BY <1>1, UpToSet
<1>4. r.python.how = "venv" => r.python.at \in inside
  BY <1>2, VenvInside
<1>5. \A root \in r.root : root \in inside /\ root \in ToSet(Ancestors[A[i]])
  BY <1>2, RootInside
<1> HIDE DEF inside
<1>6. DirOf[r.file] \in inside /\ r.root \subseteq inside /\ r.root \subseteq ToSet(Ancestors[DirOf[r.file]])
  BY <1>2, <1>3, <1>5
<1> QED
  BY <1>4, <1>6 DEF InsideOf, inside

(* A load that finds no configuration, likewise.                           *)
LEMMA NothingInside ==
  ASSUME NEW d \in Dirs
  PROVE  InsideOf(d, [NoResult EXCEPT !.python = ResolvePython(Defaults, d), !.root = FindRepoRoot(d)])
<1> DEFINE r == [NoResult EXCEPT !.python = ResolvePython(Defaults, d), !.root = FindRepoRoot(d)]
           A == Ancestors[d]
           inside == ToSet(UpTo(A, GitDirs))
<1>1. r.file = NoFile /\ r.python = ResolvePython(Defaults, d) /\ r.root = FindRepoRoot(d)
  BY DEF NoResult
<1>2. A[1] = d /\ 1 \in DOMAIN A
  BY AncestorsOf
<1>3. Reached(A, GitDirs, 1)
  BY <1>2 DEF Reached
<1>4. r.python.how = "venv" => r.python.at \in inside
  BY <1>1, <1>2, <1>3, VenvInside
<1>5. r.root \subseteq inside
  BY <1>1, RootInside
<1> HIDE DEF r, inside
<1>6. InsideOf(d, r)
  BY <1>1, <1>4, <1>5 DEF InsideOf, inside
<1> QED
  BY <1>6 DEF r

LEMMA NothingRepeats ==
  /\ ~Repeats(NoResult)
  /\ \A python, root : ~Repeats([NoResult EXCEPT !.python = python, !.root = root])
<1>1. <<NoFile>> \o << >> = <<NoFile>> /\ IsInjective(<<NoFile>>)
  <2>1. <<NoFile>> \in Seq({NoFile})
    OBVIOUS
  <2> QED
    BY <2>1, ConcatEmptySeq DEF IsInjective
<1>2. NoResult.file = NoFile /\ NoResult.extends = << >>
  BY DEF NoResult
<1>3. ASSUME NEW python, NEW root
      PROVE  /\ [NoResult EXCEPT !.python = python, !.root = root].file = NoFile
             /\ [NoResult EXCEPT !.python = python, !.root = root].extends = << >>
  BY DEF NoResult
<1> QED
  BY <1>1, <1>2, <1>3 DEF Repeats

(* The files of a result are those of the chain, or the first of them.     *)
LEMMA ChainRepeats ==
  ASSUME NEW chain \in Seq(Files), chain # << >>, IsInjective(chain), NEW extends \in {<< >>, Tail(chain)},
         NEW r, r.file = chain[1], r.extends = extends
  PROVE  ~Repeats(r)
<1>1. Len(chain) \in Nat \ {0} /\ 1 \in 1 .. Len(chain) /\ chain[1] \in Files
  BY LenProperties, EmptySeq, ElementOfSeq
<1>2. CASE extends = << >>
  <2>1. <<chain[1]>> \in Seq(Files) /\ IsInjective(<<chain[1]>>)
    BY <1>1 DEF IsInjective
  <2>2. <<chain[1]>> \o << >> = <<chain[1]>>
    BY <2>1, ConcatEmptySeq
  <2> QED
    BY <1>2, <2>1, <2>2 DEF Repeats
<1>3. CASE extends = Tail(chain)
  <2>1. Tail(chain) = SubSeq(chain, 2, Len(chain)) /\ SubSeq(chain, 1, Len(chain)) = chain
    BY TailIsSubSeq, SubSeqFull
  <2>2. SubSeq(chain, 1, Len(chain)) = <<chain[1]>> \o SubSeq(chain, 1 + 1, Len(chain))
    BY <1>1, SubSeqRecursiveFirst
  <2>3. 1 + 1 = 2
    OBVIOUS
  <2>4. <<chain[1]>> \o Tail(chain) = chain
    BY <2>1, <2>2, <2>3, Zenon
  <2> QED
    BY <1>3, <2>4, Zenon DEF Repeats
<1> QED
  BY <1>2, <1>3

(* A load under way stays as it is when no file appears that it might have  *)
(* found.                                                                  *)
LEMMA StaysUnderWay ==
  ASSUME Shapes, NEW o \in Loaders, UnderWay(o),
         result'[o] = result[o], site' = site,
         loader'[o].start = loader[o].start, loader'[o].chain[1] = loader[o].chain[1],
         Undisturbed(o)' => /\ Undisturbed(o)
                            /\ \A f \in Files : IsFile(f)' => IsFile(f)
                            /\ \A p \in Loaders : Rewriting(p)' => IsFile(loader[p].file)'
  PROVE  UnderWay(o)'
<1> DEFINE up == Ancestors[loader[o].start]
<1>1. PICK i \in DOMAIN up :
          /\ Reached(up, GitDirs, i) /\ up[i] = DirOf[loader[o].chain[1]]
          /\ Undisturbed(o) => \A j \in 1 .. i - 1 : ~HasConfig(up[j])
  BY DEF UnderWay
<1>2. GitDirs' = GitDirs
  BY DEF GitDirs
<1>3. Undisturbed(o)' => \A a : HasConfig(a)' => HasConfig(a)
  BY DEF HasConfig
<1>4. (Reached(Ancestors[loader[o].start], GitDirs, i))'
  BY <1>1, <1>2 DEF Reached
<1>5. Undisturbed(o)' => \A j \in 1 .. i - 1 : ~HasConfig(Ancestors[loader[o].start][j])'
  BY <1>1, <1>3
<1>6. i \in DOMAIN Ancestors[loader'[o].start]
      /\ Ancestors[loader'[o].start][i] = DirOf[loader'[o].chain[1]]
  BY <1>1
<1>7. result'[o] = NoResult
  BY DEF UnderWay
<1> QED
  BY <1>4, <1>5, <1>6, <1>7 DEF UnderWay

LEMMA StaysSettled ==
  ASSUME NEW o, Settled(o), result'[o] = result[o], loader'[o] = loader[o], site' = site
  PROVE  Settled(o)'
BY DEF Settled, InsideOf, GitDirs

(* A process takes in a text, without having noticed less than there was.  *)
LEMMA TakeKeepsBounds ==
  ASSUME RewriteInv, BoundsInv, NEW l \in Loaders, loader[l].pc # "idle",
         NEW me, IsLoader(me), me.pc # "idle", me.start = loader[l].start, me.chain = loader[l].chain,
         me.calm => Undisturbed(l),
         NEW content, Take(l, me, content), UNCHANGED <<site, spoiled>>,
         \A o \in Loaders : loader[o].pc # "idle" /\ Undisturbed(o) => \A f \in Files : IsFile(f)' => IsFile(f),
         \A f \in Files : IsFile(f) => IsFile(f)'
  PROVE  BoundsInv'
<1>1. UnderWay(l) /\ Shapes /\ IsLoader(loader[l])
  BY DEF BoundsInv, RewriteInv, Shapes
<1>2. me.start \in Dirs /\ me.chain \in Seq(Files) /\ me.chain # << >> /\ IsInjective(me.chain)
  BY DEF IsLoader
<1>3. PICK x : /\ loader' = [loader EXCEPT ![l] = x] /\ IsLoader(x) /\ x.pc \in {"idle", "read"}
               /\ x.start = me.start
               /\ x.pc = "read" => x.calm = me.calm
  BY TakeLoader
<1>4. /\ loader'[l] = x
      /\ \A o \in Loaders \ {l} : loader'[o] = loader[o]
      /\ \A o \in Loaders : Rewriting(o)' => Rewriting(o) /\ loader'[o] = loader[o]
  <2>1. loader'[l] = x /\ \A o \in Loaders \ {l} : loader'[o] = loader[o]
    BY <1>1, <1>3, OneMoves
  <2> QED
    BY <1>3, <2>1 DEF Rewriting
<1>5. ASSUME NEW o \in Loaders, UnderWay(o), loader[o].pc # "idle", Undisturbed(o)
      PROVE  \A p \in Loaders : Rewriting(p)' => IsFile(loader[p].file)'
  <2>1. \A p \in Loaders : Rewriting(p) => loader[p].file \in Files /\ IsFile(loader[p].file)
    BY <1>1, <1>5 DEF UnderWay, Shapes, IsLoader, Rewriting
  <2>2. \A p \in Loaders : Rewriting(p)' => loader'[p].file \in Files /\ IsFile(loader'[p].file)
    BY <1>4, <2>1
  <2> QED
    BY <2>2 DEF IsFile
<1>6. ASSUME NEW o \in Loaders \ {l}, result'[o] = result[o]
      PROVE  /\ loader'[o].pc # "idle" => UnderWay(o)'
             /\ Settled(o)' /\ ~Repeats(result'[o])
  <2>1. loader'[o] = loader[o]
    BY <1>4
  <2>2. ASSUME loader[o].pc # "idle" PROVE UnderWay(o)'
    <3>1. UnderWay(o)
      BY <2>2 DEF BoundsInv
    <3>2. Undisturbed(o)' => Undisturbed(o)
      BY <2>1 DEF Undisturbed, Rewriting
    <3> QED
      BY <1>1, <1>5, <1>6, <2>1, <2>2, <3>1, <3>2, StaysUnderWay
  <2>3. Settled(o) /\ ~Repeats(result[o]) /\ site' = site
    BY DEF BoundsInv
  <2>4. Settled(o)'
    BY <1>6, <2>1, <2>3, StaysSettled, Zenon
  <2> QED
    BY <1>6, <2>1, <2>2, <2>3, <2>4
<1>7. CASE Finished(l, me)
  <2>1. PICK extends, errors, settings, src :
           /\ extends \in {<< >>, Tail(me.chain)}
           /\ Done(l, me, Result(me.chain[1], extends, errors, settings, src, DirOf[me.chain[1]], me))
    BY <1>7 DEF Finished
  <2> DEFINE r == Result(me.chain[1], extends, errors, settings, src, DirOf[me.chain[1]], me)
  <2>2. r.file = me.chain[1] /\ r.extends = extends /\ r.calm = me.calm
    BY ResultFields
  <2>3. PICK i : /\ Reached(Ancestors[me.start], GitDirs, i)
                 /\ Ancestors[me.start][i] = DirOf[me.chain[1]]
                 /\ me.calm => \A j \in 1 .. i - 1 : ~HasConfig(Ancestors[me.start][j])
    BY <1>1 DEF UnderWay
  <2>4. r.calm => InsideOf(me.start, r)
    BY <1>2, <2>3, FinishedInside
  <2>5. ~Repeats(r)
    BY <1>2, <2>1, <2>2, ChainRepeats
  <2>6. /\ result' = [result EXCEPT ![l] = r] /\ loader'[l] = [Idle EXCEPT !.start = me.start]
    BY <1>1, <2>1 DEF Done, Shapes
  <2> HIDE DEF r
  <2>7. result'[l] = r /\ \A o \in Loaders \ {l} : result'[o] = result[o]
    BY <1>1, <2>6 DEF Shapes
  <2>8. loader'[l].pc = "idle" /\ loader'[l].start = me.start
    BY <2>6, IdleLoader
  <2>9. Settled(l)'
    BY <2>4, <2>7, <2>8 DEF Settled, InsideOf, GitDirs
  <2> QED
    BY <1>6, <2>5, <2>7, <2>8, <2>9 DEF BoundsInv
<1>8. CASE GoesOn(l, me)
  <2>1. PICK target, ruff, layer :
          /\ target \in Files
          /\ target \notin ToSet(me.chain)
          /\ loader' = [loader EXCEPT ![l] =
                 [me EXCEPT !.pc = "read", !.file = target, !.ruff = ruff,
                            !.layers = Append(me.layers, layer), !.chain = Append(me.chain, target)]]
    BY <1>8, Zenon DEF GoesOn
  <2>2. result' = result
    BY <1>8 DEF GoesOn
  <2>3. x.pc = "read" /\ x.chain = Append(me.chain, target)
    <3> DEFINE y == [me EXCEPT !.pc = "read", !.file = target, !.ruff = ruff,
                               !.layers = Append(me.layers, layer), !.chain = Append(me.chain, target)]
    <3>1. y.pc = "read" /\ y.chain = Append(me.chain, target)
      BY DEF IsLoader
    <3> HIDE DEF y
    <3>2. x = y
      BY <1>1, <1>4, <2>1 DEF Shapes, y
    <3> QED
      BY <3>1, <3>2
  <2>4. x.chain[1] = me.chain[1]
    BY <1>2, <2>1, <2>3, ChainGrows
  <2>5. Undisturbed(l)' => Undisturbed(l)
    BY <1>3, <1>4, <2>3 DEF Undisturbed, Rewriting
  <2>6. UnderWay(l)'
    BY <1>1, <1>3, <1>4, <1>5, <2>2, <2>4, <2>5, StaysUnderWay
  <2>7. Settled(l)'
    BY <1>4, <2>3 DEF Settled
  <2> QED
    BY <1>6, <2>2, <2>6, <2>7 DEF BoundsInv
<1> QED
  BY <1>7, <1>8, TakeCases DEF IsLoader

(* The text a load works on is that of a file that is there.               *)
LEMMA RewritesThere ==
  ASSUME RewriteInv, spoiled = {}
  PROVE  \A o \in Loaders : Rewriting(o) => IsFile(loader[o].file)
BY DEF RewriteInv, Shapes, IsLoader, MeaningKept, Rewriting

LEMMA TornMeans ==
  ASSUME NEW l \in Loaders, NEW f, ~Torn(f, l)
  PROVE  spoiled = {}
BY DEF Torn

LEMMA ReadCurrentKeepsBounds ==
  ASSUME RewriteInv, BoundsInv, NEW l \in Loaders, ReadCurrent(l)
  PROVE  BoundsInv'
<1> DEFINE me == Reading(l)
<1>1. IsLoader(loader[l]) /\ loader[l].pc = "read"
  BY DEF RewriteInv, Shapes, ReadCurrent
<1>2. /\ IsLoader(me) /\ me.pc = "read" /\ me.start = loader[l].start /\ me.chain = loader[l].chain
      /\ me.calm => loader[l].calm /\ ~Torn(loader[l].file, l)
  BY <1>1, ReadingLoader
<1>3. Take(l, me, disk[loader[l].file]) /\ UNCHANGED <<site, disk, spoiled>>
  BY DEF ReadCurrent
<1>4. me.calm => Undisturbed(l)
  BY <1>2, TornMeans DEF Undisturbed
<1>5. \A f \in Files : IsFile(f)' <=> IsFile(f)
  BY <1>3 DEF IsFile
<1> HIDE DEF me
<1> QED
  BY <1>1, <1>2, <1>3, <1>4, <1>5, TakeKeepsBounds

LEMMA UseCopyKeepsBounds ==
  ASSUME RewriteInv, BoundsInv, NEW l \in Loaders, UseCopy(l)
  PROVE  BoundsInv'
<1>1. IsLoader(loader[l]) /\ loader[l].pc = "truncate"
  BY DEF RewriteInv, Shapes, UseCopy
<1>2. Take(l, loader[l], Toml(loader[l].text)) /\ UNCHANGED <<site, disk, spoiled>>
  BY DEF UseCopy
<1>3. loader[l].calm => Undisturbed(l)
  BY <1>1 DEF Undisturbed, Rewriting
<1>4. \A f \in Files : IsFile(f)' <=> IsFile(f)
  BY <1>2 DEF IsFile
<1> QED
  BY <1>1, <1>2, <1>3, <1>4, TakeKeepsBounds

LEMMA FillKeepsBounds ==
  ASSUME RewriteInv, BoundsInv, NEW l \in Loaders, Fill(l)
  PROVE  BoundsInv'
<1> DEFINE f == loader[l].file
           c == Toml(loader[l].text)
<1>1. IsLoader(loader[l]) /\ loader[l].pc = "write" /\ f \in Files
  BY DEF RewriteInv, Shapes, Fill, IsLoader
<1>2. Take(l, loader[l], c) /\ UNCHANGED <<site, spoiled>>
  BY DEF Fill
<1>3. loader[l].calm => Undisturbed(l)
  BY <1>1 DEF Undisturbed, Rewriting
<1>4. c.status = "toml"
  BY DEF Toml
<1> HIDE DEF c
<1>5. disk'[f] = c /\ \A g \in Files \ {f} : disk'[g] = disk[g]
  BY <1>1 DEF Fill, RewriteInv, Shapes, c
<1>6. \A g \in Files : IsFile(g) => IsFile(g)'
  BY <1>4, <1>5 DEF IsFile
<1>7. ASSUME NEW o \in Loaders, loader[o].pc # "idle", Undisturbed(o)
      PROVE  \A g \in Files : IsFile(g)' => IsFile(g)
  <2>1. IsFile(f)
    BY <1>1, <1>7 DEF BoundsInv, UnderWay, Rewriting
  <2> QED
    BY <1>5, <2>1 DEF IsFile
<1> QED
  BY <1>1, <1>2, <1>3, <1>6, <1>7, TakeKeepsBounds

(* The other steps give no result.                                         *)
LEMMA StepKeepsBounds ==
  ASSUME RewriteInv, BoundsInv, UNCHANGED <<site, result>>,
         \A o \in Loaders : /\ loader'[o].pc = "idle" => result[o] = NoResult \/ loader'[o] = loader[o]
                            /\ loader'[o].pc # "idle" =>
                                  /\ loader[o].pc # "idle" /\ loader'[o].start = loader[o].start
                                  /\ loader'[o].chain = loader[o].chain
                            /\ loader'[o].pc # "idle" /\ Undisturbed(o)' =>
                                  /\ Undisturbed(o)
                                  /\ \A f \in Files : IsFile(f)' => IsFile(f)
                                  /\ \A p \in Loaders : Rewriting(p)' => IsFile(loader[p].file)'
  PROVE  BoundsInv'
<1> SUFFICES ASSUME NEW o \in Loaders
             PROVE  /\ loader'[o].pc # "idle" => UnderWay(o)'
                    /\ Settled(o)'
  BY DEF BoundsInv
<1>1. ASSUME loader'[o].pc # "idle" PROVE UnderWay(o)'
  BY <1>1, StaysUnderWay DEF BoundsInv, RewriteInv
<1>2. ASSUME loader'[o].pc = "idle" PROVE Settled(o)'
  <2>1. CASE loader'[o] = loader[o]
    BY <2>1, StaysSettled DEF BoundsInv
  <2>2. CASE result[o] = NoResult
    <3>1. \A d : InsideOf(d, NoResult)'
      BY DEF InsideOf, NoResult
    <3>2. result'[o] = NoResult
      BY <2>2
    <3> QED
      BY <3>1, <3>2 DEF Settled
  <2> QED
    BY <1>2, <2>1, <2>2
<1>3. Settled(o)'
  BY <1>2 DEF Settled
<1> QED
  BY <1>1, <1>3

LEMMA ReadOutdatedKeepsBounds ==
  ASSUME RewriteInv, BoundsInv, NEW l \in Loaders, ReadOutdated(l)
  PROVE  BoundsInv'
<1> DEFINE f == loader[l].file
           c == disk[f]
           new == MigrateContent(c.doc, IsPyproject(f))
           x == [Reading(l) EXCEPT !.pc = "truncate", !.text = new]
<1>1. IsLoader(loader[l]) /\ loader[l].pc = "read" /\ f \in Files /\ IsContent(c)
  BY DEF RewriteInv, Shapes, ReadOutdated, IsLoader
<1>2. Outdated(c.doc, IsPyproject(f)) /\ UNCHANGED <<site, disk, spoiled, result>>
  BY DEF ReadOutdated
<1>3. loader' = [loader EXCEPT ![l] = x]
  BY DEF ReadOutdated
<1>4. IsFile(f)
  BY <1>1, <1>2, MigratedAlike DEF IsFile
<1>5. /\ x.pc = "truncate" /\ x.start = loader[l].start /\ x.chain = loader[l].chain /\ x.file = f
      /\ x.calm => loader[l].calm /\ spoiled = {}
  <2> DEFINE me == Reading(l)
  <2>1. /\ IsLoader(me) /\ me.start = loader[l].start /\ me.chain = loader[l].chain /\ me.file = f
        /\ me.calm => loader[l].calm /\ ~Torn(f, l)
    BY <1>1, ReadingLoader
  <2> HIDE DEF me, f, new
  <2>2. DOMAIN me = {"pc", "start", "file", "text", "ruff", "chain", "layers", "calm"}
    BY <2>1 DEF IsLoader
  <2>3. x.pc = "truncate" /\ x.start = me.start /\ x.file = me.file /\ x.chain = me.chain /\ x.calm = me.calm
    BY <2>2 DEF me
  <2>4. me.calm => spoiled = {}
    BY <2>1, TornMeans
  <2> HIDE DEF x
  <2> QED
    BY <2>1, <2>3, <2>4
<1> HIDE DEF x, new
<1>6. loader'[l] = x /\ \A o \in Loaders \ {l} : loader'[o] = loader[o]
  BY <1>3 DEF RewriteInv, Shapes
<1>7. \A g \in Files : IsFile(g)' <=> IsFile(g)
  BY <1>2 DEF IsFile
<1>8. ASSUME NEW o \in Loaders, loader'[o].pc # "idle", Undisturbed(o)'
      PROVE  Undisturbed(o) /\ \A p \in Loaders : Rewriting(p)' => IsFile(loader[p].file)'
  <2>1. Undisturbed(o) /\ loader[o].pc # "idle" /\ (o = l => spoiled = {})
    BY <1>1, <1>2, <1>5, <1>6, <1>8 DEF Undisturbed, Rewriting
  <2>2. \A p \in Loaders : Rewriting(p) => IsFile(loader[p].file)
    BY <2>1 DEF BoundsInv, UnderWay
  <2>3. \A p \in Loaders : Rewriting(p)' => IsFile(loader'[p].file)
    BY <1>4, <1>5, <1>6, <2>2 DEF Rewriting
  <2>4. \A p \in Loaders : IsFile(loader'[p].file) => IsFile(loader[p].file)'
    BY <1>2 DEF IsFile
  <2> QED
    BY <2>1, <2>3, <2>4
<1>9. \A o \in Loaders : /\ loader'[o].pc = "idle" => loader'[o] = loader[o]
                         /\ loader'[o].pc # "idle" =>
                               /\ loader[o].pc # "idle" /\ loader'[o].start = loader[o].start
                               /\ loader'[o].chain = loader[o].chain
  BY <1>1, <1>5, <1>6
<1> QED
  BY <1>2, <1>7, <1>8, <1>9, StepKeepsBounds

LEMMA TruncateKeepsBounds ==
  ASSUME RewriteInv, BoundsInv, NEW l \in Loaders, Truncate(l)
  PROVE  BoundsInv'
<1> DEFINE f == loader[l].file
           x == [loader[l] EXCEPT !.pc = "write"]
<1>1. IsLoader(loader[l]) /\ loader[l].pc = "truncate" /\ f \in Files
  BY DEF RewriteInv, Shapes, Truncate, IsLoader
<1>2. loader' = [loader EXCEPT ![l] = x] /\ UNCHANGED <<site, spoiled, result>>
  BY DEF Truncate
<1>3. x.pc = "write" /\ x.start = loader[l].start /\ x.chain = loader[l].chain /\ x.file = f
      /\ x.calm = loader[l].calm
  BY <1>1 DEF IsLoader
<1> HIDE DEF x
<1>4. loader'[l] = x /\ \A o \in Loaders \ {l} : loader'[o] = loader[o]
  BY <1>2 DEF RewriteInv, Shapes
<1>5. disk'[f] = EmptyFile /\ \A g \in Files \ {f} : disk'[g] = disk[g]
  BY <1>1 DEF Truncate, RewriteInv, Shapes
<1>6. EmptyFile.status = "toml"
  BY DEF EmptyFile, Toml
<1>7. \A g \in Files : IsFile(g) => disk'[g].status # "absent"
  BY <1>5, <1>6 DEF IsFile
<1>8. ASSUME NEW o \in Loaders, loader'[o].pc # "idle", Undisturbed(o)'
      PROVE  /\ Undisturbed(o)
             /\ \A g \in Files : IsFile(g)' => IsFile(g)
             /\ \A p \in Loaders : Rewriting(p)' => IsFile(loader[p].file)'
  <2>1. Undisturbed(o) /\ loader[o].pc # "idle"
    BY <1>1, <1>2, <1>3, <1>4, <1>8 DEF Undisturbed, Rewriting
  <2>2. \A p \in Loaders : Rewriting(p) => loader[p].file \in Files /\ IsFile(loader[p].file)
    BY <2>1 DEF BoundsInv, UnderWay, RewriteInv, Shapes, IsLoader, Rewriting
  <2>3. \A g \in Files : IsFile(g)' => IsFile(g)
    BY <1>1, <1>5, <2>2 DEF IsFile, Rewriting
  <2>4. \A p \in Loaders : Rewriting(p)' =>
           loader'[p].file \in Files /\ disk'[loader'[p].file].status # "absent"
    BY <1>1, <1>3, <1>4, <1>7, <2>2 DEF Rewriting
  <2> QED
    BY <2>1, <2>3, <2>4 DEF IsFile
<1>9. \A o \in Loaders : /\ loader'[o].pc = "idle" => loader'[o] = loader[o]
                         /\ loader'[o].pc # "idle" =>
                               /\ loader[o].pc # "idle" /\ loader'[o].start = loader[o].start
                               /\ loader'[o].chain = loader[o].chain
  BY <1>1, <1>3, <1>4
<1> QED
  BY <1>2, <1>8, <1>9, StepKeepsBounds

LEMMA CrashKeepsBounds ==
  ASSUME RewriteInv, BoundsInv, NEW l \in Loaders, Crash(l)
  PROVE  BoundsInv'
<1>1. /\ loader[l].pc = "write" /\ UNCHANGED <<site, disk, result>>
      /\ \A o \in Loaders : Undisturbed(o)' /\ loader'[o] = loader[o] => Undisturbed(o)
  BY DEF Crash, Undisturbed, Rewriting
<1>2. loader'[l].pc = "idle" /\ \A o \in Loaders \ {l} : loader'[o] = loader[o]
  BY IdleLoader DEF Crash, RewriteInv, Shapes
<1>3. result[l] = NoResult
  BY <1>1 DEF BoundsInv, UnderWay
<1>4. ASSUME NEW o \in Loaders, loader'[o].pc # "idle", Undisturbed(o)'
      PROVE  /\ Undisturbed(o)
             /\ \A g \in Files : IsFile(g)' => IsFile(g)
             /\ \A p \in Loaders : Rewriting(p)' => IsFile(loader[p].file)'
  <2>1. Undisturbed(o) /\ loader[o].pc # "idle"
    BY <1>1, <1>2, <1>4
  <2>2. \A p \in Loaders : Rewriting(p) => IsFile(loader[p].file)
    BY <2>1 DEF BoundsInv, UnderWay
  <2>3. \A p \in Loaders : Rewriting(p)' => Rewriting(p) /\ loader'[p] = loader[p]
    BY <1>2 DEF Rewriting
  <2> QED
    BY <1>1, <2>1, <2>2, <2>3 DEF IsFile
<1>5. \A o \in Loaders : /\ loader'[o].pc = "idle" => result[o] = NoResult \/ loader'[o] = loader[o]
                         /\ loader'[o].pc # "idle" =>
                               /\ loader[o].pc # "idle" /\ loader'[o].start = loader[o].start
                               /\ loader'[o].chain = loader[o].chain
  BY <1>2, <1>3
<1> QED
  BY <1>1, <1>4, <1>5, StepKeepsBounds

LEMMA EditKeepsBounds ==
  ASSUME RewriteInv, BoundsInv, NEW f \in Files, NEW c \in Contents[f], Edit(f, c)
  PROVE  BoundsInv'
<1>1. ASSUME NEW o \in Loaders
      PROVE  /\ loader[o].pc = "idle" => loader'[o] = loader[o]
             /\ loader[o].pc # "idle" =>
                   /\ loader'[o].pc = loader[o].pc /\ loader'[o].start = loader[o].start
                   /\ loader'[o].chain = loader[o].chain /\ loader'[o].calm = FALSE
  <2> DEFINE me == loader[o]
             x == [me EXCEPT !.calm = FALSE]
  <2>1. loader'[o] = IF me.pc = "idle" THEN me ELSE x
    BY DEF Edit
  <2>2. DOMAIN me = {"pc", "start", "file", "text", "ruff", "chain", "layers", "calm"}
    BY DEF RewriteInv, Shapes, IsLoader
  <2>3. x.pc = me.pc /\ x.start = me.start /\ x.chain = me.chain /\ x.calm = FALSE
    BY <2>2
  <2> HIDE DEF x
  <2> QED
    BY <2>1, <2>3
<1>2. \A o \in Loaders : loader'[o].pc # "idle" => ~Undisturbed(o)'
  BY <1>1 DEF Undisturbed
<1>3. UNCHANGED <<site, result>>
  BY DEF Edit
<1>4. \A o \in Loaders : /\ loader'[o].pc = "idle" => loader'[o] = loader[o]
                         /\ loader'[o].pc # "idle" =>
                               /\ loader[o].pc # "idle" /\ loader'[o].start = loader[o].start
                               /\ loader'[o].chain = loader[o].chain
  BY <1>1
<1> QED
  BY <1>2, <1>3, <1>4, StepKeepsBounds

LEMMA StartKeepsBounds ==
  ASSUME RewriteInv, BoundsInv, NEW l \in Loaders, NEW d \in Starts, Start(l, d)
  PROVE  BoundsInv'
<1> DEFINE f == FindConfigFile(d)
           A == Ancestors[d]
           up == UpTo(A, GitDirs)
<1>1. d \in Dirs /\ NoFile \notin Files /\ UNCHANGED <<site, disk, spoiled>> /\ Shapes
      /\ loader[l].pc = "idle"
  BY TreeAssumption DEF Start, RewriteInv
<1>2. ASSUME NEW x, loader' = [loader EXCEPT ![l] = x], x.pc \in {"idle", "read"},
             NEW r, result' = [result EXCEPT ![l] = r]
      PROVE  /\ loader'[l] = x /\ result'[l] = r
             /\ \A o \in Loaders : Rewriting(o)' => Rewriting(o) /\ loader'[o] = loader[o]
             /\ \A o \in Loaders \ {l} : /\ loader'[o].pc # "idle" => UnderWay(o)'
                                         /\ Settled(o)' /\ ~Repeats(result'[o])
  <2>1. loader'[l] = x /\ result'[l] = r
        /\ \A o \in Loaders \ {l} : loader'[o] = loader[o] /\ result'[o] = result[o]
    BY <1>1, <1>2 DEF Shapes
  <2>2. \A o \in Loaders : Rewriting(o)' => Rewriting(o) /\ loader'[o] = loader[o]
    BY <1>2, <2>1 DEF Rewriting
  <2>3. ASSUME NEW o \in Loaders \ {l}
        PROVE  /\ loader'[o].pc # "idle" => UnderWay(o)'
               /\ Settled(o)' /\ ~Repeats(result'[o])
    <3>1. loader'[o] = loader[o] /\ result'[o] = result[o] /\ site' = site
      BY <1>1, <2>1
    <3>2. Undisturbed(o)' => Undisturbed(o)
      BY <1>1, <3>1 DEF Undisturbed, Rewriting
    <3>3. ASSUME loader[o].pc # "idle" PROVE UnderWay(o)'
      <4>1. UnderWay(o)
        BY <3>3 DEF BoundsInv
      <4>2. Undisturbed(o) => \A p \in Loaders : Rewriting(p)' => IsFile(loader[p].file)'
        BY <1>1, <2>2, <4>1 DEF UnderWay, IsFile
      <4>3. \A g \in Files : IsFile(g)' <=> IsFile(g)
        BY <1>1 DEF IsFile
      <4> QED
        BY <1>1, <3>1, <3>2, <4>1, <4>2, <4>3, StaysUnderWay
    <3>4. Settled(o) /\ ~Repeats(result[o])
      BY DEF BoundsInv
    <3>5. Settled(o)'
      BY <3>1, <3>4, StaysSettled
    <3> QED
      BY <3>1, <3>3, <3>4, <3>5
  <2> QED
    BY <2>1, <2>2, <2>3
<1>3. A \in Seq(Dirs) /\ A # << >> /\ DOMAIN A = 1 .. Len(A) /\ Len(A) \in Nat
  BY <1>1, AncestorsOf
<1>4. CASE f = NoFile
  <2> DEFINE x == [Idle EXCEPT !.start = d]
             r == [NoResult EXCEPT !.python = ResolvePython(Defaults, d), !.root = FindRepoRoot(d)]
  <2>1. loader' = [loader EXCEPT ![l] = x] /\ result' = [result EXCEPT ![l] = r]
    BY <1>4 DEF Start
  <2>2. x.pc = "idle" /\ x.start = d
    BY IdleLoader
  <2>3. InsideOf(d, r) /\ ~Repeats(r)
    BY <1>1, NothingInside, NothingRepeats
  <2> HIDE DEF x, r
  <2>4. loader'[l] = x /\ result'[l] = r
        /\ \A o \in Loaders \ {l} : /\ loader'[o].pc # "idle" => UnderWay(o)'
                                    /\ Settled(o)' /\ ~Repeats(result'[o])
    BY <1>2, <2>1, <2>2
  <2>5. Settled(l)'
    BY <1>1, <2>2, <2>3, <2>4 DEF Settled, InsideOf, GitDirs
  <2> QED
    BY <1>1, <2>2, <2>3, <2>4, <2>5 DEF BoundsInv
<1>5. CASE f # NoFile
  <2> DEFINE x == Begun(d, f)
  <2>1. loader' = [loader EXCEPT ![l] = x] /\ result' = [result EXCEPT ![l] = NoResult]
    BY <1>5 DEF Start, Begun
  <2>2. PICK n \in DOMAIN A : /\ up \in Seq(Dirs) /\ Len(up) = n
                              /\ \A i \in 1 .. n : up[i] = A[i]
                              /\ Reached(A, GitDirs, n)
    BY <1>3, UpToPoints
  <2> HIDE DEF up, A
  <2>3. DOMAIN up = 1 .. n /\ n \in Nat /\ n <= Len(A)
    BY <1>3, <2>2, LenProperties
  <2>4. f \in Files /\ \E i \in 1 .. n : up[i] = DirOf[f] /\ \A j \in 1 .. i - 1 : ~HasConfig(up[j])
    BY <1>5, <2>3, FoundFile DEF FindConfigFile, up, A
  <2>5. PICK i \in 1 .. n : up[i] = DirOf[f] /\ \A j \in 1 .. i - 1 : ~HasConfig(up[j])
    BY <2>4
  <2>6. A[i] = DirOf[f] /\ i \in DOMAIN A /\ Reached(A, GitDirs, i)
    BY <1>3, <2>2, <2>3, <2>5 DEF Reached
  <2>7. \A j \in 1 .. i - 1 : ~HasConfig(A[j])
    BY <2>2, <2>3, <2>5
  <2> HIDE DEF f
  <2>8. x.pc = "read" /\ x.start = d /\ x.chain = <<f>>
    BY <1>1, <2>4, StartLoader
  <2> HIDE DEF x
  <2>9. loader'[l] = x /\ result'[l] = NoResult
        /\ \A o \in Loaders : Rewriting(o)' => Rewriting(o) /\ loader'[o] = loader[o]
    BY <1>2, <2>1, <2>8
  <2>10. UnderWay(l)'
    <3>1. Undisturbed(l)' => \A p \in Loaders : Rewriting(p)' => IsFile(loader[p].file)'
      BY <1>1, <2>8, <2>9, RewritesThere DEF Undisturbed, Rewriting, IsFile
    <3>2. (Reached(Ancestors[loader[l].start], GitDirs, i))'
      BY <1>1, <2>6, <2>8, <2>9 DEF Reached, GitDirs, A
    <3>3. \A j \in 1 .. i - 1 : ~HasConfig(Ancestors[loader[l].start][j])'
      BY <1>1, <2>7, <2>8, <2>9 DEF HasConfig, IsFile, A
    <3>4. i \in DOMAIN Ancestors[loader'[l].start]
          /\ Ancestors[loader'[l].start][i] = DirOf[loader'[l].chain[1]]
      BY <2>6, <2>8, <2>9 DEF A
    <3> QED
      BY <2>9, <3>1, <3>2, <3>3, <3>4 DEF UnderWay
  <2>11. Settled(l)' /\ ~Repeats(result'[l])
    BY <2>8, <2>9, NothingRepeats DEF Settled
  <2>12. \A o \in Loaders \ {l} : /\ loader'[o].pc # "idle" => UnderWay(o)'
                                  /\ Settled(o)' /\ ~Repeats(result'[o])
    BY <1>2, <2>1, <2>8
  <2>13. ASSUME NEW o \in Loaders
         PROVE  /\ loader'[o].pc # "idle" => UnderWay(o)'
                /\ Settled(o)' /\ ~Repeats(result'[o])
    <3>1. CASE o = l
      BY <2>10, <2>11, <3>1
    <3>2. CASE o # l
      BY <2>12, <3>2
    <3> QED
      BY <3>1, <3>2
  <2> QED
    BY <1>1, <2>13 DEF BoundsInv
<1> QED
  BY <1>4, <1>5

LEMMA InitBounds == Init => BoundsInv
<1> SUFFICES ASSUME Init, NEW l \in Loaders
             PROVE  /\ loader[l].pc = "idle"
                    /\ Settled(l) /\ ~Repeats(result[l])
  BY DEF BoundsInv, Init
<1>1. loader[l].pc = "idle" /\ result[l] = NoResult
  BY IdleLoader DEF Init
<1>2. \A d : InsideOf(d, NoResult)
  BY DEF InsideOf, NoResult
<1> QED
  BY <1>1, <1>2, NothingRepeats DEF Settled

LEMMA NextBounds == RewriteInv /\ BoundsInv /\ [Next]_vars => BoundsInv'
<1> SUFFICES ASSUME RewriteInv, BoundsInv, [Next]_vars PROVE BoundsInv'
  OBVIOUS
<1>1. ASSUME NEW l \in Loaders, NEW d \in Starts, Start(l, d) PROVE BoundsInv'
  BY <1>1, StartKeepsBounds
<1>2. ASSUME NEW l \in Loaders, ReadCurrent(l) PROVE BoundsInv'
  BY <1>2, ReadCurrentKeepsBounds
<1>3. ASSUME NEW l \in Loaders, ReadOutdated(l) PROVE BoundsInv'
  BY <1>3, ReadOutdatedKeepsBounds
<1>4. ASSUME NEW l \in Loaders, UseCopy(l) PROVE BoundsInv'
  BY <1>4, UseCopyKeepsBounds
<1>5. ASSUME NEW l \in Loaders, Truncate(l) PROVE BoundsInv'
  BY <1>5, TruncateKeepsBounds
<1>6. ASSUME NEW l \in Loaders, Fill(l) PROVE BoundsInv'
  BY <1>6, FillKeepsBounds
<1>7. ASSUME NEW l \in Loaders, Crash(l) PROVE BoundsInv'
  BY <1>7, CrashKeepsBounds
<1>8. ASSUME NEW f \in Files, NEW c \in Contents[f], Edit(f, c) PROVE BoundsInv'
  BY <1>8, EditKeepsBounds
<1>9. CASE UNCHANGED vars
  <2>1. /\ UNCHANGED <<site, result>> /\ loader' = loader /\ disk' = disk /\ spoiled' = spoiled
    BY <1>9 DEF vars
  <2>2. \A f : IsFile(f)' <=> IsFile(f)
    BY <2>1 DEF IsFile
  <2>3. \A o \in Loaders : /\ Undisturbed(o)' <=> Undisturbed(o)
                           /\ Rewriting(o)' <=> Rewriting(o)
    BY <2>1 DEF Undisturbed, Rewriting
  <2>4. ASSUME NEW o \in Loaders, loader[o].pc # "idle", Undisturbed(o)
        PROVE  \A p \in Loaders : Rewriting(p)' => IsFile(loader[p].file)'
    BY <2>1, <2>3, <2>4 DEF BoundsInv, UnderWay, IsFile
  <2> QED
    BY <2>1, <2>2, <2>3, <2>4, StepKeepsBounds
<1> QED
  BY <1>1, <1>2, <1>3, <1>4, <1>5, <1>6, <1>7, <1>8, <1>9 DEF Next, Work

(* Where a load may be, and what it may have found, whatever other processes *)
(* and users do to the files meanwhile.                                     *)
THEOREM BoundsInvariant == Spec => []BoundsInv
<1>1. Init => BoundsInv
  BY InitBounds
<1>2. RewriteInv /\ BoundsInv /\ [Next]_vars => BoundsInv'
  BY NextBounds
<1> QED
  BY <1>1, <1>2, RewriteInvariant, PTL DEF Spec

(* What a load finds by walking up lies in the repository it starts in, and *)
(* a load reads no file twice (find_config_file, venv_search_dirs,          *)
(* find_repo_root, resolve_extend).                                         *)
THEOREM LoadStaysInBounds == Spec => []LoadKeepsBounds
<1>1. BoundsInv => FoundInsideRepository
  BY DEF BoundsInv, Settled, InsideOf, FoundInsideRepository
<1>2. RewriteInv /\ BoundsInv => NoFileTwice
  BY DEF RewriteInv, Shapes, IsLoader, BoundsInv, Repeats, NoFileTwice
<1>3. RewriteInv /\ BoundsInv => LoadKeepsBounds
  BY <1>1, <1>2 DEF LoadKeepsBounds
<1> QED
  BY <1>3, RewriteInvariant, BoundsInvariant, PTL

-----------------------------------------------------------------------------
(* What two tables say, one laid over the other.                           *)

(* What two documents say, one laid over the other, node by node.          *)
LEMMA MergeNodes ==
  ASSUME NEW base, IsDocument(base), NEW over, IsDocument(over)
  PROVE  LET M == MergeToml(base, over)
         IN  /\ DOMAIN M = DOMAIN over \cup
                  {p \in DOMAIN base : \A q \in DOMAIN over : IsPrefix(q, p) => over[q] = Branch}
             /\ \A p \in DOMAIN M : M[p] = IF p \in DOMAIN over THEN over[p] ELSE base[p]
             /\ IsDocument(M)
<1> DEFINE D == {p \in DOMAIN base : \A q \in DOMAIN over : IsPrefix(q, p) => over[q] = Branch}
           M == MergeToml(base, over)
<1>1. /\ DOMAIN M = DOMAIN over \cup D
      /\ \A p \in DOMAIN M : M[p] = IF p \in DOMAIN over THEN over[p] ELSE base[p]
  BY DEF MergeToml, Laid
<1> HIDE DEF M
<1>2. DOMAIN M \subseteq Paths /\ << >> \in DOMAIN M
  BY <1>1 DEF IsDocument, Paths
<1>3. ASSUME NEW q \in DOMAIN M, NEW p \in Paths, IsPrefix(p, q), p # q
      PROVE  p \in DOMAIN M /\ M[p] = Branch
  <2>1. CASE q \in DOMAIN over
    BY <1>1, <1>3, <2>1, DocumentPrefix
  <2>2. CASE q \notin DOMAIN over
    <3>1. q \in D /\ q \in Paths
      BY <1>1, <1>2, <2>2
    <3>2. p \in DOMAIN base /\ base[p] = Branch
      BY <1>3, <3>1, DocumentPrefix
    <3>3. ASSUME NEW r \in DOMAIN over, IsPrefix(r, p) PROVE over[r] = Branch
      <4>1. r \in Paths
        BY <1>1, <1>2
      <4>2. IsPrefix(r, q)
        BY <1>3, <3>1, <3>3, <4>1, PrefixOrder
      <4> QED
        BY <3>1, <3>3, <4>2
    <3>4. IsPrefix(p, p)
      BY PrefixOrder
    <3> QED
      BY <1>1, <3>2, <3>3, <3>4
  <2> QED
    BY <2>1, <2>2
<1>4. IsDocument(M)
  BY <1>2, <1>3, DocumentByPrefix
<1> QED
  BY <1>1, <1>4 DEF M

(* What is laid over a table hides what is in its way, and nothing else.   *)
LEMMA MergeLeaves ==
  ASSUME NEW base, IsDocument(base), IsTable(base), NEW over, IsDocument(over), Filled(over), NEW s
  PROVE  s \in Leaves(MergeToml(base, over)) <=>
           \/ s \in Leaves(over)
           \/ s \in Leaves(base) /\ \A u \in Leaves(over) : ~Clash(u.path, s.path)
<1> DEFINE M == MergeToml(base, over)
<1>1. /\ DOMAIN M = DOMAIN over \cup
                  {p \in DOMAIN base : \A q \in DOMAIN over : IsPrefix(q, p) => over[q] = Branch}
      /\ \A p \in DOMAIN M : M[p] = IF p \in DOMAIN over THEN over[p] ELSE base[p]
  BY MergeNodes
<1> HIDE DEF M
<1>2. DOMAIN over \subseteq Paths /\ DOMAIN base \subseteq Paths
  BY DEF IsDocument, Paths
<1>3. ASSUME s \in Leaves(M), s \notin Leaves(over)
      PROVE  s \in Leaves(base) /\ \A u \in Leaves(over) : ~Clash(u.path, s.path)
  <2>1. PICK p \in DOMAIN M : M[p] # Branch /\ s = [path |-> p, val |-> M[p]]
    BY <1>3, LeafOf
  <2>2. p \notin DOMAIN over
    BY <1>1, <1>3, <2>1, LeafOf
  <2>3. p \in DOMAIN base /\ M[p] = base[p] /\ \A q \in DOMAIN over : IsPrefix(q, p) => over[q] = Branch
    BY <1>1, <2>1, <2>2
  <2>4. ASSUME NEW u \in Leaves(over), Clash(u.path, s.path) PROVE FALSE
    <3>1. PICK q \in DOMAIN over : over[q] # Branch /\ u = [path |-> q, val |-> over[q]]
      BY <2>4, LeafOf
    <3>2. ~IsPrefix(q, p)
      BY <2>3, <3>1
    <3>3. IsPrefix(p, q)
      BY <2>1, <2>4, <3>1, <3>2 DEF Clash
    <3> QED
      BY <1>2, <2>2, <2>3, <3>3, DocumentPrefix
  <2>5. s \in Leaves(base)
    BY <2>1, <2>3, LeafOf
  <2> QED
    BY <2>4, <2>5
<1>4. ASSUME s \in Leaves(over) PROVE s \in Leaves(M)
  <2>1. PICK p \in DOMAIN over : over[p] # Branch /\ s = [path |-> p, val |-> over[p]]
    BY <1>4, LeafOf
  <2>2. p \in DOMAIN M /\ M[p] = over[p]
    BY <1>1
  <2> QED
    BY <2>1, <2>2, LeafOf
<1>5. ASSUME s \in Leaves(base), \A u \in Leaves(over) : ~Clash(u.path, s.path)
      PROVE  s \in Leaves(M)
  <2>1. PICK p \in DOMAIN base : base[p] # Branch /\ s = [path |-> p, val |-> base[p]]
    BY <1>5, LeafOf
  <2>2. ASSUME NEW q \in DOMAIN over, over[q] # Branch PROVE ~IsPrefix(q, p) /\ ~IsPrefix(p, q)
    <3> DEFINE u == [path |-> q, val |-> over[q]]
    <3>1. u \in Leaves(over) /\ u.path = q /\ s.path = p
      BY <2>1, <2>2, LeafOf
    <3> QED
      BY <1>5, <3>1 DEF Clash
  <2>3. p # << >>
    BY <2>1 DEF IsTable
  <2>4. p \notin DOMAIN over
    <3> SUFFICES ASSUME p \in DOMAIN over PROVE FALSE
      OBVIOUS
    <3>1. IsPrefix(p, p)
      BY <1>2, PrefixOrder
    <3>2. over[p] = Branch
      BY <2>2, <3>1
    <3> QED
      BY <2>2, <2>3, <3>2 DEF Filled
  <2>5. p \in DOMAIN M /\ M[p] = base[p]
    BY <1>1, <2>2, <2>4
  <2> QED
    BY <2>1, <2>5, LeafOf
<1> QED
  BY <1>3, <1>4, <1>5 DEF M

(* From 0 upwards through all numbers.                                     *)
LEMMA FromZero ==
  ASSUME NEW S, 0 \in S, \A i \in Nat : i \in S => i + 1 \in S
  PROVE  Nat \subseteq S
<1> DEFINE T == Nat \ S
<1> SUFFICES ASSUME T # {} PROVE FALSE
  OBVIOUS
<1>1. PICK m \in T : \A k \in T : ~(<<k, m>> \in OpToRel(<, Nat))
  BY WFMin, NatLessThanWellFounded
<1>2. m # 0 /\ m - 1 \in Nat /\ (m - 1) + 1 = m
  OBVIOUS
<1>3. <<m - 1, m>> \in OpToRel(<, Nat)
  BY <1>2 DEF OpToRel
<1>4. m - 1 \in S
  BY <1>1, <1>2, <1>3
<1> QED
  BY <1>2, <1>4

(* The layers from the m-th on, laid over each other.                      *)
LaidFrom(g, layers, m) ==
    /\ g[Len(layers)] = layers[Len(layers)]
    /\ \A i \in m .. Len(layers) - 1 : g[i] = MergeToml(g[i + 1], layers[i])

(* However many layers there are, they can be laid over each other.        *)
LEMMA LaidExists ==
  ASSUME NEW layers, Len(layers) \in Nat \ {0}
  PROVE  \E g : LaidFrom(g, layers, 1)
<1> DEFINE n == Len(layers)
           S == {k \in Nat : k < n => \E g : LaidFrom(g, layers, n - k)}
<1> HIDE DEF S
<1>0. n \in Nat /\ n >= 1
  OBVIOUS
<1>1. 0 \in S
  <2> DEFINE g == [i \in {n} |-> layers[n]]
  <2>1. LaidFrom(g, layers, n - 0)
    BY DEF LaidFrom
  <2> QED
    BY <2>1 DEF S
<1>2. ASSUME NEW k \in Nat, k \in S PROVE k + 1 \in S
  <2> SUFFICES ASSUME k + 1 < n PROVE \E g : LaidFrom(g, layers, n - (k + 1))
    BY <1>2 DEF S
  <2>1. PICK h : LaidFrom(h, layers, n - k)
    BY <1>0, <1>2 DEF S
  <2> DEFINE m == n - (k + 1)
             g == [i \in m .. n |-> IF i = m THEN MergeToml(h[i + 1], layers[i]) ELSE h[i]]
  <2>2. m \in Nat /\ m < n /\ n - k = m + 1 /\ n \in m .. n
    BY <1>0
  <2> HIDE DEF m
  <2>3. g[n] = layers[n]
    BY <1>0, <2>1, <2>2 DEF LaidFrom
  <2>4. ASSUME NEW i \in m .. n - 1 PROVE g[i] = MergeToml(g[i + 1], layers[i])
    <3>1. i \in m .. n /\ i + 1 \in m .. n /\ i + 1 # m
      BY <1>0, <2>2
    <3>2. g[i + 1] = h[i + 1]
      BY <3>1
    <3>3. CASE i = m
      BY <3>1, <3>2, <3>3
    <3>4. CASE i # m
      <4>1. i \in n - k .. n - 1 /\ g[i] = h[i]
        BY <1>0, <2>2, <3>1, <3>4
      <4> QED
        BY <2>1, <3>2, <4>1 DEF LaidFrom
    <3> QED
      BY <3>3, <3>4
  <2> HIDE DEF g
  <2>5. LaidFrom(g, layers, m)
    BY <2>3, <2>4 DEF LaidFrom
  <2> QED
    BY <2>5 DEF m
<1>3. n - 1 \in S
  BY <1>0, <1>1, <1>2, FromZero
<1>4. n - (n - 1) = 1 /\ n - 1 < n
  BY <1>0
<1> QED
  BY <1>3, <1>4 DEF S

(* What Merged chooses is the last of them.                                *)
LEMMA MergedIsLaid ==
  ASSUME NEW n \in Nat \ {0}, NEW layers, Len(layers) = n, DOMAIN layers = 1 .. n
  PROVE  \E g : LaidFrom(g, layers, 1) /\ Merged(layers) = g[1]
<1> DEFINE Step(g) == [i \in DOMAIN layers |->
                          IF i = n THEN layers[i] ELSE MergeToml(g[i + 1], layers[i])]
           a == CHOOSE g : g = Step(g)
<1>0. n \in Nat /\ n >= 1
  OBVIOUS
<1>1. PICK h : LaidFrom(h, layers, 1)
  BY LaidExists
<1> DEFINE b == [i \in 1 .. n |-> h[i]]
<1>2. b = Step(b)
  <2>1. \A i \in 1 .. n : b[i] = Step(b)[i]
    <3> SUFFICES ASSUME NEW i \in 1 .. n PROVE b[i] = Step(b)[i]
      OBVIOUS
    <3>1. CASE i = n
      BY <1>1, <3>1 DEF LaidFrom
    <3>2. CASE i # n
      <4>1. i \in 1 .. n - 1 /\ i + 1 \in 1 .. n
        BY <1>0, <3>2
      <4> QED
        BY <1>1, <3>2, <4>1 DEF LaidFrom
    <3> QED
      BY <3>1, <3>2
  <2> QED
    BY <2>1
<1>3. a = Step(a)
  <2> HIDE DEF Step, b
  <2> QED
    BY <1>2
<1>4. Merged(layers) = a[1]
  BY DEF Merged
<1> HIDE DEF a
<1>5. a[n] = layers[n]
  BY <1>0, <1>3
<1>6. ASSUME NEW i \in 1 .. n - 1 PROVE a[i] = MergeToml(a[i + 1], layers[i])
  <2>1. i \in 1 .. n /\ i # n
    BY <1>0
  <2> QED
    BY <1>0, <1>3, <2>1
<1>7. LaidFrom(a, layers, 1)
  BY <1>5, <1>6 DEF LaidFrom
<1> QED
  BY <1>4, <1>7

(* Merged layers are a table that says the last word of each.              *)
LEMMA MergedSays ==
  ASSUME NEW n \in Nat \ {0}, NEW layers, Len(layers) = n, DOMAIN layers = 1 .. n,
         \A i \in DOMAIN layers : IsDocument(layers[i]) /\ Filled(layers[i])
  PROVE  Leaves(Merged(layers)) = LastWords([i \in 1 .. n |-> Leaves(layers[i])])
<1> DEFINE Visible(i, m, s) == /\ s \in Leaves(layers[i])
                               /\ \A j \in m .. i - 1 : \A u \in Leaves(layers[j]) : ~Clash(u.path, s.path)
           Word(m, s) == \E i \in m .. n : Visible(i, m, s)
<1>0. n \in Nat /\ n >= 1
  OBVIOUS
<1>1. PICK g : LaidFrom(g, layers, 1) /\ Merged(layers) = g[1]
  BY MergedIsLaid
<1> DEFINE Good(m) == /\ IsDocument(g[m]) /\ IsTable(g[m])
                      /\ \A s : s \in Leaves(g[m]) <=> Word(m, s)
           S == {k \in Nat : k < n => Good(n - k)}
<1>2. 0 \in S
  <2>1. g[n] = layers[n] /\ IsDocument(layers[n]) /\ IsTable(layers[n])
    BY <1>1 DEF LaidFrom, Filled
  <2>2. ASSUME NEW s PROVE s \in Leaves(layers[n]) <=> Word(n, s)
    <3>1. n .. n = {n} /\ n .. n - 1 = {}
      OBVIOUS
    <3> QED
      BY <3>1
  <2>3. Good(n)
    BY <2>1, <2>2
  <2>4. n - 0 = n
    OBVIOUS
  <2> HIDE DEF Good
  <2> QED
    BY <2>3, <2>4
<1>3. ASSUME NEW k \in Nat, k \in S PROVE k + 1 \in S
  <2> SUFFICES ASSUME k + 1 < n PROVE Good(n - (k + 1))
    OBVIOUS
  <2> DEFINE m == n - (k + 1)
  <2>1. m \in 1 .. n - 1 /\ n - k = m + 1 /\ m \in DOMAIN layers /\ m + 1 \in 1 .. n
    OBVIOUS
  <2>2. Good(m + 1)
    <3> HIDE DEF Good
    <3> QED
      BY <1>3, <2>1
  <2>3. g[m] = MergeToml(g[m + 1], layers[m])
    BY <1>1, <2>1 DEF LaidFrom
  <2> HIDE DEF m
  <2>4. IsDocument(g[m]) /\ IsTable(g[m])
    <3>1. << >> \in DOMAIN layers[m] /\ layers[m][<< >>] = Branch
      BY <2>1 DEF IsDocument, Filled, IsTable
    <3>2. /\ IsDocument(g[m]) /\ << >> \in DOMAIN g[m]
          /\ \A p \in DOMAIN g[m] : g[m][p] = IF p \in DOMAIN layers[m] THEN layers[m][p] ELSE g[m + 1][p]
      <4> DEFINE base == g[m + 1]
                 over == layers[m]
      <4>1. IsDocument(base) /\ IsDocument(over)
        BY <2>1, <2>2
      <4> HIDE DEF base, over, Good
      <4>3. LET M == MergeToml(base, over)
            IN  /\ DOMAIN M = DOMAIN over \cup
                       {p \in DOMAIN base : \A q \in DOMAIN over : IsPrefix(q, p) => over[q] = Branch}
                /\ \A p \in DOMAIN M : M[p] = IF p \in DOMAIN over THEN over[p] ELSE base[p]
                /\ IsDocument(M)
        BY <4>1, MergeNodes, Zenon
      <4>2. /\ DOMAIN over \subseteq DOMAIN MergeToml(base, over) /\ IsDocument(MergeToml(base, over))
            /\ \A p \in DOMAIN MergeToml(base, over) :
                  MergeToml(base, over)[p] = IF p \in DOMAIN over THEN over[p] ELSE base[p]
        BY <4>3
      <4> QED
        BY <2>3, <3>1, <4>2 DEF base, over
    <3> QED
      BY <3>1, <3>2 DEF IsTable
  <2>5. ASSUME NEW s PROVE s \in Leaves(g[m]) <=> Word(m, s)
    <3>1. s \in Leaves(g[m]) <=>
             \/ s \in Leaves(layers[m])
             \/ Word(m + 1, s) /\ \A u \in Leaves(layers[m]) : ~Clash(u.path, s.path)
      BY <2>1, <2>2, <2>3, MergeLeaves
    <3>2. Visible(m, m, s) <=> s \in Leaves(layers[m])
      <4>1. m .. m - 1 = {}
        BY <2>1
      <4> QED
        BY <4>1
    <3>3. ASSUME NEW i \in m + 1 .. n
          PROVE  Visible(i, m, s) <=>
                    Visible(i, m + 1, s) /\ \A u \in Leaves(layers[m]) : ~Clash(u.path, s.path)
      <4>1. m .. i - 1 = {m} \cup (m + 1 .. i - 1)
        BY <2>1, <3>3
      <4> QED
        BY <4>1
    <3>4. m .. n = {m} \cup (m + 1 .. n)
      BY <2>1
    <3> HIDE DEF Visible
    <3> QED
      BY <3>1, <3>2, <3>3, <3>4
  <2> QED
    BY <2>4, <2>5 DEF m
<1>4. Good(1)
  <2>1. n - 1 \in Nat /\ n - 1 < n /\ n - (n - 1) = 1
    OBVIOUS
  <2> HIDE DEF Good
  <2>2. n - 1 \in S
    <3> HIDE DEF S
    <3> QED
      BY <1>2, <1>3, <2>1, FromZero
  <2> QED
    BY <2>1, <2>2
<1> DEFINE says == [i \in 1 .. n |-> Leaves(layers[i])]
<1>5. ASSUME NEW s PROVE s \in LastWords(says) <=> Word(1, s)
  <2>1. \A i \in 1 .. n : \A j \in 1 .. i - 1 : j \in 1 .. n
    OBVIOUS
  <2>2. \A i \in 1 .. n : Visible(i, 1, s) <=>
           s \in says[i] /\ \A j \in 1 .. i - 1 : \A u \in says[j] : ~Clash(u.path, s.path)
    BY <2>1
  <2>3. DOMAIN says = 1 .. n
    OBVIOUS
  <2> HIDE DEF Visible, says
  <2> QED
    BY <2>2, <2>3 DEF LastWords
<1> QED
  BY <1>1, <1>4, <1>5

-----------------------------------------------------------------------------
(* A migrated table has no old name left.                                  *)

(* A table without an old name anywhere has its entries under today's.     *)
LEMMA OldNames ==
  ASSUME NEW t, IsDocument(t), ~Has(t, "lint"), ~DetectLintSection(t), NEW p \in DOMAIN t
  PROVE  p \in Paths /\ ~IsPrefix(OldCache, p) /\ ~IsPrefix(OldLevel, p) /\ ~Moves(p)
<1>1. \A k \in {"cache_dir"} \cup DOMAIN LintNames : k \in Keys /\ ~Has(t, k)
  BY KnownKeys DEF DetectLintSection
<1>2. p \in Paths /\ \A k \in {"cache_dir"} \cup DOMAIN LintNames : ~(Len(p) >= 1 /\ p[1] = k)
  BY <1>1, NoLint
<1>3. ~IsPrefix(OldCache, p)
  BY <1>2, SpellingPaths
<1>4. ~IsPrefix(OldLevel, p)
  <2>1. "KIS" \in DOMAIN LintNames
    BY KnownNames
  <2>2. Len(p) \in Nat /\ (Len(p) >= 2 => Len(p) >= 1)
    BY <1>2, LenProperties DEF Paths
  <2> QED
    BY <1>2, <2>1, <2>2, SpellingPaths
<1>5. ~Moves(p)
  <2>1. p # << >> => Len(p) >= 1
    BY <1>2, EmptySeq, LenProperties DEF Paths
  <2> QED
    BY <1>2, <2>1 DEF Moves
<1> QED
  BY <1>2, <1>3, <1>4, <1>5

(* What such a table says is what it holds.                                *)
LEMMA CurrentSays ==
  ASSUME NEW t, IsDocument(t), ~NeedsMigration(t)
  PROVE  Says(t) = Leaves(t)
<1>1. \A l \in Leaves(t) : l.path \in DOMAIN t /\ l = [path |-> l.path, val |-> l.val]
  BY LeafOf
<1>2. CASE Has(t, "lint")
  <2>1. \A p \in DOMAIN t : ModernTable(t, p) = p
    BY DEF NeedsMigration, DetectRuleTableRename, RenamesTable, ModernTable
  <2> QED
    BY <1>1, <1>2, <2>1 DEF Says
<1>3. CASE ~Has(t, "lint")
  <2>1. ~DetectLintSection(t)
    BY DEF NeedsMigration
  <2>2. ASSUME NEW p \in DOMAIN t PROVE ModernFlat(p) = p /\ ~Overruled(t, p)
    <3>1. p \in Paths /\ ~IsPrefix(OldCache, p) /\ ~IsPrefix(OldLevel, p) /\ ~Moves(p)
      BY <1>3, <2>1, OldNames
    <3>2. ModernFlat(p) = p
      <4>1. Respelled(p) = p
        BY <3>1 DEF Respelled, Swapped
      <4> QED
        BY <3>1, <4>1, ModernIsPlace DEF LintPlace
    <3>3. ~Has(t, "cache_dir") /\ ~HasPath(t, <<"KIS", "unresolved_level">>)
      <4>1. \A q \in DOMAIN t : ~IsPrefix(OldCache, q) /\ ~IsPrefix(OldLevel, q)
        BY <1>3, <2>1, OldNames
      <4>2. IsPrefix(OldCache, OldCache) /\ IsPrefix(OldLevel, OldLevel)
        BY SpellingPaths, PrefixOrder
      <4> QED
        BY <4>1, <4>2 DEF Has, HasPath, OldCache, OldLevel
    <3> QED
      BY <3>2, <3>3 DEF Overruled
  <2> QED
    BY <1>1, <1>3, <2>2 DEF Says
<1> QED
  BY <1>2, <1>3

(* The migrations leave nothing to migrate.                                *)
LEMMA LintLeavesNothing ==
  ASSUME NEW t, IsDocument(t), DetectLintSection(t)
  PROVE  ~NeedsMigration(ApplyLintSection(t))
<1> DEFINE S == Spelled(t)
           A == ApplyLintSection(t)
<1>1. ~Has(t, "lint")
  BY DEF DetectLintSection
<1>2. /\ DOMAIN A = {LintPlace(p) : p \in DOMAIN S} \cup {q \in {<<"lint">>} : \E p \in DOMAIN S : Moves(p)}
  BY <1>1, LintNodes
<1>3. ~DetectRuleTableRename(A)
  BY <1>1, LintKeepsSays
<1>4. IsDocument(S) /\ ~HasPath(S, OldCache)
  BY SpelledNodes
<1> HIDE DEF S, A
<1>5. ~DetectLintSection(A)
  <2>1. CASE \E p \in DOMAIN S : Moves(p)
    BY <1>2, <2>1 DEF DetectLintSection, Has, HasPath
  <2>2. CASE ~\E p \in DOMAIN S : Moves(p)
    <3>1. DOMAIN A = DOMAIN S
      BY <1>2, <2>2 DEF LintPlace
    <3>2. ~Has(A, "cache_dir")
      BY <1>4, <3>1 DEF Has, HasPath, OldCache
    <3>3. ASSUME NEW k \in DOMAIN LintNames PROVE ~Has(A, k)
      <4>1. <<k>> # << >> /\ <<k>>[1] = k
        OBVIOUS
      <4> QED
        BY <2>2, <3>1, <4>1 DEF Has, HasPath, Moves
    <3> QED
      BY <3>2, <3>3 DEF DetectLintSection
  <2> QED
    BY <2>1, <2>2
<1> QED
  BY <1>3, <1>5 DEF NeedsMigration, A

LEMMA RenameLeavesNothing ==
  ASSUME NEW t, IsDocument(t), DetectRuleTableRename(t)
  PROVE  ~NeedsMigration(ApplyRuleTableRename(t))
<1> DEFINE A == ApplyRuleTableRename(t)
<1>1. IsDocument(A) /\ DOMAIN A = {TablePlace(t, p) : p \in DOMAIN t}
  BY RenameKeepsSays
<1> HIDE DEF A
<1>2. PICK r \in DOMAIN t : RenamesTable(t, r)
  BY DEF DetectRuleTableRename
<1> DEFINE q == TablePlace(t, r)
<1>3. /\ q \in DOMAIN A /\ q \in Paths /\ Len(q) = Len(r) /\ Len(r) \in Nat /\ Len(r) > 1
      /\ q[1] = "lint" /\ q[2] = "import-alias-policy"
  BY <1>1, <1>2, RenamesPoints
<1> HIDE DEF q
<1>4. "lint" \in Keys /\ "import-alias-policy" \in Keys
  BY KnownKeys
<1>5. <<"lint">> \in Paths /\ IsPrefix(<<"lint">>, q)
  BY <1>3, <1>4, PrefixOfOne
<1>6. NewRuleTable \in Paths /\ IsPrefix(NewRuleTable, q)
  BY <1>3, <1>4, PrefixOfTwo DEF NewRuleTable
<1>7. Has(A, "lint") /\ HasPath(A, NewRuleTable)
  BY <1>1, <1>3, <1>5, <1>6, DocumentPrefix DEF Has, HasPath
<1>8. ~DetectRuleTableRename(A)
  BY <1>1, <1>7, RenamesPoints DEF DetectRuleTableRename
<1> QED
  BY <1>7, <1>8 DEF NeedsMigration, DetectLintSection, A

LEMMA MigratedCurrent ==
  ASSUME NEW t, IsDocument(t), NeedsMigration(t)
  PROVE  ~NeedsMigration(RunMigrations(t))
<1>1. CASE DetectLintSection(t)
  <2>1. ~Has(t, "lint")
    BY <1>1 DEF DetectLintSection
  <2>2. RunMigrations(t) = ApplyLintSection(t)
    BY <1>1, <2>1, LintKeepsSays DEF RunMigrations
  <2> QED
    BY <1>1, <2>2, LintLeavesNothing
<1>2. CASE ~DetectLintSection(t)
  <2>1. DetectRuleTableRename(t) /\ RunMigrations(t) = ApplyRuleTableRename(t)
    BY <1>2 DEF NeedsMigration, RunMigrations
  <2> QED
    BY <2>1, RenameLeavesNothing
<1> QED
  BY <1>1, <1>2

-----------------------------------------------------------------------------
(* No table comes out of a migration empty.                                *)

(* Below each node of a filled table lies a leaf.                          *)
LEMMA FilledLeaf ==
  ASSUME NEW t, IsDocument(t), Filled(t), NEW p \in DOMAIN t, p # << >>
  PROVE  \E q \in DOMAIN t : IsPrefix(p, q) /\ t[q] # Branch
<1>1. p \in Paths /\ IsPrefix(p, p)
  BY PrefixOrder DEF IsDocument, Paths
<1> QED
  BY <1>1 DEF Filled

(* Paths are joined in any order.                                          *)
LEMMA JoinTwice ==
  ASSUME NEW p \in Paths, NEW q \in Paths, NEW r \in Paths
  PROVE  (p \o q) \o r = p \o (q \o r)
BY ConcatAssociative DEF Paths

(* Where a table takes its leaves along to, it stays filled.               *)
LEMMA FilledMoved ==
  ASSUME NEW t, IsDocument(t), Filled(t), NEW A, IsTable(A),
         \A a \in DOMAIN A \ {<< >>} : \E p \in DOMAIN t \ {<< >>} :
            \A q \in DOMAIN t : IsPrefix(p, q) /\ t[q] # Branch =>
                \E b \in DOMAIN A : IsPrefix(a, b) /\ A[b] # Branch
  PROVE  Filled(A)
<1> SUFFICES ASSUME NEW a \in DOMAIN A \ {<< >>}
             PROVE  \E b \in DOMAIN A : IsPrefix(a, b) /\ A[b] # Branch
  BY DEF Filled
<1>1. PICK p \in DOMAIN t \ {<< >>} : \A q \in DOMAIN t : IsPrefix(p, q) /\ t[q] # Branch =>
                \E b \in DOMAIN A : IsPrefix(a, b) /\ A[b] # Branch
  OBVIOUS
<1>2. PICK q \in DOMAIN t : IsPrefix(p, q) /\ t[q] # Branch
  BY FilledLeaf
<1> QED
  BY <1>1, <1>2

(* The tables an entry lies in lead to its new name too.                   *)
LEMMA RenamedFilled ==
  ASSUME NEW t, IsDocument(t), Filled(t), NEW old, NEW new, Siblings(old, new),
         \A q \in Paths : q # << >> /\ IsPrefix(q, old) /\ q # old => IsPrefix(q, new)
  PROVE  Filled(Renamed(t, old, new))
<1> DEFINE A == Renamed(t, old, new)
<1>0. CASE ~HasPath(t, old)
  BY <1>0 DEF Renamed
<1>1. CASE HasPath(t, old)
  <2>1. /\ old \in Paths /\ new \in Paths /\ old # << >> /\ ~IsPrefix(old, new) /\ ~IsPrefix(new, old)
    BY DEF Siblings
  <2>2. /\ IsDocument(A)
        /\ \A q \in Paths : q \in DOMAIN A <=>
               IF IsPrefix(new, q) THEN old \o Below(q, new) \in DOMAIN t
                                   ELSE q \in DOMAIN t /\ ~IsPrefix(old, q)
        /\ \A q \in DOMAIN A : A[q] = IF IsPrefix(new, q) THEN t[old \o Below(q, new)] ELSE t[q]
    BY <1>1, RenamedNodes
  <2> HIDE DEF A
  <2>3. DOMAIN A \subseteq Paths /\ DOMAIN t \subseteq Paths /\ << >> \in DOMAIN t /\ old \in DOMAIN t
        /\ << >> \in Paths
    BY <1>1, <2>2 DEF IsDocument, Paths, HasPath
  (* what lies below the old name lies below the new one *)
  <2>4. ASSUME NEW q \in DOMAIN t, IsPrefix(old, q)
        PROVE  /\ new \o Below(q, old) \in DOMAIN A /\ A[new \o Below(q, old)] = t[q]
               /\ IsPrefix(new, new \o Below(q, old)) /\ Below(new \o Below(q, old), new) = Below(q, old)
    <3>1. q \in Paths /\ Below(q, old) \in Paths /\ old \o Below(q, old) = q
      BY <2>1, <2>3, <2>4, PrefixJoin
    <3>2. /\ new \o Below(q, old) \in Paths /\ IsPrefix(new, new \o Below(q, old))
          /\ Below(new \o Below(q, old), new) = Below(q, old)
      BY <2>1, <3>1, JoinPrefix
    <3> QED
      BY <2>2, <3>1, <3>2
  <2>5. PICK o \in DOMAIN t : IsPrefix(old, o) /\ t[o] # Branch
    BY <2>1, <2>3, FilledLeaf
  <2>6. IsTable(A)
    <3>1. ~IsPrefix(new, << >>) /\ ~IsPrefix(old, << >>)
      <4>1. IsPrefix(<< >>, old) /\ IsPrefix(<< >>, new)
        BY <2>1, PrefixOrder
      <4>2. IsPrefix(old, << >>) => old = << >>
        BY <2>1, <2>3, <4>1, PrefixOrder
      <4>3. IsPrefix(new, << >>) => new = << >>
        BY <2>1, <2>3, <4>1, PrefixOrder
      <4> QED
        BY <2>1, <4>1, <4>2, <4>3
    <3>2. << >> \in DOMAIN A
      BY <2>2, <2>3, <3>1
    <3> QED
      BY <2>2, <3>1, <3>2 DEF IsTable, Filled
  <2>7. ASSUME NEW a \in DOMAIN A \ {<< >>}, IsPrefix(new, a)
        PROVE  \E p \in DOMAIN t \ {<< >>} : \A q \in DOMAIN t : IsPrefix(p, q) /\ t[q] # Branch =>
                  \E b \in DOMAIN A : IsPrefix(a, b) /\ A[b] # Branch
    <3> DEFINE r == Below(a, new)
               p == old \o r
    <3>1. a \in Paths /\ r \in Paths /\ new \o r = a
      BY <2>1, <2>3, <2>7, PrefixJoin
    <3>2. p \in Paths /\ p \in DOMAIN t /\ IsPrefix(old, p) /\ Below(p, old) = r
      BY <2>1, <2>2, <2>7, <3>1, JoinPrefix
    <3>3. p # << >>
      <4>1. IsPrefix(<< >>, old)
        BY <2>1, PrefixOrder
      <4> QED
        BY <2>1, <2>3, <3>2, <4>1, PrefixOrder
    <3> HIDE DEF r, p
    <3>4. ASSUME NEW q \in DOMAIN t, IsPrefix(p, q), t[q] # Branch
          PROVE  \E b \in DOMAIN A : IsPrefix(a, b) /\ A[b] # Branch
      <4>1. q \in Paths /\ IsPrefix(old, q)
        BY <2>1, <2>3, <3>2, <3>4, PrefixOrder
      <4> DEFINE b == new \o Below(q, old)
      <4>2. b \in DOMAIN A /\ A[b] # Branch
        BY <2>4, <3>4, <4>1
      <4>3. IsPrefix(a, b)
        <5>1. Below(q, p) \in Paths /\ p \o Below(q, p) = q
          BY <3>2, <3>4, <4>1, PrefixJoin
        <5> DEFINE d == Below(q, p)
        <5>0. (old \o r) \o d = old \o (r \o d) /\ (new \o r) \o d = new \o (r \o d)
          <6> HIDE DEF d
          <6>1. d \in Paths
            BY <5>1 DEF d
          <6>2. old \in Paths /\ new \in Paths /\ r \in Paths
            BY <2>1, <3>1
          <6>3. \A x \in Paths : (x \o r) \o d = x \o (r \o d)
            BY <6>1, <6>2, JoinTwice
          <6> QED
            BY <6>2, <6>3
        <5>2. q = old \o (r \o Below(q, p))
          BY <5>0, <5>1, Zenon DEF p
        <5>3. r \o Below(q, p) \in Paths
          BY <3>1, <5>1, ConcatProperties DEF Paths
        <5>4. Below(q, old) = r \o Below(q, p)
          BY <2>1, <5>2, <5>3, JoinPrefix
        <5>5. b = a \o Below(q, p)
          BY <3>1, <5>0, <5>4, Zenon
        <5> QED
          BY <3>1, <5>1, <5>5, JoinPrefix
      <4> QED
        BY <4>2, <4>3
    <3> QED
      BY <3>2, <3>3, <3>4
  <2>8. ASSUME NEW a \in DOMAIN A \ {<< >>}, ~IsPrefix(new, a)
        PROVE  \E p \in DOMAIN t \ {<< >>} : \A q \in DOMAIN t : IsPrefix(p, q) /\ t[q] # Branch =>
                  \E b \in DOMAIN A : IsPrefix(a, b) /\ A[b] # Branch
    <3>1. a \in Paths /\ a \in DOMAIN t \ {<< >>} /\ ~IsPrefix(old, a)
      BY <2>2, <2>3, <2>8
    <3>2. ASSUME NEW q \in DOMAIN t, IsPrefix(a, q), t[q] # Branch
          PROVE  \E b \in DOMAIN A : IsPrefix(a, b) /\ A[b] # Branch
      <4>1. q \in Paths
        BY <2>3
      <4>2. CASE IsPrefix(old, q)
        <5>1. IsPrefix(a, old) /\ a # old
          BY <2>1, <3>1, <3>2, <4>1, <4>2, PrefixOrder
        <5>2. IsPrefix(a, new)
          BY <3>1, <5>1
        <5> DEFINE b == new \o Below(q, old)
        <5>3. b \in DOMAIN A /\ A[b] # Branch /\ IsPrefix(new, b)
          BY <2>4, <3>2, <4>2
        <5>4. IsPrefix(a, b)
          BY <2>1, <2>3, <3>1, <5>2, <5>3, PrefixOrder
        <5> QED
          BY <5>3, <5>4
      <4>3. CASE IsPrefix(new, q)
        <5>1. IsPrefix(a, new)
          BY <2>1, <2>8, <3>1, <3>2, <4>1, <4>3, PrefixOrder
        <5> DEFINE b == new \o Below(o, old)
        <5>2. b \in DOMAIN A /\ A[b] # Branch /\ IsPrefix(new, b)
          BY <2>4, <2>5
        <5>3. IsPrefix(a, b)
          BY <2>1, <2>3, <3>1, <5>1, <5>2, PrefixOrder
        <5> QED
          BY <5>2, <5>3
      <4>4. CASE ~IsPrefix(old, q) /\ ~IsPrefix(new, q)
        BY <2>2, <3>2, <4>1, <4>4
      <4> QED
        BY <4>2, <4>3, <4>4
    <3> QED
      BY <3>1, <3>2
  <2>9. Filled(A)
    BY <2>6, <2>7, <2>8, FilledMoved
  <2> QED
    BY <2>9 DEF A
<1> QED
  BY <1>0, <1>1

(* Respelt keys leave no table empty.                                      *)
LEMMA SpelledFilled ==
  ASSUME NEW t, IsDocument(t), Filled(t)
  PROVE  Filled(Spelled(t))
<1> DEFINE R == Renamed(t, OldCache, NewCache)
           S == Renamed(R, OldLevel, NewLevel)
<1>1. Spelled(t) = S
  BY DEF Spelled, CategoryTable, OldCache, NewCache, OldLevel, NewLevel
<1>2. ASSUME NEW q \in Paths, q # << >>, IsPrefix(q, OldCache), q # OldCache
      PROVE  IsPrefix(q, NewCache)
  <2>1. OldCache \in Paths /\ Len(OldCache) = 1
    BY SpellingPaths
  <2>2. Len(q) \in Nat /\ Len(q) # 0 /\ Len(q) <= 1 /\ \A i \in 1 .. Len(q) : OldCache[i] = q[i]
    BY <1>2, <2>1, PrefixPoints, EmptySeq, LenProperties DEF Paths
  <2>3. q = OldCache
    BY <2>1, <2>2, SeqEqual DEF Paths
  <2> QED
    BY <1>2, <2>3
<1>3. ASSUME NEW q \in Paths, q # << >>, IsPrefix(q, OldLevel), q # OldLevel
      PROVE  IsPrefix(q, NewLevel)
  <2>1. OldLevel \in Paths /\ Len(OldLevel) = 2 /\ OldLevel[1] = "KIS"
        /\ NewLevel \in Paths /\ Len(NewLevel) = 2 /\ NewLevel[1] = "KIS"
    BY SpellingPaths
  <2>2. Len(q) \in Nat /\ Len(q) # 0 /\ Len(q) <= 2 /\ \A i \in 1 .. Len(q) : OldLevel[i] = q[i]
    BY <1>3, <2>1, PrefixPoints, EmptySeq, LenProperties DEF Paths
  <2>3. Len(q) # 2
    BY <1>3, <2>1, <2>2, SeqEqual DEF Paths
  <2>4. Len(q) = 1 /\ q[1] = "KIS"
    <3> DEFINE n == Len(q)
    <3>0. n \in Nat /\ n # 0 /\ n <= 2 /\ n # 2
      BY <2>2, <2>3
    <3> HIDE DEF n
    <3>1. n = 1
      BY <3>0
    <3> QED
      BY <2>1, <2>2, <3>1 DEF n
  <2> QED
    BY <2>1, <2>4, PrefixPoints
<1>4. IsDocument(R) /\ Filled(R)
  BY <1>2, CacheSiblings, RenamedAny, RenamedFilled
<1> HIDE DEF R
<1>5. Filled(S)
  BY <1>3, <1>4, LevelSiblings, RenamedFilled
<1> QED
  BY <1>1, <1>5

(* What lies below an entry lies below its new place.                      *)
LEMMA LintPlaceBelow ==
  ASSUME NEW p \in Paths, p # << >>, NEW q \in Paths, IsPrefix(p, q)
  PROVE  (Moves(p) <=> Moves(q)) /\ IsPrefix(LintPlace(p), LintPlace(q))
<1>1. /\ Len(p) \in Nat /\ Len(q) \in Nat /\ Len(p) <= Len(q) /\ Len(p) >= 1
      /\ \A i \in 1 .. Len(p) : q[i] = p[i]
  BY PrefixPoints, EmptySeq, LenProperties DEF Paths
<1>2. q[1] = p[1] /\ q # << >>
  BY <1>1, EmptySeq
<1>3. Moves(p) <=> Moves(q)
  BY <1>2 DEF Moves
<1>4. CASE ~Moves(p)
  BY <1>3, <1>4, LintPlacePoints
<1>5. CASE Moves(p)
  <2>1. /\ LintPlace(p) \in Paths /\ Len(LintPlace(p)) = Len(p) + 1
        /\ LintPlace(p)[1] = "lint" /\ LintPlace(p)[2] = LintNames[p[1]]
        /\ \A i \in 2 .. Len(p) : LintPlace(p)[i + 1] = p[i]
    BY <1>5, LintPlacePoints
  <2>2. /\ LintPlace(q) \in Paths /\ Len(LintPlace(q)) = Len(q) + 1
        /\ LintPlace(q)[1] = "lint" /\ LintPlace(q)[2] = LintNames[q[1]]
        /\ \A i \in 2 .. Len(q) : LintPlace(q)[i + 1] = q[i]
    BY <1>3, <1>5, LintPlacePoints
  <2> DEFINE u == LintPlace(p)
             v == LintPlace(q)
             n == Len(p)
  <2>3. ASSUME NEW i \in 1 .. n + 1 PROVE v[i] = u[i]
    <3>1. CASE i = 1
      BY <2>1, <2>2, <3>1
    <3>2. CASE i = 2
      BY <1>2, <2>1, <2>2, <3>2
    <3>3. CASE i > 2
      <4> DEFINE j == i - 1
      <4>1. j \in 2 .. Len(p) /\ j \in 2 .. Len(q) /\ j \in 1 .. Len(p) /\ i = j + 1
        BY <1>1, <2>3, <3>3
      <4> HIDE DEF j
      <4> QED
        BY <1>1, <2>1, <2>2, <4>1
    <3> QED
      BY <1>1, <3>1, <3>2, <3>3
  <2>4. n \in Nat /\ Len(q) \in Nat /\ n <= Len(q)
    BY <1>1
  <2> HIDE DEF u, v, n
  <2>5. u \in Paths /\ v \in Paths /\ Len(u) = n + 1 /\ Len(v) = Len(q) + 1
    BY <2>1, <2>2 DEF u, v, n
  <2>6. Len(u) <= Len(v) /\ \A i \in 1 .. Len(u) : v[i] = u[i]
    BY <2>3, <2>4, <2>5
  <2>7. IsPrefix(u, v)
    BY <2>5, <2>6, PrefixPoints
  <2> QED
    BY <1>3, <2>7 DEF u, v
<1> QED
  BY <1>3, <1>4, <1>5

LEMMA LintFilled ==
  ASSUME NEW t, IsDocument(t), Filled(t), ~Has(t, "lint")
  PROVE  Filled(ApplyLintSection(t))
<1> DEFINE S == Spelled(t)
           A == ApplyLintSection(t)
<1>1. /\ DOMAIN A = {LintPlace(p) : p \in DOMAIN S} \cup {q \in {<<"lint">>} : \E p \in DOMAIN S : Moves(p)}
      /\ \A p \in DOMAIN S : A[LintPlace(p)] = S[p]
  BY LintNodes
<1>2. IsDocument(S) /\ Filled(S)
  BY SpelledNodes, SpelledFilled
<1> HIDE DEF S, A
<1>3. DOMAIN S \subseteq Paths /\ << >> \in DOMAIN S /\ << >> \in Paths
  BY <1>2 DEF IsDocument, Paths
<1>4. LintPlace(<< >>) = << >>
  BY DEF LintPlace, Moves
<1>5. IsTable(A)
  BY <1>1, <1>2, <1>3, <1>4 DEF IsTable, Filled
<1>6. ASSUME NEW a \in DOMAIN A \ {<< >>}
      PROVE  \E p \in DOMAIN S \ {<< >>} : \A q \in DOMAIN S : IsPrefix(p, q) /\ S[q] # Branch =>
                \E b \in DOMAIN A : IsPrefix(a, b) /\ A[b] # Branch
  <2>1. CASE \E p \in DOMAIN S : a = LintPlace(p)
    <3>1. PICK p \in DOMAIN S : a = LintPlace(p)
      BY <2>1
    <3>2. p # << >>
      BY <1>4, <3>1
    <3>3. ASSUME NEW q \in DOMAIN S, IsPrefix(p, q), S[q] # Branch
          PROVE  \E b \in DOMAIN A : IsPrefix(a, b) /\ A[b] # Branch
      <4>1. IsPrefix(a, LintPlace(q))
        BY <1>3, <3>1, <3>2, <3>3, LintPlaceBelow
      <4>2. LintPlace(q) \in DOMAIN A /\ A[LintPlace(q)] # Branch
        BY <1>1, <3>3
      <4> QED
        BY <4>1, <4>2
    <3> QED
      BY <3>2, <3>3
  <2>2. CASE a = <<"lint">> /\ \E p \in DOMAIN S : Moves(p)
    <3>1. PICK p \in DOMAIN S : Moves(p)
      BY <2>2
    <3>2. p # << >>
      BY <3>1 DEF Moves
    <3>3. ASSUME NEW q \in DOMAIN S, IsPrefix(p, q), S[q] # Branch
          PROVE  \E b \in DOMAIN A : IsPrefix(a, b) /\ A[b] # Branch
      <4>1. Moves(q) /\ q \in Paths
        BY <1>3, <3>1, <3>2, <3>3, LintPlaceBelow
      <4> DEFINE b == LintPlace(q)
      <4>2. b \in Paths /\ Len(b) >= 1 /\ b[1] = "lint"
        <5>1. b \in Paths /\ Len(b) = Len(q) + 1 /\ b[1] = "lint" /\ Len(q) >= 1
          BY <4>1, LintPlacePoints
        <5>2. Len(q) \in Nat
          BY <4>1, LenProperties DEF Paths
        <5> QED
          BY <5>1, <5>2
      <4>3. b \in DOMAIN A /\ A[b] # Branch
        BY <1>1, <3>3
      <4> HIDE DEF b
      <4>4. "lint" \in Keys
        BY KnownKeys
      <4>5. IsPrefix(a, b)
        BY <2>2, <4>2, <4>4, PrefixOfOne
      <4> QED
        BY <4>3, <4>5
    <3> QED
      BY <3>2, <3>3
  <2> QED
    BY <1>1, <2>1, <2>2
<1>7. Filled(A)
  BY <1>2, <1>5, <1>6, FilledMoved
<1> QED
  BY <1>7 DEF A

(* The same of a renamed table.                                            *)
LEMMA TablePlaceBelow ==
  ASSUME NEW t, IsDocument(t), NEW p \in DOMAIN t, p # << >>, NEW q \in DOMAIN t, IsPrefix(p, q)
  PROVE  IsPrefix(TablePlace(t, p), TablePlace(t, q))
<1> DEFINE u == TablePlace(t, p)
           v == TablePlace(t, q)
           n == Len(p)
<1>1. /\ p \in Paths /\ q \in Paths /\ n \in Nat /\ Len(q) \in Nat /\ n <= Len(q) /\ n >= 1
      /\ \A i \in 1 .. n : q[i] = p[i]
  BY PrefixPoints, EmptySeq, LenProperties DEF Paths, IsDocument
<1>2. CASE ~RenamesTable(t, q)
  <2>1. ~RenamesTable(t, p)
    <3> SUFFICES ASSUME RenamesTable(t, p) PROVE FALSE
      OBVIOUS
    <3>1. Len(p) > 1 /\ p[1] = "lint" /\ p[2] = "unnecessary-import-alias" /\ ~HasPath(t, NewRuleTable)
      BY RenamesPoints
    <3>2. Len(q) > 1 /\ q[1] = "lint" /\ q[2] = "unnecessary-import-alias"
      BY <1>1, <3>1
    <3> QED
      BY <1>2, <3>1, <3>2, RenamesPoints
  <2>2. u = p /\ v = q
    BY <1>2, <2>1, RenamesPoints
  <2> QED
    BY <2>2
<1>3. CASE RenamesTable(t, q)
  <2>1. /\ q[1] = "lint" /\ q[2] = "unnecessary-import-alias" /\ ~HasPath(t, NewRuleTable)
        /\ v \in Paths /\ Len(v) = Len(q) /\ v[1] = "lint" /\ v[2] = "import-alias-policy"
        /\ \A i \in 3 .. Len(q) : v[i] = q[i]
    BY <1>3, RenamesPoints
  <2>2. CASE RenamesTable(t, p)
    <3>1. /\ u \in Paths /\ Len(u) = n /\ u[1] = "lint" /\ u[2] = "import-alias-policy"
          /\ \A i \in 3 .. n : u[i] = p[i]
      BY <2>2, RenamesPoints
    <3> HIDE DEF u, v, n
    <3>2. ASSUME NEW i \in 1 .. n PROVE v[i] = u[i]
      <4>1. CASE i = 1
        BY <2>1, <3>1, <4>1
      <4>2. CASE i = 2
        BY <2>1, <3>1, <4>2
      <4>3. CASE i > 2
        <5>1. i \in 3 .. n /\ i \in 3 .. Len(q)
          BY <1>1, <4>3
        <5> QED
          BY <1>1, <2>1, <3>1, <5>1
      <4> QED
        BY <1>1, <4>1, <4>2, <4>3
    <3>3. IsPrefix(u, v)
      BY <1>1, <2>1, <3>1, <3>2, PrefixPoints
    <3> QED
      BY <3>3 DEF u, v
  <2>3. CASE ~RenamesTable(t, p)
    <3>1. u = p
      BY <2>3, RenamesPoints
    <3>2. n = 1
      <4>1. ASSUME n > 1 PROVE FALSE
        <5>1. p[1] = q[1] /\ p[2] = q[2]
          BY <1>1, <4>1
        <5> QED
          BY <2>1, <2>3, <4>1, <5>1, RenamesPoints
      <4>2. n \in Nat /\ n >= 1
        BY <1>1
      <4> HIDE DEF n
      <4> QED
        BY <4>1, <4>2
    <3>3. \A i \in 1 .. n : v[i] = p[i]
      BY <1>1, <2>1, <3>2
    <3> HIDE DEF u, v
    <3>4. IsPrefix(p, v)
      BY <1>1, <2>1, <3>3, PrefixPoints DEF n
    <3> QED
      BY <3>1, <3>4 DEF u, v
  <2> QED
    BY <2>2, <2>3
<1> QED
  BY <1>2, <1>3

LEMMA RenameFilled ==
  ASSUME NEW t, IsDocument(t), Filled(t), DetectRuleTableRename(t)
  PROVE  Filled(ApplyRuleTableRename(t))
<1> DEFINE A == ApplyRuleTableRename(t)
<1>1. /\ DOMAIN A = {TablePlace(t, p) : p \in DOMAIN t}
      /\ \A p \in DOMAIN t : A[TablePlace(t, p)] = t[p]
  BY RenameKeepsSays
<1> HIDE DEF A
<1>2. << >> \in DOMAIN t /\ TablePlace(t, << >>) = << >>
  BY DEF IsDocument, TablePlace, RenamesTable
<1>3. IsTable(A)
  BY <1>1, <1>2 DEF IsTable, Filled
<1>4. ASSUME NEW a \in DOMAIN A \ {<< >>}
      PROVE  \E p \in DOMAIN t \ {<< >>} : \A q \in DOMAIN t : IsPrefix(p, q) /\ t[q] # Branch =>
                \E b \in DOMAIN A : IsPrefix(a, b) /\ A[b] # Branch
  <2>1. PICK p \in DOMAIN t : a = TablePlace(t, p)
    BY <1>1
  <2>2. p # << >>
    BY <1>2, <2>1
  <2>3. ASSUME NEW q \in DOMAIN t, IsPrefix(p, q), t[q] # Branch
        PROVE  \E b \in DOMAIN A : IsPrefix(a, b) /\ A[b] # Branch
    <3>1. IsPrefix(a, TablePlace(t, q))
      BY <2>1, <2>2, <2>3, TablePlaceBelow
    <3> QED
      BY <1>1, <2>3, <3>1
  <2> QED
    BY <2>2, <2>3
<1>5. Filled(A)
  BY <1>3, <1>4, FilledMoved
<1> QED
  BY <1>5 DEF A

LEMMA MigratedFilled ==
  ASSUME NEW t, IsDocument(t), Filled(t), NeedsMigration(t)
  PROVE  Filled(RunMigrations(t))
<1>1. CASE DetectLintSection(t)
  <2>1. ~Has(t, "lint")
    BY <1>1 DEF DetectLintSection
  <2>2. RunMigrations(t) = ApplyLintSection(t)
    BY <1>1, <2>1, LintKeepsSays DEF RunMigrations
  <2> QED
    BY <2>1, <2>2, LintFilled
<1>2. CASE ~DetectLintSection(t)
  <2>1. DetectRuleTableRename(t) /\ RunMigrations(t) = ApplyRuleTableRename(t)
    BY <1>2 DEF NeedsMigration, RunMigrations
  <2> QED
    BY <2>1, RenameFilled
<1> QED
  BY <1>1, <1>2

(* Without its link a table stays filled and says the rest.                *)
LEMMA CutExtend ==
  ASSUME NEW t, IsDocument(t), Filled(t)
  PROVE  LET C == Cut(t, <<"extend">>)
         IN  /\ IsDocument(C) /\ Filled(C)
             /\ Leaves(C) = {s \in Leaves(t) : ~IsPrefix(<<"extend">>, s.path)}
<1> DEFINE e == <<"extend">>
           C == Cut(t, e)
<1>1. e \in Paths /\ e # << >>
  <2>1. "extend" \in Keys
    BY KnownKeys
  <2> QED
    BY <2>1, ShortSequences, Zenon DEF Paths
<1>2. \A q \in Paths : q # << >> /\ IsPrefix(q, e) => q = e
  <2> SUFFICES ASSUME NEW q \in Paths, q # << >>, IsPrefix(q, e) PROVE q = e
    OBVIOUS
  <2>1. Len(e) = 1
    OBVIOUS
  <2> DEFINE n == Len(q)
  <2>2. n \in Nat /\ n # 0 /\ n <= 1 /\ \A i \in 1 .. n : e[i] = q[i]
    BY <1>1, <2>1, PrefixPoints, EmptySeq, LenProperties DEF Paths
  <2> HIDE DEF e, n
  <2>3. n = 1
    BY <2>2
  <2>4. \A i \in 1 .. Len(q) : q[i] = e[i]
    BY <2>2 DEF n
  <2> QED
    BY <1>1, <2>1, <2>3, <2>4, SeqEqual DEF Paths, n
<1> HIDE DEF e
<1>3. /\ IsDocument(C)
      /\ DOMAIN C = {q \in DOMAIN t : ~IsPrefix(e, q)}
      /\ \A q \in DOMAIN C : C[q] = t[q]
  BY <1>1, CutNodes
<1> HIDE DEF C
<1>4. DOMAIN t \subseteq Paths /\ << >> \in DOMAIN C
  BY <1>3 DEF IsDocument, Paths
<1>5. IsTable(C)
  BY <1>3, <1>4 DEF IsTable, Filled
<1>6. ASSUME NEW a \in DOMAIN C \ {<< >>}
      PROVE  \E p \in DOMAIN t \ {<< >>} : \A q \in DOMAIN t : IsPrefix(p, q) /\ t[q] # Branch =>
                \E b \in DOMAIN C : IsPrefix(a, b) /\ C[b] # Branch
  <2>1. a \in DOMAIN t \ {<< >>} /\ a \in Paths /\ ~IsPrefix(e, a)
    BY <1>3, <1>4
  <2>2. ASSUME NEW q \in DOMAIN t, IsPrefix(a, q), t[q] # Branch
        PROVE  q \in DOMAIN C /\ C[q] # Branch
    <3>1. ~IsPrefix(a, e)
      BY <1>1, <1>2, <2>1, PrefixOrder
    <3>2. ~IsPrefix(e, q)
      BY <1>1, <1>4, <2>1, <2>2, <3>1, PrefixOrder
    <3> QED
      BY <1>3, <2>2, <3>2
  <2> QED
    BY <2>1, <2>2
<1>7. Filled(C)
  BY <1>5, <1>6, FilledMoved
<1>8. Leaves(C) = {s \in Leaves(t) : ~IsPrefix(e, s.path)}
  <2>1. ASSUME NEW s PROVE s \in Leaves(C) <=> s \in Leaves(t) /\ ~IsPrefix(e, s.path)
    <3>1. ASSUME s \in Leaves(C) PROVE s \in Leaves(t) /\ ~IsPrefix(e, s.path)
      <4>1. PICK p \in DOMAIN C : C[p] # Branch /\ s = [path |-> p, val |-> C[p]]
        BY <3>1, LeafOf
      <4> QED
        BY <1>3, <4>1, LeafOf
    <3>2. ASSUME s \in Leaves(t), ~IsPrefix(e, s.path) PROVE s \in Leaves(C)
      <4>1. PICK p \in DOMAIN t : t[p] # Branch /\ s = [path |-> p, val |-> t[p]]
        BY <3>2, LeafOf
      <4> QED
        BY <1>3, <3>2, <4>1, LeafOf
    <3> QED
      BY <3>1, <3>2
  <2> QED
    BY <2>1
<1> QED
  BY <1>3, <1>7, <1>8 DEF C, e

-----------------------------------------------------------------------------
(* One file's share in what a load gives.                                  *)

Current(f, doc) == ~Outdated(doc, IsPyproject(f))
SectionOf(f, doc) ==
    IF HasKonform(doc, IsPyproject(f)) THEN KonformSection(doc, IsPyproject(f)) ELSE EmptyTable

LEMMA EmptySays == IsDocument(EmptyTable) /\ Filled(EmptyTable) /\ Leaves(EmptyTable) = {}
<1>1. IsDocument(EmptyTable)
  BY EmptyIsCurrent
<1>2. DOMAIN EmptyTable = {<< >>} /\ EmptyTable[<< >>] = Branch
  BY DEF EmptyTable, Leaf
<1> QED
  BY <1>1, <1>2, LeafOf DEF Filled, IsTable

(* A section in today's shape says what it holds.                          *)
LEMMA SectionTells ==
  ASSUME NEW f \in Files, NEW c, IsContent(c), c.status = "toml", FilledIn(f, c.doc), Current(f, c.doc)
  PROVE  LET section == SectionOf(f, c.doc)
         IN  IsDocument(section) /\ Filled(section) /\ SectionSays(f, c) = Leaves(section)
<1> DEFINE py == IsPyproject(f)
           p == KonformPath(c.doc, py)
<1>1. IsDocument(c.doc)
  BY DEF IsContent, Absent, Unreadable, Garbled, Toml
<1>2. CASE HasKonform(c.doc, py)
  <2>1. p \in DOMAIN c.doc
    BY <1>2 DEF HasKonform, HasPath
  <2>2. IsDocument(KonformSection(c.doc, py))
    BY <1>1, <2>1, AtPathDocument DEF KonformSection
  <2>3. Filled(KonformSection(c.doc, py)) /\ IsTable(KonformSection(c.doc, py))
    BY <1>2 DEF FilledIn, Filled
  <2>4. ~NeedsMigration(KonformSection(c.doc, py))
    BY <1>2, <2>3 DEF Current, Outdated
  <2>5. Says(KonformSection(c.doc, py)) = Leaves(KonformSection(c.doc, py))
    BY <2>2, <2>4, CurrentSays
  <2> QED
    BY <1>2, <2>2, <2>3, <2>5 DEF SectionOf, SectionSays
<1>3. CASE ~HasKonform(c.doc, py)
  BY <1>3, EmptySays DEF SectionOf, SectionSays
<1> QED
  BY <1>2, <1>3

(* What a load makes of a file it can read is what its user said.           *)
Layered(f, layer) ==
    IsDocument(layer) /\ Filled(layer) /\ Leaves(layer) = OwnSettings(f) /\ wrote[f].status = "toml"

(* The layer and the link that a load takes from a file.                   *)
LEMMA LayerTold ==
  ASSUME NEW f \in Files, NEW c, IsContent(c), c.status = "toml", FilledIn(f, c.doc), Current(f, c.doc),
         Alike(f, c, wrote[f])
  PROVE  LET section == SectionOf(f, c.doc)
         IN  /\ Layered(f, Cut(section, <<"extend">>))
             /\ Has(section, "extend") <=> Link(f) # {}
             /\ Has(section, "extend") =>
                   \A t \in Files : Extends(f, t) <=> At(section, "extend")[<< >>] = t
<1> DEFINE section == SectionOf(f, c.doc)
           e == <<"extend">>
<1>1. IsDocument(section) /\ Filled(section) /\ SectionSays(f, c) = Leaves(section)
  BY SectionTells, Zenon
<1>2. wrote[f].status = "toml" /\ SectionSays(f, wrote[f]) = Leaves(section)
  BY <1>1 DEF Alike
<1> HIDE DEF section
<1>3. e \in Paths /\ e # << >> /\ e \o << >> = e /\ << >> \in Paths
  <2>1. "extend" \in Keys
    BY KnownKeys
  <2>2. e \in Paths
    BY <2>1, ShortSequences, Zenon DEF Paths
  <2> QED
    BY <2>2, ConcatEmptySeq, EmptySeq DEF Paths
<1>4. LET C == Cut(section, <<"extend">>)
      IN  /\ IsDocument(C) /\ Filled(C)
          /\ Leaves(C) = {s \in Leaves(section) : ~IsPrefix(<<"extend">>, s.path)}
  BY <1>1, CutExtend, Zenon
<1>5. Link(f) = {s \in Leaves(section) : IsPrefix(e, s.path)}
  BY <1>2 DEF Link
<1>6. OwnSettings(f) = {s \in Leaves(section) : ~IsPrefix(e, s.path)}
  BY <1>2, <1>5 DEF OwnSettings
<1>7. Layered(f, Cut(section, <<"extend">>))
  BY <1>2, <1>4, <1>6 DEF Layered
<1> HIDE DEF e
<1>8. DOMAIN section \subseteq Paths
  BY <1>1 DEF IsDocument, Paths
<1>9. Has(section, "extend") <=> e \in DOMAIN section
  BY DEF Has, HasPath, e
<1>10. Has(section, "extend") <=> Link(f) # {}
  <2>1. ASSUME e \in DOMAIN section PROVE Link(f) # {}
    <3>1. PICK q \in DOMAIN section : IsPrefix(e, q) /\ section[q] # Branch
      BY <1>1, <1>3, <2>1, FilledLeaf
    <3> DEFINE s == [path |-> q, val |-> section[q]]
    <3>2. s \in Leaves(section) /\ s.path = q
      BY <3>1, LeafOf
    <3> QED
      BY <1>5, <3>1, <3>2
  <2>2. ASSUME Link(f) # {} PROVE e \in DOMAIN section
    <3>1. PICK s \in Leaves(section) : IsPrefix(e, s.path)
      BY <1>5, <2>2
    <3>2. s.path \in DOMAIN section
      BY <3>1, LeafOf
    <3> QED
      BY <1>1, <1>3, <3>1, <3>2, DocumentPrefix
  <2> QED
    BY <1>9, <2>1, <2>2
<1>11. ASSUME Has(section, "extend"), NEW t \in Files
       PROVE  Extends(f, t) <=> At(section, "extend")[<< >>] = t
  <2>1. At(section, "extend")[<< >>] = section[e]
    <3>1. /\ \A r \in Paths : r \in DOMAIN AtPath(section, e) <=> e \o r \in DOMAIN section
          /\ \A r \in DOMAIN AtPath(section, e) : AtPath(section, e)[r] = section[e \o r]
      BY <1>3, <1>8, AtPathNodes
    <3>2. AtPath(section, e)[<< >>] = section[e]
      BY <1>3, <1>9, <1>11, <3>1
    <3> QED
      BY <3>2 DEF At, e
  <2>2. t # Branch
    BY TreeAssumption
  <2>3. ASSUME Extends(f, t) PROVE section[e] = t
    <3>1. PICK s \in Leaves(section) : s.path = e /\ s.val = t
      BY <1>5, <2>3 DEF Extends, e
    <3> QED
      BY <3>1, LeafOf
  <2>4. ASSUME section[e] = t PROVE Extends(f, t)
    <3> DEFINE s == [path |-> e, val |-> section[e]]
    <3>1. s \in Leaves(section) /\ s.path = e /\ s.val = t
      BY <1>9, <1>11, <2>2, <2>4, LeafOf
    <3>2. IsPrefix(e, e)
      BY <1>3, PrefixOrder
    <3>3. s \in Link(f)
      BY <1>5, <3>1, <3>2
    <3> QED
      BY <3>1, <3>3 DEF Extends, e
  <2> QED
    BY <2>1, <2>3, <2>4
<1> QED
  BY <1>7, <1>10, <1>11 DEF section

Complete(laid) == \A s \in laid : s.val # Misfit

(* What is expected, and what a load gives, where its layers are the users'.*)
LEMMA ExpectedSays ==
  ASSUME NEW chain, wrote[chain[1]].status = "toml", NEW laid,
         laid = LastWords([i \in 1 .. IF Whole(chain) THEN Len(chain) ELSE 1 |-> OwnSettings(chain[i])])
  PROVE  /\ Expected(chain).errors =
               (IF Whole(chain) THEN {} ELSE {"extend"}) \cup (IF Complete(laid) THEN {} ELSE {"settings"})
         /\ Expected(chain).says = IF Complete(laid) THEN laid ELSE {}
BY DEF Expected, Complete

LEMMA LoadedSays ==
  ASSUME NEW me, NEW settings, NEW errors, NEW ruff
  PROVE  LET r == Loaded(me, settings, errors, ruff)
             laid == Leaves(settings)
         IN  /\ r.file = me.chain[1]
             /\ r.errors = errors \cup (IF Complete(laid) THEN {} ELSE {"settings"})
             /\ Leaves(r.settings) = IF Complete(laid) THEN laid ELSE {}
BY EmptySays DEF Loaded, Complete, Fits, Result, Defaults

LEMMA OneLayer ==
  ASSUME NEW S, NEW says, DOMAIN says = 1 .. 1, says[1] = S
  PROVE  LastWords(says) = S
<1>1. 1 .. 1 = {1} /\ 1 .. 1 - 1 = {}
  OBVIOUS
<1>2. ASSUME NEW s PROVE s \in LastWords(says) <=> s \in S
  BY <1>1 DEF LastWords
<1> QED
  BY <1>2

(* A load has come this way, and each layer is what a user said.           *)
CameThisWay(x) ==
    /\ Len(x.chain) = Len(x.layers) + 1 /\ x.chain[Len(x.chain)] = x.file
    /\ \A i \in DOMAIN x.layers :
          Layered(x.chain[i], x.layers[i]) /\ Extends(x.chain[i], x.chain[i + 1])

Told(r, chain) ==
    /\ r.file = chain[1] /\ Followed(chain)
    /\ r.errors = Expected(chain).errors
    /\ Leaves(r.settings) = Expected(chain).says

(* Layers agree with what the users on the way said.                       *)
LEMMA LayersSay ==
  ASSUME NEW n \in Nat \ {0}, NEW layers, Len(layers) = n, DOMAIN layers = 1 .. n, NEW chain,
         \A i \in 1 .. n : Layered(chain[i], layers[i])
  PROVE  Leaves(Merged(layers)) = LastWords([i \in 1 .. n |-> OwnSettings(chain[i])])
<1>1. \A i \in DOMAIN layers : IsDocument(layers[i]) /\ Filled(layers[i])
  BY DEF Layered
<1>2. Leaves(Merged(layers)) = LastWords([i \in 1 .. n |-> Leaves(layers[i])])
  BY <1>1, MergedSays
<1>3. [i \in 1 .. n |-> Leaves(layers[i])] = [i \in 1 .. n |-> OwnSettings(chain[i])]
  BY DEF Layered
<1> QED
  BY <1>2, <1>3

(* A load that ends with a broken chain keeps its first file.              *)
LEMMA BrokenTold ==
  ASSUME NEW me, NEW layer, Layered(me.chain[1], layer), ~Whole(me.chain), Followed(me.chain), NEW ruff
  PROVE  Told(Loaded(me, layer, {"extend"}, ruff), me.chain)
<1> DEFINE laid == Leaves(layer)
           says == [i \in 1 .. 1 |-> OwnSettings(me.chain[i])]
           r == Loaded(me, layer, {"extend"}, ruff)
<1>1. laid = OwnSettings(me.chain[1]) /\ wrote[me.chain[1]].status = "toml"
  BY DEF Layered
<1>2. DOMAIN says = 1 .. 1 /\ says[1] = laid
  BY <1>1
<1>3. says = [i \in 1 .. IF Whole(me.chain) THEN Len(me.chain) ELSE 1 |-> OwnSettings(me.chain[i])]
  OBVIOUS
<1> HIDE DEF says, laid
<1>4. laid = LastWords(says)
  BY <1>2, OneLayer
<1>5. /\ Expected(me.chain).errors = {"extend"} \cup (IF Complete(laid) THEN {} ELSE {"settings"})
      /\ Expected(me.chain).says = IF Complete(laid) THEN laid ELSE {}
  BY <1>1, <1>3, <1>4, ExpectedSays
<1>6. /\ r.file = me.chain[1]
      /\ r.errors = {"extend"} \cup (IF Complete(laid) THEN {} ELSE {"settings"})
      /\ Leaves(r.settings) = IF Complete(laid) THEN laid ELSE {}
  BY LoadedSays, Zenon DEF laid
<1> QED
  BY <1>5, <1>6 DEF Told

(* A load that ends with a whole chain merges all of it.                   *)
LEMMA WholeTold ==
  ASSUME NEW me, NEW n \in Nat \ {0}, Len(me.chain) = n, NEW layers, Len(layers) = n, DOMAIN layers = 1 .. n,
         \A i \in 1 .. n : Layered(me.chain[i], layers[i]),
         Whole(me.chain), Followed(me.chain), NEW ruff
  PROVE  Told(Loaded(me, Merged(layers), {}, ruff), me.chain)
<1> DEFINE laid == Leaves(Merged(layers))
           says == [i \in 1 .. n |-> OwnSettings(me.chain[i])]
           r == Loaded(me, Merged(layers), {}, ruff)
<1>1. wrote[me.chain[1]].status = "toml"
  BY DEF Layered
<1>2. laid = LastWords(says)
  BY LayersSay
<1>3. says = [i \in 1 .. IF Whole(me.chain) THEN Len(me.chain) ELSE 1 |-> OwnSettings(me.chain[i])]
  OBVIOUS
<1> HIDE DEF says, laid
<1>5. /\ Expected(me.chain).errors = {} \cup (IF Complete(laid) THEN {} ELSE {"settings"})
      /\ Expected(me.chain).says = IF Complete(laid) THEN laid ELSE {}
  BY <1>1, <1>2, <1>3, ExpectedSays
<1>6. /\ r.file = me.chain[1]
      /\ r.errors = {} \cup (IF Complete(laid) THEN {} ELSE {"settings"})
      /\ Leaves(r.settings) = IF Complete(laid) THEN laid ELSE {}
  BY LoadedSays, Zenon DEF laid
<1> QED
  BY <1>5, <1>6 DEF Told

(* The first file alone, when it says nothing or cannot be read.           *)
LEMMA PlainTold ==
  ASSUME NEW f \in Files, NEW me, NEW errors,
         \/ wrote[f].status # "toml" /\ errors = {"unusable"}
         \/ wrote[f].status = "toml" /\ SectionSays(f, wrote[f]) = {} /\ errors = {}
  PROVE  Told(Result(f, << >>, errors, Defaults, DefaultSrc, DirOf[f], me), <<f>>)
<1> DEFINE r == Result(f, << >>, errors, Defaults, DefaultSrc, DirOf[f], me)
           chain == <<f>>
<1>1. r.file = f /\ r.errors = errors /\ Leaves(r.settings) = {}
  BY EmptySays DEF Result, Defaults
<1>2. Len(chain) = 1 /\ chain[1] = f /\ Last(chain) = f /\ 1 .. Len(chain) - 1 = {}
  BY DEF Last
<1> HIDE DEF r, chain
<1>3. CASE wrote[f].status # "toml" /\ errors = {"unusable"}
  <2>1. Expected(chain).errors = {"unusable"} /\ Expected(chain).says = {}
    BY <1>2, <1>3 DEF Expected
  <2>2. Followed(chain)
    BY <1>2, <1>3 DEF Followed
  <2>3. Told(r, chain)
    BY <1>1, <1>2, <1>3, <2>1, <2>2 DEF Told
  <2> QED
    BY <2>3 DEF r, chain
<1>4. CASE wrote[f].status = "toml" /\ SectionSays(f, wrote[f]) = {} /\ errors = {}
  <2>1. Whole(chain) /\ Followed(chain)
    BY <1>2, <1>4 DEF Followed, Whole, Link
  <2> DEFINE says == [i \in 1 .. 1 |-> OwnSettings(chain[i])]
  <2>2. DOMAIN says = 1 .. 1 /\ says[1] = {}
    BY <1>2, <1>4 DEF OwnSettings
  <2>3. says = [i \in 1 .. IF Whole(chain) THEN Len(chain) ELSE 1 |-> OwnSettings(chain[i])]
    BY <1>2
  <2> HIDE DEF says
  <2>4. LastWords(says) = {}
    BY <2>2, OneLayer
  <2>5. /\ Expected(chain).errors = {}
        /\ Expected(chain).says = {}
    <3>1. /\ Expected(chain).errors = {} \cup (IF Complete({}) THEN {} ELSE {"settings"})
          /\ Expected(chain).says = IF Complete({}) THEN {} ELSE {}
      BY <1>2, <1>4, <2>1, <2>3, <2>4, ExpectedSays
    <3> QED
      BY <3>1 DEF Complete
  <2>6. Told(r, chain)
    BY <1>1, <1>2, <1>4, <2>1, <2>5 DEF Told
  <2> QED
    BY <2>6 DEF r, chain
<1> QED
  BY <1>3, <1>4

-----------------------------------------------------------------------------
(* The steps of an undisturbed load.                                       *)

Onward(me, target, ruff, layer) ==
    [me EXCEPT !.pc = "read", !.file = target, !.ruff = ruff,
               !.layers = Append(me.layers, layer), !.chain = Append(me.chain, target)]

(* A way one file longer.                                                  *)
LEMMA OnwardCame ==
  ASSUME NEW me, IsLoader(me), me.pc # "idle", CameThisWay(me), NEW target \in Files, NEW ruff, NEW layer,
         Layered(me.file, layer), Extends(me.file, target)
  PROVE  LET x == Onward(me, target, ruff, layer)
         IN  /\ x.pc = "read" /\ x.calm = me.calm /\ CameThisWay(x)
             /\ DOMAIN x.layers = DOMAIN me.chain
             /\ \A i \in DOMAIN x.layers : x.chain[i] = me.chain[i]
<1> DEFINE x == Onward(me, target, ruff, layer)
           n == Len(me.layers)
           S == ToSet(me.layers) \cup {layer}
           layers == Append(me.layers, layer)
           chain == Append(me.chain, target)
<1>1. /\ DOMAIN me = {"pc", "start", "file", "text", "ruff", "chain", "layers", "calm"}
      /\ me.chain \in Seq(Files) /\ me.layers \in Seq(ToSet(me.layers))
  BY DEF IsLoader
<1>2. /\ x.pc = "read" /\ x.calm = me.calm /\ x.file = target
      /\ x.layers = layers /\ x.chain = chain
  BY <1>1 DEF Onward
<1>3. me.layers \in Seq(S)
  BY <1>1, SeqMonotonic
<1>4. n \in Nat /\ DOMAIN me.layers = 1 .. n
  BY <1>3, LenProperties
<1>5. /\ Len(me.chain) = n + 1 /\ DOMAIN me.chain = 1 .. n + 1 /\ me.chain[n + 1] = me.file
      /\ \A i \in 1 .. n : Layered(me.chain[i], me.layers[i]) /\ Extends(me.chain[i], me.chain[i + 1])
  BY <1>1, <1>4, LenProperties DEF CameThisWay
<1> HIDE DEF n
<1>6. /\ Len(layers) = n + 1 /\ DOMAIN layers = 1 .. n + 1 /\ layers[n + 1] = layer
      /\ \A i \in 1 .. n : layers[i] = me.layers[i]
  BY <1>3, <1>4, AppendProperties, LenProperties DEF n
<1>7. /\ Len(chain) = n + 2 /\ chain[n + 2] = target
      /\ \A i \in 1 .. n + 1 : chain[i] = me.chain[i]
  <2>1. /\ chain \in Seq(Files) /\ Len(chain) = Len(me.chain) + 1
        /\ \A i \in 1 .. Len(me.chain) : chain[i] = me.chain[i]
        /\ chain[Len(me.chain) + 1] = target
    BY <1>1, AppendProperties
  <2>2. (n + 1) + 1 = n + 2
    BY <1>4
  <2> HIDE DEF chain
  <2> QED
    BY <1>5, <2>1, <2>2
<1> HIDE DEF x, layers, chain
<1>8. ASSUME NEW i \in 1 .. n + 1
      PROVE  Layered(chain[i], layers[i]) /\ Extends(chain[i], chain[i + 1])
  <2>1. CASE i \in 1 .. n
    <3>1. i + 1 \in 1 .. n + 1
      BY <1>4, <2>1
    <3> QED
      BY <1>5, <1>6, <1>7, <1>8, <2>1, <3>1
  <2>2. CASE i = n + 1
    <3>1. i + 1 = n + 2
      BY <1>4, <2>2
    <3> QED
      BY <1>5, <1>6, <1>7, <1>8, <2>2, <3>1
  <2> QED
    BY <1>4, <2>1, <2>2
<1>9. CameThisWay(x)
  <2>1. n + 2 = (n + 1) + 1
    BY <1>4
  <2> QED
    BY <1>2, <1>6, <1>7, <1>8, <2>1 DEF CameThisWay
<1> QED
  BY <1>2, <1>5, <1>6, <1>7, <1>9 DEF x

(* The files that are there are those that users have put there.           *)
Present == \A f \in Files : IsFile(f) <=> wrote[f].status # "absent"

(* A load ends with what its users said; or it goes on to one more file.   *)
EndsTold(l, me) == \E r : Done(l, me, r) /\ Told(r, me.chain)
GoesOnTold(l, me) ==
    \E x : /\ loader' = [loader EXCEPT ![l] = x]
           /\ x.pc = "read" /\ x.calm = me.calm /\ CameThisWay(x)
           /\ DOMAIN x.layers = DOMAIN me.chain
           /\ \A i \in DOMAIN x.layers : x.chain[i] = me.chain[i]

(* What a load does with a file that says what its user wrote.             *)
LEMMA TakeTold ==
  ASSUME NEW l, NEW me, IsLoader(me), me.pc # "idle", CameThisWay(me),
         NEW c, IsContent(c), FilledIn(me.file, c.doc), Current(me.file, c.doc),
         Alike(me.file, c, wrote[me.file]),
         Present, Take(l, me, c)
  PROVE  EndsTold(l, me) \/ GoesOnTold(l, me)
<1> DEFINE f == me.file
           isRoot == me.layers = << >>
           usable == c.status = "toml"
           hasSection == HasKonform(c.doc, IsPyproject(f))
           section == SectionOf(f, c.doc)
           layer == Cut(section, <<"extend">>)
           layers == Append(me.layers, layer)
           ruff == IF isRoot THEN c.doc ELSE me.ruff
           target == At(section, "extend")[<< >>]
           n == Len(me.layers)
           Plain(errors) == Result(f, << >>, errors, Defaults, DefaultSrc, DirOf[f], me)
<1>1. f \in Files /\ me.chain \in Seq(Files) /\ me.layers \in Seq(ToSet(me.layers))
  BY DEF IsLoader
<1>2. /\ n \in Nat /\ DOMAIN me.layers = 1 .. n /\ Len(me.chain) = n + 1
      /\ me.chain[n + 1] = f /\ Last(me.chain) = f
      /\ \A i \in 1 .. n : Layered(me.chain[i], me.layers[i]) /\ Extends(me.chain[i], me.chain[i + 1])
  BY <1>1, LenProperties DEF CameThisWay, Last
<1>3. isRoot => n = 0 /\ me.chain = <<f>>
  BY EmptySeq DEF IsLoader
<1>4. ~isRoot => n \in Nat \ {0} /\ 1 \in 1 .. n
  BY <1>1, <1>2, EmptySeq
<1>5. wrote[f].status = c.status
  BY DEF Alike
<1>6. usable => /\ Layered(f, layer)
                /\ Has(section, "extend") <=> Link(f) # {}
                /\ Has(section, "extend") => \A t \in Files : Extends(f, t) <=> target = t
  BY <1>1, LayerTold, Zenon
<1>7. \A i \in 1 .. Len(me.chain) - 1 : Extends(me.chain[i], me.chain[i + 1])
  <2>1. Len(me.chain) - 1 = n
    BY <1>2
  <2> HIDE DEF n
  <2> QED
    BY <1>2, <2>1
<1>8. Whole(me.chain) <=> usable /\ Link(f) = {}
  BY <1>2, <1>5 DEF Whole
<1>9. \/ /\ ~usable /\ isRoot
         /\ Done(l, me, Plain({"unusable"}))
      \/ /\ ~usable /\ ~isRoot
         /\ Done(l, me, Loaded(me, me.layers[1], {"extend"}, ruff))
      \/ /\ usable /\ isRoot /\ ~hasSection
         /\ Done(l, me, Plain({}))
      \/ /\ usable /\ ~Has(section, "extend")
         /\ Done(l, me, Loaded(me, Merged(layers), {}, ruff))
      \/ /\ usable /\ Has(section, "extend")
         /\ BrokenLink(target, me.chain)
         /\ Done(l, me, Loaded(me, layers[1], {"extend"}, ruff))
      \/ /\ usable /\ Has(section, "extend")
         /\ ~BrokenLink(target, me.chain)
         /\ loader' = [loader EXCEPT ![l] =
                [me EXCEPT !.pc = "read", !.file = target, !.ruff = ruff,
                           !.layers = layers, !.chain = Append(@, target)]]
  BY Zenon DEF Take, SectionOf
<1> HIDE DEF section, layer
<1>10. CASE ~usable /\ isRoot /\ Done(l, me, Plain({"unusable"}))
  <2>1. Told(Plain({"unusable"}), <<f>>)
    BY <1>1, <1>5, <1>10, PlainTold
  <2> HIDE DEF Plain
  <2> QED
    BY <1>3, <1>10, <2>1 DEF EndsTold
<1>11. CASE ~usable /\ ~isRoot /\ Done(l, me, Loaded(me, me.layers[1], {"extend"}, ruff))
  <2>1. Followed(me.chain)
    BY <1>2, <1>5, <1>7, <1>11 DEF Followed
  <2>2. Layered(me.chain[1], me.layers[1])
    BY <1>2, <1>4, <1>11
  <2>3. Told(Loaded(me, me.layers[1], {"extend"}, ruff), me.chain)
    BY <1>8, <1>11, <2>1, <2>2, BrokenTold
  <2> HIDE DEF ruff
  <2> QED
    BY <1>11, <2>3, Zenon DEF EndsTold
<1>12. CASE usable /\ isRoot /\ ~hasSection /\ Done(l, me, Plain({}))
  <2>1. wrote[f].status = "toml" /\ SectionSays(f, wrote[f]) = {}
    BY <1>5, <1>12 DEF Alike, SectionSays
  <2>2. Told(Plain({}), <<f>>)
    BY <1>1, <2>1, PlainTold
  <2> HIDE DEF Plain
  <2> QED
    BY <1>3, <1>12, <2>2 DEF EndsTold
<1>13. ASSUME usable
       PROVE  /\ Len(layers) = n + 1 /\ DOMAIN layers = 1 .. n + 1
              /\ \A i \in 1 .. n + 1 : Layered(me.chain[i], layers[i])
  <2> DEFINE S == ToSet(me.layers) \cup {layer}
  <2>1. me.layers \in Seq(S)
    BY <1>1, SeqMonotonic
  <2>2. /\ Len(layers) = n + 1 /\ DOMAIN layers = 1 .. n + 1 /\ layers[n + 1] = layer
        /\ \A i \in 1 .. n : layers[i] = me.layers[i]
    BY <1>2, <2>1, AppendProperties, LenProperties
  <2> HIDE DEF layers, n
  <2>3. Layered(f, layer)
    BY <1>6, <1>13
  <2>4. \A i \in 1 .. n + 1 : i = n + 1 \/ i \in 1 .. n
    BY <1>2
  <2> QED
    BY <1>2, <2>2, <2>3, <2>4
<1>14. CASE usable /\ ~Has(section, "extend") /\ Done(l, me, Loaded(me, Merged(layers), {}, ruff))
  <2>1. Whole(me.chain) /\ Followed(me.chain)
    BY <1>6, <1>7, <1>8, <1>14 DEF Followed
  <2> DEFINE m == n + 1
  <2>2. m \in Nat \ {0} /\ Len(me.chain) = m
    BY <1>2
  <2> HIDE DEF layers, ruff, n
  <2>3. Len(layers) = m /\ DOMAIN layers = 1 .. m /\ \A i \in 1 .. m : Layered(me.chain[i], layers[i])
    BY <1>13, <1>14
  <2> HIDE DEF m
  <2>4. Told(Loaded(me, Merged(layers), {}, ruff), me.chain)
    BY <2>1, <2>2, <2>3, WholeTold
  <2> QED
    BY <1>14, <2>4, Zenon DEF EndsTold
<1>15. CASE /\ usable /\ Has(section, "extend") /\ BrokenLink(target, me.chain)
            /\ Done(l, me, Loaded(me, layers[1], {"extend"}, ruff))
  <2>1. ~Whole(me.chain)
    BY <1>6, <1>8, <1>15
  <2>2. ASSUME NEW t \in Files, Extends(f, t)
        PROVE  t \in ToSet(me.chain) \/ wrote[t].status = "absent"
    <3>1. target = t
      BY <1>6, <1>15, <2>2
    <3> QED
      BY <1>15, <3>1 DEF BrokenLink, Present
  <2>3. Followed(me.chain)
    BY <1>2, <1>7, <2>2 DEF Followed
  <2>4. Layered(me.chain[1], layers[1])
    <3>1. 1 \in 1 .. n + 1
      BY <1>2
    <3> HIDE DEF layers, n
    <3> QED
      BY <1>13, <1>15, <3>1
  <2> HIDE DEF layers, ruff, target
  <2>5. Told(Loaded(me, layers[1], {"extend"}, ruff), me.chain)
    BY <2>1, <2>3, <2>4, BrokenTold
  <2> QED
    BY <1>15, <2>5, Zenon DEF EndsTold
<1>16. CASE /\ usable /\ Has(section, "extend") /\ ~BrokenLink(target, me.chain)
            /\ loader' = [loader EXCEPT ![l] =
                [me EXCEPT !.pc = "read", !.file = target, !.ruff = ruff,
                           !.layers = layers, !.chain = Append(@, target)]]
  <2>1. target \in Files
    BY <1>16 DEF BrokenLink
  <2>2. Extends(f, target) /\ Layered(f, layer)
    BY <1>6, <1>16, <2>1
  <2> DEFINE x == Onward(me, target, ruff, layer)
  <2>3. loader' = [loader EXCEPT ![l] = x]
    BY <1>16 DEF Onward
  <2> HIDE DEF target, ruff
  <2>4. /\ x.pc = "read" /\ x.calm = me.calm /\ CameThisWay(x)
        /\ DOMAIN x.layers = DOMAIN me.chain
        /\ \A i \in DOMAIN x.layers : x.chain[i] = me.chain[i]
    BY <2>1, <2>2, OnwardCame
  <2> HIDE DEF x
  <2> QED
    BY <2>3, <2>4 DEF GoesOnTold
<1> QED
  BY <1>9, <1>10, <1>11, <1>12, <1>14, <1>15, <1>16, Zenon

-----------------------------------------------------------------------------
(* The invariant.                                                          *)

(* No konform table anywhere has an empty one in it, and what a file is     *)
(* about to be rewritten with needs no second rewrite.                     *)
SoundTexts ==
    /\ crashes \in Nat
    /\ \A f \in Files : FilledIn(f, disk[f].doc)
    /\ \A l \in Loaders : Rewriting(l) =>
          FilledIn(loader[l].file, loader[l].text) /\ Current(loader[l].file, loader[l].text)

(* No file a load has read and may write is still in the old shape.        *)
Upgraded(x) ==
    \A i \in DOMAIN x.layers :
        x.chain[i] \notin ReadOnly => Current(x.chain[i], disk[x.chain[i]].doc)

AsTold(l) ==
    /\ CameThisWay(loader[l]) /\ Upgraded(loader[l])
    /\ Rewriting(l) =>
          Alike(loader[l].file, Toml(loader[l].text), wrote[loader[l].file]) /\ Present

TellInv == SoundTexts /\ \A l \in Loaders : loader[l].pc # "idle" /\ loader[l].calm => AsTold(l)

LEMMA CameInFiles ==
  ASSUME NEW x, IsLoader(x), CameThisWay(x)
  PROVE  /\ Len(x.layers) \in Nat /\ DOMAIN x.layers = 1 .. Len(x.layers)
         /\ DOMAIN x.chain = 1 .. Len(x.layers) + 1 /\ x.chain[Len(x.layers) + 1] = x.file
         /\ \A i \in 1 .. Len(x.layers) + 1 : x.chain[i] \in Files
<1>1. x.chain \in Seq(Files) /\ x.layers \in Seq(ToSet(x.layers))
  BY DEF IsLoader
<1>2. Len(x.layers) \in Nat /\ DOMAIN x.layers = 1 .. Len(x.layers) /\ DOMAIN x.chain = 1 .. Len(x.chain)
  BY <1>1, LenProperties
<1>3. Len(x.chain) = Len(x.layers) + 1 /\ x.chain[Len(x.chain)] = x.file
  BY DEF CameThisWay
<1>4. \A i \in DOMAIN x.chain : x.chain[i] \in Files
  BY <1>1, <1>2, ElementOfSeq
<1> QED
  BY <1>2, <1>3, <1>4

(* Without a kill or a save that cuts across a rewrite every file is where  *)
(* its user left it.                                                       *)
LEMMA NothingLost ==
  ASSUME RewriteInv, spoiled = {}
  PROVE  Present
<1> SUFFICES ASSUME NEW f \in Files PROVE IsFile(f) <=> wrote[f].status # "absent"
  BY DEF Present
<1>1. MeaningKept(f)
  BY DEF RewriteInv
<1>2. CASE Alike(f, disk[f], wrote[f])
  BY <1>2 DEF Alike, IsFile
<1>3. CASE disk[f] = EmptyFile /\ \E l \in Loaders : Writing(l, f)
  <2>1. PICK l \in Loaders : Rewriting(l) /\ loader[l].file = f
    BY <1>3 DEF Writing, Rewriting
  <2>2. wrote[f].status = "toml"
    BY <1>1, <2>1 DEF MeaningKept, Alike, Toml
  <2> QED
    BY <1>3, <2>2 DEF IsFile, EmptyFile, Toml
<1> QED
  BY <1>1, <1>2, <1>3 DEF MeaningKept

(* An undisturbed reader reads what means the same as what its user wrote.  *)
LEMMA ReadsWritten ==
  ASSUME RewriteInv, NEW l \in Loaders, loader[l].pc = "read", Reading(l).calm
  PROVE  /\ loader[l].calm /\ Present
         /\ Alike(loader[l].file, disk[loader[l].file], wrote[loader[l].file])
<1> DEFINE f == loader[l].file
<1>1. IsLoader(loader[l]) /\ f \in Files
  BY DEF RewriteInv, Shapes, IsLoader
<1>2. loader[l].calm /\ ~Torn(f, l)
  BY <1>1, ReadingLoader
<1>3. spoiled = {} /\ \A o \in Loaders \ {l} : ~Writing(o, f)
  BY <1>2 DEF Torn, Writing
<1>4. ~Writing(l, f)
  BY DEF Writing
<1>5. MeaningKept(f)
  BY <1>1, <1>3 DEF RewriteInv
<1>6. Alike(f, disk[f], wrote[f])
  BY <1>3, <1>4, <1>5 DEF MeaningKept
<1> QED
  BY <1>2, <1>3, <1>6, NothingLost

(* Where a load is tells which way it came.                                *)
LEMMA SameWay ==
  ASSUME NEW x, NEW y, x.chain = y.chain, x.layers = y.layers, x.file = y.file
  PROVE  (CameThisWay(x) => CameThisWay(y)) /\ (Upgraded(x) => Upgraded(y))
BY DEF CameThisWay, Upgraded

(* Another's step leaves a load as it is.                                  *)
LEMMA StaysTold ==
  ASSUME NEW o \in Loaders, IsLoader(loader[o]), AsTold(o),
         loader'[o].chain = loader[o].chain, loader'[o].layers = loader[o].layers,
         loader'[o].file = loader[o].file, loader'[o].text = loader[o].text,
         Rewriting(o)' => Rewriting(o), wrote' = wrote,
         \A f \in Files : Current(f, disk[f].doc) => Current(f, disk'[f].doc),
         Rewriting(o) => \A f \in Files : IsFile(f)' <=> IsFile(f)
  PROVE  AsTold(o)'
<1> DEFINE x == loader[o]
<1>1. CameThisWay(x) /\ Upgraded(x)
  BY DEF AsTold
<1>2. /\ DOMAIN x.layers = 1 .. Len(x.layers) /\ Len(x.layers) \in Nat
      /\ \A i \in 1 .. Len(x.layers) + 1 : x.chain[i] \in Files
  BY <1>1, CameInFiles
<1>3. CameThisWay(x)'
  <2>1. \A f, c : SectionSays(f, c)' = SectionSays(f, c)
    BY DEF SectionSays
  <2>2. \A f : Link(f)' = Link(f)
    BY DEF Link, SectionSays
  <2>3. \A f, t : Extends(f, t)' <=> Extends(f, t)
    BY <2>2 DEF Extends
  <2>4. \A f : OwnSettings(f)' = OwnSettings(f)
    BY <2>2 DEF OwnSettings, SectionSays
  <2>5. \A f, layer : Layered(f, layer)' <=> Layered(f, layer)
    BY <2>4 DEF Layered
  <2> QED
    BY <1>1, <2>3, <2>5 DEF CameThisWay
<1>4. Upgraded(x)'
  <2>1. \A i \in DOMAIN x.layers : x.chain[i] \in Files
    <3> DEFINE n == Len(x.layers)
    <3>1. n \in Nat /\ DOMAIN x.layers = 1 .. n /\ \A i \in 1 .. n + 1 : x.chain[i] \in Files
      BY <1>2
    <3> HIDE DEF n
    <3>2. \A i \in 1 .. n : i \in 1 .. n + 1
      BY <3>1
    <3> QED
      BY <3>1, <3>2
  <2> QED
    BY <1>1, <2>1 DEF Upgraded
<1>5. Rewriting(o)' => (Alike(x.file, Toml(x.text), wrote[x.file]) /\ Present)'
  BY DEF AsTold, Present
<1> QED
  BY <1>3, <1>4, <1>5 DEF AsTold

-----------------------------------------------------------------------------
(* Every step keeps it.                                                    *)

(* How a load that is over was disturbed.                                  *)
LEMMA FinishedCalm ==
  ASSUME NEW l \in DOMAIN loader, l \in DOMAIN result, NEW me, Finished(l, me)
  PROVE  loader'[l].pc = "idle" /\ result'[l].calm = me.calm
<1>1. PICK extends, errors, settings, src :
         Done(l, me, Result(me.chain[1], extends, errors, settings, src, DirOf[me.chain[1]], me))
  BY Zenon DEF Finished
<1> DEFINE r == Result(me.chain[1], extends, errors, settings, src, DirOf[me.chain[1]], me)
           x == [Idle EXCEPT !.start = me.start]
<1>2. r.calm = me.calm
  BY DEF Result
<1>3. x.pc = "idle"
  BY IdleLoader
<1>4. result' = [result EXCEPT ![l] = r] /\ loader' = [loader EXCEPT ![l] = x]
  BY <1>1, Zenon DEF Done
<1> HIDE DEF r, x
<1> QED
  BY <1>2, <1>3, <1>4

LEMMA DoneCalm ==
  ASSUME NEW l \in DOMAIN loader, l \in DOMAIN result, NEW me, NEW r, Done(l, me, r)
  PROVE  loader'[l].pc = "idle" /\ result'[l] = r
<1>1. PICK x : result' = [result EXCEPT ![l] = r] /\ loader' = [loader EXCEPT ![l] = x] /\ x.pc = "idle"
  BY IdleLoader, Zenon DEF Done
<1> QED
  BY <1>1

(* What a load does with a text keeps the invariant, and ends as written.  *)
LEMMA TakeKeepsTold ==
  ASSUME RewriteInv, TellInv, NEW l \in Loaders, loader[l].pc # "idle",
         NEW me, IsLoader(me), me.pc # "idle", me.chain = loader[l].chain,
         NEW c, IsContent(c), FilledIn(me.file, c.doc), Current(me.file, c.doc),
         me.calm => /\ CameThisWay(me) /\ Upgraded(me) /\ Present
                    /\ Alike(me.file, c, wrote[me.file]),
         Take(l, me, c), UNCHANGED <<wrote, crashes>>,
         \A f \in Files : FilledIn(f, disk'[f].doc),
         \A f \in Files : Current(f, disk[f].doc) => Current(f, disk'[f].doc),
         me.file \notin ReadOnly => Current(me.file, disk'[me.file].doc),
         \A o \in Loaders : loader[o].calm /\ Rewriting(o) => \A f \in Files : IsFile(f)' <=> IsFile(f)
  PROVE  TellInv' /\ EndsAsWritten(l)
<1>1. PICK x : /\ loader' = [loader EXCEPT ![l] = x] /\ IsLoader(x)
               /\ x.pc \in {"idle", "read"} /\ (x.pc = "read" => x.calm = me.calm)
  BY TakeLoader
<1>2. /\ DOMAIN loader' = Loaders /\ loader'[l] = x
      /\ \A o \in Loaders \ {l} : loader'[o] = loader[o]
      /\ \A o \in Loaders : IsLoader(loader'[o])
  BY <1>1, OneMoves DEF RewriteInv
<1>3. l \in DOMAIN loader /\ l \in DOMAIN result /\ IsLoader(loader[l])
  BY DEF RewriteInv, Shapes
<1>4. me.calm => /\ DOMAIN me.layers = 1 .. Len(me.layers) /\ Len(me.layers) \in Nat
                 /\ DOMAIN me.chain = 1 .. Len(me.layers) + 1
                 /\ me.chain[Len(me.layers) + 1] = me.file
                 /\ \A i \in 1 .. Len(me.layers) + 1 : me.chain[i] \in Files
  BY CameInFiles
<1>5. ASSUME me.calm, NEW i \in DOMAIN me.chain, me.chain[i] \notin ReadOnly
      PROVE  Current(me.chain[i], disk'[me.chain[i]].doc)
  <2> DEFINE n == Len(me.layers)
  <2>1. n \in Nat /\ i \in 1 .. n + 1 /\ me.chain[n + 1] = me.file /\ me.chain[i] \in Files
        /\ DOMAIN me.layers = 1 .. n
    BY <1>4, <1>5
  <2> HIDE DEF n
  <2>2. CASE i = n + 1
    BY <1>5, <2>1, <2>2
  <2>3. CASE i # n + 1
    <3>1. i \in DOMAIN me.layers
      BY <2>1, <2>3
    <3>2. Current(me.chain[i], disk[me.chain[i]].doc)
      BY <1>5, <3>1 DEF Upgraded
    <3> QED
      BY <2>1, <3>2
  <2> QED
    BY <2>2, <2>3
<1>6. me.calm => EndsTold(l, me) \/ GoesOnTold(l, me)
  BY TakeTold
<1>7. SoundTexts'
  <2>1. \A o \in Loaders : Rewriting(o)' => Rewriting(o) /\ loader'[o] = loader[o]
    BY <1>1, <1>2 DEF Rewriting
  <2>2. crashes' \in Nat
    BY DEF TellInv, SoundTexts
  <2>3. \A o \in Loaders : Rewriting(o)' =>
           FilledIn(loader'[o].file, loader'[o].text) /\ Current(loader'[o].file, loader'[o].text)
    BY <2>1 DEF TellInv, SoundTexts
  <2> QED
    BY <2>2, <2>3 DEF SoundTexts
<1>8. ASSUME NEW o \in Loaders, loader'[o].pc # "idle", loader'[o].calm PROVE AsTold(o)'
  <2>1. CASE o # l
    <3>1. loader'[o] = loader[o] /\ AsTold(o) /\ IsLoader(loader[o]) /\ loader[o].calm
      BY <1>2, <1>8, <2>1 DEF TellInv, RewriteInv, Shapes
    <3>2. Rewriting(o)' => Rewriting(o)
      BY <3>1 DEF Rewriting
    <3> QED
      BY <3>1, <3>2, StaysTold
  <2>2. CASE o = l
    <3>1. x.pc = "read" /\ me.calm /\ ~Rewriting(l)'
      BY <1>1, <1>2, <1>8, <2>2 DEF Rewriting
    <3>2. ~\E r : Done(l, me, r)
      BY <1>2, <1>3, <3>1, DoneCalm
    <3>3. /\ CameThisWay(x)
          /\ DOMAIN x.layers = DOMAIN me.chain
          /\ \A i \in DOMAIN x.layers : x.chain[i] = me.chain[i]
      <4>1. PICK y : /\ loader' = [loader EXCEPT ![l] = y] /\ CameThisWay(y)
                     /\ DOMAIN y.layers = DOMAIN me.chain
                     /\ \A i \in DOMAIN y.layers : y.chain[i] = me.chain[i]
        BY <1>6, <3>1, <3>2 DEF EndsTold, GoesOnTold
      <4>2. y = x
        BY <1>2, <1>3, <4>1
      <4> QED
        BY <4>1, <4>2
    <3>4. CameThisWay(loader[l])'
      <4>1. \A f, d : SectionSays(f, d)' = SectionSays(f, d)
        BY DEF SectionSays
      <4>2. \A f : Link(f)' = Link(f)
        BY DEF Link, SectionSays
      <4>3. \A f, t : Extends(f, t)' <=> Extends(f, t)
        BY <4>2 DEF Extends
      <4>4. \A f : OwnSettings(f)' = OwnSettings(f)
        BY <4>2 DEF OwnSettings, SectionSays
      <4>5. \A f, layer : Layered(f, layer)' <=> Layered(f, layer)
        BY <4>4 DEF Layered
      <4> QED
        BY <1>2, <3>3, <4>3, <4>5 DEF CameThisWay
    <3>5. Upgraded(loader[l])'
      BY <1>2, <1>5, <3>1, <3>3 DEF Upgraded
    <3> QED
      BY <2>2, <3>1, <3>4, <3>5 DEF AsTold
  <2> QED
    BY <2>1, <2>2
<1>9. EndsAsWritten(l)
  <2> SUFFICES ASSUME Finishes(l), result'[l].calm
               PROVE  /\ Told(result'[l], me.chain)
                      /\ \A f \in ToSet(me.chain) \ ReadOnly : ~Outdated(disk'[f].doc, IsPyproject(f))
    BY DEF EndsAsWritten, Told
  <2>1. loader'[l].pc = "idle"
    BY DEF Finishes
  <2>2. Finished(l, me)
    <3>1. Finished(l, me) \/ GoesOn(l, me)
      BY TakeCases DEF IsLoader
    <3>2. ASSUME GoesOn(l, me) PROVE FALSE
      <4>1. PICK target, ruff, layer :
               loader' = [loader EXCEPT ![l] =
                  [me EXCEPT !.pc = "read", !.file = target, !.ruff = ruff,
                             !.layers = Append(me.layers, layer), !.chain = Append(me.chain, target)]]
        BY <3>2, Zenon DEF GoesOn
      <4>2. DOMAIN me = {"pc", "start", "file", "text", "ruff", "chain", "layers", "calm"}
        BY DEF IsLoader
      <4>3. loader'[l].pc = "read"
        BY <1>3, <4>1, <4>2
      <4> QED
        BY <2>1, <4>3
    <3> QED
      BY <3>1, <3>2
  <2>3. me.calm
    BY <1>3, <2>2, FinishedCalm
  <2>4. PICK r : Done(l, me, r) /\ Told(r, me.chain)
    <3>1. ~\E y : loader' = [loader EXCEPT ![l] = y] /\ y.pc = "read"
      BY <1>3, <2>1
    <3> QED
      BY <1>6, <2>3, <3>1 DEF EndsTold, GoesOnTold
  <2>5. result'[l] = r
    BY <1>3, <2>4, DoneCalm
  <2>6. ASSUME NEW f \in ToSet(me.chain), f \notin ReadOnly PROVE Current(f, disk'[f].doc)
    <3>1. PICK i \in DOMAIN me.chain : f = me.chain[i]
      BY <2>6 DEF ToSet
    <3> QED
      BY <1>5, <2>3, <2>6, <3>1
  <2> QED
    BY <2>4, <2>5, <2>6 DEF Current
<1> QED
  BY <1>7, <1>8, <1>9 DEF TellInv

(* An emptied file has nothing outdated in it.                             *)
LEMMA EmptyFilled ==
  ASSUME NEW f
  PROVE  FilledIn(f, EmptyTable) /\ Current(f, EmptyTable)
<1> DEFINE py == IsPyproject(f)
           t == AtPath(EmptyTable, << >>)
<1>1. DOMAIN EmptyTable = {<< >>} /\ EmptyTable[<< >>] = Branch
  BY DEF EmptyTable, Leaf
<1>2. py \in BOOLEAN
  BY DEF IsPyproject
<1>3. Current(f, EmptyTable) /\ IsDocument(EmptyTable)
  BY <1>2, EmptyIsCurrent DEF Current
<1>4. ASSUME HasKonform(EmptyTable, py) PROVE Filled(KonformSection(EmptyTable, py))
  <2>1. /\ \A k : <<k>> # << >>
        /\ <<"tool", "konform">> # << >>
    OBVIOUS
  <2>2. KonformPath(EmptyTable, py) = << >>
    BY <1>1, <1>4, <2>1 DEF HasKonform, HasPath, KonformPath
  <2>3. DOMAIN EmptyTable \subseteq Paths /\ << >> \in Paths
    BY <1>3 DEF IsDocument, Paths
  <2>4. /\ DOMAIN t \subseteq Paths
        /\ \A r \in Paths : r \in DOMAIN t <=> << >> \o r \in DOMAIN EmptyTable
        /\ \A r \in DOMAIN t : t[r] = EmptyTable[<< >> \o r]
    BY <2>3, AtPathNodes
  <2>5. \A r \in Paths : << >> \o r = r
    BY ConcatEmptySeq DEF Paths
  <2> HIDE DEF t
  <2>6. DOMAIN t = {<< >>} /\ t[<< >>] = Branch
    BY <1>1, <2>3, <2>4, <2>5
  <2> QED
    BY <2>2, <2>6 DEF Filled, IsTable, KonformSection, t
<1> QED
  BY <1>3, <1>4 DEF FilledIn

(* An outdated file is rewritten once, and no table of it comes out empty.  *)
LEMMA MigratedSound ==
  ASSUME NEW f \in Files, NEW doc, IsDocument(doc), FilledIn(f, doc), Outdated(doc, IsPyproject(f))
  PROVE  LET new == MigrateContent(doc, IsPyproject(f))
         IN  FilledIn(f, new) /\ Current(f, new)
<1> DEFINE py == IsPyproject(f)
           new == MigrateContent(doc, py)
           t == KonformSection(doc, py)
<1>1. py \in BOOLEAN
  BY DEF IsPyproject
<1>2. HasKonform(doc, py) /\ NeedsMigration(t) /\ Filled(t)
  BY DEF Outdated, FilledIn
<1>3. IsDocument(t)
  <2>1. KonformPath(doc, py) \in DOMAIN doc
    BY <1>2 DEF HasKonform, HasPath
  <2> QED
    BY <2>1, AtPathDocument DEF KonformSection
<1>4. HasKonform(new, py) /\ KonformSection(new, py) = RunMigrations(t)
  BY <1>1, MigrateKeeps
<1>5. Filled(RunMigrations(t)) /\ ~NeedsMigration(RunMigrations(t))
  BY <1>2, <1>3, MigratedFilled, MigratedCurrent
<1> HIDE DEF new
<1>6. FilledIn(f, new) /\ Current(f, new)
  BY <1>4, <1>5 DEF FilledIn, Current, Outdated
<1> QED
  BY <1>6 DEF new

(* Each step of a load.                                                    *)
LEMMA StartKeepsTold ==
  ASSUME RewriteInv, TellInv, NEW l \in Loaders, NEW d \in Starts, Start(l, d)
  PROVE  TellInv' /\ EndsAsWritten(l)
<1>1. d \in Dirs
  BY TreeAssumption
<1>2. /\ loader[l].pc = "idle" /\ UNCHANGED <<disk, wrote, crashes>>
      /\ \/ loader' = [loader EXCEPT ![l] = [Idle EXCEPT !.start = d]]
         \/ /\ FindConfigFile(d) # NoFile
            /\ loader' = [loader EXCEPT ![l] = Begun(d, FindConfigFile(d))]
  BY DEF Start, Begun
<1>3. PICK x : /\ loader' = [loader EXCEPT ![l] = x] /\ IsLoader(x)
               /\ x.pc \in {"idle", "read"}
               /\ x.pc = "read" => CameThisWay(x) /\ Upgraded(x)
  <2>1. CASE loader' = [loader EXCEPT ![l] = [Idle EXCEPT !.start = d]]
    BY <2>1, IdleLoader
  <2>2. CASE /\ FindConfigFile(d) # NoFile
             /\ loader' = [loader EXCEPT ![l] = Begun(d, FindConfigFile(d))]
    <3> DEFINE f == FindConfigFile(d)
               x == Begun(d, f)
    <3>1. f \in Files
      BY <1>1, <2>2, FoundAbove
    <3> HIDE DEF f
    <3>2. IsLoader(x) /\ x.pc = "read" /\ x.chain = <<f>>
      BY <1>1, <3>1, StartLoader
    <3>3. x.layers = << >> /\ x.file = f
      BY DEF Begun, Idle
    <3>4. Len(<< >>) = 0 /\ Len(<<f>>) = 1 /\ <<f>>[1] = f /\ DOMAIN << >> = {}
      OBVIOUS
    <3>5. CameThisWay(x) /\ Upgraded(x)
      BY <3>2, <3>3, <3>4 DEF CameThisWay, Upgraded
    <3> HIDE DEF x
    <3> QED
      BY <2>2, <3>2, <3>5 DEF x, f
  <2> QED
    BY <1>2, <2>1, <2>2
<1>4. /\ DOMAIN loader' = Loaders /\ loader'[l] = x
      /\ \A o \in Loaders \ {l} : loader'[o] = loader[o]
      /\ \A o \in Loaders : IsLoader(loader'[o])
  BY <1>3, OneMoves DEF RewriteInv
<1>5. SoundTexts'
  <2>1. \A o \in Loaders : Rewriting(o)' => Rewriting(o) /\ loader'[o] = loader[o]
    BY <1>3, <1>4 DEF Rewriting
  <2> QED
    BY <1>2, <2>1 DEF TellInv, SoundTexts
<1>6. ASSUME NEW o \in Loaders, loader'[o].pc # "idle", loader'[o].calm PROVE AsTold(o)'
  <2>1. CASE o # l
    <3>1. loader'[o] = loader[o] /\ AsTold(o) /\ IsLoader(loader[o])
      BY <1>4, <1>6, <2>1 DEF TellInv, RewriteInv, Shapes
    <3>2. (Rewriting(o)' => Rewriting(o)) /\ \A f \in Files : IsFile(f)' <=> IsFile(f)
      BY <1>2, <3>1 DEF Rewriting, IsFile
    <3> QED
      BY <1>2, <3>1, <3>2, StaysTold
  <2>2. CASE o = l
    <3>1. CameThisWay(x)' /\ Upgraded(x)'
      <4>1. CameThisWay(x) /\ Upgraded(x)
        BY <1>3, <1>4, <1>6, <2>2
      <4>2. \A f, c : SectionSays(f, c)' = SectionSays(f, c)
        BY DEF SectionSays
      <4>3. \A f : Link(f)' = Link(f)
        BY <1>2 DEF Link, SectionSays
      <4>4. \A f, t : Extends(f, t)' <=> Extends(f, t)
        BY <4>3 DEF Extends
      <4>5. \A f : OwnSettings(f)' = OwnSettings(f)
        BY <1>2, <4>3 DEF OwnSettings, SectionSays
      <4>6. \A f, layer : Layered(f, layer)' <=> Layered(f, layer)
        BY <1>2, <4>5 DEF Layered
      <4> QED
        BY <1>2, <4>1, <4>4, <4>6 DEF CameThisWay, Upgraded
    <3>2. ~Rewriting(l)'
      BY <1>3, <1>4 DEF Rewriting
    <3> QED
      BY <1>4, <2>2, <3>1, <3>2 DEF AsTold
  <2> QED
    BY <2>1, <2>2
<1>7. EndsAsWritten(l)
  BY <1>2 DEF EndsAsWritten, Finishes
<1> QED
  BY <1>5, <1>6, <1>7 DEF TellInv

LEMMA ReadCurrentKeepsTold ==
  ASSUME RewriteInv, TellInv, NEW l \in Loaders, ReadCurrent(l)
  PROVE  TellInv' /\ EndsAsWritten(l)
<1> DEFINE f == loader[l].file
           me == Reading(l)
           c == disk[f]
<1>1. /\ loader[l].pc = "read" /\ ~Outdated(c.doc, IsPyproject(f))
      /\ Take(l, me, c) /\ UNCHANGED <<disk, wrote, crashes>>
  BY DEF ReadCurrent
<1>2. IsLoader(loader[l]) /\ f \in Files /\ IsContent(c) /\ FilledIn(f, c.doc)
  BY <1>1 DEF RewriteInv, Shapes, IsLoader, TellInv, SoundTexts
<1>3. /\ IsLoader(me) /\ me.pc = "read" /\ me.file = f /\ me.chain = loader[l].chain
      /\ me.layers = loader[l].layers
  BY <1>1, <1>2, ReadingLoader
<1>4. me.calm => /\ CameThisWay(me) /\ Upgraded(me) /\ Present /\ Alike(f, c, wrote[f])
  <2> SUFFICES ASSUME me.calm
               PROVE  CameThisWay(me) /\ Upgraded(me) /\ Present /\ Alike(f, c, wrote[f])
    OBVIOUS
  <2>1. loader[l].calm /\ Present /\ Alike(f, c, wrote[f])
    BY <1>1, ReadsWritten
  <2>2. CameThisWay(loader[l]) /\ Upgraded(loader[l])
    BY <1>1, <2>1 DEF TellInv, AsTold
  <2>3. CameThisWay(me) /\ Upgraded(me)
    BY <1>3, <2>2, SameWay
  <2> QED
    BY <2>1, <2>3
<1> HIDE DEF me
<1>5. /\ \A g \in Files : FilledIn(g, disk'[g].doc)
      /\ \A g \in Files : Current(g, disk[g].doc) => Current(g, disk'[g].doc)
      /\ Current(f, disk'[f].doc) /\ Current(f, c.doc)
      /\ \A g \in Files : IsFile(g)' <=> IsFile(g)
  BY <1>1 DEF TellInv, SoundTexts, Current, IsFile
<1> QED
  BY <1>1, <1>2, <1>3, <1>4, <1>5, TakeKeepsTold

LEMMA UseCopyKeepsTold ==
  ASSUME RewriteInv, TellInv, NEW l \in Loaders, UseCopy(l)
  PROVE  TellInv' /\ EndsAsWritten(l)
<1> DEFINE me == loader[l]
           f == me.file
           c == Toml(me.text)
<1>1. /\ me.pc = "truncate" /\ f \in ReadOnly
      /\ Take(l, me, c) /\ UNCHANGED <<disk, wrote, crashes>>
  BY DEF UseCopy
<1>2. Rewriting(l) /\ IsLoader(me) /\ f \in Files
  BY <1>1 DEF RewriteInv, Shapes, IsLoader, Rewriting
<1>3. c.doc = me.text /\ IsContent(c)
  BY <1>1, <1>2 DEF Toml, IsContent, IsLoader
<1>4. FilledIn(f, c.doc) /\ Current(f, c.doc)
  BY <1>2, <1>3 DEF TellInv, SoundTexts
<1>5. me.calm => CameThisWay(me) /\ Upgraded(me) /\ Present /\ Alike(f, c, wrote[f])
  BY <1>1, <1>2 DEF TellInv, AsTold
<1> HIDE DEF c
<1>6. /\ \A g \in Files : FilledIn(g, disk'[g].doc)
      /\ \A g \in Files : Current(g, disk[g].doc) => Current(g, disk'[g].doc)
      /\ \A g \in Files : IsFile(g)' <=> IsFile(g)
  BY <1>1 DEF TellInv, SoundTexts, Current, IsFile
<1> QED
  BY <1>1, <1>2, <1>3, <1>4, <1>5, <1>6, TakeKeepsTold

(* While a load is undisturbed every file that is rewritten is there.       *)
LEMMA RewritesPresent ==
  ASSUME BoundsInv, NEW o \in Loaders, loader[o].calm, Rewriting(o), NEW l \in Loaders, Rewriting(l)
  PROVE  IsFile(loader[l].file)
<1>1. loader[o].pc # "idle" /\ Undisturbed(o)
  BY DEF Rewriting, Undisturbed
<1> QED
  BY <1>1 DEF BoundsInv, UnderWay

(* A rewrite writes only over what is there, and nothing outdated.          *)
LEMMA OverwriteFacts ==
  ASSUME RewriteInv, TellInv, BoundsInv, NEW l \in Loaders, Rewriting(l), NEW c, c.status = "toml",
         FilledIn(loader[l].file, c.doc), Current(loader[l].file, c.doc),
         disk' = [disk EXCEPT ![loader[l].file] = c]
  PROVE  /\ \A g \in Files : FilledIn(g, disk'[g].doc)
         /\ \A g \in Files : Current(g, disk[g].doc) => Current(g, disk'[g].doc)
         /\ Current(loader[l].file, disk'[loader[l].file].doc)
         /\ \A o \in Loaders : loader[o].calm /\ Rewriting(o) => \A g \in Files : IsFile(g)' <=> IsFile(g)
<1> DEFINE f == loader[l].file
<1>1. f \in Files
  BY DEF RewriteInv, Shapes, IsLoader, Rewriting
<1>2. disk'[f] = c /\ \A g \in Files \ {f} : disk'[g] = disk[g]
  BY <1>1 DEF RewriteInv, Shapes
<1>3. \A g \in Files : FilledIn(g, disk[g].doc)
  BY DEF TellInv, SoundTexts
<1>4. ASSUME NEW o \in Loaders, loader[o].calm, Rewriting(o), NEW g \in Files
      PROVE  IsFile(g)' <=> IsFile(g)
  <2>1. IsFile(f)
    BY <1>4, RewritesPresent
  <2> QED
    BY <1>2, <2>1 DEF IsFile
<1> QED
  BY <1>1, <1>2, <1>3, <1>4

LEMMA FillKeepsTold ==
  ASSUME RewriteInv, BoundsInv, TellInv, NEW l \in Loaders, Fill(l)
  PROVE  TellInv' /\ EndsAsWritten(l)
<1> DEFINE me == loader[l]
           f == me.file
           c == Toml(me.text)
<1>1. /\ me.pc = "write" /\ disk' = [disk EXCEPT ![f] = c]
      /\ Take(l, me, c) /\ UNCHANGED <<wrote, crashes>>
  BY DEF Fill
<1>2. Rewriting(l) /\ IsLoader(me) /\ f \in Files
  BY <1>1 DEF RewriteInv, Shapes, IsLoader, Rewriting
<1>3. c.doc = me.text /\ IsContent(c) /\ c.status = "toml"
  BY <1>1, <1>2 DEF Toml, IsContent, IsLoader
<1>4. FilledIn(f, c.doc) /\ Current(f, c.doc)
  BY <1>2, <1>3 DEF TellInv, SoundTexts
<1>5. me.calm => CameThisWay(me) /\ Upgraded(me) /\ Present /\ Alike(f, c, wrote[f])
  BY <1>1, <1>2 DEF TellInv, AsTold
<1> HIDE DEF c
<1>6. /\ \A g \in Files : FilledIn(g, disk'[g].doc)
      /\ \A g \in Files : Current(g, disk[g].doc) => Current(g, disk'[g].doc)
      /\ Current(f, disk'[f].doc)
      /\ \A o \in Loaders : loader[o].calm /\ Rewriting(o) => \A g \in Files : IsFile(g)' <=> IsFile(g)
  BY <1>1, <1>2, <1>3, <1>4, OverwriteFacts
<1> QED
  BY <1>1, <1>2, <1>3, <1>4, <1>5, <1>6, TakeKeepsTold

(* A load stays on its way while nothing is written by a user.             *)
LEMMA WayStays ==
  ASSUME NEW o, CameThisWay(loader[o]), wrote' = wrote,
         loader'[o].chain = loader[o].chain, loader'[o].layers = loader[o].layers,
         loader'[o].file = loader[o].file
  PROVE  CameThisWay(loader[o])'
<1>1. \A f, c : SectionSays(f, c)' = SectionSays(f, c)
  BY DEF SectionSays
<1>2. \A f : Link(f)' = Link(f)
  BY DEF Link, SectionSays
<1>3. \A f, t : Extends(f, t)' <=> Extends(f, t)
  BY <1>2 DEF Extends
<1>4. \A f : OwnSettings(f)' = OwnSettings(f)
  BY <1>2 DEF OwnSettings, SectionSays
<1>5. \A f, layer : Layered(f, layer)' <=> Layered(f, layer)
  BY <1>4 DEF Layered
<1> QED
  BY <1>3, <1>5 DEF CameThisWay

LEMMA TruncateKeepsTold ==
  ASSUME RewriteInv, BoundsInv, TellInv, NEW l \in Loaders, Truncate(l)
  PROVE  TellInv' /\ EndsAsWritten(l)
<1> DEFINE me == loader[l]
           f == me.file
           x == [me EXCEPT !.pc = "write"]
<1>1. /\ me.pc = "truncate" /\ disk' = [disk EXCEPT ![f] = EmptyFile]
      /\ loader' = [loader EXCEPT ![l] = x] /\ UNCHANGED <<wrote, crashes>>
  BY DEF Truncate
<1>2. /\ Rewriting(l) /\ f \in Files /\ l \in DOMAIN loader
      /\ DOMAIN me = {"pc", "start", "file", "text", "ruff", "chain", "layers", "calm"}
  BY <1>1 DEF RewriteInv, Shapes, IsLoader, Rewriting
<1>3. /\ x.pc = "write" /\ x.file = f /\ x.text = me.text /\ x.chain = me.chain /\ x.layers = me.layers
      /\ x.calm = me.calm
  BY <1>2
<1> HIDE DEF x
<1>4. loader'[l] = x /\ \A o \in Loaders \ {l} : loader'[o] = loader[o]
  BY <1>1, <1>2 DEF RewriteInv, Shapes
<1>5. EmptyFile.status = "toml" /\ EmptyFile.doc = EmptyTable
  BY DEF EmptyFile, Toml
<1>6. /\ \A g \in Files : FilledIn(g, disk'[g].doc)
      /\ \A g \in Files : Current(g, disk[g].doc) => Current(g, disk'[g].doc)
      /\ \A o \in Loaders : loader[o].calm /\ Rewriting(o) => \A g \in Files : IsFile(g)' <=> IsFile(g)
  <2> DEFINE c == EmptyFile
  <2>1. c.status = "toml" /\ FilledIn(f, c.doc) /\ Current(f, c.doc)
    BY <1>5, EmptyFilled
  <2> HIDE DEF c
  <2>2. disk' = [disk EXCEPT ![f] = c]
    BY <1>1 DEF c
  <2> QED
    BY <1>2, <2>1, <2>2, OverwriteFacts
<1>7. \A o \in Loaders : /\ Rewriting(o)' <=> Rewriting(o)
                         /\ loader[o].pc = "idle" <=> loader'[o].pc = "idle"
                         /\ loader'[o].file = loader[o].file /\ loader'[o].text = loader[o].text
                         /\ loader'[o].chain = loader[o].chain /\ loader'[o].layers = loader[o].layers
                         /\ loader'[o].calm = loader[o].calm
  BY <1>1, <1>3, <1>4 DEF Rewriting
<1>8. SoundTexts'
  <2>1. \A o \in Loaders : Rewriting(o)' =>
           FilledIn(loader'[o].file, loader'[o].text) /\ Current(loader'[o].file, loader'[o].text)
    BY <1>7 DEF TellInv, SoundTexts
  <2>2. crashes' \in Nat
    BY <1>1 DEF TellInv, SoundTexts
  <2> QED
    BY <1>6, <2>1, <2>2 DEF SoundTexts
<1>9. ASSUME NEW o \in Loaders, loader'[o].pc # "idle", loader'[o].calm PROVE AsTold(o)'
  <2>1. AsTold(o) /\ IsLoader(loader[o]) /\ loader[o].calm
    BY <1>7, <1>9 DEF TellInv, RewriteInv, Shapes
  <2> QED
    BY <1>1, <1>6, <1>7, <2>1, StaysTold
<1>10. EndsAsWritten(l)
  BY <1>3, <1>4 DEF EndsAsWritten, Finishes
<1> QED
  BY <1>8, <1>9, <1>10 DEF TellInv

LEMMA ReadOutdatedKeepsTold ==
  ASSUME RewriteInv, TellInv, NEW l \in Loaders, ReadOutdated(l)
  PROVE  TellInv' /\ EndsAsWritten(l)
<1> DEFINE f == loader[l].file
           c == disk[f]
           new == MigrateContent(c.doc, IsPyproject(f))
           me == Reading(l)
           x == [me EXCEPT !.pc = "truncate", !.text = new]
<1>1. /\ loader[l].pc = "read" /\ Outdated(c.doc, IsPyproject(f))
      /\ loader' = [loader EXCEPT ![l] = x] /\ UNCHANGED <<disk, wrote, crashes>>
  BY DEF ReadOutdated
<1>2. /\ IsLoader(loader[l]) /\ f \in Files /\ IsContent(c) /\ FilledIn(f, c.doc) /\ l \in DOMAIN loader
  BY <1>1 DEF RewriteInv, Shapes, IsLoader, TellInv, SoundTexts
<1>3. IsDocument(c.doc)
  <2>1. IsDocument(EmptyTable)
    BY EmptyIsCurrent
  <2> HIDE DEF c
  <2> QED
    BY <1>2, <2>1 DEF IsContent, Absent, Unreadable, Garbled, Toml
<1>4. FilledIn(f, new) /\ Current(f, new)
  BY <1>1, <1>2, <1>3, MigratedSound
<1>5. Alike(f, Toml(new), c)
  BY <1>1, <1>2, MigratedAlike
<1> HIDE DEF new
<1>6. /\ IsLoader(me) /\ me.file = f /\ me.chain = loader[l].chain /\ me.layers = loader[l].layers
  BY <1>2, ReadingLoader
<1>7. DOMAIN me = {"pc", "start", "file", "text", "ruff", "chain", "layers", "calm"}
  BY <1>6 DEF IsLoader
<1>8. /\ x.pc = "truncate" /\ x.file = f /\ x.text = new /\ x.chain = loader[l].chain
      /\ x.layers = loader[l].layers /\ x.calm = me.calm
  <2> HIDE DEF me
  <2> QED
    BY <1>6, <1>7
<1> HIDE DEF x
<1>9. loader'[l] = x /\ \A o \in Loaders \ {l} : loader'[o] = loader[o]
  BY <1>1, <1>2 DEF RewriteInv, Shapes
<1>10. SoundTexts'
  <2>1. \A o \in Loaders : Rewriting(o)' =>
           FilledIn(loader'[o].file, loader'[o].text) /\ Current(loader'[o].file, loader'[o].text)
    <3> SUFFICES ASSUME NEW o \in Loaders, Rewriting(o)'
                 PROVE  FilledIn(loader'[o].file, loader'[o].text) /\ Current(loader'[o].file, loader'[o].text)
      OBVIOUS
    <3>1. CASE o = l
      BY <1>4, <1>8, <1>9, <3>1
    <3>2. CASE o # l
      <4>1. Rewriting(o) /\ loader'[o] = loader[o]
        BY <1>9, <3>2 DEF Rewriting
      <4> QED
        BY <4>1 DEF TellInv, SoundTexts
    <3> QED
      BY <3>1, <3>2
  <2> QED
    BY <1>1, <2>1 DEF TellInv, SoundTexts
<1>11. ASSUME NEW o \in Loaders, loader'[o].pc # "idle", loader'[o].calm PROVE AsTold(o)'
  <2>1. \A g \in Files : IsFile(g)' <=> IsFile(g)
    BY <1>1 DEF IsFile
  <2>2. CASE o # l
    <3>1. loader'[o] = loader[o] /\ AsTold(o) /\ IsLoader(loader[o])
      BY <1>9, <1>11, <2>2 DEF TellInv, RewriteInv, Shapes
    <3>2. Rewriting(o)' => Rewriting(o)
      BY <3>1 DEF Rewriting
    <3> QED
      BY <1>1, <2>1, <3>1, <3>2, StaysTold
  <2>3. CASE o = l
    <3>1. loader[l].calm /\ Present /\ Alike(f, c, wrote[f])
      BY <1>1, <1>8, <1>9, <1>11, <2>3, ReadsWritten
    <3>2. AsTold(l)
      BY <1>1, <3>1 DEF TellInv
    <3>3. /\ loader'[l].file = f /\ loader'[l].text = new /\ loader'[l].chain = loader[l].chain
          /\ loader'[l].layers = loader[l].layers
      BY <1>8, <1>9
    <3>4. CameThisWay(loader[l])'
      BY <1>1, <3>2, <3>3, WayStays DEF AsTold
    <3>5. Upgraded(loader[l])'
      BY <1>1, <3>2, <3>3 DEF AsTold, Upgraded
    <3>6. Present'
      BY <1>1, <3>1, <2>1 DEF Present
    <3>7. Alike(f, Toml(new), wrote[f])
      BY <1>2, <1>5, <3>1, AlikeFacts
    <3>8. Alike(loader'[l].file, Toml(loader'[l].text), wrote'[loader'[l].file])
      BY <1>1, <3>3, <3>7
    <3>9. Alike(loader[l].file, Toml(loader[l].text), wrote[loader[l].file])'
      BY <3>8 DEF Alike, SectionSays, Elsewhere
    <3> QED
      BY <2>3, <3>4, <3>5, <3>6, <3>9 DEF AsTold
  <2> QED
    BY <2>2, <2>3
<1>12. EndsAsWritten(l)
  BY <1>8, <1>9 DEF EndsAsWritten, Finishes
<1> QED
  BY <1>10, <1>11, <1>12 DEF TellInv

LEMMA CrashKeepsTold ==
  ASSUME RewriteInv, TellInv, NEW l \in Loaders, Crash(l)
  PROVE  TellInv' /\ EndsAsWritten(l)
<1>1. /\ loader[l].pc = "write" /\ crashes' = crashes + 1 /\ crashes \in Nat
      /\ loader' = [loader EXCEPT ![l] = Idle] /\ UNCHANGED <<disk, wrote>>
  BY DEF Crash, TellInv, SoundTexts
<1>2. loader'[l].pc = "idle" /\ \A o \in Loaders \ {l} : loader'[o] = loader[o]
  BY <1>1 DEF RewriteInv, Shapes, Idle
<1>3. SoundTexts'
  <2>1. \A o \in Loaders : Rewriting(o)' => Rewriting(o) /\ loader'[o] = loader[o]
    BY <1>2 DEF Rewriting
  <2> QED
    BY <1>1, <2>1 DEF TellInv, SoundTexts
<1>4. ASSUME NEW o \in Loaders, loader'[o].pc # "idle", loader'[o].calm PROVE AsTold(o)'
  <2>1. loader'[o] = loader[o] /\ AsTold(o) /\ IsLoader(loader[o])
    BY <1>2, <1>4 DEF TellInv, RewriteInv, Shapes
  <2>2. (Rewriting(o)' => Rewriting(o)) /\ \A f \in Files : IsFile(f)' <=> IsFile(f)
    BY <1>1, <2>1 DEF Rewriting, IsFile
  <2> QED
    BY <1>1, <2>1, <2>2, StaysTold
<1>5. EndsAsWritten(l)
  BY <1>1 DEF EndsAsWritten, Finishes
<1> QED
  BY <1>3, <1>4, <1>5 DEF TellInv

(* A save disturbs every load that is under way. *)
LEMMA EditKeepsTold ==
  ASSUME FilledContents, RewriteInv, TellInv, NEW f \in Files, NEW c \in Contents[f], Edit(f, c)
  PROVE  TellInv' /\ \A l \in Loaders : ~Finishes(l)
<1>1. /\ disk' = [disk EXCEPT ![f] = c] /\ UNCHANGED crashes
      /\ loader' = [l \in Loaders |-> IF loader[l].pc = "idle" THEN loader[l]
                                      ELSE [loader[l] EXCEPT !.calm = FALSE]]
  BY DEF Edit
<1>2. \A g \in Files : FilledIn(g, disk'[g].doc)
  BY <1>1 DEF FilledContents, TellInv, SoundTexts, RewriteInv, Shapes
<1>3. ASSUME NEW o \in Loaders
      PROVE  /\ loader'[o].pc = loader[o].pc /\ loader'[o].file = loader[o].file
             /\ loader'[o].text = loader[o].text
             /\ loader[o].pc # "idle" => loader'[o].calm = FALSE
  <2>1. DOMAIN loader[o] = {"pc", "start", "file", "text", "ruff", "chain", "layers", "calm"}
    BY DEF RewriteInv, Shapes, IsLoader
  <2>2. loader'[o] = IF loader[o].pc = "idle" THEN loader[o] ELSE [loader[o] EXCEPT !.calm = FALSE]
    BY <1>1
  <2> QED
    BY <2>1, <2>2
<1>4. \A o \in Loaders : Rewriting(o)' <=> Rewriting(o)
  BY <1>3 DEF Rewriting
<1>5. SoundTexts'
  BY <1>1, <1>2, <1>3, <1>4 DEF TellInv, SoundTexts
<1>6. TellInv'
  BY <1>3, <1>5 DEF TellInv
<1> QED
  BY <1>3, <1>6 DEF Finishes

LEMMA InitTold ==
  ASSUME FilledContents, Init
  PROVE  TellInv
<1>1. \A f \in Files : FilledIn(f, disk[f].doc)
  BY DEF Init, FilledContents
<1>2. \A l \in Loaders : loader[l].pc = "idle"
  BY DEF Init, Idle
<1> QED
  BY <1>1, <1>2 DEF Init, TellInv, SoundTexts, Rewriting

(* A step by one process ends no other's load. *)
LEMMA OthersGoOn ==
  ASSUME NEW l \in Loaders, Work(l) \/ Crash(l) \/ \E d \in Starts : Start(l, d), RewriteInv
  PROVE  \A o \in Loaders \ {l} : EndsAsWritten(o)
<1>1. ASSUME NEW me, NEW c, Take(l, me, c) PROVE \E x : loader' = [loader EXCEPT ![l] = x]
  BY <1>1, Zenon DEF Take, Done
<1>2. \E x : loader' = [loader EXCEPT ![l] = x]
  <2>1. CASE ReadCurrent(l) \/ UseCopy(l) \/ Fill(l)
    BY <1>1, <2>1 DEF ReadCurrent, UseCopy, Fill
  <2>2. CASE ReadOutdated(l)
    BY <2>2, Zenon DEF ReadOutdated
  <2>3. CASE Truncate(l)
    BY <2>3, Zenon DEF Truncate
  <2>4. CASE Crash(l)
    BY <2>4, Zenon DEF Crash
  <2>5. ASSUME NEW d \in Starts, Start(l, d) PROVE \E x : loader' = [loader EXCEPT ![l] = x]
    BY <2>5, Zenon DEF Start
  <2> QED
    BY <2>1, <2>2, <2>3, <2>4, <2>5 DEF Work
<1>3. PICK x : loader' = [loader EXCEPT ![l] = x]
  BY <1>2
<1> QED
  BY <1>3 DEF RewriteInv, Shapes, EndsAsWritten, Finishes

LEMMA NextTold ==
  ASSUME FilledContents, RewriteInv, BoundsInv, TellInv, [Next]_vars
  PROVE  TellInv' /\ \A l \in Loaders : EndsAsWritten(l)
<1>1. ASSUME NEW l \in Loaders, Work(l) \/ Crash(l) \/ \E d \in Starts : Start(l, d)
      PROVE  TellInv' /\ \A o \in Loaders : EndsAsWritten(o)
  <2>1. TellInv' /\ EndsAsWritten(l)
    <3>1. CASE ReadCurrent(l)
      BY <3>1, ReadCurrentKeepsTold
    <3>2. CASE ReadOutdated(l)
      BY <3>2, ReadOutdatedKeepsTold
    <3>3. CASE UseCopy(l)
      BY <3>3, UseCopyKeepsTold
    <3>4. CASE Truncate(l)
      BY <3>4, TruncateKeepsTold
    <3>5. CASE Fill(l)
      BY <3>5, FillKeepsTold
    <3>6. CASE Crash(l)
      BY <3>6, CrashKeepsTold
    <3>7. ASSUME NEW d \in Starts, Start(l, d) PROVE TellInv' /\ EndsAsWritten(l)
      BY <3>7, StartKeepsTold
    <3> QED
      BY <1>1, <3>1, <3>2, <3>3, <3>4, <3>5, <3>6, <3>7 DEF Work
  <2>2. \A o \in Loaders \ {l} : EndsAsWritten(o)
    BY <1>1, OthersGoOn
  <2> QED
    BY <2>1, <2>2
<1>2. ASSUME NEW f \in Files, NEW c \in Contents[f], Edit(f, c)
      PROVE  TellInv' /\ \A l \in Loaders : EndsAsWritten(l)
  BY <1>2, EditKeepsTold DEF EndsAsWritten
<1>3. CASE UNCHANGED vars
  <2>1. UNCHANGED <<disk, wrote, loader, crashes>>
    BY <1>3 DEF vars
  <2>2. SoundTexts'
    BY <2>1 DEF TellInv, SoundTexts, Rewriting
  <2>3. ASSUME NEW o \in Loaders, loader'[o].pc # "idle", loader'[o].calm PROVE AsTold(o)'
    <3>1. AsTold(o) /\ IsLoader(loader[o])
      BY <2>1, <2>3 DEF TellInv, RewriteInv, Shapes
    <3>2. (Rewriting(o)' => Rewriting(o)) /\ \A f \in Files : IsFile(f)' <=> IsFile(f)
      BY <2>1 DEF Rewriting, IsFile
    <3> QED
      BY <2>1, <3>1, <3>2, StaysTold
  <2>4. \A l \in Loaders : EndsAsWritten(l)
    BY <2>1 DEF EndsAsWritten, Finishes
  <2> QED
    BY <2>2, <2>3, <2>4 DEF TellInv
<1> QED
  BY <1>1, <1>2, <1>3 DEF Next

(* Where a load may be, and what each layer it has taken says.             *)
THEOREM TellInvariant == FilledContents => (Spec => []TellInv)
<1> SUFFICES ASSUME FilledContents PROVE Spec => []TellInv
  OBVIOUS
<1>1. Init => TellInv
  BY InitTold
<1>2. RewriteInv /\ BoundsInv /\ TellInv /\ [Next]_vars => TellInv'
  BY NextTold
<1> QED
  BY <1>1, <1>2, RewriteInvariant, BoundsInvariant, PTL DEF Spec

(* A load that no save and no half-written file disturbed goes where the    *)
(* `extend`s of its files' users lead, and ends with exactly the settings   *)
(* they wrote, nearest file first, with an error exactly when the chain or  *)
(* a value is bad, and leaves no file it may write in the old shape         *)
(* (load_config_file, resolve_extend, merge_toml, the migrations).          *)
THEOREM LoadsSayWhatWasWritten == FilledContents => (Spec => LoadedAsWritten)
<1> SUFFICES ASSUME FilledContents PROVE Spec => LoadedAsWritten
  OBVIOUS
<1>1. RewriteInv /\ BoundsInv /\ TellInv /\ [Next]_vars => [\A l \in Loaders : EndsAsWritten(l)]_vars
  BY NextTold
<1> QED
  BY <1>1, TellInvariant, RewriteInvariant, BoundsInvariant, PTL DEF Spec, LoadedAsWritten
=============================================================================
