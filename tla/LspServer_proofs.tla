-------------------------- MODULE LspServer_proofs ---------------------------
(***************************************************************************)
(* Proofs about LspServer: what the editor shows and what code actions are  *)
(* made from, for any number of documents, settings and steps of the user.  *)
(***************************************************************************)
EXTENDS LspServer, SequenceTheorems, FiniteSetTheorems, TLAPS

(* The messages of the two channels.                                       *)
Changes ==
    {<<Whole(b)>> : b \in Nat} \cup {<<Patch(a, b)>> : a \in Nat, b \in Nat}
        \cup {<<Patch(a, 0), Patch(0, b)>> : a \in Nat, b \in Nat}
InMsg ==
    [kind : {"didOpen"}, doc : Docs, text : Nat]
        \cup [kind : {"didChange"}, doc : Docs, changes : Changes]
        \cup [kind : {"didClose", "didSave"}, doc : Docs]
        \cup [kind : {"request"}, method : Requests, id : Ids, doc : Docs]
        \cup [kind : {"didChangeWatchedFiles", "didChangeConfiguration", "exit"}]
        \cup [kind : {"settings"}, id : Nat, object : BOOLEAN, settings : EditorSettings]
        \cup [kind : {"shutdown"}, id : Ids]
Answers ==
    Diagnostics \cup {None} \cup [doc : Docs, quick : Diagnostics, source : Texts, config : Config]
OutMsg ==
    [kind : {"publish"}, doc : Docs, diagnostics : Diagnostics]
        \cup [kind : {"reply"}, id : Ids, answer : Answers]
        \cup [kind : {"configuration"}, id : Nat]
        \cup [kind : {"register"}]

Types ==
    /\ user \in Users
    /\ text \in [Docs -> Nat \cup {Closed}] /\ shown \in [Docs -> Diagnostics]
    /\ file \in Config /\ editor \in EditorSettings /\ clock \in 0..MaxClock
    /\ leaving \in 0..MaxClock /\ closing \in 0..MaxClock
    /\ unseen \in BOOLEAN /\ watching \in BOOLEAN /\ asks \in Seq(Nat)
    /\ inbox \in Seq(InMsg) /\ outbox \in Seq(OutMsg)
    /\ session \in Session /\ stale \in Seq(Docs)
    /\ nextId \in Nat \ {0} /\ pending \subseteq 1..(nextId - 1)
    /\ mode \in {"starting", "serving", "closing", "ended"}

(* Messages are lost after a shutdown request only.                        *)
Leaving ==
    /\ mode = "closing" => closing # 0
    /\ closing # 0 => leaving # 0
    /\ \A i \in DOMAIN inbox : inbox[i].kind = "shutdown" => leaving # 0

(* Edited documents are listed once.                                       *)
StaleOnce == \A i, j \in DOMAIN stale : i # j => stale[i] # stale[j]

-----------------------------------------------------------------------------
(* The text of d in the server, and what a message makes of it.            *)
ServerText(s, d) == IF d \in Opened(s) THEN s.documents[d].source ELSE Closed

Moves(m, d, a, b) ==
    IF m.kind \in {"didOpen", "didChange", "didClose"} /\ m.doc = d
    THEN \/ m.kind = "didOpen" /\ a = Closed /\ b = m.text
         \/ /\ m.kind = "didChange" /\ a \in Nat /\ b \in Nat
            /\ m.changes \in {<<Whole(b)>>, <<Patch(a, b)>>, <<Patch(a, 0), Patch(0, b)>>}
         \/ m.kind = "didClose" /\ a \in Nat /\ b = Closed
    ELSE b = a

(* The messages under way lead from the text of the server, version by      *)
(* version, to that of the editor.                                          *)
Leads(h, d) ==
    /\ h[1] = ServerText(session, d) /\ h[Len(inbox) + 1] = text[d]
    /\ \A i \in 1..Len(inbox) : Moves(inbox[i], d, h[i], h[i + 1])
TextsFollow(d) ==
    \E h \in [1..(Len(inbox) + 1) -> Nat \cup {Closed}] : Leads(h, d)

(* The last word the editor will have heard of d, when all is received.    *)
Says(m, d) == m.kind = "publish" /\ m.doc = d
LastWord(d, v) ==
    /\ (\A i \in DOMAIN outbox : ~Says(outbox[i], d)) => shown[d] = v
    /\ \A i \in DOMAIN outbox :
         Says(outbox[i], d) /\ (\A j \in DOMAIN outbox : j > i => ~Says(outbox[j], d))
           => outbox[i].diagnostics = v

(* What was not edited since is published, and cached for code actions.    *)
Diagnosed(s, d) == d \in Opened(s) => s.documents[d].diagnostics = RunDiagnostics(s, d)
UpToDate(d) ==
    d \notin Range(stale) =>
        Diagnosed(session, d) /\ LastWord(d, RunDiagnostics(session, d))

-----------------------------------------------------------------------------
(* A change of the configuration file is known or on its way.              *)
Announced == unseen \/ \E i \in DOMAIN inbox : inbox[i].kind = "didChangeWatchedFiles"
FileFollows == "early" \notin user.does => session.config.exclude = file.exclude \/ Announced
FileStays == "file" \notin user.does => ~Announced

(* The settings were asked for, or their last answer is the present one.   *)
Asking ==
    \/ asks # << >>
    \/ \E i \in DOMAIN inbox : inbox[i].kind = "didChangeConfiguration"
    \/ \E i \in DOMAIN outbox : outbox[i].kind = "configuration"
Obeyed == \A f \in DOMAIN editor : session.config.lint[f] = editor[f]
Good(m) == m.id \in pending /\ m.settings = editor /\ (m.object \/ editor = << >>)
Answered ==
    /\ (\A i \in DOMAIN inbox : inbox[i].kind # "settings") => Obeyed
    /\ \A i \in DOMAIN inbox :
         inbox[i].kind = "settings" /\ (\A j \in DOMAIN inbox : j > i => inbox[j].kind # "settings")
           => Good(inbox[i])
EditorFollows == "file" \notin user.does => Asking \/ Answered

(* A request for settings is at one place, and the server waits for it.    *)
IdsOnce ==
    /\ \A i \in DOMAIN inbox : inbox[i].kind = "settings" =>
         /\ inbox[i].id \in pending
         /\ \A j \in DOMAIN inbox : inbox[j].kind = "settings" /\ j # i => inbox[j].id # inbox[i].id
         /\ \A j \in DOMAIN asks : asks[j] # inbox[i].id
         /\ \A j \in DOMAIN outbox : outbox[j].kind = "configuration" => outbox[j].id # inbox[i].id
    /\ \A i \in DOMAIN asks :
         /\ asks[i] \in pending
         /\ \A j \in DOMAIN asks : j # i => asks[j] # asks[i]
         /\ \A j \in DOMAIN outbox : outbox[j].kind = "configuration" => outbox[j].id # asks[i]
    /\ \A i \in DOMAIN outbox : outbox[i].kind = "configuration" =>
         /\ outbox[i].id \in pending
         /\ \A j \in DOMAIN outbox : outbox[j].kind = "configuration" /\ j # i => outbox[j].id # outbox[i].id

Inv ==
    /\ Types /\ Leaving /\ StaleOnce /\ IdsOnce /\ FileStays
    /\ CodeActionsMatchText
    /\ \A d \in Docs : UpToDate(d)
    /\ closing = 0 => /\ \A d \in Docs : TextsFollow(d)
                      /\ FileFollows /\ EditorFollows

-----------------------------------------------------------------------------
(* The session's operators.                                                *)

(* One change, and two, are applied in turn.                               *)
LEMMA UpdatedOne == ASSUME NEW a, NEW c PROVE Updated(a, <<c>>) = Patched(a, c)
<1> DEFINE D(g) == [i \in 0..Len(<<c>>) |-> IF i = 0 THEN a ELSE Patched(g[i - 1], <<c>>[i])]
           after == CHOOSE g : g = D(g)
           w == [i \in 0..1 |-> IF i = 0 THEN a ELSE Patched(a, c)]
<1>1. w = D(w)
  OBVIOUS
<1>2. after = D(after)
  BY <1>1
<1>3. Updated(a, <<c>>) = after[1]
  BY DEF Updated
<1>4. after[0] = a
  <2> HIDE DEF after
  <2> QED BY <1>2
<1>5. after[1] = Patched(after[0], c)
  <2> HIDE DEF after
  <2> QED BY <1>2
<1> QED BY <1>3, <1>4, <1>5

LEMMA UpdatedTwo ==
  ASSUME NEW a, NEW c, NEW e PROVE Updated(a, <<c, e>>) = Patched(Patched(a, c), e)
<1> DEFINE D(g) == [i \in 0..Len(<<c, e>>) |-> IF i = 0 THEN a ELSE Patched(g[i - 1], <<c, e>>[i])]
           after == CHOOSE g : g = D(g)
           w == [i \in 0..2 |-> IF i = 0 THEN a ELSE IF i = 1 THEN Patched(a, c) ELSE Patched(Patched(a, c), e)]
<1>1. w = D(w)
  OBVIOUS
<1>2. after = D(after)
  BY <1>1
<1>3. Updated(a, <<c, e>>) = after[2]
  BY DEF Updated
<1>4. after[0] = a
  <2> HIDE DEF after
  <2> QED BY <1>2
<1>5. after[1] = Patched(after[0], c) /\ after[2] = Patched(after[1], e)
  <2> HIDE DEF after
  <2> QED BY <1>2
<1> QED BY <1>3, <1>4, <1>5

(* A notification computed on the text the server has leaves the text the  *)
(* editor has.                                                             *)
LEMMA UpdatedRight ==
  ASSUME NEW a \in Nat, NEW b \in Nat,
         NEW changes \in {<<Whole(b)>>, <<Patch(a, b)>>, <<Patch(a, 0), Patch(0, b)>>}
  PROVE  Updated(a, changes) = b
BY UpdatedOne, UpdatedTwo DEF Whole, Patch, Patched

(* Whatever it was computed on, it leaves a text.                          *)
LEMMA UpdatedType ==
  ASSUME NEW a \in Texts, NEW changes \in Changes PROVE Updated(a, changes) \in Texts
BY UpdatedOne, UpdatedTwo DEF Whole, Patch, Patched, Changes, Texts

(* What linting gives has its type.                                        *)
LEMMA RunType ==
  ASSUME NEW s \in Session, NEW d \in Docs PROVE RunDiagnostics(s, d) \in Diagnostics
BY DEF RunDiagnostics, Session, Config, DocumentState, Diagnostics, Lint, Opened

(* Linting again changes the cached diagnostics only.                      *)
LEMMA RelintedFacts ==
  ASSUME NEW s \in Session, NEW ds
  PROVE  /\ Relinted(s, ds) \in Session
         /\ Relinted(s, ds).config = s.config
         /\ Opened(Relinted(s, ds)) = Opened(s)
         /\ \A d \in Docs : /\ RunDiagnostics(Relinted(s, ds), d) = RunDiagnostics(s, d)
                            /\ ServerText(Relinted(s, ds), d) = ServerText(s, d)
                            /\ Diagnosed(s, d) \/ d \in ds => Diagnosed(Relinted(s, ds), d)
                            /\ d \notin ds => Relinted(s, ds).documents[d] = s.documents[d]
<1> DEFINE t == Relinted(s, ds)
           New(d) == IF d \in ds \cap Opened(s)
                     THEN [s.documents[d] EXCEPT !.diagnostics = RunDiagnostics(s, d)]
                     ELSE s.documents[d]
<1>1. ASSUME NEW d \in Docs
      PROVE  /\ New(d) \in DocumentState \cup {NoDoc}
             /\ New(d) = NoDoc <=> s.documents[d] = NoDoc
             /\ d \in Opened(s) =>
                  /\ New(d).source = s.documents[d].source
                  /\ New(d).diagnostics = IF d \in ds THEN RunDiagnostics(s, d) ELSE s.documents[d].diagnostics
  <2>1. s.documents[d] \in DocumentState \cup {NoDoc}
    BY DEF Session
  <2>2. CASE d \in ds \cap Opened(s)
    <3>1. s.documents[d] \in DocumentState
      BY <2>1, <2>2 DEF Opened
    <3>2. RunDiagnostics(s, d) \in Diagnostics
      BY RunType
    <3>3. New(d) = [s.documents[d] EXCEPT !.diagnostics = RunDiagnostics(s, d)]
      BY <2>2
    <3>4. New(d) \in DocumentState /\ New(d).source = s.documents[d].source
          /\ New(d).diagnostics = RunDiagnostics(s, d)
      BY <3>1, <3>2, <3>3 DEF DocumentState
    <3> QED BY <2>2, <3>1, <3>4, PlaceholdersDiffer
  <2>3. CASE d \notin ds \cap Opened(s)
    BY <2>1, <2>3
  <2> QED BY <2>2, <2>3
<1>2. /\ t.config = s.config
      /\ t.documents \in [Docs -> DocumentState \cup {NoDoc}]
      /\ \A d \in Docs : t.documents[d] = New(d)
      /\ t \in Session
  BY <1>1 DEF Relinted, Session
<1> HIDE DEF t, New
<1>3. Opened(t) = Opened(s)
  BY <1>1, <1>2 DEF Opened
<1>4. ASSUME NEW d \in Docs
      PROVE  /\ RunDiagnostics(t, d) = RunDiagnostics(s, d)
             /\ ServerText(t, d) = ServerText(s, d)
             /\ Diagnosed(s, d) \/ d \in ds => Diagnosed(t, d)
             /\ d \notin ds => t.documents[d] = s.documents[d]
  <2>1. RunDiagnostics(t, d) = RunDiagnostics(s, d) /\ ServerText(t, d) = ServerText(s, d)
    BY <1>1, <1>2, <1>3 DEF RunDiagnostics, ServerText, IsExcluded
  <2>2. Diagnosed(s, d) \/ d \in ds => Diagnosed(t, d)
    BY <1>1, <1>2, <1>3, <2>1 DEF Diagnosed
  <2>3. d \notin ds => t.documents[d] = s.documents[d]
    BY <1>2 DEF New
  <2> QED BY <2>1, <2>2, <2>3
<1> QED BY <1>2, <1>3, <1>4 DEF t

(* A message for each document of the list.                                *)
LEMMA PublishedFacts ==
  ASSUME NEW s \in Session, NEW ds \in Seq(Docs)
  PROVE  /\ Published(s, ds) \in Seq(OutMsg)
         /\ Len(Published(s, ds)) = Len(ds)
         /\ \A i \in 1..Len(ds) : Published(s, ds)[i] = Publish(ds[i], RunDiagnostics(s, ds[i]))
<1>1. ASSUME NEW i \in 1..Len(ds) PROVE Publish(ds[i], RunDiagnostics(s, ds[i])) \in OutMsg
  BY RunType DEF Publish, OutMsg
<1> QED BY <1>1 DEF Published

(* Any order of the open documents has them all.                           *)
LEMMA OrderFacts ==
  ASSUME NEW s \in Session, NEW order \in SetToSeqs(Opened(s))
  PROVE  order \in Seq(Docs) /\ Range(order) = Opened(s)
<1> DEFINE S == Opened(s)
           D == 1..Cardinality(S)
<1>1. IsFiniteSet(S) /\ S \subseteq Docs
  BY DocsFinite, FS_Subset DEF Opened
<1>2. Cardinality(S) \in Nat
  BY <1>1, FS_CardinalityType
<1>3. order \in [D -> S] /\ \A i, j \in D : i # j => order[i] # order[j]
  BY DEF SetToSeqs
<1>4. order \in Injection(D, S)
  BY <1>3 DEF Injection, IsInjective
<1>5. Cardinality(D) = Cardinality(S)
  BY <1>2, FS_Interval
<1>6. order \in Surjection(D, S)
  BY <1>1, <1>4, <1>5, FS_Injection
<1>7. order \in Seq(Docs)
  BY <1>1, <1>2, <1>3
<1>8. Range(order) = S
  BY <1>3, <1>6 DEF Surjection, Range
<1> QED BY <1>7, <1>8

(* Taking a document out of the list of the edited ones.                   *)
LEMMA RemoveFacts ==
  ASSUME NEW s \in Seq(Docs), \A i, j \in DOMAIN s : i # j => s[i] # s[j], NEW d \in Docs
  PROVE  /\ RemoveFirst(s, d) \in Seq(Docs)
         /\ Range(RemoveFirst(s, d)) = Range(s) \ {d}
         /\ \A i, j \in DOMAIN RemoveFirst(s, d) :
              i # j => RemoveFirst(s, d)[i] # RemoveFirst(s, d)[j]
<1> DEFINE t == RemoveFirst(s, d)
<1>1. CASE ~ \E i \in 1..Len(s) : s[i] = d
  <2>1. t = s
    BY <1>1 DEF RemoveFirst
  <2>2. d \notin Range(s)
    BY <1>1 DEF Range
  <2> QED BY <2>1, <2>2
<1>2. CASE \E i \in 1..Len(s) : s[i] = d
  <2>1. PICK k \in 1..Len(s) : s[k] = d
    BY <1>2
  <2>2. {i \in 1..Len(s) : s[i] = d} = {k}
    BY <2>1
  <2>3. SelectInSeq(s, LAMBDA v : v = d) = k
    BY <2>2 DEF SelectInSeq, Min
  <2>4. t = SubSeq(s, 1, k - 1) \o SubSeq(s, k + 1, Len(s))
    BY <1>2, <2>3 DEF RemoveFirst, RemoveAt
  <2>5. /\ t \in Seq(Docs) /\ Len(t) = Len(s) - 1
        /\ \A i \in 1..Len(t) : t[i] = IF i < k THEN s[i] ELSE s[i + 1]
    <3> DEFINE u == SubSeq(s, 1, k - 1)
               v == SubSeq(s, k + 1, Len(s))
    <3>1. u \in Seq(Docs) /\ Len(u) = k - 1 /\ \A i \in 1..(k - 1) : u[i] = s[i]
      BY <2>1
    <3>2. v \in Seq(Docs) /\ Len(v) = Len(s) - k /\ \A i \in 1..(Len(s) - k) : v[i] = s[k + i]
      BY <2>1
    <3>3. t = u \o v
      BY <2>4
    <3> HIDE DEF t, u, v
    <3>4. /\ t \in Seq(Docs) /\ Len(t) = Len(u) + Len(v)
          /\ \A i \in 1..Len(u) + Len(v) : t[i] = IF i <= Len(u) THEN u[i] ELSE v[i - Len(u)]
      BY <3>1, <3>2, <3>3, ConcatProperties
    <3>5. Len(s) \in Nat /\ k \in Nat
      OBVIOUS
    <3>6. ASSUME NEW i \in 1..Len(t) PROVE t[i] = IF i < k THEN s[i] ELSE s[i + 1]
      <4>1. CASE i < k
        BY <3>1, <3>2, <3>4, <3>5, <4>1
      <4>2. CASE i >= k
        <5>1. t[i] = v[i - Len(u)] /\ i - Len(u) \in 1..(Len(s) - k)
          BY <3>1, <3>2, <3>4, <3>5, <4>2
        <5>2. v[i - Len(u)] = s[k + (i - Len(u))]
          BY <3>2, <5>1
        <5>3. k + (i - Len(u)) = i + 1
          BY <3>1, <3>5
        <5> QED BY <3>5, <4>2, <5>1, <5>2, <5>3
      <4> QED BY <3>5, <4>1, <4>2
    <3> QED BY <3>1, <3>2, <3>4, <3>5, <3>6
  <2> HIDE DEF t
  <2>6. Range(t) = Range(s) \ {d}
    <3>1. Range(t) \subseteq Range(s) \ {d}
      BY <2>1, <2>5 DEF Range
    <3>2. ASSUME NEW e \in Range(s) \ {d} PROVE e \in Range(t)
      <4>1. PICK i \in 1..Len(s) : s[i] = e
        BY DEF Range
      <4>2. i # k
        BY <2>1, <4>1
      <4>3. IF i < k THEN i \in 1..Len(t) /\ t[i] = e ELSE i - 1 \in 1..Len(t) /\ t[i - 1] = e
        BY <2>5, <4>1, <4>2
      <4> QED BY <2>5, <4>3 DEF Range
    <3> QED BY <3>1, <3>2
  <2>7. ASSUME NEW i \in DOMAIN t, NEW j \in DOMAIN t, i # j PROVE t[i] # t[j]
    <3> DEFINE at(x) == IF x < k THEN x ELSE x + 1
    <3>1. i \in 1..Len(t) /\ j \in 1..Len(t)
      BY <2>5
    <3>2. t[i] = s[at(i)] /\ t[j] = s[at(j)]
      BY <2>5, <3>1
    <3>3. at(i) \in DOMAIN s /\ at(j) \in DOMAIN s /\ at(i) # at(j)
      BY <2>5, <2>7, <3>1
    <3> QED BY <3>2, <3>3
  <2> QED BY <2>5, <2>6, <2>7 DEF t
<1> QED BY <1>1, <1>2

-----------------------------------------------------------------------------
(* What a step does to the two channels.                                   *)

(* The server sends ms.                                                    *)
LEMMA OutboxGrows ==
  ASSUME outbox \in Seq(OutMsg), NEW ms \in Seq(OutMsg), outbox' = outbox \o ms
  PROVE  /\ outbox' \in Seq(OutMsg) /\ Len(outbox) \in Nat /\ Len(ms) \in Nat
         /\ DOMAIN outbox = 1..Len(outbox) /\ DOMAIN ms = 1..Len(ms)
         /\ DOMAIN outbox' = 1..(Len(outbox) + Len(ms))
         /\ \A i \in DOMAIN outbox : i \in DOMAIN outbox' /\ outbox'[i] = outbox[i]
         /\ \A i \in DOMAIN ms : Len(outbox) + i \in DOMAIN outbox' /\ outbox'[Len(outbox) + i] = ms[i]
         /\ \A i \in DOMAIN outbox' : \/ i \in DOMAIN outbox
                                      \/ i > Len(outbox) /\ i - Len(outbox) \in DOMAIN ms /\ outbox'[i] = ms[i - Len(outbox)]
<1>1. /\ outbox' \in Seq(OutMsg) /\ Len(outbox') = Len(outbox) + Len(ms)
      /\ \A i \in 1..Len(outbox) + Len(ms) :
           outbox'[i] = IF i <= Len(outbox) THEN outbox[i] ELSE ms[i - Len(outbox)]
  BY ConcatProperties, Zenon
<1>2. /\ Len(outbox) \in Nat /\ Len(ms) \in Nat
      /\ DOMAIN outbox = 1..Len(outbox) /\ DOMAIN ms = 1..Len(ms) /\ DOMAIN outbox' = 1..Len(outbox')
  BY <1>1
<1>3. \A i \in DOMAIN ms : Len(outbox) + i - Len(outbox) = i
  BY <1>2
<1> QED BY <1>1, <1>2, <1>3

(* The editor receives the first message.                                  *)
LEMMA OutboxShrinks ==
  ASSUME outbox \in Seq(OutMsg), outbox # << >>, outbox' = Tail(outbox)
  PROVE  /\ outbox' \in Seq(OutMsg) /\ Head(outbox) = outbox[1] /\ Head(outbox) \in OutMsg
         /\ 1 \in DOMAIN outbox /\ DOMAIN outbox = 1..Len(outbox) /\ Len(outbox) \in Nat
         /\ DOMAIN outbox' = 1..(Len(outbox) - 1)
         /\ \A i \in DOMAIN outbox' : i + 1 \in DOMAIN outbox /\ outbox'[i] = outbox[i + 1]
         /\ \A i \in DOMAIN outbox : i # 1 => i - 1 \in DOMAIN outbox' /\ outbox'[i - 1] = outbox[i]
OBVIOUS

(* The editor sends m.                                                     *)
LEMMA InboxGrows ==
  ASSUME inbox \in Seq(InMsg), NEW m \in InMsg, inbox' = Append(inbox, m)
  PROVE  /\ inbox' \in Seq(InMsg) /\ Len(inbox) \in Nat /\ DOMAIN inbox = 1..Len(inbox)
         /\ DOMAIN inbox' = 1..(Len(inbox) + 1) /\ Len(inbox') = Len(inbox) + 1
         /\ inbox'[Len(inbox) + 1] = m
         /\ \A i \in DOMAIN inbox : i \in DOMAIN inbox' /\ inbox'[i] = inbox[i]
OBVIOUS

(* The server takes the first message.                                     *)
LEMMA InboxShrinks ==
  ASSUME inbox \in Seq(InMsg), inbox # << >>, inbox' = Tail(inbox)
  PROVE  /\ inbox' \in Seq(InMsg) /\ Head(inbox) = inbox[1] /\ Head(inbox) \in InMsg
         /\ 1 \in DOMAIN inbox /\ DOMAIN inbox = 1..Len(inbox) /\ Len(inbox) \in Nat
         /\ DOMAIN inbox' = 1..(Len(inbox) - 1) /\ Len(inbox') = Len(inbox) - 1
         /\ \A i \in DOMAIN inbox' : i + 1 \in DOMAIN inbox /\ inbox'[i] = inbox[i + 1]
         /\ \A i \in DOMAIN inbox : i # 1 => i - 1 \in DOMAIN inbox' /\ inbox'[i - 1] = inbox[i]
OBVIOUS

(* What the server sends last of d, if anything, is what is heard last.    *)
LEMMA LastWordSent ==
  ASSUME outbox \in Seq(OutMsg), NEW ms \in Seq(OutMsg), outbox' = outbox \o ms, UNCHANGED shown,
         NEW CONSTANT d \in Docs, NEW CONSTANT v,
         \A j \in DOMAIN ms : Says(ms[j], d) => ms[j].diagnostics = v,
         (\E j \in DOMAIN ms : Says(ms[j], d)) \/ LastWord(d, v)
  PROVE  LastWord(d, v)'
<1>1. ASSUME \A i \in DOMAIN outbox' : ~Says(outbox'[i], d) PROVE shown'[d] = v
  BY <1>1, OutboxGrows DEF LastWord
<1>2. ASSUME NEW i \in DOMAIN outbox', Says(outbox'[i], d),
             \A j \in DOMAIN outbox' : j > i => ~Says(outbox'[j], d)
      PROVE  outbox'[i].diagnostics = v
  <2>1. CASE i \in DOMAIN outbox
    <3>1. ASSUME NEW j \in DOMAIN ms PROVE ~Says(ms[j], d)
      <4>1. /\ Len(outbox) + j \in DOMAIN outbox' /\ outbox'[Len(outbox) + j] = ms[j]
            /\ Len(outbox) + j > i
        BY <2>1, OutboxGrows
      <4> QED BY <1>2, <4>1
    <3>2. \A j \in DOMAIN outbox : j > i => ~Says(outbox[j], d)
      BY <1>2, OutboxGrows
    <3> QED BY <1>2, <2>1, <3>1, <3>2, OutboxGrows DEF LastWord
  <2>2. CASE i \notin DOMAIN outbox
    BY <1>2, <2>2, OutboxGrows
  <2> QED BY <2>1, <2>2
<1>3. (\A i \in DOMAIN outbox : ~Says(outbox[i], d))' => shown'[d] = v
  BY <1>1 DEF Says
<1> QED BY <1>2, <1>3 DEF LastWord, Says

(* ... and the editor hears it.                                            *)
LEMMA LastWordReceived ==
  ASSUME Types, outbox # << >>, outbox' = Tail(outbox),
         shown' = IF Head(outbox).kind = "publish"
                  THEN [shown EXCEPT ![Head(outbox).doc] = Head(outbox).diagnostics] ELSE shown,
         NEW CONSTANT d \in Docs, NEW CONSTANT v, LastWord(d, v)
  PROVE  LastWord(d, v)'
<1>1. outbox \in Seq(OutMsg)
  BY DEF Types
<1>2. shown'[d] = IF Says(outbox[1], d) THEN outbox[1].diagnostics ELSE shown[d]
  BY <1>1, OutboxShrinks DEF Types, Says
<1>3. ASSUME \A i \in DOMAIN outbox' : ~Says(outbox'[i], d) PROVE shown'[d] = v
  <2>1. \A i \in DOMAIN outbox : i # 1 => ~Says(outbox[i], d)
    BY <1>1, <1>3, OutboxShrinks
  <2> QED BY <1>1, <1>2, <2>1, OutboxShrinks DEF LastWord
<1>4. ASSUME NEW i \in DOMAIN outbox', Says(outbox'[i], d),
             \A j \in DOMAIN outbox' : j > i => ~Says(outbox'[j], d)
      PROVE  outbox'[i].diagnostics = v
  <2>1. i + 1 \in DOMAIN outbox /\ outbox'[i] = outbox[i + 1]
    BY <1>1, OutboxShrinks
  <2>2. ASSUME NEW j \in DOMAIN outbox, j > i + 1 PROVE ~Says(outbox[j], d)
    <3>1. i \in Nat /\ j \in Nat /\ j # 1 /\ j - 1 > i
      BY <1>1, <2>2, OutboxShrinks
    <3>2. j - 1 \in DOMAIN outbox' /\ outbox'[j - 1] = outbox[j]
      BY <1>1, <3>1, OutboxShrinks
    <3> QED BY <1>4, <3>1, <3>2
  <2> QED BY <1>4, <2>1, <2>2 DEF LastWord
<1> QED BY <1>3, <1>4 DEF LastWord, Says

(* A message of the editor leads on from the text it had.                  *)
LEMMA TextsSaid ==
  ASSUME Types, NEW CONSTANT d \in Docs, TextsFollow(d), NEW m \in InMsg, inbox' = Append(inbox, m),
         UNCHANGED session, text' \in [Docs -> Nat \cup {Closed}], Moves(m, d, text[d], text'[d])
  PROVE  TextsFollow(d)'
<1>1. PICK h \in [1..(Len(inbox) + 1) -> Nat \cup {Closed}] : Leads(h, d)
  BY DEF TextsFollow
<1>2. PICK n \in Nat : n = Len(inbox) /\ Len(inbox') = n + 1
  BY InboxGrows DEF Types
<1>3. PICK g \in [1..(n + 2) -> Nat \cup {Closed}] :
        g = [i \in 1..(n + 2) |-> IF i <= n + 1 THEN h[i] ELSE text'[d]]
  <2>1. ASSUME NEW i \in 1..(n + 2)
        PROVE  (IF i <= n + 1 THEN h[i] ELSE text'[d]) \in Nat \cup {Closed}
    BY <1>2
  <2>2. [i \in 1..(n + 2) |-> IF i <= n + 1 THEN h[i] ELSE text'[d]] \in [1..(n + 2) -> Nat \cup {Closed}]
    BY <2>1
  <2> QED BY <2>2
<1>4. g[1] = ServerText(session', d) /\ g[n + 2] = text'[d]
  BY <1>1, <1>2, <1>3 DEF Leads
<1>5. ASSUME NEW i \in 1..(n + 1) PROVE Moves(inbox'[i], d, g[i], g[i + 1])
  <2>1. CASE i = n + 1
    <3>1. inbox'[i] = m /\ g[i] = text[d] /\ g[i + 1] = text'[d]
      BY <1>1, <1>2, <1>3, <2>1, InboxGrows DEF Leads, Types
    <3> QED BY <3>1
  <2>2. CASE i # n + 1
    <3>1. i \in 1..n /\ i \in DOMAIN inbox /\ g[i] = h[i] /\ g[i + 1] = h[i + 1]
      BY <1>2, <1>3, <2>2, InboxGrows DEF Types
    <3>2. inbox'[i] = inbox[i]
      BY <3>1, InboxGrows DEF Types
    <3> QED BY <1>1, <1>2, <3>1, <3>2 DEF Leads
  <2> QED BY <2>1, <2>2
<1>6. n + 1 + 1 = n + 2
  BY <1>2
<1>7. Leads(g, d)'
  BY <1>2, <1>4, <1>5, <1>6 DEF Leads, Moves, ServerText
<1> QED BY <1>2, <1>3, <1>6, <1>7 DEF TextsFollow

(* The server follows the first message.                                   *)
LEMMA TextsTaken ==
  ASSUME Types, NEW CONSTANT d \in Docs, TextsFollow(d), inbox # << >>, inbox' = Tail(inbox), UNCHANGED text,
         \A b \in Nat \cup {Closed} :
           Moves(Head(inbox), d, ServerText(session, d), b) => ServerText(session', d) = b
  PROVE  TextsFollow(d)'
<1>1. PICK h \in [1..(Len(inbox) + 1) -> Nat \cup {Closed}] : Leads(h, d)
  BY DEF TextsFollow
<1>0. inbox \in Seq(InMsg)
  BY DEF Types
<1>2. PICK n \in Nat : n > 0 /\ n = Len(inbox) /\ Len(inbox') = n - 1
  <2>1. Len(inbox) \in Nat /\ Len(inbox) > 0 /\ Len(inbox') = Len(inbox) - 1
    BY <1>0, InboxShrinks
  <2> QED BY <2>1
<1>3. PICK g \in [1..n -> Nat \cup {Closed}] : g = [i \in 1..n |-> h[i + 1]]
  <2>1. ASSUME NEW i \in 1..n PROVE h[i + 1] \in Nat \cup {Closed}
    BY <1>2
  <2>2. [i \in 1..n |-> h[i + 1]] \in [1..n -> Nat \cup {Closed}]
    BY <2>1
  <2> QED BY <2>2
<1>4. g[n] = text'[d]
  BY <1>1, <1>2, <1>3 DEF Leads
<1>5. g[1] = ServerText(session', d)
  <2>1. Moves(Head(inbox), d, ServerText(session, d), h[2])
    <3>1. Head(inbox) = inbox[1] /\ 1 \in 1..Len(inbox) /\ 1 + 1 = 2
      BY <1>0, <1>2, InboxShrinks
    <3> QED BY <1>1, <3>1 DEF Leads
  <2>2. h[2] \in Nat \cup {Closed} /\ g[1] = h[2]
    BY <1>2, <1>3
  <2> QED BY <2>1, <2>2
<1>6. ASSUME NEW i \in 1..(n - 1) PROVE Moves(inbox'[i], d, g[i], g[i + 1])
  <2>1. inbox'[i] = inbox[i + 1] /\ i + 1 \in 1..n
    BY <1>0, <1>2, InboxShrinks
  <2>2. g[i] = h[i + 1] /\ g[i + 1] = h[(i + 1) + 1]
    BY <1>2, <1>3, <2>1
  <2> QED BY <1>1, <1>2, <2>1, <2>2 DEF Leads
<1>7. n - 1 + 1 = n
  BY <1>2
<1>8. Leads(g, d)'
  BY <1>2, <1>4, <1>5, <1>6, <1>7 DEF Leads, Moves, ServerText
<1> QED BY <1>2, <1>3, <1>7, <1>8 DEF TextsFollow

(* ... or nothing is taken and the server's text stays.                    *)
LEMMA TextsKept ==
  ASSUME NEW CONSTANT d \in Docs, TextsFollow(d), UNCHANGED <<inbox, text>>,
         ServerText(session', d) = ServerText(session, d)
  PROVE  TextsFollow(d)'
<1>1. PICK h \in [1..(Len(inbox) + 1) -> Nat \cup {Closed}] : Leads(h, d)
  BY DEF TextsFollow
<1>2. Leads(h, d)'
  BY <1>1 DEF Leads, ServerText, Moves
<1> QED BY <1>2 DEF TextsFollow

-----------------------------------------------------------------------------
(* Steps of the server, one part of the invariant after the other.         *)

(* What ms tells of d is what the server's text of d deserves, and d is    *)
(* told of unless it was before.                                           *)
Heard(ms, d) ==
  d \notin Range(stale') =>
    /\ Diagnosed(session', d)
    /\ \A j \in DOMAIN ms : Says(ms[j], d) => ms[j].diagnostics = RunDiagnostics(session', d)
    /\ \/ \E j \in DOMAIN ms : Says(ms[j], d)
       \/ d \notin Range(stale) /\ RunDiagnostics(session', d) = RunDiagnostics(session, d)

(* A code action is made from diagnostics of the text it changes.          *)
QuickOK(m) ==
  m.kind = "reply" /\ m.answer # None /\ "quick" \in DOMAIN m.answer
    => m.answer.quick = IF m.answer.doc \in m.answer.config.exclude THEN None
                        ELSE Lint(m.answer.source, m.answer.config)

(* What is sent keeps the unedited documents up to date.                   *)
LEMMA UpToDateSent ==
  ASSUME outbox \in Seq(OutMsg), NEW CONSTANT d \in Docs, UpToDate(d),
         NEW ms \in Seq(OutMsg), outbox' = outbox \o ms, UNCHANGED shown, Heard(ms, d)
  PROVE  UpToDate(d)'
<1> SUFFICES ASSUME d \notin Range(stale') PROVE Diagnosed(session', d) /\ LastWord(d, RunDiagnostics(session, d))'
  BY DEF UpToDate, Diagnosed, RunDiagnostics, Opened, IsExcluded
<1>1. PICK v : v = RunDiagnostics(session', d)
  OBVIOUS
<1>2. (\E j \in DOMAIN ms : Says(ms[j], d)) \/ LastWord(d, v)
  BY <1>1 DEF Heard, UpToDate
<1>3. \A j \in DOMAIN ms : Says(ms[j], d) => ms[j].diagnostics = v
  BY <1>1 DEF Heard
<1>4. LastWord(d, v)'
  BY <1>2, <1>3, LastWordSent
<1>5. LastWord(d, RunDiagnostics(session, d))'
  BY <1>1, <1>4 DEF LastWord, Says
<1> QED BY <1>5 DEF Heard

(* What is sent keeps the code actions on the text they change.            *)
LEMMA QuickSent ==
  ASSUME outbox \in Seq(OutMsg), CodeActionsMatchText, NEW ms \in Seq(OutMsg), outbox' = outbox \o ms,
         \A j \in DOMAIN ms : QuickOK(ms[j])
  PROVE  CodeActionsMatchText'
<1>1. \A i \in DOMAIN outbox : QuickOK(outbox[i])
  BY DEF CodeActionsMatchText, QuickOK
<1>2. \A i \in DOMAIN outbox' : QuickOK(outbox'[i])
  BY <1>1, OutboxGrows
<1> QED BY <1>2 DEF CodeActionsMatchText, QuickOK

(* The server takes the first message, or none.                            *)
Taken == inbox # << >> /\ inbox' = Tail(inbox)

(* A message the server has taken is what is gone from the channel.        *)
LEMMA InboxKept ==
  ASSUME inbox \in Seq(InMsg), UNCHANGED inbox \/ Taken
  PROVE  /\ inbox' \in Seq(InMsg)
         /\ \E k \in {0, 1} :
              /\ k = 0 <=> ~Taken
              /\ \A i \in DOMAIN inbox' : i + k \in DOMAIN inbox /\ inbox'[i] = inbox[i + k] /\ i \in Nat
              /\ \A i \in DOMAIN inbox : i > k => i - k \in DOMAIN inbox' /\ inbox'[i - k] = inbox[i]
<1>1. CASE Taken
  <2>1. inbox # << >> /\ inbox' = Tail(inbox)
    BY <1>1 DEF Taken
  <2>2. /\ inbox' \in Seq(InMsg) /\ DOMAIN inbox = 1..Len(inbox) /\ DOMAIN inbox' = 1..(Len(inbox) - 1)
        /\ Len(inbox) \in Nat
        /\ \A i \in DOMAIN inbox' : i + 1 \in DOMAIN inbox /\ inbox'[i] = inbox[i + 1]
        /\ \A i \in DOMAIN inbox : i # 1 => i - 1 \in DOMAIN inbox' /\ inbox'[i - 1] = inbox[i]
    BY <2>1, InboxShrinks
  <2>3. \A i \in DOMAIN inbox' : i \in Nat
    BY <2>2
  <2>4. \A i \in DOMAIN inbox : i > 1 => i # 1
    BY <2>2
  <2> QED BY <1>1, <2>2, <2>3, <2>4
<1>2. CASE ~Taken
  BY <1>2
<1> QED BY <1>1, <1>2

(* Requests for settings that the server does not take part in.            *)
LEMMA IdsKept ==
  ASSUME Types, IdsOnce, UNCHANGED asks, UNCHANGED inbox \/ Taken,
         NEW ms \in Seq(OutMsg), outbox' = outbox \o ms,
         \A j \in DOMAIN ms : ms[j].kind # "configuration",
         \A id \in pending \ pending' : Taken /\ Head(inbox).kind = "settings" /\ Head(inbox).id = id
  PROVE  IdsOnce'
<1>1. inbox \in Seq(InMsg) /\ outbox \in Seq(OutMsg)
  BY DEF Types
<1>2. \A i \in DOMAIN outbox' :
        outbox'[i].kind = "configuration" => i \in DOMAIN outbox /\ outbox'[i] = outbox[i]
  BY <1>1, OutboxGrows
<1>3. PICK k \in {0, 1} :
        /\ k = 0 <=> ~Taken
        /\ \A i \in DOMAIN inbox' : i + k \in DOMAIN inbox /\ inbox'[i] = inbox[i + k] /\ i \in Nat
  BY <1>1, InboxKept
<1>4. ASSUME NEW id \in pending \ pending'
      PROVE  /\ k = 1 /\ 1 \in DOMAIN inbox /\ inbox[1].kind = "settings" /\ inbox[1].id = id
  BY <1>1, <1>3, <1>4, InboxShrinks DEF Taken
<1>5. ASSUME NEW i \in DOMAIN inbox', inbox'[i].kind = "settings"
      PROVE  /\ inbox'[i].id \in pending'
             /\ \A j \in DOMAIN inbox' : inbox'[j].kind = "settings" /\ j # i => inbox'[j].id # inbox'[i].id
             /\ \A j \in DOMAIN asks' : asks'[j] # inbox'[i].id
             /\ \A j \in DOMAIN outbox' : outbox'[j].kind = "configuration" => outbox'[j].id # inbox'[i].id
  <2>1. i + k \in DOMAIN inbox /\ inbox'[i] = inbox[i + k] /\ i \in Nat /\ i # 0
    BY <1>1, <1>3, InboxKept
  <2>2. inbox'[i].id \in pending'
    <3> SUFFICES ASSUME inbox'[i].id \in pending \ pending' PROVE FALSE
      BY <1>5, <2>1 DEF IdsOnce
    <3>1. 1 \in DOMAIN inbox /\ inbox[1].kind = "settings" /\ inbox[1].id = inbox[i + k].id /\ i + k # 1
      BY <1>4, <2>1
    <3> QED BY <1>5, <2>1, <3>1 DEF IdsOnce
  <2>3. ASSUME NEW j \in DOMAIN inbox', inbox'[j].kind = "settings", j # i PROVE inbox'[j].id # inbox'[i].id
    <3>1. j + k \in DOMAIN inbox /\ inbox'[j] = inbox[j + k] /\ j + k # i + k
      BY <1>3, <2>1, <2>3
    <3> QED BY <1>5, <2>1, <2>3, <3>1 DEF IdsOnce
  <2> QED BY <1>2, <1>5, <2>1, <2>2, <2>3 DEF IdsOnce
<1>6. ASSUME NEW i \in DOMAIN asks'
      PROVE  /\ asks'[i] \in pending'
             /\ \A j \in DOMAIN asks' : j # i => asks'[j] # asks'[i]
             /\ \A j \in DOMAIN outbox' : outbox'[j].kind = "configuration" => outbox'[j].id # asks'[i]
  <2>1. asks[i] \in pending /\ (asks[i] \notin pending' => 1 \in DOMAIN inbox /\ inbox[1].kind = "settings" /\ inbox[1].id = asks[i])
    BY <1>4 DEF IdsOnce
  <2> QED BY <1>2, <2>1 DEF IdsOnce
<1>7. ASSUME NEW i \in DOMAIN outbox', outbox'[i].kind = "configuration"
      PROVE  /\ outbox'[i].id \in pending'
             /\ \A j \in DOMAIN outbox' : outbox'[j].kind = "configuration" /\ j # i => outbox'[j].id # outbox'[i].id
  <2>1. /\ i \in DOMAIN outbox /\ outbox'[i] = outbox[i] /\ outbox[i].id \in pending
        /\ outbox[i].id \notin pending' =>
             1 \in DOMAIN inbox /\ inbox[1].kind = "settings" /\ inbox[1].id = outbox[i].id
    BY <1>2, <1>4, <1>7 DEF IdsOnce
  <2> QED BY <1>2, <1>7, <2>1 DEF IdsOnce
<1> QED BY <1>5, <1>6, <1>7 DEF IdsOnce

(* Settings, the configuration file and their messages are left alone.     *)
LEMMA SettingsAside ==
  ASSUME Types, FileFollows, EditorFollows,
         UNCHANGED <<user, file, editor, unseen, asks, pending>>, session'.config = session.config,
         \/ UNCHANGED inbox
         \/ Taken /\ Head(inbox).kind \notin {"settings", "didChangeWatchedFiles", "didChangeConfiguration"},
         NEW ms \in Seq(OutMsg), outbox' = outbox \o ms
  PROVE  FileFollows' /\ EditorFollows'
<1>1. inbox \in Seq(InMsg) /\ outbox \in Seq(OutMsg)
  BY DEF Types
<1>2. PICK k \in {0, 1} :
        /\ k = 0 <=> ~Taken
        /\ \A i \in DOMAIN inbox' : i + k \in DOMAIN inbox /\ inbox'[i] = inbox[i + k] /\ i \in Nat
        /\ \A i \in DOMAIN inbox : i > k => i - k \in DOMAIN inbox' /\ inbox'[i - k] = inbox[i]
  BY <1>1, InboxKept
<1>3. ASSUME NEW i \in DOMAIN inbox,
             inbox[i].kind \in {"settings", "didChangeWatchedFiles", "didChangeConfiguration"}
      PROVE  i > k
  <2>1. i \in Nat /\ i > 0
    BY <1>1
  <2>2. k = 1 => Head(inbox) = inbox[1] /\ i # 1
    BY <1>1, <1>2, <1>3, InboxShrinks DEF Taken
  <2> QED BY <2>1, <2>2
<1>4. FileFollows'
  BY <1>2, <1>3 DEF FileFollows, Announced
<1>5. Asking => Asking'
  <2>1. ASSUME NEW i \in DOMAIN inbox, inbox[i].kind = "didChangeConfiguration" PROVE Asking'
    <3>1. i - k \in DOMAIN inbox' /\ inbox'[i - k] = inbox[i]
      BY <1>2, <1>3, <2>1
    <3> QED BY <2>1, <3>1 DEF Asking
  <2>2. ASSUME NEW i \in DOMAIN outbox, outbox[i].kind = "configuration" PROVE Asking'
    <3>1. i \in DOMAIN outbox' /\ outbox'[i] = outbox[i]
      BY <1>1, OutboxGrows
    <3> QED BY <2>2, <3>1 DEF Asking
  <2>3. asks # << >> => Asking'
    BY DEF Asking
  <2> QED BY <2>1, <2>2, <2>3 DEF Asking
<1>6. Answered => Answered'
  <2> SUFFICES ASSUME Answered PROVE Answered'
    OBVIOUS
  <2>1. ASSUME \A i \in DOMAIN inbox' : inbox'[i].kind # "settings" PROVE Obeyed'
    BY <1>2, <1>3, <2>1 DEF Answered, Obeyed
  <2>2. ASSUME NEW i \in DOMAIN inbox', inbox'[i].kind = "settings",
               \A j \in DOMAIN inbox' : j > i => inbox'[j].kind # "settings"
        PROVE  Good(inbox[i])'
    <3>1. i + k \in DOMAIN inbox /\ inbox'[i] = inbox[i + k] /\ i \in Nat
      BY <1>2
    <3>2. ASSUME NEW j \in DOMAIN inbox, j > i + k PROVE inbox[j].kind # "settings"
      <4>1. j \in Nat /\ j > k /\ j - k > i
        BY <1>1, <3>1, <3>2
      <4> QED BY <1>2, <2>2, <4>1
    <3>3. Good(inbox[i + k])
      BY <2>2, <3>1, <3>2 DEF Answered
    <3> QED BY <3>1, <3>3 DEF Good
  <2> QED BY <2>1, <2>2 DEF Answered
<1> QED BY <1>4, <1>5, <1>6 DEF EditorFollows

(* What the server sends is right, and does not ask for settings.          *)
Sound(ms) ==
  /\ outbox' = outbox \o ms
  /\ \A j \in DOMAIN ms : QuickOK(ms[j]) /\ ms[j].kind # "configuration"
  /\ \A d \in Docs : Heard(ms, d)

(* Once it has taken a shutdown request, the server never is as before.    *)
ModeStep ==
  /\ mode' \in {"starting", "serving", "closing", "ended"}
  /\ closing' \in 0..MaxClock
  /\ mode' = "closing" => closing' # 0
  /\ closing' # 0 => leaving # 0
  /\ closing # 0 => closing' # 0

(* The server's text of d is what the message taken makes of it.           *)
Follows(d) ==
  \/ UNCHANGED inbox /\ ServerText(session', d) = ServerText(session, d)
  \/ /\ Taken
     /\ \A b \in Nat \cup {Closed} :
          Moves(Head(inbox), d, ServerText(session, d), b) => ServerText(session', d) = b

(* A step of the server keeps the invariant if its parts are kept.         *)
LEMMA ServerStep ==
  ASSUME Inv, UNCHANGED <<client, nextId>>, UNCHANGED inbox \/ Taken, ModeStep,
         NEW ms \in Seq(OutMsg), Sound(ms),
         session' \in Session, stale' \in Seq(Docs), StaleOnce', pending' \subseteq pending,
         \A id \in pending \ pending' : Taken /\ Head(inbox).kind = "settings" /\ Head(inbox).id = id,
         closing' = 0 => FileFollows' /\ EditorFollows' /\ \A d \in Docs : Follows(d)
  PROVE  Inv'
<1>1. inbox \in Seq(InMsg) /\ outbox \in Seq(OutMsg) /\ outbox' = outbox \o ms
  BY DEF Inv, Types, Sound
<1>2. PICK k \in {0, 1} :
        /\ k = 0 <=> ~Taken
        /\ \A i \in DOMAIN inbox' : i + k \in DOMAIN inbox /\ inbox'[i] = inbox[i + k] /\ i \in Nat
  BY <1>1, InboxKept
<1>3. Types'
  <2>1. inbox' \in Seq(InMsg) /\ outbox' \in Seq(OutMsg)
    BY <1>1, InboxKept, OutboxGrows
  <2> QED BY <2>1 DEF Inv, Types, client, ModeStep
<1>4. Leaving'
  BY <1>2 DEF Inv, Leaving, ModeStep, client
<1>5. IdsOnce'
  BY IdsKept DEF Inv, Sound, client
<1>6. FileStays'
  BY <1>2 DEF Inv, FileStays, Announced, client
<1>7. CodeActionsMatchText'
  BY <1>1, QuickSent DEF Inv, Sound
<1>8. ASSUME NEW d \in Docs PROVE UpToDate(d)'
  BY <1>1, UpToDateSent DEF Inv, Sound, client
<1>9. ASSUME closing' = 0 PROVE (\A d \in Docs : TextsFollow(d)) ' /\ FileFollows' /\ EditorFollows'
  <2>1. closing = 0
    BY <1>9 DEF ModeStep
  <2>2. ASSUME NEW d \in Docs PROVE TextsFollow(d)'
    <3>1. TextsFollow(d) /\ Follows(d) /\ Types /\ UNCHANGED text
      BY <1>9, <2>1 DEF Inv, client
    <3> QED BY <3>1, TextsKept, TextsTaken DEF Follows, Taken
  <2> QED BY <1>9, <2>2
<1> QED BY <1>3, <1>4, <1>5, <1>6, <1>7, <1>8, <1>9 DEF Inv

(* A step that leaves the configuration alone.                             *)
LEMMA DocumentStep ==
  ASSUME Inv, UNCHANGED <<client, pending, nextId>>, ModeStep, NEW ms \in Seq(OutMsg), Sound(ms),
         session' \in Session, session'.config = session.config, stale' \in Seq(Docs), StaleOnce',
         UNCHANGED inbox \/ Taken,
         closing' = 0 =>
           /\ Taken => Head(inbox).kind \notin {"settings", "didChangeWatchedFiles", "didChangeConfiguration"}
           /\ \A d \in Docs : Follows(d)
  PROVE  Inv'
<1>1. ASSUME closing' = 0 PROVE FileFollows' /\ EditorFollows'
  <2>1. closing = 0
    BY <1>1 DEF ModeStep
  <2> QED BY <1>1, <2>1, SettingsAside DEF Inv, client, Sound
<1> QED BY <1>1, ServerStep

(* What is published of the documents of a list.                           *)
LEMMA PublishedSays ==
  ASSUME NEW s \in Session, NEW ds \in Seq(Docs)
  PROVE  /\ Published(s, ds) \in Seq(OutMsg)
         /\ \A j \in DOMAIN Published(s, ds) :
              QuickOK(Published(s, ds)[j]) /\ Published(s, ds)[j].kind # "configuration"
         /\ \A d \in Docs, j \in DOMAIN Published(s, ds) :
              Says(Published(s, ds)[j], d) =>
                d \in Range(ds) /\ Published(s, ds)[j].diagnostics = RunDiagnostics(s, d)
         /\ \A d \in Range(ds) : \E j \in DOMAIN Published(s, ds) : Says(Published(s, ds)[j], d)
<1> DEFINE ms == Published(s, ds)
<1>1. /\ ms \in Seq(OutMsg) /\ DOMAIN ms = DOMAIN ds
      /\ \A j \in DOMAIN ms : ms[j] = [kind |-> "publish", doc |-> ds[j], diagnostics |-> RunDiagnostics(s, ds[j])]
  <2>1. /\ ms \in Seq(OutMsg) /\ Len(ms) = Len(ds)
        /\ \A i \in 1..Len(ds) : ms[i] = Publish(ds[i], RunDiagnostics(s, ds[i]))
    BY PublishedFacts
  <2> HIDE DEF ms
  <2>2. DOMAIN ms = 1..Len(ds) /\ DOMAIN ds = 1..Len(ds)
    BY <2>1
  <2> QED BY <2>1, <2>2 DEF Publish
<1> HIDE DEF ms
<1>2. \A j \in DOMAIN ms : QuickOK(ms[j]) /\ ms[j].kind # "configuration"
  BY <1>1 DEF QuickOK
<1>3. \A d \in Docs, j \in DOMAIN ms :
        Says(ms[j], d) => d \in Range(ds) /\ ms[j].diagnostics = RunDiagnostics(s, d)
  BY <1>1 DEF Says, Range
<1>4. \A d \in Range(ds) : \E j \in DOMAIN ms : Says(ms[j], d)
  BY <1>1 DEF Says, Range
<1> QED BY <1>1, <1>2, <1>3, <1>4 DEF ms

(* What is edited is published: afterwards every document is up to date.   *)
LEMMA FlushedFacts ==
  ASSUME Inv, NEW d \in Docs
  PROVE  /\ Diagnosed(Relinted(session, Range(stale)), d)
         /\ RunDiagnostics(Relinted(session, Range(stale)), d) = RunDiagnostics(session, d)
         /\ ServerText(Relinted(session, Range(stale)), d) = ServerText(session, d)
BY RelintedFacts DEF Inv, Types, UpToDate

(* A document that neither the step nor its messages touch.                *)
LEMMA HeardKept ==
  ASSUME NEW d \in Docs, UpToDate(d), NEW ms \in Seq(OutMsg), \A j \in DOMAIN ms : ~Says(ms[j], d),
         session'.documents[d] = session.documents[d], session'.config = session.config,
         d \in Range(stale) => d \in Range(stale')
  PROVE  Heard(ms, d) /\ ServerText(session', d) = ServerText(session, d)
BY DEF Heard, UpToDate, Diagnosed, RunDiagnostics, Opened, IsExcluded, ServerText

(* Nothing is sent and no document touched.                                *)
LEMMA NothingSent ==
  ASSUME Inv, UNCHANGED <<outbox, session, stale>>
  PROVE  /\ << >> \in Seq(OutMsg) /\ Sound(<< >>)
         /\ session' \in Session /\ stale' \in Seq(Docs) /\ StaleOnce'
         /\ \A d \in Docs : ServerText(session', d) = ServerText(session, d)
<1>0. << >> \in Seq(OutMsg)
  OBVIOUS
<1>1. PICK ms \in Seq(OutMsg) : ms = << >>
  BY <1>0
<1>2. DOMAIN ms = {} /\ outbox \in Seq(OutMsg)
  BY <1>1 DEF Inv, Types
<1>3. outbox' = outbox \o ms
  BY <1>1, <1>2
<1>4. ASSUME NEW d \in Docs PROVE Heard(ms, d) /\ ServerText(session', d) = ServerText(session, d)
  BY <1>2, HeardKept DEF Inv
<1>5. Sound(ms)
  BY <1>2, <1>3, <1>4 DEF Sound
<1> QED BY <1>1, <1>4, <1>5 DEF Inv, Types, StaleOnce

(* The watchers are registered.                                            *)
LEMMA RegisterInv == ASSUME Inv, RegisterWatchers PROVE Inv'
<1> DEFINE m == [kind |-> "register"]
<1>1. m \in OutMsg /\ QuickOK(m) /\ m.kind # "configuration" /\ \A d \in Docs : ~Says(m, d)
  BY DEF OutMsg, QuickOK, Says
<1>2. /\ UNCHANGED <<client, pending, nextId, inbox, session, stale, closing>>
      /\ mode' = "serving" /\ outbox' = outbox \o <<m>>
  BY DEF RegisterWatchers, Sends
<1>3. /\ ModeStep /\ session' \in Session /\ stale' \in Seq(Docs) /\ StaleOnce'
      /\ session'.config = session.config /\ (Taken => FALSE)
  BY <1>2, InboxShrinks DEF Inv, Types, ModeStep, Leaving, StaleOnce, Taken
<1> HIDE DEF m
<1>4. <<m>> \in Seq(OutMsg) /\ DOMAIN <<m>> = {1} /\ <<m>>[1] = m
  BY <1>1
<1>5. ASSUME NEW d \in Docs PROVE Heard(<<m>>, d) /\ ServerText(session', d) = ServerText(session, d)
  BY <1>1, <1>2, <1>4, HeardKept DEF Inv
<1>6. Sound(<<m>>)
  BY <1>1, <1>2, <1>4, <1>5 DEF Sound
<1> QED BY <1>2, <1>3, <1>4, <1>5, <1>6, DocumentStep DEF Follows

(* The edited documents are published.                                     *)
LEMMA FlushInv == ASSUME Inv, Flush PROVE Inv'
<1>1. /\ UNCHANGED <<client, pending, nextId, inbox, mode, closing>>
      /\ stale' = << >> /\ session' = Relinted(session, Range(stale))
      /\ outbox' = outbox \o Published(session, stale)
  BY DEF Flush, Sends
<1>2. session \in Session /\ stale \in Seq(Docs)
  BY DEF Inv, Types
<1>3. session' \in Session /\ session'.config = session.config
  BY <1>1, <1>2, RelintedFacts
<1>4. ModeStep /\ stale' \in Seq(Docs) /\ StaleOnce' /\ (Taken => FALSE)
  BY <1>1, InboxShrinks DEF Inv, Types, ModeStep, Leaving, StaleOnce, Taken
<1>5. PICK ms \in Seq(OutMsg) : ms = Published(session, stale)
  BY <1>2, PublishedSays
<1>6. ASSUME NEW d \in Docs PROVE Heard(ms, d) /\ ServerText(session', d) = ServerText(session, d)
  BY <1>1, <1>2, <1>5, PublishedSays, FlushedFacts DEF Heard
<1>7. Sound(ms)
  BY <1>1, <1>2, <1>5, <1>6, PublishedSays DEF Sound
<1> QED BY <1>1, <1>3, <1>4, <1>6, <1>7, DocumentStep DEF Follows

(* A message that says nothing of documents or settings is taken.          *)
LEMMA IgnoredInv == ASSUME Inv, HandleIgnored PROVE Inv'
<1>1. /\ UNCHANGED <<client, outbox, session, stale, pending, nextId, mode, closing>>
      /\ Taken /\ Head(inbox).kind = "exit"
  BY DEF HandleIgnored, Takes, Taken, server
<1>2. ModeStep
  BY <1>1 DEF Inv, Types, ModeStep, Leaving
<1>3. \A d \in Docs : Follows(d)
  BY <1>1, NothingSent DEF Follows, Moves
<1> QED BY <1>1, <1>2, <1>3, NothingSent, DocumentStep

(* The loop ends.                                                          *)
LEMMA StopInv == ASSUME Inv, Stop PROVE Inv'
<1>1. UNCHANGED <<client, inbox, outbox, session, stale, pending, nextId, closing>> /\ mode' = "ended"
  BY DEF Stop
<1>2. ModeStep /\ (Taken => FALSE)
  BY <1>1, InboxShrinks DEF Inv, Types, ModeStep, Leaving, Taken
<1>3. \A d \in Docs : Follows(d)
  BY <1>1, NothingSent DEF Follows
<1> QED BY <1>1, <1>2, <1>3, NothingSent, DocumentStep

(* exit, after the response to a shutdown request.                         *)
LEMMA TakeExitInv == ASSUME Inv, TakeExit PROVE Inv'
<1>1. /\ UNCHANGED <<client, outbox, session, stale, pending, nextId, closing>> /\ Taken
      /\ mode = "closing" /\ mode' = "ended"
  BY DEF TakeExit, Taken
<1>2. ModeStep /\ closing' # 0
  BY <1>1 DEF Inv, Types, ModeStep, Leaving
<1> QED BY <1>1, <1>2, NothingSent, DocumentStep

(* A message between the shutdown request and exit is lost.                *)
LEMMA ShutdownFailsInv == ASSUME Inv, ShutdownFails PROVE Inv'
<1> DEFINE m == Reply(closing, None)
<1>1. /\ UNCHANGED <<client, session, stale, pending, nextId, closing>>
      /\ UNCHANGED inbox \/ Taken
      /\ mode = "closing" /\ mode' = "serving" /\ outbox' = outbox \o <<m>>
  BY DEF ShutdownFails, Taken, Sends
<1>2. /\ ModeStep /\ session' \in Session /\ stale' \in Seq(Docs) /\ StaleOnce' /\ closing' # 0
      /\ closing \in Ids
  BY <1>1, ServerBounds DEF Inv, Types, ModeStep, Leaving, StaleOnce, Ids
<1>3. m \in OutMsg /\ QuickOK(m) /\ m.kind # "configuration" /\ \A d \in Docs : ~Says(m, d)
  BY <1>2 DEF OutMsg, QuickOK, Says, Reply, Answers
<1> HIDE DEF m
<1>4. <<m>> \in Seq(OutMsg) /\ DOMAIN <<m>> = {1} /\ <<m>>[1] = m
  BY <1>3
<1>5. ASSUME NEW d \in Docs PROVE Heard(<<m>>, d)
  BY <1>1, <1>3, <1>4, HeardKept DEF Inv
<1>6. Sound(<<m>>)
  BY <1>1, <1>3, <1>4, <1>5 DEF Sound
<1> QED BY <1>1, <1>2, <1>4, <1>6, DocumentStep

-----------------------------------------------------------------------------
(* The messages about documents.                                           *)

(* What each kind of message carries.                                      *)
LEMMA InMsgFields ==
  ASSUME NEW m \in InMsg
  PROVE  /\ m.kind = "didOpen" => m.doc \in Docs /\ m.text \in Nat
         /\ m.kind = "didChange" => m.doc \in Docs /\ m.changes \in Changes
         /\ m.kind \in {"didClose", "didSave"} => m.doc \in Docs
         /\ m.kind = "request" => m.method \in Requests /\ m.id \in Ids /\ m.doc \in Docs
         /\ m.kind = "settings" => m.id \in Nat /\ m.object \in BOOLEAN /\ m.settings \in EditorSettings
         /\ m.kind = "shutdown" => m.id \in Ids
BY DEF InMsg

(* A handler runs while the server serves.                                 *)
LEMMA Serving ==
  ASSUME Inv, NEW kind, Takes(kind), UNCHANGED <<mode, closing, client>>
  PROVE  Taken /\ msg \in InMsg /\ msg = Head(inbox) /\ msg.kind = kind /\ ModeStep
<1>1. inbox \in Seq(InMsg) /\ inbox # << >> /\ inbox' = Tail(inbox) /\ Head(inbox).kind = kind
  BY DEF Takes, Inv, Types
<1>2. Head(inbox) \in InMsg
  BY <1>1, InboxShrinks
<1>3. ModeStep
  BY DEF ModeStep, Inv, Types, Leaving, client
<1> QED BY <1>1, <1>2, <1>3 DEF Taken, msg

(* A list of one document.                                                 *)
LEMMA Single ==
  ASSUME NEW d \in Docs PROVE <<d>> \in Seq(Docs) /\ Range(<<d>>) = {d}
BY DEF Range

(* ... and what is published of it.                                        *)
LEMMA PublishedOne ==
  ASSUME NEW s \in Session, NEW d \in Docs
  PROVE  \E ms \in Seq(OutMsg) :
           /\ ms = Published(s, <<d>>)
           /\ \A j \in DOMAIN ms : QuickOK(ms[j]) /\ ms[j].kind # "configuration"
           /\ \A e \in Docs, j \in DOMAIN ms :
                Says(ms[j], e) => e = d /\ ms[j].diagnostics = RunDiagnostics(s, e)
           /\ \E j \in DOMAIN ms : Says(ms[j], d)
<1>1. <<d>> \in Seq(Docs) /\ Range(<<d>>) = {d}
  BY Single
<1>2. PICK ds \in Seq(Docs) : ds = <<d>> /\ Range(ds) = {d}
  BY <1>1
<1>3. PICK ms : ms = Published(s, ds)
  OBVIOUS
<1>4. /\ ms \in Seq(OutMsg)
      /\ \A j \in DOMAIN ms : QuickOK(ms[j]) /\ ms[j].kind # "configuration"
      /\ \A e \in Docs, j \in DOMAIN ms :
           Says(ms[j], e) => e \in Range(ds) /\ ms[j].diagnostics = RunDiagnostics(s, e)
      /\ \A e \in Range(ds) : \E j \in DOMAIN ms : Says(ms[j], e)
  BY <1>3, PublishedSays
<1> QED BY <1>2, <1>3, <1>4

(* didOpen: the document is the editor's, and published.                   *)
LEMMA OpenInv == ASSUME Inv, HandleOpen PROVE Inv'
<1>1. Taken /\ msg \in InMsg /\ msg = Head(inbox) /\ msg.kind = "didOpen" /\ ModeStep
      /\ UNCHANGED <<client, stale, pending, nextId, mode, closing>>
  BY Serving DEF HandleOpen
<1>2. PICK d \in Docs : d = msg.doc /\ msg.text \in Nat
  BY <1>1, InMsgFields
<1>3. PICK s : s = OpenDoc(session, d, msg.text)
  OBVIOUS
<1>4. session' = Relinted(s, {d}) /\ outbox' = outbox \o Published(s, <<d>>)
  BY <1>2, <1>3 DEF HandleOpen, Sends
<1>5. session \in Session
  BY DEF Inv, Types
<1>6. /\ s \in Session /\ s.config = session.config
      /\ s.documents[d] \in DocumentState /\ s.documents[d].source = msg.text
      /\ \A e \in Docs \ {d} : s.documents[e] = session.documents[e]
  <2>1. [source |-> msg.text, diagnostics |-> None] \in DocumentState
    BY <1>2 DEF DocumentState, Texts, Diagnostics
  <2>2. s.documents[d] = [source |-> msg.text, diagnostics |-> None]
    BY <1>3, <1>5 DEF OpenDoc, Session
  <2> QED BY <1>3, <1>5, <2>1, <2>2 DEF OpenDoc, Session
<1>7. d \in Opened(s) /\ ServerText(s, d) = msg.text
  BY <1>6, PlaceholdersDiffer DEF Opened, ServerText
<1>8. /\ session' \in Session /\ session'.config = session.config
      /\ ServerText(session', d) = msg.text
      /\ Diagnosed(session', d) /\ RunDiagnostics(session', d) = RunDiagnostics(s, d)
      /\ \A e \in Docs \ {d} : session'.documents[e] = session.documents[e]
  BY <1>4, <1>6, <1>7, RelintedFacts
<1>9. PICK ms \in Seq(OutMsg) :
        /\ ms = Published(s, <<d>>)
        /\ \A j \in DOMAIN ms : QuickOK(ms[j]) /\ ms[j].kind # "configuration"
        /\ \A e \in Docs, j \in DOMAIN ms :
             Says(ms[j], e) => e = d /\ ms[j].diagnostics = RunDiagnostics(s, e)
        /\ \E j \in DOMAIN ms : Says(ms[j], d)
  BY <1>6, PublishedOne
<1>10. ASSUME NEW e \in Docs PROVE Heard(ms, e) /\ (e # d => ServerText(session', e) = ServerText(session, e))
  <2>1. CASE e = d
    BY <1>8, <1>9, <2>1 DEF Heard
  <2>2. CASE e # d
    BY <1>1, <1>8, <1>9, <2>2, HeardKept DEF Inv
  <2> QED BY <2>1, <2>2
<1>11. Sound(ms)
  BY <1>4, <1>9, <1>10 DEF Sound
<1>12. \A e \in Docs : Follows(e)
  BY <1>1, <1>2, <1>8, <1>10 DEF Follows, Moves
<1>13. stale' \in Seq(Docs) /\ StaleOnce'
  BY <1>1 DEF Inv, Types, StaleOnce
<1> QED BY <1>1, <1>8, <1>11, <1>12, <1>13, DocumentStep

(* didSave: the document is linted and published again.                    *)
LEMMA SaveInv == ASSUME Inv, HandleSave PROVE Inv'
<1>1. Taken /\ msg \in InMsg /\ msg = Head(inbox) /\ msg.kind = "didSave" /\ ModeStep
      /\ UNCHANGED <<client, stale, pending, nextId, mode, closing>>
  BY Serving DEF HandleSave
<1>2. PICK d \in Docs : d = msg.doc
  BY <1>1, InMsgFields
<1>3. session' = Relinted(session, {d}) /\ outbox' = outbox \o Published(session, <<d>>)
  BY <1>2 DEF HandleSave, Sends
<1>4. session \in Session
  BY DEF Inv, Types
<1>5. /\ session' \in Session /\ session'.config = session.config
      /\ Diagnosed(session', d) /\ RunDiagnostics(session', d) = RunDiagnostics(session, d)
      /\ \A e \in Docs : ServerText(session', e) = ServerText(session, e)
      /\ \A e \in Docs \ {d} : session'.documents[e] = session.documents[e]
  BY <1>3, <1>4, RelintedFacts
<1>6. PICK ms \in Seq(OutMsg) :
        /\ ms = Published(session, <<d>>)
        /\ \A j \in DOMAIN ms : QuickOK(ms[j]) /\ ms[j].kind # "configuration"
        /\ \A e \in Docs, j \in DOMAIN ms :
             Says(ms[j], e) => e = d /\ ms[j].diagnostics = RunDiagnostics(session, e)
        /\ \E j \in DOMAIN ms : Says(ms[j], d)
  BY <1>4, PublishedOne
<1>7. ASSUME NEW e \in Docs PROVE Heard(ms, e)
  <2>1. CASE e = d
    BY <1>5, <1>6, <2>1 DEF Heard
  <2>2. CASE e # d
    BY <1>1, <1>5, <1>6, <2>2, HeardKept DEF Inv
  <2> QED BY <2>1, <2>2
<1>8. Sound(ms)
  BY <1>3, <1>6, <1>7 DEF Sound
<1>9. \A e \in Docs : Follows(e)
  BY <1>1, <1>5 DEF Follows, Moves
<1>10. stale' \in Seq(Docs) /\ StaleOnce'
  BY <1>1 DEF Inv, Types, StaleOnce
<1> QED BY <1>1, <1>5, <1>8, <1>9, <1>10, DocumentStep

(* didChange: the text is patched, and the document to be published later. *)
LEMMA ChangeInv == ASSUME Inv, HandleChange PROVE Inv'
<1>1. Taken /\ msg \in InMsg /\ msg = Head(inbox) /\ msg.kind = "didChange" /\ ModeStep
      /\ UNCHANGED <<client, outbox, pending, nextId, mode, closing>>
  BY Serving DEF HandleChange
<1>2. PICK d \in Docs, changes \in Changes : d = msg.doc /\ changes = msg.changes
  BY <1>1, InMsgFields
<1>3. session \in Session /\ stale \in Seq(Docs) /\ StaleOnce
  BY DEF Inv, Types
<1>4. session' = Update(session, d, changes)
      /\ stale' = IF d \in Range(stale) THEN stale ELSE Append(stale, d)
  BY <1>2 DEF HandleChange
<1>5. stale' \in Seq(Docs) /\ StaleOnce' /\ d \in Range(stale') /\ Range(stale) \subseteq Range(stale')
  <2>1. CASE d \in Range(stale)
    BY <1>3, <1>4, <2>1 DEF StaleOnce
  <2>2. CASE d \notin Range(stale)
    <3>1. /\ stale' \in Seq(Docs) /\ DOMAIN stale = 1..Len(stale) /\ DOMAIN stale' = 1..(Len(stale) + 1)
          /\ Len(stale) \in Nat /\ stale'[Len(stale) + 1] = d
          /\ \A i \in DOMAIN stale : stale'[i] = stale[i]
      BY <1>3, <1>4, <2>2
    <3>2. \A i \in DOMAIN stale : stale[i] # d
      BY <2>2 DEF Range
    <3>3. Range(stale) \subseteq Range(stale') /\ d \in Range(stale')
      BY <3>1 DEF Range
    <3>4. StaleOnce'
      BY <1>3, <3>1, <3>2 DEF StaleOnce
    <3> QED BY <3>1, <3>3, <3>4
  <2> QED BY <2>1, <2>2
<1>6. /\ session' \in Session /\ session'.config = session.config
      /\ \A e \in Docs \ {d} : session'.documents[e] = session.documents[e]
      /\ d \in Opened(session) =>
           /\ session'.documents[d] \in DocumentState
           /\ session'.documents[d].source = Updated(session.documents[d].source, changes)
  <2>1. CASE d \notin Opened(session)
    BY <1>3, <1>4, <2>1 DEF Update
  <2>2. CASE d \in Opened(session)
    <3> DEFINE doc == [source |-> Updated(session.documents[d].source, changes), diagnostics |-> None]
    <3>1. session.documents[d].source \in Texts
      BY <1>3, <2>2 DEF Session, Opened, DocumentState
    <3>2. doc \in DocumentState
      BY <3>1, UpdatedType DEF DocumentState, Diagnostics
    <3>3. session' = [session EXCEPT !.documents[d] = doc]
      BY <1>4, <2>2 DEF Update
    <3>4. doc.source = Updated(session.documents[d].source, changes)
      OBVIOUS
    <3> HIDE DEF doc
    <3>5. session'.documents[d] = doc
      BY <1>3, <3>3 DEF Session
    <3> QED BY <1>3, <3>2, <3>3, <3>4, <3>5 DEF Session
  <2> QED BY <2>1, <2>2
<1>7. PICK ms \in Seq(OutMsg) : ms = << >> /\ DOMAIN ms = {}
  <2>1. << >> \in Seq(OutMsg)
    OBVIOUS
  <2>2. DOMAIN << >> = {}
    OBVIOUS
  <2> QED BY <2>1, <2>2
<1>8. ASSUME NEW e \in Docs PROVE Heard(ms, e) /\ (e # d => ServerText(session', e) = ServerText(session, e))
  <2>1. CASE e = d
    BY <1>5, <2>1 DEF Heard
  <2>2. CASE e # d
    <3>1. /\ UpToDate(e) /\ \A j \in DOMAIN ms : ~Says(ms[j], e)
          /\ session'.documents[e] = session.documents[e] /\ session'.config = session.config
          /\ e \in Range(stale) => e \in Range(stale')
      BY <1>5, <1>6, <1>7, <2>2 DEF Inv
    <3> QED BY <3>1, HeardKept
  <2> QED BY <2>1, <2>2
<1>9. Sound(ms)
  <2>1. outbox' = outbox \o ms
    BY <1>1, <1>7 DEF Inv, Types
  <2> QED BY <1>7, <1>8, <2>1 DEF Sound
<1>10. ASSUME NEW e \in Docs PROVE Follows(e)
  <2>1. CASE e # d
    BY <1>1, <1>2, <1>8, <2>1 DEF Follows, Moves
  <2>2. CASE e = d
    <3> SUFFICES ASSUME NEW b \in Nat \cup {Closed}, Moves(msg, d, ServerText(session, d), b)
                 PROVE  ServerText(session', d) = b
      BY <1>1, <2>2 DEF Follows
    <3>1. /\ ServerText(session, d) \in Nat /\ b \in Nat
          /\ changes \in {<<Whole(b)>>, <<Patch(ServerText(session, d), b)>>,
                          <<Patch(ServerText(session, d), 0), Patch(0, b)>>}
      BY <1>1, <1>2 DEF Moves
    <3>2. d \in Opened(session) /\ session.documents[d].source = ServerText(session, d)
      BY <3>1, ServerBounds DEF ServerText, Texts
    <3>3. Updated(session.documents[d].source, changes) = b
      <4>1. PICK a \in Nat, c \in Nat : a = ServerText(session, d) /\ c = b
        BY <3>1
      <4>2. changes \in {<<Whole(c)>>, <<Patch(a, c)>>, <<Patch(a, 0), Patch(0, c)>>}
        BY <3>1, <4>1
      <4>3. Updated(a, changes) = c
        BY <4>2, UpdatedRight
      <4> QED BY <3>2, <4>1, <4>3
    <3> QED BY <1>6, <3>2, <3>3, PlaceholdersDiffer DEF ServerText, Opened
  <2> QED BY <2>1, <2>2
<1> QED BY <1>1, <1>5, <1>6, <1>9, <1>10, DocumentStep

(* didClose: the document is forgotten and the editor told to clear it.    *)
LEMMA CloseInv == ASSUME Inv, HandleClose PROVE Inv'
<1>1. Taken /\ msg \in InMsg /\ msg = Head(inbox) /\ msg.kind = "didClose" /\ ModeStep
      /\ UNCHANGED <<client, pending, nextId, mode, closing>>
  BY Serving DEF HandleClose
<1>2. PICK d \in Docs : d = msg.doc
  BY <1>1, InMsgFields
<1>3. session \in Session /\ stale \in Seq(Docs) /\ StaleOnce
  BY DEF Inv, Types
<1> DEFINE m == Publish(d, None)
<1>4. /\ session' = CloseDoc(session, d) /\ stale' = RemoveFirst(stale, d)
      /\ outbox' = outbox \o <<m>>
  BY <1>2 DEF HandleClose, Sends
<1>5. stale' \in Seq(Docs) /\ StaleOnce' /\ Range(stale') = Range(stale) \ {d}
  BY <1>3, <1>4, RemoveFacts DEF StaleOnce
<1>6. /\ session' \in Session /\ session'.config = session.config /\ session'.documents[d] = NoDoc
      /\ \A e \in Docs \ {d} : session'.documents[e] = session.documents[e]
  BY <1>3, <1>4 DEF CloseDoc, Session
<1>7. d \notin Opened(session') /\ ServerText(session', d) = Closed
  BY <1>6 DEF Opened, ServerText
<1>8. /\ m \in OutMsg /\ QuickOK(m) /\ m.kind # "configuration" /\ m.diagnostics = None
      /\ \A e \in Docs : Says(m, e) <=> e = d
  BY DEF Publish, OutMsg, QuickOK, Says, Diagnostics
<1> HIDE DEF m
<1>9. PICK ms \in Seq(OutMsg) : ms = <<m>> /\ DOMAIN ms = {1} /\ ms[1] = m
  <2>1. <<m>> \in Seq(OutMsg) /\ DOMAIN <<m>> = {1} /\ <<m>>[1] = m
    BY <1>8
  <2> QED BY <2>1
<1>10. ASSUME NEW e \in Docs PROVE Heard(ms, e) /\ (e # d => ServerText(session', e) = ServerText(session, e))
  <2>1. CASE e = d
    BY <1>7, <1>8, <1>9, <2>1 DEF Heard, Diagnosed, RunDiagnostics
  <2>2. CASE e # d
    BY <1>5, <1>6, <1>8, <1>9, <2>2, HeardKept DEF Inv
  <2> QED BY <2>1, <2>2
<1>11. Sound(ms)
  BY <1>4, <1>8, <1>9, <1>10 DEF Sound
<1>12. \A e \in Docs : Follows(e)
  BY <1>1, <1>2, <1>7, <1>10 DEF Follows, Moves
<1> QED BY <1>1, <1>5, <1>6, <1>11, <1>12, DocumentStep

(* Before an answer the edited documents are published.                    *)
LEMMA FlushAndReply ==
  ASSUME Inv, NEW r \in OutMsg, r.kind = "reply", QuickOK(r), stale' = << >>,
         outbox' = outbox \o Append(Published(session, stale), r),
         session' \in Session,
         \A d \in Docs : Diagnosed(session', d) /\ RunDiagnostics(session', d) = RunDiagnostics(session, d)
  PROVE  /\ stale' \in Seq(Docs) /\ StaleOnce'
         /\ \E ms \in Seq(OutMsg) : Sound(ms)
<1>1. session \in Session /\ stale \in Seq(Docs)
  BY DEF Inv, Types
<1>2. PICK ps : ps = Published(session, stale)
  OBVIOUS
<1>3. /\ ps \in Seq(OutMsg)
      /\ \A j \in DOMAIN ps : QuickOK(ps[j]) /\ ps[j].kind # "configuration"
      /\ \A d \in Docs, j \in DOMAIN ps :
           Says(ps[j], d) => ps[j].diagnostics = RunDiagnostics(session, d)
      /\ \A d \in Range(stale) : \E j \in DOMAIN ps : Says(ps[j], d)
  BY <1>1, <1>2, PublishedSays
<1>4. PICK ms \in Seq(OutMsg) : ms = Append(ps, r)
  <2>1. Append(ps, r) \in Seq(OutMsg)
    BY <1>3
  <2> QED BY <2>1
<1>5. /\ DOMAIN ps = 1..Len(ps) /\ DOMAIN ms = 1..(Len(ps) + 1) /\ Len(ps) \in Nat
      /\ \A i \in DOMAIN ps : i \in DOMAIN ms /\ ms[i] = ps[i]
      /\ \A i \in DOMAIN ms : (i \in DOMAIN ps /\ ms[i] = ps[i]) \/ ms[i] = r
  BY <1>3, <1>4
<1>6. \A d \in Docs : ~Says(r, d)
  BY DEF Says
<1>7. ASSUME NEW d \in Docs PROVE Heard(ms, d)
  <2>1. \A j \in DOMAIN ms : Says(ms[j], d) => ms[j].diagnostics = RunDiagnostics(session', d)
    BY <1>3, <1>5, <1>6
  <2>2. d \in Range(stale) => \E j \in DOMAIN ms : Says(ms[j], d)
    BY <1>3, <1>5
  <2> QED BY <2>1, <2>2 DEF Heard
<1>8. Sound(ms)
  BY <1>2, <1>3, <1>4, <1>5, <1>7 DEF Sound
<1>9. stale' \in Seq(Docs) /\ StaleOnce'
  BY DEF StaleOnce
<1> QED BY <1>8, <1>9


(* A request: what was edited is published, then it is answered.           *)
LEMMA RequestInv == ASSUME Inv, HandleRequest PROVE Inv'
<1>1. Taken /\ msg \in InMsg /\ msg = Head(inbox) /\ msg.kind = "request" /\ ModeStep
      /\ UNCHANGED <<client, pending, nextId, mode, closing>>
  BY Serving DEF HandleRequest
<1>2. PICK d \in Docs, id \in Ids : d = msg.doc /\ id = msg.id /\ msg.method \in Requests
  BY <1>1, InMsgFields
<1>3. session \in Session /\ stale \in Seq(Docs)
  BY DEF Inv, Types
<1>4. PICK s : s = Relinted(session, Range(stale))
  OBVIOUS
<1>5. /\ s \in Session /\ s.config = session.config
      /\ \A e \in Docs : /\ Diagnosed(s, e) /\ RunDiagnostics(s, e) = RunDiagnostics(session, e)
                         /\ ServerText(s, e) = ServerText(session, e)
  BY <1>3, <1>4, RelintedFacts, FlushedFacts
<1>6. PICK r : r = Reply(id, Answer(s, msg))
  OBVIOUS
<1>7. /\ stale' = << >> /\ outbox' = outbox \o Append(Published(session, stale), r)
      /\ session' = s \/ session' = Relinted(s, {d})
  BY <1>2, <1>4, <1>6 DEF HandleRequest, Sends
<1>8. Answer(s, msg) \in Answers
      /\ (Answer(s, msg) # None /\ "quick" \in DOMAIN Answer(s, msg) =>
            /\ Answer(s, msg).quick = IF Answer(s, msg).doc \in Answer(s, msg).config.exclude THEN None
                                      ELSE Lint(Answer(s, msg).source, Answer(s, msg).config))
  <2>1. CASE msg.method = "codeAction" /\ d \in Opened(s)
    <3>1. Answer(s, msg) = [doc |-> d, quick |-> s.documents[d].diagnostics,
                            source |-> s.documents[d].source, config |-> s.config]
      BY <1>2, <2>1 DEF Answer, CodeActions
    <3>2. s.documents[d] \in DocumentState /\ s.config \in Config
      BY <1>5, <2>1 DEF Session, Opened
    <3>3. s.documents[d].diagnostics = IF d \in s.config.exclude THEN None
                                       ELSE Lint(s.documents[d].source, s.config)
      BY <1>5, <2>1 DEF Diagnosed, RunDiagnostics, IsExcluded
    <3> QED BY <3>1, <3>2, <3>3 DEF Answers, DocumentState
  <2>2. CASE msg.method = "codeAction" /\ d \notin Opened(s)
    BY <1>2, <2>2 DEF Answer, CodeActions, Answers
  <2>3. CASE msg.method \in {"formatting", "diagnostic"}
    <3>1. Answer(s, msg) = RunDiagnostics(s, d)
      BY <1>2, <2>3 DEF Answer, Formatting, RunDiagnostics
    <3>2. Answer(s, msg) # None => DOMAIN Answer(s, msg) = {"text", "lint"}
      BY <3>1 DEF RunDiagnostics, Lint
    <3> QED BY <1>5, <3>1, <3>2, RunType DEF Answers
  <2>4. CASE msg.method = "unknown"
    BY <2>4 DEF Answer, Answers
  <2> QED BY <1>2, <2>1, <2>2, <2>3, <2>4 DEF Requests
<1>9. r \in OutMsg /\ r.kind = "reply" /\ QuickOK(r)
  BY <1>6, <1>8 DEF OutMsg, QuickOK, Reply
<1>10. /\ session' \in Session /\ session'.config = session.config
       /\ \A e \in Docs : /\ Diagnosed(session', e) /\ RunDiagnostics(session', e) = RunDiagnostics(session, e)
                          /\ ServerText(session', e) = ServerText(session, e)
  <2>1. CASE session' = s
    BY <1>5, <2>1
  <2>2. CASE session' = Relinted(s, {d})
    BY <1>5, <2>2, RelintedFacts
  <2> QED BY <1>7, <2>1, <2>2
<1>11. stale' \in Seq(Docs) /\ StaleOnce' /\ \E ms \in Seq(OutMsg) : Sound(ms)
  BY <1>7, <1>9, <1>10, FlushAndReply
<1>12. \A e \in Docs : Follows(e)
  BY <1>1, <1>10 DEF Follows, Moves
<1> QED BY <1>1, <1>10, <1>11, <1>12, DocumentStep

(* shutdown: what was edited is published, then it is answered.            *)
LEMMA ShutdownInv == ASSUME Inv, HandleShutdown PROVE Inv'
<1>1. /\ inbox # << >> /\ inbox' = Tail(inbox) /\ Taken /\ msg = Head(inbox) /\ msg.kind = "shutdown"
      /\ UNCHANGED <<client, pending, nextId>>
      /\ mode' = "closing" /\ closing' = msg.id /\ stale' = << >>
      /\ session' = Relinted(session, Range(stale))
      /\ outbox' = outbox \o Append(Published(session, stale), Reply(msg.id, None))
  BY DEF HandleShutdown, Takes, Taken, Sends, msg
<1>2. inbox \in Seq(InMsg) /\ session \in Session /\ stale \in Seq(Docs)
  BY DEF Inv, Types
<1>3. msg \in InMsg /\ msg = inbox[1] /\ 1 \in DOMAIN inbox
  BY <1>1, <1>2, InboxShrinks
<1>4. PICK id \in Ids : id = msg.id
  BY <1>1, <1>3, InMsgFields
<1>5. leaving # 0
  BY <1>1, <1>3 DEF Inv, Leaving
<1>6. ModeStep /\ closing' # 0
  BY <1>1, <1>4, <1>5, ServerBounds DEF ModeStep, client, Ids
<1>7. PICK r : r = Reply(id, None)
  OBVIOUS
<1>8. r \in OutMsg /\ r.kind = "reply" /\ QuickOK(r)
  BY <1>7 DEF OutMsg, QuickOK, Reply, Answers
<1>9. /\ session' \in Session /\ session'.config = session.config
      /\ \A e \in Docs : Diagnosed(session', e) /\ RunDiagnostics(session', e) = RunDiagnostics(session, e)
  BY <1>1, <1>2, RelintedFacts, FlushedFacts
<1>10. stale' \in Seq(Docs) /\ StaleOnce' /\ \E ms \in Seq(OutMsg) : Sound(ms)
  BY <1>1, <1>4, <1>7, <1>8, <1>9, FlushAndReply
<1> QED BY <1>1, <1>6, <1>9, <1>10, DocumentStep

-----------------------------------------------------------------------------
(* The messages about the configuration.                                   *)

(* What is under way stays so, unless the server takes it.                 *)
LEMMA AskingKept ==
  ASSUME Types, UNCHANGED <<asks, unseen>>, NEW ms \in Seq(OutMsg), outbox' = outbox \o ms, Taken
  PROVE  /\ Asking /\ Head(inbox).kind # "didChangeConfiguration" => Asking'
         /\ Announced /\ Head(inbox).kind # "didChangeWatchedFiles" => Announced'
<1>1. inbox \in Seq(InMsg) /\ outbox \in Seq(OutMsg) /\ inbox # << >> /\ inbox' = Tail(inbox)
  BY DEF Types, Taken
<1>2. ASSUME NEW i \in DOMAIN inbox, Head(inbox).kind # inbox[i].kind
      PROVE  i - 1 \in DOMAIN inbox' /\ inbox'[i - 1] = inbox[i]
  BY <1>1, <1>2, InboxShrinks
<1>3. \A i \in DOMAIN outbox : i \in DOMAIN outbox' /\ outbox'[i] = outbox[i]
  BY <1>1, OutboxGrows
<1> QED BY <1>2, <1>3 DEF Asking, Announced

(* Every open document is linted and published under a configuration.      *)
LEMMA PushAllFacts ==
  ASSUME Inv, NEW s \in Session, s.documents = session.documents, PushAll(s), UNCHANGED stale
  PROVE  /\ session' \in Session /\ session'.config = s.config
         /\ \A d \in Docs : ServerText(session', d) = ServerText(session, d)
         /\ \E ms \in Seq(OutMsg) : Sound(ms)
<1>1. session' = Relinted(s, Opened(s))
  BY DEF PushAll
<1>2. PICK order \in SetToSeqs(Opened(s)) : outbox' = outbox \o Published(s, order)
  BY DEF PushAll, Sends
<1>3. order \in Seq(Docs) /\ Range(order) = Opened(s)
  BY OrderFacts
<1>4. PICK ms : ms = Published(s, order)
  OBVIOUS
<1>5. /\ ms \in Seq(OutMsg)
      /\ \A j \in DOMAIN ms : QuickOK(ms[j]) /\ ms[j].kind # "configuration"
      /\ \A d \in Docs, j \in DOMAIN ms : Says(ms[j], d) => ms[j].diagnostics = RunDiagnostics(s, d)
      /\ \A d \in Opened(s) : \E j \in DOMAIN ms : Says(ms[j], d)
  BY <1>3, <1>4, PublishedSays
<1>6. /\ session' \in Session /\ session'.config = s.config /\ Opened(session') = Opened(s)
      /\ \A d \in Docs : /\ RunDiagnostics(session', d) = RunDiagnostics(s, d)
                         /\ ServerText(session', d) = ServerText(s, d)
                         /\ d \in Opened(s) => Diagnosed(session', d)
  BY <1>1, RelintedFacts
<1>7. Opened(s) = Opened(session) /\ \A d \in Docs : ServerText(s, d) = ServerText(session, d)
  BY DEF Opened, ServerText
<1>8. ASSUME NEW d \in Docs PROVE Heard(ms, d)
  <2>1. CASE d \in Opened(s)
    BY <1>5, <1>6, <2>1 DEF Heard
  <2>2. CASE d \notin Opened(s)
    <3>1. RunDiagnostics(session', d) = None /\ RunDiagnostics(session, d) = None /\ Diagnosed(session', d)
      BY <1>6, <1>7, <2>2 DEF RunDiagnostics, Diagnosed
    <3> QED BY <1>5, <1>6, <3>1 DEF Heard
  <2> QED BY <2>1, <2>2
<1>9. Sound(ms)
  BY <1>2, <1>4, <1>5, <1>8 DEF Sound
<1> QED BY <1>5, <1>6, <1>7, <1>9

(* The file has changed: it is read again, and every document linted.      *)
LEMMA WatchedFilesInv == ASSUME Inv, HandleWatchedFiles PROVE Inv'
<1>1. Taken /\ msg \in InMsg /\ msg = Head(inbox) /\ msg.kind = "didChangeWatchedFiles" /\ ModeStep
      /\ UNCHANGED <<client, stale, pending, nextId, mode, closing>>
  BY Serving DEF HandleWatchedFiles
<1>2. PICK s : s = ApplyReload(session, file)
  OBVIOUS
<1>3. s \in Session /\ s.documents = session.documents /\ s.config = file
  BY <1>2 DEF Inv, Types, Session, ApplyReload
<1>4. PushAll(s)
  BY <1>2 DEF HandleWatchedFiles
<1>5. /\ session' \in Session /\ session'.config = file
      /\ \A d \in Docs : ServerText(session', d) = ServerText(session, d)
      /\ \E ms \in Seq(OutMsg) : Sound(ms)
  BY <1>1, <1>3, <1>4, PushAllFacts
<1>6. \A e \in Docs : Follows(e)
  BY <1>1, <1>5 DEF Follows, Moves
<1>7. stale' \in Seq(Docs) /\ StaleOnce'
  BY <1>1 DEF Inv, Types, StaleOnce
<1>8. FileFollows'
  BY <1>1, <1>5 DEF FileFollows, client
<1>9. EditorFollows'
  <2>1. inbox \in Seq(InMsg) /\ inbox # << >> /\ inbox' = Tail(inbox)
    BY <1>1 DEF Inv, Types, Taken
  <2>2. 1 \in DOMAIN inbox /\ inbox[1].kind = "didChangeWatchedFiles"
    BY <1>1, <2>1, InboxShrinks
  <2>3. "file" \in user.does
    BY <2>2 DEF Inv, FileStays, Announced
  <2> QED BY <1>1, <2>3 DEF EditorFollows, client
<1> QED BY <1>1, <1>5, <1>6, <1>7, <1>8, <1>9, ServerStep


(* The editor's settings are asked for.                                    *)
LEMMA ConfigurationInv == ASSUME Inv, HandleConfiguration PROVE Inv'
<1> DEFINE m == [kind |-> "configuration", id |-> nextId]
<1>1. Taken /\ msg \in InMsg /\ msg = Head(inbox) /\ msg.kind = "didChangeConfiguration" /\ ModeStep
      /\ UNCHANGED <<client, session, stale, mode, closing>>
      /\ nextId' = nextId + 1 /\ pending' = pending \cup {nextId} /\ outbox' = outbox \o <<m>>
  BY Serving DEF HandleConfiguration, Sends
<1>2. /\ inbox \in Seq(InMsg) /\ outbox \in Seq(OutMsg) /\ nextId \in Nat /\ nextId \notin pending
      /\ \A id \in pending : id \in Nat /\ id # nextId
  BY DEF Inv, Types
<1>3. PICK n \in Nat : n = nextId
  BY <1>2
<1>4. /\ m \in OutMsg /\ QuickOK(m) /\ m.kind = "configuration" /\ m.id = n
      /\ \A d \in Docs : ~Says(m, d)
  BY <1>3 DEF OutMsg, QuickOK, Says
<1> HIDE DEF m
<1>5. PICK ms \in Seq(OutMsg) : ms = <<m>> /\ DOMAIN ms = {1} /\ ms[1] = m
  <2>1. <<m>> \in Seq(OutMsg) /\ DOMAIN <<m>> = {1} /\ <<m>>[1] = m
    BY <1>4
  <2> QED BY <2>1
<1>6. outbox' = outbox \o ms
  BY <1>1, <1>5
<1>7. /\ outbox' \in Seq(OutMsg) /\ Len(outbox) \in Nat /\ DOMAIN outbox = 1..Len(outbox)
      /\ \A i \in DOMAIN outbox : outbox'[i] = outbox[i]
      /\ Len(outbox) + 1 \in DOMAIN outbox' /\ outbox'[Len(outbox) + 1] = m
      /\ \A i \in DOMAIN outbox' : i \in DOMAIN outbox \/ i = Len(outbox) + 1
  BY <1>2, <1>5, <1>6, OutboxGrows
<1>8. /\ inbox' \in Seq(InMsg)
      /\ \A i \in DOMAIN inbox' : i + 1 \in DOMAIN inbox /\ inbox'[i] = inbox[i + 1] /\ i \in Nat
  BY <1>1, <1>2, InboxShrinks DEF Taken
<1>9. Types'
  <2>1. pending' \subseteq 1..(nextId' - 1) /\ nextId' \in Nat \ {0}
    BY <1>1 DEF Inv, Types
  <2> QED BY <1>1, <1>7, <1>8, <2>1 DEF Inv, Types, client
<1>10. Leaving' /\ StaleOnce' /\ FileStays'
  BY <1>1, <1>8 DEF Inv, Leaving, StaleOnce, FileStays, Announced, client
<1>11. IdsOnce'
  <2>1. ASSUME NEW i \in DOMAIN inbox', inbox'[i].kind = "settings"
        PROVE  /\ inbox'[i].id \in pending'
               /\ \A j \in DOMAIN inbox' : inbox'[j].kind = "settings" /\ j # i => inbox'[j].id # inbox'[i].id
               /\ \A j \in DOMAIN asks' : asks'[j] # inbox'[i].id
               /\ \A j \in DOMAIN outbox' : outbox'[j].kind = "configuration" => outbox'[j].id # inbox'[i].id
    <3>1. PICK k \in DOMAIN inbox : k = i + 1 /\ inbox'[i] = inbox[k] /\ inbox[k].kind = "settings"
      BY <1>8, <2>1
    <3>2. ASSUME NEW j \in DOMAIN inbox', inbox'[j].kind = "settings", j # i PROVE inbox'[j].id # inbox'[i].id
      <4>1. j + 1 \in DOMAIN inbox /\ inbox'[j] = inbox[j + 1] /\ j + 1 # k
        BY <1>8, <3>1, <3>2
      <4> QED BY <3>1, <3>2, <4>1 DEF Inv, IdsOnce
    <3>3. ASSUME NEW j \in DOMAIN outbox', outbox'[j].kind = "configuration" PROVE outbox'[j].id # inbox'[i].id
      <4>1. CASE j \in DOMAIN outbox
        BY <1>7, <3>1, <3>3, <4>1 DEF Inv, IdsOnce
      <4>2. CASE j = Len(outbox) + 1
        BY <1>2, <1>3, <1>4, <1>7, <3>1, <4>2 DEF Inv, IdsOnce
      <4> QED BY <1>7, <4>1, <4>2
    <3>4. inbox'[i].id \in pending' /\ \A j \in DOMAIN asks' : asks'[j] # inbox'[i].id
      BY <1>1, <3>1 DEF Inv, IdsOnce, client
    <3> QED BY <3>2, <3>3, <3>4
  <2>2. ASSUME NEW i \in DOMAIN asks'
        PROVE  /\ asks'[i] \in pending'
               /\ \A j \in DOMAIN asks' : j # i => asks'[j] # asks'[i]
               /\ \A j \in DOMAIN outbox' : outbox'[j].kind = "configuration" => outbox'[j].id # asks'[i]
    <3>1. asks' = asks /\ asks[i] \in pending /\ \A j \in DOMAIN asks : j # i => asks[j] # asks[i]
      BY <1>1 DEF Inv, IdsOnce, client
    <3>2. ASSUME NEW j \in DOMAIN outbox', outbox'[j].kind = "configuration" PROVE outbox'[j].id # asks[i]
      <4>1. CASE j \in DOMAIN outbox
        BY <1>7, <3>1, <3>2, <4>1 DEF Inv, IdsOnce
      <4>2. CASE j = Len(outbox) + 1
        BY <1>2, <1>3, <1>4, <1>7, <3>1, <4>2
      <4> QED BY <1>7, <4>1, <4>2
    <3> QED BY <1>1, <3>1, <3>2
  <2>3. ASSUME NEW i \in DOMAIN outbox', outbox'[i].kind = "configuration"
        PROVE  /\ outbox'[i].id \in pending'
               /\ \A j \in DOMAIN outbox' : outbox'[j].kind = "configuration" /\ j # i => outbox'[j].id # outbox'[i].id
    <3>1. \A j \in DOMAIN outbox : outbox[j].kind = "configuration" => outbox[j].id \in pending
      BY DEF Inv, IdsOnce
    <3>2. outbox'[i].id \in pending'
      BY <1>1, <1>3, <1>4, <1>7, <2>3, <3>1
    <3>3. ASSUME NEW j \in DOMAIN outbox', outbox'[j].kind = "configuration", j # i PROVE outbox'[j].id # outbox'[i].id
      <4>1. CASE i \in DOMAIN outbox /\ j \in DOMAIN outbox
        BY <1>7, <2>3, <3>3, <4>1 DEF Inv, IdsOnce
      <4>2. CASE i = Len(outbox) + 1 /\ j \in DOMAIN outbox
        BY <1>2, <1>3, <1>4, <1>7, <3>1, <3>3, <4>2
      <4>3. CASE j = Len(outbox) + 1 /\ i \in DOMAIN outbox
        BY <1>2, <1>3, <1>4, <1>7, <2>3, <3>1, <4>3
      <4> QED BY <1>7, <3>3, <4>1, <4>2, <4>3
    <3> QED BY <3>2, <3>3
  <2> QED BY <2>1, <2>2, <2>3 DEF IdsOnce
<1>12. CodeActionsMatchText'
  BY <1>2, <1>4, <1>5, <1>6, QuickSent DEF Inv
<1>13. ASSUME NEW d \in Docs PROVE Heard(ms, d) /\ ServerText(session', d) = ServerText(session, d)
  BY <1>1, <1>4, <1>5, HeardKept DEF Inv
<1>14. ASSUME NEW d \in Docs PROVE UpToDate(d)'
  BY <1>1, <1>2, <1>6, <1>13, UpToDateSent DEF Inv, client
<1>15. ASSUME closing' = 0 PROVE (\A d \in Docs : TextsFollow(d)) ' /\ FileFollows' /\ EditorFollows'
  <2>1. closing = 0 /\ Types /\ FileFollows
    BY <1>1, <1>15 DEF Inv
  <2>2. ASSUME NEW d \in Docs PROVE TextsFollow(d)'
    <3>1. /\ TextsFollow(d) /\ UNCHANGED text /\ inbox # << >> /\ inbox' = Tail(inbox)
          /\ \A b \in Nat \cup {Closed} :
               Moves(Head(inbox), d, ServerText(session, d), b) => ServerText(session', d) = b
      BY <1>1, <1>13, <2>1 DEF Inv, client, Taken, Moves
    <3> QED BY <2>1, <3>1, TextsTaken
  <2>3. FileFollows'
    <3>1. Announced => Announced'
      BY <1>1, <1>6, <2>1, AskingKept DEF client
    <3> QED BY <1>1, <2>1, <3>1 DEF FileFollows, client
  <2>4. EditorFollows'
    BY <1>4, <1>7 DEF EditorFollows, Asking
  <2> QED BY <2>2, <2>3, <2>4
<1> QED BY <1>9, <1>10, <1>11, <1>12, <1>14, <1>15 DEF Inv

(* The settings arrive.                                                    *)
LEMMA SettingsInv == ASSUME Inv, HandleSettings PROVE Inv'
<1>1. Taken /\ msg \in InMsg /\ msg = Head(inbox) /\ msg.kind = "settings" /\ ModeStep
      /\ UNCHANGED <<client, stale, nextId, mode, closing>> /\ pending' = pending \ {msg.id}
  BY Serving DEF HandleSettings
<1>2. PICK id \in Nat, settings \in EditorSettings :
        id = msg.id /\ settings = msg.settings /\ msg.object \in BOOLEAN
  BY <1>1, InMsgFields
<1>3. inbox \in Seq(InMsg) /\ session \in Session /\ inbox # << >> /\ inbox' = Tail(inbox)
  BY <1>1 DEF Inv, Types, Taken
<1>4. /\ 1 \in DOMAIN inbox /\ inbox[1] = msg
      /\ \A i \in DOMAIN inbox' : i + 1 \in DOMAIN inbox /\ inbox'[i] = inbox[i + 1] /\ i \in Nat /\ i # 0
      /\ \A i \in DOMAIN inbox : i # 1 => i - 1 \in DOMAIN inbox' /\ inbox'[i - 1] = inbox[i] /\ i \in Nat
  BY <1>1, <1>3, InboxShrinks
<1> DEFINE taken == id \in pending /\ msg.object
<1>5. stale' \in Seq(Docs) /\ StaleOnce' /\ pending' \subseteq pending
      /\ \A i \in pending \ pending' : Taken /\ Head(inbox).kind = "settings" /\ Head(inbox).id = i
  BY <1>1 DEF Inv, Types, StaleOnce
<1>6. /\ session' \in Session /\ session'.config.exclude = session.config.exclude
      /\ taken => \A f \in DOMAIN settings : session'.config.lint[f] = settings[f]
      /\ ~taken => session'.config = session.config
      /\ \A d \in Docs : ServerText(session', d) = ServerText(session, d)
      /\ \E ms \in Seq(OutMsg) : Sound(ms)
  <2>1. CASE taken
    <3>1. PICK s : s = ApplyEditorSettings(session, settings)
      OBVIOUS
    <3>2. PushAll(s)
      BY <1>2, <2>1, <3>1 DEF HandleSettings
    <3>3. PICK S \in SUBSET Fields : settings \in [S -> Values]
      BY DEF EditorSettings
    <3> DEFINE lint == [f \in Fields |-> IF f \in DOMAIN settings THEN settings[f] ELSE session.config.lint[f]]
    <3>4. lint \in Settings /\ \A f \in DOMAIN settings : lint[f] = settings[f]
      BY <1>3, <3>3 DEF Settings, Session, Config
    <3>5. s.config.lint = lint /\ s.config.exclude = session.config.exclude
          /\ s.documents = session.documents /\ s.config = [session.config EXCEPT !.lint = lint]
      BY <1>3, <3>1 DEF ApplyEditorSettings, Session, Config
    <3>6. s \in Session
      <4>1. s = [session EXCEPT !.config = [session.config EXCEPT !.lint = lint]]
        BY <1>3, <3>1 DEF ApplyEditorSettings, Session
      <4> HIDE DEF lint
      <4>2. [session.config EXCEPT !.lint = lint] \in Config
        BY <1>3, <3>4 DEF Session, Config
      <4> QED BY <1>3, <4>1, <4>2 DEF Session
    <3> HIDE DEF lint
    <3> QED BY <1>1, <2>1, <3>2, <3>4, <3>5, <3>6, PushAllFacts
  <2>2. CASE ~taken
    <3>1. UNCHANGED <<session, outbox, stale>>
      BY <1>1, <1>2, <2>2 DEF HandleSettings
    <3> QED BY <2>2, <3>1, NothingSent
  <2> QED BY <2>1, <2>2
<1> HIDE DEF taken
<1>7. \A e \in Docs : Follows(e)
  BY <1>1, <1>6 DEF Follows, Moves
<1>8. PICK ms \in Seq(OutMsg) : Sound(ms)
  BY <1>6
<1>9. (Asking => Asking') /\ (Announced => Announced')
  BY <1>1, <1>8, AskingKept DEF Inv, client, Sound
<1>10. ASSUME closing' = 0 PROVE FileFollows' /\ EditorFollows'
  <2>1. FileFollows /\ EditorFollows
    BY <1>1, <1>10 DEF Inv
  <2>2. FileFollows'
    BY <1>1, <1>6, <1>9, <2>1 DEF FileFollows, client
  <2>3. ASSUME Answered PROVE Answered'
    <3>1. ASSUME \A i \in DOMAIN inbox' : inbox'[i].kind # "settings" PROVE Obeyed'
      <4>1. ASSUME NEW j \in DOMAIN inbox, j > 1 PROVE inbox[j].kind # "settings"
        <5>1. j # 1
          BY <1>3, <4>1
        <5>2. j - 1 \in DOMAIN inbox' /\ inbox'[j - 1] = inbox[j]
          BY <1>4, <4>1, <5>1
        <5> QED BY <3>1, <5>2
      <4>2. Good(inbox[1])
        BY <1>1, <1>4, <2>3, <4>1 DEF Answered
      <4>3. id \in pending /\ settings = editor /\ (msg.object \/ editor = << >>)
        BY <1>2, <1>4, <4>2 DEF Good
      <4>4. CASE taken
        BY <1>1, <1>6, <4>3, <4>4 DEF Obeyed, client
      <4>5. CASE ~taken
        <5>1. editor = << >>
          BY <4>3, <4>5 DEF taken
        <5>2. DOMAIN << >> = {}
          OBVIOUS
        <5> QED BY <1>1, <5>1, <5>2 DEF Obeyed, client
      <4> QED BY <4>4, <4>5
    <3>2. ASSUME NEW i \in DOMAIN inbox', inbox'[i].kind = "settings",
                 \A j \in DOMAIN inbox' : j > i => inbox'[j].kind # "settings"
          PROVE  Good(inbox[i])'
      <4>1. i + 1 \in DOMAIN inbox /\ inbox'[i] = inbox[i + 1] /\ i \in Nat /\ i # 0
        BY <1>4
      <4>2. ASSUME NEW j \in DOMAIN inbox, j > i + 1 PROVE inbox[j].kind # "settings"
        <5>1. j \in Nat /\ j # 1 /\ j - 1 > i
          BY <1>3, <4>1, <4>2
        <5> QED BY <1>4, <3>2, <5>1
      <4>3. Good(inbox[i + 1])
        BY <2>3, <3>2, <4>1, <4>2 DEF Answered
      <4>4. inbox[i + 1].id # id
        BY <1>1, <1>2, <1>4, <3>2, <4>1 DEF Inv, IdsOnce
      <4> QED BY <1>1, <1>2, <4>1, <4>3, <4>4 DEF Good, client
    <3> QED BY <3>1, <3>2 DEF Answered
  <2>4. EditorFollows'
    BY <1>1, <1>9, <2>1, <2>3 DEF EditorFollows, client
  <2> QED BY <2>2, <2>4
<1> QED BY <1>1, <1>5, <1>6, <1>7, <1>8, <1>10, ServerStep


-----------------------------------------------------------------------------
(* Steps of the editor, one part of the invariant after the other.         *)

(* What no step of the editor's user reads of the server stays.            *)
LEMMA Unmoved ==
  ASSUME Inv,
         UNCHANGED <<user, text, shown, file, editor, clock, watching, unseen, asks, leaving, inbox, outbox, server>>
  PROVE  Inv'
<1>1. Types' /\ Leaving' /\ StaleOnce' /\ IdsOnce' /\ FileStays' /\ CodeActionsMatchText'
  BY DEF Inv, Types, Leaving, StaleOnce, IdsOnce, FileStays, Announced, CodeActionsMatchText, server
<1>2. ASSUME NEW d \in Docs PROVE UpToDate(d)'
  BY DEF Inv, UpToDate, Diagnosed, LastWord, server, RunDiagnostics, Opened, IsExcluded
<1>3. closing' = 0 => closing = 0
  BY DEF server
<1>4. ASSUME NEW d \in Docs, closing = 0 PROVE TextsFollow(d)'
  BY <1>4, TextsKept DEF Inv, server
<1>5. ASSUME closing = 0 PROVE FileFollows' /\ EditorFollows'
  BY <1>5 DEF Inv, FileFollows, Announced, EditorFollows, Asking, Answered, Obeyed, Good, server
<1> QED BY <1>1, <1>2, <1>3, <1>4, <1>5 DEF Inv

(* The editor sends a message.                                             *)
LEMMA Said ==
  ASSUME Inv, UNCHANGED <<user, shown, file, watching, outbox, server>>, NEW m \in InMsg, inbox' = Append(inbox, m),
         text' \in [Docs -> Nat \cup {Closed}], editor' \in EditorSettings, clock' \in 0..MaxClock,
         leaving' \in 0..MaxClock, unseen' \in BOOLEAN, asks' \in Seq(Nat),
         leaving # 0 \/ m.kind = "shutdown" => leaving' # 0,
         \A d \in Docs : Moves(m, d, text[d], text'[d]),
         IdsOnce', FileStays', closing = 0 => FileFollows' /\ EditorFollows'
  PROVE  Inv'
<1>1. inbox \in Seq(InMsg)
  BY DEF Inv, Types
<1>2. Types'
  BY <1>1, InboxGrows DEF Inv, Types, server
<1>3. Leaving'
  <2>1. \A i \in DOMAIN inbox' : (i \in DOMAIN inbox /\ inbox'[i] = inbox[i]) \/ inbox'[i] = m
    BY <1>1, InboxGrows
  <2> QED BY <2>1 DEF Inv, Leaving, server
<1>4. StaleOnce' /\ CodeActionsMatchText'
  BY DEF Inv, StaleOnce, CodeActionsMatchText, server
<1>5. ASSUME NEW d \in Docs PROVE UpToDate(d)'
  BY DEF Inv, UpToDate, Diagnosed, LastWord, server, RunDiagnostics, Opened, IsExcluded
<1>6. closing' = closing
  BY DEF server
<1>7. ASSUME NEW d \in Docs, closing = 0 PROVE TextsFollow(d)'
  BY <1>7, TextsSaid DEF Inv, server
<1> QED BY <1>2, <1>3, <1>4, <1>5, <1>6, <1>7 DEF Inv

(* ... which is no answer to a request for settings.                       *)
LEMMA SaidIds ==
  ASSUME Inv, NEW m \in InMsg, inbox' = Append(inbox, m), m.kind # "settings",
         UNCHANGED <<asks, outbox, pending>>
  PROVE  IdsOnce'
<1>1. inbox \in Seq(InMsg)
  BY DEF Inv, Types
<1>2. \A i \in DOMAIN inbox' : inbox'[i].kind = "settings" => i \in DOMAIN inbox /\ inbox'[i] = inbox[i]
  BY <1>1, InboxGrows
<1> QED BY <1>2 DEF Inv, IdsOnce

(* ... and not about the configuration file.                               *)
LEMMA SaidFile ==
  ASSUME Inv, NEW m \in InMsg, inbox' = Append(inbox, m), m.kind # "didChangeWatchedFiles",
         UNCHANGED <<user, file, unseen, session>>
  PROVE  FileStays' /\ (closing = 0 => FileFollows')
<1>1. inbox \in Seq(InMsg)
  BY DEF Inv, Types
<1>2. Announced' <=> Announced
  <2>1. \A i \in DOMAIN inbox' : inbox'[i].kind = "didChangeWatchedFiles" => i \in DOMAIN inbox /\ inbox'[i] = inbox[i]
    BY <1>1, InboxGrows
  <2>2. \A i \in DOMAIN inbox : i \in DOMAIN inbox' /\ inbox'[i] = inbox[i]
    BY <1>1, InboxGrows
  <2> QED BY <2>1, <2>2 DEF Announced
<1> QED BY <1>2 DEF Inv, FileStays, FileFollows

(* ... nor about the editor's settings.                                    *)
LEMMA SaidEditor ==
  ASSUME Inv, closing = 0, NEW m \in InMsg, inbox' = Append(inbox, m), m.kind # "settings",
         UNCHANGED <<user, editor, asks, outbox, pending, session>>
  PROVE  EditorFollows'
<1>1. inbox \in Seq(InMsg)
  BY DEF Inv, Types
<1>2. \A i \in DOMAIN inbox : i \in DOMAIN inbox' /\ inbox'[i] = inbox[i]
  BY <1>1, InboxGrows
<1>3. \A i \in DOMAIN inbox' : inbox'[i].kind = "settings" => i \in DOMAIN inbox /\ inbox'[i] = inbox[i]
  BY <1>1, InboxGrows
<1>4. Asking => Asking'
  BY <1>2 DEF Asking
<1>5. Answered => Answered'
  BY <1>2, <1>3 DEF Answered, Obeyed, Good
<1> QED BY <1>4, <1>5 DEF Inv, EditorFollows

(* The user takes a step.                                                  *)
LEMMA DoesFacts ==
  ASSUME Inv, NEW use, Does(use)
  PROVE  clock' \in Ids /\ clock' \in Nat /\ clock' \in 0..MaxClock /\ clock' # 0
<1>1. user.steps \in 0..MaxClock /\ clock \in 0..MaxClock /\ MaxClock \in Nat
  BY ServerBounds DEF Inv, Types
<1> QED BY <1>1 DEF Does, Ids

(* The settings, the file and the requests are left alone.                 *)
LEMMA Spoken ==
  ASSUME Inv, NEW m \in InMsg, inbox' = Append(inbox, m),
         m.kind \notin {"settings", "didChangeWatchedFiles", "didChangeConfiguration"},
         UNCHANGED <<user, shown, file, editor, watching, unseen, asks, outbox, server>>,
         text' \in [Docs -> Nat \cup {Closed}], clock' \in 0..MaxClock, leaving' \in 0..MaxClock,
         leaving # 0 \/ m.kind = "shutdown" => leaving' # 0,
         \A d \in Docs : Moves(m, d, text[d], text'[d])
  PROVE  Inv'
<1>1. IdsOnce'
  BY SaidIds DEF server
<1>2. FileStays' /\ (closing = 0 => FileFollows')
  BY SaidFile DEF server
<1>3. closing = 0 => EditorFollows'
  BY SaidEditor DEF server
<1>4. editor' \in EditorSettings /\ unseen' \in BOOLEAN /\ asks' \in Seq(Nat)
  BY DEF Inv, Types
<1> QED BY <1>1, <1>2, <1>3, <1>4, Said


(* The user opens, edits, closes and saves documents, and asks.            *)
LEMMA EditInv ==
  ASSUME Inv, NEW d \in Docs, DidOpen(d) \/ DidChange(d) \/ DidClose(d) \/ DidSave(d) \/ Ask(d)
  PROVE  Inv'
<1>0. text \in [Docs -> Nat \cup {Closed}] /\ leaving \in 0..MaxClock
  BY DEF Inv, Types
<1>1. CASE DidOpen(d)
  <2>1. PICK b \in Nat : b = clock' /\ clock' \in 0..MaxClock
    BY <1>1, DoesFacts DEF DidOpen
  <2>2. PICK m : m = [kind |-> "didOpen", doc |-> d, text |-> b]
    OBVIOUS
  <2>3. m \in InMsg /\ m.kind = "didOpen" /\ m.doc = d /\ m.text = b
    BY <2>2 DEF InMsg
  <2>4. /\ text[d] = Closed /\ text' = [text EXCEPT ![d] = b] /\ inbox' = Append(inbox, m)
        /\ UNCHANGED <<user, shown, file, editor, watching, unseen, asks, leaving, outbox, server>>
    BY <1>1, <2>1, <2>2 DEF DidOpen, Tells
  <2>5. text' \in [Docs -> Nat \cup {Closed}] /\ \A e \in Docs : Moves(m, e, text[e], text'[e])
    BY <1>0, <2>3, <2>4 DEF Moves
  <2> QED BY <1>0, <2>1, <2>3, <2>4, <2>5, Spoken
<1>2. CASE DidChange(d)
  <2>1. PICK b \in Nat : b = clock' /\ clock' \in 0..MaxClock
    BY <1>2, DoesFacts DEF DidChange
  <2>2. PICK a \in Nat : a = text[d]
    BY <1>0, <1>2 DEF DidChange
  <2>3. PICK changes \in {<<Whole(b)>>, <<Patch(a, b)>>, <<Patch(a, 0), Patch(0, b)>>} :
          inbox' = Append(inbox, [kind |-> "didChange", doc |-> d, changes |-> changes])
    BY <1>2, <2>1, <2>2 DEF DidChange, Tells
  <2>4. PICK m : m = [kind |-> "didChange", doc |-> d, changes |-> changes]
    OBVIOUS
  <2>5. changes \in Changes
    <3>1. /\ <<Whole(b)>> \in {<<Whole(y)>> : y \in Nat}
          /\ <<Patch(a, b)>> \in {<<Patch(x, y)>> : x \in Nat, y \in Nat}
          /\ <<Patch(a, 0), Patch(0, b)>> \in {<<Patch(x, 0), Patch(0, y)>> : x \in Nat, y \in Nat}
      OBVIOUS
    <3> QED BY <2>3, <3>1 DEF Changes
  <2>6. m \in InMsg /\ m.kind = "didChange" /\ m.doc = d /\ m.changes = changes
    BY <2>4, <2>5 DEF InMsg
  <2>7. /\ text' = [text EXCEPT ![d] = b] /\ inbox' = Append(inbox, m)
        /\ UNCHANGED <<user, shown, file, editor, watching, unseen, asks, leaving, outbox, server>>
    BY <1>2, <2>1, <2>3, <2>4 DEF DidChange
  <2>8. text' \in [Docs -> Nat \cup {Closed}]
    BY <1>0, <2>7
  <2>9. ASSUME NEW e \in Docs PROVE Moves(m, e, text[e], text'[e])
    <3>1. CASE e = d
      <4>1. text[e] = a /\ text'[e] = b
        BY <1>0, <2>2, <2>7, <3>1
      <4>2. Moves(m, d, a, b)
        BY <2>3, <2>6 DEF Moves
      <4> QED BY <3>1, <4>1, <4>2
    <3>2. CASE e # d
      BY <1>0, <2>6, <2>7, <3>2 DEF Moves
    <3> QED BY <3>1, <3>2
  <2> QED BY <1>0, <2>1, <2>6, <2>7, <2>8, <2>9, Spoken
<1>3. CASE DidClose(d)
  <2>1. clock' \in 0..MaxClock
    BY <1>3, DoesFacts DEF DidClose
  <2>2. PICK m : m = [kind |-> "didClose", doc |-> d]
    OBVIOUS
  <2>3. m \in InMsg /\ m.kind = "didClose" /\ m.doc = d
    BY <2>2 DEF InMsg
  <2>4. /\ text[d] # Closed /\ text' = [text EXCEPT ![d] = Closed] /\ inbox' = Append(inbox, m)
        /\ UNCHANGED <<user, shown, file, editor, watching, unseen, asks, leaving, outbox, server>>
    BY <1>3, <2>2 DEF DidClose, Tells
  <2>5. text' \in [Docs -> Nat \cup {Closed}] /\ \A e \in Docs : Moves(m, e, text[e], text'[e])
    BY <1>0, <2>3, <2>4 DEF Moves
  <2> QED BY <1>0, <2>1, <2>3, <2>4, <2>5, Spoken
<1>4. CASE DidSave(d)
  <2>1. clock' \in 0..MaxClock
    BY <1>4, DoesFacts DEF DidSave
  <2>2. PICK m : m = [kind |-> "didSave", doc |-> d]
    OBVIOUS
  <2>3. m \in InMsg /\ m.kind = "didSave"
    BY <2>2 DEF InMsg
  <2>4. /\ inbox' = Append(inbox, m)
        /\ UNCHANGED <<user, text, shown, file, editor, watching, unseen, asks, leaving, outbox, server>>
    BY <1>4, <2>2 DEF DidSave, Tells
  <2>5. \A e \in Docs : Moves(m, e, text[e], text'[e])
    BY <2>3, <2>4 DEF Moves
  <2> QED BY <1>0, <2>1, <2>3, <2>4, <2>5, Spoken
<1>5. CASE Ask(d)
  <2>1. PICK r \in Requests :
          /\ Does(r)
          /\ inbox' = Append(inbox, [kind |-> "request", method |-> r, id |-> clock', doc |-> d])
    BY <1>5 DEF Ask, Tells
  <2>2. PICK b \in Ids : b = clock' /\ clock' \in 0..MaxClock
    BY <2>1, DoesFacts
  <2>3. PICK m : m = [kind |-> "request", method |-> r, id |-> b, doc |-> d]
    OBVIOUS
  <2>4. m \in InMsg /\ m.kind = "request"
    BY <2>3 DEF InMsg
  <2>5. /\ inbox' = Append(inbox, m)
        /\ UNCHANGED <<user, text, shown, file, editor, watching, unseen, asks, leaving, outbox, server>>
    BY <1>5, <2>1, <2>2, <2>3 DEF Ask
  <2>6. \A e \in Docs : Moves(m, e, text[e], text'[e])
    BY <2>4, <2>5 DEF Moves
  <2> QED BY <1>0, <2>2, <2>4, <2>5, <2>6, Spoken
<1> QED BY <1>1, <1>2, <1>3, <1>4, <1>5

(* ... and leaves.                                                         *)
LEMMA LeaveInv == ASSUME Inv, Shutdown \/ Exit \/ HangUp PROVE Inv'
<1>0. text \in [Docs -> Nat \cup {Closed}] /\ leaving \in 0..MaxClock /\ clock \in 0..MaxClock
  BY DEF Inv, Types
<1>1. CASE Shutdown
  <2>1. PICK b \in Ids : b = clock' /\ clock' \in 0..MaxClock /\ b # 0
    BY <1>1, DoesFacts DEF Shutdown
  <2>2. PICK m : m = [kind |-> "shutdown", id |-> b]
    OBVIOUS
  <2>3. m \in InMsg /\ m.kind = "shutdown"
    BY <2>2 DEF InMsg
  <2>4. /\ inbox' = Append(inbox, m) /\ leaving' = b
        /\ UNCHANGED <<user, text, shown, file, editor, watching, unseen, asks, outbox, server>>
    BY <1>1, <2>1, <2>2 DEF Shutdown, Tells
  <2>5. \A e \in Docs : Moves(m, e, text[e], text'[e])
    BY <2>3, <2>4 DEF Moves
  <2> QED BY <1>0, <2>1, <2>3, <2>4, <2>5, Spoken
<1>2. CASE Exit
  <2>1. PICK m : m = [kind |-> "exit"]
    OBVIOUS
  <2>2. m \in InMsg /\ m.kind = "exit"
    BY <2>1 DEF InMsg
  <2>3. /\ inbox' = Append(inbox, m)
        /\ UNCHANGED <<user, text, shown, file, editor, clock, watching, unseen, asks, leaving, outbox, server>>
    BY <1>2, <2>1 DEF Exit, Tells
  <2>4. \A e \in Docs : Moves(m, e, text[e], text'[e])
    BY <2>2, <2>3 DEF Moves
  <2> QED BY <1>0, <2>2, <2>3, <2>4, Spoken
<1>3. CASE HangUp
  BY <1>3, Unmoved DEF HangUp
<1> QED BY <1>1, <1>2, <1>3

(* The configuration file is edited.                                       *)
LEMMA EditConfigInv == ASSUME Inv, EditConfig PROVE Inv'
<1>1. /\ "file" \in user.does /\ (watching \/ "early" \in user.does) /\ unseen' = watching
      /\ file' \in user.files
      /\ UNCHANGED <<user, text, shown, editor, watching, asks, leaving, inbox, outbox, server>>
  BY DEF EditConfig, Does
<1>2. clock' \in 0..MaxClock
  BY DoesFacts DEF EditConfig
<1>3. file' \in Config
  <2>1. user.files \subseteq Config
    BY ServerBounds DEF Inv, Types
  <2> QED BY <1>1, <2>1
<1>4. Types'
  BY <1>1, <1>2, <1>3 DEF Inv, Types, server
<1>5. Leaving' /\ StaleOnce' /\ IdsOnce' /\ FileStays' /\ CodeActionsMatchText'
  BY <1>1 DEF Inv, Leaving, StaleOnce, IdsOnce, FileStays, CodeActionsMatchText, server
<1>6. ASSUME NEW d \in Docs PROVE UpToDate(d)'
  BY <1>1 DEF Inv, UpToDate, Diagnosed, LastWord, server, RunDiagnostics, Opened, IsExcluded
<1>7. closing' = 0 => closing = 0
  BY <1>1 DEF server
<1>8. ASSUME NEW d \in Docs, closing = 0 PROVE TextsFollow(d)'
  BY <1>1, <1>8, TextsKept DEF Inv, server
<1>9. FileFollows' /\ EditorFollows'
  BY <1>1 DEF FileFollows, Announced, EditorFollows
<1> QED BY <1>4, <1>5, <1>6, <1>7, <1>8, <1>9 DEF Inv

(* ... and the server is told.                                             *)
LEMMA DidChangeWatchedFilesInv == ASSUME Inv, DidChangeWatchedFiles PROVE Inv'
<1>1. PICK m : m = [kind |-> "didChangeWatchedFiles"]
  OBVIOUS
<1>2. m \in InMsg /\ m.kind = "didChangeWatchedFiles"
  BY <1>1 DEF InMsg
<1>3. /\ unseen /\ unseen' = FALSE /\ inbox' = Append(inbox, m)
      /\ UNCHANGED <<user, text, shown, file, editor, clock, watching, asks, leaving, outbox, server>>
  BY <1>1 DEF DidChangeWatchedFiles, Tells
<1>4. "file" \in user.does
  BY <1>3 DEF Inv, FileStays, Announced
<1>5. Announced'
  <2>1. inbox \in Seq(InMsg)
    BY DEF Inv, Types
  <2>2. Len(inbox) + 1 \in DOMAIN inbox' /\ inbox'[Len(inbox) + 1] = m
    BY <1>2, <1>3, <2>1, InboxGrows
  <2> QED BY <1>2, <2>2 DEF Announced
<1>6. IdsOnce'
  BY <1>2, <1>3, SaidIds DEF server
<1>7. FileStays' /\ FileFollows' /\ EditorFollows'
  BY <1>3, <1>4, <1>5 DEF FileStays, FileFollows, EditorFollows
<1>8. \A e \in Docs : Moves(m, e, text[e], text'[e])
  BY <1>2, <1>3 DEF Moves
<1>9. /\ text' \in [Docs -> Nat \cup {Closed}] /\ editor' \in EditorSettings /\ clock' \in 0..MaxClock
      /\ leaving' \in 0..MaxClock /\ unseen' \in BOOLEAN /\ asks' \in Seq(Nat)
  BY <1>3 DEF Inv, Types
<1> QED BY <1>2, <1>3, <1>6, <1>7, <1>8, <1>9, Said


(* The user changes the editor's settings: the server will ask for them.   *)
LEMMA DidChangeConfigurationInv == ASSUME Inv, DidChangeConfiguration PROVE Inv'
<1>1. PICK m : m = [kind |-> "didChangeConfiguration"]
  OBVIOUS
<1>2. m \in InMsg /\ m.kind = "didChangeConfiguration"
  BY <1>1 DEF InMsg
<1>3. /\ editor' \in Editors /\ inbox' = Append(inbox, m)
      /\ UNCHANGED <<user, text, shown, file, watching, unseen, asks, leaving, outbox, server>>
  BY <1>1 DEF DidChangeConfiguration, Tells
<1>4. clock' \in 0..MaxClock
  BY DoesFacts DEF DidChangeConfiguration
<1>5. editor' \in EditorSettings
  BY <1>3, ServerBounds
<1>6. IdsOnce'
  BY <1>2, <1>3, SaidIds DEF server
<1>7. FileStays' /\ (closing = 0 => FileFollows')
  BY <1>2, <1>3, SaidFile DEF server
<1>8. EditorFollows'
  <2>1. inbox \in Seq(InMsg)
    BY DEF Inv, Types
  <2>2. Len(inbox) + 1 \in DOMAIN inbox' /\ inbox'[Len(inbox) + 1] = m
    BY <1>2, <1>3, <2>1, InboxGrows
  <2> QED BY <1>2, <2>2 DEF EditorFollows, Asking
<1>9. \A e \in Docs : Moves(m, e, text[e], text'[e])
  BY <1>2, <1>3 DEF Moves
<1>10. /\ text' \in [Docs -> Nat \cup {Closed}] /\ leaving' \in 0..MaxClock
       /\ unseen' \in BOOLEAN /\ asks' \in Seq(Nat)
  BY <1>3 DEF Inv, Types
<1> QED BY <1>2, <1>3, <1>4, <1>5, <1>6, <1>7, <1>8, <1>9, <1>10, Said

(* The first request for settings is answered with those of the moment.    *)
LEMMA AnswerSettingsInv == ASSUME Inv, AnswerSettings PROVE Inv'
<1>1. PICK object \in {TRUE, editor # << >>} :
        inbox' = Append(inbox, [kind |-> "settings", id |-> Head(asks), object |-> object, settings |-> editor])
  BY DEF AnswerSettings, Tells
<1>2. /\ asks # << >> /\ asks' = Tail(asks)
      /\ UNCHANGED <<user, text, shown, file, editor, clock, watching, unseen, leaving, outbox, server>>
  BY DEF AnswerSettings
<1>3. /\ inbox \in Seq(InMsg) /\ asks \in Seq(Nat) /\ editor \in EditorSettings
      /\ text' \in [Docs -> Nat \cup {Closed}] /\ editor' \in EditorSettings /\ clock' \in 0..MaxClock
      /\ leaving' \in 0..MaxClock /\ unseen' \in BOOLEAN
  BY <1>2 DEF Inv, Types
<1>4. /\ 1 \in DOMAIN asks /\ Head(asks) = asks[1] /\ asks[1] \in Nat
      /\ asks' \in Seq(Nat)
      /\ \A i \in DOMAIN asks' : i + 1 \in DOMAIN asks /\ asks'[i] = asks[i + 1] /\ i + 1 # 1 /\ i \in Nat
  BY <1>2, <1>3
<1>5. PICK id \in Nat : id = asks[1]
  BY <1>4
<1>6. PICK m : m = [kind |-> "settings", id |-> id, object |-> object, settings |-> editor]
  OBVIOUS
<1>7. /\ m \in InMsg /\ m.kind = "settings" /\ m.id = id /\ m.object = object /\ m.settings = editor
      /\ inbox' = Append(inbox, m)
  <2>1. object \in BOOLEAN
    OBVIOUS
  <2>2. m \in [kind : {"settings"}, id : Nat, object : BOOLEAN, settings : EditorSettings]
    BY <1>3, <1>6, <2>1
  <2>3. inbox' = Append(inbox, m)
    BY <1>1, <1>4, <1>5, <1>6
  <2> QED BY <1>6, <2>2, <2>3 DEF InMsg
<1>8. /\ Len(inbox) \in Nat /\ DOMAIN inbox = 1..Len(inbox) /\ DOMAIN inbox' = 1..(Len(inbox) + 1)
      /\ inbox'[Len(inbox) + 1] = m
      /\ \A i \in DOMAIN inbox : i \in DOMAIN inbox' /\ inbox'[i] = inbox[i]
  BY <1>3, <1>7, InboxGrows
<1>9. id \in pending
  BY <1>4, <1>5 DEF Inv, IdsOnce
<1>10. \A i \in DOMAIN inbox' : i \in DOMAIN inbox \/ i = Len(inbox) + 1
  BY <1>8
<1>11. IdsOnce'
  <2>1. ASSUME NEW i \in DOMAIN inbox', inbox'[i].kind = "settings"
        PROVE  /\ inbox'[i].id \in pending'
               /\ \A j \in DOMAIN inbox' : inbox'[j].kind = "settings" /\ j # i => inbox'[j].id # inbox'[i].id
               /\ \A j \in DOMAIN asks' : asks'[j] # inbox'[i].id
               /\ \A j \in DOMAIN outbox' : outbox'[j].kind = "configuration" => outbox'[j].id # inbox'[i].id
    <3>1. CASE i \in DOMAIN inbox
      <4>1. inbox'[i] = inbox[i] /\ inbox[i].id \in pending' /\ inbox[i].id # id
        BY <1>2, <1>4, <1>5, <1>8, <2>1, <3>1 DEF Inv, IdsOnce, server
      <4>2. ASSUME NEW j \in DOMAIN inbox', inbox'[j].kind = "settings", j # i PROVE inbox'[j].id # inbox[i].id
        BY <1>7, <1>8, <1>10, <2>1, <3>1, <4>1, <4>2 DEF Inv, IdsOnce
      <4>3. \A j \in DOMAIN asks' : asks'[j] # inbox[i].id
        BY <1>4, <2>1, <3>1, <4>1 DEF Inv, IdsOnce
      <4>4. \A j \in DOMAIN outbox' : outbox'[j].kind = "configuration" => outbox'[j].id # inbox[i].id
        BY <1>2, <2>1, <3>1, <4>1 DEF Inv, IdsOnce
      <4> QED BY <4>1, <4>2, <4>3, <4>4
    <3>2. CASE i = Len(inbox) + 1
      <4>1. inbox'[i].id = id /\ id \in pending'
        BY <1>2, <1>7, <1>8, <1>9, <3>2 DEF server
      <4>2. ASSUME NEW j \in DOMAIN inbox', inbox'[j].kind = "settings", j # i PROVE inbox'[j].id # id
        <5>1. j \in DOMAIN inbox /\ inbox'[j] = inbox[j]
          BY <1>8, <1>10, <3>2, <4>2
        <5> QED BY <1>4, <1>5, <4>2, <5>1 DEF Inv, IdsOnce
      <4>3. \A j \in DOMAIN asks' : asks'[j] # id
        BY <1>4, <1>5 DEF Inv, IdsOnce
      <4>4. \A j \in DOMAIN outbox' : outbox'[j].kind = "configuration" => outbox'[j].id # id
        BY <1>2, <1>4, <1>5 DEF Inv, IdsOnce
      <4> QED BY <4>1, <4>2, <4>3, <4>4
    <3> QED BY <1>10, <3>1, <3>2
  <2>2. ASSUME NEW i \in DOMAIN asks'
        PROVE  /\ asks'[i] \in pending'
               /\ \A j \in DOMAIN asks' : j # i => asks'[j] # asks'[i]
               /\ \A j \in DOMAIN outbox' : outbox'[j].kind = "configuration" => outbox'[j].id # asks'[i]
    <3>1. i + 1 \in DOMAIN asks /\ asks'[i] = asks[i + 1]
      BY <1>4
    <3>2. ASSUME NEW j \in DOMAIN asks', j # i PROVE asks'[j] # asks'[i]
      <4>1. j + 1 \in DOMAIN asks /\ asks'[j] = asks[j + 1] /\ j + 1 # i + 1
        BY <1>4, <3>2
      <4> QED BY <3>1, <4>1 DEF Inv, IdsOnce
    <3> QED BY <1>2, <3>1, <3>2 DEF Inv, IdsOnce, server
  <2>3. \A i \in DOMAIN outbox' : outbox'[i].kind = "configuration" =>
          /\ outbox'[i].id \in pending'
          /\ \A j \in DOMAIN outbox' : outbox'[j].kind = "configuration" /\ j # i => outbox'[j].id # outbox'[i].id
    BY <1>2 DEF Inv, IdsOnce, server
  <2> QED BY <2>1, <2>2, <2>3 DEF IdsOnce
<1>12. FileStays' /\ (closing = 0 => FileFollows')
  BY <1>2, <1>7, SaidFile DEF server
<1>13. EditorFollows'
  <2>1. Len(inbox) + 1 \in DOMAIN inbox' /\ inbox'[Len(inbox) + 1].kind = "settings"
    BY <1>7, <1>8
  <2>2. ASSUME NEW i \in DOMAIN inbox', inbox'[i].kind = "settings",
               \A j \in DOMAIN inbox' : j > i => inbox'[j].kind # "settings"
        PROVE  Good(inbox[i])'
    <3>1. i = Len(inbox) + 1
      BY <1>8, <2>1, <2>2
    <3>2. m.object \/ editor = << >>
      BY <1>7
    <3> QED BY <1>2, <1>7, <1>8, <1>9, <3>1, <3>2 DEF Good, server
  <2>3. Answered'
    BY <2>1, <2>2 DEF Answered
  <2> QED BY <2>3 DEF EditorFollows
<1>14. \A e \in Docs : Moves(m, e, text[e], text'[e])
  BY <1>2, <1>7 DEF Moves
<1> QED BY <1>2, <1>3, <1>4, <1>7, <1>11, <1>12, <1>13, <1>14, Said

(* The editor receives the first message of the server.                    *)
LEMMA ReceiveInv == ASSUME Inv, Receive PROVE Inv'
<1>1. /\ outbox # << >> /\ outbox' = Tail(outbox)
      /\ shown' = IF Head(outbox).kind = "publish"
                  THEN [shown EXCEPT ![Head(outbox).doc] = Head(outbox).diagnostics] ELSE shown
      /\ asks' = IF Head(outbox).kind = "configuration" THEN Append(asks, Head(outbox).id) ELSE asks
      /\ watching' = (watching \/ Head(outbox).kind = "register")
      /\ UNCHANGED <<user, text, file, editor, clock, unseen, leaving, inbox, server>>
  BY DEF Receive
<1>2. PICK m : m = Head(outbox)
  OBVIOUS
<1>3. outbox \in Seq(OutMsg) /\ asks \in Seq(Nat) /\ shown \in [Docs -> Diagnostics]
  BY DEF Inv, Types
<1>4. /\ outbox' \in Seq(OutMsg) /\ m = outbox[1] /\ m \in OutMsg /\ 1 \in DOMAIN outbox
      /\ \A i \in DOMAIN outbox' : i + 1 \in DOMAIN outbox /\ outbox'[i] = outbox[i + 1] /\ i + 1 # 1 /\ i \in Nat
      /\ \A i \in DOMAIN outbox : i # 1 => i - 1 \in DOMAIN outbox' /\ outbox'[i - 1] = outbox[i]
  <2>1. DOMAIN outbox' = 1..(Len(outbox) - 1) /\ Len(outbox) \in Nat
    BY <1>1, <1>3, OutboxShrinks
  <2>2. \A i \in DOMAIN outbox' : i + 1 # 1 /\ i \in Nat
    BY <2>1
  <2> QED BY <1>1, <1>2, <1>3, <2>2, OutboxShrinks
<1>5. /\ m.kind = "publish" => m.doc \in Docs /\ m.diagnostics \in Diagnostics
      /\ m.kind = "configuration" => m.id \in Nat
  BY <1>4 DEF OutMsg
<1>6. Types'
  <2>1. shown' \in [Docs -> Diagnostics] /\ asks' \in Seq(Nat) /\ watching' \in BOOLEAN
    BY <1>1, <1>2, <1>3, <1>5
  <2> QED BY <1>1, <1>4, <2>1 DEF Inv, Types, server
<1>7. Leaving' /\ StaleOnce' /\ FileStays'
  BY <1>1 DEF Inv, Leaving, StaleOnce, FileStays, Announced, server
<1>8. CodeActionsMatchText'
  <2>1. \A i \in DOMAIN outbox : QuickOK(outbox[i])
    BY DEF Inv, CodeActionsMatchText, QuickOK
  <2>2. \A i \in DOMAIN outbox' : QuickOK(outbox'[i])
    BY <1>4, <2>1
  <2> QED BY <2>2 DEF CodeActionsMatchText, QuickOK
<1>9. ASSUME NEW d \in Docs PROVE UpToDate(d)'
  <2> SUFFICES ASSUME d \notin Range(stale)
               PROVE  Diagnosed(session', d) /\ LastWord(d, RunDiagnostics(session, d))'
    BY <1>1 DEF UpToDate, server, Diagnosed, RunDiagnostics, Opened, IsExcluded
  <2>1. PICK v : v = RunDiagnostics(session, d)
    OBVIOUS
  <2>2. Diagnosed(session, d) /\ LastWord(d, v)
    BY <2>1 DEF Inv, UpToDate
  <2>3. LastWord(d, v)'
    BY <1>1, <2>2, LastWordReceived DEF Inv
  <2>4. session' = session
    BY <1>1 DEF server
  <2>5. LastWord(d, RunDiagnostics(session, d))'
    BY <2>1, <2>3, <2>4 DEF LastWord, Says
  <2> QED BY <2>2, <2>4, <2>5
<1>10. IdsOnce'
  <2>1. \A i \in DOMAIN outbox' : outbox'[i].kind = "configuration" =>
          /\ outbox'[i].id \in pending'
          /\ m.kind = "configuration" => outbox'[i].id # m.id
          /\ \A j \in DOMAIN inbox : inbox[j].kind = "settings" => outbox'[i].id # inbox[j].id
          /\ \A j \in DOMAIN asks : outbox'[i].id # asks[j]
    BY <1>1, <1>4 DEF Inv, IdsOnce, server
  <2>2. ASSUME NEW i \in DOMAIN outbox', NEW j \in DOMAIN outbox', j # i,
               outbox'[i].kind = "configuration", outbox'[j].kind = "configuration"
        PROVE  outbox'[j].id # outbox'[i].id
    <3>1. /\ i + 1 \in DOMAIN outbox /\ j + 1 \in DOMAIN outbox /\ i + 1 # j + 1
          /\ outbox'[i] = outbox[i + 1] /\ outbox'[j] = outbox[j + 1]
      BY <1>4, <2>2
    <3> QED BY <2>2, <3>1 DEF Inv, IdsOnce
  <2>3. CASE m.kind # "configuration"
    <3>1. asks' = asks
      BY <1>1, <1>2, <2>3
    <3> QED BY <1>1, <2>1, <2>2, <3>1 DEF Inv, IdsOnce, server
  <2>4. CASE m.kind = "configuration"
    <3>1. /\ m.id \in pending
          /\ \A j \in DOMAIN inbox : inbox[j].kind = "settings" => inbox[j].id # m.id
          /\ \A j \in DOMAIN asks : asks[j] # m.id
      BY <1>4, <2>4 DEF Inv, IdsOnce
    <3>2. /\ asks' = Append(asks, m.id) /\ Len(asks) \in Nat
          /\ \A i \in DOMAIN asks' : \/ i \in DOMAIN asks /\ asks'[i] = asks[i]
                                     \/ i = Len(asks) + 1 /\ asks'[i] = m.id
      BY <1>1, <1>2, <1>3, <2>4
    <3>3. ASSUME NEW i \in DOMAIN asks'
          PROVE  /\ asks'[i] \in pending'
                 /\ \A j \in DOMAIN asks' : j # i => asks'[j] # asks'[i]
                 /\ \A j \in DOMAIN outbox' : outbox'[j].kind = "configuration" => outbox'[j].id # asks'[i]
      BY <1>1, <2>1, <2>4, <3>1, <3>2 DEF Inv, IdsOnce, server
    <3>4. ASSUME NEW i \in DOMAIN inbox', inbox'[i].kind = "settings"
          PROVE  /\ inbox'[i].id \in pending'
                 /\ \A j \in DOMAIN inbox' : inbox'[j].kind = "settings" /\ j # i => inbox'[j].id # inbox'[i].id
                 /\ \A j \in DOMAIN asks' : asks'[j] # inbox'[i].id
                 /\ \A j \in DOMAIN outbox' : outbox'[j].kind = "configuration" => outbox'[j].id # inbox'[i].id
      BY <1>1, <2>1, <3>1, <3>2, <3>4 DEF Inv, IdsOnce, server
    <3> QED BY <2>1, <2>2, <3>3, <3>4 DEF IdsOnce
  <2> QED BY <2>3, <2>4
<1>11. ASSUME NEW d \in Docs, closing = 0 PROVE TextsFollow(d)'
  BY <1>1, <1>11, TextsKept DEF Inv, server
<1>12. ASSUME closing = 0 PROVE FileFollows' /\ EditorFollows'
  <2>1. FileFollows'
    BY <1>1, <1>12 DEF Inv, FileFollows, Announced, server
  <2>2. asks # << >> => asks' # << >>
    BY <1>1, <1>3, <1>4, <1>5
  <2>3. ASSUME NEW i \in DOMAIN outbox, outbox[i].kind = "configuration" PROVE Asking'
    <3>1. CASE i = 1
      <4>1. asks' = Append(asks, m.id)
        BY <1>1, <1>2, <1>4, <2>3, <3>1
      <4>2. asks' # << >>
        BY <1>3, <4>1
      <4> QED BY <4>2 DEF Asking
    <3>2. CASE i # 1
      BY <1>4, <2>3, <3>2 DEF Asking
    <3> QED BY <3>1, <3>2
  <2>4. Asking => Asking'
    BY <1>1, <2>2, <2>3 DEF Asking
  <2>5. Answered => Answered'
    BY <1>1 DEF Answered, Obeyed, Good, server
  <2> QED BY <1>1, <1>12, <2>1, <2>4, <2>5 DEF Inv, EditorFollows
<1>13. closing' = closing
  BY <1>1 DEF server
<1> QED BY <1>6, <1>7, <1>8, <1>9, <1>10, <1>11, <1>12, <1>13 DEF Inv


-----------------------------------------------------------------------------
(* The specification.                                                      *)

(* Nothing is open and nothing is under way.                               *)
LEMMA InitInv == ASSUME Init PROVE Inv
<1>1. << >> \in Seq(InMsg) /\ << >> \in Seq(OutMsg) /\ << >> \in Seq(Docs) /\ << >> \in Seq(Nat)
  OBVIOUS
<1>2. DOMAIN << >> = {} /\ Len(<< >>) = 0
  OBVIOUS
<1>3. file \in Config /\ user \in Users
  <2>1. user.files \subseteq Config
    BY ServerBounds DEF Init
  <2> QED BY <2>1 DEF Init
<1>4. editor \in EditorSettings
  <2>1. << >> \in [{} -> Values]
    OBVIOUS
  <2> QED BY <2>1 DEF Init, EditorSettings
<1>5. session \in Session /\ Opened(session) = {} /\ session.config = file
  BY <1>3 DEF Init, Start, Session, Opened
<1>6. Types
  <2>1. text \in [Docs -> Nat \cup {Closed}] /\ shown \in [Docs -> Diagnostics]
    BY DEF Init, Diagnostics
  <2>2. clock \in 0..MaxClock /\ leaving \in 0..MaxClock /\ closing \in 0..MaxClock
    BY ServerBounds DEF Init
  <2>3. /\ asks \in Seq(Nat) /\ inbox \in Seq(InMsg) /\ outbox \in Seq(OutMsg) /\ stale \in Seq(Docs)
        /\ unseen \in BOOLEAN /\ watching \in BOOLEAN
    BY <1>1 DEF Init
  <2>4. nextId \in Nat \ {0} /\ pending \subseteq 1..(nextId - 1) /\ mode = "starting"
    BY DEF Init
  <2> QED BY <1>3, <1>4, <1>5, <2>1, <2>2, <2>3, <2>4 DEF Types
<1>7. Leaving /\ StaleOnce /\ IdsOnce /\ FileStays /\ CodeActionsMatchText
  BY <1>2 DEF Init, Leaving, StaleOnce, IdsOnce, FileStays, Announced, CodeActionsMatchText
<1>8. ASSUME NEW d \in Docs PROVE UpToDate(d)
  BY <1>2, <1>5 DEF Init, UpToDate, Diagnosed, LastWord, RunDiagnostics
<1>9. ASSUME NEW d \in Docs PROVE TextsFollow(d)
  <2>1. Len(inbox) = 0 /\ text[d] = Closed /\ ServerText(session, d) = Closed
    BY <1>2, <1>5 DEF Init, ServerText
  <2>2. PICK h \in [1..1 -> Nat \cup {Closed}] : h = [i \in 1..1 |-> Closed]
    OBVIOUS
  <2>3. Leads(h, d)
    BY <2>1, <2>2 DEF Leads
  <2> QED BY <2>1, <2>3 DEF TextsFollow
<1>10. FileFollows
  BY <1>5 DEF FileFollows
<1>11. EditorFollows
  BY <1>2 DEF Init, EditorFollows, Answered, Obeyed
<1> QED BY <1>6, <1>7, <1>8, <1>9, <1>10, <1>11 DEF Inv

(* Every step of the editor and of the server keeps the invariant.         *)
LEMMA StepInv == ASSUME Inv, [Next]_vars PROVE Inv'
<1>1. CASE User
  <2>1. user.docs \subseteq Docs
    BY ServerBounds DEF Inv, Types
  <2>2. CASE \E d \in user.docs : DidOpen(d) \/ DidChange(d) \/ DidClose(d) \/ DidSave(d) \/ Ask(d)
    BY <2>1, <2>2, EditInv
  <2> QED BY <1>1, <2>2, EditConfigInv, DidChangeConfigurationInv, LeaveInv DEF User
<1>2. CASE Editor
  BY <1>2, DidChangeWatchedFilesInv, AnswerSettingsInv, ReceiveInv DEF Editor
<1>3. CASE RegisterWatchers \/ Flush \/ TakeExit \/ ShutdownFails \/ Stop
  BY <1>3, RegisterInv, FlushInv, TakeExitInv, ShutdownFailsInv, StopInv
<1>4. CASE Handler
  BY <1>4, OpenInv, ChangeInv, CloseInv, SaveInv, WatchedFilesInv, ConfigurationInv, SettingsInv,
     IgnoredInv, RequestInv, ShutdownInv DEF Handler
<1>5. CASE UNCHANGED vars
  BY <1>5, Unmoved DEF vars, client, server
<1> QED BY <1>1, <1>2, <1>3, <1>4, <1>5 DEF Next, MainLoop

(* The invariant of the server and its editor: the messages under way lead *)
(* from the server's texts to the editor's, what was not edited since is   *)
(* published and cached, and changes of the configuration are known or on  *)
(* their way.                                                              *)
THEOREM Invariant == Spec => []Inv
<1>1. Init => Inv
  BY InitInv
<1>2. Inv /\ [Next]_vars => Inv'
  BY StepInv
<1> QED BY <1>1, <1>2, PTL DEF Spec

(* While no message was lost to a shutdown, the server's text of a document *)
(* was never patched on another text.                                       *)
LEMMA NeverGarbled ==
  ASSUME Types, NEW d \in Docs, TextsFollow(d), d \in Opened(session)
  PROVE  session.documents[d].source # Garbled
<1>1. PICK h \in [1..(Len(inbox) + 1) -> Nat \cup {Closed}] : Leads(h, d)
  BY DEF TextsFollow
<1>2. h[1] = session.documents[d].source
  BY <1>1 DEF Leads, ServerText
<1>3. Len(inbox) \in Nat
  BY DEF Types
<1>4. h[1] \in Nat \cup {Closed}
  BY <1>3
<1>5. session.documents[d].source \in Texts
  BY DEF Types, Session, Opened, DocumentState
<1>6. h[1] # Closed
  BY <1>2, <1>5, ServerBounds
<1> QED BY <1>2, <1>4, <1>6, PlaceholdersDiffer

(* The state of the editor and of the server keeps its shape, and the      *)
(* server's text of a document was never patched on another text.          *)
THEOREM ServerTypeCorrect == Spec => []TypeOK
<1>1. Inv => TypeOK
  <2> SUFFICES ASSUME Inv PROVE TypeOK
    OBVIOUS
  <2>1. Types
    BY DEF Inv
  <2>2. closing = 0 => \A d \in Opened(session) : session.documents[d].source # Garbled
    BY NeverGarbled DEF Inv, Opened
  <2>3. Range(stale) \subseteq Docs /\ pending \subseteq 1..nextId /\ nextId \in Nat
    BY <2>1 DEF Types, Range
  <2> QED BY <2>1, <2>2, <2>3 DEF Types, TypeOK
<1> QED BY <1>1, Invariant, PTL

(* Every code action answer under way was made from violations of the very *)
(* text and configuration its fixes are computed on.                       *)
THEOREM CodeActionsAlwaysMatch == Spec => []CodeActionsMatchText
<1>1. Inv => CodeActionsMatchText
  BY DEF Inv
<1> QED BY <1>1, Invariant, PTL

(* No message was lost to a shutdown if none was requested.                *)
LEMMA SettledServes ==
  ASSUME Inv, Settled
  PROVE  /\ closing = 0 /\ Types /\ FileFollows /\ EditorFollows
         /\ \A d \in Docs : TextsFollow(d) /\ UpToDate(d)
         /\ Len(inbox) = 0 /\ DOMAIN inbox = {} /\ DOMAIN outbox = {} /\ Range(stale) = {}
<1>1. closing = 0
  BY DEF Inv, Settled, Leaving
<1>2. DOMAIN << >> = {} /\ Len(<< >>) = 0
  OBVIOUS
<1> QED BY <1>1, <1>2 DEF Inv, Settled, Range

(* Once nothing is under way the server's excluded documents are those of  *)
(* the configuration file, for an editor that watches it from its start.   *)
THEOREM SettledAlwaysFollowsFile == Spec => []SettledFollowsFile
<1>1. Inv => SettledFollowsFile
  <2> SUFFICES ASSUME Inv, Settled, "early" \notin user.does PROVE session.config.exclude = file.exclude
    BY DEF SettledFollowsFile
  <2> QED BY SettledServes DEF FileFollows, Announced, Settled
<1> QED BY <1>1, Invariant, PTL

(* Once nothing is under way the session has each of the editor's settings, *)
(* if the configuration file is not edited.                                 *)
THEOREM SettledAlwaysFollowsEditor == Spec => []SettledFollowsEditor
<1>1. Inv => SettledFollowsEditor
  <2> SUFFICES ASSUME Inv, Settled, "file" \notin user.does
               PROVE  \A f \in DOMAIN editor : session.config.lint[f] = editor[f]
    BY DEF SettledFollowsEditor
  <2>1. ~Asking
    BY SettledServes DEF Settled, Asking
  <2> QED BY <2>1, SettledServes DEF EditorFollows, Answered, Obeyed
<1> QED BY <1>1, Invariant, PTL

(* Once nothing is under way the editor shows the diagnostics of every     *)
(* buffer as it is, and the server has them cached for quick fixes.        *)
THEOREM SettledAlwaysShowsCurrent == Spec => []SettledShowsCurrent
<1>1. Inv => SettledShowsCurrent
  <2> SUFFICES ASSUME Inv, Settled, NEW d \in Docs
               PROVE  IF text[d] = Closed THEN d \notin Opened(session) /\ shown[d] = None
                      ELSE LET diagnostics == IF d \in session.config.exclude THEN None
                                              ELSE Lint(text[d], session.config)
                           IN  shown[d] = diagnostics
                               /\ session.documents[d] = [source |-> text[d], diagnostics |-> diagnostics]
    BY DEF SettledShowsCurrent
  <2>1. text[d] = ServerText(session, d)
    <3>1. PICK h \in [1..1 -> Nat \cup {Closed}] : Leads(h, d)
      BY SettledServes DEF TextsFollow
    <3> QED BY <3>1, SettledServes DEF Leads
  <2>2. Diagnosed(session, d) /\ shown[d] = RunDiagnostics(session, d)
    BY SettledServes DEF UpToDate, LastWord
  <2>3. d \in Opened(session) => session.documents[d] \in DocumentState
    BY SettledServes DEF Types, Session, Opened
  <2>4. CASE d \notin Opened(session)
    BY <2>1, <2>2, <2>4 DEF ServerText, RunDiagnostics
  <2>5. CASE d \in Opened(session)
    <3>1. text[d] = session.documents[d].source /\ text[d] # Closed
      BY <2>1, <2>3, <2>5, ServerBounds DEF ServerText, DocumentState
    <3>2. session.documents[d].diagnostics = RunDiagnostics(session, d)
      BY <2>2, <2>5 DEF Diagnosed
    <3>3. RunDiagnostics(session, d) = IF d \in session.config.exclude THEN None ELSE Lint(text[d], session.config)
      BY <2>5, <3>1 DEF RunDiagnostics, IsExcluded
    <3>4. session.documents[d] = [source |-> text[d], diagnostics |-> RunDiagnostics(session, d)]
      BY <2>3, <2>5, <3>1, <3>2 DEF DocumentState
    <3> QED BY <2>2, <3>1, <3>3, <3>4
  <2> QED BY <2>4, <2>5
<1> QED BY <1>1, Invariant, PTL

=============================================================================
