------------------------- MODULE ModuleProbe_proofs -------------------------
(***************************************************************************)
(* The shared memo of the module probe is right for any number of threads, *)
(* names and re-exports: what it calls a module is one, and when the       *)
(* re-exports are not circular every verdict is the right one.             *)
(***************************************************************************)
EXTENDS ModuleProbe, SequenceTheorems, TLAPS

(* The name whose answer t waits for, and whether it waits for one.        *)
Lead(t, j) == leads[stack[t][j].key][stack[t][j].at - 1]
Target(t) == IF stack[t] = << >> THEN asked[t] ELSE Lead(t, Len(stack[t]))
Waiting(t) == call[t] # NoKey \/ ret[t] # "none"

(* How a thread's calls hang together: each is for the lead its caller is  *)
(* at, and a name that was met is on the stack or in the memo.             *)
Linked(t) ==
    /\ call[t] # NoKey => ret[t] = "none" /\ call[t] = Target(t)
    /\ Waiting(t) \/ stack[t] # << >> => asked[t] \in Keys
    /\ verdict[t] # "none" => asked[t] \in Keys
    /\ \A j \in DOMAIN stack[t] : j < Len(stack[t]) \/ Waiting(t) =>
          /\ stack[t][j].at - 1 \in DOMAIN leads[stack[t][j].key]
          /\ Lead(t, j) # Found
    /\ \A j \in DOMAIN stack[t] : j < Len(stack[t]) => stack[t][j + 1].key = Lead(t, j)
    /\ stack[t] # << >> => stack[t][1].key = asked[t]
    /\ \A k \in visiting[t] : cache[k] # "unknown" \/ \E j \in DOMAIN stack[t] : stack[t][j].key = k

(* The leads a call has left behind, all but the one it waits for.         *)
Behind(t, j) ==
    {i \in DOMAIN leads[stack[t][j].key] :
        i < stack[t][j].at /\ ~(i = stack[t][j].at - 1 /\ (j < Len(stack[t]) \/ Waiting(t)))}

Found_sound == \A k \in Keys : cache[k] = "yes" => IsModule(k)
Returned_sound(t) == ret[t] = "yes" => IsModule(Target(t))

(* The same for "no", where nothing is circular.                           *)
Missed_sound == \A k \in Keys : cache[k] = "no" => ~IsModule(k)
Return_missed(t) == ret[t] = "no" => ~IsModule(Target(t))
Behind_missed(t) ==
    \A j \in DOMAIN stack[t] : \A i \in Behind(t, j) :
        leads[stack[t][j].key][i] # Found /\ ~IsModule(leads[stack[t][j].key][i])

Roots_right == \A r \in Roots : rootCache[r] # "unknown" => rootCache[r] = YesNo(r \in installed)

Sound ==
    /\ \A t \in Threads : Linked(t)
    /\ Found_sound /\ Roots_right
    /\ \A t \in Threads : Returned_sound(t)
    /\ Acyclic => /\ Missed_sound
                  /\ \A t \in Threads : Return_missed(t) /\ Behind_missed(t)

ProbeInv == TypeOK /\ Sound /\ VerdictsRight

-----------------------------------------------------------------------------
Frame == [key : Keys, at : Nat \ {0}]

(* The calls in progress are a sequence of frames.                         *)
LEMMA StackType ==
    ASSUME TypeOK, NEW t \in Threads
    PROVE  /\ stack[t] \in Seq(Frame)
           /\ Len(stack[t]) \in Nat /\ DOMAIN stack[t] = 1..Len(stack[t])
           /\ \A j \in 1..Len(stack[t]) : /\ stack[t][j] \in Frame
                                          /\ stack[t][j].key \in Keys
                                          /\ stack[t][j].at \in Nat \ {0}
<1>1. stack[t] \in Seq(Frame)
    BY DEF TypeOK, Frame
<1>2. Len(stack[t]) \in Nat /\ DOMAIN stack[t] = 1..Len(stack[t])
    BY <1>1, LenProperties
<1>3. \A j \in 1..Len(stack[t]) : stack[t][j] \in Frame
    BY <1>1, <1>2, ElementOfSeq
<1> QED BY <1>1, <1>2, <1>3 DEF Frame

(* The innermost call is the last frame.                                   *)
LEMMA StackTop ==
    ASSUME TypeOK, NEW t \in Threads, stack[t] # << >>
    PROVE  /\ Len(stack[t]) \in Nat \ {0} /\ Len(stack[t]) \in DOMAIN stack[t]
           /\ Top(t) = stack[t][Len(stack[t])]
           /\ Top(t).key \in Keys /\ Top(t).at \in Nat \ {0}
<1>1. Len(stack[t]) \in Nat \ {0}
    BY StackType, EmptySeq
<1>2. Len(stack[t]) \in 1..Len(stack[t])
    BY <1>1
<1> QED BY <1>1, <1>2, StackType DEF Top, Last

(* Popping leaves the frames below.                                        *)
LEMMA StackFront ==
    ASSUME TypeOK, NEW t \in Threads, stack[t] # << >>
    PROVE  /\ Front(stack[t]) \in Seq(Frame)
           /\ Len(Front(stack[t])) = Len(stack[t]) - 1
           /\ \A i \in 1..Len(stack[t]) - 1 : Front(stack[t])[i] = stack[t][i]
<1> DEFINE n == Len(stack[t])
<1>1. n \in Nat \ {0}
    BY StackTop
<1>2. \A i \in 1..n - 1 : stack[t][i] \in Frame
    <2> TAKE i \in 1..n - 1
    <2>1. i \in 1..n
        BY <1>1
    <2> QED BY <2>1, StackType
<1> HIDE DEF n
<1>3. /\ SubSeq(stack[t], 1, n - 1) \in Seq(Frame)
      /\ Len(SubSeq(stack[t], 1, n - 1)) = IF 1 <= n - 1 THEN n - 1 - 1 + 1 ELSE 0
      /\ \A i \in 1..n - 1 - 1 + 1 : SubSeq(stack[t], 1, n - 1)[i] = stack[t][1 + i - 1]
    <2>1. 1 \in Int /\ n - 1 \in Int
        BY <1>1
    <2> QED BY <1>2, <2>1, SubSeqProperties
<1>4. Len(SubSeq(stack[t], 1, n - 1)) = n - 1
    BY <1>1, <1>3
<1>5. \A i \in 1..n - 1 : SubSeq(stack[t], 1, n - 1)[i] = stack[t][i]
    <2> TAKE i \in 1..n - 1
    <2>1. i \in 1..n - 1 - 1 + 1 /\ 1 + i - 1 = i
        BY <1>1
    <2> QED BY <2>1, <1>3
<1> QED BY <1>3, <1>4, <1>5 DEF Front, n

(* Being a module and being acyclic depend on the layout only.             *)
LEMMA LayoutOnly ==
    ASSUME UNCHANGED leads
    PROVE  /\ \A k : IsModule(k)' <=> IsModule(k)
           /\ Acyclic' <=> Acyclic
BY DEF IsModule, ClosedUnderLeads, Acyclic, Range

(* A name that leads to a file or to a module is a module.                 *)
LEMMA LeadsToModule ==
    ASSUME TypeOK, NEW k \in Keys, NEW i \in DOMAIN leads[k],
           leads[k][i] = Found \/ IsModule(leads[k][i])
    PROVE  IsModule(k)
<1> SUFFICES ASSUME NEW S \in SUBSET Keys, ClosedUnderLeads(S) PROVE k \in S
    BY DEF IsModule
<1>1. leads[k][i] \in Range(leads[k])
    BY DEF Range
<1>2. leads[k][i] = Found \/ leads[k][i] \in S
    BY DEF IsModule
<1> QED BY <1>1, <1>2 DEF ClosedUnderLeads

(* A name none of whose leads ends well is not.                            *)
LEMMA LeadsNowhere ==
    ASSUME TypeOK, NEW k \in Keys,
           \A i \in DOMAIN leads[k] : leads[k][i] # Found /\ ~IsModule(leads[k][i])
    PROVE  ~IsModule(k)
<1> DEFINE S == {q \in Keys : IsModule(q)} \ {k}
<1>1. S \in SUBSET Keys
    OBVIOUS
<1>2. ClosedUnderLeads(S)
    <2> SUFFICES ASSUME NEW q \in Keys, NEW l \in Range(leads[q]), l = Found \/ l \in S
                 PROVE  q \in S
        BY DEF ClosedUnderLeads
    <2>1. PICK i \in DOMAIN leads[q] : l = leads[q][i]
        BY DEF Range
    <2>2. l = Found \/ IsModule(l)
        OBVIOUS
    <2>3. IsModule(q)
        BY <2>1, <2>2, LeadsToModule
    <2>4. q # k
        BY <2>1, <2>2
    <2> QED BY <2>3, <2>4
<1>3. k \notin S
    OBVIOUS
<1> QED BY <1>1, <1>2, <1>3 DEF IsModule

(* Without a circle, no call is for a name that is being resolved.         *)
LEMMA NeverAgain ==
    ASSUME TypeOK, Acyclic, NEW t \in Threads, Linked(t), call[t] # NoKey,
           NEW j \in DOMAIN stack[t], stack[t][j].key = call[t]
    PROVE  FALSE
<1> DEFINE n == Len(stack[t])
           S == {stack[t][i].key : i \in j..n}
<1>1. n \in Nat /\ j \in 1..n /\ DOMAIN stack[t] = 1..n
    BY StackType
<1>2. S \in (SUBSET Keys) \ {{}}
    <2>1. \A i \in j..n : stack[t][i].key \in Keys
        <3> TAKE i \in j..n
        <3>1. i \in 1..n
            BY <1>1
        <3> QED BY <3>1, StackType
    <2>2. stack[t][j].key \in S
        BY <1>1
    <2> QED BY <2>1, <2>2
<1>3. PICK k \in S : Range(leads[k]) \cap S = {}
    BY <1>2 DEF Acyclic
<1>4. PICK i \in j..n : k = stack[t][i].key
    OBVIOUS
<1>5. i \in DOMAIN stack[t] /\ (i < n \/ i = n)
    BY <1>1
<1>6. Lead(t, i) \in Range(leads[k])
    <2>1. stack[t][i].at - 1 \in DOMAIN leads[stack[t][i].key]
        BY <1>5 DEF Linked, Waiting
    <2> QED BY <2>1, <1>4 DEF Lead, Range
<1>7. Lead(t, i) \in S
    <2>1. CASE i < n
        <3>1. stack[t][i + 1].key = Lead(t, i)
            BY <2>1, <1>5 DEF Linked
        <3>2. i + 1 \in j..n
            BY <2>1, <1>1
        <3> QED BY <3>1, <3>2
    <2>2. CASE i = n
        <3>1. stack[t] # << >>
            BY <1>1
        <3>2. Lead(t, i) = call[t]
            BY <2>2, <3>1 DEF Linked, Target
        <3> QED BY <3>2, <1>1
    <2> QED BY <1>5, <2>1, <2>2
<1> QED BY <1>3, <1>6, <1>7

-----------------------------------------------------------------------------
(* Types *)

(* A question that a rule asks keeps the types.                            *)
LEMMA AskTypes == ASSUME TypeOK, NEW t \in Threads, NEW k \in Keys, Ask(t, k) PROVE TypeOK'
<1>1. queries' \in 0..MaxQueries
    BY ProbeAssumption DEF TypeOK, Ask
<1>2. /\ asked' \in [Threads -> Keys \cup {NoKey}] /\ call' \in [Threads -> Keys \cup {NoKey}]
      /\ visiting' \in [Threads -> SUBSET Keys]
      /\ verdict' \in [Threads -> Verdicts \cup {"none"}]
    BY DEF TypeOK, Ask
<1> QED BY <1>1, <1>2 DEF TypeOK, Ask

(* So does the start of a call, or its answer.                             *)
LEMMA EnterTypes == ASSUME TypeOK, NEW t \in Threads, Enter(t) PROVE TypeOK'
<1>1. call[t] \in Keys /\ cache[call[t]] \in {"yes", "no", "unknown"}
    BY DEF TypeOK, Enter
<1>2. [key |-> call[t], at |-> 1] \in Frame
    BY <1>1 DEF Frame
<1>3. Append(stack[t], [key |-> call[t], at |-> 1]) \in Seq(Frame)
    BY <1>2, StackType, AppendProperties
<1>4. stack \in [Threads -> Seq(Frame)]
    BY DEF TypeOK, Frame
<1>5. stack' \in [Threads -> Seq(Frame)]
    BY <1>3, <1>4 DEF Enter
<1>6. ret' \in [Threads -> {"yes", "no", "none"}]
    <2>1. PICK c \in {"yes", "no", "unknown"} : c = cache[call[t]]
        BY <1>1
    <2>2. ret' = ret \/ ret' = [ret EXCEPT ![t] = "no"] \/ (c # "unknown" /\ ret' = [ret EXCEPT ![t] = c])
        BY <2>1 DEF Enter
    <2> QED BY <2>2 DEF TypeOK
<1>7. visiting' \in [Threads -> SUBSET Keys]
    <2>1. visiting' = visiting \/ visiting' = [visiting EXCEPT ![t] = @ \cup {call[t]}]
        BY DEF Enter
    <2>2. visiting \in [Threads -> SUBSET Keys]
        BY DEF TypeOK
    <2>3. visiting[t] \cup {call[t]} \in SUBSET Keys
        BY <1>1, <2>2
    <2> QED BY <2>1, <2>2, <2>3
<1>8. call' \in [Threads -> Keys \cup {NoKey}]
    BY DEF TypeOK, Enter
<1> QED BY <1>5, <1>6, <1>7, <1>8 DEF TypeOK, Enter, Frame

(* So does the end of a call.                                              *)
LEMMA ResolveTypes ==
    ASSUME TypeOK, NEW t \in Threads, NEW v \in {"yes", "no"}, stack[t] # << >>, Resolve(t, v)
    PROVE  /\ cache' \in [Keys -> {"yes", "no", "unknown"}]
           /\ stack' \in [Threads -> Seq([key : Keys, at : Nat \ {0}])]
           /\ ret' \in [Threads -> {"yes", "no", "none"}]
BY StackTop, StackFront DEF TypeOK, Resolve, Frame

(* And the next lead.                                                      *)
LEMMA FollowTypes == ASSUME TypeOK, NEW t \in Threads, Follow(t) PROVE TypeOK'
<1> DEFINE n == Len(stack[t])
<1>1. stack[t] # << >> /\ n \in DOMAIN stack[t] /\ Top(t) = stack[t][n] /\ Top(t).key \in Keys /\ Top(t).at \in Nat \ {0}
    BY StackTop DEF Follow
<1>2. CASE \E v \in {"yes", "no"} : Resolve(t, v) /\ UNCHANGED call
    BY <1>1, <1>2, ResolveTypes DEF TypeOK, Follow
<1>3. CASE /\ Top(t).at <= Len(leads[Top(t).key]) /\ leads[Top(t).key][Top(t).at] # Found
           /\ call' = [call EXCEPT ![t] = leads[Top(t).key][Top(t).at]]
           /\ stack' = [stack EXCEPT ![t][n].at = @ + 1]
           /\ UNCHANGED <<cache, ret>>
    <2>1. leads[Top(t).key] \in Seq(Keys \cup {Found})
        BY <1>1 DEF TypeOK
    <2>2. leads[Top(t).key][Top(t).at] \in Keys
        BY <1>1, <1>3, <2>1, ElementOfSeq
    <2>3. [stack[t] EXCEPT ![n].at = @ + 1] \in Seq(Frame)
        <3>1. [stack[t][n] EXCEPT !.at = @ + 1] \in Frame
            <4>1. stack[t][n] \in Frame
                BY <1>1, StackType
            <4> HIDE DEF n
            <4> QED BY <4>1 DEF Frame
        <3> HIDE DEF n
        <3>2. [stack[t] EXCEPT ![n] = [stack[t][n] EXCEPT !.at = @ + 1]] \in Seq(Frame)
            BY <1>1, <3>1, StackType, ExceptSeq
        <3> QED BY <3>2
    <2>4. stack' \in [Threads -> Seq(Frame)]
        <3>1. stack' = [stack EXCEPT ![t] = [stack[t] EXCEPT ![n].at = @ + 1]]
            BY <1>3
        <3>2. stack \in [Threads -> Seq(Frame)]
            BY DEF TypeOK, Frame
        <3> QED BY <2>3, <3>1, <3>2
    <2> QED BY <1>3, <2>2, <2>4 DEF TypeOK, Follow, Frame
<1> QED BY <1>2, <1>3 DEF Follow

(* And the return to a caller.                                             *)
LEMMA ReturnTypes == ASSUME TypeOK, NEW t \in Threads, Return(t) PROVE TypeOK'
BY ResolveTypes DEF TypeOK, Return

(* And the verdict.                                                        *)
LEMMA CheckTypes == ASSUME TypeOK, NEW t \in Threads, Check(t) PROVE TypeOK'
<1> DEFINE root == RootOf[asked[t]]
           exists == IF rootCache[root] # "unknown" THEN rootCache[root] ELSE YesNo(root \in installed)
<1>1. root \in Roots => exists \in {"yes", "no", "unknown"}
    BY DEF TypeOK, YesNo
<1>2. rootCache' \in [Roots -> {"yes", "no", "unknown"}]
    <2>1. rootCache' = rootCache \/ rootCache' = [rootCache EXCEPT ![root] = exists]
        BY DEF Check
    <2> HIDE DEF root, exists
    <2> QED BY <1>1, <2>1 DEF TypeOK
<1>3. verdict' \in [Threads -> Verdicts \cup {"none"}]
    BY DEF TypeOK, Check, Verdicts
<1>4. ret' \in [Threads -> {"yes", "no", "none"}]
    BY DEF TypeOK, Check
<1> QED BY <1>2, <1>3, <1>4 DEF TypeOK, Check

(* So the types are an invariant of every step.                            *)
LEMMA StepTypes == ASSUME TypeOK, [Next]_vars PROVE TypeOK'
<1>1. ASSUME NEW t \in Threads, NEW k \in Keys, Ask(t, k) PROVE TypeOK'
    BY <1>1, AskTypes
<1>2. ASSUME NEW t \in Threads, Work(t) PROVE TypeOK'
    BY <1>2, EnterTypes, FollowTypes, ReturnTypes, CheckTypes DEF Work
<1>3. CASE UNCHANGED vars
    BY <1>3 DEF TypeOK, vars, task
<1> QED BY <1>1, <1>2, <1>3 DEF Next

-----------------------------------------------------------------------------
(* What a step of another thread leaves as it is.                          *)

(* The memo only grows.                                                    *)
Grows == \A k \in Keys : cache[k] # "unknown" => cache'[k] # "unknown"
Idles(u) ==
    /\ asked'[u] = asked[u] /\ call'[u] = call[u] /\ stack'[u] = stack[u]
    /\ visiting'[u] = visiting[u] /\ ret'[u] = ret[u]

(* A thread that does nothing while the memo grows knows what it knew.     *)
LEMMA OtherThread ==
    ASSUME TypeOK, NEW u \in Threads, UNCHANGED leads, Grows, Idles(u), verdict'[u] = verdict[u]
    PROVE  /\ Linked(u) => Linked(u)'
           /\ Returned_sound(u) => Returned_sound(u)'
           /\ Return_missed(u) => Return_missed(u)'
           /\ Behind_missed(u) => Behind_missed(u)'
<1>1. visiting[u] \subseteq Keys
    BY DEF TypeOK
<1>2. Target(u)' = Target(u) /\ Waiting(u)' = Waiting(u)
    BY DEF Idles, Target, Waiting, Lead
<1>3. \A j : Lead(u, j)' = Lead(u, j)
    BY DEF Idles, Lead
<1>4. Linked(u) => Linked(u)'
    BY <1>1, <1>2, <1>3 DEF Linked, Idles, Grows
<1>5. Returned_sound(u) => Returned_sound(u)'
    BY <1>2, LayoutOnly DEF Returned_sound, Idles
<1>6. Return_missed(u) => Return_missed(u)'
    BY <1>2, LayoutOnly DEF Return_missed, Idles
<1>7. Behind_missed(u) => Behind_missed(u)'
    BY <1>2, LayoutOnly DEF Behind_missed, Behind, Idles
<1> QED BY <1>4, <1>5, <1>6, <1>7

(* So a step of t keeps Sound if it keeps it of the memo and of t.         *)
LEMMA OneThread ==
    ASSUME TypeOK, Sound, NEW t \in Threads, UNCHANGED <<leads, installed>>, Grows,
           \A u \in Threads \ {t} : Idles(u) /\ verdict'[u] = verdict[u],
           Linked(t)', Found_sound', Roots_right', Returned_sound(t)',
           Acyclic => Missed_sound' /\ Return_missed(t)' /\ Behind_missed(t)'
    PROVE  Sound'
<1>1. \A u \in Threads : Linked(u)' /\ Returned_sound(u)'
    BY OtherThread DEF Sound
<1>2. Acyclic => \A u \in Threads : Return_missed(u)' /\ Behind_missed(u)'
    BY OtherThread DEF Sound
<1>3. Acyclic' <=> Acyclic
    BY LayoutOnly
<1> QED BY <1>1, <1>2, <1>3 DEF Sound

(* A rule asks.                                                            *)
LEMMA AskSound == ASSUME TypeOK, Sound, NEW t \in Threads, NEW k \in Keys, Ask(t, k) PROVE Sound'
<1>1. /\ stack'[t] = << >> /\ ret'[t] = "none" /\ asked'[t] = k /\ call'[t] = k
      /\ visiting'[t] = {} /\ verdict'[t] = "none"
    BY DEF Ask, Idle, TypeOK
<1>2. Linked(t)'
    BY <1>1, EmptySeq DEF Linked, Target
<1>3. Returned_sound(t)' /\ Return_missed(t)' /\ Behind_missed(t)'
    BY <1>1 DEF Returned_sound, Return_missed, Behind_missed
<1>4. Found_sound' /\ Roots_right' /\ (Acyclic => Missed_sound')
    BY LayoutOnly DEF Sound, Ask, Found_sound, Roots_right, Missed_sound
<1>5. \A u \in Threads \ {t} : Idles(u) /\ verdict'[u] = verdict[u]
    BY DEF Ask, TypeOK, Idles
<1>6. UNCHANGED <<leads, installed>> /\ Grows
    BY DEF Ask, Grows
<1> QED BY <1>2, <1>3, <1>4, <1>5, <1>6, OneThread

(* The thread's call comes back, with what is cached or, to a name it is   *)
(* resolving, with "no".                                                   *)
LEMMA AnswerSound ==
    ASSUME TypeOK, Sound, NEW t \in Threads, NEW v \in {"yes", "no"}, call[t] # NoKey,
           call' = [call EXCEPT ![t] = NoKey], ret' = [ret EXCEPT ![t] = v],
           UNCHANGED <<leads, installed, cache, rootCache, asked, stack, visiting, verdict>>,
           v = "yes" => IsModule(call[t]),
           Acyclic /\ v = "no" => ~IsModule(call[t])
    PROVE  Sound'
<1>1. call'[t] = NoKey /\ ret'[t] = v /\ call[t] = Target(t)
    BY DEF TypeOK, Sound, Linked
<1>2. Target(t)' = Target(t) /\ Waiting(t) /\ Waiting(t)'
    BY <1>1 DEF Target, Waiting, Lead
<1>3. \A j : Lead(t, j)' = Lead(t, j)
    BY DEF Lead
<1>4. Linked(t)'
    BY <1>1, <1>2, <1>3 DEF Sound, Linked
<1>5. Returned_sound(t)' /\ (Acyclic => Return_missed(t)')
    BY <1>1, <1>2, LayoutOnly DEF Returned_sound, Return_missed
<1>6. Acyclic => Behind_missed(t)'
    BY <1>2, LayoutOnly DEF Sound, Behind_missed, Behind
<1>7. Found_sound' /\ Roots_right' /\ (Acyclic => Missed_sound')
    BY LayoutOnly DEF Sound, Found_sound, Roots_right, Missed_sound
<1>8. \A u \in Threads \ {t} : Idles(u) /\ verdict'[u] = verdict[u]
    BY DEF TypeOK, Idles
<1>9. Grows
    BY DEF Grows
<1> QED BY <1>4, <1>5, <1>6, <1>7, <1>8, <1>9, OneThread

(* A name nobody has met: its call starts.                                 *)
LEMMA PushSound ==
    ASSUME TypeOK, Sound, NEW t \in Threads, Enter(t), cache[call[t]] = "unknown",
           call[t] \notin visiting[t]
    PROVE  Sound'
<1> DEFINE n == Len(stack[t])
           f == [key |-> call[t], at |-> 1]
<1>1. /\ call[t] # NoKey /\ call[t] \in Keys /\ ret[t] = "none" /\ call[t] = Target(t) /\ Waiting(t)
      /\ asked[t] \in Keys
    BY DEF Enter, TypeOK, Sound, Linked, Waiting
<1>2. /\ stack'[t] = Append(stack[t], f) /\ call'[t] = NoKey /\ visiting'[t] = visiting[t] \cup {call[t]}
      /\ UNCHANGED <<leads, installed, cache, rootCache, asked, verdict, ret>>
    <2>1. /\ call' = [call EXCEPT ![t] = NoKey]
          /\ visiting' = [visiting EXCEPT ![t] = @ \cup {call[t]}]
          /\ stack' = [stack EXCEPT ![t] = Append(@, f)]
          /\ UNCHANGED <<leads, installed, cache, rootCache, asked, verdict, ret>>
        BY DEF Enter
    <2> QED BY <2>1 DEF TypeOK
<1>3. ~Waiting(t)'
    BY <1>1, <1>2 DEF Waiting
<1>4. /\ n \in Nat /\ DOMAIN stack[t] = 1..n
      /\ Len(stack'[t]) = n + 1 /\ DOMAIN stack'[t] = 1..n + 1
      /\ \A j \in 1..n : stack'[t][j] = stack[t][j]
      /\ stack'[t][n + 1] = f /\ stack'[t] # << >>
    <2>1. f \in Frame
        BY <1>1 DEF Frame
    <2>2. stack[t] \in Seq(Frame) /\ n \in Nat /\ DOMAIN stack[t] = 1..n
        BY StackType
    <2>3. /\ stack'[t] \in Seq(Frame) /\ Len(stack'[t]) = n + 1
          /\ \A j \in 1..n : stack'[t][j] = stack[t][j]
          /\ stack'[t][n + 1] = f /\ stack'[t] # << >>
        BY <2>1, <2>2, <1>2, AppendProperties
    <2>4. DOMAIN stack'[t] = 1..n + 1
        BY <2>3, LenProperties
    <2> QED BY <2>2, <2>3, <2>4
<1> HIDE DEF n
<1>5. \A j \in 1..n : Lead(t, j)' = Lead(t, j)
    BY <1>2, <1>4 DEF Lead
<1>6. Linked(t)'
    <2>1. \A j \in DOMAIN stack'[t] : j < Len(stack'[t]) \/ Waiting(t)' => j \in 1..n
        BY <1>3, <1>4
    <2>2. \A j \in 1..n : /\ stack[t][j].at - 1 \in DOMAIN leads[stack[t][j].key]
                          /\ Lead(t, j) # Found
        BY <1>1, <1>4 DEF Sound, Linked
    <2>3. \A j \in 1..n : stack'[t][j + 1].key = Lead(t, j)'
        <3> TAKE j \in 1..n
        <3>1. CASE j = n
            <4>1. stack[t] # << >> /\ call[t] = Lead(t, n)
                BY <1>1, <1>4, <3>1, EmptySeq DEF Target, n
            <4> QED BY <4>1, <3>1, <1>4, <1>5
        <3>2. CASE j # n
            <4>1. j < Len(stack[t]) /\ j \in DOMAIN stack[t] /\ j + 1 \in 1..n
                BY <1>4, <3>2 DEF n
            <4>2. stack[t][j + 1].key = Lead(t, j)
                BY <4>1 DEF Sound, Linked
            <4> QED BY <4>1, <4>2, <1>4, <1>5
        <3> QED BY <3>1, <3>2
    <2>4. stack'[t][1].key = asked[t]
        <3>1. CASE stack[t] = << >>
            <4>1. call[t] = asked[t] /\ n = 0
                BY <3>1, <1>1, EmptySeq DEF Target, n
            <4> QED BY <4>1, <1>4
        <3>2. CASE stack[t] # << >>
            <4>1. stack[t][1].key = asked[t] /\ 1 \in 1..n
                BY <3>2, StackTop DEF Sound, Linked, n
            <4> QED BY <4>1, <1>4
        <3> QED BY <3>1, <3>2
    <2>5. \A k \in visiting'[t] : cache'[k] # "unknown" \/ \E j \in DOMAIN stack'[t] : stack'[t][j].key = k
        <3> TAKE k \in visiting'[t]
        <3>1. CASE k = call[t]
            <4>1. n + 1 \in DOMAIN stack'[t] /\ stack'[t][n + 1].key = k
                BY <1>4, <3>1
            <4> QED BY <4>1
        <3>2. CASE k \in visiting[t]
            <4>1. cache[k] # "unknown" \/ \E j \in 1..n : stack[t][j].key = k
                BY <3>2, <1>4 DEF Sound, Linked
            <4>2. \A j \in 1..n : j \in DOMAIN stack'[t]
                BY <1>4
            <4> QED BY <4>1, <4>2, <1>2, <1>4
        <3> QED BY <3>1, <3>2, <1>2
    <2>6. \A j \in 1..n : stack'[t][j] = stack[t][j] /\ leads' = leads
        BY <1>2, <1>4
    <2>7. \A j \in DOMAIN stack'[t] : j < Len(stack'[t]) \/ Waiting(t)' =>
             /\ stack'[t][j].at - 1 \in DOMAIN leads'[stack'[t][j].key]
             /\ Lead(t, j)' # Found
             /\ stack'[t][j + 1].key = Lead(t, j)'
        BY <2>1, <2>2, <2>3, <2>6, <1>5
    <2> QED BY <2>4, <2>5, <2>7, <1>1, <1>2, <1>3 DEF Linked
<1>7. Returned_sound(t)' /\ Return_missed(t)'
    BY <1>1, <1>2 DEF Returned_sound, Return_missed
<1>8. Acyclic => Behind_missed(t)'
    <2> SUFFICES ASSUME Acyclic, NEW j \in 1..n + 1, NEW i \in Behind(t, j)'
                 PROVE  leads[stack'[t][j].key][i] # Found /\ ~IsModule(leads[stack'[t][j].key][i])
        BY <1>2, <1>4, LayoutOnly DEF Behind_missed
    <2>1. CASE j = n + 1
        <3>1. i \in DOMAIN leads[call[t]] /\ i < 1
            BY <2>1, <1>2, <1>4 DEF Behind
        <3>2. leads[call[t]] \in Seq(Keys \cup {Found})
            BY <1>1 DEF TypeOK
        <3> QED BY <3>1, <3>2, LenProperties
    <2>2. CASE j # n + 1
        <3>1. j \in 1..n /\ j \in DOMAIN stack[t] /\ j < n + 1
            BY <2>2, <1>4
        <3>2. i \in Behind(t, j)
            BY <3>1, <1>1, <1>2, <1>4 DEF Behind
        <3> QED BY <3>1, <3>2, <1>4 DEF Sound, Behind_missed
    <2> QED BY <2>1, <2>2
<1>9. Found_sound' /\ Roots_right' /\ (Acyclic => Missed_sound')
    BY <1>2, LayoutOnly DEF Sound, Found_sound, Roots_right, Missed_sound
<1>10. \A u \in Threads \ {t} : Idles(u) /\ verdict'[u] = verdict[u]
    BY <1>1 DEF TypeOK, Idles, Enter
<1>11. Grows
    BY <1>2 DEF Grows
<1> QED BY <1>2, <1>6, <1>7, <1>8, <1>9, <1>10, <1>11, OneThread

(* A call has its result: it is kept, and its caller gets it.              *)
LEMMA PopSound ==
    ASSUME TypeOK, Sound, NEW t \in Threads, NEW v \in {"yes", "no"},
           call[t] = NoKey, stack[t] # << >>, Resolve(t, v),
           UNCHANGED <<leads, installed, rootCache, asked, call, visiting, verdict>>,
           v = "yes" => IsModule(Top(t).key),
           Acyclic /\ v = "no" => ~IsModule(Top(t).key)
    PROVE  Sound'
<1> DEFINE n == Len(stack[t])
<1>1. /\ cache' = [cache EXCEPT ![Top(t).key] = v]
      /\ ret'[t] = v /\ stack'[t] = Front(stack[t])
      /\ \A u \in Threads \ {t} : ret'[u] = ret[u] /\ stack'[u] = stack[u]
    BY DEF Resolve, TypeOK
<1>2. /\ n \in Nat \ {0} /\ DOMAIN stack[t] = 1..n /\ n \in DOMAIN stack[t]
      /\ Top(t) = stack[t][n] /\ Top(t).key \in Keys
    BY StackTop, StackType
<1>3. /\ Len(stack'[t]) = n - 1 /\ DOMAIN stack'[t] = 1..n - 1
      /\ \A j \in 1..n - 1 : stack'[t][j] = stack[t][j]
    <2>1. /\ stack'[t] \in Seq(Frame) /\ Len(stack'[t]) = n - 1
          /\ \A j \in 1..n - 1 : stack'[t][j] = stack[t][j]
        BY <1>1, StackFront
    <2>2. DOMAIN stack'[t] = 1..Len(stack'[t])
        BY <2>1, LenProperties
    <2> QED BY <2>1, <2>2
<1>4. stack'[t] = << >> <=> n = 1
    <2>1. stack'[t] \in Seq(Frame)
        BY <1>1, StackFront
    <2>2. stack'[t] = << >> <=> Len(stack'[t]) = 0
        BY <2>1, EmptySeq
    <2> QED BY <1>2, <1>3, <2>2
<1> HIDE DEF n
<1>5. \A j \in 1..n - 1 : Lead(t, j)' = Lead(t, j) /\ j \in DOMAIN stack[t] /\ j < Len(stack[t])
    <2> TAKE j \in 1..n - 1
    <2>1. stack'[t][j] = stack[t][j]
        BY <1>3
    <2>2. Lead(t, j)' = Lead(t, j)
        BY <2>1 DEF Lead
    <2>3. j \in DOMAIN stack[t] /\ j < n
        BY <1>2
    <2> QED BY <2>2, <2>3 DEF n
<1>6. Waiting(t)' /\ call'[t] = NoKey
    BY <1>1 DEF Waiting
<1>7. Target(t)' = Top(t).key
    <2>1. CASE n = 1
        <3>1. Target(t)' = asked[t]
            BY <2>1, <1>4 DEF Target
        <3>2. stack[t][1].key = asked[t]
            BY DEF Sound, Linked
        <3> QED BY <2>1, <3>1, <3>2, <1>2
    <2>2. CASE n # 1
        <3>1. n - 1 \in 1..n - 1
            BY <2>2, <1>2
        <3>2. Target(t)' = Lead(t, n - 1)
            BY <2>2, <3>1, <1>3, <1>4, <1>5 DEF Target
        <3>3. stack[t][n - 1 + 1].key = Lead(t, n - 1)
            BY <3>1, <1>5 DEF Sound, Linked
        <3> QED BY <3>2, <3>3, <1>2
    <2> QED BY <2>1, <2>2
<1>8. Grows /\ cache'[Top(t).key] = v
    BY <1>1, <1>2 DEF Grows, TypeOK
<1>9. Linked(t)'
    <2>1. \A j \in 1..n - 1 : /\ stack[t][j].at - 1 \in DOMAIN leads[stack[t][j].key]
                              /\ Lead(t, j) # Found
                              /\ stack[t][j + 1].key = Lead(t, j)
        BY <1>5 DEF Sound, Linked
    <2>2. \A j \in DOMAIN stack'[t] : /\ stack'[t][j].at - 1 \in DOMAIN leads'[stack'[t][j].key]
                                      /\ Lead(t, j)' # Found
        BY <2>1, <1>3, <1>5
    <2>3. \A j \in DOMAIN stack'[t] : j < Len(stack'[t]) => stack'[t][j + 1].key = Lead(t, j)'
        <3> SUFFICES ASSUME NEW j \in 1..n - 1, j < n - 1 PROVE stack'[t][j + 1].key = Lead(t, j)'
            BY <1>3
        <3>1. j + 1 \in 1..n - 1
            BY <1>2
        <3> QED BY <3>1, <2>1, <1>3, <1>5
    <2>4. stack'[t] # << >> => stack'[t][1].key = asked[t]
        <3> SUFFICES ASSUME stack'[t] # << >> PROVE stack'[t][1].key = asked[t]
            OBVIOUS
        <3>1. 1 \in 1..n - 1
            BY <1>2, <1>4
        <3>2. stack[t][1].key = asked[t]
            BY DEF Sound, Linked
        <3> QED BY <3>1, <3>2, <1>3
    <2>5. \A k \in visiting'[t] : cache'[k] # "unknown" \/ \E j \in DOMAIN stack'[t] : stack'[t][j].key = k
        <3> TAKE k \in visiting'[t]
        <3>0. k \in Keys /\ k \in visiting[t]
            BY DEF TypeOK
        <3>1. CASE cache[k] # "unknown"
            BY <3>0, <3>1, <1>8 DEF Grows
        <3>2. CASE cache[k] = "unknown"
            <4>1. PICK j \in 1..n : stack[t][j].key = k
                BY <3>0, <3>2, <1>2 DEF Sound, Linked
            <4>2. CASE j = n
                BY <4>1, <4>2, <1>2, <1>8
            <4>3. CASE j # n
                <5>1. j \in 1..n - 1
                    BY <4>3, <1>2
                <5> QED BY <5>1, <4>1, <1>3
            <4> QED BY <4>2, <4>3
        <3> QED BY <3>1, <3>2
    <2>6. asked[t] \in Keys /\ UNCHANGED asked
        BY DEF Sound, Linked
    <2> QED BY <2>2, <2>3, <2>4, <2>5, <2>6, <1>6 DEF Linked
<1>10. Returned_sound(t)' /\ (Acyclic => Return_missed(t)')
    BY <1>1, <1>7, LayoutOnly DEF Returned_sound, Return_missed
<1>11. Acyclic => Behind_missed(t)'
    <2> SUFFICES ASSUME Acyclic, NEW j \in 1..n - 1, NEW i \in Behind(t, j)'
                 PROVE  leads[stack'[t][j].key][i] # Found /\ ~IsModule(leads[stack'[t][j].key][i])
        BY <1>3, LayoutOnly DEF Behind_missed
    <2>1. i \in Behind(t, j)
        BY <1>3, <1>5, <1>6 DEF Behind
    <2>2. j \in DOMAIN stack[t] /\ stack'[t][j] = stack[t][j]
        BY <1>3, <1>5
    <2> QED BY <2>1, <2>2 DEF Sound, Behind_missed
<1>12. Found_sound' /\ Roots_right' /\ (Acyclic => Missed_sound')
    <2>1. \A k \in Keys : cache'[k] = IF k = Top(t).key THEN v ELSE cache[k]
        BY <1>1 DEF TypeOK
    <2> QED BY <2>1, LayoutOnly DEF Sound, Found_sound, Roots_right, Missed_sound
<1>13. \A u \in Threads \ {t} : Idles(u) /\ verdict'[u] = verdict[u]
    BY <1>1 DEF Idles
<1> QED BY <1>8, <1>9, <1>10, <1>11, <1>12, <1>13, OneThread

(* A call is made: it is answered at once, or it starts.                   *)
LEMMA EnterSound == ASSUME TypeOK, Sound, NEW t \in Threads, Enter(t) PROVE Sound'
<1>1. /\ call[t] # NoKey /\ call[t] \in Keys /\ cache[call[t]] \in {"yes", "no", "unknown"}
      /\ call' = [call EXCEPT ![t] = NoKey]
      /\ UNCHANGED <<leads, installed, cache, rootCache, asked, verdict>>
    BY DEF Enter, TypeOK
<1>2. CASE cache[call[t]] # "unknown"
    <2>1. PICK v \in {"yes", "no"} : v = cache[call[t]]
        BY <1>1, <1>2
    <2>2. ret' = [ret EXCEPT ![t] = v] /\ UNCHANGED <<stack, visiting>>
        BY <1>2, <2>1 DEF Enter
    <2>3. v = "yes" => IsModule(call[t])
        BY <1>1, <2>1 DEF Sound, Found_sound
    <2>4. Acyclic /\ v = "no" => ~IsModule(call[t])
        BY <1>1, <2>1 DEF Sound, Missed_sound
    <2> QED BY <1>1, <2>2, <2>3, <2>4, AnswerSound
<1>3. CASE cache[call[t]] = "unknown" /\ call[t] \in visiting[t]
    <2>1. ret' = [ret EXCEPT ![t] = "no"] /\ UNCHANGED <<stack, visiting>>
        BY <1>3 DEF Enter
    <2>2. PICK j \in DOMAIN stack[t] : stack[t][j].key = call[t]
        BY <1>3 DEF Sound, Linked
    <2>3. ~Acyclic
        BY <1>1, <2>2, NeverAgain DEF Sound
    <2> QED BY <1>1, <2>1, <2>3, AnswerSound
<1>4. CASE cache[call[t]] = "unknown" /\ call[t] \notin visiting[t]
    BY <1>4, PushSound
<1> QED BY <1>2, <1>3, <1>4

(* The innermost call goes on to its next lead.                            *)
LEMMA NextLeadSound ==
    ASSUME TypeOK, Sound, NEW t \in Threads, Follow(t),
           Top(t).at <= Len(leads[Top(t).key]), leads[Top(t).key][Top(t).at] # Found,
           call' = [call EXCEPT ![t] = leads[Top(t).key][Top(t).at]],
           stack' = [stack EXCEPT ![t][Len(stack[t])].at = @ + 1],
           UNCHANGED <<cache, ret>>
    PROVE  Sound'
<1>0. PICK n \in Nat : n = Len(stack[t])
    BY StackType
<1> DEFINE key == Top(t).key
           at == Top(t).at
           f == [stack[t][n] EXCEPT !.at = @ + 1]
<1>1. /\ call[t] = NoKey /\ ret[t] = "none" /\ ret'[t] = "none" /\ ~Waiting(t) /\ stack[t] # << >>
      /\ UNCHANGED <<leads, installed, rootCache, asked, visiting, verdict>>
    BY DEF Follow, Waiting
<1>2. /\ n \in Nat \ {0} /\ DOMAIN stack[t] = 1..n /\ n \in 1..n
      /\ Top(t) = stack[t][n] /\ key \in Keys /\ at \in Nat \ {0} /\ stack[t][n] \in Frame
    BY <1>0, <1>1, StackTop, StackType
<1>3. leads[key] \in Seq(Keys \cup {Found}) /\ at \in DOMAIN leads[key] /\ leads[key][at] \in Keys
    <2>1. leads[key] \in Seq(Keys \cup {Found})
        BY <1>2 DEF TypeOK
    <2>2. at \in 1..Len(leads[key]) /\ Len(leads[key]) \in Nat /\ DOMAIN leads[key] = 1..Len(leads[key])
        BY <1>2, <2>1, LenProperties
    <2>3. leads[key][at] \in Keys \cup {Found}
        BY <2>1, <2>2, ElementOfSeq
    <2> QED BY <2>1, <2>2, <2>3
<1>4. /\ DOMAIN stack'[t] = 1..n /\ Len(stack'[t]) = n /\ stack'[t] # << >>
      /\ \A j \in 1..n : j # n => stack'[t][j] = stack[t][j]
      /\ stack'[t][n] = f
    <2>1. f \in Frame
        <3> QED BY <1>2 DEF Frame
    <2>2. stack' = [stack EXCEPT ![t] = [stack[t] EXCEPT ![n] = f]]
        BY <1>0
    <2>3. stack'[t] = [stack[t] EXCEPT ![n] = f]
        BY <2>2 DEF TypeOK
    <2> HIDE DEF f
    <2>4. stack'[t] \in Seq(Frame) /\ Len(stack'[t]) = n /\ DOMAIN stack'[t] = 1..n
        <3>1. stack[t] \in Seq(Frame) /\ n \in 1..Len(stack[t])
            BY <1>0, <1>2, StackType
        <3>2. [stack[t] EXCEPT ![n] = f] \in Seq(Frame)
            BY <2>1, <3>1, ExceptSeq
        <3>3. DOMAIN stack'[t] = 1..n
            BY <2>3, <1>2
        <3>4. Len(stack'[t]) = n
            BY <2>3, <3>2, <3>3, <1>2, LenProperties
        <3> QED BY <2>3, <3>2, <3>3, <3>4
    <2>5. \A j \in 1..n : stack'[t][j] = IF j = n THEN f ELSE stack[t][j]
        BY <2>3, <1>2
    <2> QED BY <2>4, <2>5, <1>2, EmptySeq
<1>5. /\ stack'[t][n].key = key /\ stack'[t][n].at = at + 1
      /\ stack'[t][n].at - 1 = at
    BY <1>2, <1>4 DEF Frame
<1> HIDE DEF f
<1>6. \A j \in 1..n : stack'[t][j].key = stack[t][j].key
    BY <1>2, <1>4, <1>5
<1>7. Lead(t, n)' = leads[key][at] /\ \A j \in 1..n : j # n => Lead(t, j)' = Lead(t, j)
    <2>1. Lead(t, n)' = leads[key][at]
        BY <1>1, <1>5 DEF Lead
    <2>2. \A j \in 1..n : j # n => Lead(t, j)' = Lead(t, j)
        BY <1>1, <1>4 DEF Lead
    <2> QED BY <2>1, <2>2
<1>8. call'[t] = leads[key][at] /\ call'[t] # NoKey /\ Target(t)' = call'[t] /\ Waiting(t)'
    <2>1. call'[t] = leads[key][at]
        BY DEF TypeOK
    <2>2. call'[t] # NoKey
        BY <2>1, <1>3, ProbeAssumption
    <2>3. Target(t)' = Lead(t, n)'
        <3>1. Len(stack'[t]) = n /\ stack'[t] # << >>
            BY <1>4
        <3> QED BY <3>1 DEF Target, Lead
    <2> QED BY <2>1, <2>2, <2>3, <1>7 DEF Waiting
<1>9. Linked(t)'
    <2>1. \A j \in 1..n : /\ stack'[t][j].at - 1 \in DOMAIN leads'[stack'[t][j].key]
                          /\ Lead(t, j)' # Found
        <3> TAKE j \in 1..n
        <3>1. CASE j = n
            BY <3>1, <1>1, <1>3, <1>5, <1>7
        <3>2. CASE j # n
            <4>1. j < Len(stack[t]) /\ j \in DOMAIN stack[t]
                BY <3>2, <1>0, <1>2
            <4> QED BY <4>1, <3>2, <1>1, <1>4, <1>7 DEF Sound, Linked
        <3> QED BY <3>1, <3>2
    <2>2. \A j \in 1..n : j < n => stack'[t][j + 1].key = Lead(t, j)'
        <3> SUFFICES ASSUME NEW j \in 1..n, j < n PROVE stack'[t][j + 1].key = Lead(t, j)'
            OBVIOUS
        <3>1. j < Len(stack[t]) /\ j \in DOMAIN stack[t] /\ j + 1 \in 1..n /\ j # n
            BY <1>0, <1>2
        <3>2. stack[t][j + 1].key = Lead(t, j)
            BY <3>1 DEF Sound, Linked
        <3> QED BY <3>1, <3>2, <1>6, <1>7
    <2>3. stack'[t][1].key = asked[t] /\ asked[t] \in Keys
        <3>1. stack[t][1].key = asked[t] /\ asked[t] \in Keys /\ 1 \in 1..n
            BY <1>1, <1>2 DEF Sound, Linked
        <3> QED BY <3>1, <1>6
    <2>4. \A k \in visiting'[t] : cache'[k] # "unknown" \/ \E j \in DOMAIN stack'[t] : stack'[t][j].key = k
        BY <1>1, <1>2, <1>4, <1>6 DEF Sound, Linked
    <2> QED BY <2>1, <2>2, <2>3, <2>4, <1>1, <1>4, <1>8 DEF Linked
<1>10. Returned_sound(t)' /\ Return_missed(t)'
    BY <1>1 DEF Returned_sound, Return_missed
<1>11. Acyclic => Behind_missed(t)'
    <2> SUFFICES ASSUME Acyclic, NEW j \in 1..n, NEW i \in Behind(t, j)'
                 PROVE  leads[stack'[t][j].key][i] # Found /\ ~IsModule(leads[stack'[t][j].key][i])
        BY <1>1, <1>4, LayoutOnly DEF Behind_missed
    <2>1. i \in Behind(t, j)
        <3>1. /\ i \in DOMAIN leads[stack[t][j].key] /\ i < stack'[t][j].at
              /\ ~(i = stack'[t][j].at - 1)  \/ ~(j < n \/ Waiting(t)')
            BY <1>1, <1>4, <1>6 DEF Behind
        <3>2. CASE j = n
            <4>1. i \in 1..Len(leads[key]) /\ Len(leads[key]) \in Nat
                BY <3>1, <3>2, <1>2, <1>3, LenProperties
            <4>2. i < at /\ ~(j < Len(stack[t]) \/ Waiting(t))
                BY <3>1, <3>2, <4>1, <1>0, <1>1, <1>2, <1>5, <1>8
            <4> QED BY <3>1, <3>2, <4>2, <1>2 DEF Behind
        <3>3. CASE j # n
            <4>1. j < Len(stack[t]) /\ stack'[t][j] = stack[t][j]
                BY <3>3, <1>0, <1>2, <1>4
            <4> QED BY <3>1, <4>1, <1>8 DEF Behind
        <3> QED BY <3>2, <3>3
    <2>2. j \in DOMAIN stack[t] /\ stack'[t][j].key = stack[t][j].key
        BY <1>2, <1>6
    <2> QED BY <2>1, <2>2 DEF Sound, Behind_missed
<1>12. Found_sound' /\ Roots_right' /\ (Acyclic => Missed_sound')
    BY <1>1, LayoutOnly DEF Sound, Found_sound, Roots_right, Missed_sound
<1>13. \A u \in Threads \ {t} : Idles(u) /\ verdict'[u] = verdict[u]
    BY <1>1 DEF TypeOK, Idles
<1>14. Grows
    BY DEF Grows
<1> QED BY <1>1, <1>9, <1>10, <1>11, <1>12, <1>13, <1>14, OneThread

(* The innermost call looks at its next lead, or has none left.            *)
LEMMA FollowSound == ASSUME TypeOK, Sound, NEW t \in Threads, Follow(t) PROVE Sound'
<1> DEFINE n == Len(stack[t])
           key == Top(t).key
           at == Top(t).at
<1>1. /\ call[t] = NoKey /\ ret[t] = "none" /\ ~Waiting(t) /\ stack[t] # << >>
      /\ UNCHANGED <<leads, installed, rootCache, asked, visiting, verdict>>
    BY DEF Follow, Waiting
<1>2. n \in Nat \ {0} /\ n \in DOMAIN stack[t] /\ Top(t) = stack[t][n] /\ key \in Keys /\ at \in Nat \ {0}
    BY <1>1, StackTop
<1>3. Len(leads[key]) \in Nat /\ DOMAIN leads[key] = 1..Len(leads[key])
    <2>1. leads[key] \in Seq(Keys \cup {Found})
        BY <1>2 DEF TypeOK
    <2> QED BY <2>1, LenProperties
<1>4. CASE at > Len(leads[key]) /\ Resolve(t, "no") /\ UNCHANGED call
    <2>1. \A i \in DOMAIN leads[key] : i \in Behind(t, n)
        BY <1>1, <1>2, <1>3, <1>4 DEF Behind
    <2>2. Acyclic => ~IsModule(key)
        <3> SUFFICES ASSUME Acyclic PROVE ~IsModule(key)
            OBVIOUS
        <3>1. \A i \in DOMAIN leads[key] : leads[key][i] # Found /\ ~IsModule(leads[key][i])
            BY <2>1, <1>2 DEF Sound, Behind_missed
        <3> QED BY <3>1, <1>2, LeadsNowhere
    <2> QED BY <2>2, <1>1, <1>4, PopSound
<1>5. CASE at <= Len(leads[key]) /\ leads[key][at] = Found /\ Resolve(t, "yes") /\ UNCHANGED call
    <2>1. at \in DOMAIN leads[key]
        BY <1>2, <1>3, <1>5
    <2>2. IsModule(key)
        BY <2>1, <1>2, <1>5, LeadsToModule
    <2> QED BY <2>2, <1>1, <1>5, PopSound
<1>6. CASE /\ at <= Len(leads[key]) /\ leads[key][at] # Found
           /\ call' = [call EXCEPT ![t] = leads[key][at]]
           /\ stack' = [stack EXCEPT ![t][Len(stack[t])].at = @ + 1]
           /\ UNCHANGED <<cache, ret>>
    BY <1>6, NextLeadSound
<1> QED BY <1>4, <1>5, <1>6 DEF Follow

(* A re-export has been resolved for its caller.                           *)
LEMMA ReturnSound == ASSUME TypeOK, Sound, NEW t \in Threads, Return(t) PROVE Sound'
<1> DEFINE n == Len(stack[t])
           f == stack[t][n]
<1>1. /\ ret[t] # "none" /\ stack[t] # << >> /\ Waiting(t) /\ call[t] = NoKey
      /\ UNCHANGED <<leads, installed, rootCache, asked, call, visiting, verdict>>
    BY DEF Return, Waiting, Sound, Linked
<1>2. /\ n \in Nat \ {0} /\ n \in DOMAIN stack[t] /\ Top(t) = f /\ f.key \in Keys /\ f.at \in Nat \ {0}
      /\ DOMAIN stack[t] = 1..n
    BY <1>1, StackTop, StackType
<1>3. f.at - 1 \in DOMAIN leads[f.key] /\ Lead(t, n) # Found
    BY <1>1, <1>2 DEF Sound, Linked
<1>4. Target(t) = leads[f.key][f.at - 1]
    BY <1>1 DEF Target, Lead
<1>5. CASE ret[t] = "yes" /\ Resolve(t, "yes")
    <2>1. IsModule(leads[f.key][f.at - 1])
        BY <1>4, <1>5 DEF Sound, Returned_sound
    <2>2. IsModule(f.key)
        BY <2>1, <1>2, <1>3, LeadsToModule
    <2> QED BY <2>2, <1>1, <1>2, <1>5, PopSound
<1>6. CASE ret[t] = "no" /\ ret' = [ret EXCEPT ![t] = "none"] /\ UNCHANGED <<cache, stack>>
    <2>1. ret'[t] = "none" /\ ~Waiting(t)'
        BY <1>1, <1>6 DEF TypeOK, Waiting
    <2>2. \A j : Lead(t, j)' = Lead(t, j)
        BY <1>1, <1>6 DEF Lead
    <2>3. Linked(t)'
        BY <2>1, <2>2, <1>1, <1>6 DEF Sound, Linked, Waiting
    <2>4. Returned_sound(t)' /\ Return_missed(t)'
        BY <2>1 DEF Returned_sound, Return_missed
    <2>5. Acyclic => Behind_missed(t)'
        <3> SUFFICES ASSUME Acyclic, NEW j \in DOMAIN stack[t], NEW i \in Behind(t, j)'
                     PROVE  leads[stack[t][j].key][i] # Found /\ ~IsModule(leads[stack[t][j].key][i])
            BY <1>1, <1>6, LayoutOnly DEF Behind_missed
        <3>1. i \in DOMAIN leads[stack[t][j].key] /\ i < stack[t][j].at
            BY <1>1, <1>6 DEF Behind
        <3>2. CASE i = stack[t][j].at - 1 /\ j < Len(stack[t])
            BY <3>1, <3>2, <1>1, <1>6, <2>1 DEF Behind
        <3>3. CASE i = stack[t][j].at - 1 /\ ~(j < Len(stack[t]))
            <4>1. j = n
                BY <3>3, <1>2
            <4>2. i = f.at - 1 /\ leads[f.key][i] = Lead(t, n)
                BY <4>1, <3>3 DEF Lead
            <4>3. ~IsModule(leads[f.key][i])
                BY <4>2, <1>4, <1>6 DEF Sound, Return_missed
            <4> QED BY <4>1, <4>2, <4>3, <1>3
        <3>4. CASE i # stack[t][j].at - 1
            <4>1. i \in Behind(t, j)
                BY <3>1, <3>4 DEF Behind
            <4> QED BY <4>1 DEF Sound, Behind_missed
        <3> QED BY <3>2, <3>3, <3>4
    <2>6. Found_sound' /\ Roots_right' /\ (Acyclic => Missed_sound')
        BY <1>1, <1>6, LayoutOnly DEF Sound, Found_sound, Roots_right, Missed_sound
    <2>7. \A u \in Threads \ {t} : Idles(u) /\ verdict'[u] = verdict[u]
        BY <1>1, <1>6 DEF TypeOK, Idles
    <2>8. Grows
        BY <1>6 DEF Grows
    <2> QED BY <1>1, <2>3, <2>4, <2>5, <2>6, <2>7, <2>8, OneThread
<1> QED BY <1>5, <1>6 DEF Return

(* The outermost call has returned: the verdict.                           *)
LEMMA CheckSound == ASSUME TypeOK, Sound, NEW t \in Threads, Check(t) PROVE Sound'
<1>1. /\ ret[t] # "none" /\ stack[t] = << >> /\ Waiting(t) /\ call[t] = NoKey /\ asked[t] \in Keys
      /\ ret' = [ret EXCEPT ![t] = "none"]
      /\ UNCHANGED <<leads, installed, cache, asked, call, stack, visiting>>
    BY DEF Check, Waiting, Sound, Linked
<1>2. ret'[t] = "none" /\ ~Waiting(t)'
    BY <1>1 DEF TypeOK, Waiting
<1>3. Linked(t)'
    BY <1>1, <1>2, EmptySeq DEF Sound, Linked
<1>4. Returned_sound(t)' /\ Return_missed(t)' /\ Behind_missed(t)'
    BY <1>1, <1>2, EmptySeq DEF Returned_sound, Return_missed, Behind_missed
<1>5. Roots_right'
    <2> DEFINE root == RootOf[asked[t]]
               exists == IF rootCache[root] # "unknown" THEN rootCache[root] ELSE YesNo(root \in installed)
    <2>1. root \in Roots
        BY <1>1, ProbeAssumption
    <2>2. exists = YesNo(root \in installed)
        BY <2>1 DEF Sound, Roots_right
    <2>3. rootCache' = rootCache \/ rootCache' = [rootCache EXCEPT ![root] = exists]
        BY DEF Check
    <2> HIDE DEF root, exists
    <2> QED BY <1>1, <2>1, <2>2, <2>3 DEF Sound, Roots_right, TypeOK
<1>6. Found_sound' /\ (Acyclic => Missed_sound')
    BY <1>1, LayoutOnly DEF Sound, Found_sound, Missed_sound
<1>7. \A u \in Threads \ {t} : Idles(u) /\ verdict'[u] = verdict[u]
    BY <1>1 DEF TypeOK, Idles, Check
<1>8. Grows
    BY <1>1 DEF Grows
<1> QED BY <1>1, <1>3, <1>4, <1>5, <1>6, <1>7, <1>8, OneThread

-----------------------------------------------------------------------------
(* A verdict is right when it is given, and stays so: nothing it depends   *)
(* on changes before the thread is asked again.                            *)
LEMMA StepVerdicts == ASSUME ProbeInv, [Next]_vars PROVE VerdictsRight'
<1> DEFINE Right(u) == verdict[u] = IF IsModule(asked[u]) THEN "Module"
                                    ELSE IF RootOf[asked[u]] \in installed THEN "NotModule" ELSE "Unknown"
<1> SUFFICES ASSUME Acyclic, NEW u \in Threads, verdict'[u] # "none" PROVE Right(u)'
    <2>1. UNCHANGED leads
        BY DEF Next, Work, Ask, Enter, Follow, Return, Check, vars, task
    <2> QED BY <2>1, LayoutOnly DEF VerdictsRight
<1>1. UNCHANGED <<leads, installed>>
    BY DEF Next, Work, Ask, Enter, Follow, Return, Check, vars, task
<1>2. CASE verdict'[u] = verdict[u] /\ asked'[u] = asked[u]
    <2>1. Right(u)
        BY <1>2 DEF ProbeInv, VerdictsRight
    <2> QED BY <2>1, <1>1, <1>2, LayoutOnly
<1>3. ASSUME NEW t \in Threads, NEW k \in Keys, Ask(t, k) PROVE Right(u)'
    <2>1. CASE u = t
        BY <2>1, <1>3 DEF ProbeInv, TypeOK, Ask
    <2>2. CASE u # t
        BY <2>2, <1>2, <1>3 DEF ProbeInv, TypeOK, Ask
    <2> QED BY <2>1, <2>2
<1>4. ASSUME NEW t \in Threads, Enter(t) \/ Follow(t) \/ Return(t) PROVE Right(u)'
    BY <1>2, <1>4 DEF Enter, Follow, Return
<1>5. ASSUME NEW t \in Threads, Check(t) PROVE Right(u)'
    <2>1. CASE u # t
        BY <2>1, <1>2, <1>5 DEF ProbeInv, TypeOK, Check
    <2>2. CASE u = t
        <3>1. /\ ret[t] \in {"yes", "no"} /\ Target(t) = asked[t] /\ asked'[t] = asked[t] /\ asked[t] \in Keys
            BY <1>5 DEF ProbeInv, TypeOK, Check, Target, Sound, Linked, Waiting
        <3>2. CASE ret[t] = "yes"
            <4>1. IsModule(asked[t])
                BY <3>1, <3>2 DEF ProbeInv, Sound, Returned_sound
            <4>2. verdict'[t] = "Module"
                BY <3>2, <1>5 DEF ProbeInv, TypeOK, Check
            <4> QED BY <4>1, <4>2, <2>2, <3>1, <1>1, LayoutOnly
        <3>3. CASE ret[t] = "no"
            <4>1. ~IsModule(asked[t])
                BY <3>1, <3>3 DEF ProbeInv, Sound, Return_missed
            <4>2. RootOf[asked[t]] \in Roots
                BY <3>1, ProbeAssumption
            <4>3. verdict'[t] = IF RootOf[asked[t]] \in installed THEN "NotModule" ELSE "Unknown"
                BY <3>3, <4>2, <1>5 DEF ProbeInv, TypeOK, Check, Sound, Roots_right, YesNo
            <4> QED BY <4>1, <4>3, <2>2, <3>1, <1>1, LayoutOnly
        <3> QED BY <3>1, <3>2, <3>3
    <2> QED BY <2>1, <2>2
<1>6. CASE UNCHANGED vars
    BY <1>2, <1>6 DEF vars, task
<1> QED BY <1>3, <1>4, <1>5, <1>6 DEF Next, Work

-----------------------------------------------------------------------------
(* The invariant holds before the first question.                          *)
LEMMA InitInv == Init => ProbeInv
<1> SUFFICES ASSUME Init PROVE ProbeInv
    OBVIOUS
<1>1. TypeOK
    <2>1. << >> \in Seq([key : Keys, at : Nat \ {0}])
        BY EmptySeq
    <2> QED BY <2>1, ProbeAssumption DEF Init, TypeOK
<1>2. Sound
    <2>1. \A t \in Threads : Linked(t)
        BY EmptySeq DEF Init, Linked, Waiting
    <2>2. \A t \in Threads : Returned_sound(t) /\ Return_missed(t) /\ Behind_missed(t)
        BY EmptySeq DEF Init, Returned_sound, Return_missed, Behind_missed
    <2>3. Found_sound /\ Missed_sound /\ Roots_right
        BY DEF Init, Found_sound, Missed_sound, Roots_right
    <2> QED BY <2>1, <2>2, <2>3 DEF Sound
<1>3. VerdictsRight
    BY DEF Init, VerdictsRight
<1> QED BY <1>1, <1>2, <1>3 DEF ProbeInv

(* And every step keeps it.                                                *)
LEMMA NextInv == ProbeInv /\ [Next]_vars => ProbeInv'
<1> SUFFICES ASSUME ProbeInv, [Next]_vars PROVE ProbeInv'
    OBVIOUS
<1>1. TypeOK'
    BY StepTypes DEF ProbeInv
<1>2. Sound'
    <2>1. ASSUME NEW t \in Threads, NEW k \in Keys, Ask(t, k) PROVE Sound'
        BY <2>1, AskSound DEF ProbeInv
    <2>2. ASSUME NEW t \in Threads, Work(t) PROVE Sound'
        BY <2>2, EnterSound, FollowSound, ReturnSound, CheckSound DEF ProbeInv, Work
    <2>3. CASE UNCHANGED vars
        <3>1. UNCHANGED <<leads, installed, cache, rootCache, verdict>> /\ \A u \in Threads : Idles(u)
            BY <2>3 DEF vars, task, Idles
        <3>2. Grows
            BY <3>1 DEF Grows
        <3>3. Found_sound' /\ Roots_right' /\ (Acyclic => Missed_sound')
            BY <3>1, LayoutOnly DEF ProbeInv, Sound, Found_sound, Roots_right, Missed_sound
        <3>4. \A u \in Threads : Linked(u)' /\ Returned_sound(u)'
            BY <3>1, <3>2, OtherThread DEF ProbeInv, Sound
        <3>5. Acyclic => \A u \in Threads : Return_missed(u)' /\ Behind_missed(u)'
            BY <3>1, <3>2, OtherThread DEF ProbeInv, Sound
        <3> QED BY <3>1, <3>3, <3>4, <3>5, LayoutOnly DEF Sound
    <2> QED BY <2>1, <2>2, <2>3 DEF ProbeInv, Next
<1>3. VerdictsRight'
    BY StepVerdicts
<1> QED BY <1>1, <1>2, <1>3 DEF ProbeInv

(* So it holds throughout.                                                 *)
LEMMA Invariance == Spec => []ProbeInv
BY InitInv, NextInv, PTL DEF Spec

(* The variables of the probe keep their types, for any number of threads. *)
THEOREM ProbeTypeCorrect == Spec => []TypeOK
<1>1. ProbeInv => TypeOK
    BY DEF ProbeInv
<1> QED BY <1>1, Invariance, PTL

(* What the shared memo calls a module leads to a file, whichever threads  *)
(* resolved it, in whatever order, and however the re-exports loop.        *)
THEOREM FoundAlwaysModule == Spec => []FoundIsModule
<1>1. ProbeInv => FoundIsModule
    BY DEF ProbeInv, Sound, Found_sound, FoundIsModule
<1> QED BY <1>1, Invariance, PTL

(* When the re-exports are not circular, every verdict of                  *)
(* ModuleProbe::check is the right one.                                    *)
THEOREM VerdictsAlwaysRight == Spec => []VerdictsRight
<1>1. ProbeInv => VerdictsRight
    BY DEF ProbeInv
<1> QED BY <1>1, Invariance, PTL
=============================================================================
