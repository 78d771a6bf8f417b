------------------------- MODULE CamResourcesProofs --------------------------
(***************************************************************************)
(* Proofs about CamResources, for paths, texts and byte strings of any     *)
(* length.  Every conversion is a loop: the lemmas about loops go by       *)
(* induction on the position, and each algorithm gets an invariant of its  *)
(* loop, which compares it with its reference definition.                  *)
(***************************************************************************)
EXTENDS CamResources, SequenceTheorems, WellFoundedInduction, TLAPS

-----------------------------------------------------------------------------
(* Loops                                                                    *)

LEMMA LeastNumber ==
  ASSUME NEW S \in SUBSET Nat, S # {}
  PROVE  \E x \in S : \A y \in S : x <= y
<1> DEFINE less == {ss \in Nat \X Nat : ss[1] < ss[2]}
<1>1. IsWellFoundedOn(less, Nat)
  BY NatLessThanWellFounded DEF OpToRel
<1> HIDE DEF less
<1>2. PICK x \in S : \A y \in S : <<y, x>> \notin less
  BY <1>1, WFMin
<1>3. ASSUME NEW y \in S PROVE x <= y
  <2>1. <<y, x>> \in Nat \X Nat /\ ~ (y < x)
    BY <1>2 DEF less
  <2> QED
    BY <2>1
<1> QED
  BY <1>3

\* Induction up to n, for a set of positions.
LEMMA UpTo ==
  ASSUME NEW n \in Nat, NEW S, 0 \in S, \A i \in 1..n : i - 1 \in S => i \in S
  PROVE  \A i \in 0..n : i \in S
<1> DEFINE Without == {i \in 0..n : i \notin S}
<1>1. SUFFICES ASSUME Without # {} PROVE FALSE
  OBVIOUS
<1>2. PICK k \in Without : \A j \in Without : k <= j
  <2>1. Without \in SUBSET Nat
    OBVIOUS
  <2> QED
    BY <1>1, <2>1, LeastNumber
<1>3. k \in 1..n /\ k - 1 \in 0..n
  BY <1>2
<1>4. k - 1 \in S
  BY <1>2, <1>3
<1> QED
  BY <1>2, <1>3, <1>4

\* The same from the end down.
LEMMA DownFrom ==
  ASSUME NEW n \in Nat, NEW S, n \in S, \A i \in 1..n : i \in S => i - 1 \in S
  PROVE  \A i \in 0..n : i \in S
<1> DEFINE T == {i \in 0..n : n - i \in S}
<1>1. 0 \in T
  OBVIOUS
<1>2. ASSUME NEW i \in 1..n, i - 1 \in T PROVE i \in T
  <2>1. n - (i - 1) \in S /\ n - (i - 1) \in 1..n
    BY <1>2
  <2>2. n - i \in S
    <3>1. (n - (i - 1)) - 1 \in S
      BY <2>1
    <3>2. (n - (i - 1)) - 1 = n - i
      OBVIOUS
    <3> QED
      BY <3>1, <3>2
  <2> QED
    BY <2>2
<1> HIDE DEF T
<1>3. \A i \in 0..n : i \in T
  BY <1>1, <1>2, UpTo
<1>4. ASSUME NEW i \in 0..n PROVE i \in S
  <2>1. n - i \in T
    BY <1>3
  <2>2. n - (n - i) \in S
    BY <2>1 DEF T
  <2> QED
    BY <2>2
<1> QED
  BY <1>4

IsRun(f, step, base, items, n) ==
  f = [i \in 0..n |-> IF i = 0 THEN base ELSE step[<<f[i - 1], items[i]>>]]

LEMMA RunExists ==
  ASSUME NEW step, NEW base, NEW items, NEW n \in Nat
  PROVE  \E f : IsRun(f, step, base, items, n)
<1> DEFINE S == {k \in Nat : \E f : IsRun(f, step, base, items, k)}
<1>1. 0 \in S
  <2> DEFINE f == [i \in 0..0 |-> base]
  <2>1. f = [i \in 0..0 |-> IF i = 0 THEN base ELSE step[<<f[i - 1], items[i]>>]]
    OBVIOUS
  <2> QED
    BY <2>1 DEF IsRun
<1>2. ASSUME NEW k \in 1..n, k - 1 \in S PROVE k \in S
  <2>1. PICK f : IsRun(f, step, base, items, k - 1)
    BY <1>2
  <2> DEFINE g == [i \in 0..k |-> IF i = k THEN step[<<f[k - 1], items[k]>>] ELSE f[i]]
  <2>2. ASSUME NEW i \in 0..k
        PROVE  g[i] = IF i = 0 THEN base ELSE step[<<g[i - 1], items[i]>>]
    <3>1. CASE i = 0
      BY <2>1, <3>1 DEF IsRun
    <3>2. CASE i # 0 /\ i # k
      <4>1. i \in 0..(k - 1) /\ i - 1 \in 0..k /\ i - 1 # k
        BY <3>2
      <4>2. f[i] = step[<<f[i - 1], items[i]>>]
        BY <2>1, <3>2, <4>1 DEF IsRun
      <4> QED
        BY <3>2, <4>1, <4>2
    <3>3. CASE i # 0 /\ i = k
      <4>1. i - 1 \in 0..k /\ i - 1 # k
        BY <3>3
      <4> QED
        BY <3>3, <4>1
    <3> QED
      BY <3>1, <3>2, <3>3
  <2>3. IsRun(g, step, base, items, k)
    BY <2>2 DEF IsRun
  <2> QED
    BY <2>3
<1> HIDE DEF S
<1>3. \A i \in 0..n : i \in S
  BY <1>1, <1>2, UpTo
<1> QED
  BY <1>3 DEF S

LEMMA RunSteps ==
  ASSUME NEW step, NEW base, NEW items, Len(items) \in Nat
  PROVE  /\ Run(step, base, items)[0] = base
         /\ \A i \in 1..Len(items) :
              Run(step, base, items)[i] = step[<<Run(step, base, items)[i - 1], items[i]>>]
<1>1. \E f : IsRun(f, step, base, items, Len(items))
  BY RunExists
<1>2. IsRun(Run(step, base, items), step, base, items, Len(items))
  BY <1>1 DEF IsRun, Run
<1> QED
  BY <1>2 DEF IsRun

LEMMA RunType ==
  ASSUME NEW T, NEW E, NEW step, NEW base \in T, NEW items \in Seq(E),
         \A a \in T, e \in E : step[<<a, e>>] \in T
  PROVE  \A i \in 0..Len(items) : Run(step, base, items)[i] \in T
<1> DEFINE r == Run(step, base, items)
           S == {i \in 0..Len(items) : r[i] \in T}
<1>1. Len(items) \in Nat /\ \A i \in 1..Len(items) : items[i] \in E
  BY LenProperties, ElementOfSeq
<1>2. r[0] = base /\ \A i \in 1..Len(items) : r[i] = step[<<r[i - 1], items[i]>>]
  BY <1>1, RunSteps
<1> HIDE DEF r
<1>3. 0 \in S
  BY <1>1, <1>2
<1>4. ASSUME NEW i \in 1..Len(items), i - 1 \in S PROVE i \in S
  <2>1. r[i - 1] \in T /\ items[i] \in E /\ i \in 0..Len(items)
    BY <1>1, <1>4
  <2>2. step[<<r[i - 1], items[i]>>] \in T
    BY <2>1
  <2> QED
    BY <1>2, <2>1, <2>2
<1> HIDE DEF S
<1>5. \A i \in 0..Len(items) : i \in S
  BY <1>1, <1>3, <1>4, UpTo
<1> QED
  BY <1>5 DEF S, r

LEMMA LoopType ==
  ASSUME NEW T, NEW E, NEW step, NEW base \in T, NEW items \in Seq(E),
         \A a \in T, e \in E : step[<<a, e>>] \in T
  PROVE  Loop(step, base, items) \in T
<1>1. Len(items) \in 0..Len(items)
  BY LenProperties
<1> QED
  BY <1>1, RunType DEF Loop

\* A run over two sequences, one after the other.
LEMMA LoopOfConcat ==
  ASSUME NEW E, NEW step, NEW base, NEW s \in Seq(E), NEW t \in Seq(E)
  PROVE  Loop(step, base, s \o t) = Loop(step, Loop(step, base, s), t)
<1> DEFINE u == s \o t
           r == Run(step, base, u)
           p == Run(step, base, s)
           q == Run(step, p[Len(s)], t)
           S == {i \in 0..Len(s) : r[i] = p[i]}
           R == {i \in 0..Len(t) : r[Len(s) + i] = q[i]}
<1>1. /\ Len(s) \in Nat /\ Len(t) \in Nat /\ Len(u) = Len(s) + Len(t)
      /\ \A i \in 1..Len(s) : u[i] = s[i]
      /\ \A i \in 1..Len(t) : u[Len(s) + i] = t[i]
  BY ConcatProperties, LenProperties
<1> HIDE DEF u
<1>2. r[0] = base /\ p[0] = base /\ q[0] = p[Len(s)]
  <2>1. Len(u) \in Nat
    BY <1>1
  <2> QED
    BY <1>1, <2>1, RunSteps
<1>3. \A i \in 1..Len(u) : r[i] = step[<<r[i - 1], u[i]>>]
  <2>1. Len(u) \in Nat
    BY <1>1
  <2> QED
    BY <2>1, RunSteps
<1>4. \A i \in 1..Len(s) : p[i] = step[<<p[i - 1], s[i]>>]
  BY <1>1, RunSteps
<1>5. \A i \in 1..Len(t) : q[i] = step[<<q[i - 1], t[i]>>]
  BY <1>1, RunSteps
<1> HIDE DEF r, p, q
<1>6. 0 \in S
  BY <1>1, <1>2
<1>7. ASSUME NEW i \in 1..Len(s), i - 1 \in S PROVE i \in S
  <2>1. i \in 1..Len(u) /\ i \in 0..Len(s) /\ r[i - 1] = p[i - 1] /\ u[i] = s[i]
    BY <1>1, <1>7
  <2>2. r[i] = step[<<r[i - 1], u[i]>>]
    BY <1>3, <2>1
  <2>3. p[i] = step[<<p[i - 1], s[i]>>]
    BY <1>4
  <2>4. r[i] = p[i]
    BY <2>1, <2>2, <2>3
  <2> QED
    BY <2>1, <2>4
<1> HIDE DEF S
<1>8. \A i \in 0..Len(s) : i \in S
  BY <1>1, <1>6, <1>7, UpTo
<1>9. r[Len(s)] = p[Len(s)]
  BY <1>1, <1>8 DEF S
<1>10. 0 \in R
  BY <1>1, <1>2, <1>9
<1>11. ASSUME NEW i \in 1..Len(t), i - 1 \in R PROVE i \in R
  <2>1. Len(s) + i \in 1..Len(u) /\ i \in 0..Len(t) /\ r[Len(s) + (i - 1)] = q[i - 1]
        /\ u[Len(s) + i] = t[i]
    BY <1>1, <1>11
  <2>2. (Len(s) + i) - 1 = Len(s) + (i - 1)
    BY <1>1
  <2>3. r[Len(s) + i] = step[<<r[(Len(s) + i) - 1], u[Len(s) + i]>>]
    BY <1>3, <2>1
  <2>4. q[i] = step[<<q[i - 1], t[i]>>]
    BY <1>5
  <2>5. r[Len(s) + i] = q[i]
    BY <2>1, <2>2, <2>3, <2>4
  <2> QED
    BY <2>1, <2>5
<1> HIDE DEF R
<1>12. \A i \in 0..Len(t) : i \in R
  BY <1>1, <1>10, <1>11, UpTo
<1>13. r[Len(s) + Len(t)] = q[Len(t)]
  BY <1>1, <1>12 DEF R
<1>14. /\ Loop(step, base, u) = r[Len(u)] /\ Loop(step, base, s) = p[Len(s)]
       /\ Loop(step, Loop(step, base, s), t) = q[Len(t)]
  BY DEF Loop, r, p, q
<1> QED
  BY <1>1, <1>13, <1>14 DEF u

LEMMA LoopOfNone ==
  ASSUME NEW step, NEW base
  PROVE  Loop(step, base, <<>>) = base
<1>1. Len(<<>>) = 0
  OBVIOUS
<1> QED
  BY <1>1, RunSteps DEF Loop

LEMMA LoopOfOne ==
  ASSUME NEW step, NEW base, NEW e
  PROVE  \A t : t = <<e>> => Loop(step, base, t) = step[<<base, e>>]
<1>1. Len(<<e>>) = 1 /\ <<e>>[1] = e
  OBVIOUS
<1>2. /\ Run(step, base, <<e>>)[0] = base
      /\ Run(step, base, <<e>>)[1] = step[<<Run(step, base, <<e>>)[1 - 1], <<e>>[1]>>]
  BY <1>1, RunSteps
<1> QED
  BY <1>1, <1>2 DEF Loop

LEMMA LoopOfAppend ==
  ASSUME NEW E, NEW step, NEW base, NEW s \in Seq(E), NEW e \in E
  PROVE  Loop(step, base, Append(s, e)) = step[<<Loop(step, base, s), e>>]
<1>1. Append(s, e) = s \o <<e>> /\ <<e>> \in Seq(E)
  BY AppendIsConcat
<1>2. Loop(step, base, s \o <<e>>) = Loop(step, Loop(step, base, s), <<e>>)
  <2>1. PICK t : t = <<e>>
    OBVIOUS
  <2>2. t \in Seq(E)
    BY <1>1, <2>1
  <2>3. Loop(step, base, s \o t) = Loop(step, Loop(step, base, s), t)
    BY <2>2, LoopOfConcat
  <2> QED
    BY <2>1, <2>3
<1>3. Loop(step, Loop(step, base, s), <<e>>) = step[<<Loop(step, base, s), e>>]
  BY LoopOfOne
<1> QED
  BY <1>1, <1>2, <1>3

LEMMA FrontAndLast ==
  ASSUME NEW S, NEW s \in Seq(S), s # <<>>
  PROVE  /\ Front(s) \in Seq(S) /\ Len(Front(s)) = Len(s) - 1 /\ Len(s) \in Nat \ {0}
         /\ \A i \in 1..(Len(s) - 1) : Front(s)[i] = s[i]
         /\ Last(s) = s[Len(s)] /\ Last(s) \in S
         /\ s = Append(Front(s), Last(s))
<1>1. Len(s) \in Nat \ {0} /\ \A i \in 1..Len(s) : s[i] \in S
  BY EmptySeq, LenProperties, ElementOfSeq
<1>2. /\ Front(s) \in Seq(S) /\ Len(Front(s)) = Len(s) - 1
      /\ \A i \in 1..(Len(s) - 1) : Front(s)[i] = s[i]
  <2>1. \A i \in 1..(Len(s) - 1) : s[i] \in S
    BY <1>1
  <2>2. /\ SubSeq(s, 1, Len(s) - 1) \in Seq(S)
        /\ Len(SubSeq(s, 1, Len(s) - 1)) = IF 1 <= Len(s) - 1 THEN (Len(s) - 1) - 1 + 1 ELSE 0
        /\ \A i \in 1..((Len(s) - 1) - 1 + 1) : SubSeq(s, 1, Len(s) - 1)[i] = s[1 + i - 1]
    <3>1. 1 \in Int /\ Len(s) - 1 \in Int
      BY <1>1
    <3> QED
      BY <2>1, <3>1, SubSeqProperties
  <2>3. \A i \in 1..(Len(s) - 1) : i \in 1..((Len(s) - 1) - 1 + 1) /\ 1 + i - 1 = i
    BY <1>1
  <2>4. \A i \in 1..(Len(s) - 1) : SubSeq(s, 1, Len(s) - 1)[i] = s[i]
    <3> TAKE i \in 1..(Len(s) - 1)
    <3>1. i \in 1..((Len(s) - 1) - 1 + 1) /\ 1 + i - 1 = i
      BY <2>3
    <3>2. SubSeq(s, 1, Len(s) - 1)[i] = s[1 + i - 1]
      BY <2>2, <3>1
    <3> QED
      BY <3>1, <3>2
  <2>5. Len(SubSeq(s, 1, Len(s) - 1)) = Len(s) - 1
    <3>1. (Len(s) - 1) - 1 + 1 = Len(s) - 1 /\ (1 <= Len(s) - 1 \/ Len(s) - 1 = 0)
      <4>1. \A n \in Nat \ {0} : (n - 1) - 1 + 1 = n - 1 /\ (1 <= n - 1 \/ n - 1 = 0)
        OBVIOUS
      <4> QED
        BY <1>1, <4>1
    <3>2. CASE 1 <= Len(s) - 1
      BY <2>2, <3>1, <3>2
    <3>3. CASE Len(s) - 1 = 0
      BY <2>2, <3>3
    <3> QED
      BY <3>1, <3>2, <3>3
  <2> QED
    BY <2>2, <2>4, <2>5 DEF Front
<1>3. Last(s) = s[Len(s)] /\ Last(s) \in S
  BY <1>1 DEF Last
<1>4. s = Append(Front(s), Last(s))
  <2> DEFINE t == Append(Front(s), Last(s))
  <2>1. /\ t \in Seq(S) /\ Len(t) = Len(s)
        /\ \A i \in 1..(Len(s) - 1) : t[i] = s[i]
        /\ t[Len(s)] = s[Len(s)]
    BY <1>1, <1>2, <1>3, AppendProperties
  <2> HIDE DEF t
  <2>2. \A i \in 1..Len(s) : s[i] = t[i]
    BY <1>1, <2>1
  <2>3. s = t
    BY <2>1, <2>2, SeqEqual
  <2> QED
    BY <2>3 DEF t
<1> QED
  BY <1>1, <1>2, <1>3, <1>4

LEMMA FrontOfAppend ==
  ASSUME NEW S, NEW s \in Seq(S), NEW e \in S
  PROVE  Append(s, e) # <<>> /\ Front(Append(s, e)) = s /\ Last(Append(s, e)) = e
<1>1. Append(s, e) \in Seq(S) /\ Append(s, e) # <<>>
  BY AppendProperties
<1>2. /\ Front(Append(s, e)) \in Seq(S) /\ Last(Append(s, e)) \in S
      /\ Append(s, e) = Append(Front(Append(s, e)), Last(Append(s, e)))
  BY <1>1, FrontAndLast
<1> QED
  BY <1>1, <1>2, AppendInjective

-----------------------------------------------------------------------------
(* Paths                                                                    *)

Collapsing(absolute) == [x \in Seq(Parts) \X Parts |-> CollapseStep(absolute, x[1], x[2])]
Walking == [x \in Seq(Parts) \X Parts |-> WalkStep(x[1], x[2])]

\* What a path is collapsed to: names, after as many parents as it climbs.
NormalForm(absolute, parts) ==
  /\ parts \in Seq(Names \cup {".."})
  /\ absolute => parts \in Seq(Names)
  /\ \A i \in 2..Len(parts) : parts[i] = ".." => parts[i - 1] = ".."

LEMMA PathSteps ==
  ASSUME NEW at \in Seq(Parts), NEW part \in Parts
  PROVE  /\ \A absolute : Collapsing(absolute)[<<at, part>>] = CollapseStep(absolute, at, part)
         /\ Walking[<<at, part>>] = WalkStep(at, part)
BY DEF Collapsing, Walking

LEMMA NormalIsPath ==
  ASSUME NEW absolute, NEW parts, NormalForm(absolute, parts)
  PROVE  parts \in Seq(Parts)
<1>1. Names \cup {".."} \subseteq Parts
  BY DEF Parts
<1> QED
  BY <1>1, SeqMonotonic DEF NormalForm

LEMMA StepTypes ==
  ASSUME NEW at \in Seq(Parts), NEW part \in Parts
  PROVE  /\ \A absolute : CollapseStep(absolute, at, part) \in Seq(Parts)
         /\ WalkStep(at, part) \in Seq(Parts)
<1>1. at # <<>> => Front(at) \in Seq(Parts)
  BY FrontAndLast
<1>2. Append(at, part) \in Seq(Parts)
  BY AppendProperties
<1> QED
  BY <1>1, <1>2 DEF CollapseStep, WalkStep

\* Collapsing one part keeps the normal form, and leads where the part leads.
LEMMA CollapseKeepsNormal ==
  ASSUME NEW absolute \in BOOLEAN, NEW parts, NormalForm(absolute, parts), NEW part \in Parts
  PROVE  NormalForm(absolute, CollapseStep(absolute, parts, part))
<1> DEFINE next == CollapseStep(absolute, parts, part)
           Elements == Names \cup {".."}
<1>1. /\ parts \in Seq(Elements) /\ Len(parts) \in Nat
      /\ \A i \in 1..Len(parts) : parts[i] \in Elements
      /\ absolute => \A i \in 1..Len(parts) : parts[i] \in Names
  BY LenProperties, ElementOfSeq DEF NormalForm
<1>2. ".." \notin Names /\ "" \notin Names /\ "." \notin Names
  BY NamesAssumption
<1>3. CASE part \in {"", "."}
  BY <1>3 DEF CollapseStep
<1>4. CASE part = ".." /\ parts # <<>> /\ Last(parts) # ".."
  <2>1. next = Front(parts)
    BY <1>4 DEF CollapseStep
  <2>2. /\ Front(parts) \in Seq(Elements) /\ Len(Front(parts)) = Len(parts) - 1
        /\ \A i \in 1..(Len(parts) - 1) : Front(parts)[i] = parts[i]
    BY <1>1, <1>4, FrontAndLast
  <2>3. absolute => Front(parts) \in Seq(Names)
    BY <1>4, FrontAndLast DEF NormalForm
  <2>4. \A i \in 2..Len(Front(parts)) : Front(parts)[i] = ".." => Front(parts)[i - 1] = ".."
    BY <1>1, <2>2 DEF NormalForm
  <2> QED
    BY <2>1, <2>2, <2>3, <2>4 DEF NormalForm
<1>5. CASE part = ".." /\ (parts = <<>> \/ Last(parts) = "..") /\ absolute
  BY <1>5 DEF CollapseStep
<1>6. CASE part = ".." /\ (parts = <<>> \/ Last(parts) = "..") /\ ~ absolute
  <2>1. next = Append(parts, "..")
    BY <1>6 DEF CollapseStep
  <2>2. /\ next \in Seq(Elements) /\ Len(next) = Len(parts) + 1
        /\ \A i \in 1..Len(parts) : next[i] = parts[i]
    BY <1>1, <2>1, AppendProperties
  <2>3. Len(parts) # 0 => parts[Len(parts)] = ".."
    BY <1>1, <1>6 DEF Last
  <2> HIDE DEF next
  <2>4. ASSUME NEW i \in 2..Len(next), next[i] = ".." PROVE next[i - 1] = ".."
    <3>1. CASE i = Len(next)
      <4>1. i - 1 = Len(parts) /\ Len(parts) # 0 /\ i - 1 \in 1..Len(parts)
        BY <1>1, <2>2, <3>1
      <4> QED
        BY <2>2, <2>3, <4>1
    <3>2. CASE i # Len(next)
      <4>1. i \in 2..Len(parts) /\ i \in 1..Len(parts) /\ i - 1 \in 1..Len(parts)
        BY <1>1, <2>2, <3>2
      <4> QED
        BY <2>2, <2>4, <4>1 DEF NormalForm
    <3> QED
      BY <3>1, <3>2
  <2>5. NormalForm(absolute, next)
    BY <1>6, <2>2, <2>4 DEF NormalForm
  <2> QED
    BY <2>5 DEF next
<1>7. CASE part \in Names
  <2>1. next = Append(parts, part)
    BY <1>2, <1>7 DEF CollapseStep
  <2>2. /\ next \in Seq(Elements) /\ Len(next) = Len(parts) + 1
        /\ \A i \in 1..Len(parts) : next[i] = parts[i]
        /\ next[Len(parts) + 1] = part
    BY <1>1, <1>7, <2>1, AppendProperties
  <2>3. absolute => next \in Seq(Names)
    BY <1>7, <2>1, AppendProperties DEF NormalForm
  <2> HIDE DEF next
  <2>4. ASSUME NEW i \in 2..Len(next), next[i] = ".." PROVE next[i - 1] = ".."
    <3>1. i # Len(parts) + 1
      BY <1>2, <1>7, <2>2, <2>4
    <3>2. i \in 2..Len(parts) /\ i \in 1..Len(parts) /\ i - 1 \in 1..Len(parts)
      BY <1>1, <2>2, <3>1
    <3> QED
      BY <2>2, <2>4, <3>2 DEF NormalForm
  <2>5. NormalForm(absolute, next)
    BY <2>2, <2>3, <2>4 DEF NormalForm
  <2> QED
    BY <2>5 DEF next
<1> QED
  BY <1>3, <1>4, <1>5, <1>6, <1>7 DEF Parts

LEMMA CollapseKeepsPlace ==
  ASSUME NEW absolute \in BOOLEAN, NEW parts, NormalForm(absolute, parts), NEW part \in Parts,
         NEW from \in Seq(Parts), absolute => from = <<>>
  PROVE  Loop(Walking, from, CollapseStep(absolute, parts, part))
           = WalkStep(Loop(Walking, from, parts), part)
<1> DEFINE at == Loop(Walking, from, parts)
<1>1. parts \in Seq(Parts) /\ at \in Seq(Parts)
  <2>1. parts \in Seq(Parts)
    BY NormalIsPath
  <2>2. \A a \in Seq(Parts), e \in Parts : Walking[<<a, e>>] \in Seq(Parts)
    BY PathSteps, StepTypes
  <2> QED
    BY <2>1, <2>2, LoopType
<1>2. \A s \in Seq(Parts), e \in Parts :
        Loop(Walking, from, Append(s, e)) = WalkStep(Loop(Walking, from, s), e)
  <2> SUFFICES ASSUME NEW s \in Seq(Parts), NEW e \in Parts
               PROVE  Loop(Walking, from, Append(s, e)) = WalkStep(Loop(Walking, from, s), e)
    OBVIOUS
  <2>1. Loop(Walking, from, Append(s, e)) = Walking[<<Loop(Walking, from, s), e>>]
    BY LoopOfAppend
  <2>2. \A a \in Seq(Parts), x \in Parts : Walking[<<a, x>>] \in Seq(Parts)
    BY PathSteps, StepTypes
  <2>3. Loop(Walking, from, s) \in Seq(Parts)
    BY <2>2, LoopType
  <2> QED
    BY <2>1, <2>3, PathSteps
<1> HIDE DEF at
<1>3. CASE part \in {"", "."}
  <2>1. CollapseStep(absolute, parts, part) = parts /\ WalkStep(at, part) = at
    BY <1>3 DEF CollapseStep, WalkStep
  <2> QED
    BY <2>1 DEF at
<1>4. CASE part = ".." /\ parts # <<>> /\ Last(parts) # ".."
  <2>1. CollapseStep(absolute, parts, part) = Front(parts)
    BY <1>4 DEF CollapseStep
  <2>2. /\ Front(parts) \in Seq(Parts) /\ parts = Append(Front(parts), Last(parts))
        /\ Last(parts) \in Names \cup {".."} /\ Last(parts) \in Parts
    BY <1>1, <1>4, FrontAndLast DEF NormalForm
  <2>3. at = WalkStep(Loop(Walking, from, Front(parts)), Last(parts))
    BY <1>2, <2>2 DEF at
  <2>4. at = Append(Loop(Walking, from, Front(parts)), Last(parts))
    <3>1. Last(parts) \in Names /\ Last(parts) \notin {"", "."} /\ Last(parts) # ".."
      BY <1>4, <2>2, NamesAssumption
    <3> QED
      BY <2>3, <3>1 DEF WalkStep
  <2>5. Loop(Walking, from, Front(parts)) \in Seq(Parts)
    <3>1. \A a \in Seq(Parts), x \in Parts : Walking[<<a, x>>] \in Seq(Parts)
      BY PathSteps, StepTypes
    <3> QED
      BY <2>2, <3>1, LoopType
  <2>6. at # <<>> /\ Front(at) = Loop(Walking, from, Front(parts))
    BY <2>2, <2>4, <2>5, FrontOfAppend
  <2>7. WalkStep(at, part) = Front(at)
    BY <1>4, <2>6 DEF WalkStep
  <2> QED
    BY <2>1, <2>6, <2>7 DEF at
<1>5. CASE part = ".." /\ (parts = <<>> \/ Last(parts) = "..") /\ absolute
  <2>1. parts = <<>>
    <3>1. ASSUME parts # <<>> PROVE Last(parts) \in Names
      BY <1>5, <3>1, FrontAndLast DEF NormalForm
    <3> QED
      BY <1>5, <3>1, NamesAssumption
  <2>2. at = <<>>
    BY <1>5, <2>1, LoopOfNone DEF at
  <2>3. CollapseStep(absolute, parts, part) = parts /\ WalkStep(at, part) = at
    BY <1>5, <2>2 DEF CollapseStep, WalkStep
  <2> QED
    BY <2>3 DEF at
<1>6. CASE part = ".." /\ (parts = <<>> \/ Last(parts) = "..") /\ ~ absolute
  <2>1. CollapseStep(absolute, parts, part) = Append(parts, part)
    BY <1>6 DEF CollapseStep
  <2> QED
    BY <1>1, <1>2, <2>1 DEF at
<1>7. CASE part \in Names
  <2>1. part \notin {"", "."} /\ part # ".."
    BY <1>7, NamesAssumption
  <2>2. CollapseStep(absolute, parts, part) = Append(parts, part)
    BY <2>1 DEF CollapseStep
  <2> QED
    BY <1>1, <1>2, <2>2 DEF at
<1> QED
  BY <1>3, <1>4, <1>5, <1>6, <1>7 DEF Parts, at

\* The whole path is collapsed to a normal form that leads where the path leads, from
\* any directory.
LEMMA CollapseWalks ==
  ASSUME NEW absolute \in BOOLEAN, NEW path \in Seq(Parts),
         NEW from \in Seq(Parts), absolute => from = <<>>
  PROVE  /\ NormalForm(absolute, Collapse(absolute, path))
         /\ Loop(Walking, from, Collapse(absolute, path)) = Loop(Walking, from, path)
<1> DEFINE r == Run(Collapsing(absolute), <<>>, path)
           w == Run(Walking, from, path)
           S == {i \in 0..Len(path) : NormalForm(absolute, r[i]) /\ Loop(Walking, from, r[i]) = w[i]}
<1>1. Len(path) \in Nat /\ \A i \in 1..Len(path) : path[i] \in Parts
  BY LenProperties, ElementOfSeq
<1>2. /\ r[0] = <<>> /\ \A i \in 1..Len(path) : r[i] = Collapsing(absolute)[<<r[i - 1], path[i]>>]
      /\ w[0] = from /\ \A i \in 1..Len(path) : w[i] = Walking[<<w[i - 1], path[i]>>]
  BY <1>1, RunSteps
<1>3. \A i \in 0..Len(path) : w[i] \in Seq(Parts)
  <2>1. \A a \in Seq(Parts), x \in Parts : Walking[<<a, x>>] \in Seq(Parts)
    BY PathSteps, StepTypes
  <2> QED
    BY <2>1, RunType
<1> HIDE DEF r, w
<1>4. 0 \in S
  <2>1. NormalForm(absolute, <<>>)
    BY EmptySeq DEF NormalForm
  <2>2. Loop(Walking, from, <<>>) = from
    BY LoopOfNone
  <2> QED
    BY <1>1, <1>2, <2>1, <2>2
<1>5. ASSUME NEW i \in 1..Len(path), i - 1 \in S PROVE i \in S
  <2>1. /\ NormalForm(absolute, r[i - 1]) /\ Loop(Walking, from, r[i - 1]) = w[i - 1]
        /\ i - 1 \in 0..Len(path) /\ i \in 0..Len(path) /\ path[i] \in Parts
    BY <1>1, <1>5
  <2>2. r[i - 1] \in Seq(Parts) /\ w[i - 1] \in Seq(Parts)
    BY <1>3, <2>1, NormalIsPath
  <2>3. /\ r[i] = CollapseStep(absolute, r[i - 1], path[i])
        /\ w[i] = WalkStep(w[i - 1], path[i])
    <3>1. /\ r[i] = Collapsing(absolute)[<<r[i - 1], path[i]>>]
          /\ w[i] = Walking[<<w[i - 1], path[i]>>]
      BY <1>2
    <3>2. /\ Collapsing(absolute)[<<r[i - 1], path[i]>>] = CollapseStep(absolute, r[i - 1], path[i])
          /\ Walking[<<w[i - 1], path[i]>>] = WalkStep(w[i - 1], path[i])
      BY <2>1, <2>2, PathSteps
    <3> QED
      BY <3>1, <3>2
  <2>4. NormalForm(absolute, r[i])
    BY <2>1, <2>3, CollapseKeepsNormal
  <2>5. Loop(Walking, from, r[i]) = w[i]
    BY <2>1, <2>3, CollapseKeepsPlace
  <2> QED
    BY <2>1, <2>4, <2>5
<1> HIDE DEF S
<1>6. \A i \in 0..Len(path) : i \in S
  BY <1>1, <1>4, <1>5, UpTo
<1>7. Len(path) \in S
  BY <1>1, <1>6
<1>8. Collapse(absolute, path) = r[Len(path)] /\ Loop(Walking, from, path) = w[Len(path)]
  BY DEF Collapse, Collapsing, Loop, r, w
<1> QED
  BY <1>7, <1>8 DEF S

\* A loop whose steps only append copies its items.
LEMMA LoopAppends ==
  ASSUME NEW E, NEW step, NEW at \in Seq(E), NEW t \in Seq(E),
         \A i \in 1..Len(t), a \in Seq(E) :
           /\ Len(a) = Len(at) + i - 1
           /\ \A j \in 1..(i - 1) : a[Len(at) + j] = t[j]
           => step[<<a, t[i]>>] = Append(a, t[i])
  PROVE  Loop(step, at, t) = at \o t
<1> DEFINE r == Run(step, at, t)
           Copies(i) == /\ r[i] \in Seq(E) /\ Len(r[i]) = Len(at) + i
                        /\ \A j \in 1..Len(at) : r[i][j] = at[j]
                        /\ \A j \in 1..i : r[i][Len(at) + j] = t[j]
           S == {i \in 0..Len(t) : Copies(i)}
<1>1. /\ Len(t) \in Nat /\ Len(at) \in Nat /\ \A i \in 1..Len(t) : t[i] \in E
  BY LenProperties, ElementOfSeq
<1>2. r[0] = at /\ \A i \in 1..Len(t) : r[i] = step[<<r[i - 1], t[i]>>]
  BY <1>1, RunSteps
<1> HIDE DEF r
<1>3. 0 \in S
  BY <1>1, <1>2
<1>4. ASSUME NEW i \in 1..Len(t), i - 1 \in S PROVE i \in S
  <2>1. /\ i \in Nat \ {0} /\ i \in 0..Len(t) /\ Len(at) + (i - 1) = Len(at) + i - 1
        /\ t[i] \in E
    BY <1>1
  <2>2. /\ r[i - 1] \in Seq(E) /\ Len(r[i - 1]) = Len(at) + i - 1
        /\ \A j \in 1..Len(at) : r[i - 1][j] = at[j]
        /\ \A j \in 1..(i - 1) : r[i - 1][Len(at) + j] = t[j]
    BY <1>4, <2>1
  <2>3. r[i] = Append(r[i - 1], t[i])
    BY <1>2, <2>2
  <2>4. /\ r[i] \in Seq(E) /\ Len(r[i]) = Len(at) + i - 1 + 1
        /\ \A j \in 1..(Len(at) + i - 1) : r[i][j] = r[i - 1][j]
        /\ r[i][Len(at) + i - 1 + 1] = t[i]
    BY <2>1, <2>2, <2>3, AppendProperties
  <2> HIDE DEF S
  <2>5. Len(r[i]) = Len(at) + i /\ r[i][Len(at) + i] = t[i]
    <3>1. Len(at) + i - 1 + 1 = Len(at) + i
      BY <1>1, <2>1
    <3> QED
      BY <2>4, <3>1
  <2>6. \A j \in 1..Len(at) : r[i][j] = at[j]
    <3>1. \A j \in 1..Len(at) : j \in 1..(Len(at) + i - 1)
      BY <1>1, <2>1
    <3> QED
      BY <2>2, <2>4, <3>1
  <2>7. \A j \in 1..i : r[i][Len(at) + j] = t[j]
    <3>1. \A j \in 1..(i - 1) : Len(at) + j \in 1..(Len(at) + i - 1)
      BY <1>1, <2>1
    <3>2. \A j \in 1..(i - 1) : r[i][Len(at) + j] = t[j]
      BY <2>2, <2>4, <3>1
    <3>3. \A j \in 1..i : j \in 1..(i - 1) \/ j = i
      BY <2>1
    <3> QED
      BY <2>5, <3>2, <3>3
  <2> QED
    BY <2>1, <2>4, <2>5, <2>6, <2>7 DEF S
<1> HIDE DEF S
<1>5. \A i \in 0..Len(t) : i \in S
  BY <1>1, <1>3, <1>4, UpTo
<1>6. /\ r[Len(t)] \in Seq(E) /\ Len(r[Len(t)]) = Len(at) + Len(t)
      /\ \A j \in 1..Len(at) : r[Len(t)][j] = at[j]
      /\ \A j \in 1..Len(t) : r[Len(t)][Len(at) + j] = t[j]
  <2>1. Len(t) \in S
    BY <1>1, <1>5
  <2> QED
    BY <2>1 DEF S
<1> DEFINE u == at \o t
<1>7. /\ u \in Seq(E) /\ Len(u) = Len(at) + Len(t)
      /\ \A j \in 1..Len(at) : u[j] = at[j]
      /\ \A j \in 1..Len(t) : u[Len(at) + j] = t[j]
  BY <1>1, ConcatProperties
<1> HIDE DEF u
<1>8. \A j \in 1..Len(u) : u[j] = r[Len(t)][j]
  <2> TAKE j \in 1..Len(u)
  <2>1. CASE j \in 1..Len(at)
    BY <1>6, <1>7, <2>1
  <2>2. CASE j \notin 1..Len(at)
    <3>1. j - Len(at) \in 1..Len(t) /\ Len(at) + (j - Len(at)) = j
      BY <1>1, <1>7, <2>2
    <3> QED
      BY <1>6, <1>7, <3>1
  <2> QED
    BY <2>1, <2>2
<1>9. u = r[Len(t)]
  BY <1>6, <1>7, <1>8, SeqEqual
<1> QED
  BY <1>9 DEF u, r, Loop

LEMMA CollapseOfNormal ==
  ASSUME NEW absolute \in BOOLEAN, NEW parts, NormalForm(absolute, parts)
  PROVE  Collapse(absolute, parts) = parts
<1>1. parts \in Seq(Parts) /\ <<>> \in Seq(Parts) /\ Len(<<>>) = 0
  <2>1. parts \in Seq(Parts)
    BY NormalIsPath
  <2> QED
    BY <2>1
<1>2. ASSUME NEW i \in 1..Len(parts), NEW a \in Seq(Parts), Len(a) = 0 + i - 1,
             \A j \in 1..(i - 1) : a[0 + j] = parts[j]
      PROVE  Collapsing(absolute)[<<a, parts[i]>>] = Append(a, parts[i])
  <2>1. /\ Len(parts) \in Nat /\ parts[i] \in Names \cup {".."}
        /\ parts[i] \in Parts /\ (absolute => parts[i] \in Names)
    BY <1>1, LenProperties, ElementOfSeq DEF NormalForm
  <2>2. Collapsing(absolute)[<<a, parts[i]>>] = CollapseStep(absolute, a, parts[i])
    BY <2>1, PathSteps
  <2>3. CASE parts[i] \in Names
    <3>1. parts[i] \notin {"", "."} /\ parts[i] # ".."
      BY <2>3, NamesAssumption
    <3> QED
      BY <2>2, <3>1 DEF CollapseStep
  <2>4. CASE parts[i] = ".."
    <3>1. ~ absolute
      BY <2>1, <2>4, NamesAssumption
    <3>2. CASE i = 1
      <4>1. a = <<>>
        BY <1>2, <3>2, EmptySeq
      <4> QED
        BY <2>2, <2>4, <3>1, <4>1 DEF CollapseStep
    <3>3. CASE i # 1
      <4>1. i \in 2..Len(parts) /\ i - 1 \in 1..(i - 1) /\ 0 + (i - 1) = i - 1 /\ 0 + i - 1 = i - 1
        BY <2>1, <3>3
      <4>2. parts[i - 1] = ".."
        BY <2>4, <4>1 DEF NormalForm
      <4>3. Last(a) = ".."
        BY <1>2, <4>1, <4>2 DEF Last
      <4> QED
        BY <2>2, <2>4, <3>1, <4>3 DEF CollapseStep
    <3> QED
      BY <3>2, <3>3
  <2> QED
    BY <2>1, <2>3, <2>4
<1>3. Loop(Collapsing(absolute), <<>>, parts) = <<>> \o parts
  BY <1>1, <1>2, LoopAppends
<1>4. <<>> \o parts = parts
  BY <1>1, ConcatEmptySeq
<1> QED
  BY <1>3, <1>4 DEF Collapse, Collapsing

LEMMA NamesAreKept ==
  ASSUME NEW at \in Seq(Parts), NEW names \in Seq(Names)
  PROVE  Loop(Walking, at, names) = at \o names
<1>1. names \in Seq(Parts) /\ \A i \in 1..Len(names) : names[i] \in Names
  <2>1. Names \subseteq Parts
    BY DEF Parts
  <2> QED
    BY <2>1, SeqMonotonic, ElementOfSeq
<1>2. ASSUME NEW i \in 1..Len(names), NEW a \in Seq(Parts)
      PROVE  Walking[<<a, names[i]>>] = Append(a, names[i])
  <2>1. names[i] \in Parts /\ names[i] \notin {"", "."} /\ names[i] # ".."
    BY <1>1, NamesAssumption DEF Parts
  <2>2. Walking[<<a, names[i]>>] = WalkStep(a, names[i])
    BY <2>1, PathSteps
  <2> QED
    BY <2>1, <2>2 DEF WalkStep
<1> QED
  BY <1>1, <1>2, LoopAppends

LEMMA OneElement ==
  ASSUME NEW S, NEW e \in S, NEW t, t = <<e>>
  PROVE  t \in Seq(S) /\ Len(t) = 1 /\ t[1] = e
OBVIOUS

LEMMA TwoElements ==
  ASSUME NEW S, NEW d \in S, NEW e \in S, NEW t, t = <<d, e>>
  PROVE  t \in Seq(S) /\ Len(t) = 2 /\ t[1] = d /\ t[2] = e
OBVIOUS

LEMMA PairIsJoined == \A x, y : <<x>> \o <<y>> = <<x, y>>
<1> SUFFICES ASSUME NEW x, NEW y PROVE <<x>> \o <<y>> = <<x, y>>
  OBVIOUS
<1>1. PICK S : S = {x, y}
  OBVIOUS
<1>2. <<x>> \in Seq(S) /\ <<y>> \in Seq(S) /\ <<x, y>> \in Seq(S)
  BY <1>1
<1>3. PICK s : s = <<x>> \o <<y>>
  OBVIOUS
<1>4. s \in Seq(S) /\ Len(s) = 2 /\ s[1] = x /\ s[2] = y
  BY <1>2, <1>3, ConcatProperties
<1>5. PICK t : t = <<x, y>>
  OBVIOUS
<1>6. t \in Seq(S) /\ Len(t) = 2 /\ t[1] = x /\ t[2] = y
  BY <1>2, <1>5
<1>7. s = t
  BY <1>4, <1>6, SeqEqual
<1> QED
  BY <1>3, <1>5, <1>7

\* Names for the parts that are no names, and for paths of them.
Empty == ""
Dot == "."
Nowhere == {Empty, Dot}
Slash == <<Empty>>
Here == <<Dot>>
Root == <<Empty, Empty>>
Dots == {<<>>, Slash, Here}
Elements == Names \cup {".."}

LEMMA PartFacts ==
  /\ Empty \in Parts /\ Dot \in Parts /\ Elements \subseteq Parts
  /\ Empty # Dot /\ Empty \notin Elements /\ Dot \notin Elements
BY NamesAssumption DEF Empty, Dot, Parts, Elements

LEMMA DotFacts ==
  /\ Slash \in Seq(Parts) /\ Len(Slash) = 1 /\ Slash[1] = Empty
  /\ Here \in Seq(Parts) /\ Len(Here) = 1 /\ Here[1] = Dot
  /\ Root \in Seq(Parts) /\ Len(Root) = 2 /\ Root[1] = Empty /\ Root[2] = Empty
  /\ Root = Slash \o <<>> \o Slash
  /\ <<>> \in Seq(Parts) /\ Len(<<>>) = 0 /\ <<>> # Slash /\ <<>> # Here /\ <<>> # Root
  /\ Dots \subseteq Seq(Parts)
<1>1. Slash \in Seq(Parts) /\ Len(Slash) = 1 /\ Slash[1] = Empty
  BY PartFacts, OneElement DEF Slash
<1>2. Here \in Seq(Parts) /\ Len(Here) = 1 /\ Here[1] = Dot
  BY PartFacts, OneElement DEF Here
<1>3. Root \in Seq(Parts) /\ Len(Root) = 2 /\ Root[1] = Empty /\ Root[2] = Empty
  BY PartFacts, TwoElements DEF Root
<1>4. <<>> \in Seq(Parts) /\ Len(<<>>) = 0
  BY EmptySeq
<1>5. Root = Slash \o <<>> \o Slash
  BY DEF Root, Slash
<1> QED
  BY <1>1, <1>2, <1>3, <1>4, <1>5 DEF Dots

\* A step over a path stays in the paths and passes over the parts that lead nowhere.
PassesOver(step) ==
  /\ \A a \in Seq(Parts), e \in Parts : step[<<a, e>>] \in Seq(Parts)
  /\ \A a \in Seq(Parts), e \in Nowhere : step[<<a, e>>] = a

LEMMA PathStepsPassOver ==
  /\ \A absolute \in BOOLEAN : PassesOver(Collapsing(absolute))
  /\ PassesOver(Walking)
<1>1. ASSUME NEW absolute \in BOOLEAN, NEW a \in Seq(Parts), NEW e \in Parts
      PROVE  /\ Collapsing(absolute)[<<a, e>>] \in Seq(Parts)
             /\ e \in Nowhere => Collapsing(absolute)[<<a, e>>] = a
  <2>1. Collapsing(absolute)[<<a, e>>] = CollapseStep(absolute, a, e)
    BY PathSteps
  <2>2. CollapseStep(absolute, a, e) \in Seq(Parts)
    BY StepTypes
  <2>3. e \in Nowhere => CollapseStep(absolute, a, e) = a
    BY DEF CollapseStep, Nowhere, Empty, Dot
  <2> QED
    BY <2>1, <2>2, <2>3
<1>2. ASSUME NEW a \in Seq(Parts), NEW e \in Parts
      PROVE  Walking[<<a, e>>] \in Seq(Parts) /\ (e \in Nowhere => Walking[<<a, e>>] = a)
  <2>1. Walking[<<a, e>>] = WalkStep(a, e)
    BY PathSteps
  <2>2. WalkStep(a, e) \in Seq(Parts)
    BY StepTypes
  <2>3. e \in Nowhere => WalkStep(a, e) = a
    BY DEF WalkStep, Nowhere, Empty, Dot
  <2> QED
    BY <2>1, <2>2, <2>3
<1>3. Nowhere \subseteq Parts
  BY PartFacts DEF Nowhere
<1>4. \A absolute \in BOOLEAN : PassesOver(Collapsing(absolute))
  BY <1>1, <1>3 DEF PassesOver
<1>5. PassesOver(Walking)
  BY <1>2, <1>3 DEF PassesOver
<1> QED
  BY <1>4, <1>5

LEMMA PathLoopType ==
  ASSUME NEW step, PassesOver(step), NEW at \in Seq(Parts), NEW path \in Seq(Parts)
  PROVE  Loop(step, at, path) \in Seq(Parts)
<1>1. \A a \in Seq(Parts), e \in Parts : step[<<a, e>>] \in Seq(Parts)
  BY DEF PassesOver
<1> QED
  BY <1>1, LoopType

LEMMA LoopOverDots ==
  ASSUME NEW step, PassesOver(step), NEW at \in Seq(Parts), NEW d \in Dots
  PROVE  Loop(step, at, d) = at
<1>1. CASE d = <<>>
  BY <1>1, LoopOfNone
<1>2. CASE d = Slash
  <2>1. Loop(step, at, Slash) = step[<<at, Empty>>]
    BY LoopOfOne DEF Slash
  <2>2. step[<<at, Empty>>] = at
    BY DEF PassesOver, Nowhere
  <2> QED
    BY <1>2, <2>1, <2>2
<1>3. CASE d = Here
  <2>1. Loop(step, at, Here) = step[<<at, Dot>>]
    BY LoopOfOne DEF Here
  <2>2. step[<<at, Dot>>] = at
    BY DEF PassesOver, Nowhere
  <2> QED
    BY <1>3, <2>1, <2>2
<1> QED
  BY <1>1, <1>2, <1>3 DEF Dots

\* A loop over a path passes over what it may begin and end with.
LEMMA AroundDots ==
  ASSUME NEW step, PassesOver(step), NEW at \in Seq(Parts), NEW path \in Seq(Parts),
         NEW p \in Dots, NEW q \in Dots
  PROVE  Loop(step, at, p \o path \o q) = Loop(step, at, path)
<1>1. p \in Seq(Parts) /\ q \in Seq(Parts)
  BY DotFacts
<1>2. p \o path \in Seq(Parts)
  BY <1>1, ConcatProperties
<1>3. Loop(step, at, (p \o path) \o q) = Loop(step, Loop(step, at, p \o path), q)
  <2>1. \A u \in Seq(Parts) : Loop(step, at, u \o q) = Loop(step, Loop(step, at, u), q)
    BY <1>1, LoopOfConcat
  <2> QED
    BY <1>2, <2>1
<1>4. Loop(step, at, p \o path) = Loop(step, Loop(step, at, p), path)
  BY <1>1, LoopOfConcat
<1>5. Loop(step, at, p) = at
  BY LoopOverDots
<1>6. Loop(step, Loop(step, at, p \o path), q) = Loop(step, at, p \o path)
  <2>1. Loop(step, at, p \o path) \in Seq(Parts)
    BY <1>2, PathLoopType
  <2> QED
    BY <2>1, LoopOverDots
<1> QED
  BY <1>3, <1>4, <1>5, <1>6

LEMMA CollapseAroundDots ==
  ASSUME NEW absolute \in BOOLEAN, NEW parts, NormalForm(absolute, parts), NEW p \in Dots, NEW q \in Dots
  PROVE  Collapse(absolute, p \o parts \o q) = parts
<1>1. parts \in Seq(Parts)
  BY NormalIsPath
<1>2. PassesOver(Collapsing(absolute))
  BY PathStepsPassOver
<1>3. Loop(Collapsing(absolute), <<>>, p \o parts \o q) = Loop(Collapsing(absolute), <<>>, parts)
  <2>1. <<>> \in Seq(Parts)
    BY EmptySeq
  <2> QED
    BY <1>1, <1>2, <2>1, AroundDots
<1>4. Collapse(absolute, parts) = parts
  BY CollapseOfNormal
<1> QED
  BY <1>3, <1>4 DEF Collapse, Collapsing

LEMMA WalkAroundDots ==
  ASSUME NEW at \in Seq(Parts), NEW path \in Seq(Parts), NEW p \in Dots, NEW q \in Dots
  PROVE  Loop(Walking, at, p \o path \o q) = Loop(Walking, at, path)
<1>1. PassesOver(Walking)
  BY PathStepsPassOver
<1> QED
  BY <1>1, AroundDots

\* A key is a normal form between dots.
Spelling(absolute, parts, slash) ==
  CASE absolute /\ parts = <<>> -> Root
    [] absolute /\ parts # <<>> -> Slash \o parts \o slash
    [] OTHER -> (IF parts = <<>> THEN Here ELSE parts) \o slash

LEMMA EndsOfConcat ==
  ASSUME NEW s \in Seq(Parts), NEW t \in Seq(Parts), s # <<>>
  PROVE  /\ s \o t \in Seq(Parts) /\ Len(s \o t) = Len(s) + Len(t)
         /\ Len(s) >= 1 /\ Len(t) \in Nat /\ Len(s) \in Nat
         /\ (s \o t)[1] = s[1]
         /\ t # <<>> => (s \o t)[Len(s \o t)] = t[Len(t)] /\ Len(t) >= 1
         /\ t = <<>> => s \o t = s
<1>1. /\ s \o t \in Seq(Parts) /\ Len(s \o t) = Len(s) + Len(t)
      /\ \A i \in 1..Len(s) : (s \o t)[i] = s[i]
      /\ \A i \in 1..Len(t) : (s \o t)[Len(s) + i] = t[i]
  BY ConcatProperties
<1>2. /\ Len(s) \in Nat \ {0} /\ Len(t) \in Nat /\ (Len(t) = 0 => t = <<>>)
  BY EmptySeq, LenProperties
<1>3. t = <<>> => s \o t = s
  BY ConcatEmptySeq
<1>4. ASSUME t # <<>> PROVE (s \o t)[Len(s \o t)] = t[Len(t)] /\ Len(t) >= 1
  <2>1. Len(t) \in 1..Len(t) /\ Len(t) >= 1
    BY <1>2, <1>4
  <2> QED
    BY <1>1, <2>1
<1>5. Len(s) >= 1 /\ 1 \in 1..Len(s)
  BY <1>2
<1> QED
  BY <1>1, <1>2, <1>3, <1>4, <1>5

LEMMA EndsOfPath ==
  ASSUME NEW path
  PROVE  /\ IsAbsolute(path) <=> Len(path) > 1 /\ path[1] = Empty
         /\ EndsWithSlash(path) <=> Len(path) > 1 /\ path[Len(path)] = Empty
BY DEF IsAbsolute, EndsWithSlash, Last, Empty

Shape(absolute, parts, slash, key) ==
  /\ key \in Paths /\ (IsAbsolute(key) <=> absolute)
  /\ EndsWithSlash(key) <=> slash = Slash \/ key = Root
  /\ \E p \in Dots, q \in Dots : key = p \o parts \o q
  /\ parts # <<>> /\ ~ absolute => key = parts \o slash /\ key[1] \in Elements
  /\ parts = <<>> /\ ~ absolute => key \in {Here, Here \o Slash} /\ key[1] = Dot
  /\ absolute => key[1] = Empty
  /\ key = Root => absolute /\ parts = <<>>

LEMMA ShapeOfSpelling ==
  ASSUME NEW absolute \in BOOLEAN, NEW parts, NormalForm(absolute, parts), NEW slash \in {<<>>, Slash},
         NEW key, key = Spelling(absolute, parts, slash)
  PROVE  Shape(absolute, parts, slash, key)
<1>1. /\ parts \in Seq(Parts) /\ Len(parts) \in Nat
      /\ parts # <<>> => /\ Len(parts) >= 1 /\ parts[1] \in Elements
                         /\ parts[Len(parts)] \in Elements
  <2>1. parts \in Seq(Parts) /\ parts \in Seq(Elements)
    BY NormalIsPath DEF NormalForm, Elements
  <2>2. Len(parts) \in Nat /\ (parts # <<>> => Len(parts) # 0)
    BY <2>1, LenProperties, EmptySeq
  <2>3. \A i \in 1..Len(parts) : parts[i] \in Elements
    BY <2>1, ElementOfSeq
  <2> QED
    BY <2>1, <2>2, <2>3
<1>2. Empty # Dot /\ Empty \notin Elements /\ Dot \notin Elements
  BY PartFacts
<1>3. slash \in Seq(Parts) /\ slash \in Dots /\ <<>> \in Dots /\ Slash \in Dots /\ Here \in Dots
  BY DotFacts DEF Dots
<1>4. /\ key \in Paths <=> key \in Seq(Parts) /\ key # <<>>
      /\ IsAbsolute(key) <=> Len(key) > 1 /\ key[1] = Empty
      /\ EndsWithSlash(key) <=> Len(key) > 1 /\ key[Len(key)] = Empty
  BY EndsOfPath DEF Paths
<1>5. CASE absolute /\ parts = <<>>
  <2>1. key = Root
    BY <1>5 DEF Spelling
  <2>2. \E p \in Dots, q \in Dots : key = p \o parts \o q
    BY <1>3, <1>5, <2>1, DotFacts
  <2>3. Len(key) > 1 /\ key[1] = Empty /\ key[Len(key)] = Empty /\ key # <<>> /\ key \in Seq(Parts)
    BY <2>1, DotFacts
  <2> QED
    BY <1>4, <1>5, <2>1, <2>2, <2>3 DEF Shape
<1>6. CASE absolute /\ parts # <<>>
  <2> DEFINE head == Slash \o parts
  <2>1. key = head \o slash
    BY <1>6 DEF Spelling
  <2>2. /\ head \in Seq(Parts) /\ Len(head) = 1 + Len(parts) /\ head[1] = Empty /\ Len(head) > 1
        /\ head[Len(head)] \in Elements /\ head # <<>>
    <3>1. /\ head \in Seq(Parts) /\ Len(head) = Len(Slash) + Len(parts)
          /\ head[1] = Slash[1] /\ head[Len(head)] = parts[Len(parts)]
      BY <1>1, <1>6, DotFacts, EndsOfConcat
    <3>2. Len(head) = 1 + Len(parts) /\ Len(head) > 1
      BY <1>1, <1>6, <3>1, DotFacts
    <3> QED
      BY <1>1, <1>6, <3>1, <3>2, DotFacts
  <2>3. \E p \in Dots, q \in Dots : key = p \o parts \o q
    BY <1>3, <2>1
  <2> HIDE DEF head
  <2>4. /\ key \in Seq(Parts) /\ key[1] = Empty /\ Len(key) = Len(head) + Len(slash)
        /\ slash # <<>> => key[Len(key)] = slash[Len(slash)]
        /\ slash = <<>> => key = head
        /\ Len(slash) \in Nat /\ Len(head) \in Nat
    <3>1. /\ head \o slash \in Seq(Parts) /\ Len(head \o slash) = Len(head) + Len(slash)
          /\ (head \o slash)[1] = head[1] /\ Len(slash) \in Nat /\ Len(head) \in Nat
          /\ slash # <<>> => (head \o slash)[Len(head \o slash)] = slash[Len(slash)]
          /\ slash = <<>> => head \o slash = head
      BY <1>3, <2>2, EndsOfConcat
    <3> QED
      BY <2>1, <2>2, <3>1
  <2>5. Len(key) > 1 /\ key # <<>>
    <3>1. Len(key) > 1
      BY <2>2, <2>4
    <3> QED
      BY <3>1, DotFacts
  <2>6. slash = Slash => key[Len(key)] = Empty
    BY <2>4, DotFacts
  <2>7. slash = <<>> => key[Len(key)] # Empty
    BY <1>2, <2>2, <2>4
  <2>8. key # Root
    <3>1. CASE slash = Slash
      <4>1. Len(key) > 2
        BY <2>2, <2>4, <3>1, DotFacts
      <4> QED
        BY <4>1, DotFacts
    <3>2. CASE slash = <<>>
      BY <2>7, <3>2, DotFacts
    <3> QED
      BY <3>1, <3>2
  <2>9. EndsWithSlash(key) <=> slash = Slash
    BY <1>4, <2>5, <2>6, <2>7
  <2> QED
    BY <1>4, <1>6, <2>3, <2>4, <2>5, <2>8, <2>9 DEF Shape
<1>7. CASE ~ absolute /\ parts = <<>>
  <2>1. key = Here \o slash
    BY <1>7 DEF Spelling
  <2>2. \E p \in Dots, q \in Dots : key = p \o parts \o q
    <3>1. Here \o <<>> = Here
      BY DotFacts, ConcatEmptySeq
    <3> QED
      BY <1>3, <1>7, <2>1, <3>1
  <2>3. /\ key \in Seq(Parts) /\ key[1] = Dot /\ Len(key) = 1 + Len(slash) /\ Len(slash) \in Nat
        /\ slash # <<>> => key[Len(key)] = slash[Len(slash)] /\ Len(slash) >= 1
        /\ slash = <<>> => key = Here
    BY <1>3, <2>1, DotFacts, EndsOfConcat
  <2>4. key # <<>> /\ key # Root
    <3>1. Len(key) >= 1
      BY <2>3
    <3> QED
      BY <1>2, <2>3, <3>1, DotFacts
  <2>5. slash = Slash => key[Len(key)] = Empty /\ Len(key) > 1
    BY <2>3, DotFacts
  <2>6. slash = <<>> => Len(key) = 1
    BY <2>3, DotFacts
  <2>7. key \in {Here, Here \o Slash}
    BY <2>1, <2>3
  <2>8. ~ IsAbsolute(key) /\ (EndsWithSlash(key) <=> slash = Slash)
    BY <1>2, <1>4, <2>3, <2>5, <2>6
  <2> QED
    BY <1>4, <1>7, <2>2, <2>3, <2>4, <2>7, <2>8 DEF Shape
<1>8. CASE ~ absolute /\ parts # <<>>
  <2>1. key = parts \o slash
    BY <1>8 DEF Spelling
  <2>2. \E p \in Dots, q \in Dots : key = p \o parts \o q
    <3>1. <<>> \o parts = parts
      BY <1>1, ConcatEmptySeq
    <3> QED
      BY <1>3, <2>1, <3>1
  <2>3. /\ key \in Seq(Parts) /\ key[1] \in Elements /\ Len(key) = Len(parts) + Len(slash)
        /\ slash # <<>> => key[Len(key)] = slash[Len(slash)] /\ Len(slash) >= 1
        /\ slash = <<>> => key = parts
        /\ Len(slash) \in Nat
    BY <1>1, <1>3, <1>8, <2>1, EndsOfConcat
  <2>4. key # <<>> /\ key # Root
    <3>1. Len(key) >= 1
      BY <1>1, <1>8, <2>3
    <3> QED
      BY <1>2, <2>3, <3>1, DotFacts
  <2>5. slash = Slash => key[Len(key)] = Empty /\ Len(key) > 1
    BY <1>1, <1>8, <2>3, DotFacts
  <2>6. slash = <<>> => key[Len(key)] # Empty
    BY <1>1, <1>2, <1>8, <2>3
  <2>7. ~ IsAbsolute(key) /\ (EndsWithSlash(key) <=> slash = Slash)
    BY <1>2, <1>4, <2>3, <2>5, <2>6
  <2> QED
    BY <1>4, <1>8, <2>1, <2>2, <2>3, <2>4, <2>7 DEF Shape
<1> QED
  BY <1>5, <1>6, <1>7, <1>8

SlashOf(path) == IF EndsWithSlash(path) THEN Slash ELSE <<>>

LEMMA NormalizedSpelling ==
  ASSUME NEW path
  PROVE  normalizePath(path) = Spelling(IsAbsolute(path), Collapse(IsAbsolute(path), path), SlashOf(path))
BY DEF normalizePath, Spelling, SlashOf, Root, Slash, Here, Empty, Dot

LEMMA WalkIsLoop ==
  ASSUME NEW from, NEW path
  PROVE  /\ IsAbsolute(path) => Walk(from, path) = Loop(Walking, <<>>, path)
         /\ ~ IsAbsolute(path) => Walk(from, path) = Loop(Walking, from, path)
BY DEF Walk, Walking

LEMMA SlashOfDots ==
  ASSUME NEW path
  PROVE  /\ SlashOf(path) \in {<<>>, Slash} /\ SlashOf(path) \in Dots
         /\ SlashOf(path) = Slash <=> EndsWithSlash(path)
BY DotFacts DEF SlashOf, Dots

\* A path that is a normal form between dots is normalized to the spelling of that form.
LEMMA NormalizedAroundDots ==
  ASSUME NEW absolute \in BOOLEAN, NEW parts, NormalForm(absolute, parts), NEW p \in Dots, NEW q \in Dots,
         NEW path, path = p \o parts \o q
  PROVE  (IsAbsolute(path) <=> absolute) =>
           normalizePath(path) = Spelling(absolute, parts, SlashOf(path))
<1> SUFFICES ASSUME IsAbsolute(path) <=> absolute
             PROVE  normalizePath(path) = Spelling(absolute, parts, SlashOf(path))
  OBVIOUS
<1>1. Collapse(absolute, path) = parts
  BY CollapseAroundDots
<1>2. IsAbsolute(path) = absolute
  BY DEF IsAbsolute
<1> QED
  BY <1>1, <1>2, NormalizedSpelling

\* A key and the same key after ./
LocalSpelling(key) ==
  /\ ~ IsAbsolute(key) /\ ~ IsAbsolute(Here \o key) /\ key # Root
  /\ EndsWithSlash(Here \o key) <=> EndsWithSlash(key)
  /\ normalizePath(Here \o key) = key

LEMMA NormalizedKey ==
  ASSUME NEW path \in Paths, NEW key, key = normalizePath(path)
  PROVE  /\ key \in Paths /\ (IsAbsolute(key) <=> IsAbsolute(path))
         /\ EndsWithSlash(key) <=> EndsWithSlash(path) \/ key = Root
         /\ \A from \in Seq(Parts) : Walk(from, key) = Walk(from, path)
         /\ normalizePath(key) = key
         /\ key[1] = Dot => key \in {Here, Here \o Slash}
         /\ key[1] \in Names => LocalSpelling(key)
<1> DEFINE A == IsAbsolute(path)
           C == Collapse(A, path)
           slash == SlashOf(path)
<1>1. A \in BOOLEAN /\ path \in Seq(Parts) /\ <<>> \in Seq(Parts)
  BY DotFacts DEF IsAbsolute, Paths
<1>2. key = Spelling(A, C, slash)
  BY NormalizedSpelling
<1>3. slash \in {<<>>, Slash} /\ slash \in Dots /\ (slash = Slash <=> EndsWithSlash(path))
  BY SlashOfDots
<1> HIDE DEF A, slash
<1>4. NormalForm(A, C)
  BY <1>1, CollapseWalks
<1>5. \A from \in Seq(Parts) :
        (A => from = <<>>) => Loop(Walking, from, C) = Loop(Walking, from, path)
  BY <1>1, CollapseWalks
<1> HIDE DEF C
<1>6. /\ key \in Paths /\ (IsAbsolute(key) <=> A)
      /\ EndsWithSlash(key) <=> slash = Slash \/ key = Root
      /\ \E p \in Dots, q \in Dots : key = p \o C \o q
      /\ C # <<>> /\ ~ A => key = C \o slash /\ key[1] \in Elements
      /\ C = <<>> /\ ~ A => key \in {Here, Here \o Slash} /\ key[1] = Dot
      /\ A => key[1] = Empty
      /\ key = Root => A /\ C = <<>>
  <2>1. Shape(A, C, slash, key)
    BY <1>1, <1>2, <1>3, <1>4, ShapeOfSpelling
  <2> QED
    BY <2>1 DEF Shape
<1>7. PICK p \in Dots, q \in Dots : key = p \o C \o q
  BY <1>6
<1>8. C \in Seq(Parts)
  BY <1>1, <1>4, NormalIsPath
<1>9. EndsWithSlash(key) <=> EndsWithSlash(path) \/ key = Root
  BY <1>3, <1>6
<1>10. \A from \in Seq(Parts) : Walk(from, key) = Walk(from, path)
  <2> TAKE from \in Seq(Parts)
  <2>1. CASE A
    <3>1. Walk(from, key) = Loop(Walking, <<>>, key)
      BY <1>6, <2>1, WalkIsLoop
    <3>2. Walk(from, path) = Loop(Walking, <<>>, path)
      BY <2>1, WalkIsLoop DEF A
    <3>3. Loop(Walking, <<>>, key) = Loop(Walking, <<>>, C)
      <4>1. \A at \in Seq(Parts) : Loop(Walking, at, key) = Loop(Walking, at, C)
        BY <1>7, <1>8, WalkAroundDots
      <4> QED
        BY <1>1, <4>1
    <3> QED
      BY <1>1, <1>5, <3>1, <3>2, <3>3
  <2>2. CASE ~ A
    <3>1. Walk(from, key) = Loop(Walking, from, key)
      BY <1>6, <2>2, WalkIsLoop
    <3>2. Walk(from, path) = Loop(Walking, from, path)
      BY <2>2, WalkIsLoop DEF A
    <3>3. Loop(Walking, from, key) = Loop(Walking, from, C)
      BY <1>7, <1>8, WalkAroundDots
    <3> QED
      BY <1>5, <2>2, <3>1, <3>2, <3>3
  <2> QED
    BY <2>1, <2>2
<1>11. normalizePath(key) = key
  <2>1. normalizePath(key) = Spelling(A, C, SlashOf(key))
    <3>1. (IsAbsolute(key) <=> A) => normalizePath(key) = Spelling(A, C, SlashOf(key))
      <4>1. \A d \in Dots, e \in Dots : \A k : k = d \o C \o e =>
              ((IsAbsolute(k) <=> A) => normalizePath(k) = Spelling(A, C, SlashOf(k)))
        BY <1>1, <1>4, NormalizedAroundDots
      <4> QED
        BY <1>7, <4>1
    <3> QED
      BY <1>6, <3>1
  <2>2. CASE key = Root
    <3>1. A /\ C = <<>>
      BY <1>6, <2>2
    <3> QED
      BY <2>1, <2>2, <3>1 DEF Spelling
  <2>3. CASE key # Root
    <3>1. EndsWithSlash(key) <=> EndsWithSlash(path)
      BY <1>9, <2>3
    <3>2. SlashOf(key) = slash
      BY <3>1 DEF SlashOf, slash
    <3> QED
      BY <1>2, <2>1, <3>2
  <2> QED
    BY <2>2, <2>3
<1>12. Empty \notin Names /\ Dot \notin Elements /\ Empty # Dot /\ Dot \notin Names /\ Names \subseteq Elements
  BY PartFacts DEF Elements
<1>13. key[1] = Dot => key \in {Here, Here \o Slash}
  BY <1>1, <1>6, <1>12
<1>14. ASSUME key[1] \in Names PROVE LocalSpelling(key)
  <2>1. ~ A /\ C # <<>> /\ ~ IsAbsolute(key) /\ key = C \o slash
    BY <1>1, <1>6, <1>12, <1>14
  <2> DEFINE local == Here \o key
  <2>2. local = Here \o C \o slash /\ Here \in Dots /\ slash \in Seq(Parts)
    <3>1. slash \in Seq(Parts) /\ Here \in Seq(Parts)
      BY <1>3, DotFacts
    <3>2. Here \o (C \o slash) = (Here \o C) \o slash
      BY <1>8, <3>1, ConcatAssociative
    <3> QED
      BY <2>1, <3>1, <3>2 DEF Dots
  <2>3. /\ Len(key) >= 1 /\ Len(local) = 1 + Len(key) /\ local[1] = Dot
        /\ local[Len(local)] = key[Len(key)] /\ Len(key) \in Nat
    <3>1. key \in Seq(Parts) /\ key # <<>>
      BY <1>6 DEF Paths
    <3> QED
      BY <3>1, DotFacts, EndsOfConcat
  <2> HIDE DEF local
  <2>4. ~ IsAbsolute(local)
    BY <1>12, <2>3, EndsOfPath
  <2>5. EndsWithSlash(local) <=> EndsWithSlash(key)
    <3>1. Len(key) = 1 => key[Len(key)] # Empty
      BY <1>12, <1>14
    <3>2. Len(key) = 1 \/ Len(key) > 1
      <4>1. \A n \in Nat : n >= 1 => n = 1 \/ n > 1
        OBVIOUS
      <4> QED
        BY <2>3, <4>1
    <3>3. Len(local) > 1
      BY <2>3
    <3>4. /\ EndsWithSlash(local) <=> Len(local) > 1 /\ local[Len(local)] = Empty
          /\ EndsWithSlash(key) <=> Len(key) > 1 /\ key[Len(key)] = Empty
      BY EndsOfPath
    <3> QED
      BY <2>3, <3>1, <3>2, <3>3, <3>4
  <2>6. key # Root
    BY <1>6, <2>1
  <2>7. SlashOf(local) = slash
    BY <1>9, <2>5, <2>6 DEF SlashOf, slash
  <2>8. normalizePath(local) = Spelling(A, C, SlashOf(local))
    <3>1. (IsAbsolute(local) <=> A) => normalizePath(local) = Spelling(A, C, SlashOf(local))
      <4>1. \A d \in Dots, e \in Dots : \A k : k = d \o C \o e =>
              ((IsAbsolute(k) <=> A) => normalizePath(k) = Spelling(A, C, SlashOf(k)))
        BY <1>1, <1>4, NormalizedAroundDots
      <4> QED
        BY <1>3, <2>2, <4>1
    <3> QED
      BY <2>1, <2>4, <3>1
  <2> QED
    BY <1>2, <2>1, <2>4, <2>5, <2>6, <2>7, <2>8 DEF local, LocalSpelling
<1> QED
  BY <1>6, <1>9, <1>10, <1>11, <1>13, <1>14 DEF A

LEMMA DirectoryOf ==
  ASSUME NEW base \in Paths, base # Slash
  PROVE  directoryOf(base) = Append(Front(base), Empty)
<1>1. base \in Seq(Parts) /\ base # <<>>
  BY DEF Paths
<1>2. base = Append(Front(base), Last(base))
  BY <1>1, FrontAndLast
<1>3. EndsWithSlash(base) => Last(base) = Empty
  BY DEF EndsWithSlash, Empty
<1>4. directoryOf(base) = IF EndsWithSlash(base) THEN base ELSE Append(Front(base), Empty)
  BY DEF directoryOf, Slash, Empty
<1> QED
  BY <1>2, <1>3, <1>4

LEMMA OnePart ==
  ASSUME NEW path \in Paths, path # Slash
  PROVE  /\ Len(path) \in Nat /\ Len(path) >= 1
         /\ Len(path) = 1 => path[1] # Empty
<1>1. path \in Seq(Parts) /\ path # <<>>
  BY DEF Paths
<1>2. Len(path) \in Nat /\ Len(path) # 0
  BY <1>1, LenProperties, EmptySeq
<1>3. ASSUME Len(path) = 1, path[1] = Empty PROVE FALSE
  <2>1. Len(path) = Len(Slash) /\ \A i \in 1..Len(path) : path[i] = Slash[i]
    BY <1>3, DotFacts
  <2>2. path = Slash
    BY <1>1, <2>1, DotFacts, SeqEqual
  <2> QED
    BY <2>2
<1> QED
  BY <1>2, <1>3

\* A reference, put after the directory of its base, leads where it leads from there.
LEMMA AgainstLeads ==
  ASSUME NEW base \in Paths, base # Slash, NEW ref \in Paths, ref # Slash, NEW start \in Seq(Parts)
  PROVE  /\ Against(base, ref) \in Paths
         /\ Walk(start, directoryOf(base)) \in Seq(Parts)
         /\ Walk(start, Against(base, ref)) = Walk(Walk(start, directoryOf(base)), ref)
         /\ EndsWithSlash(Against(base, ref)) <=> EndsWithSlash(ref)
<1> DEFINE front == Front(base)
           from == IF IsAbsolute(base) THEN <<>> ELSE start
           directory == Append(front, Empty)
<1>1. /\ base \in Seq(Parts) /\ base # <<>> /\ ref \in Seq(Parts) /\ ref # <<>>
      /\ <<>> \in Seq(Parts) /\ Empty \in Parts
  BY DotFacts, PartFacts DEF Paths
<1>2. /\ front \in Seq(Parts) /\ Len(front) = Len(base) - 1 /\ Len(base) \in Nat
      /\ \A i \in 1..(Len(base) - 1) : front[i] = base[i]
  BY <1>1, FrontAndLast
<1>3. /\ Len(ref) \in Nat /\ Len(ref) >= 1 /\ (Len(ref) = 1 => ref[1] # Empty)
      /\ Len(base) \in Nat /\ Len(base) >= 1
  BY OnePart
<1>4. from \in Seq(Parts)
  BY <1>1
<1>5. directoryOf(base) = directory
  BY DirectoryOf
<1>6. /\ directory \in Seq(Parts) /\ Len(directory) = Len(front) + 1
      /\ \A i \in 1..Len(front) : directory[i] = front[i]
      /\ Front(directory) = front
  BY <1>1, <1>2, AppendProperties, FrontOfAppend
<1>7. IsAbsolute(directory) <=> IsAbsolute(base)
  <2>1. Len(directory) = Len(base)
    BY <1>2, <1>6
  <2>2. Len(base) > 1 => directory[1] = base[1]
    BY <1>2, <1>6
  <2> QED
    BY <2>1, <2>2, EndsOfPath
<1>8. Walk(start, directoryOf(base)) = Loop(Walking, from, front)
  <2>1. Walk(start, directory) = Loop(Walking, from, directory)
    BY <1>7, WalkIsLoop
  <2>2. Loop(Walking, from, directory) = Walking[<<Loop(Walking, from, front), Empty>>]
    BY <1>1, <1>2, LoopOfAppend
  <2>3. Loop(Walking, from, front) \in Seq(Parts)
    BY <1>2, <1>4, PathStepsPassOver, PathLoopType
  <2>4. Walking[<<Loop(Walking, from, front), Empty>>] = Loop(Walking, from, front)
    BY <2>3, PathStepsPassOver DEF PassesOver, Nowhere
  <2> QED
    BY <1>5, <2>1, <2>2, <2>4
<1> HIDE DEF front, from, directory
<1>9. Loop(Walking, from, front) \in Seq(Parts)
  BY <1>2, <1>4, PathStepsPassOver, PathLoopType
<1>10. CASE IsAbsolute(ref)
  <2>1. Against(base, ref) = ref
    BY <1>10 DEF Against
  <2>2. Walk(start, ref) = Loop(Walking, <<>>, ref)
    BY <1>10, WalkIsLoop
  <2>3. Walk(Walk(start, directoryOf(base)), ref) = Loop(Walking, <<>>, ref)
    BY <1>10, WalkIsLoop
  <2> QED
    BY <1>8, <1>9, <2>1, <2>2, <2>3
<1>11. CASE ~ IsAbsolute(ref)
  <2> DEFINE path == front \o ref
  <2>1. Against(base, ref) = path
    BY <1>5, <1>6, <1>11 DEF Against
  <2>2. /\ path \in Seq(Parts) /\ Len(path) = Len(front) + Len(ref)
        /\ \A i \in 1..Len(front) : path[i] = front[i]
        /\ \A i \in 1..Len(ref) : path[Len(front) + i] = ref[i]
    <3>1. \A s \in Seq(Parts), t \in Seq(Parts) :
            /\ s \o t \in Seq(Parts) /\ Len(s \o t) = Len(s) + Len(t)
            /\ \A i \in 1..Len(s) : (s \o t)[i] = s[i]
            /\ \A i \in 1..Len(t) : (s \o t)[Len(s) + i] = t[i]
      BY ConcatProperties
    <3> QED
      BY <1>1, <1>2, <3>1
  <2>3. Loop(Walking, from, path) = Loop(Walking, Loop(Walking, from, front), ref)
    BY <1>1, <1>2, LoopOfConcat
  <2> HIDE DEF path
  <2>4. path[Len(path)] = ref[Len(ref)]
    <3>1. Len(ref) \in 1..Len(ref)
      BY <1>3
    <3> QED
      BY <2>2, <3>1
  <2>5. path \in Paths
    <3>1. Len(path) # 0
      BY <1>2, <1>3, <2>2
    <3> QED
      BY <2>2, <3>1, DotFacts DEF Paths
  <2>6. IsAbsolute(path) <=> IsAbsolute(base)
    <3>1. CASE Len(base) = 1
      <4>1. Len(front) = 0 /\ Len(path) = Len(ref) /\ \A i \in 1..Len(path) : path[i] = ref[i]
        BY <1>2, <1>3, <2>2, <3>1
      <4>2. path = ref
        BY <1>1, <2>2, <4>1, SeqEqual
      <4> QED
        BY <1>11, <3>1, <4>2, EndsOfPath
    <3>2. CASE Len(base) # 1
      <4>1. Len(base) > 1 /\ Len(path) > 1 /\ path[1] = base[1]
        BY <1>2, <1>3, <2>2, <3>2
      <4> QED
        BY <4>1, EndsOfPath
    <3> QED
      BY <3>1, <3>2
  <2>7. EndsWithSlash(path) <=> EndsWithSlash(ref)
    <3>1. CASE Len(ref) = 1
      <4>1. path[Len(path)] # Empty
        BY <1>3, <2>4, <3>1
      <4> QED
        BY <3>1, <4>1, EndsOfPath
    <3>2. CASE Len(ref) # 1
      <4>1. Len(ref) > 1
        <5>1. \A n \in Nat : n >= 1 /\ n # 1 => n > 1
          OBVIOUS
        <5> QED
          BY <1>3, <3>2, <5>1
      <4>2. Len(path) > 1
        BY <1>2, <1>3, <2>2, <4>1
      <4> QED
        BY <2>4, <4>1, <4>2, EndsOfPath
    <3> QED
      BY <3>1, <3>2
  <2>8. Walk(start, path) = Loop(Walking, from, path)
    BY <2>6, WalkIsLoop DEF from
  <2>9. Walk(Walk(start, directoryOf(base)), ref) = Loop(Walking, Loop(Walking, from, front), ref)
    BY <1>8, <1>11, WalkIsLoop
  <2> QED
    BY <1>8, <1>9, <2>1, <2>3, <2>5, <2>7, <2>8, <2>9
<1> QED
  BY <1>10, <1>11

\* A key that a document's reference is given, with the ./ it may be given.
LEMMA RelativeKey ==
  ASSUME NEW path \in Paths, NEW base, NEW key, key = normalizeRelativePath(path, base)
  PROVE  /\ key \in Paths
         /\ EndsWithSlash(key) <=> EndsWithSlash(path) \/ key = Root
         /\ \A from \in Seq(Parts) : Walk(from, key) = Walk(from, path)
         /\ normalizePath(key) = IF key[1] = Dot /\ Len(key) > 1 /\ key # Here \o Slash THEN Tail(key) ELSE key
<1> DEFINE normal == normalizePath(path)
           local == Here \o normal
           Prefixed == Len(base) > 1 /\ base[1] = "." /\ normal[1] \notin DotNames \cup {".", "..", ""}
<1>1. key = IF Prefixed THEN local ELSE normal
  BY DEF normalizeRelativePath, Here, Dot
<1> HIDE DEF normal
<1>2. /\ normal \in Paths /\ (IsAbsolute(normal) <=> IsAbsolute(path))
      /\ EndsWithSlash(normal) <=> EndsWithSlash(path) \/ normal = Root
      /\ \A from \in Seq(Parts) : Walk(from, normal) = Walk(from, path)
      /\ normalizePath(normal) = normal
      /\ normal[1] = Dot => normal \in {Here, Here \o Slash}
      /\ normal[1] \in Names => LocalSpelling(normal)
  BY NormalizedKey DEF normal
<1>3. CASE Prefixed
  <2>1. key = local
    BY <1>1, <1>3
  <2>2. normal[1] \in Names
    <3>1. normal \in Seq(Parts) /\ normal # <<>>
      BY <1>2 DEF Paths
    <3>2. 1 \in 1..Len(normal)
      BY <3>1, LenProperties, EmptySeq
    <3>3. normal[1] \in Parts
      BY <3>1, <3>2, ElementOfSeq
    <3> QED
      BY <1>3, <3>3 DEF Parts
  <2>3. LocalSpelling(normal)
    BY <1>2, <2>2
  <2>4. normal \in Seq(Parts)
    BY <1>2 DEF Paths
  <2>5. /\ local \in Seq(Parts) /\ Len(local) > 1 /\ local[1] = Dot /\ local[2] = normal[1]
        /\ Tail(local) = normal /\ Len(normal) \in Nat
    <3>1. normal # <<>>
      BY <1>2 DEF Paths
    <3>2. Len(normal) \in Nat /\ Len(normal) # 0
      BY <2>4, <3>1, LenProperties, EmptySeq
    <3>3. /\ local \in Seq(Parts) /\ Len(local) = 1 + Len(normal) /\ local[1] = Dot
          /\ \A i \in 1..Len(normal) : local[1 + i] = normal[i]
      BY <2>4, DotFacts, ConcatProperties
    <3> HIDE DEF local
    <3>4. local # <<>>
      BY <3>2, <3>3, DotFacts
    <3>5. /\ Tail(local) \in Seq(Parts) /\ Len(Tail(local)) = Len(local) - 1
          /\ \A i \in 1..Len(Tail(local)) : Tail(local)[i] = local[i + 1]
      BY <3>3, <3>4, HeadTailProperties
    <3>6. Len(Tail(local)) = Len(normal) /\ \A i \in 1..Len(Tail(local)) : Tail(local)[i] = normal[i]
      BY <3>2, <3>3, <3>5
    <3>7. Tail(local) = normal
      BY <2>4, <3>5, <3>6, SeqEqual
    <3> QED
      BY <3>2, <3>3, <3>7
  <2>6. local # Here \o Slash
    <3>1. (Here \o Slash)[2] = Empty
      <4>1. 1 \in 1..Len(Slash) /\ Len(Here) + 1 = 2
        BY DotFacts
      <4>2. (Here \o Slash)[Len(Here) + 1] = Slash[1]
        BY <4>1, DotFacts, ConcatProperties
      <4> QED
        BY <4>1, <4>2, DotFacts
    <3>2. Empty \notin Names
      BY PartFacts DEF Elements
    <3> QED
      BY <2>2, <2>5, <3>1, <3>2
  <2>7. local \in Paths /\ local # Root
    <3>1. local # <<>>
      BY <2>5, DotFacts
    <3> QED
      BY <2>5, <3>1, DotFacts, PartFacts DEF Paths
  <2>8. ASSUME NEW from \in Seq(Parts) PROVE Walk(from, local) = Walk(from, path)
    <3>1. Walk(from, local) = Loop(Walking, from, local) /\ Walk(from, normal) = Loop(Walking, from, normal)
      BY <2>3, WalkIsLoop DEF LocalSpelling
    <3>2. Loop(Walking, from, Here \o normal \o <<>>) = Loop(Walking, from, normal)
      BY <2>4, WalkAroundDots DEF Dots
    <3>3. Here \o normal \o <<>> = local
      BY <2>5, ConcatEmptySeq
    <3> QED
      BY <1>2, <3>1, <3>2, <3>3
  <2>9. /\ EndsWithSlash(local) <=> EndsWithSlash(path)
        /\ normalizePath(local) = normal
    BY <1>2, <2>3 DEF LocalSpelling
  <2> HIDE DEF local
  <2> QED
    BY <2>1, <2>5, <2>6, <2>7, <2>8, <2>9
<1>4. CASE ~ Prefixed
  <2>1. key = normal
    BY <1>1, <1>4
  <2>2. ~ (key[1] = Dot /\ Len(key) > 1 /\ key # Here \o Slash)
    <3>1. ~ (Len(Here) > 1)
      BY DotFacts
    <3>2. normal[1] = Dot => normal = Here \/ normal = Here \o Slash
      BY <1>2
    <3> QED
      BY <2>1, <3>1, <3>2
  <2> QED
    BY <1>2, <2>1, <2>2
<1> QED
  BY <1>3, <1>4

Bases == [form : {"hierarchical", "opaque", "plain"}, path : Paths, suffix : {None, "query", "fragment"}]

LEMMA ResolvedPath ==
  ASSUME NEW base \in Bases, NEW ref, ref.form = "path",
         NEW uri, uri = resolveCamResourceURI(base, ref), uri # Undefined
  PROVE  \/ /\ base.form = "hierarchical"
            /\ uri.path = normalizePath(Against(IF base.path = Slash THEN Root ELSE base.path, ref.path))
         \/ /\ base.form = "plain"
            /\ uri.path = normalizeRelativePath(Against(base.path, ref.path), base.path)
<1>1. CASE base.form = "hierarchical"
  <2>1. uri = [base EXCEPT !.path = normalizePath(Against(IF @ = <<"">> THEN <<"", "">> ELSE @, ref.path)),
                           !.suffix = ref.suffix]
    BY <1>1 DEF resolveCamResourceURI
  <2>2. uri.path = normalizePath(Against(IF base.path = <<"">> THEN <<"", "">> ELSE base.path, ref.path))
    BY <2>1 DEF Bases
  <2> QED
    BY <1>1, <2>2 DEF Slash, Root, Empty
<1>2. CASE base.form = "opaque"
  BY <1>2 DEF resolveCamResourceURI
<1>3. CASE base.form = "plain"
  <2>1. uri = [base EXCEPT !.path = normalizeRelativePath(Against(@, ref.path), @), !.suffix = ref.suffix]
    BY <1>3 DEF resolveCamResourceURI
  <2> QED
    BY <1>3, <2>1 DEF Bases
<1> QED
  BY <1>1, <1>2, <1>3 DEF Bases

LEMMA StartIsPath ==
  ASSUME NEW base
  PROVE  Start(base) \in Seq(Parts) /\ (base.form = "hierarchical" => Start(base) = <<>>)
<1>1. <<>> \in Seq(Parts)
  BY EmptySeq
<1>2. Deep \in Seq(Parts)
  <2>1. ".." \in Parts
    BY DEF Parts
  <2>2. \A e \in Parts : [i \in 1..8 |-> e] \in Seq(Parts)
    BY IsASeq
  <2> QED
    BY <2>1, <2>2 DEF Deep
<1> QED
  BY <1>1, <1>2 DEF Start

\* What KeysAreDeterministic says of the key of a reference, part by part.
Leads(base, ref, key) ==
  Walk(Start(base), key) = Walk(Walk(Start(base), directoryOf(base.path)), ref.path)
IsOfNames(base, ref, key) ==
  IsSecondary(ref) =>
    Walk(Start(base), key) = Walk(Start(base), directoryOf(base.path)) \o Tail(ref.path)
IsNormal(base, key) ==
  normalizePath(key) = IF base.form = "plain" /\ key[1] = Dot /\ Len(key) > 1 /\ key # Here \o Slash
                       THEN Tail(key) ELSE key
KeepsSlash(ref, key) == EndsWithSlash(key) <=> EndsWithSlash(ref.path) \/ key = Root

LEMMA SecondaryNames ==
  ASSUME NEW ref, ref.form = "path", ref.path \in Paths, IsSecondary(ref), NEW directory \in Seq(Parts)
  PROVE  Walk(directory, ref.path) = directory \o Tail(ref.path)
<1> DEFINE names == Tail(ref.path)
<1>1. /\ Len(ref.path) > 1 /\ ref.path[1] = Dot /\ isCamResourcePath(names)
  BY DEF IsSecondary, Dot
<1>2. ref.path \in Seq(Parts) /\ ref.path # <<>>
  BY DEF Paths
<1>3. names \in Seq(Parts) /\ ref.path = <<Head(ref.path)>> \o names
  BY <1>2, HeadTailProperties
<1>4. names \in Seq(Names)
  <2>1. \A i \in 1..Len(names) : names[i] \in Names
    <3>1. DOMAIN names = 1..Len(names)
      BY <1>3, LenProperties
    <3> QED
      BY <1>1, <3>1 DEF isCamResourcePath, Names
  <2>2. Len(names) \in Nat /\ names = [i \in 1..Len(names) |-> names[i]]
    BY <1>3, LenProperties
  <2>3. [i \in 1..Len(names) |-> names[i]] \in Seq(Names)
    BY <2>1, <2>2, IsASeq
  <2> QED
    BY <2>2, <2>3
<1>5. ref.path = Here \o names
  <2>1. Head(ref.path) = Dot
    BY <1>1
  <2> QED
    BY <1>3, <2>1 DEF Here
<1>6. ~ IsAbsolute(ref.path)
  BY <1>1, EndsOfPath, PartFacts
<1>7. Walk(directory, ref.path) = Loop(Walking, directory, ref.path)
  BY <1>6, WalkIsLoop
<1> HIDE DEF names
<1>8. Loop(Walking, directory, Here \o names) = Loop(Walking, directory, names)
  <2>1. Here \in Dots /\ <<>> \in Dots
    BY DEF Dots
  <2>2. Loop(Walking, directory, Here \o names \o <<>>) = Loop(Walking, directory, names)
    BY <1>3, <2>1, WalkAroundDots
  <2>3. Here \o names \in Seq(Parts)
    BY <1>3, DotFacts, ConcatProperties
  <2>4. (Here \o names) \o <<>> = Here \o names
    BY <2>3, ConcatEmptySeq
  <2> QED
    BY <2>2, <2>4
<1>9. Loop(Walking, directory, names) = directory \o names
  BY <1>4, NamesAreKept
<1> QED
  BY <1>5, <1>7, <1>8, <1>9 DEF names

LEMMA ResolvedKey ==
  ASSUME NEW base \in Bases, NEW ref, ref.form = "path", ref.path \in Paths, ref.path # Slash,
         base.form = "hierarchical" => base.path[1] = Empty, base.form = "plain" => base.path # Slash,
         NEW uri, uri = resolveCamResourceURI(base, ref), uri # Undefined
  PROVE  /\ Leads(base, ref, uri.path) /\ IsOfNames(base, ref, uri.path)
         /\ IsNormal(base, uri.path) /\ KeepsSlash(ref, uri.path)
<1> DEFINE start == Start(base)
           from == IF base.form = "hierarchical" /\ base.path = Slash THEN Root ELSE base.path
           path == Against(from, ref.path)
           key == uri.path
           directory == Walk(start, directoryOf(base.path))
<1>1. start \in Seq(Parts) /\ (base.form = "hierarchical" => start = <<>>) /\ base.path \in Paths
  BY StartIsPath DEF Bases
<1>2. from \in Paths /\ from # Slash
  <2>1. Root \in Paths /\ Root # Slash
    BY DotFacts DEF Paths
  <2>2. base.form \in {"hierarchical", "opaque", "plain"}
    BY DEF Bases
  <2>3. base.form # "opaque"
    BY ResolvedPath
  <2> QED
    BY <1>1, <2>1, <2>2, <2>3
<1>3. Walk(start, directoryOf(from)) = directory
  <2>1. CASE base.form = "hierarchical" /\ base.path = Slash
    <3>1. directoryOf(Slash) = Slash
      BY DEF directoryOf, Slash, Empty
    <3>2. /\ Len(Root) > 1 /\ Root[1] = Empty /\ Root[Len(Root)] = Empty
          /\ ~ (Len(Slash) > 1)
      BY DotFacts
    <3>3. IsAbsolute(Root) /\ EndsWithSlash(Root) /\ ~ IsAbsolute(Slash)
      BY <3>2, EndsOfPath
    <3>4. directoryOf(Root) = Root
      BY <3>3 DEF directoryOf
    <3>5. Walk(start, Slash) = Loop(Walking, <<>>, Slash) /\ Walk(start, Root) = Loop(Walking, <<>>, Root)
      BY <1>1, <2>1, <3>3, WalkIsLoop
    <3>6. Loop(Walking, <<>>, Slash) = <<>>
      BY DotFacts, PathStepsPassOver, LoopOverDots DEF Dots
    <3>7. Loop(Walking, <<>>, Root) = <<>>
      <4>1. Slash \in Dots /\ <<>> \in Seq(Parts)
        BY DotFacts DEF Dots
      <4>2. \A s \in Seq(Parts) : Loop(Walking, <<>>, Slash \o s \o Slash) = Loop(Walking, <<>>, s)
        BY <4>1, WalkAroundDots
      <4>3. Loop(Walking, <<>>, Root) = Loop(Walking, <<>>, <<>>)
        BY <4>1, <4>2, DotFacts
      <4> QED
        BY <4>3, LoopOfNone
    <3> QED
      BY <2>1, <3>1, <3>4, <3>5, <3>6, <3>7
  <2>2. CASE ~ (base.form = "hierarchical" /\ base.path = Slash)
    BY <2>2
  <2> QED
    BY <2>1, <2>2
<1>4. \/ base.form = "hierarchical" /\ key = normalizePath(path)
      \/ base.form = "plain" /\ key = normalizeRelativePath(path, base.path)
  BY ResolvedPath
<1> HIDE DEF start, from
<1>5. /\ path \in Paths /\ directory \in Seq(Parts) /\ Walk(start, path) = Walk(directory, ref.path)
      /\ EndsWithSlash(path) <=> EndsWithSlash(ref.path)
  BY <1>1, <1>2, <1>3, AgainstLeads
<1> HIDE DEF path, directory
<1>6. /\ EndsWithSlash(key) <=> EndsWithSlash(path) \/ key = Root
      /\ Walk(start, key) = Walk(start, path)
      /\ IsNormal(base, key)
  <2>1. CASE base.form = "hierarchical" /\ key = normalizePath(path)
    <3>1. base.form # "plain"
      BY <2>1
    <3> QED
      BY <1>1, <1>5, <2>1, <3>1, NormalizedKey DEF IsNormal
  <2>2. CASE base.form = "plain" /\ key = normalizeRelativePath(path, base.path)
    <3>1. normalizePath(key) = IF key[1] = Dot /\ Len(key) > 1 /\ key # Here \o Slash THEN Tail(key) ELSE key
      BY <1>5, <2>2, RelativeKey
    <3>2. IsNormal(base, key)
      BY <2>2, <3>1 DEF IsNormal
    <3> QED
      BY <1>1, <1>5, <2>2, <3>2, RelativeKey
  <2> QED
    BY <1>4, <2>1, <2>2
<1>7. IsOfNames(base, ref, key)
  <2>1. IsSecondary(ref) => Walk(directory, ref.path) = directory \o Tail(ref.path)
    BY <1>5, SecondaryNames
  <2> QED
    BY <1>5, <1>6, <2>1 DEF IsOfNames, start, directory
<1>8. Leads(base, ref, key)
  BY <1>5, <1>6 DEF Leads, start, directory
<1> QED
  BY <1>5, <1>6, <1>7, <1>8 DEF KeepsSlash
-----------------------------------------------------------------------------
(* Numbers                                                                  *)

\* The value of the digits read so far, most significant first.
IsValue(r, radix, digits) ==
  /\ \A i \in 0..Len(digits) : r[i] \in Nat
  /\ r[0] = 0 /\ \A i \in 1..Len(digits) : r[i] = radix * r[i - 1] + digits[i]
  /\ BigEndian(radix, digits) = r[Len(digits)]

LEMMA BigEndianRun ==
  ASSUME NEW radix \in Nat, NEW digits \in Seq(Nat)
  PROVE  \E r : IsValue(r, radix, digits)
<1> DEFINE step == [x \in Nat \X Nat |-> radix * x[1] + x[2]]
           r == Run(step, 0, digits)
<1>1. Len(digits) \in Nat /\ \A i \in 1..Len(digits) : digits[i] \in Nat
  BY LenProperties, ElementOfSeq
<1>2. \A a \in Nat, d \in Nat : step[<<a, d>>] = radix * a + d /\ step[<<a, d>>] \in Nat
  OBVIOUS
<1>3. BigEndian(radix, digits) = r[Len(digits)]
  BY DEF BigEndian, Loop
<1> HIDE DEF step
<1>4. r[0] = 0 /\ \A i \in 1..Len(digits) : r[i] = step[<<r[i - 1], digits[i]>>]
  BY <1>1, RunSteps
<1>5. \A i \in 0..Len(digits) : r[i] \in Nat
  BY <1>2, RunType
<1> HIDE DEF r
<1>6. \A i \in 1..Len(digits) : r[i] = radix * r[i - 1] + digits[i]
  <2> TAKE i \in 1..Len(digits)
  <2>1. r[i - 1] \in Nat /\ digits[i] \in Nat
    BY <1>1, <1>5
  <2> QED
    BY <1>2, <1>4, <2>1
<1>7. IsValue(r, radix, digits)
  BY <1>3, <1>4, <1>5, <1>6 DEF IsValue
<1> QED
  BY <1>7

LEMMA BigEndianOfAppend ==
  ASSUME NEW radix \in Nat, NEW digits \in Seq(Nat), NEW d \in Nat
  PROVE  /\ BigEndian(radix, digits) \in Nat
         /\ BigEndian(radix, Append(digits, d)) = radix * BigEndian(radix, digits) + d
<1> DEFINE step == [x \in Nat \X Nat |-> radix * x[1] + x[2]]
<1>1. \A a \in Nat, e \in Nat : step[<<a, e>>] = radix * a + e /\ step[<<a, e>>] \in Nat
  OBVIOUS
<1>2. BigEndian(radix, digits) = Loop(step, 0, digits)
  BY DEF BigEndian
<1>3. BigEndian(radix, Append(digits, d)) = Loop(step, 0, Append(digits, d))
  BY DEF BigEndian
<1> HIDE DEF step
<1>4. Loop(step, 0, digits) \in Nat
  BY <1>1, LoopType
<1>5. Loop(step, 0, Append(digits, d)) = step[<<Loop(step, 0, digits), d>>]
  BY LoopOfAppend
<1> QED
  BY <1>1, <1>2, <1>3, <1>4, <1>5

LEMMA BigEndianIsNumber ==
  ASSUME NEW radix \in Nat, NEW digits \in Seq(Nat)
  PROVE  BigEndian(radix, digits) \in Nat
<1>1. PICK d \in Nat : d = 0
  OBVIOUS
<1> QED
  BY <1>1, BigEndianOfAppend

\* The bits that leave the buffer of base 32 are the bits that came in: what the buffer
\* loses, past 2^13, is not needed any more.
LEMMA Modulo ==
  ASSUME NEW x \in Nat
  PROVE  /\ x % BufferSize \in 0..(BufferSize - 1)
         /\ \E m \in Int : x = 8192 * m + (x % BufferSize)
<1>1. BufferSize \in Nat \ {0} /\ BufferSize % 8192 = 0
  BY NumbersAssumption
<1>2. PICK k \in Nat : BufferSize = 8192 * k
  <2>1. \A b \in Nat : b % 8192 = 0 => b = 8192 * (b \div 8192) /\ b \div 8192 \in Nat
    OBVIOUS
  <2> QED
    BY <1>1, <2>1
<1>3. /\ x % BufferSize \in 0..(BufferSize - 1)
      /\ x = BufferSize * (x \div BufferSize) + (x % BufferSize)
      /\ x \div BufferSize \in Int
  <2>1. \A b \in Nat \ {0} : x % b \in 0..(b - 1) /\ x = b * (x \div b) + (x % b) /\ x \div b \in Int
    OBVIOUS
  <2> QED
    BY <1>1, <2>1
<1>4. PICK q \in Int : x = BufferSize * q + (x % BufferSize)
  BY <1>3
<1>5. BufferSize * q = 8192 * (k * q) /\ k * q \in Int
  <2>1. \A a \in Int, b \in Int : (8192 * a) * b = 8192 * (a * b) /\ a * b \in Int
    OBVIOUS
  <2> QED
    BY <1>2, <2>1
<1> QED
  BY <1>3, <1>4, <1>5

Power(b) == 2^b

LEMMA PowersOfTwo ==
  /\ Power(0) = 1 /\ Power(1) = 2 /\ Power(2) = 4 /\ Power(3) = 8
  /\ Power(4) = 16 /\ Power(5) = 32 /\ Power(6) = 64 /\ Power(7) = 128
  /\ \A b \in 0..7 : Power(b) \in Nat \ {0}
  /\ \A b \in 0..2 : Power(b + 5) = 32 * Power(b)
  /\ \A b \in 3..7 : Power(b) = 8 * Power(b - 3)
<1>1. /\ Power(0) = 1 /\ Power(1) = 2 /\ Power(2) = 4 /\ Power(3) = 8
      /\ Power(4) = 16 /\ Power(5) = 32 /\ Power(6) = 64 /\ Power(7) = 128
  BY DEF Power
<1>2. ASSUME NEW b \in 0..7 PROVE Power(b) \in Nat \ {0}
  <2>1. b = 0 \/ b = 1 \/ b = 2 \/ b = 3 \/ b = 4 \/ b = 5 \/ b = 6 \/ b = 7
    OBVIOUS
  <2> QED
    BY <1>1, <2>1
<1>3. ASSUME NEW b \in 0..2 PROVE Power(b + 5) = 32 * Power(b)
  <2>1. \/ b = 0 /\ b + 5 = 5
        \/ b = 1 /\ b + 5 = 6
        \/ b = 2 /\ b + 5 = 7
    OBVIOUS
  <2> QED
    BY <1>1, <2>1
<1>4. ASSUME NEW b \in 3..7 PROVE Power(b) = 8 * Power(b - 3)
  <2>1. \/ b = 3 /\ b - 3 = 0
        \/ b = 4 /\ b - 3 = 1
        \/ b = 5 /\ b - 3 = 2
        \/ b = 6 /\ b - 3 = 3
        \/ b = 7 /\ b - 3 = 4
    OBVIOUS
  <2> QED
    BY <1>1, <2>1
<1> QED
  BY <1>1, <1>2, <1>3, <1>4

LEMMA FiveBitsIn ==
  ASSUME NEW old \in Nat, NEW d \in 0..31, NEW new \in Nat, NEW m \in Int, old * 32 + d = 8192 * m + new
  PROVE  /\ new % 32 = 32 * (old % 1) + d
         /\ new % 64 = 32 * (old % 2) + d
         /\ new % 128 = 32 * (old % 4) + d
         /\ new % 256 = 32 * (old % 8) + d
         /\ new % 512 = 32 * (old % 16) + d
         /\ new % 1024 = 32 * (old % 32) + d
         /\ new % 2048 = 32 * (old % 64) + d
         /\ new % 4096 = 32 * (old % 128) + d
<1>1. /\ new % 32 = (old * 32 + d) % 32
      /\ new % 64 = (old * 32 + d) % 64
      /\ new % 128 = (old * 32 + d) % 128
      /\ new % 256 = (old * 32 + d) % 256
      /\ new % 512 = (old * 32 + d) % 512
      /\ new % 1024 = (old * 32 + d) % 1024
      /\ new % 2048 = (old * 32 + d) % 2048
      /\ new % 4096 = (old * 32 + d) % 4096
  OBVIOUS
<1>2. /\ (old * 32 + d) % 32 = 32 * (old % 1) + d
      /\ (old * 32 + d) % 64 = 32 * (old % 2) + d
      /\ (old * 32 + d) % 128 = 32 * (old % 4) + d
      /\ (old * 32 + d) % 256 = 32 * (old % 8) + d
      /\ (old * 32 + d) % 512 = 32 * (old % 16) + d
      /\ (old * 32 + d) % 1024 = 32 * (old % 32) + d
      /\ (old * 32 + d) % 2048 = 32 * (old % 64) + d
      /\ (old * 32 + d) % 4096 = 32 * (old % 128) + d
  OBVIOUS
<1> QED
  BY <1>1, <1>2

LEMMA ByteOut ==
  ASSUME NEW x \in Nat
  PROVE  /\ 1 * ((x \div 1) % 256) + (x % 1) = x % 256
         /\ 2 * ((x \div 2) % 256) + (x % 2) = x % 512
         /\ 4 * ((x \div 4) % 256) + (x % 4) = x % 1024
         /\ 8 * ((x \div 8) % 256) + (x % 8) = x % 2048
         /\ 16 * ((x \div 16) % 256) + (x % 16) = x % 4096
<1>1. 1 * ((x \div 1) % 256) + (x % 1) = x % 256
  OBVIOUS
<1>2. 2 * ((x \div 2) % 256) + (x % 2) = x % 512
  OBVIOUS
<1>3. 4 * ((x \div 4) % 256) + (x % 4) = x % 1024
  OBVIOUS
<1>4. 8 * ((x \div 8) % 256) + (x % 8) = x % 2048
  OBVIOUS
<1>5. 16 * ((x \div 16) % 256) + (x % 16) = x % 4096
  OBVIOUS
<1> QED
  BY <1>1, <1>2, <1>3, <1>4, <1>5

\* Base 32.  After i characters the bytes and the bits that wait are the number so far.
Accs == [buffer : 0..BufferSize - 1, bits : 0..7, bytes : Seq(Bytes)]

Base32Holds(acc, i, number) ==
  /\ acc \in Accs
  /\ acc.bits = (5 * i) % 8 /\ Len(acc.bytes) = (5 * i) \div 8
  /\ Power(acc.bits) * BigEndian(256, acc.bytes) + (acc.buffer % Power(acc.bits)) = number

LEMMA BytesAreNumbers ==
  ASSUME NEW s \in Seq(Bytes)
  PROVE  s \in Seq(Nat)
<1>1. Bytes \subseteq Nat
  BY DEF Bytes
<1> QED
  BY <1>1, SeqMonotonic

Low(x, p) == x % p
ByteAbove(x, p) == (x \div p) % 256

\* The buffer keeps the low bits of what came in.
SameBits(old, d, new) == \E m \in Int : old * 32 + d = 8192 * m + new

\* What one character does to the b bits that wait in the buffer.
Shifts(old, d, new) ==
  /\ \A b \in 0..2 : Low(new, Power(b + 5)) = 32 * Low(old, Power(b)) + d
  /\ \A b \in 3..7 :
       Power(b - 3) * ByteAbove(new, Power(b - 3)) + Low(new, Power(b - 3)) = 32 * Low(old, Power(b)) + d

LEMMA BitsAndByte ==
  ASSUME NEW old \in Nat, NEW d \in 0..31, NEW new \in Nat, SameBits(old, d, new)
  PROVE  Shifts(old, d, new)
<1>1. /\ Low(new, 32) = 32 * Low(old, 1) + d
      /\ Low(new, 64) = 32 * Low(old, 2) + d
      /\ Low(new, 128) = 32 * Low(old, 4) + d
  BY FiveBitsIn DEF Low, SameBits
<1>2. /\ 1 * ByteAbove(new, 1) + Low(new, 1) = 32 * Low(old, 8) + d
      /\ 2 * ByteAbove(new, 2) + Low(new, 2) = 32 * Low(old, 16) + d
      /\ 4 * ByteAbove(new, 4) + Low(new, 4) = 32 * Low(old, 32) + d
      /\ 8 * ByteAbove(new, 8) + Low(new, 8) = 32 * Low(old, 64) + d
      /\ 16 * ByteAbove(new, 16) + Low(new, 16) = 32 * Low(old, 128) + d
  BY FiveBitsIn, ByteOut DEF Low, ByteAbove, SameBits
<1>3. ASSUME NEW b \in 0..2 PROVE Low(new, Power(b + 5)) = 32 * Low(old, Power(b)) + d
  <2>1. \/ b = 0 /\ b + 5 = 5
        \/ b = 1 /\ b + 5 = 6
        \/ b = 2 /\ b + 5 = 7
    OBVIOUS
  <2> QED
    BY <1>1, <2>1, PowersOfTwo
<1>4. ASSUME NEW b \in 3..7
      PROVE  Power(b - 3) * ByteAbove(new, Power(b - 3)) + Low(new, Power(b - 3)) = 32 * Low(old, Power(b)) + d
  <2>1. \/ b = 3 /\ b - 3 = 0
        \/ b = 4 /\ b - 3 = 1
        \/ b = 5 /\ b - 3 = 2
        \/ b = 6 /\ b - 3 = 3
        \/ b = 7 /\ b - 3 = 4
    OBVIOUS
  <2> QED
    BY <1>2, <2>1, PowersOfTwo
<1> QED
  BY <1>3, <1>4 DEF Shifts

LEMMA Base32StepHolds ==
  ASSUME NEW acc, NEW i \in Nat, NEW number \in Nat, Base32Holds(acc, i, number), NEW d \in 0..31
  PROVE  Base32Holds(Base32Step(acc, d), i + 1, 32 * number + d)
<1> DEFINE x == acc.buffer * 32 + d
           new == x % BufferSize
           bits == acc.bits
           V == BigEndian(256, acc.bytes)
           next == Base32Step(acc, d)
<1>1. /\ acc \in Accs /\ acc.bytes \in Seq(Bytes) /\ bits \in 0..7 /\ acc.buffer \in Nat
      /\ bits = (5 * i) % 8 /\ Len(acc.bytes) = (5 * i) \div 8
      /\ Power(bits) * V + (acc.buffer % Power(bits)) = number
  <2>1. BufferSize \in Nat
    BY NumbersAssumption
  <2> QED
    BY <2>1 DEF Base32Holds, Accs
<1>2. acc.bytes \in Seq(Nat)
  BY <1>1, BytesAreNumbers
<1>3. V \in Nat
  BY <1>2, BigEndianIsNumber
<1>4. x \in Nat
  BY <1>1
<1> HIDE DEF V, x
<1>5. new \in 0..(BufferSize - 1) /\ \E m \in Int : x = 8192 * m + new
  BY <1>4, Modulo
<1>6. new \in Nat
  <2>1. BufferSize \in Nat
    BY NumbersAssumption
  <2> QED
    BY <1>5, <2>1
<1> HIDE DEF new
<1>7. PICK m \in Int : acc.buffer * 32 + d = 8192 * m + new
  BY <1>5 DEF x
<1>8. /\ \A b \in 0..2 : new % Power(b + 5) = 32 * (acc.buffer % Power(b)) + d
      /\ \A b \in 3..7 :
           Power(b - 3) * ((new \div Power(b - 3)) % 256) + (new % Power(b - 3)) = 32 * (acc.buffer % Power(b)) + d
  <2>1. PICK old \in Nat : old = acc.buffer
    BY <1>1
  <2>2. SameBits(old, d, new)
    BY <1>7, <2>1 DEF SameBits
  <2>3. Shifts(old, d, new)
    BY <1>6, <2>1, <2>2, BitsAndByte
  <2> QED
    BY <2>1, <2>3, Zenon DEF Shifts, Low, ByteAbove
<1>9. CASE bits \in 0..2
  <2>1. next = [acc EXCEPT !.buffer = new, !.bits = bits + 5]
    BY <1>9 DEF Base32Step, new, x
  <2>2. next \in Accs /\ next.bits = bits + 5 /\ next.buffer = new /\ next.bytes = acc.bytes
    <3>1. bits + 5 \in 0..7
      BY <1>1, <1>9
    <3>2. acc \in [buffer : 0..BufferSize - 1, bits : 0..7, bytes : Seq(Bytes)]
      BY <1>1 DEF Accs
    <3>3. new \in 0..BufferSize - 1
      BY <1>5
    <3> QED
      BY <2>1, <3>1, <3>2, <3>3 DEF Accs
  <2>3. bits + 5 = (5 * (i + 1)) % 8 /\ (5 * i) \div 8 = (5 * (i + 1)) \div 8
    BY <1>1, <1>9
  <2>4. Power(bits + 5) * V + (new % Power(bits + 5)) = 32 * number + d
    <3>1. Power(bits + 5) = 32 * Power(bits) /\ Power(bits) \in Nat
      BY <1>1, <1>9, PowersOfTwo
    <3>2. new % Power(bits + 5) = 32 * (acc.buffer % Power(bits)) + d /\ acc.buffer % Power(bits) \in Nat
      <4>1. Power(bits) \in Nat \ {0}
        BY <1>1, PowersOfTwo
      <4>2. acc.buffer % Power(bits) \in Nat
        BY <1>1, <4>1
      <4> QED
        BY <1>8, <1>9, <4>2
    <3>3. \A p \in Nat, o \in Nat : (32 * p) * V + (32 * o + d) = 32 * (p * V + o) + d
      BY <1>3
    <3>4. (32 * Power(bits)) * V + (32 * (acc.buffer % Power(bits)) + d) = 32 * (Power(bits) * V + (acc.buffer % Power(bits))) + d
      BY <3>1, <3>2, <3>3
    <3> QED
      BY <1>1, <3>1, <3>2, <3>4, Zenon
  <2> QED
    BY <1>1, <2>2, <2>3, <2>4 DEF Base32Holds, V
<1>10. CASE bits \in 3..7
  <2> DEFINE byte == (new \div Power(bits - 3)) % 256
  <2>1. next = [buffer |-> new, bits |-> bits - 3, bytes |-> Append(acc.bytes, byte)]
    <3>1. ~ (bits + 5 < 8) /\ (bits + 5) - 8 = bits - 3
      BY <1>10
    <3> QED
      BY <3>1 DEF Base32Step, new, x, byte, Power
  <2>2. byte \in Bytes /\ byte \in Nat
    <3>1. Power(bits - 3) \in Nat \ {0}
      BY <1>10, PowersOfTwo
    <3>2. \A p \in Nat \ {0} : (new \div p) % 256 \in 0..255
      BY <1>6
    <3> QED
      BY <3>1, <3>2 DEF Bytes
  <2>3. BigEndian(256, Append(acc.bytes, byte)) = 256 * V + byte
    BY <1>2, <2>2, BigEndianOfAppend DEF V
  <2> HIDE DEF byte
  <2>4. /\ next \in Accs /\ next.bits = bits - 3 /\ next.buffer = new /\ next.bytes = Append(acc.bytes, byte)
        /\ Len(next.bytes) = Len(acc.bytes) + 1
    <3>1. Append(acc.bytes, byte) \in Seq(Bytes) /\ Len(Append(acc.bytes, byte)) = Len(acc.bytes) + 1
      BY <1>1, <2>2, AppendProperties
    <3>2. bits - 3 \in 0..7
      BY <1>10
    <3> QED
      BY <1>5, <2>1, <3>1, <3>2 DEF Accs
  <2>5. bits - 3 = (5 * (i + 1)) % 8 /\ ((5 * i) \div 8) + 1 = (5 * (i + 1)) \div 8
    BY <1>1, <1>10
  <2>6. Power(bits - 3) * (256 * V + byte) + (new % Power(bits - 3)) = 32 * number + d
    <3> DEFINE low == new % Power(bits - 3)
               o == acc.buffer % Power(bits)
    <3>1. Power(bits) = 8 * Power(bits - 3) /\ Power(bits - 3) \in Nat
      BY <1>10, PowersOfTwo
    <3>2. Power(bits - 3) * byte + low = 32 * o + d
      BY <1>8, <1>10 DEF byte
    <3>3. low \in Nat /\ o \in Nat
      <4>1. Power(bits) \in Nat \ {0} /\ Power(bits - 3) \in Nat \ {0}
        BY <1>10, PowersOfTwo
      <4> QED
        BY <1>1, <1>6, <4>1
    <3> HIDE DEF low, o
    <3>4. \A p \in Nat, a \in Nat, b \in Nat :
            p * byte + a = 32 * b + d => p * (256 * V + byte) + a = 32 * ((8 * p) * V + b) + d
      <4> TAKE p \in Nat, a \in Nat, b \in Nat
      <4>1. p * (256 * V + byte) = (256 * p) * V + p * byte /\ 32 * ((8 * p) * V + b) = (256 * p) * V + 32 * b
        BY <1>3, <2>2
      <4>2. (256 * p) * V \in Nat /\ p * byte \in Nat
        BY <1>3, <2>2
      <4> QED
        BY <4>1, <4>2
    <3>5. Power(bits - 3) * (256 * V + byte) + low = 32 * ((8 * Power(bits - 3)) * V + o) + d
      BY <3>1, <3>2, <3>3, <3>4
    <3> QED
      BY <1>1, <3>1, <3>5, Zenon DEF low, o
  <2> QED
    BY <1>1, <2>3, <2>4, <2>5, <2>6 DEF Base32Holds
<1>11. bits \in 0..2 \/ bits \in 3..7
  BY <1>1
<1> QED
  BY <1>9, <1>10, <1>11

LEMMA NoDigits ==
  ASSUME NEW radix \in Nat
  PROVE  BigEndian(radix, <<>>) = 0
BY LoopOfNone DEF BigEndian

Splits(a, p, q, t) == a = p * q + t /\ t < p

LEMMA QuotientAndRest ==
  ASSUME NEW p \in Nat \ {0}, NEW q \in Nat, NEW t \in Nat, NEW a \in Nat, Splits(a, p, q, t)
  PROVE  a % p = t /\ a \div p = q
<1>1. PICK k \in Nat, s \in Nat : k = a \div p /\ s = a % p /\ s < p /\ a = p * k + s
  <2>1. a \div p \in Nat /\ a % p \in Nat /\ a % p < p /\ a = p * (a \div p) + (a % p)
    OBVIOUS
  <2> QED
    BY <2>1
<1>2. ~ (k < q)
  <2>1. SUFFICES ASSUME k + 1 <= q PROVE FALSE
    OBVIOUS
  <2>2. PICK e \in Nat : q = (k + 1) + e
    BY <2>1
  <2>3. p * ((k + 1) + e) = p * k + p + p * e /\ p * e \in Nat /\ p * k \in Nat
    OBVIOUS
  <2> QED
    BY <1>1, <2>2, <2>3 DEF Splits
<1>3. ~ (q < k)
  <2>1. SUFFICES ASSUME q + 1 <= k PROVE FALSE
    OBVIOUS
  <2>2. PICK e \in Nat : k = (q + 1) + e
    BY <2>1
  <2>3. p * ((q + 1) + e) = p * q + p + p * e /\ p * e \in Nat /\ p * q \in Nat
    OBVIOUS
  <2> QED
    BY <1>1, <2>2, <2>3 DEF Splits
<1>4. k = q
  BY <1>2, <1>3
<1>5. s = t
  BY <1>1, <1>4 DEF Splits
<1> QED
  BY <1>1, <1>4, <1>5

\* What IdentifiersAreExact says of base 32.
LEMMA Base32IsExact ==
  ASSUME NEW digits \in Seq(0..31)
  PROVE  LET number == BigEndian(32, digits)
             spare == (5 * Len(digits)) % 8
         IN IF number % 2^spare # 0 THEN decodeBase32(digits) = Undefined
            ELSE /\ decodeBase32(digits) \in Seq(Bytes) /\ Len(decodeBase32(digits)) = (5 * Len(digits)) \div 8
                 /\ BigEndian(256, decodeBase32(digits)) = number \div 2^spare
<1> DEFINE step == [x \in Accs \X (0..31) |-> Base32Step(x[1], x[2])]
           base == [buffer |-> 0, bits |-> 0, bytes |-> <<>>]
           run == Run(step, base, digits)
           n == Len(digits)
           number == BigEndian(32, digits)
           spare == (5 * n) % 8
           end == run[n]
           P == Power(spare)
<1>1. n \in Nat /\ \A i \in 1..n : digits[i] \in 0..31
  BY LenProperties, ElementOfSeq
<1>2. digits \in Seq(Nat)
  <2>1. 0..31 \subseteq Nat
    OBVIOUS
  <2> QED
    BY <2>1, SeqMonotonic
<1>3. PICK r : IsValue(r, 32, digits)
  BY <1>2, BigEndianRun
<1>4. /\ \A i \in 0..n : r[i] \in Nat
      /\ r[0] = 0 /\ \A i \in 1..n : r[i] = 32 * r[i - 1] + digits[i]
      /\ number = r[n]
  BY <1>3 DEF IsValue
<1>5. decodeBase32(digits) = IF end.buffer % 2^end.bits # 0 THEN Undefined ELSE end.bytes
  BY DEF decodeBase32, Accs, Loop
<1>6. \A a \in Accs, d \in 0..31 : step[<<a, d>>] = Base32Step(a, d)
  OBVIOUS
<1> HIDE DEF step, number
<1>7. run[0] = base /\ \A i \in 1..n : run[i] = step[<<run[i - 1], digits[i]>>]
  BY <1>1, RunSteps
<1>8. Base32Holds(base, 0, 0)
  <2>1. base \in Accs
    <3>1. 0 \in 0..(BufferSize - 1)
      BY NumbersAssumption
    <3>2. <<>> \in Seq(Bytes)
      BY EmptySeq
    <3> QED
      BY <3>1, <3>2 DEF Accs
  <2>2. base.bits = 0 /\ base.bytes = <<>> /\ base.buffer = 0 /\ Len(<<>>) = 0
    BY EmptySeq
  <2>3. BigEndian(256, <<>>) = 0
    BY NoDigits
  <2>4. 0 = (5 * 0) % 8 /\ 0 = (5 * 0) \div 8 /\ 1 * 0 + (0 % 1) = 0
    OBVIOUS
  <2> QED
    BY <2>1, <2>2, <2>3, <2>4, PowersOfTwo DEF Base32Holds
<1> HIDE DEF base, run
<1> DEFINE S == {i \in 0..n : Base32Holds(run[i], i, r[i])}
<1>9. 0 \in S
  BY <1>1, <1>4, <1>7, <1>8
<1>10. ASSUME NEW i \in 1..n, i - 1 \in S PROVE i \in S
  <2>1. i \in 0..n /\ i - 1 \in Nat /\ (i - 1) + 1 = i
    BY <1>1
  <2>2. Base32Holds(run[i - 1], i - 1, r[i - 1]) /\ r[i - 1] \in Nat /\ digits[i] \in 0..31
    BY <1>1, <1>4, <1>10
  <2>3. Base32Holds(Base32Step(run[i - 1], digits[i]), (i - 1) + 1, 32 * r[i - 1] + digits[i])
    BY <2>1, <2>2, Base32StepHolds
  <2>4. run[i] = Base32Step(run[i - 1], digits[i])
    BY <1>6, <1>7, <2>2 DEF Base32Holds
  <2> QED
    BY <1>4, <2>1, <2>3, <2>4
<1> HIDE DEF S
<1>11. n \in S
  <2>1. \A i \in 0..n : i \in S
    BY <1>1, <1>9, <1>10, UpTo
  <2> QED
    BY <1>1, <2>1
<1>12. Base32Holds(end, n, number)
  BY <1>4, <1>11 DEF S
<1> HIDE DEF n, end
<1>13. /\ end.bytes \in Seq(Bytes) /\ end.buffer \in Nat /\ end.bits = spare /\ spare \in 0..7
       /\ Len(end.bytes) = (5 * n) \div 8
       /\ P * BigEndian(256, end.bytes) + (end.buffer % P) = number
  <2>1. BufferSize \in Nat
    BY NumbersAssumption
  <2>2. spare \in 0..7
    BY <1>1 DEF n
  <2> QED
    BY <1>12, <2>1, <2>2 DEF Base32Holds, Accs
<1>14. BigEndian(256, end.bytes) \in Nat /\ P \in Nat \ {0} /\ end.buffer % P \in Nat /\ end.buffer % P < P
  <2>1. P \in Nat \ {0}
    BY <1>13, PowersOfTwo
  <2>2. end.buffer % P \in Nat /\ end.buffer % P < P
    BY <1>13, <2>1
  <2>3. end.bytes \in Seq(Nat)
    BY <1>13, BytesAreNumbers
  <2>4. BigEndian(256, end.bytes) \in Nat
    BY <2>3, BigEndianIsNumber
  <2> QED
    BY <2>1, <2>2, <2>4
<1>15. number \in Nat
  BY <1>1, <1>4 DEF n
<1>16. number % P = end.buffer % P /\ number \div P = BigEndian(256, end.bytes)
  <2>1. PICK p \in Nat \ {0}, q \in Nat, t \in Nat :
          p = P /\ q = BigEndian(256, end.bytes) /\ t = end.buffer % P /\ Splits(number, p, q, t)
    BY <1>13, <1>14 DEF Splits
  <2>2. number % p = t /\ number \div p = q
    BY <1>15, <2>1, QuotientAndRest
  <2> QED
    BY <2>1, <2>2
<1>17. 2^spare = P
  BY DEF Power
<1>18. CASE number % P # 0
  BY <1>5, <1>13, <1>16, <1>17, <1>18 DEF number, n
<1>19. CASE number % P = 0
  BY <1>5, <1>13, <1>16, <1>17, <1>19 DEF number, n
<1> QED
  BY <1>18, <1>19 DEF number, n

LEMMA Listed ==
  ASSUME NEW S, NEW n \in Nat, NEW f, f = [i \in 1..n |-> f[i]], \A i \in 1..n : f[i] \in S
  PROVE  f \in Seq(S) /\ Len(f) = n
<1>1. f \in [1..n -> S]
  OBVIOUS
<1>2. f \in Seq(S)
  BY <1>1
<1>3. DOMAIN f = 1..n
  OBVIOUS
<1>4. DOMAIN f = 1..Len(f) /\ Len(f) \in Nat
  BY <1>2, LenProperties
<1>5. Len(f) = n
  <2>1. \A m \in Nat, k \in Nat : 1..m = 1..k => m = k
    <3> TAKE m \in Nat, k \in Nat
    <3>1. SUFFICES ASSUME 1..m = 1..k PROVE m = k
      OBVIOUS
    <3>2. (m \in 1..m => m \in 1..k) /\ (k \in 1..k => k \in 1..m)
      BY <3>1
    <3> QED
      BY <3>2
  <2> QED
    BY <1>3, <1>4, <2>1
<1> QED
  BY <1>2, <1>5

LEMMA ReverseProperties ==
  ASSUME NEW S, NEW s \in Seq(S)
  PROVE  /\ Reverse(s) \in Seq(S) /\ Len(Reverse(s)) = Len(s)
         /\ \A i \in 1..Len(s) : Reverse(s)[i] = s[(Len(s) - i) + 1]
<1> DEFINE n == Len(s)
           f == [i \in 1..n |-> s[(n - i) + 1]]
<1>1. n \in Nat /\ \A i \in 1..n : s[i] \in S
  BY LenProperties, ElementOfSeq
<1>2. Reverse(s) = f
  BY DEF Reverse
<1>3. \A i \in 1..n : f[i] = s[(n - i) + 1] /\ (n - i) + 1 \in 1..n
  BY <1>1
<1>4. f = [i \in 1..n |-> f[i]] /\ \A i \in 1..n : f[i] \in S
  BY <1>1, <1>3
<1> HIDE DEF f, n
<1>5. f \in Seq(S) /\ Len(f) = n
  BY <1>1, <1>4, Listed
<1> QED
  BY <1>2, <1>3, <1>5 DEF n

LEMMA ReverseOfConcat ==
  ASSUME NEW S, NEW s \in Seq(S), NEW t \in Seq(S)
  PROVE  Reverse(s \o t) = Reverse(t) \o Reverse(s)
<1>1. PICK u : u = s \o t
  OBVIOUS
<1>2. PICK p, q : p = Reverse(t) /\ q = Reverse(s)
  OBVIOUS
<1>3. PICK m, n : m = Len(s) /\ n = Len(t)
  OBVIOUS
<1>4. /\ m \in Nat /\ n \in Nat
      /\ u \in Seq(S) /\ Len(u) = m + n
      /\ \A i \in 1..(m + n) : u[i] = IF i <= m THEN s[i] ELSE t[i - m]
  BY <1>1, <1>3, LenProperties, ConcatProperties
<1>5. PICK a : a = Reverse(u)
  OBVIOUS
<1>6. a \in Seq(S) /\ Len(a) = m + n /\ \A i \in 1..(m + n) : a[i] = u[((m + n) - i) + 1]
  <2>1. a \in Seq(S) /\ Len(a) = Len(u) /\ \A i \in 1..Len(u) : a[i] = u[(Len(u) - i) + 1]
    BY <1>4, <1>5, ReverseProperties
  <2> QED
    BY <1>4, <2>1
<1>7. /\ q \in Seq(S) /\ Len(q) = m /\ \A i \in 1..m : q[i] = s[(m - i) + 1]
      /\ p \in Seq(S) /\ Len(p) = n /\ \A i \in 1..n : p[i] = t[(n - i) + 1]
  BY <1>2, <1>3, ReverseProperties
<1>8. PICK b : b = p \o q
  OBVIOUS
<1>9. b \in Seq(S) /\ Len(b) = n + m /\ \A i \in 1..(n + m) : b[i] = IF i <= n THEN p[i] ELSE q[i - n]
  <2>1. b \in Seq(S) /\ Len(b) = Len(p) + Len(q)
        /\ \A i \in 1..(Len(p) + Len(q)) : b[i] = IF i <= Len(p) THEN p[i] ELSE q[i - Len(p)]
    BY <1>7, <1>8, ConcatProperties
  <2> QED
    BY <1>7, <2>1
<1>10. ASSUME NEW i \in 1..(m + n) PROVE a[i] = b[i]
  <2>1. CASE i <= n
    <3>1. /\ i \in 1..n /\ ((m + n) - i) + 1 \in 1..(m + n) /\ ~ (((m + n) - i) + 1 <= m)
          /\ (((m + n) - i) + 1) - m = (n - i) + 1 /\ i \in 1..(n + m)
      BY <1>4, <2>1
    <3>2. a[i] = t[(n - i) + 1]
      BY <1>4, <1>6, <3>1
    <3>3. b[i] = p[i]
      BY <1>9, <2>1, <3>1
    <3> QED
      BY <1>7, <3>1, <3>2, <3>3
  <2>2. CASE ~ (i <= n)
    <3>1. /\ i - n \in 1..m /\ ((m + n) - i) + 1 \in 1..(m + n) /\ ((m + n) - i) + 1 <= m
          /\ ((m + n) - i) + 1 = (m - (i - n)) + 1 /\ i \in 1..(n + m)
      BY <1>4, <2>2
    <3>2. a[i] = s[(m - (i - n)) + 1]
      BY <1>4, <1>6, <3>1
    <3>3. b[i] = q[i - n]
      BY <1>9, <2>2, <3>1
    <3> QED
      BY <1>7, <3>1, <3>2, <3>3
  <2> QED
    BY <2>1, <2>2
<1>11. Len(a) = Len(b)
  BY <1>4, <1>6, <1>9
<1>12. \A i \in 1..Len(a) : a[i] = b[i]
  BY <1>6, <1>10
<1> QED
  BY <1>1, <1>2, <1>5, <1>6, <1>8, <1>9, <1>11, <1>12, SeqEqual

\* Base 58.  The carry and the byte that stays are what a byte and the carry before it were.
AreBytes(s) == s \in Seq(Bytes)
CarryStep == [x \in Nat \X Bytes |-> (x[1] + 58 * x[2]) \div 256]
Radix256 == [x \in Nat \X Nat |-> 256 * x[1] + x[2]]
Carries(bytes, d) == Run(CarryStep, d, bytes)
Kept(bytes, d) == [i \in 1..Len(bytes) |-> (Carries(bytes, d)[i - 1] + 58 * bytes[i]) % 256]

Balanced(bytes, carry, next) ==
  \A i \in 1..Len(bytes) : carry[i - 1] + 58 * bytes[i] = 256 * carry[i] + next[i]

LEMMA CarriesAreExact ==
  ASSUME NEW bytes, AreBytes(bytes), NEW d \in 0..57
  PROVE  /\ Carries(bytes, d)[0] = d
         /\ \A j \in 0..Len(bytes) : Carries(bytes, d)[j] \in Nat /\ Carries(bytes, d)[j] \in Bytes
         /\ AreBytes(Kept(bytes, d)) /\ Len(Kept(bytes, d)) = Len(bytes)
         /\ Balanced(bytes, Carries(bytes, d), Kept(bytes, d))
<1> DEFINE carry == Carries(bytes, d)
           n == Len(bytes)
           next == Kept(bytes, d)
           S == {j \in 0..n : carry[j] \in 0..57}
<1>1. n \in Nat
  BY LenProperties DEF AreBytes
<1>2. \A i \in 1..n : bytes[i] \in 0..255
  <2>1. \A i \in 1..n : bytes[i] \in Bytes
    BY ElementOfSeq DEF AreBytes
  <2> QED
    BY <2>1 DEF Bytes
<1>3. carry[0] = d
  BY <1>1, RunSteps DEF Carries
<1>4. \A i \in 1..n : carry[i] = CarryStep[<<carry[i - 1], bytes[i]>>]
  BY <1>1, RunSteps DEF Carries
<1>5. \A c \in 0..57, b \in 0..255 : CarryStep[<<c, b>>] = (c + 58 * b) \div 256
  <2>1. \A c \in Nat, b \in 0..255 : CarryStep[<<c, b>>] = (c + 58 * b) \div 256
    BY DEF CarryStep, Bytes
  <2>2. \A c \in 0..57 : c \in Nat
    OBVIOUS
  <2> QED
    BY <2>1, <2>2
<1>6. \A c \in 0..57, b \in 0..255 : (c + 58 * b) \div 256 \in 0..57
  OBVIOUS
<1>7. next = [i \in 1..n |-> (carry[i - 1] + 58 * bytes[i]) % 256]
  BY DEF Kept
<1> HIDE DEF carry, next, n
<1>8. 0 \in S
  <2>1. 0 \in 0..n
    BY <1>1
  <2> QED
    BY <1>3, <2>1
<1>9. ASSUME NEW i \in 1..n, NEW c \in 0..57, c = carry[i - 1]
      PROVE  \E b \in 0..255 : b = bytes[i] /\ carry[i] = (c + 58 * b) \div 256
  <2>1. PICK b \in 0..255 : b = bytes[i]
    BY <1>2
  <2>2. carry[i] = CarryStep[<<c, b>>]
    BY <1>4, <1>9, <2>1
  <2>3. CarryStep[<<c, b>>] = (c + 58 * b) \div 256
    BY <1>5
  <2> QED
    BY <2>1, <2>2, <2>3
<1>10. ASSUME NEW i \in 1..n, i - 1 \in S PROVE i \in S
  <2>1. i \in 0..n
    BY <1>1
  <2>2. PICK c \in 0..57 : c = carry[i - 1]
    BY <1>10
  <2>3. PICK b \in 0..255 : b = bytes[i] /\ carry[i] = (c + 58 * b) \div 256
    BY <1>9, <2>2
  <2>4. (c + 58 * b) \div 256 \in 0..57
    BY <1>6
  <2> QED
    BY <2>1, <2>3, <2>4
<1> HIDE DEF S
<1>11. \A j \in 0..n : carry[j] \in 0..57
  <2>1. \A j \in 0..n : j \in S
    BY <1>1, <1>8, <1>10, UpTo
  <2> QED
    BY <2>1 DEF S
<1>12. ASSUME NEW i \in 1..n
       PROVE  next[i] \in Bytes /\ carry[i - 1] + 58 * bytes[i] = 256 * carry[i] + next[i]
  <2>1. i - 1 \in 0..n
    BY <1>1
  <2>2. PICK c \in 0..57 : c = carry[i - 1]
    BY <1>11, <2>1
  <2>3. PICK b \in 0..255 : b = bytes[i] /\ carry[i] = (c + 58 * b) \div 256
    BY <1>9, <2>2
  <2>4. next[i] = (c + 58 * b) % 256
    BY <1>7, <2>2, <2>3
  <2>5. /\ (c + 58 * b) % 256 \in 0..255
        /\ c + 58 * b = 256 * ((c + 58 * b) \div 256) + ((c + 58 * b) % 256)
    OBVIOUS
  <2>6. next[i] \in Bytes
    BY <2>4, <2>5 DEF Bytes
  <2>7. c + 58 * b = 256 * carry[i] + next[i]
    BY <2>3, <2>4, <2>5
  <2> QED
    BY <2>2, <2>3, <2>6, <2>7
<1>13. AreBytes(next) /\ Len(next) = n
  <2>1. next = [i \in 1..n |-> next[i]]
    BY <1>7
  <2>2. \A i \in 1..n : next[i] \in Bytes
    BY <1>12
  <2> QED
    BY <1>1, <2>1, <2>2, Listed DEF AreBytes
<1>14. Balanced(bytes, carry, next)
  BY <1>12 DEF Balanced, n
<1>15. \A j \in 0..n : carry[j] \in Nat /\ carry[j] \in Bytes
  <2>1. \A c \in 0..57 : c \in Nat /\ c \in Bytes
    BY DEF Bytes
  <2> QED
    BY <1>11, <2>1
<1> QED
  BY <1>3, <1>13, <1>14, <1>15 DEF carry, next, n

LEMMA Radix256IsStep ==
  \A a \in Nat, b \in Nat : Radix256[<<a, b>>] = 256 * a + b /\ Radix256[<<a, b>>] \in Nat
BY DEF Radix256

LEMMA LittleEndianIsLoop ==
  ASSUME NEW s
  PROVE  LittleEndian(256, s) = Loop(Radix256, 0, Reverse(s))
BY DEF LittleEndian, BigEndian, Radix256

\* The bytes that are kept, with the last carry above them, are 58 times the number and the digit.
LEMMA CarryAndKept ==
  ASSUME NEW bytes, AreBytes(bytes), NEW d \in 0..57
  PROVE  Loop(Radix256, Carries(bytes, d)[Len(bytes)], Reverse(Kept(bytes, d))) = 58 * LittleEndian(256, bytes) + d
<1> DEFINE carry == Carries(bytes, d)
           n == Len(bytes)
           next == Kept(bytes, d)
           high == Reverse(bytes)
           kept == Reverse(next)
           r == Run(Radix256, 0, high)
           q == Run(Radix256, carry[n], kept)
           S == {k \in 0..n : q[k] = 58 * r[k] + carry[n - k]}
<1>1. n \in Nat /\ \A i \in 1..n : bytes[i] \in Nat
  <2>1. n \in Nat
    BY LenProperties DEF AreBytes
  <2>2. bytes \in Seq(Nat)
    BY BytesAreNumbers DEF AreBytes
  <2> QED
    BY <2>1, <2>2, ElementOfSeq
<1>2. /\ carry[0] = d /\ \A j \in 0..n : carry[j] \in Nat
      /\ AreBytes(next) /\ Len(next) = n
  BY CarriesAreExact
<1>2a. \A i \in 1..n : carry[i - 1] + 58 * bytes[i] = 256 * carry[i] + next[i]
  <2>1. Balanced(bytes, carry, next)
    BY CarriesAreExact
  <2> HIDE DEF carry, next
  <2> QED
    BY <2>1 DEF Balanced
<1> HIDE DEF carry, next, n
<1>3. /\ AreBytes(high) /\ Len(high) = n /\ \A k \in 1..n : high[k] = bytes[(n - k) + 1]
      /\ AreBytes(kept) /\ Len(kept) = n /\ \A k \in 1..n : kept[k] = next[(n - k) + 1]
  <2>1. AreBytes(high) /\ Len(high) = n /\ \A k \in 1..n : high[k] = bytes[(n - k) + 1]
    BY ReverseProperties DEF n, AreBytes
  <2>2. AreBytes(kept) /\ Len(kept) = Len(next) /\ \A k \in 1..Len(next) : kept[k] = next[(Len(next) - k) + 1]
    BY <1>2, ReverseProperties DEF AreBytes
  <2> QED
    BY <1>2, <2>1, <2>2
<1> HIDE DEF high, kept
<1>4. \A i \in 1..n : next[i] \in Nat
  <2>1. next \in Seq(Nat)
    BY <1>2, BytesAreNumbers DEF AreBytes
  <2>2. \A i \in 1..Len(next) : next[i] \in Nat
    BY <2>1, ElementOfSeq
  <2> QED
    BY <1>2, <2>2
<1>5. r[0] = 0 /\ \A k \in 1..n : r[k] = Radix256[<<r[k - 1], high[k]>>]
  <2>1. Len(high) \in Nat
    BY <1>1, <1>3
  <2> QED
    BY <1>3, <2>1, RunSteps
<1>6. q[0] = carry[n] /\ \A k \in 1..n : q[k] = Radix256[<<q[k - 1], kept[k]>>]
  <2>1. Len(kept) \in Nat
    BY <1>1, <1>3
  <2> QED
    BY <1>3, <2>1, RunSteps
<1>7. \A k \in 0..n : r[k] \in Nat
  <2>1. high \in Seq(Nat)
    BY <1>3, BytesAreNumbers DEF AreBytes
  <2>2. \A k \in 0..Len(high) : r[k] \in Nat
    BY <2>1, Radix256IsStep, RunType
  <2> QED
    BY <1>3, <2>2
<1>8. Loop(Radix256, carry[n], kept) = q[n] /\ LittleEndian(256, bytes) = r[n]
  BY <1>3, LittleEndianIsLoop DEF Loop, high
<1> HIDE DEF r, q
<1>9. 0 \in S
  <2>1. carry[n] \in Nat /\ n - 0 = n
    BY <1>1, <1>2
  <2> QED
    BY <1>1, <1>5, <1>6, <2>1
<1>10. ASSUME NEW k \in 1..n, k - 1 \in S PROVE k \in S
  <2>1. PICK i \in 1..n : i = (n - k) + 1
    BY <1>1
  <2>2. n - (k - 1) = i /\ n - k = i - 1 /\ i - 1 \in 0..n /\ i \in 0..n /\ k \in 0..n /\ k - 1 \in 0..n
    BY <1>1, <2>1
  <2>3. q[k - 1] = 58 * r[k - 1] + carry[i] /\ r[k - 1] \in Nat /\ carry[i] \in Nat /\ carry[i - 1] \in Nat
    BY <1>2, <1>7, <1>10, <2>2
  <2>4. high[k] = bytes[i] /\ kept[k] = next[i] /\ bytes[i] \in Nat /\ next[i] \in Nat
    BY <1>1, <1>3, <1>4, <2>1
  <2>5. r[k] = 256 * r[k - 1] + bytes[i]
    <3>1. r[k] = Radix256[<<r[k - 1], bytes[i]>>]
      BY <1>5, <2>4
    <3> QED
      BY <2>3, <2>4, <3>1, Radix256IsStep
  <2>6. q[k] = 256 * q[k - 1] + next[i]
    <3>1. q[k - 1] \in Nat
      BY <2>3
    <3>2. q[k] = Radix256[<<q[k - 1], next[i]>>]
      BY <1>6, <2>4
    <3> QED
      BY <2>4, <3>1, <3>2, Radix256IsStep
  <2>7. carry[i - 1] + 58 * bytes[i] = 256 * carry[i] + next[i]
    BY <1>2a
  <2>8. q[k] = 58 * r[k] + carry[i - 1]
    <3>1. \A a \in Nat, b \in Nat, c \in Nat, e \in Nat, f \in Nat :
            e + 58 * b = 256 * c + f => 256 * (58 * a + c) + f = 58 * (256 * a + b) + e
      OBVIOUS
    <3>2. 256 * (58 * r[k - 1] + carry[i]) + next[i] = 58 * (256 * r[k - 1] + bytes[i]) + carry[i - 1]
      BY <2>3, <2>4, <2>7, <3>1
    <3> QED
      BY <2>3, <2>5, <2>6, <3>2
  <2> QED
    BY <2>2, <2>8
<1> HIDE DEF S
<1>11. q[n] = 58 * r[n] + carry[n - n]
  <2>1. \A k \in 0..n : k \in S
    BY <1>1, <1>9, <1>10, UpTo
  <2>2. n \in S
    BY <1>1, <2>1
  <2> QED
    BY <2>2 DEF S
<1>12. n - n = 0
  BY <1>1
<1> QED
  BY <1>2, <1>8, <1>11, <1>12 DEF carry, kept, next, n

LEMMA Base58StepHolds ==
  ASSUME NEW bytes, AreBytes(bytes), NEW d \in 0..57
  PROVE  /\ AreBytes(Base58Step(bytes, d))
         /\ LittleEndian(256, Base58Step(bytes, d)) = 58 * LittleEndian(256, bytes) + d
<1> DEFINE c == Carries(bytes, d)[Len(bytes)]
           next == Kept(bytes, d)
           result == Base58Step(bytes, d)
<1>1. Len(bytes) \in Nat
  BY LenProperties DEF AreBytes
<1>2. AreBytes(next) /\ c \in Nat /\ c \in Bytes
  <2>1. Len(bytes) \in 0..Len(bytes)
    BY <1>1
  <2> QED
    BY <2>1, CarriesAreExact
<1>3. result = IF c > 0 THEN Append(next, c) ELSE next
  BY DEF Base58Step, Carries, Kept, CarryStep
<1>4. Loop(Radix256, c, Reverse(next)) = 58 * LittleEndian(256, bytes) + d
  BY CarryAndKept
<1> HIDE DEF c, next, result
<1>5. CASE c > 0
  <2>1. PICK t : t = <<c>>
    OBVIOUS
  <2>2. t \in Seq(Bytes) /\ Append(next, c) = next \o t /\ Append(next, c) \in Seq(Bytes)
    BY <1>2, <2>1, AppendIsConcat, AppendProperties DEF AreBytes
  <2>3. Reverse(t) = t
    <3>1. Len(t) = 1 /\ t[1] = c
      BY <2>1
    <3>2. Reverse(t) \in Seq(Bytes) /\ Len(Reverse(t)) = Len(t) /\ \A i \in 1..Len(t) : Reverse(t)[i] = t[(Len(t) - i) + 1]
      BY <2>2, ReverseProperties
    <3>3. \A i \in 1..Len(t) : Reverse(t)[i] = t[i]
      BY <3>1, <3>2
    <3> QED
      BY <2>2, <3>2, <3>3, SeqEqual
  <2>4. Reverse(next \o t) = t \o Reverse(next)
    BY <1>2, <2>2, <2>3, ReverseOfConcat DEF AreBytes
  <2>5. Reverse(next) \in Seq(Bytes)
    BY <1>2, ReverseProperties DEF AreBytes
  <2>6. Loop(Radix256, 0, t \o Reverse(next)) = Loop(Radix256, Loop(Radix256, 0, t), Reverse(next))
    BY <2>2, <2>5, LoopOfConcat
  <2>7. Loop(Radix256, 0, t) = c
    <3>1. Loop(Radix256, 0, t) = Radix256[<<0, c>>]
      BY <2>1, LoopOfOne
    <3> QED
      BY <1>2, <3>1, Radix256IsStep
  <2>8. result = next \o t
    BY <1>3, <1>5, <2>2
  <2> QED
    BY <1>4, <2>2, <2>4, <2>6, <2>7, <2>8, LittleEndianIsLoop DEF AreBytes, result
<1>6. CASE ~ (c > 0)
  <2>1. c = 0 /\ result = next
    BY <1>2, <1>3, <1>6
  <2> QED
    BY <1>2, <1>4, <2>1, LittleEndianIsLoop DEF result
<1> QED
  BY <1>5, <1>6

LEMMA GreatestIsMember ==
  ASSUME NEW n \in Nat, NEW S \in SUBSET (0..n), S # {}
  PROVE  Max(S) \in S
<1> DEFINE T == {n - x : x \in S}
<1>1. T \in SUBSET Nat /\ T # {}
  <2>1. \A x \in S : n - x \in Nat
    OBVIOUS
  <2> QED
    BY <2>1
<1>2. PICK t \in T : \A u \in T : t <= u
  BY <1>1, LeastNumber
<1>3. PICK x \in S : t = n - x
  BY <1>2
<1>4. \A y \in S : x >= y
  <2> TAKE y \in S
  <2>1. n - y \in T /\ x \in 0..n /\ y \in 0..n
    OBVIOUS
  <2>2. n - x <= n - y
    BY <1>2, <1>3, <2>1
  <2> QED
    BY <2>1, <2>2
<1>5. \E z \in S : \A y \in S : z >= y
  BY <1>4
<1> QED
  BY <1>5 DEF Max

LEMMA LoopOfZeros ==
  ASSUME NEW z \in Seq(Nat), \A i \in 1..Len(z) : z[i] = 0
  PROVE  Loop(Radix256, 0, z) = 0
<1> DEFINE r == Run(Radix256, 0, z)
           S == {i \in 0..Len(z) : r[i] = 0}
<1>1. Len(z) \in Nat
  BY LenProperties
<1>2. r[0] = 0 /\ \A i \in 1..Len(z) : r[i] = Radix256[<<r[i - 1], z[i]>>]
  BY <1>1, RunSteps
<1>3. Loop(Radix256, 0, z) = r[Len(z)]
  BY DEF Loop
<1> HIDE DEF r
<1>4. 0 \in S
  BY <1>1, <1>2
<1>5. ASSUME NEW i \in 1..Len(z), i - 1 \in S PROVE i \in S
  <2>1. r[i] = Radix256[<<0, 0>>]
    BY <1>2, <1>5
  <2>2. i \in 0..Len(z)
    BY <1>1
  <2>3. Radix256[<<0, 0>>] = 256 * 0 + 0
    BY Radix256IsStep
  <2> QED
    BY <2>1, <2>2, <2>3
<1> HIDE DEF S
<1>6. \A i \in 0..Len(z) : i \in S
  BY <1>1, <1>4, <1>5, UpTo
<1>7. Len(z) \in S
  BY <1>1, <1>6
<1> QED
  BY <1>3, <1>7 DEF S

\* What IdentifiersAreExact says of base 58.
LEMMA Base58IsExact ==
  ASSUME NEW digits \in Seq(0..57)
  PROVE  /\ decodeBase58btc(digits) \in Seq(Bytes)
         /\ BigEndian(256, decodeBase58btc(digits)) = BigEndian(58, digits)
<1> DEFINE step == [x \in Seq(Bytes) \X (0..57) |-> Base58Step(x[1], x[2])]
           n == Len(digits)
           low == Loop(step, <<0>>, digits)
           run == Run(step, <<0>>, digits)
           leading == Max({k \in 0..n : \A i \in 1..k : digits[i] = 0})
           zeros == [i \in 1..leading |-> 0]
           number == BigEndian(58, digits)
<1>1. n \in Nat /\ \A i \in 1..n : digits[i] \in 0..57
  BY LenProperties, ElementOfSeq
<1>2. digits \in Seq(Nat)
  <2>1. 0..57 \subseteq Nat
    OBVIOUS
  <2> QED
    BY <2>1, SeqMonotonic
<1>3. PICK r : IsValue(r, 58, digits)
  BY <1>2, BigEndianRun
<1>4. /\ r[0] = 0 /\ \A i \in 1..n : r[i] = 58 * r[i - 1] + digits[i]
      /\ number = r[n]
  BY <1>3 DEF IsValue
<1>5. decodeBase58btc(digits) = Reverse(low \o zeros)
  BY DEF decodeBase58btc
<1>6. leading \in Nat
  <2> DEFINE S == {k \in 0..n : \A i \in 1..k : digits[i] = 0}
  <2>1. 0 \in S /\ S \in SUBSET (0..n)
    BY <1>1
  <2>2. Max(S) \in S
    BY <1>1, <2>1, GreatestIsMember
  <2> QED
    BY <1>1, <2>1, <2>2
<1> HIDE DEF leading
<1>7. zeros \in Seq(Bytes) /\ Len(zeros) = leading /\ \A i \in 1..leading : zeros[i] = 0
  <2>1. zeros = [i \in 1..leading |-> zeros[i]] /\ \A i \in 1..leading : zeros[i] = 0
    OBVIOUS
  <2>2. \A i \in 1..leading : zeros[i] \in Bytes
    BY <2>1 DEF Bytes
  <2> QED
    BY <1>6, <2>1, <2>2, Listed
<1>8. low = run[n]
  BY DEF Loop
<1>9. \A s : \A d \in 0..57 : AreBytes(s) => step[<<s, d>>] = Base58Step(s, d)
  BY DEF AreBytes
<1> HIDE DEF step, zeros, number
<1>9a. \A s : \A d \in 0..57 : AreBytes(s) =>
         AreBytes(Base58Step(s, d)) /\ LittleEndian(256, Base58Step(s, d)) = 58 * LittleEndian(256, s) + d
  BY Base58StepHolds
<1>10. run[0] = <<0>>
  BY <1>1, RunSteps
<1>10a. \A i \in 1..n : run[i] = step[<<run[i - 1], digits[i]>>]
  BY <1>1, RunSteps
<1> HIDE DEF run, low
<1> DEFINE S == {i \in 0..n : AreBytes(run[i]) /\ LittleEndian(256, run[i]) = r[i]}
<1>11. 0 \in S
  <2>1. PICK zero : zero = <<0>>
    OBVIOUS
  <2>2. zero \in Seq(Bytes) /\ Len(zero) = 1 /\ zero[1] = 0
    BY <2>1 DEF Bytes
  <2>3. Reverse(zero) \in Seq(Nat) /\ \A i \in 1..Len(Reverse(zero)) : Reverse(zero)[i] = 0
    <3>1. Reverse(zero) \in Seq(Bytes) /\ Len(Reverse(zero)) = Len(zero)
          /\ \A i \in 1..Len(zero) : Reverse(zero)[i] = zero[(Len(zero) - i) + 1]
      BY <2>2, ReverseProperties
    <3> QED
      BY <2>2, <3>1, BytesAreNumbers
  <2>4. LittleEndian(256, zero) = 0
    BY <2>3, LoopOfZeros, LittleEndianIsLoop
  <2> QED
    <3>1. r[0] = 0 /\ run[0] = zero /\ AreBytes(zero)
      BY <1>4, <1>10, <2>1, <2>2 DEF AreBytes
    <3>2. 0 \in 0..n
      BY <1>1
    <3> QED
      BY <2>4, <3>1, <3>2
<1>12. ASSUME NEW i \in 1..n, i - 1 \in S PROVE i \in S
  <2>1. i \in 0..n /\ AreBytes(run[i - 1]) /\ LittleEndian(256, run[i - 1]) = r[i - 1]
    BY <1>1, <1>12
  <2>2. PICK d \in 0..57 : d = digits[i]
    BY <1>1
  <2>3. run[i] = Base58Step(run[i - 1], d)
    <3>1. run[i] = step[<<run[i - 1], d>>]
      BY <1>10a, <2>2
    <3> QED
      BY <1>9, <2>1, <2>2, <3>1
  <2>4. r[i] = 58 * r[i - 1] + d
    BY <1>4, <2>2
  <2>5. AreBytes(run[i]) /\ LittleEndian(256, run[i]) = 58 * LittleEndian(256, run[i - 1]) + d
    <3>1. AreBytes(run[i - 1]) /\ d \in 0..57
      BY <2>1, <2>2
    <3>2. AreBytes(Base58Step(run[i - 1], d))
          /\ LittleEndian(256, Base58Step(run[i - 1], d)) = 58 * LittleEndian(256, run[i - 1]) + d
      BY <1>9a, <3>1
    <3> QED
      BY <2>3, <3>2
  <2> QED
    BY <2>1, <2>4, <2>5
<1> HIDE DEF S
<1>13. AreBytes(low) /\ LittleEndian(256, low) = number
  <2>1. \A i \in 0..n : i \in S
    BY <1>1, <1>11, <1>12, UpTo
  <2>2. n \in S
    BY <1>1, <2>1
  <2> QED
    BY <1>4, <1>8, <2>2 DEF S
<1>14. /\ Reverse(low) \in Seq(Bytes) /\ Reverse(zeros) \in Seq(Bytes)
       /\ \A i \in 1..Len(Reverse(zeros)) : Reverse(zeros)[i] = 0
  <2>1. Reverse(zeros) \in Seq(Bytes) /\ Len(Reverse(zeros)) = Len(zeros)
        /\ \A i \in 1..Len(zeros) : Reverse(zeros)[i] = zeros[(Len(zeros) - i) + 1]
    BY <1>7, ReverseProperties
  <2>2. \A i \in 1..leading : (leading - i) + 1 \in 1..leading
    BY <1>6
  <2> QED
    BY <1>7, <1>13, <2>1, <2>2, ReverseProperties DEF AreBytes
<1>15. Reverse(low \o zeros) = Reverse(zeros) \o Reverse(low)
  BY <1>7, <1>13, ReverseOfConcat DEF AreBytes
<1>16. Loop(Radix256, 0, Reverse(zeros) \o Reverse(low)) = Loop(Radix256, Loop(Radix256, 0, Reverse(zeros)), Reverse(low))
  BY <1>14, LoopOfConcat
<1>17. Loop(Radix256, 0, Reverse(zeros)) = 0
  BY <1>14, BytesAreNumbers, LoopOfZeros
<1>18. Reverse(zeros) \o Reverse(low) \in Seq(Bytes)
  BY <1>14, ConcatProperties
<1>19. BigEndian(256, Reverse(low \o zeros)) = Loop(Radix256, 0, Reverse(low \o zeros))
  BY DEF BigEndian, Radix256
<1>20. LittleEndian(256, low) = Loop(Radix256, 0, Reverse(low))
  BY LittleEndianIsLoop
<1> QED
  BY <1>5, <1>13, <1>15, <1>16, <1>17, <1>18, <1>19, <1>20 DEF number

\* Varints.  What is still to come after i digits, the lowest first.
IsRest(v, digits) ==
  /\ v[Len(digits)] = 0 /\ LittleEndian(128, digits) = v[0]
  /\ \A i \in 0..Len(digits) : v[i] \in Nat
RestStep(v, digits) == \A i \in 1..Len(digits) : v[i - 1] = 128 * v[i] + digits[i]

LEMMA LittleEndianRest ==
  ASSUME NEW digits \in Seq(Nat)
  PROVE  \E v : IsRest(v, digits) /\ RestStep(v, digits)
<1> DEFINE n == Len(digits)
<1>1. n \in Nat
  BY LenProperties
<1>2. PICK high : high = Reverse(digits)
  OBVIOUS
<1>3. high \in Seq(Nat) /\ Len(high) = n /\ \A i \in 1..n : high[i] = digits[(n - i) + 1]
  BY <1>2, ReverseProperties
<1>4. PICK r : IsValue(r, 128, high)
  BY <1>3, BigEndianRun
<1>5. /\ \A i \in 0..n : r[i] \in Nat
      /\ r[0] = 0 /\ LittleEndian(128, digits) = r[n]
  BY <1>2, <1>3, <1>4 DEF IsValue, LittleEndian
<1>6. \A i \in 1..n : r[i] = 128 * r[i - 1] + high[i]
  BY <1>3, <1>4 DEF IsValue
<1> HIDE DEF n
<1> DEFINE v == [i \in 0..n |-> r[n - i]]
<1>7. v[n] = 0 /\ v[0] = r[n]
  <2>1. n \in 0..n /\ 0 \in 0..n /\ n - n = 0 /\ n - 0 = n
    BY <1>1
  <2> QED
    BY <1>5, <2>1
<1>8. \A i \in 0..n : v[i] \in Nat
  <2> TAKE i \in 0..n
  <2>1. n - i \in 0..n
    BY <1>1
  <2> QED
    BY <1>5, <2>1
<1>9. \A i \in 1..n : v[i - 1] = 128 * v[i] + digits[i]
  <2> TAKE i \in 1..n
  <2>1. PICK k \in 1..n : k = (n - i) + 1
    <3>1. (n - i) + 1 \in 1..n
      BY <1>1
    <3> QED
      BY <3>1
  <2>2. r[k] = 128 * r[k - 1] + high[k]
    BY <1>6
  <2>3. n - (i - 1) = k /\ n - i = k - 1 /\ (n - k) + 1 = i /\ i \in 0..n /\ i - 1 \in 0..n
    BY <1>1, <2>1
  <2>4. high[k] = digits[i]
    BY <1>3, <2>3
  <2>5. v[i - 1] = r[k] /\ v[i] = r[k - 1]
    BY <2>3
  <2> QED
    BY <2>2, <2>4, <2>5
<1> HIDE DEF v
<1> QED
  BY <1>5, <1>7, <1>8, <1>9 DEF IsRest, RestStep, n

\* Digits of base 128, with no zero on top unless there is only one.
IsSpelling(digits) ==
  /\ digits \in Seq(Nat) /\ Len(digits) > 0
  /\ \A i \in 1..Len(digits) : digits[i] < 128
  /\ Len(digits) > 1 => digits[Len(digits)] # 0

LEMMA RestIsPositive ==
  ASSUME NEW digits, IsSpelling(digits), NEW v, IsRest(v, digits), RestStep(v, digits), NEW k \in Nat \ {0}, k < Len(digits)
  PROVE  v[k] > 0
<1>1. PICK n \in Nat : n = Len(digits) - 1
  BY LenProperties DEF IsSpelling
<1>2. Len(digits) = n + 1 /\ k \in 0..n /\ n > 0
  BY <1>1, LenProperties DEF IsSpelling
<1> DEFINE S == {i \in 0..n : v[i] > 0}
<1>3. \A i \in 0..(n + 1) : v[i] \in Nat
  BY <1>2 DEF IsRest
<1>4. \A i \in 1..(n + 1) : v[i - 1] = 128 * v[i] + digits[i] /\ digits[i] \in Nat
  BY <1>2, ElementOfSeq DEF RestStep, IsSpelling
<1>5. n \in S
  <2>1. digits[n + 1] # 0 /\ v[n + 1] = 0
    BY <1>2 DEF IsRest, IsSpelling
  <2>2. n + 1 \in 1..(n + 1) /\ (n + 1) - 1 = n /\ n \in 0..n
    BY <1>2
  <2>3. v[n] = 128 * v[n + 1] + digits[n + 1] /\ digits[n + 1] \in Nat
    BY <1>4, <2>2
  <2> QED
    BY <2>1, <2>2, <2>3
<1>6. ASSUME NEW i \in 1..n, i \in S PROVE i - 1 \in S
  <2>1. i \in 1..(n + 1) /\ i \in 0..(n + 1) /\ i - 1 \in 0..n
    BY <1>2
  <2>2. v[i] \in Nat /\ v[i] > 0
    BY <1>3, <1>6, <2>1
  <2>3. v[i - 1] = 128 * v[i] + digits[i] /\ digits[i] \in Nat
    BY <1>4, <2>1
  <2>4. v[i - 1] > 0
    BY <2>2, <2>3
  <2> QED
    BY <2>1, <2>4
<1> HIDE DEF S
<1>7. \A i \in 0..n : i \in S
  BY <1>5, <1>6, DownFrom
<1> QED
  BY <1>2, <1>7 DEF S

LEMMA ShorterSpelling ==
  ASSUME NEW a, NEW b, IsSpelling(a), IsSpelling(b), LittleEndian(128, a) = LittleEndian(128, b), Len(a) <= Len(b)
  PROVE  a = b
<1>1. PICK m \in Nat, n \in Nat : m = Len(a) /\ n = Len(b) /\ m <= n /\ m > 0
  BY LenProperties DEF IsSpelling
<1>2. a \in Seq(Nat) /\ b \in Seq(Nat)
  BY DEF IsSpelling
<1>3. PICK u : IsRest(u, a) /\ RestStep(u, a)
  BY <1>2, LittleEndianRest
<1>4. PICK v : IsRest(v, b) /\ RestStep(v, b)
  BY <1>2, LittleEndianRest
<1>5. u[0] = v[0] /\ u[m] = 0 /\ v[n] = 0
  BY <1>1, <1>3, <1>4 DEF IsRest
<1>6. ASSUME NEW i \in 1..m, u[i - 1] = v[i - 1]
      PROVE  u[i] = v[i] /\ a[i] = b[i]
  <2>1. i \in 0..m /\ i \in 0..n /\ i \in 1..n
    BY <1>1
  <2>2. u[i] \in Nat /\ u[i - 1] = 128 * u[i] + a[i]
    BY <1>1, <1>3, <2>1 DEF IsRest, RestStep
  <2>3. v[i] \in Nat /\ v[i - 1] = 128 * v[i] + b[i]
    BY <1>1, <1>4, <2>1 DEF IsRest, RestStep
  <2>4. a[i] \in Nat /\ a[i] < 128
    BY <1>1, <1>2, ElementOfSeq DEF IsSpelling
  <2>5. b[i] \in Nat /\ b[i] < 128
    BY <1>1, <1>2, <2>1, ElementOfSeq DEF IsSpelling
  <2>6. PICK x \in Nat, y \in Nat, c \in Nat, d \in Nat : x = u[i] /\ y = v[i] /\ c = a[i] /\ d = b[i]
    BY <2>2, <2>3, <2>4, <2>5
  <2>7. 128 * x + c = 128 * y + d
    BY <1>6, <2>2, <2>3, <2>6
  <2>8. c < 128 /\ d < 128
    BY <2>4, <2>5, <2>6
  <2>9. x = y /\ c = d
    BY <2>7, <2>8
  <2> QED
    BY <2>6, <2>9
<1> DEFINE S == {i \in 0..m : u[i] = v[i]}
<1>7. 0 \in S
  <2>1. 0 \in 0..m
    BY <1>1
  <2> QED
    BY <1>5, <2>1
<1>8. ASSUME NEW i \in 1..m, i - 1 \in S PROVE i \in S
  <2>1. i \in 0..m /\ u[i - 1] = v[i - 1]
    BY <1>1, <1>8
  <2> QED
    BY <1>6, <2>1
<1> HIDE DEF S
<1>9. \A i \in 0..m : i \in S
  BY <1>1, <1>7, <1>8, UpTo
<1>10. \A i \in 1..m : a[i] = b[i]
  <2> TAKE i \in 1..m
  <2>1. i - 1 \in 0..m
    BY <1>1
  <2>2. u[i - 1] = v[i - 1]
    BY <1>9, <2>1 DEF S
  <2> QED
    BY <1>6, <2>2
<1>11. m = n
  <2>1. SUFFICES ASSUME m < n PROVE FALSE
    BY <1>1
  <2>2. m \in 0..m
    BY <1>1
  <2>3. v[m] = 0
    BY <1>5, <1>9, <2>2 DEF S
  <2>4. v[m] > 0
    BY <1>1, <1>4, <2>1, RestIsPositive
  <2> QED
    BY <2>3, <2>4
<1> QED
  BY <1>1, <1>2, <1>10, <1>11, SeqEqual

LEMMA OneSpelling ==
  ASSUME NEW a, NEW b, IsSpelling(a), IsSpelling(b), LittleEndian(128, a) = LittleEndian(128, b)
  PROVE  a = b
<1>1. Len(a) \in Nat /\ Len(b) \in Nat
  BY LenProperties DEF IsSpelling
<1>2. CASE Len(a) <= Len(b)
  BY <1>2, ShorterSpelling
<1>3. CASE Len(b) <= Len(a)
  BY <1>3, ShorterSpelling
<1> QED
  BY <1>1, <1>2, <1>3

LEMMA LeastIsMember ==
  ASSUME NEW S \in SUBSET Nat, S # {}
  PROVE  Min(S) \in S /\ \A y \in S : Min(S) <= y
<1>1. \E x \in S : \A y \in S : x <= y
  BY LeastNumber
<1> QED
  BY <1>1 DEF Min

\* What readVarint reads: the bytes up to the first that is below 128.
IsVarint(bytes, digits) ==
  /\ IsSpelling(digits) /\ Len(digits) \in 1..Len(bytes)
  /\ \A i \in 1..(Len(digits) - 1) : bytes[i] = digits[i] + 128
  /\ bytes[Len(digits)] = digits[Len(digits)]
  /\ readVarint(bytes).value = LittleEndian(128, digits) /\ readVarint(bytes).size = Len(digits)

LEMMA VarintRead ==
  ASSUME NEW bytes \in Seq(Bytes), readVarint(bytes) # Undefined
  PROVE  \E digits : IsVarint(bytes, digits)
<1> DEFINE ends == {i \in DOMAIN bytes : bytes[i] < 128}
           last == Min(ends)
           digits == [i \in 1..last |-> bytes[i] % 128]
           value == LittleEndian(128, digits)
           result == readVarint(bytes)
<1>1. Len(bytes) \in Nat /\ DOMAIN bytes = 1..Len(bytes)
  BY LenProperties
<1>2. \A i \in 1..Len(bytes) : bytes[i] \in Nat /\ bytes[i] % 128 \in Nat /\ bytes[i] % 128 < 128
        /\ (bytes[i] < 128 => bytes[i] % 128 = bytes[i])
        /\ (~ (bytes[i] < 128) => bytes[i] = (bytes[i] % 128) + 128)
  <2> TAKE i \in 1..Len(bytes)
  <2>1. bytes[i] \in Bytes
    BY ElementOfSeq
  <2>2. PICK b \in 0..255 : b = bytes[i]
    BY <2>1 DEF Bytes
  <2>3. b \in Nat /\ b % 128 \in Nat /\ b % 128 < 128 /\ (b < 128 => b % 128 = b) /\ (~ (b < 128) => b = (b % 128) + 128)
    OBVIOUS
  <2> QED
    BY <2>2, <2>3
<1>3. result = [value |-> value, size |-> last] /\ ends # {} /\ ~ (last > 1 /\ bytes[last] = 0)
  <2>1. result = [value |-> Value(bytes), size |-> End(bytes)]
    BY DEF readVarint
  <2>2. ~ (End(bytes) > 1 /\ bytes[End(bytes)] = 0)
    BY DEF readVarint
  <2>3. ~ IsCut(bytes)
    BY DEF readVarint
  <2>4. ends # {}
    BY <1>1, <1>2, <2>3 DEF IsCut
  <2>5. last = End(bytes)
    BY DEF End
  <2>6. value = Value(bytes)
    BY <2>5 DEF Value
  <2> QED
    BY <2>1, <2>2, <2>4, <2>5, <2>6
<1>4. last \in ends /\ \A i \in ends : last <= i
  <2>1. ends \in SUBSET Nat
    BY <1>1
  <2> QED
    BY <1>3, <2>1, LeastIsMember
<1> HIDE DEF last
<1>5. last \in 1..Len(bytes) /\ last \in Nat \ {0} /\ bytes[last] < 128
  BY <1>1, <1>4
<1>6. ASSUME NEW i \in 1..(last - 1) PROVE ~ (bytes[i] < 128) /\ i \in 1..Len(bytes)
  <2>1. i \in 1..Len(bytes) /\ ~ (last <= i)
    BY <1>1, <1>5
  <2> QED
    BY <1>1, <1>4, <2>1
<1> HIDE DEF ends
<1>7. \A i \in 1..last : digits[i] = bytes[i] % 128 /\ i \in 1..Len(bytes)
  BY <1>1, <1>5
<1>8. digits = [i \in 1..last |-> digits[i]]
  OBVIOUS
<1> HIDE DEF digits
<1>9. digits \in Seq(Nat) /\ Len(digits) = last
  <2>1. \A i \in 1..last : digits[i] \in Nat
    BY <1>2, <1>7
  <2> QED
    BY <1>5, <1>8, <2>1, Listed
<1>10. \A i \in 1..last : digits[i] < 128
  BY <1>2, <1>7
<1>11. digits[last] = bytes[last]
  <2>1. last \in 1..last
    BY <1>5
  <2> QED
    BY <1>2, <1>5, <1>7, <2>1
<1>12. \A i \in 1..(last - 1) : bytes[i] = digits[i] + 128
  <2> TAKE i \in 1..(last - 1)
  <2>1. i \in 1..last
    BY <1>5
  <2> QED
    BY <1>2, <1>6, <1>7, <2>1
<1>13. IsSpelling(digits)
  BY <1>3, <1>5, <1>9, <1>10, <1>11 DEF IsSpelling
<1>14. result.value = LittleEndian(128, digits) /\ result.size = Len(digits)
  BY <1>3, <1>9
<1>15. IsVarint(bytes, digits)
  BY <1>5, <1>9, <1>11, <1>12, <1>13, <1>14 DEF IsVarint, result
<1> QED
  BY <1>15

\* What IdentifiersAreExact says of varints.
LEMMA VarintIsUnique ==
  ASSUME NEW s \in Seq(Bytes), NEW t \in Seq(Bytes), readVarint(s) # Undefined, readVarint(t) # Undefined,
         readVarint(s).value = readVarint(t).value
  PROVE  SubSeq(s, 1, readVarint(s).size) = SubSeq(t, 1, readVarint(t).size)
<1>1. PICK a : IsVarint(s, a)
  BY VarintRead
<1>2. PICK b : IsVarint(t, b)
  BY VarintRead
<1>3. a = b
  BY <1>1, <1>2, OneSpelling DEF IsVarint
<1>4. PICK n \in Nat \ {0} : n = Len(a)
  BY <1>1, LenProperties DEF IsVarint, IsSpelling
<1>5. n \in 1..Len(s) /\ n \in 1..Len(t) /\ Len(s) \in Nat /\ Len(t) \in Nat
  BY <1>1, <1>2, <1>3, <1>4, LenProperties DEF IsVarint
<1>6. \A i \in 1..n : s[i] = t[i]
  <2> TAKE i \in 1..n
  <2>1. CASE i = n
    BY <1>1, <1>2, <1>3, <1>4, <2>1 DEF IsVarint
  <2>2. CASE i # n
    <3>1. i \in 1..(n - 1)
      BY <1>4, <2>2
    <3>2. s[i] = a[i] + 128
      BY <1>1, <1>4, <3>1 DEF IsVarint
    <3>3. t[i] = a[i] + 128
      BY <1>2, <1>3, <1>4, <3>1 DEF IsVarint
    <3> QED
      BY <3>2, <3>3
  <2> QED
    BY <2>1, <2>2
<1>7. ASSUME NEW u \in Seq(Bytes), n \in 1..Len(u), Len(u) \in Nat
      PROVE  /\ SubSeq(u, 1, n) \in Seq(Bytes) /\ Len(SubSeq(u, 1, n)) = n
             /\ \A i \in 1..n : SubSeq(u, 1, n)[i] = u[i]
  <2>1. \A i \in 1..n : u[i] \in Bytes
    <3> TAKE i \in 1..n
    <3>1. i \in 1..Len(u)
      BY <1>4, <1>7
    <3> QED
      BY <3>1, ElementOfSeq
  <2>2. /\ SubSeq(u, 1, n) \in Seq(Bytes)
        /\ Len(SubSeq(u, 1, n)) = IF 1 <= n THEN n - 1 + 1 ELSE 0
        /\ \A i \in 1..(n - 1 + 1) : SubSeq(u, 1, n)[i] = u[1 + i - 1]
    BY <1>4, <2>1, SubSeqProperties
  <2>3. 1 <= n /\ n - 1 + 1 = n /\ \A i \in 1..n : 1 + i - 1 = i
    BY <1>4
  <2> QED
    BY <2>2, <2>3
<1>8. SubSeq(s, 1, n) = SubSeq(t, 1, n)
  <2>1. /\ SubSeq(s, 1, n) \in Seq(Bytes) /\ Len(SubSeq(s, 1, n)) = n
        /\ \A i \in 1..n : SubSeq(s, 1, n)[i] = s[i]
    BY <1>5, <1>7
  <2>2. /\ SubSeq(t, 1, n) \in Seq(Bytes) /\ Len(SubSeq(t, 1, n)) = n
        /\ \A i \in 1..n : SubSeq(t, 1, n)[i] = t[i]
    BY <1>5, <1>7
  <2>3. PICK x, y : x = SubSeq(s, 1, n) /\ y = SubSeq(t, 1, n)
    OBVIOUS
  <2>4. x \in Seq(Bytes) /\ y \in Seq(Bytes) /\ Len(x) = Len(y) /\ \A i \in 1..Len(x) : x[i] = y[i]
    BY <1>6, <2>1, <2>2, <2>3
  <2>5. x = y
    BY <2>4, SeqEqual
  <2> QED
    BY <2>3, <2>5
<1> QED
  BY <1>1, <1>2, <1>3, <1>4, <1>8 DEF IsVarint

\* A value below 128 takes one byte, and is that byte.
LEMMA SmallVarint ==
  ASSUME NEW bytes \in Seq(Bytes), readVarint(bytes) # Undefined, readVarint(bytes).value < 128
  PROVE  /\ Len(bytes) > 0 /\ readVarint(bytes).value = bytes[1] /\ readVarint(bytes).size = 1
<1>1. PICK digits : IsVarint(bytes, digits)
  BY VarintRead
<1>2. PICK n \in Nat \ {0} : n = Len(digits)
  BY <1>1, LenProperties DEF IsVarint, IsSpelling
<1>3. PICK v : IsRest(v, digits) /\ RestStep(v, digits)
  BY <1>1, LittleEndianRest DEF IsVarint, IsSpelling
<1>4. readVarint(bytes).value = v[0] /\ v[n] = 0 /\ v[0] \in Nat /\ v[1] \in Nat
  <2>1. 0 \in 0..n /\ 1 \in 0..n
    BY <1>2
  <2> QED
    BY <1>1, <1>2, <1>3, <2>1 DEF IsVarint, IsRest
<1>5. v[0] = 128 * v[1] + digits[1] /\ digits[1] \in Nat
  <2>1. 1 \in 1..n /\ 1 - 1 = 0
    BY <1>2
  <2> QED
    BY <1>1, <1>2, <1>3, <2>1, ElementOfSeq DEF RestStep, IsVarint, IsSpelling
<1>6. n = 1
  <2>1. SUFFICES ASSUME 1 < n PROVE FALSE
    BY <1>2
  <2>2. v[1] > 0
    BY <1>1, <1>2, <1>3, <2>1, RestIsPositive DEF IsVarint
  <2> QED
    BY <1>4, <1>5, <2>2
<1>7. v[0] = digits[1]
  BY <1>4, <1>5, <1>6
<1>8. Len(bytes) \in Nat /\ 1 \in 1..Len(bytes)
  BY <1>1, <1>2, <1>6, LenProperties DEF IsVarint
<1> QED
  BY <1>1, <1>2, <1>4, <1>6, <1>7, <1>8 DEF IsVarint

\* A byte of the header of a CID, and the bytes after it.
LEMMA HeaderByte ==
  ASSUME NEW bytes \in Seq(Bytes), readVarint(bytes) # Undefined, readVarint(bytes).value < 128,
         NEW rest, rest = After(bytes, readVarint(bytes))
  PROVE  /\ readVarint(bytes).value = bytes[1]
         /\ rest \in Seq(Bytes) /\ Len(bytes) \in Nat /\ Len(rest) = Len(bytes) - 1
         /\ \A i \in 1..Len(rest) : rest[i] = bytes[i + 1]
<1>1. Len(bytes) > 0 /\ readVarint(bytes).value = bytes[1] /\ readVarint(bytes).size = 1
  BY SmallVarint
<1>2. Len(bytes) \in Nat \ {0}
  BY <1>1, LenProperties
<1>3. rest = SubSeq(bytes, 2, Len(bytes))
  BY <1>1 DEF After
<1>4. bytes # <<>>
  BY <1>2, EmptySeq
<1>5. rest = Tail(bytes)
  BY <1>3, <1>4, TailIsSubSeq
<1> QED
  BY <1>1, <1>2, <1>4, <1>5, HeadTailProperties

\* What IdentifiersAreExact says of CIDs.
LEMMA CidIsExact ==
  ASSUME NEW bytes \in Seq(Bytes), isCidV1(bytes)
  PROVE  /\ bytes[1] = 1 /\ bytes[2] \in {85, 112} /\ bytes[3] = 18 /\ bytes[4] = DigestBytes
         /\ Len(bytes) = 4 + DigestBytes
<1> DEFINE version == readVarint(bytes)
           fromCodec == After(bytes, version)
           codec == readVarint(fromCodec)
           fromHashCode == After(fromCodec, codec)
           hashCode == readVarint(fromHashCode)
           fromHashLength == After(fromHashCode, hashCode)
           hashLength == readVarint(fromHashLength)
           digest == After(fromHashLength, hashLength)
<1>1. /\ version # Undefined /\ version.value = 1
      /\ codec # Undefined /\ codec.value \in {85, 112}
      /\ hashCode # Undefined /\ hashCode.value = 18
      /\ hashLength # Undefined /\ hashLength.value = DigestBytes
      /\ Len(digest) = hashLength.value
  BY DEF isCidV1
<1>2. DigestBytes \in Nat /\ DigestBytes < 128
  BY NumbersAssumption
<1> HIDE DEF fromCodec, fromHashCode, fromHashLength, digest
<1>3. PICK s1 : s1 = fromCodec
  OBVIOUS
<1>4. PICK s2 : s2 = fromHashCode
  OBVIOUS
<1>5. PICK s3 : s3 = fromHashLength
  OBVIOUS
<1>6. PICK s4 : s4 = digest
  OBVIOUS
<1>7. /\ bytes[1] = 1 /\ s1 \in Seq(Bytes) /\ Len(bytes) \in Nat /\ Len(s1) = Len(bytes) - 1
      /\ \A i \in 1..Len(s1) : s1[i] = bytes[i + 1]
  <2>1. s1 = After(bytes, readVarint(bytes)) /\ readVarint(bytes) # Undefined /\ readVarint(bytes).value = 1
    BY <1>1, <1>3 DEF fromCodec
  <2> QED
    BY <2>1, HeaderByte
<1>8. /\ s1[1] \in {85, 112} /\ s2 \in Seq(Bytes) /\ Len(s1) \in Nat /\ Len(s2) = Len(s1) - 1
      /\ \A i \in 1..Len(s2) : s2[i] = s1[i + 1]
  <2>1. s2 = After(s1, readVarint(s1)) /\ readVarint(s1) # Undefined /\ readVarint(s1).value \in {85, 112}
    BY <1>1, <1>3, <1>4 DEF fromHashCode
  <2>2. readVarint(s1).value < 128
    BY <2>1
  <2> QED
    BY <1>7, <2>1, <2>2, HeaderByte
<1>9. /\ s2[1] = 18 /\ s3 \in Seq(Bytes) /\ Len(s2) \in Nat /\ Len(s3) = Len(s2) - 1
      /\ \A i \in 1..Len(s3) : s3[i] = s2[i + 1]
  <2>1. s3 = After(s2, readVarint(s2)) /\ readVarint(s2) # Undefined /\ readVarint(s2).value = 18
    BY <1>1, <1>4, <1>5 DEF fromHashLength
  <2>2. readVarint(s2).value < 128
    BY <2>1
  <2> QED
    BY <1>8, <2>1, <2>2, HeaderByte
<1>10. s3[1] = DigestBytes /\ Len(s3) \in Nat /\ Len(s4) = Len(s3) - 1 /\ Len(s4) = DigestBytes
  <2>1. /\ s4 = After(s3, readVarint(s3)) /\ readVarint(s3) # Undefined /\ readVarint(s3).value = DigestBytes
        /\ Len(s4) = readVarint(s3).value
    BY <1>1, <1>5, <1>6 DEF digest
  <2>2. readVarint(s3).value < 128
    BY <1>2, <2>1
  <2> QED
    BY <1>9, <2>1, <2>2, HeaderByte
<1>11. Len(bytes) = 4 + DigestBytes
  BY <1>2, <1>7, <1>8, <1>9, <1>10
<1>12. bytes[2] = s1[1] /\ bytes[3] = s2[1] /\ bytes[4] = s3[1]
  <2>1. s3[1] = s2[2] /\ s2[2] = s1[3] /\ s1[3] = bytes[4] /\ s2[1] = s1[2] /\ s1[2] = bytes[3] /\ s1[1] = bytes[2]
    <3>1. 1 \in 1..Len(s3) /\ 1 \in 1..Len(s2) /\ 2 \in 1..Len(s2) /\ 1 \in 1..Len(s1) /\ 2 \in 1..Len(s1) /\ 3 \in 1..Len(s1)
      BY <1>2, <1>7, <1>8, <1>9, <1>10
    <3>2. 1 + 1 = 2 /\ 2 + 1 = 3 /\ 3 + 1 = 4
      OBVIOUS
    <3> QED
      BY <1>7, <1>8, <1>9, <3>1, <3>2
  <2> QED
    BY <2>1
<1> QED
  BY <1>7, <1>8, <1>9, <1>10, <1>11, <1>12

-----------------------------------------------------------------------------
(* The answer to a question is what its operation returns, and the question *)
(* is a fair one.                                                           *)

Result(q) ==
  CASE q.op = "resolve" -> resolveCamResourceURI(q.base, q.ref)
    [] q.op = "root" -> <<assertPublishedCamRootURI(q.uri), assertLoadableCamRootURI(q.uri)>>
    [] q.op = "base32" -> decodeBase32(q.digits)
    [] q.op = "base58" -> decodeBase58btc(q.digits)
    [] q.op = "varint" -> readVarint(q.bytes)
    [] q.op = "cid" -> isCidV1(q.bytes)
    [] q.op = "integrity" -> verifyIntegrity(q.integrity, q.actual)

\* The inductive invariant.
AnswersAreResults == asked \in Questions /\ (answer # None => answer = <<Result(asked)>>)

LEMMA ResultsAnswer ==
  ASSUME AnswersAreResults, [Next]_vars
  PROVE  AnswersAreResults'
<1>1. CASE UNCHANGED vars
  BY <1>1 DEF AnswersAreResults, vars, Result
<1>2. CASE Resolve
  BY <1>2 DEF AnswersAreResults, Resolve, Answers, Result
<1>3. CASE CheckRoot
  BY <1>3 DEF AnswersAreResults, CheckRoot, Answers, Result
<1>4. CASE Decode32
  BY <1>4 DEF AnswersAreResults, Decode32, Answers, Result
<1>5. CASE Decode58
  BY <1>5 DEF AnswersAreResults, Decode58, Answers, Result
<1>6. CASE ReadVarint
  BY <1>6 DEF AnswersAreResults, ReadVarint, Answers, Result
<1>7. CASE CheckCid
  BY <1>7 DEF AnswersAreResults, CheckCid, Answers, Result
<1>8. CASE Verify
  BY <1>8 DEF AnswersAreResults, Verify, Answers, Result
<1> QED
  BY <1>1, <1>2, <1>3, <1>4, <1>5, <1>6, <1>7, <1>8 DEF Next

LEMMA AnswersAlwaysResults == Spec => []AnswersAreResults
<1>1. Init => AnswersAreResults
  BY DEF Init, AnswersAreResults
<1>2. AnswersAreResults /\ [Next]_vars => AnswersAreResults'
  BY ResultsAnswer
<1> QED
  BY <1>1, <1>2, PTL DEF Spec

LEMMA KeysFollow ==
  ASSUME AnswersAreResults
  PROVE  KeysAreDeterministic
<1>1. ASSUME Answered("resolve"), answer[1] # Undefined, asked.ref.form = "path"
      PROVE  LET key == answer[1].path
                 start == Start(asked.base)
                 directory == Walk(start, directoryOf(asked.base.path))
             IN /\ Walk(start, key) = Walk(directory, asked.ref.path)
                /\ IsSecondary(asked.ref) => Walk(start, key) = directory \o Tail(asked.ref.path)
                /\ normalizePath(key) = IF asked.base.form = "plain" /\ key[1] = "." /\ Len(key) > 1 /\ key # <<".", "">>
                                        THEN Tail(key) ELSE key
                /\ EndsWithSlash(key) <=> EndsWithSlash(asked.ref.path) \/ key = <<"", "">>
  <2>1. answer[1] = resolveCamResourceURI(asked.base, asked.ref) /\ asked \in Questions /\ asked.op = "resolve"
    BY <1>1 DEF AnswersAreResults, Answered, Result
  <2>2. IsQuestion(asked)
    BY <2>1, QuestionsAssumption
  <2>3. PICK base, ref, uri : base = asked.base /\ ref = asked.ref /\ uri = answer[1]
    OBVIOUS
  <2>4. /\ base \in Bases /\ ref.form = "path" /\ ref.path \in Paths /\ ref.path # Slash
        /\ base.form = "hierarchical" => base.path[1] = Empty
        /\ base.form = "plain" => base.path # Slash
    BY <1>1, <2>1, <2>2, <2>3 DEF IsQuestion, Bases, Slash, Empty
  <2>5. uri = resolveCamResourceURI(base, ref) /\ uri # Undefined
    BY <1>1, <2>1, <2>3
  <2>6. /\ Leads(base, ref, uri.path) /\ IsOfNames(base, ref, uri.path)
        /\ IsNormal(base, uri.path) /\ KeepsSlash(ref, uri.path)
    BY <2>4, <2>5, ResolvedKey
  <2>7. <<".", "">> = Here \o Slash
    BY PairIsJoined DEF Here, Slash, Dot, Empty
  <2>8. Dot = "." /\ Root = <<"", "">>
    BY DEF Dot, Root, Empty
  <2> QED
    BY <2>3, <2>6, <2>7, <2>8 DEF Leads, IsOfNames, IsNormal, KeepsSlash
<1>2. ASSUME Answered("root") PROVE answer[1][1] => answer[1][2]
  <2>1. answer[1] = <<assertPublishedCamRootURI(asked.uri), assertLoadableCamRootURI(asked.uri)>>
    BY <1>2 DEF AnswersAreResults, Answered, Result
  <2>2. assertPublishedCamRootURI(asked.uri) => assertLoadableCamRootURI(asked.uri)
    BY DEF assertPublishedCamRootURI, assertLoadableCamRootURI, IsHttp
  <2> QED
    BY <2>1, <2>2
<1> QED
  BY <1>1, <1>2 DEF KeysAreDeterministic

\* CamResources.KeysAreDeterministic, for paths of any length: a key leads where its
\* reference leads and is its own normal form (resources.ts 162-243, 296-388).
THEOREM KeysDeterministic == Spec => []KeysAreDeterministic
<1>1. AnswersAreResults => KeysAreDeterministic
  BY KeysFollow
<1> QED
  BY <1>1, AnswersAlwaysResults, PTL

LEMMA IdentifiersFollow ==
  ASSUME AnswersAreResults
  PROVE  IdentifiersAreExact
<1>1. asked \in Questions /\ IsQuestion(asked)
  BY QuestionsAssumption DEF AnswersAreResults
<1>2. ASSUME Answered("base32")
      PROVE  LET number == BigEndian(32, asked.digits)
                 spare == (5 * Len(asked.digits)) % 8
             IN IF number % 2^spare # 0 THEN answer[1] = Undefined
                ELSE /\ answer[1] \in Seq(Bytes) /\ Len(answer[1]) = (5 * Len(asked.digits)) \div 8
                     /\ BigEndian(256, answer[1]) = number \div 2^spare
  <2>1. answer[1] = decodeBase32(asked.digits) /\ asked.digits \in Seq(0..31)
    BY <1>1, <1>2 DEF AnswersAreResults, Answered, Result, IsQuestion
  <2> QED
    BY <2>1, Base32IsExact
<1>3. ASSUME Answered("base58")
      PROVE  answer[1] \in Seq(Bytes) /\ BigEndian(256, answer[1]) = BigEndian(58, asked.digits)
  <2>1. answer[1] = decodeBase58btc(asked.digits) /\ asked.digits \in Seq(0..57)
    BY <1>1, <1>3 DEF AnswersAreResults, Answered, Result, IsQuestion
  <2> QED
    BY <2>1, Base58IsExact
<1>4. ASSUME Answered("varint"), answer[1] # Undefined, NEW q \in Questions, q.op = "varint",
             readVarint(q.bytes) # Undefined, readVarint(q.bytes).value = answer[1].value
      PROVE  SubSeq(q.bytes, 1, readVarint(q.bytes).size) = SubSeq(asked.bytes, 1, answer[1].size)
  <2>1. answer[1] = readVarint(asked.bytes) /\ asked.bytes \in Seq(Bytes)
    BY <1>1, <1>4 DEF AnswersAreResults, Answered, Result, IsQuestion
  <2>2. q.bytes \in Seq(Bytes)
    BY <1>4, QuestionsAssumption DEF IsQuestion
  <2> QED
    BY <1>4, <2>1, <2>2, VarintIsUnique
<1>5. ASSUME Answered("cid"), answer[1]
      PROVE  /\ asked.bytes[1] = 1 /\ asked.bytes[2] \in {85, 112}
             /\ asked.bytes[3] = 18 /\ asked.bytes[4] = DigestBytes
             /\ Len(asked.bytes) = 4 + DigestBytes
  <2>0. asked.op = "cid" /\ answer # None
    BY <1>5 DEF Answered
  <2>1. answer[1] = isCidV1(asked.bytes) /\ asked.bytes \in Seq(Bytes)
    <3>1. answer = <<Result(asked)>>
      BY <2>0 DEF AnswersAreResults
    <3>2. Result(asked) = isCidV1(asked.bytes)
      BY <2>0 DEF Result
    <3>3. asked.bytes \in Seq(Bytes)
      BY <1>1, <2>0 DEF IsQuestion
    <3> QED
      BY <3>1, <3>2, <3>3
  <2>2. isCidV1(asked.bytes)
    BY <1>5, <2>1
  <2> QED
    BY <2>1, <2>2, CidIsExact
<1>6. ASSUME Answered("integrity"), answer[1]
      PROVE  asked.integrity.digest = asked.actual
  <2>0. asked.op = "integrity" /\ answer # None
    BY <1>6 DEF Answered
  <2>1. answer[1] = verifyIntegrity(asked.integrity, asked.actual)
    <3>1. answer = <<Result(asked)>>
      BY <2>0 DEF AnswersAreResults
    <3>2. Result(asked) = verifyIntegrity(asked.integrity, asked.actual)
      BY <2>0 DEF Result
    <3> QED
      BY <3>1, <3>2
  <2> QED
    BY <1>6, <2>1 DEF verifyIntegrity
<1> QED
  BY <1>2, <1>3, <1>4, <1>5, <1>6 DEF IdentifiersAreExact

\* CamResources.IdentifiersAreExact, for texts and byte strings of any length: the bytes of
\* a CID are the number its text spells, and what is accepted has one spelling
\* (resources.ts 408-536).
THEOREM IdentifiersExact == Spec => []IdentifiersAreExact
<1>1. AnswersAreResults => IdentifiersAreExact
  BY IdentifiersFollow
<1> QED
  BY <1>1, AnswersAlwaysResults, PTL
=============================================================================
