------------------------- MODULE BoundedReadProofs --------------------------
(***************************************************************************)
(* Proofs about BoundedRead, for any limit, chunk size and file.  What the *)
(* copy loop has at its end is a sum over the chunks: the lemmas about it  *)
(* go by the least position where they would fail.  The inductive          *)
(* invariant compares that sum with the running count.                     *)
(***************************************************************************)
EXTENDS BoundedRead, SequenceTheorems, WellFoundedInduction, TLAPS

\* What was counted is what was kept, as long as the read may still succeed.
CountIsKept ==
  /\ Kept <= taken /\ Kept <= MaxBytes
  /\ stage \in {"open", "reading"} \/ ended => Kept = taken

\* A read that went on past the headers was not refused.
Admitted ==
  /\ source = "http" => size = taken
  /\ source = "http" /\ stage # "open" /\ outcome # Error => ~ Refused

\* The end is announced once, after everything; a result is as it was checked.
EndIsLast ==
  /\ ended => stage \in {"release", "done"}
  /\ outcome \in Nat => ended /\ outcome = Kept /\ (Declared # None => taken = Declared)

IInv == TypeOK /\ CountIsKept /\ Admitted /\ EndIsLast

-----------------------------------------------------------------------------
(* The copy loop                                                            *)

\* The offsets of the first n chunks of s.
AreOffsets(f, s, n) == f = [i \in 0..n |-> IF i = 0 THEN 0 ELSE f[i - 1] + s[i]]

LEMMA LeastNumber ==
  ASSUME NEW S \in SUBSET Nat, S # {}
  PROVE  \E x \in S : \A y \in S : x <= y
<1> DEFINE less == {ss \in Nat \X Nat : ss[1] < ss[2]}
<1>1. IsWellFoundedOn(less, Nat)
  BY NatLessThanWellFounded DEF OpToRel
<1> HIDE DEF less
<1>2. PICK x \in S : \A y \in S : <<y, x>> \notin less
  BY <1>1, WFMin
<1>3. ASSUME NEW y \in S PROVE x <= y
  <2>1. <<y, x>> \in Nat \X Nat /\ ~ (y < x)
    BY <1>2 DEF less
  <2> QED
    BY <2>1
<1> QED
  BY <1>3

LEMMA OffsetsExist ==
  ASSUME NEW s, NEW n \in Nat
  PROVE  \E f : AreOffsets(f, s, n)
<1> DEFINE Without == {k \in Nat : ~ \E f : AreOffsets(f, s, k)}
<1>1. SUFFICES ASSUME Without # {} PROVE FALSE
  OBVIOUS
<1>2. PICK k \in Without : \A j \in Without : k <= j
  BY <1>1, LeastNumber
<1>3. k \in Nat /\ ~ \E f : AreOffsets(f, s, k)
  BY <1>2
<1>4. k # 0
  <2> DEFINE f == [i \in 0..0 |-> 0]
  <2>1. f = [i \in 0..0 |-> IF i = 0 THEN 0 ELSE f[i - 1] + s[i]]
    OBVIOUS
  <2> QED
    BY <1>3, <2>1 DEF AreOffsets
<1>5. k - 1 \in Nat /\ k - 1 \notin Without
  BY <1>2, <1>3, <1>4
<1>6. PICK f : AreOffsets(f, s, k - 1)
  BY <1>5
<1> DEFINE g == [i \in 0..k |-> IF i = k THEN f[k - 1] + s[k] ELSE f[i]]
<1>7. ASSUME NEW i \in 0..k PROVE g[i] = IF i = 0 THEN 0 ELSE g[i - 1] + s[i]
  <2>1. CASE i = 0
    BY <1>3, <1>4, <1>6, <2>1 DEF AreOffsets
  <2>2. CASE i # 0 /\ i # k
    <3>1. i \in 0..(k - 1) /\ i - 1 \in 0..k /\ i - 1 # k
      BY <1>3, <2>2
    <3>2. f[i] = f[i - 1] + s[i]
      BY <1>6, <2>2, <3>1 DEF AreOffsets
    <3> QED
      BY <2>2, <3>1, <3>2
  <2>3. CASE i # 0 /\ i = k
    <3>1. i - 1 \in 0..k /\ i - 1 # k
      BY <1>3, <2>3
    <3> QED
      BY <2>3, <3>1
  <2> QED
    BY <2>1, <2>2, <2>3
<1>8. AreOffsets(g, s, k)
  BY <1>7 DEF AreOffsets
<1> QED
  BY <1>3, <1>8

\* Offsets are numbers, and depend on no more of the chunks than they count.
LEMMA OffsetsAreDetermined ==
  ASSUME NEW s, NEW t, NEW f, NEW g, NEW n \in Nat, NEW m \in Nat, n <= m,
         AreOffsets(f, s, n), AreOffsets(g, t, m),
         \A i \in 1..n : s[i] \in Nat, \A i \in 1..n : t[i] = s[i]
  PROVE  \A i \in 0..n : f[i] \in Nat /\ g[i] = f[i]
<1> DEFINE Wrong == {i \in 0..n : ~ (f[i] \in Nat /\ g[i] = f[i])}
<1>1. SUFFICES ASSUME Wrong # {} PROVE FALSE
  OBVIOUS
<1>2. PICK k \in Wrong : \A j \in Wrong : k <= j
  <2>1. Wrong \in SUBSET Nat
    OBVIOUS
  <2> QED
    BY <1>1, <2>1, LeastNumber
<1>3. k \in 0..n /\ k \in 0..m
  BY <1>2
<1>4. k # 0
  BY <1>2, <1>3 DEF AreOffsets
<1>5. k - 1 \in 0..n /\ k - 1 \notin Wrong /\ k \in 1..n
  BY <1>2, <1>3, <1>4
<1>6. f[k - 1] \in Nat /\ g[k - 1] = f[k - 1] /\ s[k] \in Nat /\ t[k] = s[k]
  BY <1>5
<1>7. f[k] = f[k - 1] + s[k] /\ g[k] = g[k - 1] + t[k]
  BY <1>3, <1>4 DEF AreOffsets
<1> QED
  BY <1>2, <1>6, <1>7

LEMMA OffsetsOfSequence ==
  ASSUME NEW s \in Seq(Nat)
  PROVE  AreOffsets(Offsets(s), s, Len(s))
<1>1. Len(s) \in Nat
  BY LenProperties
<1>2. \E f : AreOffsets(f, s, Len(s))
  BY <1>1, OffsetsExist
<1> QED
  BY <1>2 DEF Offsets, AreOffsets

\* What is kept of the chunks of a sequence.
Sum(s) == Offsets(s)[Len(s)]

LEMMA SumIsANumber ==
  ASSUME NEW s \in Seq(Nat)
  PROVE  Sum(s) \in Nat
<1>1. Len(s) \in Nat /\ \A i \in 1..Len(s) : s[i] \in Nat
  BY LenProperties, ElementOfSeq
<1>2. AreOffsets(Offsets(s), s, Len(s))
  BY OffsetsOfSequence
<1>3. \A i \in 0..Len(s) : Offsets(s)[i] \in Nat /\ Offsets(s)[i] = Offsets(s)[i]
  BY <1>1, <1>2, OffsetsAreDetermined
<1> QED
  BY <1>1, <1>3 DEF Sum

LEMMA SumOfNothing == Sum(<<>>) = 0
<1>1. <<>> \in Seq(Nat) /\ Len(<<>>) = 0
  BY EmptySeq
<1>2. AreOffsets(Offsets(<<>>), <<>>, 0)
  BY <1>1, OffsetsOfSequence
<1> QED
  BY <1>1, <1>2 DEF Sum, AreOffsets

LEMMA SumOfAppend ==
  ASSUME NEW s \in Seq(Nat), NEW n \in Nat
  PROVE  Sum(Append(s, n)) = Sum(s) + n
<1> DEFINE t == Append(s, n)
<1>1. /\ t \in Seq(Nat) /\ Len(t) = Len(s) + 1 /\ Len(s) \in Nat
      /\ \A i \in 1..Len(s) : s[i] \in Nat /\ t[i] = s[i]
      /\ t[Len(s) + 1] = n
  BY AppendProperties, LenProperties, ElementOfSeq
<1> HIDE DEF t
<1>2. AreOffsets(Offsets(s), s, Len(s)) /\ AreOffsets(Offsets(t), t, Len(t))
  BY <1>1, OffsetsOfSequence
<1>3. \A i \in 0..Len(s) : Offsets(s)[i] \in Nat /\ Offsets(t)[i] = Offsets(s)[i]
  <2> DEFINE n1 == Len(s) m1 == Len(t) f == Offsets(s) g == Offsets(t)
  <2>1. n1 \in Nat /\ m1 \in Nat /\ n1 <= m1
    BY <1>1
  <2>2. (\A i \in 1..n1 : s[i] \in Nat) /\ (\A i \in 1..n1 : t[i] = s[i])
    BY <1>1
  <2>3. AreOffsets(f, s, n1) /\ AreOffsets(g, t, m1)
    BY <1>2
  <2> HIDE DEF n1, m1, f, g
  <2>4. \A i \in 0..n1 : f[i] \in Nat /\ g[i] = f[i]
    BY <2>1, <2>2, <2>3, OffsetsAreDetermined
  <2> QED
    BY <2>4 DEF n1, f, g
<1>4. Offsets(t)[Len(t)] = Offsets(t)[Len(t) - 1] + t[Len(t)]
  BY <1>1, <1>2 DEF AreOffsets
<1>5. Sum(t) = Sum(s) + n
  BY <1>1, <1>3, <1>4 DEF Sum
<1> QED
  BY <1>5 DEF t

LEMMA KeptIsSum ==
  /\ Kept = Sum(chunks)
  /\ chunks' = chunks => Kept' = Kept
  /\ \A n : chunks' = Append(chunks, n) => Kept' = Sum(Append(chunks, n))
BY DEF Kept, Sum

LEMMA ChunksAreNumbers ==
  ASSUME chunks \in Seq(1..MaxChunk)
  PROVE  chunks \in Seq(Nat) /\ Kept \in Nat
<1>1. 1..MaxChunk \subseteq Nat
  BY ReadAssumption
<1>2. chunks \in Seq(Nat)
  BY <1>1, SeqMonotonic
<1> QED
  BY <1>2, SumIsANumber, KeptIsSum

LEMMA MinOfTwo ==
  ASSUME NEW a \in Int, NEW b \in Int
  PROVE  Min({a, b}) <= a /\ Min({a, b}) <= b
<1>1. \E x \in {a, b} : \A y \in {a, b} : x <= y
  OBVIOUS
<1> QED
  BY <1>1 DEF Min

\* Nothing changes where a resource comes from and what was announced of it.
LEMMA HeadersStay ==
  ASSUME source' = source, headers' = headers
  PROVE  Declared' = Declared /\ (Refused' <=> Refused)
BY DEF Declared, Refused

-----------------------------------------------------------------------------
(* The steps                                                                *)

LEMMA InitIsInductive ==
  ASSUME Init
  PROVE  IInv
<1>1. /\ source \in {"http", "file"} /\ (source = "http" => headers \in Headers /\ size = 0)
      /\ size \in Nat /\ stage = "open" /\ chunks = <<>> /\ taken = 0 /\ reads = 0
      /\ ended = FALSE /\ locked = FALSE /\ outcome = None
  BY ReadAssumption DEF Init
<1>2. chunks \in Seq(1..MaxChunk) /\ Kept = 0
  BY <1>1, SumOfNothing, KeptIsSum, EmptySeq
<1>3. TypeOK
  BY <1>1, <1>2, ReadAssumption DEF TypeOK
<1>4. CountIsKept /\ Admitted /\ EndIsLast
  BY <1>1, <1>2, ReadAssumption DEF CountIsKept, Admitted, EndIsLast
<1> QED
  BY <1>3, <1>4 DEF IInv

LEMMA OpenResponseKeeps ==
  ASSUME IInv, OpenResponse
  PROVE  IInv'
<1>1. /\ source' = source /\ headers' = headers /\ size' = size /\ chunks' = chunks
      /\ taken' = taken /\ reads' = reads /\ ended' = ended /\ stage = "open"
      /\ \/ Refused /\ stage' = "done" /\ outcome' = Error /\ locked' = locked
         \/ ~ Refused /\ stage' = "reading" /\ outcome' = outcome /\ locked' = TRUE
  BY DEF OpenResponse, Ends
<1>2. Declared' = Declared /\ (Refused' <=> Refused) /\ Kept' = Kept
  BY <1>1, HeadersStay, KeptIsSum
<1>3. TypeOK'
  BY <1>1, ReadAssumption DEF IInv, TypeOK
<1>4. CountIsKept' /\ Admitted' /\ EndIsLast'
  BY <1>1, <1>2, ReadAssumption DEF IInv, TypeOK, CountIsKept, Admitted, EndIsLast
<1> QED
  BY <1>3, <1>4 DEF IInv

LEMMA OpenFileKeeps ==
  ASSUME IInv, OpenFile
  PROVE  IInv'
<1>1. /\ source' = source /\ headers' = headers /\ size' = size /\ chunks' = chunks
      /\ taken' = taken /\ reads' = reads /\ ended' = ended /\ stage = "open" /\ source = "file"
      /\ \/ stage' = "done" /\ outcome' = Error /\ locked' = locked
         \/ stage' = "reading" /\ outcome' = outcome /\ locked' = TRUE
  BY DEF OpenFile, Ends
<1>2. Declared' = Declared /\ (Refused' <=> Refused) /\ Kept' = Kept
  BY <1>1, HeadersStay, KeptIsSum
<1>3. TypeOK'
  BY <1>1, ReadAssumption DEF IInv, TypeOK
<1>4. CountIsKept' /\ Admitted' /\ EndIsLast'
  BY <1>1, <1>2, ReadAssumption DEF IInv, TypeOK, CountIsKept, Admitted, EndIsLast
<1> QED
  BY <1>3, <1>4 DEF IInv

LEMMA FileChangesKeeps ==
  ASSUME IInv, NEW n \in 0..MaxFile, FileChanges(n)
  PROVE  IInv'
<1>1. /\ source' = source /\ headers' = headers /\ size' = n /\ stage' = stage /\ chunks' = chunks
      /\ taken' = taken /\ reads' = reads /\ ended' = ended /\ locked' = locked /\ outcome' = outcome
      /\ source = "file"
  BY DEF FileChanges
<1>2. Declared' = Declared /\ (Refused' <=> Refused) /\ Kept' = Kept
  BY <1>1, HeadersStay, KeptIsSum
<1>3. TypeOK'
  BY <1>1, ReadAssumption DEF IInv, TypeOK
<1>4. CountIsKept' /\ Admitted' /\ EndIsLast'
  BY <1>1, <1>2 DEF IInv, CountIsKept, Admitted, EndIsLast
<1> QED
  BY <1>3, <1>4 DEF IInv

\* A chunk, of a stream or a file: it is kept as a whole, or ends the read.
LEMMA ChunkKeeps ==
  ASSUME IInv, NEW n \in Nat, stage = "reading", ~ ended,
         source' = source, headers' = headers, size' \in Nat,
         source = "http" => size' = size + n,
         source = "file" => taken + n <= MaxBytes + 1,
         n <= MaxChunk, taken' = taken + n, reads' = 1 - reads,
         ended' = ended, locked' = locked, outcome' = outcome,
         \/ stage' \in {"cancelling", "release"} /\ chunks' = chunks
         \/ n > 0 /\ taken' <= MaxBytes /\ chunks' = Append(chunks, n) /\ stage' = stage
  PROVE  IInv'
<1>1. Declared' = Declared /\ (Refused' <=> Refused)
  BY HeadersStay
<1>2. /\ Kept \in Nat /\ taken \in Nat /\ Kept = taken /\ Kept <= MaxBytes
      /\ chunks \in Seq(1..MaxChunk) /\ chunks \in Seq(Nat) /\ reads \in 0..1
      /\ MaxBytes \in Nat /\ MaxChunk \in Nat
  BY ChunksAreNumbers, ReadAssumption DEF IInv, TypeOK, CountIsKept
<1>3. /\ chunks' \in Seq(1..MaxChunk) /\ Kept' <= taken' /\ Kept' <= MaxBytes
      /\ stage' = "reading" => Kept' = taken'
  <2>1. CASE stage' \in {"cancelling", "release"} /\ chunks' = chunks
    BY <2>1, <1>2, KeptIsSum
  <2>2. CASE n > 0 /\ taken' <= MaxBytes /\ chunks' = Append(chunks, n) /\ stage' = stage
    <3>1. chunks' \in Seq(1..MaxChunk)
      <4>1. n \in 1..MaxChunk
        BY <2>2, <1>2
      <4> QED
        BY <4>1, <2>2, <1>2, AppendProperties
    <3>2. Kept' = Kept + n
      BY <2>2, <1>2, KeptIsSum, SumOfAppend
    <3> QED
      BY <3>1, <3>2, <2>2, <1>2
  <2> QED
    BY <2>1, <2>2
<1>4. stage' \in {"reading", "cancelling", "release"} /\ taken' \in 0..(MaxBytes + MaxChunk) /\ reads' \in 0..1
  BY <1>2
<1>5. TypeOK'
  BY <1>3, <1>4 DEF IInv, TypeOK
<1>6. CountIsKept'
  BY <1>3, <1>4 DEF CountIsKept
<1>7. Admitted' /\ EndIsLast'
  BY <1>1, <1>4 DEF IInv, TypeOK, Admitted, EndIsLast
<1> QED
  BY <1>5, <1>6, <1>7 DEF IInv

LEMMA StreamChunkKeeps ==
  ASSUME IInv, NEW n \in 0..MaxChunk, StreamChunk(n)
  PROVE  IInv'
<1>1. /\ source = "http" /\ stage = "reading" /\ ~ ended /\ taken' = taken + n /\ size' = size + n
      /\ reads' = 1 - reads /\ source' = source /\ headers' = headers /\ ended' = ended
      /\ locked' = locked /\ outcome' = outcome
  BY DEF StreamChunk
<1>2. n \in Nat /\ n <= MaxChunk /\ size \in Nat /\ taken \in Nat /\ MaxBytes \in Nat
  BY ReadAssumption DEF IInv, TypeOK
<1>3. \/ stage' \in {"cancelling", "release"} /\ chunks' = chunks
      \/ n > 0 /\ taken' <= MaxBytes /\ chunks' = Append(chunks, n) /\ stage' = stage
  <2>1. CASE n = 0 \/ TooMuch(taken')
    BY <2>1, <1>2 DEF StreamChunk
  <2>2. CASE n # 0 /\ ~ TooMuch(taken')
    BY <2>2, <1>1, <1>2 DEF StreamChunk, TooMuch
  <2> QED
    BY <2>1, <2>2
<1>4. size' \in Nat
  BY <1>1, <1>2
<1> QED
  BY <1>1, <1>2, <1>3, <1>4, ChunkKeeps

LEMMA FileChunkKeeps ==
  ASSUME IInv, NEW n \in 0..MaxChunk, FileChunk(n)
  PROVE  IInv'
<1>1. /\ source = "file" /\ stage = "reading" /\ ~ ended /\ taken' = taken + n /\ size' = size
      /\ n \in 1..Min({MaxChunk, MaxBytes + 1 - taken})
      /\ reads' = 1 - reads /\ source' = source /\ headers' = headers /\ ended' = ended
      /\ locked' = locked /\ outcome' = outcome
  BY DEF FileChunk
<1>2. n \in Nat /\ n <= MaxChunk /\ size \in Nat /\ taken \in Nat /\ MaxBytes \in Nat /\ MaxChunk \in Nat
  BY ReadAssumption DEF IInv, TypeOK
<1>3. n > 0 /\ taken + n <= MaxBytes + 1
  <2> DEFINE room == MaxBytes + 1 - taken
  <2>1. room \in Int /\ Min({MaxChunk, room}) <= room
    BY <1>2, MinOfTwo
  <2>2. Min({MaxChunk, room}) \in {MaxChunk, room}
    BY <2>1, <1>2 DEF Min
  <2> QED
    BY <2>1, <2>2, <1>1, <1>2
<1>4. \/ stage' \in {"cancelling", "release"} /\ chunks' = chunks
      \/ n > 0 /\ taken' <= MaxBytes /\ chunks' = Append(chunks, n) /\ stage' = stage
  <2>1. CASE TooMuch(taken')
    BY <2>1 DEF FileChunk
  <2>2. CASE ~ TooMuch(taken')
    BY <2>2, <1>1, <1>2, <1>3 DEF FileChunk, TooMuch
  <2> QED
    BY <2>1, <2>2
<1>5. size' \in Nat
  BY <1>1, <1>2
<1> QED
  BY <1>1, <1>2, <1>3, <1>4, <1>5, ChunkKeeps

\* The steps that only move the read on: the end, a failure and the cancellation.
LEMMA EndKeeps ==
  ASSUME IInv, StreamEnds \/ FileEnds \/ ReadFails \/ Cancelled
  PROVE  IInv'
<1>1. /\ source' = source /\ headers' = headers /\ size' = size /\ chunks' = chunks
      /\ taken' = taken /\ reads' = reads /\ locked' = locked /\ outcome' = outcome
      /\ stage \in {"reading", "cancelling"} /\ stage' = "release"
      /\ \/ ended' = ended
         \/ ended' = TRUE /\ stage = "reading"
  BY DEF StreamEnds, FileEnds, ReadFails, Cancelled
<1>2. Declared' = Declared /\ (Refused' <=> Refused) /\ Kept' = Kept
  BY <1>1, HeadersStay, KeptIsSum
<1>3. TypeOK'
  BY <1>1 DEF IInv, TypeOK
<1>4. CountIsKept'
  BY <1>1, <1>2 DEF IInv, CountIsKept
<1>5. Admitted' /\ EndIsLast'
  BY <1>1, <1>2, ReadAssumption DEF IInv, TypeOK, Admitted, EndIsLast
<1> QED
  BY <1>3, <1>4, <1>5 DEF IInv

LEMMA ReleaseKeeps ==
  ASSUME IInv, Release
  PROVE  IInv'
<1>1. /\ source' = source /\ headers' = headers /\ size' = size /\ chunks' = chunks
      /\ taken' = taken /\ reads' = reads /\ ended' = ended
      /\ stage = "release" /\ stage' = "done" /\ locked' = FALSE
      /\ \/ outcome' = Error
         \/ outcome' = Kept /\ ended /\ (Declared # None => taken = Declared)
  BY DEF Release, Ends
<1>2. Declared' = Declared /\ (Refused' <=> Refused) /\ Kept' = Kept /\ Kept \in Nat
  BY <1>1, HeadersStay, KeptIsSum, ChunksAreNumbers DEF IInv, TypeOK
<1>3. TypeOK'
  BY <1>1, <1>2, ReadAssumption DEF IInv, TypeOK
<1>4. CountIsKept'
  BY <1>1, <1>2 DEF IInv, CountIsKept
<1>5. Admitted'
  BY <1>1, <1>2, ReadAssumption DEF IInv, TypeOK, Admitted
<1>6. EndIsLast'
  BY <1>1, <1>2, ReadAssumption DEF IInv, EndIsLast
<1> QED
  BY <1>3, <1>4, <1>5, <1>6 DEF IInv

-----------------------------------------------------------------------------
(* The theorems                                                             *)

\* The sum of the chunks follows the running count through every read
\* (resources.ts 559-612, local-cam-files.ts 156-178).
THEOREM BoundedReadInvariant == Spec => []IInv
<1>1. Init => IInv
  BY InitIsInductive
<1>2. IInv /\ [Next]_vars => IInv'
  <2>1. SUFFICES ASSUME IInv, [Next]_vars PROVE IInv'
    OBVIOUS
  <2>2. CASE OpenResponse
    BY <2>1, <2>2, OpenResponseKeeps
  <2>3. CASE OpenFile
    BY <2>1, <2>3, OpenFileKeeps
  <2>4. CASE \E n \in 0..MaxChunk : StreamChunk(n) \/ FileChunk(n)
    BY <2>1, <2>4, StreamChunkKeeps, FileChunkKeeps
  <2>5. CASE StreamEnds \/ FileEnds \/ ReadFails \/ Cancelled
    BY <2>1, <2>5, EndKeeps
  <2>6. CASE Release
    BY <2>1, <2>6, ReleaseKeeps
  <2>7. CASE \E n \in 0..MaxFile : FileChanges(n)
    BY <2>1, <2>7, FileChangesKeeps
  <2>8. CASE UNCHANGED vars
    <3>1. /\ source' = source /\ headers' = headers /\ size' = size /\ stage' = stage /\ chunks' = chunks
          /\ taken' = taken /\ reads' = reads /\ ended' = ended /\ locked' = locked /\ outcome' = outcome
      BY <2>8 DEF vars
    <3>2. Declared' = Declared /\ (Refused' <=> Refused) /\ Kept' = Kept
      BY <3>1, HeadersStay, KeptIsSum
    <3> QED
      BY <2>1, <3>1, <3>2 DEF IInv, TypeOK, CountIsKept, Admitted, EndIsLast
  <2> QED
    BY <2>1, <2>2, <2>3, <2>4, <2>5, <2>6, <2>7, <2>8 DEF Next, Reader
<1> QED
  BY <1>1, <1>2, PTL DEF Spec

\* The lock is held exactly while there is something to read or to cancel, and a file
\* is never read further than one byte past the limit (resources.ts 559-612,
\* local-cam-files.ts 156-178).
THEOREM BoundedReadTypeOK == Spec => []TypeOK
<1>1. IInv => TypeOK
  BY DEF IInv
<1> QED
  BY <1>1, BoundedReadInvariant, PTL

\* What is buffered never exceeds the limit, whatever the other end sends and
\* however a file changes (resources.ts 559-592, local-cam-files.ts 156-178).
THEOREM BoundedReadBufferIsBounded == Spec => []BufferIsBounded
<1>1. IInv => BufferIsBounded
  BY DEF IInv, CountIsKept, BufferIsBounded
<1> QED
  BY <1>1, BoundedReadInvariant, PTL

\* Only a whole resource of the announced length is accepted (resources.ts 119-143,
\* 538-612).
THEOREM BoundedReadAcceptedIsWhole == Spec => []AcceptedIsWhole
<1>1. IInv => AcceptedIsWhole
  <2>1. SUFFICES ASSUME IInv, outcome \in Nat
                 PROVE  /\ outcome = taken /\ ended /\ outcome <= MaxBytes
                        /\ source = "http" =>
                             /\ outcome = size /\ headers.encoding # "gzip"
                             /\ headers.sameOrigin /\ ~ headers.redirected
                             /\ Declared # None => outcome = Declared
    BY DEF AcceptedIsWhole
  <2>2. outcome # None /\ outcome # Error /\ stage = "done"
    BY <2>1, ReadAssumption DEF IInv, TypeOK
  <2>3. ended /\ outcome = Kept /\ (Declared # None => taken = Declared)
    BY <2>1 DEF IInv, EndIsLast
  <2>4. outcome = taken /\ outcome <= MaxBytes
    BY <2>1, <2>3 DEF IInv, CountIsKept
  <2>5. ASSUME source = "http" PROVE size = taken /\ ~ Refused
    BY <2>1, <2>2, <2>5 DEF IInv, Admitted
  <2>6. ASSUME source = "http" PROVE headers.encoding # "gzip" /\ headers.sameOrigin /\ ~ headers.redirected
    BY <2>5, <2>6 DEF Refused
  <2> QED
    BY <2>3, <2>4, <2>5, <2>6
<1> QED
  BY <1>1, BoundedReadInvariant, PTL
=============================================================================
