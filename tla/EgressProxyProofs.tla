------------------------- MODULE EgressProxyProofs --------------------------
(***************************************************************************)
(* Proofs about EgressProxy, for any hosts, addresses, buffer, window and  *)
(* numbers of bytes.  The inductive invariant accounts for every byte of a *)
(* side: sent on, in the proxy's hands, or not read yet; and says what an  *)
(* attempt to connect knows of the answer it goes by.                      *)
(***************************************************************************)
EXTENDS EgressProxy, SequenceTheorems, FiniteSetTheorems, TLAPS

\* The bytes of s that the proxy has in its hands.
Held(s) == IF ready # <<>> /\ Head(ready) = s THEN inHand ELSE 0

Stream(k) == [i \in 1..k |-> i]

\* Nothing is read that was not written, nothing held that was not read, and what
\* is not held any more was sent on.
BytesAreAccounted == \A s \in Sides :
  /\ received[s] <= written[s]
  /\ Held(s) <= received[s]
  /\ delivered[Other(s)] = Stream(received[s] - Held(s))

\* A side that ended the tunnel has nothing left to send, and the tunnel is over.
EndsAreClean ==
  end \in Sides => /\ phase = "closed"
                   /\ received[end] = written[end]
                   /\ Held(end) = 0

\* From the first attempt on, the answer is of an allowed host and all global.
Checked ==
  /\ answer.host \in AllowedHosts /\ answer.port = 443
  /\ answer.addresses \subseteq GlobalAddresses

AttemptsAreChecked ==
  /\ phase = "request" => upstream = None
  /\ phase = "connecting" => Checked /\ candidates \subseteq answer.addresses
  /\ upstream # None => Checked /\ upstream \in answer.addresses

IInv ==
  /\ TypeOK
  /\ delivered \in [Sides -> Seq(Nat)]
  /\ BytesAreAccounted
  /\ EndsAreClean
  /\ AttemptsAreChecked

-----------------------------------------------------------------------------
(* Lemmas about the operators                                               *)

LEMMA OtherSide ==
  /\ \A s \in Sides : Other(s) \in Sides /\ Other(s) # s /\ Other(Other(s)) = s
  /\ \A s, d \in Sides : d # s => d = Other(s)
BY DEF Sides, Other

\* What select returned is handled from its head on.
LEMMA Events ==
  ASSUME NEW r \in Seq(Sides), r # <<>>
  PROVE  Head(r) \in Sides /\ Tail(r) \in Seq(Sides)
OBVIOUS

LEMMA SelectedIsASequence ==
  ASSUME NEW S \in SUBSET Sides, NEW r \in SetToSeqs(S)
  PROVE  r \in Seq(Sides)
<1>1. IsFiniteSet(Sides)
  <2>1. Sides = {"client"} \cup {"upstream"}
    BY DEF Sides
  <2> QED
    BY <2>1, FS_Singleton, FS_AddElement
<1>2. Cardinality(S) \in Nat
  BY <1>1, FS_Subset, FS_CardinalityType
<1>3. r \in [1..Cardinality(S) -> S]
  BY DEF SetToSeqs
<1> QED
  BY <1>2, <1>3, SeqDef

LEMMA MinOfTwo ==
  ASSUME NEW a \in Nat, NEW b \in Nat
  PROVE  Min({a, b}) = IF a <= b THEN a ELSE b
<1> DEFINE m == IF a <= b THEN a ELSE b
<1>1. m \in {a, b} /\ \A y \in {a, b} : m <= y
  OBVIOUS
<1>2. \A x \in {a, b} : (\A y \in {a, b} : x <= y) => x = m
  OBVIOUS
<1> QED
  BY <1>1, <1>2 DEF Min

LEMMA StreamIsASequence ==
  ASSUME NEW k \in Nat
  PROVE  Stream(k) \in Seq(Nat) /\ Len(Stream(k)) = k /\ \A i \in 1..k : Stream(k)[i] = i
<1>1. Stream(k) \in [1..k -> Nat]
  BY DEF Stream
<1>2. Stream(k) \in Seq(Nat)
  BY <1>1, SeqDef
<1> QED
  BY <1>1, <1>2, LenProperties DEF Stream

\* The next n bytes of a stream continue it without a gap.
LEMMA StreamContinues ==
  ASSUME NEW k \in Nat, NEW n \in Nat, NEW first, first = k + 1
  PROVE  Stream(k) \o [i \in 1..n |-> first + i - 1] = Stream(k + n)
<1> DEFINE more == [i \in 1..n |-> first + i - 1]
<1> DEFINE all == Stream(k) \o more
<1>1. more \in [1..n -> Nat] /\ \A i \in 1..n : more[i] = k + i
  OBVIOUS
<1> HIDE DEF more
<1>2. more \in Seq(Nat) /\ Len(more) = n
  BY <1>1, SeqDef, LenProperties
<1>3. Stream(k) \in Seq(Nat) /\ Len(Stream(k)) = k /\ \A i \in 1..k : Stream(k)[i] = i
  BY StreamIsASequence
<1>4. all \in Seq(Nat) /\ Len(all) = k + n
      /\ \A i \in 1..(k + n) : all[i] = IF i <= k THEN Stream(k)[i] ELSE more[i - k]
  <2>1. /\ all \in Seq(Nat) /\ Len(all) = Len(Stream(k)) + Len(more)
        /\ \A i \in 1..(Len(Stream(k)) + Len(more)) :
             all[i] = IF i <= Len(Stream(k)) THEN Stream(k)[i] ELSE more[i - Len(Stream(k))]
    BY <1>2, <1>3, ConcatProperties
  <2> QED
    BY <1>2, <1>3, <2>1
<1> HIDE DEF all
<1>5. ASSUME NEW i \in 1..(k + n) PROVE all[i] = i
  <2>1. CASE i <= k
    BY <1>3, <1>4, <2>1
  <2>2. CASE i > k
    <3>1. i - k \in 1..n /\ k + (i - k) = i
      BY <2>2
    <3>2. more[i - k] = i
      BY <1>1, <3>1
    <3> QED
      BY <1>4, <2>2, <3>2
  <2> QED
    BY <2>1, <2>2
<1>6. Stream(k + n) \in Seq(Nat) /\ Len(Stream(k + n)) = k + n
      /\ \A i \in 1..(k + n) : Stream(k + n)[i] = i
  <2>1. k + n \in Nat
    OBVIOUS
  <2> QED
    BY <2>1, StreamIsASequence
<1>7. all = Stream(k + n)
  BY <1>4, <1>5, <1>6, SeqEqual
<1> QED
  BY <1>7 DEF all, more

LEMMA InitIInv == Init => IInv
<1> SUFFICES ASSUME Init PROVE IInv
  OBVIOUS
<1> USE ProxyAssumption
<1>1. TypeOK
  BY DEF Init, TypeOK, Sides
<1>2. delivered \in [Sides -> Seq(Nat)] /\ Stream(0) = <<>>
  BY DEF Init, Stream
<1>3. BytesAreAccounted
  BY <1>2, OtherSide DEF Init, BytesAreAccounted, Held
<1> QED
  BY <1>1, <1>2, <1>3 DEF Init, IInv, EndsAreClean, AttemptsAreChecked

-----------------------------------------------------------------------------
(* Before the tunnel                                                        *)

\* Nothing moves while the connection is made.
LEMMA ConnectingKeepsIInv ==
  ASSUME IInv,
         \/ \E host \in Hosts, port \in {80, 443}, addresses \in SUBSET Addresses : Request(host, port, addresses)
         \/ \E address \in Addresses : Connects(address) \/ ConnectFails(address)
  PROVE  IInv'
<1> USE ProxyAssumption
<1>1. UNCHANGED <<peerVars, received, ready, inHand, delivered, unread, end>> /\ phase # "closed"
  BY DEF Request, Connects, ConnectFails
<1>2. BytesAreAccounted' /\ EndsAreClean' /\ (delivered \in [Sides -> Seq(Nat)])'
  BY <1>1 DEF IInv, BytesAreAccounted, EndsAreClean, Held, peerVars
<1>3. TypeOK
  BY DEF IInv
<1>4. ASSUME NEW host \in Hosts, NEW port \in {80, 443}, NEW addresses \in SUBSET Addresses,
             Request(host, port, addresses)
      PROVE  IInv'
  <2>1. phase' \in {"connecting", "rejected"} /\ candidates' \in {candidates, addresses}
        /\ upstream' = upstream /\ left' = left
    BY <1>4 DEF Request
  <2>2. TypeOK'
    BY <1>1, <1>3, <2>1 DEF TypeOK, peerVars
  <2>3. AttemptsAreChecked'
    BY <1>4 DEF IInv, AttemptsAreChecked, Request, Checked, Usable
  <2> QED
    BY <1>2, <2>2, <2>3 DEF IInv
<1>5. ASSUME NEW address \in Addresses, Connects(address) PROVE IInv'
  <2>1. upstream' \in Addresses /\ left' \in 0..Idle /\ phase' = "tunnel" /\ candidates' = candidates
    BY <1>5 DEF Connects
  <2>2. TypeOK'
    BY <1>1, <1>3, <2>1 DEF TypeOK, peerVars
  <2>3. AttemptsAreChecked'
    BY <1>5 DEF IInv, AttemptsAreChecked, Connects, Checked, Next1
  <2> QED
    BY <1>2, <2>2, <2>3 DEF IInv
<1>6. ASSUME NEW address \in Addresses, ConnectFails(address) PROVE IInv'
  <2>1. TypeOK'
    BY <1>1, <1>3, <1>6 DEF ConnectFails, TypeOK, peerVars
  <2>2. AttemptsAreChecked'
    BY <1>6 DEF IInv, AttemptsAreChecked, ConnectFails, Checked
  <2> QED
    BY <1>2, <2>1, <2>2 DEF IInv
<1> QED
  BY <1>4, <1>5, <1>6

-----------------------------------------------------------------------------
(* The tunnel                                                               *)

\* An open tunnel has no end yet, and its steps leave the choice of the address.
LEMMA TunnelIsOpen ==
  ASSUME IInv, phase = "tunnel"
  PROVE  end \notin Sides
BY DEF IInv, EndsAreClean

LEMMA AddressIsKept ==
  ASSUME IInv, UNCHANGED connectVars, phase = "tunnel" \/ phase' = phase, phase' \in {"tunnel", "closed", phase}
  PROVE  AttemptsAreChecked'
BY DEF IInv, AttemptsAreChecked, Checked, connectVars

\* A step that moves no byte and reads no event leaves the account as it is.
LEMMA NoByteKeepsIInv ==
  ASSUME IInv, TypeOK', UNCHANGED <<connectVars, delivered, received>>,
         phase = "tunnel" \/ phase' = phase, phase' \in {"tunnel", phase},
         \A s \in Sides : Held(s)' = Held(s) /\ written[s] <= written'[s],
         phase' # "tunnel" => written' = written,
         end' = end
  PROVE  IInv'
<1>1. BytesAreAccounted'
  <2>1. \A s \in Sides : received[s] \in Nat /\ written[s] \in Nat /\ written'[s] \in Nat
    BY DEF IInv, TypeOK
  <2>2. ASSUME NEW s \in Sides
        PROVE  /\ received'[s] <= written'[s] /\ Held(s)' <= received'[s]
               /\ delivered'[Other(s)] = Stream(received'[s] - Held(s)')
    BY <2>1 DEF IInv, BytesAreAccounted
  <2> QED
    BY <2>2 DEF BytesAreAccounted, Stream
<1>2. EndsAreClean'
  BY TunnelIsOpen DEF IInv, EndsAreClean
<1>3. AttemptsAreChecked'
  BY AddressIsKept
<1> QED
  BY <1>1, <1>2, <1>3 DEF IInv

\* The tunnel is closed, for no side or for one that has nothing left.
LEMMA ClosesKeepsIInv ==
  ASSUME IInv, NEW reason, Closes(reason), phase = "tunnel",
         reason \in Sides => received[reason] = written[reason] /\ Held(reason) = 0
  PROVE  IInv'
<1>1. TypeOK'
  BY DEF IInv, TypeOK, Closes, connectVars, peerVars
<1>2. BytesAreAccounted'
  BY DEF IInv, BytesAreAccounted, Closes, peerVars, Held
<1>3. EndsAreClean'
  BY DEF EndsAreClean, Closes, peerVars, Held
<1>4. AttemptsAreChecked'
  BY AddressIsKept DEF Closes
<1> QED
  BY <1>1, <1>2, <1>3, <1>4 DEF IInv, Closes

LEMMA EventsKeepIInv ==
  ASSUME IInv, Select \/ DeadlinePasses \/ StreamEnds \/ SendFails
  PROVE  IInv'
<1> USE ProxyAssumption
<1>1. TypeOK
  BY DEF IInv
<1>2. CASE Select
  <2>1. ready' \in Seq(Sides)
    BY <1>2, SelectedIsASequence DEF Select, Readable
  <2>2. TypeOK'
    BY <1>1, <1>2, <2>1 DEF Select, TypeOK, connectVars, peerVars
  <2>3. inHand = 0 /\ inHand' = 0
    BY <1>1, <1>2 DEF Select, TypeOK
  <2>4. \A s \in Sides : Held(s)' = Held(s)
    BY <2>3 DEF Held
  <2>5. \A s \in Sides : written[s] \in Nat /\ written' = written
    BY <1>1, <1>2 DEF TypeOK, Select, peerVars
  <2> QED
    BY <1>2, <2>2, <2>4, <2>5, NoByteKeepsIInv DEF Select
<1>3. CASE DeadlinePasses
  BY <1>3, ClosesKeepsIInv DEF DeadlinePasses, Sides
<1>4. CASE StreamEnds
  <2>1. inHand = 0 /\ \A s \in Sides : Held(s) = 0
    BY <1>4 DEF StreamEnds, Held
  <2> QED
    BY <1>4, <2>1, ClosesKeepsIInv DEF StreamEnds, Sides
<1>5. CASE SendFails
  BY <1>5, ClosesKeepsIInv DEF SendFails, Sides
<1> QED
  BY <1>2, <1>3, <1>4, <1>5

\* A chunk is read: it goes from the written bytes to the proxy's hands.
LEMMA RecvKeepsIInv == ASSUME IInv, Recv PROVE IInv'
<1> USE ProxyAssumption
<1> DEFINE s == Head(ready)
<1>1. TypeOK /\ s \in Sides /\ ready # <<>> /\ inHand = 0 /\ written[s] > received[s] /\ phase = "tunnel"
  BY Events DEF IInv, TypeOK, Recv
<1>2. received \in [Sides -> Nat] /\ written \in [Sides -> 0..MaxBytes]
  BY <1>1 DEF TypeOK
<1>3. PICK n \in Nat : n = written[s] - received[s] /\ n > 0
  BY <1>1, <1>2
<1>4. inHand' \in 1..n /\ inHand' <= BufferBytes /\ received' = [received EXCEPT ![s] = @ + inHand']
      /\ UNCHANGED <<phase, connectVars, peerVars, ready, delivered, unread, left, end>>
  BY <1>3, MinOfTwo DEF Recv
<1> HIDE DEF s
<1>5. received'[s] = received[s] + inHand' /\ received'[s] <= written[s]
      /\ \A t \in Sides : t # s => received'[t] = received[t]
  BY <1>1, <1>2, <1>3, <1>4
<1>6. received' \in [Sides -> 0..MaxBytes]
  <2>1. \A t \in Sides : received[t] \in 0..MaxBytes /\ received'[t] \in 0..MaxBytes
    BY <1>1, <1>2, <1>4, <1>5 DEF TypeOK
  <2> QED
    BY <1>2, <1>4, <2>1
<1>7. TypeOK'
  <2>1. inHand' \in 0..BufferBytes
    BY <1>4
  <2>2. ready' # <<>> /\ UNCHANGED <<phase, candidates, upstream, written, shut, broken, ready, unread, left>>
    BY <1>1, <1>4 DEF connectVars, peerVars
  <2> QED
    BY <1>1, <1>6, <2>1, <2>2 DEF TypeOK
<1>8. \A t \in Sides : Held(t) = 0 /\ Held(t)' = IF t = s THEN inHand' ELSE 0
  BY <1>1, <1>4 DEF Held, s
<1>9. ASSUME NEW t \in Sides
      PROVE  /\ received'[t] <= written'[t] /\ Held(t)' <= received'[t]
             /\ delivered'[Other(t)] = Stream(received'[t] - Held(t)')
  <2>1. received[t] <= written[t] /\ delivered[Other(t)] = Stream(received[t] - 0) /\ written' = written
        /\ delivered' = delivered
    BY <1>4, <1>8 DEF IInv, BytesAreAccounted, peerVars
  <2>2. CASE t = s
    <3>1. received'[t] - Held(t)' = received[t] - 0
      BY <1>1, <1>2, <1>3, <1>4, <1>5, <1>8, <2>2
    <3> QED
      BY <1>2, <1>4, <1>5, <1>8, <2>1, <2>2, <3>1
  <2>3. CASE t # s
    BY <1>2, <1>5, <1>8, <2>1, <2>3
  <2> QED
    BY <2>2, <2>3
<1>10. BytesAreAccounted'
  BY <1>9 DEF BytesAreAccounted, Stream
<1>11. EndsAreClean' /\ AttemptsAreChecked'
  BY <1>1, <1>4, TunnelIsOpen, AddressIsKept DEF EndsAreClean
<1> QED
  BY <1>4, <1>7, <1>10, <1>11 DEF IInv

\* A part of the chunk is sent on: the stream of the side it came from continues.
LEMMA SendKeepsIInv == ASSUME IInv, NEW n \in 1..BufferBytes, Send(n) PROVE IInv'
<1> USE ProxyAssumption
<1> DEFINE s == Head(ready)
           d == Other(s)
           k == received[s] - inHand
<1>1. TypeOK /\ ready \in Seq(Sides) /\ ready # <<>> /\ s \in Sides /\ d \in Sides /\ d # s
      /\ inHand \in Nat /\ inHand > 0 /\ phase = "tunnel"
  <2>1. TypeOK /\ phase = "tunnel" /\ inHand > 0
    BY DEF IInv, Send
  <2>2. ready \in Seq(Sides) /\ ready # <<>> /\ inHand \in Nat
    BY <2>1 DEF TypeOK
  <2>3. s \in Sides
    BY <2>2, Events
  <2> QED
    BY <2>1, <2>2, <2>3, OtherSide
<1>2. /\ n \in Nat /\ n <= inHand /\ unread[d] + n <= Window /\ inHand' = inHand - n
      /\ delivered' = [delivered EXCEPT ![d] = @ \o [i \in 1..n |-> InHandFrom(s) + i - 1]]
      /\ unread' = [unread EXCEPT ![d] = @ + n]
      /\ ready' = (IF inHand' = 0 THEN Tail(ready) ELSE ready) /\ left' = Idle
      /\ UNCHANGED <<phase, connectVars, peerVars, received, end>>
  BY DEF Send
<1>3. \A t \in Sides : Held(t) = IF t = s THEN inHand ELSE 0
  BY <1>1 DEF Held
<1>4. \A t \in Sides : Held(t)' = IF t = s THEN inHand' ELSE 0
  BY <1>1, <1>2 DEF Held
<1>5. \A t \in Sides : received[t] \in Nat
  BY <1>1 DEF TypeOK
<1>6. k \in Nat /\ delivered[d] = Stream(k)
  BY <1>1, <1>3, <1>5 DEF IInv, BytesAreAccounted
<1>7. delivered'[d] = Stream(k + n) /\ \A t \in Sides : t # d => delivered'[t] = delivered[t]
  <2>1. InHandFrom(s) = k + 1
    BY <1>1, <1>5 DEF InHandFrom
  <2>2. delivered'[d] = Stream(k) \o [i \in 1..n |-> InHandFrom(s) + i - 1]
    BY <1>1, <1>2, <1>6 DEF IInv
  <2> HIDE DEF k
  <2>3. delivered'[d] = Stream(k + n)
    BY <1>2, <1>6, <2>1, <2>2, StreamContinues
  <2> QED
    BY <1>2, <2>3 DEF IInv
<1>8. k + n \in Nat /\ k + n = received'[s] - inHand' /\ inHand' \in Nat /\ inHand' <= received'[s]
  BY <1>1, <1>2, <1>5, <1>6
<1>9. TypeOK'
  <2>1. unread' \in [Sides -> 0..Window]
    <3>1. unread \in [Sides -> 0..Window] /\ d \in Sides /\ unread' = [unread EXCEPT ![d] = @ + n]
          /\ unread[d] + n <= Window /\ n \in Nat
      BY <1>1, <1>2 DEF TypeOK
    <3> HIDE DEF d
    <3> QED
      BY <3>1
  <2>2. ready' \in Seq(Sides) /\ inHand' \in 0..BufferBytes /\ (inHand' > 0 => ready' # <<>>)
    <3>1. Tail(ready) \in Seq(Sides)
      BY <1>1, Events
    <3>2. inHand \in 0..BufferBytes /\ inHand' = inHand - n /\ n \in Nat /\ n <= inHand
      BY <1>1, <1>2 DEF TypeOK
    <3> QED
      BY <1>1, <1>2, <3>1, <3>2
  <2>3. left' \in 0..Idle
    BY <1>2
  <2> QED
    BY <1>1, <1>2, <2>1, <2>2, <2>3 DEF TypeOK, connectVars, peerVars
<1>10. delivered' \in [Sides -> Seq(Nat)]
  BY <1>2, <1>7, <1>8, StreamIsASequence DEF IInv
<1> HIDE DEF s, d, k
<1>11. ASSUME NEW t \in Sides
       PROVE  /\ received'[t] <= written'[t] /\ Held(t)' <= received'[t]
              /\ delivered'[Other(t)] = Stream(received'[t] - Held(t)')
  <2>1. received[t] <= written[t] /\ Held(t) <= received[t]
        /\ delivered[Other(t)] = Stream(received[t] - Held(t))
        /\ received' = received /\ written' = written
    BY <1>2 DEF IInv, BytesAreAccounted, peerVars
  <2>2. CASE t = s
    <3>1. Other(t) = d /\ received'[t] - Held(t)' = k + n
      BY <1>4, <1>8, <2>2 DEF d
    <3> QED
      BY <1>4, <1>7, <1>8, <2>1, <2>2, <3>1
  <2>3. CASE t # s
    <3>1. Other(t) # d /\ Other(t) \in Sides
      BY <1>1, <2>3, OtherSide DEF d
    <3> QED
      BY <1>3, <1>4, <1>7, <2>1, <2>3, <3>1
  <2> QED
    BY <2>2, <2>3
<1>12. BytesAreAccounted'
  BY <1>11 DEF BytesAreAccounted, Stream
<1>13. EndsAreClean' /\ AttemptsAreChecked'
  BY <1>1, <1>2, TunnelIsOpen, AddressIsKept DEF EndsAreClean
<1> QED
  BY <1>9, <1>10, <1>12, <1>13 DEF IInv

\* The peers only add what the proxy has not read, and the clock takes time.
LEMMA PeersKeepIInv ==
  ASSUME IInv, Tick \/ \E s \in Sides : Write(s) \/ Shut(s) \/ Breaks(s) \/ Reads(s)
  PROVE  IInv'
<1> USE ProxyAssumption
<1>1. TypeOK
  BY DEF IInv
<1>2. \A s \in Sides : Held(s)' = Held(s)
  BY DEF Tick, Write, Shut, Breaks, Reads, Held
<1>3. \A s \in Sides : written[s] \in 0..MaxBytes
  BY <1>1 DEF TypeOK
<1>4. CASE Tick
  <2>1. left' \in 0..Idle
    BY <1>1, <1>4 DEF Tick, TypeOK
  <2>2. TypeOK'
    BY <1>1, <1>4, <2>1 DEF Tick, TypeOK, connectVars, peerVars
  <2> QED
    BY <1>2, <1>3, <1>4, <2>2, NoByteKeepsIInv DEF Tick, peerVars
<1>5. ASSUME NEW s \in Sides, Write(s) PROVE IInv'
  <2>1. written' \in [Sides -> 0..MaxBytes] /\ \A t \in Sides : written[t] <= written'[t]
    <3>1. written \in [Sides -> 0..MaxBytes] /\ written[s] < MaxBytes
          /\ written' = [written EXCEPT ![s] = @ + 1]
      BY <1>1, <1>5 DEF Write, TypeOK
    <3>2. \A t \in Sides : written'[t] = IF t = s THEN written[t] + 1 ELSE written[t]
      BY <3>1
    <3> QED
      BY <1>3, <3>1, <3>2
  <2>2. TypeOK'
    BY <1>1, <1>5, <2>1 DEF Write, TypeOK, connectVars
  <2> QED
    BY <1>2, <1>5, <2>1, <2>2, NoByteKeepsIInv DEF Write
<1>6. ASSUME NEW s \in Sides, Shut(s) \/ Breaks(s) PROVE IInv'
  <2>1. (shut \cup broken)' \subseteq Sides
    BY <1>1, <1>6 DEF Shut, Breaks, TypeOK
  <2>2. TypeOK'
    BY <1>1, <1>6, <2>1 DEF Shut, Breaks, TypeOK, connectVars
  <2> QED
    BY <1>2, <1>3, <1>6, <2>2, NoByteKeepsIInv DEF Shut, Breaks
<1>7. ASSUME NEW s \in Sides, Reads(s) PROVE IInv'
  <2>1. unread' \in [Sides -> 0..Window]
    BY <1>1, <1>7 DEF Reads, TypeOK
  <2>2. TypeOK'
    BY <1>1, <1>7, <2>1 DEF Reads, TypeOK, connectVars, peerVars
  <2> QED
    BY <1>2, <1>3, <1>7, <2>2, NoByteKeepsIInv DEF Reads, peerVars
<1> QED
  BY <1>4, <1>5, <1>6, <1>7

-----------------------------------------------------------------------------
(* The theorems                                                             *)

LEMMA NextKeepsIInv == IInv /\ [Next]_vars => IInv'
<1> SUFFICES ASSUME IInv, [Next]_vars PROVE IInv'
  OBVIOUS
<1>1. CASE Next
  BY <1>1, ConnectingKeepsIInv, EventsKeepIInv, RecvKeepsIInv, SendKeepsIInv, PeersKeepIInv DEF Next
<1>2. CASE UNCHANGED vars
  <2>1. TypeOK' /\ (delivered \in [Sides -> Seq(Nat)])'
    BY <1>2 DEF vars, IInv, TypeOK, connectVars, peerVars
  <2>2. BytesAreAccounted' /\ EndsAreClean' /\ AttemptsAreChecked'
    BY <1>2 DEF vars, IInv, BytesAreAccounted, EndsAreClean, AttemptsAreChecked, Checked, Held,
                connectVars, peerVars
  <2> QED
    BY <2>1, <2>2 DEF IInv
<1> QED
  BY <1>1, <1>2

\* Every byte of a connection is accounted for, whatever the peers and the clock do
\* (https_egress_proxy.py 151-212).
THEOREM EgressInvariant == Spec => []IInv
BY InitIInv, NextKeepsIInv, PTL DEF Spec

\* The types of a connection's state.
THEOREM EgressTypeOK == Spec => []TypeOK
<1>1. IInv => TypeOK
  BY DEF IInv
<1> QED
  BY <1>1, EgressInvariant, PTL

\* What a side gets is what the other side sent, in order, without a gap or a
\* repetition, for any number of bytes and any way the sends are cut; the stream that
\* ended the tunnel was passed on completely (https_egress_proxy.py 151-176, 192-210).
THEOREM EgressStreamsAreKept == Spec => []StreamsAreKept
<1>1. ASSUME IInv PROVE StreamsAreKept
  <2>1. ASSUME NEW s \in Sides
        PROVE  delivered[Other(s)] =
                 [i \in 1..(received[s] - IF ready # <<>> /\ Head(ready) = s THEN inHand ELSE 0) |-> i]
    BY <1>1 DEF IInv, BytesAreAccounted, Stream, Held
  <2>2. ASSUME NEW s \in Sides, end = s PROVE Len(delivered[Other(s)]) = written[s]
    <3>1. received[s] = written[s] /\ Held(s) = 0 /\ written[s] \in Nat
      BY <1>1, <2>2 DEF IInv, EndsAreClean, TypeOK
    <3>2. delivered[Other(s)] = Stream(written[s])
      BY <1>1, <3>1 DEF IInv, BytesAreAccounted
    <3> QED
      BY <3>1, <3>2, StreamIsASequence
  <2> QED
    BY <2>1, <2>2 DEF StreamsAreKept
<1> QED
  BY <1>1, EgressInvariant, PTL

\* The tunnel leads to a global address of an allowed host, whichever attempts failed
\* before (https_egress_proxy.py 78-149, 236-250).
THEOREM EgressLeadsWhereAllowed == Spec => []LeadsWhereAllowed
<1>1. IInv => LeadsWhereAllowed
  BY DEF IInv, AttemptsAreChecked, Checked, LeadsWhereAllowed
<1> QED
  BY <1>1, EgressInvariant, PTL
=============================================================================
