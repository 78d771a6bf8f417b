--------------------------- MODULE RpcProxyProofs ---------------------------
(***************************************************************************)
(* Proofs about RpcProxy, for any clients, methods, bodies, limits and     *)
(* upstream files.  The inductive invariant says of each client where it   *)
(* is: not connected or waiting, with nothing sent upstream and no answer; *)
(* served, with what its stage allows; or done.                            *)
(***************************************************************************)
EXTENDS RpcProxy, SequenceTheorems, FiniteSetTheorems, WellFoundedInduction, TLAPS

Replies == OwnAnswers \cup RelayedAnswers

Forwards == [client : Clients, body : Bodies, size : 0..MaxRequest, host : Upstreams,
             addresses : DnsAnswers, address : Addresses]

Forwarded(c) == \E i \in DOMAIN forwarded : forwarded[i].client = c

\* What a reply says about the request it answers.
Tells(r, c) ==
  /\ r.by = "upstream" => Forwarded(c)
  /\ r.by = "proxy" /\ r.status # 502 => ~Forwarded(c)

\* A client that was not looked at yet.
Untouched(c) == answers[c] = <<>> /\ ~Forwarded(c)

\* A request that was read as a whole.
Whole(c) == request[c].length \in 0..MaxRequest /\ sent[c] = request[c].length

Served(c) ==
  /\ request[c] # None /\ answers[c] = <<>>
  /\ stage \in {"body", "validate"} => ~Forwarded(c)
  /\ stage \in {"validate", "upstream"} => Whole(c)
  /\ stage = "upstream" => Forwarded(c)
  /\ stage = "reply" => Tells(reply, c)

Done(c) == answers[c] = <<>> \/ \E r \in Replies : answers[c] = <<r>> /\ Tells(r, c)

\* What leaves is the whole request of a client that connected, once.
Leaves(f) ==
  /\ request[f.client] # None /\ f.size = request[f.client].length
  /\ f.body # <<>> /\ Range(f.body) \subseteq AllowedMethods
  /\ f.host # None /\ Range(f.addresses) \subseteq GlobalAddresses

LeavesOnce ==
  /\ forwarded \in Seq(Forwards)
  /\ \A i \in DOMAIN forwarded : Leaves(forwarded[i])
  /\ \A i, j \in DOMAIN forwarded : forwarded[i].client = forwarded[j].client => i = j

ClientsAreServedOnce ==
  /\ \A c \in Clients : request[c] = None \/ c \in Range(waiting) => Untouched(c)
  /\ \A c \in Range(waiting) : request[c] # None
  /\ serving \in Clients => Served(serving)
  /\ answers \in [Clients -> Seq(Replies)]
  /\ \A c \in Clients : Done(c)

IInv == TypeOK /\ LeavesOnce /\ ClientsAreServedOnce

-----------------------------------------------------------------------------
(* Lemmas about the operators                                               *)

LEMMA MinIsAMember ==
  ASSUME NEW S \in SUBSET Nat, S # {}
  PROVE  Min(S) \in S
<1> DEFINE less == {ss \in Nat \X Nat : ss[1] < ss[2]}
<1>1. IsWellFoundedOn(less, Nat)
  BY NatLessThanWellFounded DEF OpToRel
<1> HIDE DEF less
<1>2. PICK x \in S : \A y \in S : <<y, x>> \notin less
  BY <1>1, WFMin
<1>3. ASSUME NEW y \in S PROVE x <= y
  <2>1. <<y, x>> \in Nat \X Nat /\ ~ (y < x)
    BY <1>2 DEF less
  <2> QED
    BY <2>1
<1> QED
  BY <1>3 DEF Min

LEMMA AppendElements ==
  ASSUME NEW S, NEW s \in Seq(S), NEW e \in S
  PROVE  /\ Append(s, e) \in Seq(S)
         /\ DOMAIN s = 1..Len(s) /\ Len(s) \in Nat
         /\ DOMAIN Append(s, e) = DOMAIN s \cup {Len(s) + 1} /\ Len(s) + 1 \notin DOMAIN s
         /\ \A i \in DOMAIN s : Append(s, e)[i] = s[i]
         /\ Append(s, e)[Len(s) + 1] = e
<1>1. Append(s, e) \in Seq(S) /\ Len(Append(s, e)) = Len(s) + 1
      /\ (\A i \in 1..Len(s) : Append(s, e)[i] = s[i]) /\ Append(s, e)[Len(s) + 1] = e
  BY AppendProperties
<1>2. DOMAIN s = 1..Len(s) /\ Len(s) \in Nat
  BY LenProperties
<1>3. DOMAIN Append(s, e) = 1..(Len(s) + 1)
  BY <1>1, LenProperties
<1> QED
  BY <1>1, <1>2, <1>3

LEMMA ElementsOfSequences ==
  ASSUME NEW S, NEW s \in Seq(S), NEW i \in DOMAIN s
  PROVE  s[i] \in S
BY ElementOfSeq, LenProperties

\* A client that connects waits last.
LEMMA QueueGrows ==
  ASSUME NEW w \in Seq(Clients), IsInjective(w), NEW c \in Clients, c \notin Range(w)
  PROVE  Append(w, c) \in Seq(Clients) /\ IsInjective(Append(w, c)) /\ Range(Append(w, c)) = Range(w) \cup {c}
<1>1. /\ Append(w, c) \in Seq(Clients)
      /\ DOMAIN w = 1..Len(w) /\ Len(w) \in Nat
      /\ DOMAIN Append(w, c) = DOMAIN w \cup {Len(w) + 1} /\ Len(w) + 1 \notin DOMAIN w
      /\ \A i \in DOMAIN w : Append(w, c)[i] = w[i]
      /\ Append(w, c)[Len(w) + 1] = c
  BY AppendElements
<1> DEFINE q == Append(w, c)
<1> HIDE DEF q
<1> QED
  BY <1>1 DEF IsInjective, Range, q

\* The first one is served, and does not wait any more.
LEMMA QueueShrinks ==
  ASSUME NEW w \in Seq(Clients), IsInjective(w), w # <<>>
  PROVE  /\ Head(w) \in Range(w) /\ Head(w) \in Clients
         /\ Tail(w) \in Seq(Clients) /\ IsInjective(Tail(w))
         /\ Range(Tail(w)) \subseteq Range(w) /\ Head(w) \notin Range(Tail(w))
<1>1. Len(w) \in Nat /\ Len(w) # 0 /\ DOMAIN w = 1..Len(w)
  BY EmptySeq, LenProperties
<1>2. Head(w) = w[1] /\ w[1] \in Clients /\ 1 \in DOMAIN w
  BY <1>1
<1>3. Tail(w) \in Seq(Clients) /\ Len(Tail(w)) = Len(w) - 1 /\ \A i \in 1..Len(Tail(w)) : Tail(w)[i] = w[i + 1]
  BY <1>1
<1>4. DOMAIN Tail(w) = 1..(Len(w) - 1)
  BY <1>3, LenProperties
<1>5. \A i \in DOMAIN Tail(w) : i + 1 \in DOMAIN w /\ i + 1 # 1 /\ Tail(w)[i] = w[i + 1]
  BY <1>1, <1>3, <1>4
<1>6. \A i, j \in DOMAIN Tail(w) : i + 1 = j + 1 => i = j
  BY <1>4
<1> DEFINE t == Tail(w)
<1>7. IsInjective(t)
  BY <1>5, <1>6 DEF IsInjective
<1>8. Range(t) \subseteq Range(w)
  BY <1>5 DEF Range
<1>9. w[1] \notin Range(t)
  BY <1>2, <1>5 DEF IsInjective, Range
<1> QED
  BY <1>2, <1>3, <1>7, <1>8, <1>9 DEF Range

LEMMA StatusesOfItems ==
  ASSUME NEW item
  PROVE  ItemStatus(item) \in {200, 400, 403} /\ (ItemStatus(item) = 200 => item \in AllowedMethods)
<1>1. CASE item \in {NotAnObject, Nameless}
  BY <1>1 DEF ItemStatus
<1>2. CASE item \notin {NotAnObject, Nameless}
  BY <1>2 DEF ItemStatus
<1> QED
  BY <1>1, <1>2

\* A body that is allowed is a batch that is not empty of methods that are all allowed.
LEMMA VerdictIsStrict ==
  ASSUME NEW body \in Bodies \cup {Malformed}
  PROVE  /\ Verdict(body) \in {200, 400, 403}
         /\ Verdict(body) = 200 => body \in Bodies /\ body # <<>> /\ Range(body) \subseteq AllowedMethods
<1>1. CASE AllowedMethods = {}
  BY <1>1 DEF Verdict
<1>2. CASE AllowedMethods # {} /\ (body = Malformed \/ body = <<>>)
  BY <1>2 DEF Verdict
<1>3. CASE AllowedMethods # {} /\ body # Malformed /\ body # <<>>
  <2>1. body \in Seq(Methods \cup {NotAnObject, Nameless}) /\ body \in Bodies
    BY <1>3, RpcAssumption
  <2>2. Rejected(body) \in SUBSET Nat
    <3>1. DOMAIN body = 1..Len(body) /\ Len(body) \in Nat
      BY <2>1, LenProperties
    <3> QED
      BY <3>1 DEF Rejected
  <2>3. Verdict(body) = IF Rejected(body) = {} THEN 200 ELSE ItemStatus(body[Min(Rejected(body))])
    BY <1>3 DEF Verdict
  <2>4. ASSUME Rejected(body) # {} PROVE Verdict(body) \in {400, 403}
    <3>1. Min(Rejected(body)) \in Rejected(body)
      BY <2>2, <2>4, MinIsAMember
    <3>2. ItemStatus(body[Min(Rejected(body))]) # 200
      BY <3>1 DEF Rejected
    <3>3. ItemStatus(body[Min(Rejected(body))]) \in {200, 400, 403}
      BY StatusesOfItems
    <3> QED
      BY <2>3, <2>4, <3>2, <3>3
  <2>5. ASSUME Rejected(body) = {} PROVE Range(body) \subseteq AllowedMethods
    <3>1. \A i \in DOMAIN body : body[i] \in AllowedMethods
      BY <2>5, StatusesOfItems DEF Rejected
    <3> QED
      BY <3>1 DEF Range
  <2>6. CASE Rejected(body) # {}
    <3>1. 400 # 200 /\ 403 # 200
      OBVIOUS
    <3> QED
      BY <2>4, <2>6, <3>1
  <2>7. CASE Rejected(body) = {}
    BY <1>3, <2>1, <2>3, <2>5, <2>7
  <2> QED
    BY <2>6, <2>7
<1> QED
  BY <1>1, <1>2, <1>3

-----------------------------------------------------------------------------
(* The steps of the clients and the operator                                *)

LEMMA InitIInv == Init => IInv
<1> SUFFICES ASSUME Init PROVE IInv
  OBVIOUS
<1> USE RpcAssumption
<1>1. TypeOK
  <2>1. waiting \in Seq(Clients) /\ IsInjective(waiting) /\ Range(waiting) = {}
    BY DEF Init, IsInjective, Range
  <2>2. sent \in [Clients -> 0..(MaxRequest + 1)]
    BY DEF Init
  <2> QED
    BY <2>1, <2>2 DEF Init, TypeOK
<1>2. forwarded = <<>> /\ forwarded \in Seq(Forwards) /\ DOMAIN forwarded = {}
  BY DEF Init
<1>3. LeavesOnce
  BY <1>2 DEF LeavesOnce
<1>4. ClientsAreServedOnce
  BY <1>2 DEF Init, ClientsAreServedOnce, Untouched, Forwarded, Done, Range
<1> QED
  BY <1>1, <1>3, <1>4 DEF IInv

LEMMA ConnectKeepsIInv ==
  ASSUME IInv, NEW c \in Clients, NEW length \in Lengths, NEW body \in Bodies, Connect(c, length, body)
  PROVE  IInv'
<1> USE RpcAssumption
<1>1. TypeOK /\ LeavesOnce /\ ClientsAreServedOnce
  BY DEF IInv
<1>2. /\ request[c] = None /\ request' = [request EXCEPT ![c] = [length |-> length, body |-> body]]
      /\ waiting' = Append(waiting, c)
      /\ UNCHANGED <<sent, gone, serving, stage, file, reply, answers, forwarded>>
  BY DEF Connect
<1>3. [length |-> length, body |-> body] \in Requests
  BY DEF Requests
<1>4. request' \in [Clients -> Requests \cup {None}] /\ request'[c] # None
      /\ \A d \in Clients : d # c => request'[d] = request[d]
  BY <1>1, <1>2, <1>3, NoneIsNoRequest DEF TypeOK
<1>5. c \notin Range(waiting) /\ c # serving
  BY <1>1, <1>2 DEF ClientsAreServedOnce, Served
<1>6. waiting' \in Seq(Clients) /\ IsInjective(waiting') /\ Range(waiting') = Range(waiting) \cup {c}
  BY <1>1, <1>2, <1>5, QueueGrows DEF TypeOK
<1>7. TypeOK'
  BY <1>1, <1>2, <1>4, <1>5, <1>6 DEF TypeOK
<1>8. LeavesOnce'
  <2>1. ASSUME NEW i \in DOMAIN forwarded
        PROVE  forwarded[i].client \in Clients /\ forwarded[i].client # c
    <3>1. forwarded[i] \in Forwards
      BY <1>1, ElementOfSeq, LenProperties DEF LeavesOnce
    <3>2. request[forwarded[i].client] # None
      BY <1>1 DEF LeavesOnce, Leaves
    <3> QED
      BY <1>2, <3>1, <3>2 DEF Forwards
  <2>2. \A i \in DOMAIN forwarded : request'[forwarded[i].client] = request[forwarded[i].client]
    BY <1>4, <2>1
  <2> QED
    BY <1>1, <1>2, <2>2 DEF LeavesOnce, Leaves
<1>9. ClientsAreServedOnce'
  <2>1. \A d \in Clients : Untouched(d)' = Untouched(d) /\ Done(d)' = Done(d)
    BY <1>2 DEF Untouched, Done, Forwarded, Tells
  <2>2. \A d \in Clients : request'[d] = None \/ d \in Range(waiting') => Untouched(d)
    BY <1>1, <1>2, <1>4, <1>6 DEF ClientsAreServedOnce
  <2>3. \A d \in Range(waiting') : request'[d] # None
    BY <1>1, <1>4, <1>6, RangeOfSeq DEF ClientsAreServedOnce, TypeOK
  <2>4. serving' \in Clients => Served(serving)'
    BY <1>1, <1>2, <1>4, <1>5 DEF ClientsAreServedOnce, Served, Whole, Tells, Forwarded
  <2> QED
    BY <1>1, <1>2, <2>1, <2>2, <2>3, <2>4 DEF ClientsAreServedOnce
<1> QED
  BY <1>7, <1>8, <1>9 DEF IInv

\* A request that was read as a whole gets no more bytes.
LEMMA SendByteKeepsIInv ==
  ASSUME IInv, NEW c \in Clients, SendByte(c)
  PROVE  IInv'
<1> USE RpcAssumption
<1>1. TypeOK /\ LeavesOnce /\ ClientsAreServedOnce
  BY DEF IInv
<1>2. /\ request[c] # None /\ request[c].length \in Nat /\ sent[c] < request[c].length
      /\ sent' = [sent EXCEPT ![c] = @ + 1]
      /\ UNCHANGED <<request, gone, handlerVars>>
  BY DEF SendByte
<1>3. request[c].length \in 0..(MaxRequest + 1) /\ sent[c] \in Nat
  BY <1>1, <1>2, NoneIsNoRequest DEF TypeOK, Requests, Lengths
<1>4. sent' \in [Clients -> 0..(MaxRequest + 1)] /\ \A d \in Clients : d # c => sent'[d] = sent[d]
  BY <1>1, <1>2, <1>3 DEF TypeOK
<1>5. TypeOK'
  BY <1>1, <1>2, <1>4 DEF TypeOK, handlerVars
<1>6. LeavesOnce'
  BY <1>1, <1>2 DEF LeavesOnce, Leaves, handlerVars
<1>7. serving \in Clients /\ stage \in {"validate", "upstream"} => serving # c
  BY <1>1, <1>2, <1>3 DEF ClientsAreServedOnce, Served, Whole
<1>8. ClientsAreServedOnce'
  <2>1. \A d \in Clients : Untouched(d)' = Untouched(d) /\ Done(d)' = Done(d)
    BY <1>2 DEF Untouched, Done, Forwarded, Tells, handlerVars
  <2>2. serving' \in Clients => Served(serving)'
    BY <1>1, <1>2, <1>4, <1>7 DEF ClientsAreServedOnce, Served, Whole, Tells, Forwarded, handlerVars
  <2> QED
    BY <1>1, <1>2, <2>1, <2>2 DEF ClientsAreServedOnce, handlerVars
<1> QED
  BY <1>5, <1>6, <1>8 DEF IInv

\* Who hangs up and what the file holds is not part of what is promised.
LEMMA OthersKeepIInv ==
  ASSUME IInv, (\E c \in Clients : HangUp(c)) \/ (\E host \in Upstreams : Rotate(host))
  PROVE  IInv'
<1>1. TypeOK /\ LeavesOnce /\ ClientsAreServedOnce
  BY DEF IInv
<1>2. UNCHANGED <<request, sent, waiting, serving, stage, reply, answers, forwarded>>
      /\ gone' \subseteq Clients /\ file' \in Upstreams
  BY <1>1 DEF HangUp, Rotate, clientVars, handlerVars, TypeOK
<1>3. TypeOK'
  BY <1>1, <1>2 DEF TypeOK
<1>4. LeavesOnce'
  BY <1>1, <1>2 DEF LeavesOnce, Leaves
<1>5. ClientsAreServedOnce'
  BY <1>1, <1>2 DEF ClientsAreServedOnce, Untouched, Done, Served, Whole, Tells, Forwarded
<1> QED
  BY <1>3, <1>4, <1>5 DEF IInv

-----------------------------------------------------------------------------
(* The steps of the handler                                                 *)

\* The first of the queue is served; nothing of it was forwarded or answered.
LEMMA AcceptKeepsIInv == ASSUME IInv, Accept PROVE IInv'
<1>1. TypeOK /\ LeavesOnce /\ ClientsAreServedOnce
  BY DEF IInv
<1>2. /\ serving = None /\ waiting # <<>> /\ serving' = Head(waiting) /\ waiting' = Tail(waiting)
      /\ stage' = "body" /\ UNCHANGED <<clientVars, file, reply, answers, forwarded>>
  BY DEF Accept
<1>3. /\ serving' \in Clients /\ serving' \in Range(waiting)
      /\ waiting' \in Seq(Clients) /\ IsInjective(waiting')
      /\ Range(waiting') \subseteq Range(waiting) /\ serving' \notin Range(waiting')
  BY <1>1, <1>2, QueueShrinks DEF TypeOK
<1>4. TypeOK'
  BY <1>1, <1>2, <1>3 DEF TypeOK, clientVars
<1>5. LeavesOnce'
  BY <1>1, <1>2 DEF LeavesOnce, Leaves, clientVars
<1>6. ClientsAreServedOnce'
  <2>1. \A d \in Clients : Untouched(d)' = Untouched(d) /\ Done(d)' = Done(d)
    BY <1>2 DEF Untouched, Done, Forwarded, Tells
  <2>2. request[serving'] # None /\ Untouched(serving')
    BY <1>1, <1>3 DEF ClientsAreServedOnce
  <2>3. Served(serving)'
    BY <1>2, <2>2 DEF Served, Untouched, Forwarded, clientVars
  <2> QED
    BY <1>1, <1>2, <1>3, <2>1, <2>3 DEF ClientsAreServedOnce, clientVars
<1> QED
  BY <1>4, <1>5, <1>6 DEF IInv

\* What the running handler knows.
LEMMA Serving ==
  ASSUME IInv, serving # None
  PROVE  serving \in Clients /\ Served(serving) /\ request[serving] \in Requests
BY DEF IInv, TypeOK, ClientsAreServedOnce, Served

\* The handler decides on an answer that says what happened to the request.
LEMMA AnswersKeepsIInv ==
  ASSUME IInv, serving # None, NEW answer \in Replies, Answers(answer), Tells(answer, serving)
  PROVE  IInv'
<1>1. TypeOK /\ LeavesOnce /\ ClientsAreServedOnce /\ serving \in Clients /\ Served(serving)
  BY Serving DEF IInv
<1>2. /\ stage' = "reply" /\ reply' = answer
      /\ UNCHANGED <<request, sent, gone, waiting, serving, file, answers, forwarded>>
  BY DEF Answers, clientVars
<1>3. TypeOK'
  BY <1>1, <1>2 DEF TypeOK, Replies
<1>4. LeavesOnce'
  BY <1>1, <1>2 DEF LeavesOnce, Leaves
<1>5. ClientsAreServedOnce'
  <2>1. \A d \in Clients : Untouched(d)' = Untouched(d) /\ Done(d)' = Done(d)
    BY <1>2 DEF Untouched, Done, Forwarded, Tells
  <2>2. Served(serving)'
    BY <1>1, <1>2 DEF Served, Tells, Forwarded
  <2> QED
    BY <1>1, <1>2, <2>1, <2>2 DEF ClientsAreServedOnce
<1> QED
  BY <1>3, <1>4, <1>5 DEF IInv

\* Before anything is forwarded, a rejection is the truth; an own 502 always is.
LEMMA RejectionsKeepIInv ==
  ASSUME IInv, RejectLength \/ BodyEnded \/ Reject \/ UpstreamFails
               \/ \E addresses \in DnsAnswers : RejectUpstream(addresses)
  PROVE  IInv'
<1> USE RpcAssumption
<1>1. serving # None /\ Served(serving) /\ request[serving] \in Requests
  BY Serving DEF RejectLength, BodyEnded, Acceptable, Reject, UpstreamFails, RejectUpstream
<1>2. \A status \in Rejections \cup {502} : Own(status) \in Replies
  BY DEF Replies, OwnAnswers, Own
<1>3. \A status \in Rejections : stage \in {"body", "validate"} => Tells(Own(status), serving)
  BY <1>1 DEF Served, Tells, Own
<1>4. Tells(Own(502), serving)
  BY DEF Tells, Own
<1>5. CASE RejectLength
  <2>1. PICK status \in {411, 400, 413} : Answers(Own(status))
    BY <1>5 DEF RejectLength
  <2>2. status \in Rejections
    BY DEF Rejections
  <2> QED
    BY <1>1, <1>2, <1>3, <1>5, <2>1, <2>2, AnswersKeepsIInv DEF RejectLength
<1>6. CASE BodyEnded
  BY <1>1, <1>2, <1>3, <1>6, AnswersKeepsIInv DEF BodyEnded, Acceptable, Rejections
<1>7. CASE Reject
  <2>1. BodyOf(serving) \in Bodies \cup {Malformed}
    BY <1>1 DEF BodyOf, Requests
  <2>2. Verdict(BodyOf(serving)) \in Rejections
    BY <1>7, <2>1, VerdictIsStrict DEF Reject, Rejections
  <2> QED
    BY <1>1, <1>2, <1>3, <1>7, <2>2, AnswersKeepsIInv DEF Reject
<1>8. CASE UpstreamFails \/ \E addresses \in DnsAnswers : RejectUpstream(addresses)
  BY <1>1, <1>2, <1>4, <1>8, AnswersKeepsIInv DEF UpstreamFails, RejectUpstream
<1> QED
  BY <1>5, <1>6, <1>7, <1>8

\* What is relayed is at most what is read.
LEMMA UpstreamAnswersKeepsIInv ==
  ASSUME IInv, NEW status \in UpstreamStatuses, NEW size \in 0..(MaxResponse + 1),
         UpstreamAnswers(status, size)
  PROVE  IInv'
<1> USE RpcAssumption
<1> DEFINE read == Min({size, MaxResponse + 1})
<1>1. serving # None /\ Served(serving) /\ stage = "upstream"
  BY Serving DEF UpstreamAnswers
<1>2. read \in 0..(MaxResponse + 1)
  <2>1. {size, MaxResponse + 1} \in SUBSET Nat /\ {size, MaxResponse + 1} # {}
    OBVIOUS
  <2>2. read \in {size, MaxResponse + 1}
    BY <2>1, MinIsAMember
  <2> QED
    BY <2>2
<1>3. IF read > MaxResponse THEN Answers(Own(502)) ELSE Answers(Relayed(status, read))
  BY DEF UpstreamAnswers
<1> HIDE DEF read
<1>4. CASE read > MaxResponse
  <2>1. Own(502) \in Replies /\ Tells(Own(502), serving)
    BY DEF Replies, OwnAnswers, Own, Tells
  <2> QED
    BY <1>1, <1>3, <1>4, <2>1, AnswersKeepsIInv
<1>5. CASE ~(read > MaxResponse)
  <2>1. read \in 0..MaxResponse
    BY <1>2, <1>5
  <2>2. Relayed(status, read) \in Replies
    BY <2>1 DEF Replies, RelayedAnswers, Relayed
  <2>3. Tells(Relayed(status, read), serving)
    BY <1>1 DEF Tells, Served, Relayed
  <2> QED
    BY <1>1, <1>3, <1>5, <2>2, <2>3, AnswersKeepsIInv
<1> QED
  BY <1>4, <1>5

\* The body is read to its end.
LEMMA ReadBodyKeepsIInv == ASSUME IInv, ReadBody PROVE IInv'
<1>1. TypeOK /\ LeavesOnce /\ ClientsAreServedOnce /\ serving \in Clients /\ Served(serving)
  BY Serving DEF IInv, ReadBody, Acceptable
<1>2. /\ stage = "body" /\ stage' = "validate" /\ Whole(serving)
      /\ UNCHANGED <<request, sent, gone, waiting, serving, file, reply, answers, forwarded>>
  BY DEF ReadBody, Acceptable, Whole, clientVars
<1>3. TypeOK'
  BY <1>1, <1>2 DEF TypeOK
<1>4. LeavesOnce'
  BY <1>1, <1>2 DEF LeavesOnce, Leaves
<1>5. ClientsAreServedOnce'
  <2>1. \A d \in Clients : Untouched(d)' = Untouched(d) /\ Done(d)' = Done(d)
    BY <1>2 DEF Untouched, Done, Forwarded, Tells
  <2>2. Served(serving)'
    BY <1>1, <1>2 DEF Served, Whole, Forwarded
  <2> QED
    BY <1>1, <1>2, <2>1, <2>2 DEF ClientsAreServedOnce
<1> QED
  BY <1>3, <1>4, <1>5 DEF IInv

\* The request goes out, whole and allowed, and for the first time.
LEMMA ForwardKeepsIInv ==
  ASSUME IInv, NEW addresses \in DnsAnswers, Forward(addresses)
  PROVE  IInv'
<1> USE RpcAssumption
<1>0. PICK f, n : /\ f = [client |-> serving, body |-> BodyOf(serving), size |-> sent[serving],
                          host |-> file, addresses |-> addresses, address |-> addresses[1]]
                  /\ n = Len(forwarded) + 1
  OBVIOUS
<1>1. /\ TypeOK /\ LeavesOnce /\ ClientsAreServedOnce
      /\ serving \in Clients /\ Served(serving) /\ request[serving] \in Requests
  BY Serving DEF IInv, Forward
<1>2. /\ stage = "validate" /\ Verdict(BodyOf(serving)) = 200
      /\ file # None /\ addresses # <<>> /\ Range(addresses) \subseteq GlobalAddresses
      /\ forwarded' = Append(forwarded, f) /\ stage' = "upstream"
      /\ UNCHANGED <<request, sent, gone, waiting, serving, file, reply, answers>>
  BY <1>0 DEF Forward, clientVars
<1>3. Whole(serving) /\ ~Forwarded(serving) /\ answers[serving] = <<>>
  BY <1>1, <1>2 DEF Served
<1>4. BodyOf(serving) \in Bodies /\ BodyOf(serving) # <<>> /\ Range(BodyOf(serving)) \subseteq AllowedMethods
  <2>1. BodyOf(serving) \in Bodies \cup {Malformed}
    BY <1>1 DEF BodyOf, Requests
  <2> QED
    BY <1>2, <2>1, VerdictIsStrict
<1>5. addresses[1] \in Addresses
  BY <1>2 DEF DnsAnswers
<1>6. f \in Forwards
  BY <1>0, <1>1, <1>3, <1>4, <1>5 DEF Forwards, Whole, TypeOK
<1>7. f.client = serving /\ f.size = sent[serving] /\ f.body = BodyOf(serving) /\ f.host = file
      /\ f.addresses = addresses
  BY <1>0
<1>8. /\ forwarded' \in Seq(Forwards)
      /\ DOMAIN forwarded' = DOMAIN forwarded \cup {n} /\ n \notin DOMAIN forwarded
      /\ \A i \in DOMAIN forwarded : forwarded'[i] = forwarded[i]
      /\ forwarded'[n] = f
  BY <1>0, <1>1, <1>2, <1>6, AppendElements DEF LeavesOnce
<1>9. TypeOK'
  <2>1. ASSUME NEW i \in DOMAIN forwarded' PROVE forwarded'[i].address \in Addresses
    <3>1. forwarded'[i] \in Forwards
      BY <1>8, ElementsOfSequences
    <3> QED
      BY <3>1 DEF Forwards
  <2> QED
    BY <1>1, <1>2, <2>1 DEF TypeOK
<1>10. LeavesOnce'
  <2>1. Leaves(f)'
    BY <1>1, <1>2, <1>3, <1>4, <1>7 DEF Leaves, Whole, Served
  <2>2. \A i \in DOMAIN forwarded : Leaves(forwarded[i])'
    BY <1>1, <1>2, <1>8 DEF LeavesOnce, Leaves
  <2>3. (\A i \in DOMAIN forwarded : Leaves(forwarded[i]))'
    BY <1>8, <2>1, <2>2 DEF Leaves
  <2>4. \A i, j \in DOMAIN forwarded' : forwarded'[i].client = forwarded'[j].client => i = j
    BY <1>1, <1>3, <1>7, <1>8 DEF LeavesOnce, Forwarded
  <2> QED
    BY <1>8, <2>3, <2>4 DEF LeavesOnce
<1>11. \A d \in Clients : Forwarded(d)' <=> Forwarded(d) \/ d = serving
  BY <1>7, <1>8 DEF Forwarded
<1>12. ClientsAreServedOnce'
  <2>1. ASSUME NEW d \in Clients, request[d] = None \/ d \in Range(waiting)
        PROVE  Untouched(d)'
    <3>1. d # serving /\ Untouched(d)
      BY <1>1, <2>1 DEF ClientsAreServedOnce, TypeOK, Served
    <3> QED
      BY <1>2, <1>11, <3>1 DEF Untouched
  <2>2. ASSUME NEW d \in Clients PROVE Done(d)'
    <3>1. CASE d = serving
      BY <1>2, <1>3, <3>1 DEF Done
    <3>2. CASE d # serving
      <4>1. Done(d) /\ (Forwarded(d)' <=> Forwarded(d)) /\ answers'[d] = answers[d]
        BY <1>1, <1>2, <1>11, <3>2 DEF ClientsAreServedOnce
      <4> QED
        BY <4>1 DEF Done, Tells
    <3> QED
      BY <3>1, <3>2
  <2>3. Served(serving)'
    BY <1>1, <1>2, <1>3, <1>11 DEF Served, Whole
  <2> QED
    BY <1>1, <1>2, <2>1, <2>2, <2>3 DEF ClientsAreServedOnce
<1> QED
  BY <1>9, <1>10, <1>12 DEF IInv

\* The one answer of the client that is served.
LEMMA ReplyKeepsIInv == ASSUME IInv, Reply PROVE IInv'
<1> USE RpcAssumption
<1>1. /\ TypeOK /\ LeavesOnce /\ ClientsAreServedOnce
      /\ serving \in Clients /\ Served(serving) /\ request[serving] \in Requests
  BY Serving DEF IInv, Reply
<1>2. /\ stage = "reply"
      /\ answers' \in {answers, [answers EXCEPT ![serving] = Append(@, reply)]}
      /\ serving' = None /\ stage' = "body"
      /\ UNCHANGED <<request, sent, gone, waiting, file, forwarded>>
  BY DEF Reply, clientVars
<1>3. answers[serving] = <<>> /\ reply \in Replies /\ Tells(reply, serving)
  BY <1>1, <1>2 DEF Served, TypeOK, Replies
<1>4. <<reply>> \in Seq(Replies) /\ Append(<<>>, reply) = <<reply>>
  BY <1>3
<1>5. /\ answers' \in [Clients -> Seq(Replies)]
      /\ answers'[serving] \in {<<>>, <<reply>>}
      /\ \A d \in Clients : d # serving => answers'[d] = answers[d]
  <2>1. answers \in [Clients -> Seq(Replies)]
    BY <1>1 DEF ClientsAreServedOnce
  <2>2. answers' \in {answers, [answers EXCEPT ![serving] = <<reply>>]}
    BY <1>2, <1>3, <1>4
  <2>3. <<reply>> \in Seq(Replies) /\ answers[serving] = <<>> /\ serving \in Clients
    BY <1>1, <1>3, <1>4
  <2> HIDE RpcAssumption
  <2> QED
    BY <2>1, <2>2, <2>3
<1>6. TypeOK'
  <2>1. Range(waiting) \subseteq Clients
    BY <1>1, RangeOfSeq DEF TypeOK
  <2> QED
    BY <1>1, <1>2, <2>1 DEF TypeOK
<1>7. LeavesOnce'
  BY <1>1, <1>2 DEF LeavesOnce, Leaves
<1>8. ClientsAreServedOnce'
  <2>1. \A d \in Clients : Forwarded(d)' <=> Forwarded(d)
    BY <1>2 DEF Forwarded
  <2>2. ASSUME NEW d \in Clients, request[d] = None \/ d \in Range(waiting)
        PROVE  Untouched(d)'
    <3>1. d # serving /\ Untouched(d)
      BY <1>1, <2>2 DEF ClientsAreServedOnce, TypeOK, Served
    <3> QED
      BY <1>5, <2>1, <3>1 DEF Untouched
  <2>3. ASSUME NEW d \in Clients PROVE Done(d)'
    <3>1. CASE d = serving
      BY <1>3, <1>5, <2>1, <3>1 DEF Done, Tells
    <3>2. CASE d # serving
      <4>1. Done(d) /\ answers'[d] = answers[d]
        BY <1>1, <1>5, <3>2 DEF ClientsAreServedOnce
      <4> QED
        BY <2>1, <4>1 DEF Done, Tells
    <3> QED
      BY <3>1, <3>2
  <2>4. serving' \notin Clients
    BY <1>2
  <2> QED
    BY <1>1, <1>2, <1>5, <2>2, <2>3, <2>4 DEF ClientsAreServedOnce
<1> QED
  BY <1>6, <1>7, <1>8 DEF IInv

-----------------------------------------------------------------------------
(* The theorems                                                             *)

LEMMA NextKeepsIInv == IInv /\ [Next]_vars => IInv'
<1> SUFFICES ASSUME IInv, [Next]_vars PROVE IInv'
  OBVIOUS
<1>1. CASE Handler
  BY <1>1, AcceptKeepsIInv, RejectionsKeepIInv, ReadBodyKeepsIInv, ForwardKeepsIInv,
     UpstreamAnswersKeepsIInv, ReplyKeepsIInv DEF Handler
<1>2. CASE Next
  BY <1>1, <1>2, ConnectKeepsIInv, SendByteKeepsIInv, OthersKeepIInv DEF Next
<1>3. CASE UNCHANGED vars
  <2>1. TypeOK'
    BY <1>3 DEF vars, clientVars, handlerVars, IInv, TypeOK
  <2>2. LeavesOnce'
    BY <1>3 DEF vars, clientVars, handlerVars, IInv, LeavesOnce, Leaves
  <2>3. ClientsAreServedOnce'
    BY <1>3 DEF vars, clientVars, handlerVars, IInv, ClientsAreServedOnce, Untouched, Done,
                Served, Whole, Tells, Forwarded
  <2> QED
    BY <2>1, <2>2, <2>3 DEF IInv
<1> QED
  BY <1>2, <1>3

\* Where each client is, whatever the clients, the operator and the upstream do
\* (rpc_proxy.py 266-330).
THEOREM RpcInvariant == Spec => []IInv
BY InitIInv, NextKeepsIInv, PTL DEF Spec

\* The types of the gate's state.
THEOREM RpcTypeOK == Spec => []TypeOK
<1>1. IInv => TypeOK
  BY DEF IInv
<1> QED
  BY <1>1, RpcInvariant, PTL

\* Only whole requests leave, all of whose items call allowed methods, to a host whose
\* addresses were all global: for any allowlist and any batch (rpc_proxy.py 130-236,
\* 266-296).
THEOREM RpcOnlyAllowedLeaves == Spec => []OnlyAllowedLeaves
<1>1. ASSUME IInv PROVE OnlyAllowedLeaves
  <2> SUFFICES ASSUME NEW i \in DOMAIN forwarded
               PROVE  /\ forwarded[i].size = request[forwarded[i].client].length
                      /\ forwarded[i].size <= MaxRequest
                      /\ forwarded[i].body # <<>> /\ Range(forwarded[i].body) \subseteq AllowedMethods
                      /\ forwarded[i].host # None
                      /\ Range(forwarded[i].addresses) \subseteq GlobalAddresses
    BY DEF OnlyAllowedLeaves
  <2>1. forwarded[i] \in Forwards
    BY <1>1, ElementOfSeq, LenProperties DEF IInv, LeavesOnce
  <2>2. forwarded[i].size \in 0..MaxRequest
    BY <2>1 DEF Forwards
  <2>3. Leaves(forwarded[i])
    BY <1>1 DEF IInv, LeavesOnce
  <2> QED
    BY <2>2, <2>3, RpcAssumption DEF Leaves
<1> QED
  BY <1>1, RpcInvariant, PTL

\* One request has one answer and leaves at most once; what the proxy rejected did
\* not leave, what it relays answers what did, and a status it never gives itself
\* tells the client so: for any clients that connect, stall and hang up and any
\* statuses of the upstream (rpc_proxy.py 266-311).
THEOREM RpcAnswersMatch == Spec => []AnswersMatch
<1>1. ASSUME IInv, NEW c \in Clients
      PROVE  LET left == {i \in DOMAIN forwarded : forwarded[i].client = c} IN
               /\ Len(answers[c]) <= 1 /\ Cardinality(left) <= 1
               /\ \A i \in DOMAIN answers[c] :
                    LET answer == answers[c][i] IN
                      /\ answer.by = "upstream" => left # {} /\ answer.size <= MaxResponse
                      /\ answer.by = "proxy" /\ answer.status # 502 => left = {}
                      /\ answer.status \notin Rejections \cup {502} => left # {}
  <2> DEFINE left == {i \in DOMAIN forwarded : forwarded[i].client = c}
  <2>1. Cardinality(left) <= 1
    <3>1. CASE left = {}
      BY <3>1, FS_EmptySet
    <3>2. CASE left # {}
      <4>1. PICK i : i \in left
        BY <3>2
      <4>2. left = {i}
        BY <1>1, <4>1 DEF IInv, LeavesOnce
      <4> QED
        BY <4>2, FS_Singleton
    <3> QED
      BY <3>1, <3>2
  <2>2. Forwarded(c) <=> left # {}
    BY DEF Forwarded
  <2>3. Done(c)
    BY <1>1 DEF IInv, ClientsAreServedOnce
  <2>4. CASE answers[c] = <<>>
    BY <2>1, <2>4
  <2>5. ASSUME NEW r \in Replies, answers[c] = <<r>>, Tells(r, c)
        PROVE  /\ Len(answers[c]) <= 1
               /\ \A i \in DOMAIN answers[c] :
                    LET answer == answers[c][i] IN
                      /\ answer.by = "upstream" => left # {} /\ answer.size <= MaxResponse
                      /\ answer.by = "proxy" /\ answer.status # 502 => left = {}
                      /\ answer.status \notin Rejections \cup {502} => left # {}
    <3>1. Len(answers[c]) = 1 /\ \A i \in DOMAIN answers[c] : answers[c][i] = r
      BY <2>5
    <3>2. /\ r.by = "upstream" => r.size <= MaxResponse
          /\ r.status \notin Rejections \cup {502} => r.by = "upstream"
      BY RpcAssumption DEF Replies, OwnAnswers, RelayedAnswers
    <3> QED
      BY <2>2, <2>5, <3>1, <3>2 DEF Tells
  <2> QED
    BY <2>1, <2>3, <2>4, <2>5 DEF Done
<1>2. IInv => AnswersMatch
  BY <1>1 DEF AnswersMatch
<1> QED
  BY <1>2, RpcInvariant, PTL
=============================================================================
