------------------------------ MODULE RpcProxy ------------------------------
(***************************************************************************)
(* containers/rpc-proxy/rpc_proxy.py: a gate for JSON-RPC methods in front *)
(* of one upstream.  The server has one thread and HTTP/1.0 connections    *)
(* with one request each: a client is served to its end before the next    *)
(* one is looked at, and nothing limits how long its bytes may take.       *)
(*                                                                         *)
(* A body is what JSON parsing makes of it: a batch or a single item, each *)
(* item a method name, Nameless when it has none, or NotAnObject.          *)
(***************************************************************************)
EXTENDS Integers, Sequences, FiniteSets, SequencesExt, FiniteSetsExt

CONSTANTS
  Clients,
  Methods, AllowedMethods,   \* what an item may call, and RPC_ALLOWED_METHODS
  NotAnObject, Nameless, Malformed, Missing, Invalid, None,
  MaxRequest, MaxResponse,   \* MAX_REQUEST_BYTES, MAX_RESPONSE_BYTES
  Bodies,                    \* what a client's body may parse to, or Malformed
  Upstreams,                 \* what the upstream file may hold: hosts, or None if unusable
  UpstreamStatuses,          \* the statuses an upstream may answer with
  Addresses, GlobalAddresses

ASSUME RpcAssumption ==
  /\ {MaxRequest, MaxResponse} \subseteq Nat \ {0}
  /\ AllowedMethods \subseteq Methods
  /\ \A body \in Bodies : body = Malformed \/ body \in Seq(Methods \cup {NotAnObject, Nameless})
  /\ UpstreamStatuses \subseteq 101..999
  /\ GlobalAddresses \subseteq Addresses /\ None \notin Addresses \cup Clients

\* A content-length: absent, not a number, or a size.
Lengths == {Missing, Invalid} \cup 0..(MaxRequest + 1)
Requests == [length : Lengths, body : Bodies]

\* An answer is the proxy's own (send_error), or the upstream's that it relays
\* with whatever status it has; its length is that of the relayed body.  Whose
\* it is, is not on the wire: an upstream rejects with the same statuses.
Rejections == {400, 403, 411, 413}
OwnAnswers == [by : {"proxy"}, status : Rejections \cup {502}, size : {0}]
RelayedAnswers == [by : {"upstream"}, status : UpstreamStatuses, size : 0..MaxResponse]

ASSUME NoneIsNoRequest == None \notin Requests /\ Missing \notin Nat /\ Invalid \notin Nat

VARIABLES
  request,     \* what each client asks: its content-length and its body
  sent,        \* the bytes of the body it has sent so far
  gone,        \* the clients that hung up
  waiting,     \* the connections that are not accepted yet, oldest first
  serving,     \* the client of the running handler, or None
  stage,       \* where the handler is: "body", "validate", "upstream" or "reply"
  file,        \* the host of the upstream file
  reply,       \* the answer that is being sent
  answers,     \* answers[c]: the answers c was sent
  forwarded    \* what went upstream, in order

clientVars == <<request, sent, gone>>
handlerVars == <<waiting, serving, stage, file, reply, answers, forwarded>>
vars == <<clientVars, handlerVars>>

Init ==
  /\ request \in [Clients -> {None}] /\ sent = [c \in Clients |-> 0] /\ gone = {}
  /\ waiting = <<>> /\ serving = None /\ stage = "body" /\ reply = None
  /\ file \in Upstreams
  /\ answers = [c \in Clients |-> <<>>] /\ forwarded = <<>>

-----------------------------------------------------------------------------
(* The clients and the operator                                             *)

Connect(c, length, body) ==
  /\ request[c] = None
  /\ request' = [request EXCEPT ![c] = [length |-> length, body |-> body]]
  /\ waiting' = Append(waiting, c)
  /\ UNCHANGED <<sent, gone, serving, stage, file, reply, answers, forwarded>>

SendByte(c) ==
  /\ request[c] # None /\ c \notin gone
  /\ request[c].length \in Nat /\ sent[c] < request[c].length
  /\ sent' = [sent EXCEPT ![c] = @ + 1]
  /\ UNCHANGED <<request, gone, handlerVars>>

HangUp(c) ==
  /\ request[c] # None /\ c \notin gone
  /\ gone' = gone \cup {c}
  /\ UNCHANGED <<request, sent, handlerVars>>

Rotate(host) ==
  /\ host # file /\ file' = host
  /\ UNCHANGED <<clientVars, waiting, serving, stage, reply, answers, forwarded>>

-----------------------------------------------------------------------------
(* The handler                                                              *)

Accept ==
  /\ serving = None /\ waiting # <<>>
  /\ serving' = Head(waiting) /\ waiting' = Tail(waiting) /\ stage' = "body"
  /\ UNCHANGED <<clientVars, file, reply, answers, forwarded>>

Answers(answer) ==
  /\ stage' = "reply" /\ reply' = answer
  /\ UNCHANGED <<clientVars, waiting, serving, file, answers, forwarded>>

Own(status) == [by |-> "proxy", status |-> status, size |-> 0]
Relayed(status, size) == [by |-> "upstream", status |-> status, size |-> size]

\* do_POST before the body: 411, 400 and 413.
RejectLength ==
  /\ serving # None /\ stage = "body"
  /\ LET length == request[serving].length IN
       \/ length = Missing /\ Answers(Own(411))
       \/ length = Invalid /\ Answers(Own(400))
       \/ length \in Nat /\ length > MaxRequest /\ Answers(Own(413))

Acceptable == serving # None /\ stage = "body" /\ request[serving].length \in 0..MaxRequest

ReadBody ==
  /\ Acceptable /\ sent[serving] = request[serving].length
  /\ stage' = "validate"
  /\ UNCHANGED <<clientVars, waiting, serving, file, reply, answers, forwarded>>

BodyEnded ==
  /\ Acceptable /\ serving \in gone /\ sent[serving] < request[serving].length
  /\ Answers(Own(400))

\* validate_rpc_request: the status of the first item that is rejected, 200 if none is.
ItemStatus(item) == IF item \in {NotAnObject, Nameless} THEN 400 ELSE IF item \in AllowedMethods THEN 200 ELSE 403

\* Mutated form of Verdict: the first item of a batch speaks for the batch.
FirstVerdict(body) ==
  IF body = Malformed \/ body = <<>> THEN 400 ELSE IF AllowedMethods = {} THEN 403 ELSE ItemStatus(body[1])

Rejected(body) == {i \in DOMAIN body : ItemStatus(body[i]) # 200}

Verdict(body) ==
  IF AllowedMethods = {} THEN 403
  ELSE IF body = Malformed \/ body = <<>> THEN 400
  ELSE IF Rejected(body) = {} THEN 200 ELSE ItemStatus(body[Min(Rejected(body))])

\* An empty content-length 0 body is no JSON.
BodyOf(c) == IF request[c].length = 0 THEN Malformed ELSE request[c].body

Reject ==
  /\ serving # None /\ stage = "validate"
  /\ Verdict(BodyOf(serving)) # 200
  /\ Answers(Own(Verdict(BodyOf(serving))))

\* read_upstream and resolve_global_ip; the first address is taken.
RejectUpstream(addresses) ==
  /\ serving # None /\ stage = "validate" /\ Verdict(BodyOf(serving)) = 200
  /\ file = None \/ addresses = <<>> \/ ~ (Range(addresses) \subseteq GlobalAddresses)
  /\ Answers(Own(502))

Forward(addresses) ==
  /\ serving # None /\ stage = "validate" /\ Verdict(BodyOf(serving)) = 200
  /\ file # None /\ addresses # <<>> /\ Range(addresses) \subseteq GlobalAddresses
  /\ forwarded' = Append(forwarded,
       [client |-> serving, body |-> BodyOf(serving), size |-> sent[serving],
        host |-> file, addresses |-> addresses, address |-> addresses[1]])
  /\ stage' = "upstream"
  /\ UNCHANGED <<clientVars, waiting, serving, file, reply, answers>>

\* The upstream answers with some status and a body of some size, or fails or
\* times out.  response.read takes one byte more than is relayed.
UpstreamAnswers(status, size) ==
  /\ serving # None /\ stage = "upstream"
  /\ LET read == Min({size, MaxResponse + 1}) IN
       IF read > MaxResponse THEN Answers(Own(502)) ELSE Answers(Relayed(status, read))

\* Mutated form of UpstreamFails: the request is tried again.
UpstreamRetried ==
  /\ serving # None /\ stage = "upstream" /\ stage' = "validate" /\ Len(forwarded) < 3
  /\ UNCHANGED <<clientVars, waiting, serving, file, reply, answers, forwarded>>

UpstreamFails == serving # None /\ stage = "upstream" /\ Answers(Own(502))

\* Mutated form of Reply: a client that is gone leaves the handler where it is.
ReplyOnlyIfThere ==
  /\ serving # None /\ stage = "reply" /\ serving \notin gone
  /\ answers' = [answers EXCEPT ![serving] = Append(@, reply)]
  /\ serving' = None /\ reply' = None /\ stage' = "body"
  /\ UNCHANGED <<clientVars, waiting, file, forwarded>>

\* The answer is written, or the client is gone and the write fails; either way the
\* connection is closed and the server takes the next one.
Reply ==
  /\ serving # None /\ stage = "reply"
  /\ answers' = IF serving \in gone THEN answers
                ELSE [answers EXCEPT ![serving] = Append(@, reply)]
  /\ serving' = None /\ reply' = None /\ stage' = "body"
  /\ UNCHANGED <<clientVars, waiting, file, forwarded>>

DnsAnswers == {<<>>} \cup [1..1 -> Addresses] \cup [1..2 -> Addresses]

Handler ==
  \/ Accept \/ RejectLength \/ ReadBody \/ BodyEnded \/ Reject
  \/ \E addresses \in DnsAnswers : RejectUpstream(addresses) \/ Forward(addresses)
  \/ \E status \in UpstreamStatuses, size \in 0..(MaxResponse + 1) : UpstreamAnswers(status, size)
  \/ UpstreamFails \/ Reply

Next ==
  \/ \E c \in Clients : SendByte(c) \/ HangUp(c)
  \/ \E c \in Clients, length \in Lengths, body \in Bodies : Connect(c, length, body)
  \/ \E host \in Upstreams : Rotate(host)
  \/ Handler

Spec == Init /\ [][Next]_vars

\* The thread runs and each of its upstream operations has a timeout.  It has none
\* for clients: that a client sends its body or hangs up is assumed of the clients.
FairSpec ==
  /\ Spec /\ WF_vars(Handler)
  /\ \A c \in Clients : WF_vars(SendByte(c) \/ HangUp(c))

-----------------------------------------------------------------------------
(* Properties                                                               *)

\* The types; a connection waits once, and not while it is served
\* (rpc_proxy.py 323-328).
TypeOK ==
  /\ request \in [Clients -> Requests \cup {None}]
  /\ sent \in [Clients -> 0..(MaxRequest + 1)] /\ gone \subseteq Clients
  /\ waiting \in Seq(Clients) /\ IsInjective(waiting)
  /\ serving \in Clients \cup {None} /\ serving \notin Range(waiting)
  /\ stage \in {"body", "validate", "upstream", "reply"} /\ file \in Upstreams
  /\ stage = "reply" => reply \in OwnAnswers \cup RelayedAnswers
  /\ \A i \in DOMAIN forwarded : forwarded[i].address \in Addresses

\* Only whole requests leave, all of whose items call allowed methods, and only to
\* a host of the file whose addresses were all global (rpc_proxy.py 130-236, 266-296).
OnlyAllowedLeaves ==
  \A i \in DOMAIN forwarded :
    LET f == forwarded[i] IN
      /\ f.size = request[f.client].length /\ f.size <= MaxRequest
      /\ f.body # <<>> /\ Range(f.body) \subseteq AllowedMethods
      /\ f.host # None /\ Range(f.addresses) \subseteq GlobalAddresses

\* One request has one answer and leaves at most once.  What the proxy itself
\* rejected never reached the upstream, and what is relayed answers a request that
\* did; a 502 of its own may be either (rpc_proxy.py 266-311).  The client sees the
\* status only, and an upstream's 403 looks like the proxy's: it learns that its
\* request left from a status that the proxy never gives itself.
AnswersMatch ==
  \A c \in Clients :
    LET left == {i \in DOMAIN forwarded : forwarded[i].client = c} IN
      /\ Len(answers[c]) <= 1 /\ Cardinality(left) <= 1
      /\ \A i \in DOMAIN answers[c] :
           LET answer == answers[c][i] IN
             /\ answer.by = "upstream" => left # {} /\ answer.size <= MaxResponse
             /\ answer.by = "proxy" /\ answer.status # 502 => left = {}
             /\ answer.status \notin Rejections \cup {502} => left # {}

\* Everyone is answered or has hung up, whoever waits before them, as long as the
\* clients send what they announced or hang up (rpc_proxy.py 280-284, 326-330).
EveryoneIsServed ==
  \A c \in Clients : request[c] # None ~> (serving # c /\ c \notin Range(waiting))
=============================================================================
