----------------------------- MODULE EgressProxy -----------------------------
(***************************************************************************)
(* A connection of containers/https-egress-proxy/https_egress_proxy.py:    *)
(* the CONNECT request, the choice of an address, and the tunnel, in which *)
(* one thread moves bytes in both directions and one deadline covers both. *)
(* A connection has its own thread and shares nothing with the others.     *)
(*                                                                         *)
(* The client speaks after the 200 only, as TLS over CONNECT does: what it *)
(* sent before would stay in the buffer of the HTTP server.                *)
(***************************************************************************)
EXTENDS Integers, Sequences, SequencesExt, FiniteSetsExt

CONSTANTS
  Hosts, AllowedHosts,
  Addresses, GlobalAddresses, V4Addresses,
  BufferBytes,   \* BUFFER_BYTES
  Idle,          \* TUNNEL_IDLE_TIMEOUT_SECONDS, in ticks
  Window,        \* how much a peer takes before it reads
  MaxBytes,      \* bound: how much each side sends
  None

Sides == {"client", "upstream"}
Other(s) == IF s = "client" THEN "upstream" ELSE "client"

ASSUME ProxyAssumption ==
  /\ AllowedHosts \subseteq Hosts
  /\ GlobalAddresses \cup V4Addresses \subseteq Addresses
  /\ {BufferBytes, Idle, Window} \subseteq Nat \ {0} /\ MaxBytes \in Nat
  /\ None \notin Sides

VARIABLES
  phase,       \* "request", "connecting", "tunnel", "closed" or "rejected"
  candidates,  \* the addresses that remain to be tried
  upstream,    \* the address of the connection, or None
  answer,      \* what DNS answered for the target, and for which host
  written,     \* written[s]: how many bytes s has sent
  shut,        \* the sides that have ended their stream
  broken,      \* the sides whose connection was reset
  received,    \* received[s]: how many bytes of s the proxy has read
  ready,       \* the events of the last select that are not handled yet
  inHand,      \* how many bytes of the first event's data are not sent on yet
  delivered,   \* delivered[s]: the bytes that were sent on to s
  unread,      \* unread[s]: how many of them s has not read
  left,        \* time to the deadline
  end          \* why the tunnel ended

connectVars == <<candidates, upstream, answer>>
peerVars == <<written, shut, broken>>
vars == <<phase, connectVars, peerVars, received, ready, inHand, delivered, unread, left, end>>

Init ==
  /\ phase = "request"
  /\ candidates = {} /\ upstream = None /\ answer = None
  /\ written = [s \in Sides |-> 0] /\ shut = {} /\ broken = {}
  /\ received = [s \in Sides |-> 0]
  /\ ready = <<>> /\ inHand = 0
  /\ delivered = [s \in Sides |-> <<>>] /\ unread = [s \in Sides |-> 0]
  /\ left = Idle /\ end = None

-----------------------------------------------------------------------------
(* do_CONNECT                                                               *)

\* Mutated form of Usable: the addresses that are not global are only ignored.
UsableSome(addresses) == addresses \cap GlobalAddresses # {}

\* resolve_global_addresses: one address that is not global rejects them all.
Usable(addresses) == addresses # {} /\ addresses \subseteq GlobalAddresses

\* parse_connect_target, require_allowed_host, resolve_global_addresses
Request(host, port, addresses) ==
  /\ phase = "request"
  /\ answer' = [host |-> host, port |-> port, addresses |-> addresses]
  /\ IF host \in AllowedHosts /\ port = 443 /\ Usable(addresses)
     THEN phase' = "connecting" /\ candidates' = addresses
     ELSE phase' = "rejected" /\ UNCHANGED candidates
  /\ UNCHANGED <<upstream, peerVars, received, ready, inHand, delivered, unread, left, end>>

\* connect_first tries IPv4 before IPv6.
Next1(address) ==
  address \in candidates /\ (candidates \cap V4Addresses # {} => address \in V4Addresses)

Connects(address) ==
  /\ phase = "connecting" /\ Next1(address)
  /\ upstream' = address
  /\ phase' = "tunnel" /\ left' = Idle
  /\ UNCHANGED <<candidates, answer, peerVars, received, ready, inHand, delivered, unread, end>>

ConnectFails(address) ==
  /\ phase = "connecting" /\ Next1(address)
  /\ candidates' = candidates \ {address}
  /\ phase' = IF candidates' = {} THEN "rejected" ELSE phase
  /\ UNCHANGED <<upstream, answer, peerVars, received, ready, inHand, delivered, unread, left, end>>

-----------------------------------------------------------------------------
(* tunnel and forward_bytes                                                 *)

Closes(reason) ==
  /\ phase' = "closed" /\ end' = reason
  /\ UNCHANGED <<connectVars, peerVars, received, ready, inHand, delivered, unread, left>>

Readable == {s \in Sides : written[s] > received[s] \/ s \in shut \cup broken}

Select ==
  /\ phase = "tunnel" /\ ready = <<>> /\ left > 0
  /\ Readable # {}
  /\ ready' \in SetToSeqs(Readable)
  /\ UNCHANGED <<phase, connectVars, peerVars, received, inHand, delivered, unread, left, end>>

\* Mutated form of DeadlinePasses: sending waits for the peer without a deadline.
DeadlinePassesInSelect ==
  /\ phase = "tunnel" /\ left = 0
  /\ ready = <<>>
  /\ Closes("deadline")

DeadlinePasses ==
  /\ phase = "tunnel" /\ left = 0
  /\ ready = <<>> \/ inHand > 0
  /\ Closes("deadline")

\* source.recv: a chunk, the end of the stream, or an error.
Recv ==
  /\ phase = "tunnel" /\ ready # <<>> /\ inHand = 0
  /\ LET s == Head(ready) IN
       /\ s \notin broken /\ written[s] > received[s]
       /\ inHand' = Min({BufferBytes, written[s] - received[s]})
       /\ received' = [received EXCEPT ![s] = @ + inHand']
  /\ UNCHANGED <<phase, connectVars, peerVars, ready, delivered, unread, left, end>>

StreamEnds ==
  /\ phase = "tunnel" /\ ready # <<>> /\ inHand = 0
  /\ LET s == Head(ready) IN
       \/ s \in broken /\ Closes("error")
       \/ s \notin broken /\ written[s] = received[s] /\ Closes(s)

\* The bytes in hand are the last ones received.
InHandFrom(s) == received[s] - inHand + 1

\* Mutated form of Send: the rest of a chunk that was sent in part is forgotten.
SendOnce(n) ==
  /\ phase = "tunnel" /\ inHand > 0 /\ left > 0
  /\ LET s == Head(ready)
         d == Other(s) IN
       /\ d \notin broken /\ n <= inHand /\ unread[d] + n <= Window
       /\ delivered' = [delivered EXCEPT ![d] = @ \o [i \in 1..n |-> InHandFrom(s) + i - 1]]
       /\ unread' = [unread EXCEPT ![d] = @ + n]
  /\ inHand' = 0
  /\ ready' = Tail(ready)
  /\ left' = Idle
  /\ UNCHANGED <<phase, connectVars, peerVars, received, end>>

\* destination.send takes a part of what is in hand; the rest is tried again.
Send(n) ==
  /\ phase = "tunnel" /\ inHand > 0 /\ left > 0
  /\ LET s == Head(ready)
         d == Other(s) IN
       /\ d \notin broken /\ n <= inHand /\ unread[d] + n <= Window
       /\ delivered' = [delivered EXCEPT ![d] = @ \o [i \in 1..n |-> InHandFrom(s) + i - 1]]
       /\ unread' = [unread EXCEPT ![d] = @ + n]
  /\ inHand' = inHand - n
  /\ ready' = IF inHand' = 0 THEN Tail(ready) ELSE ready
  /\ left' = Idle
  /\ UNCHANGED <<phase, connectVars, peerVars, received, end>>

SendFails ==
  /\ phase = "tunnel" /\ inHand > 0 /\ Other(Head(ready)) \in broken
  /\ Closes("error")

-----------------------------------------------------------------------------
(* The peers and the clock                                                  *)

Write(s) ==
  /\ phase = "tunnel" /\ s \notin shut \cup broken /\ written[s] < MaxBytes
  /\ written' = [written EXCEPT ![s] = @ + 1]
  /\ UNCHANGED <<phase, connectVars, shut, broken, received, ready, inHand, delivered, unread, left, end>>

Shut(s) ==
  /\ phase = "tunnel" /\ s \notin shut
  /\ shut' = shut \cup {s}
  /\ UNCHANGED <<phase, connectVars, written, broken, received, ready, inHand, delivered, unread, left, end>>

Breaks(s) ==
  /\ phase = "tunnel" /\ s \notin broken
  /\ broken' = broken \cup {s}
  /\ UNCHANGED <<phase, connectVars, written, shut, received, ready, inHand, delivered, unread, left, end>>

Reads(s) ==
  /\ unread[s] > 0 /\ s \notin broken
  /\ unread' = [unread EXCEPT ![s] = @ - 1]
  /\ UNCHANGED <<phase, connectVars, peerVars, received, ready, inHand, delivered, left, end>>

Tick ==
  /\ phase = "tunnel" /\ left > 0
  /\ left' = left - 1
  /\ UNCHANGED <<phase, connectVars, peerVars, received, ready, inHand, delivered, unread, end>>

Proxy == Select \/ DeadlinePasses \/ Recv \/ StreamEnds \/ SendFails \/ \E n \in 1..BufferBytes : Send(n)

Next ==
  \/ \E host \in Hosts, port \in {80, 443}, addresses \in SUBSET Addresses : Request(host, port, addresses)
  \/ \E address \in Addresses : Connects(address) \/ ConnectFails(address)
  \/ Select \/ DeadlinePasses \/ Recv \/ StreamEnds \/ SendFails
  \/ \E n \in 1..BufferBytes : Send(n)
  \/ \E s \in Sides : Write(s) \/ Shut(s) \/ Breaks(s) \/ Reads(s)
  \/ Tick

Spec == Init /\ [][Next]_vars

\* The proxy's thread runs and time passes; the peers owe nothing.
FairSpec == Spec /\ WF_vars(Proxy) /\ WF_vars(Tick)

-----------------------------------------------------------------------------
(* Properties                                                               *)

\* The types; a chunk in hand belongs to the event that is being handled
\* (https_egress_proxy.py 186-204).
TypeOK ==
  /\ phase \in {"request", "connecting", "tunnel", "closed", "rejected"}
  /\ candidates \subseteq Addresses /\ upstream \in Addresses \cup {None}
  /\ received \in [Sides -> 0..MaxBytes] /\ written \in [Sides -> 0..MaxBytes]
  /\ shut \cup broken \subseteq Sides
  /\ ready \in Seq(Sides) /\ inHand \in 0..BufferBytes /\ (inHand > 0 => ready # <<>>)
  /\ unread \in [Sides -> 0..Window] /\ left \in 0..Idle

\* What a side gets is what the other side sent, from its first byte on, without
\* a gap or a repetition, however the sends were cut; what is missing is in the
\* proxy's hands or was not read.  A stream that ended the tunnel was passed on
\* completely before; the other direction has no such promise
\* (https_egress_proxy.py 151-176, 192-210).
StreamsAreKept == \A s \in Sides :
  /\ delivered[Other(s)] =
       [i \in 1..(received[s] - IF ready # <<>> /\ Head(ready) = s THEN inHand ELSE 0) |-> i]
  /\ end = s => Len(delivered[Other(s)]) = written[s]

\* The tunnel leads to an address that DNS gave for the allowed host, when all it
\* gave was global, and the attempts that failed before change nothing in that
\* (https_egress_proxy.py 78-149, 236-250).
LeadsWhereAllowed ==
  upstream # None =>
    /\ answer.host \in AllowedHosts /\ answer.port = 443
    /\ upstream \in answer.addresses /\ answer.addresses \subseteq GlobalAddresses

\* A tunnel ends, also when a peer never reads, never writes and never closes: the
\* bytes are bounded here, and without bytes the deadline is not moved
\* (https_egress_proxy.py 151-176, 186-196).
TunnelsEnd == phase = "tunnel" ~> phase = "closed"
=============================================================================
