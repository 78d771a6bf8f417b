------------------------- MODULE BikeRegistryProofs -------------------------
(***************************************************************************)
(* Proofs about BikeRegistry and the views of BikeUI, for any accounts,    *)
(* serials, collections and bounds, and for registrations nested to any    *)
(* depth.  The inductive invariant speaks of the world and of every world  *)
(* that a waiting registration would restore: in each of them records have *)
(* tokens, and the token of an outer registration is there in the world    *)
(* that an inner one would restore.                                        *)
(***************************************************************************)
EXTENDS BikeUI, TLAPS

HasToken(w, c, s) == w.tokens[c][s] # None

SoundRecord(w, s) ==
  w.records[s] # None =>
    /\ HasToken(w, w.records[s].collection, s)
    /\ w.records[s].report # None <=> w.records[s].status = "Missing"

SoundWorld(w) == \A s \in Serials : SoundRecord(w, s)

Waits(w, f) == HasToken(w, f.collection, f.serial)

SoundFrames ==
  \A i \in 1..Len(frames) :
    /\ SoundWorld(frames[i].saved)
    /\ Waits(world, frames[i])
    /\ \A j \in 1..(i - 1) : Waits(frames[j].saved, frames[i])

IInv == TypeOK /\ SoundWorld(world) /\ SoundFrames

-----------------------------------------------------------------------------
(* Stacks and worlds                                                        *)

\* A frame is pushed on a stack.
LEMMA Push ==
  ASSUME NEW S, NEW f \in S, NEW q \in Seq(S)
  PROVE  /\ <<f>> \o q \in Seq(S)
         /\ Len(<<f>> \o q) = Len(q) + 1
         /\ (<<f>> \o q)[1] = f
         /\ \A i \in 2..(Len(q) + 1) : (<<f>> \o q)[i] = q[i - 1]
OBVIOUS

\* The innermost frame is popped.
LEMMA Pop ==
  ASSUME NEW S, NEW q \in Seq(S), q # <<>>
  PROVE  /\ Tail(q) \in Seq(S)
         /\ Len(Tail(q)) = Len(q) - 1 /\ Len(q) \in Nat \ {0}
         /\ Head(q) = q[1] /\ q[1] \in S
         /\ \A i \in 1..(Len(q) - 1) : Tail(q)[i] = q[i + 1]
OBVIOUS

\* What WithToken changes.
LEMMA TokenWritten ==
  ASSUME NEW w \in Worlds, NEW c \in Collections, NEW s \in Serials, NEW token \in Tokens
  PROVE  /\ WithToken(w, c, s, token) \in Worlds
         /\ WithToken(w, c, s, token).records = w.records
         /\ WithToken(w, c, s, token).componentsAddress = w.componentsAddress
         /\ WithToken(w, c, s, token).tokens[c][s] = token
         /\ \A d \in Collections, t \in Serials :
              d # c \/ t # s => WithToken(w, c, s, token).tokens[d][t] = w.tokens[d][t]
<1>1. [w.tokens EXCEPT ![c][s] = token] \in [Collections -> [Serials -> Tokens \cup {None}]]
  BY DEF Worlds
<1>2. WithToken(w, c, s, token) = [w EXCEPT !.tokens = [w.tokens EXCEPT ![c][s] = token]]
  BY DEF WithToken, Worlds
<1>3. w.tokens \in [Collections -> [Serials -> Tokens \cup {None}]]
  BY DEF Worlds
<1>4. /\ WithToken(w, c, s, token) \in Worlds
      /\ WithToken(w, c, s, token).records = w.records
      /\ WithToken(w, c, s, token).componentsAddress = w.componentsAddress
      /\ WithToken(w, c, s, token).tokens = [w.tokens EXCEPT ![c][s] = token]
  BY <1>1, <1>2 DEF Worlds
<1> QED
  BY <1>3, <1>4

\* What WithRecord changes.
LEMMA RecordWritten ==
  ASSUME NEW w \in Worlds, NEW s \in Serials, NEW record \in Records
  PROVE  /\ WithRecord(w, s, record) \in Worlds
         /\ WithRecord(w, s, record).tokens = w.tokens
         /\ WithRecord(w, s, record).componentsAddress = w.componentsAddress
         /\ WithRecord(w, s, record).records[s] = record
         /\ \A t \in Serials : t # s => WithRecord(w, s, record).records[t] = w.records[t]
<1>1. [w.records EXCEPT ![s] = record] \in [Serials -> Records \cup {None}]
  BY DEF Worlds
<1>2. w.records \in [Serials -> Records \cup {None}]
  BY DEF Worlds
<1>3. /\ WithRecord(w, s, record) \in Worlds
      /\ WithRecord(w, s, record).tokens = w.tokens
      /\ WithRecord(w, s, record).componentsAddress = w.componentsAddress
      /\ WithRecord(w, s, record).records = [w.records EXCEPT ![s] = record]
  BY <1>1 DEF Worlds, WithRecord
<1> QED
  BY <1>2, <1>3

\* What WithDelegation changes.
LEMMA DelegationWritten ==
  ASSUME NEW w \in Worlds, NEW s \in Serials, NEW a \in Accounts,
         NEW delegation \in Delegations \cup {None}
  PROVE  /\ WithDelegation(w, s, a, delegation) \in Worlds
         /\ WithDelegation(w, s, a, delegation).tokens = w.tokens
         /\ WithDelegation(w, s, a, delegation).records = w.records
         /\ WithDelegation(w, s, a, delegation).componentsAddress = w.componentsAddress
<1>1. [w.delegations EXCEPT ![s][a] = delegation]
        \in [Serials -> [Accounts -> Delegations \cup {None}]]
  BY DEF Worlds
<1>2. WithDelegation(w, s, a, delegation)
        = [w EXCEPT !.delegations = [w.delegations EXCEPT ![s][a] = delegation]]
  BY DEF WithDelegation, Worlds
<1> QED
  BY <1>1, <1>2 DEF Worlds

-----------------------------------------------------------------------------
(* Sound worlds stay sound                                                  *)

Grows(w, v) == \A c \in Collections, s \in Serials : HasToken(w, c, s) => HasToken(v, c, s)

\* Writing a token makes no record lose its own.
LEMMA TokenKeepsSound ==
  ASSUME NEW w \in Worlds, SoundWorld(w),
         NEW c \in Collections, NEW s \in Serials, NEW token \in Tokens
  PROVE  /\ SoundWorld(WithToken(w, c, s, token))
         /\ Grows(w, WithToken(w, c, s, token))
         /\ HasToken(WithToken(w, c, s, token), c, s)
<1> DEFINE v == WithToken(w, c, s, token)
<1>1. /\ v.records = w.records /\ v.tokens[c][s] = token
      /\ \A d \in Collections, t \in Serials : d # c \/ t # s => v.tokens[d][t] = w.tokens[d][t]
  BY TokenWritten
<1>2. token # None
  BY NoneAssumption
<1>3. \A t \in Serials : w.records[t] # None => w.records[t].collection \in Collections
  BY DEF Worlds, Records
<1> HIDE DEF v
<1>4. Grows(w, v) /\ HasToken(v, c, s)
  BY <1>1, <1>2 DEF Grows, HasToken
<1>5. SoundWorld(v)
  BY <1>1, <1>3, <1>4 DEF SoundWorld, SoundRecord, Grows
<1> QED
  BY <1>4, <1>5 DEF v

\* Writing a record that has its token, and a report only if missing, is sound.
LEMMA RecordKeepsSound ==
  ASSUME NEW w \in Worlds, SoundWorld(w), NEW s \in Serials, NEW record \in Records,
         HasToken(w, record.collection, s), record.report # None <=> record.status = "Missing"
  PROVE  /\ SoundWorld(WithRecord(w, s, record))
         /\ Grows(w, WithRecord(w, s, record))
<1> DEFINE v == WithRecord(w, s, record)
<1>1. /\ v.tokens = w.tokens /\ v.records[s] = record
      /\ \A t \in Serials : t # s => v.records[t] = w.records[t]
  BY RecordWritten
<1> HIDE DEF v
<1>2. SoundWorld(v) /\ Grows(w, v)
  BY <1>1 DEF SoundWorld, SoundRecord, HasToken, Grows
<1> QED
  BY <1>2 DEF v

\* A world with the same records and tokens is as sound.
LEMMA SameTokensKeepsSound ==
  ASSUME NEW w, NEW v, SoundWorld(w), v.records = w.records, v.tokens = w.tokens
  PROVE  SoundWorld(v) /\ Grows(w, v)
BY DEF SoundWorld, SoundRecord, HasToken, Grows

\* A step that starts and ends no registration.
LEMMA FramesStay ==
  ASSUME IInv, frames' = frames, world' \in Worlds, now' \in 0..MaxTime,
         SoundWorld(world'), Grows(world, world')
  PROVE  IInv'
<1>1. TypeOK'
  BY DEF IInv, TypeOK
<1>2. SoundWorld(world)'
  BY DEF SoundWorld, SoundRecord, HasToken
<1>3. \A i \in 1..Len(frames) : frames[i].collection \in Collections /\ frames[i].serial \in Serials
  <2>1. \A i \in 1..Len(frames) : frames[i] \in Frames
    BY SMTT(30) DEF IInv, TypeOK
  <2> QED
    BY <2>1 DEF Frames
<1>4. SoundFrames'
  BY <1>3 DEF IInv, SoundFrames, SoundWorld, SoundRecord, Waits, Grows, HasToken
<1> QED
  BY <1>1, <1>2, <1>4 DEF IInv

\* A step of governance to a sound world.
LEMMA GovernsKeepsSound ==
  ASSUME IInv, NEW w \in Worlds, SoundWorld(w), Grows(world, w), Governs(w),
         w.governance = world.governance
  PROVE  IInv'
<1>1. /\ world' = [w EXCEPT !.governance = @ + 1]
      /\ frames' = frames /\ now' = now /\ world.governance < MaxGovernance
  BY DEF Governs, Changes
<1>2. world'.records = w.records /\ world'.tokens = w.tokens
  BY <1>1 DEF Worlds
<1>3. SoundWorld(world') /\ Grows(w, world')
  BY <1>2, SameTokensKeepsSound
<1>4. Grows(world, world')
  BY <1>3 DEF Grows
<1>5. world' \in Worlds
  <2>1. w.governance + 1 \in 0..MaxGovernance
    BY <1>1, RegistryAssumption DEF Worlds
  <2> QED
    BY <1>1, <2>1 DEF Worlds
<1> QED
  BY <1>1, <1>3, <1>4, <1>5, FramesStay DEF IInv, TypeOK

-----------------------------------------------------------------------------
(* Every step                                                               *)

\* The registry is deployed sound.
LEMMA InitSound == Init => IInv
<1> SUFFICES ASSUME Init PROVE IInv
  OBVIOUS
<1> USE RegistryAssumption
<1>1. PICK c \in Collections :
       world = [componentsAddress |-> c, maxDuration |-> MaxDuration, paused |-> FALSE,
                registrars |-> {}, records |-> [s \in Serials |-> None],
                delegations |-> [s \in Serials |-> [a \in Accounts |-> None]],
                tokens |-> [d \in Collections |-> [s \in Serials |-> None]],
                tokenPaused |-> [d \in Collections |-> FALSE],
                managerRoles |-> [d \in Collections |-> TokenRoles],
                governance |-> 0]
  BY DEF Init
<1>2. world \in Worlds
  <2>1. /\ [s \in Serials |-> None] \in [Serials -> Records \cup {None}]
        /\ [s \in Serials |-> [a \in Accounts |-> None]] \in [Serials -> [Accounts -> Delegations \cup {None}]]
        /\ [d \in Collections |-> [s \in Serials |-> None]] \in [Collections -> [Serials -> Tokens \cup {None}]]
        /\ [d \in Collections |-> FALSE] \in [Collections -> BOOLEAN]
        /\ [d \in Collections |-> TokenRoles] \in [Collections -> SUBSET TokenRoles]
    OBVIOUS
  <2> QED
    BY <1>1, <2>1 DEF Worlds
<1>3. TypeOK /\ SoundFrames
  BY <1>2 DEF Init, TypeOK, SoundFrames
<1>4. SoundWorld(world)
  BY <1>1 DEF SoundWorld, SoundRecord
<1> QED
  BY <1>3, <1>4 DEF IInv

\* A registration starts: its token is there in every world that matters.
LEMMA RegisterKeepsSound ==
  ASSUME IInv, NEW actor \in Accounts, NEW owner \in Accounts, NEW s \in Serials, NEW uri \in URIs,
         RegisterComponent(actor, owner, s, uri)
  PROVE  IInv'
<1> DEFINE c == world.componentsAddress
<1>1. PICK f : f = [collection |-> c, serial |-> s, owner |-> owner, registrar |-> actor,
                    uri |-> uri, saved |-> world]
  OBVIOUS
<1>2. /\ world \in Worlds /\ frames \in Seq(Frames) /\ c \in Collections
      /\ [owner |-> owner, uri |-> None] \in Tokens
  BY DEF IInv, TypeOK, Worlds, Tokens
<1>3. /\ world' = WithToken(world, c, s, [owner |-> owner, uri |-> None])
      /\ frames' = <<f>> \o frames /\ now' = now
  BY <1>1 DEF RegisterComponent, MayRegister, EnterMint, MayMint
<1>4. f \in Frames /\ f.collection = c /\ f.serial = s /\ f.saved = world
  BY <1>1, <1>2 DEF Frames
<1> HIDE DEF c
<1>5. world' \in Worlds /\ SoundWorld(world') /\ Grows(world, world') /\ HasToken(world', c, s)
  BY <1>2, <1>3, TokenWritten, TokenKeepsSound DEF IInv
<1>6. /\ frames' \in Seq(Frames) /\ Len(frames') = Len(frames) + 1 /\ Len(frames) \in Nat
      /\ frames'[1] = f
      /\ \A i \in 2..(Len(frames) + 1) : frames'[i] = frames[i - 1]
  BY <1>2, <1>3, <1>4, Push
<1>7. TypeOK'
  BY <1>3, <1>5, <1>6 DEF IInv, TypeOK
<1>8. ASSUME NEW i \in 1..Len(frames')
      PROVE  /\ SoundWorld(frames'[i].saved)
             /\ Waits(world', frames'[i])
             /\ \A j \in 1..(i - 1) : Waits(frames'[j].saved, frames'[i])
  <2>1. CASE i = 1
    BY <1>4, <1>5, <1>6, <2>1 DEF IInv, Waits
  <2>2. CASE i # 1
    <3>1. i - 1 \in 1..Len(frames) /\ frames'[i] = frames[i - 1]
      BY <1>6, <2>2
    <3>2. /\ SoundWorld(frames[i - 1].saved) /\ Waits(world, frames[i - 1])
          /\ \A j \in 1..(i - 2) : Waits(frames[j].saved, frames[i - 1])
      BY <3>1 DEF IInv, SoundFrames
    <3>3. frames[i - 1].collection \in Collections /\ frames[i - 1].serial \in Serials
      <4>1. frames[i - 1] \in Frames
        BY <1>2, <3>1
      <4> QED
        BY <4>1 DEF Frames
    <3>4. Waits(world', frames'[i])
      BY <1>5, <3>1, <3>2, <3>3 DEF Waits, Grows
    <3>5. ASSUME NEW j \in 1..(i - 1) PROVE Waits(frames'[j].saved, frames'[i])
      <4>1. CASE j = 1
        BY <1>4, <1>6, <3>1, <3>2, <4>1
      <4>2. CASE j # 1
        <5>1. j - 1 \in 1..(i - 2) /\ frames'[j] = frames[j - 1]
          BY <1>6, <4>2
        <5> QED
          BY SMTT(30), <3>1, <3>2, <5>1
      <4> QED
        BY <4>1, <4>2
    <3> QED
      BY <3>1, <3>2, <3>4, <3>5
  <2> QED
    BY <2>1, <2>2
<1>9. SoundFrames'
  BY <1>8 DEF SoundFrames, SoundWorld, SoundRecord, Waits, HasToken
<1>10. SoundWorld(world)'
  BY <1>5 DEF SoundWorld, SoundRecord, HasToken
<1> QED
  BY <1>7, <1>9, <1>10 DEF IInv

\* A registration ends in a sound world that still has the outer tokens.
LEMMA PopKeepsSound ==
  ASSUME IInv, frames # <<>>, frames' = Tail(frames), now' = now,
         world' \in Worlds, SoundWorld(world'),
         \A i \in 2..Len(frames) : Waits(world', frames[i])
  PROVE  IInv'
<1>1. /\ frames' \in Seq(Frames) /\ Len(frames') = Len(frames) - 1 /\ Len(frames) \in Nat \ {0}
      /\ \A i \in 1..(Len(frames) - 1) : frames'[i] = frames[i + 1]
  BY Pop DEF IInv, TypeOK
<1>2. TypeOK'
  BY <1>1 DEF IInv, TypeOK
<1>3. ASSUME NEW i \in 1..Len(frames')
      PROVE  /\ SoundWorld(frames'[i].saved)
             /\ Waits(world', frames'[i])
             /\ \A j \in 1..(i - 1) : Waits(frames'[j].saved, frames'[i])
  <2>1. i + 1 \in 2..Len(frames) /\ frames'[i] = frames[i + 1]
    BY <1>1
  <2>2. /\ SoundWorld(frames[i + 1].saved)
        /\ \A j \in 1..i : Waits(frames[j].saved, frames[i + 1])
    BY <1>1, <2>1 DEF IInv, SoundFrames
  <2>3. ASSUME NEW j \in 1..(i - 1) PROVE Waits(frames'[j].saved, frames'[i])
    <3>1. frames'[j] = frames[j + 1] /\ j + 1 \in 1..i
      BY SMTT(30), <1>1
    <3> QED
      BY <2>1, <2>2, <3>1
  <2> QED
    BY <2>1, <2>2, <2>3
<1>4. SoundFrames'
  BY <1>3 DEF SoundFrames, SoundWorld, SoundRecord, Waits, HasToken
<1>5. SoundWorld(world)'
  BY DEF SoundWorld, SoundRecord, HasToken
<1> QED
  BY <1>2, <1>4, <1>5 DEF IInv

\* The new owner accepts: the record that is written names a token.
LEMMA AcceptKeepsSound ==
  ASSUME IInv, OwnerAccepts
  PROVE  IInv'
<1>1. PICK f : f = Head(frames)
  OBVIOUS
<1>2. /\ frames # <<>> /\ frames' = Tail(frames) /\ now' = now
      /\ f \in Frames /\ f = frames[1] /\ 1 \in 1..Len(frames)
  BY <1>1, Pop DEF OwnerAccepts, IInv, TypeOK
<1>3. /\ f.collection \in Collections /\ f.serial \in Serials /\ f.uri \in URIs
      /\ f.registrar \in Accounts
  BY <1>2 DEF Frames
<1>4. Waits(world, f)
  BY <1>2 DEF IInv, SoundFrames
<1> DEFINE token == [world.tokens[f.collection][f.serial] EXCEPT !.uri = f.uri]
           v == WithToken(world, f.collection, f.serial, token)
<1>5. world' = WithRecord(v, f.serial, NewRecord(f))
  BY <1>1 DEF OwnerAccepts
<1>6. token \in Tokens
  <2>1. world.tokens[f.collection][f.serial] \in Tokens
    BY <1>3, <1>4 DEF IInv, TypeOK, Worlds, Waits, HasToken
  <2> QED
    BY <1>3, <2>1 DEF Tokens
<1> HIDE DEF token
<1>7. v \in Worlds /\ SoundWorld(v) /\ Grows(world, v)
  BY <1>3, <1>6, TokenWritten, TokenKeepsSound DEF IInv, TypeOK
<1> HIDE DEF v
<1>8. /\ NewRecord(f) \in Records /\ NewRecord(f).collection = f.collection
      /\ NewRecord(f).report = None /\ NewRecord(f).status = "Active"
  BY <1>3 DEF NewRecord, Records
<1>9. HasToken(v, f.collection, f.serial)
  BY <1>3, <1>4, <1>7 DEF Waits, Grows
<1>10. world' \in Worlds /\ SoundWorld(world') /\ Grows(v, world')
  BY <1>3, <1>5, <1>7, <1>8, <1>9, RecordWritten, RecordKeepsSound
<1>11. ASSUME NEW i \in 2..Len(frames) PROVE Waits(world', frames[i])
  <2>1. Waits(world, frames[i])
    BY DEF IInv, SoundFrames
  <2>2. frames[i] \in Frames
    BY DEF IInv, TypeOK
  <2> QED
    BY <1>7, <1>10, <2>1, <2>2 DEF Waits, Grows, Frames
<1> QED
  BY <1>2, <1>10, <1>11, PopKeepsSound

\* The new owner rejects: the world that is restored has the outer tokens.
LEMMA RejectKeepsSound ==
  ASSUME IInv, OwnerRejects
  PROVE  IInv'
<1>1. /\ frames # <<>> /\ frames' = Tail(frames) /\ now' = now
      /\ frames[1] \in Frames /\ 1 \in 1..Len(frames) /\ world' = frames[1].saved
  BY Pop DEF OwnerRejects, IInv, TypeOK
<1>2. world' \in Worlds /\ SoundWorld(world')
  BY <1>1 DEF IInv, SoundFrames, Frames
<1>3. \A i \in 2..Len(frames) : Waits(world', frames[i])
  BY SMTT(30), <1>1 DEF IInv, SoundFrames
<1> QED
  BY <1>1, <1>2, <1>3, PopKeepsSound

\* An owner or a delegate writes the metadata.
LEMMA MetadataKeepsSound ==
  ASSUME IInv, NEW actor \in Accounts, NEW s \in Serials, NEW uri \in URIs,
         SetComponentMetadata(actor, s, uri)
  PROVE  IInv'
<1> DEFINE c == world.records[s].collection
           token == [world.tokens[c][s] EXCEPT !.uri = uri]
<1>1. /\ c \in Collections /\ world.tokens[c][s] \in Tokens
      /\ world' = WithToken(world, c, s, token) /\ frames' = frames /\ now' = now
      /\ world \in Worlds
  BY SMTT(30) DEF SetComponentMetadata, MaySetMetadata, Acts, Registered, Changes, IInv, TypeOK, Worlds, Records
<1>2. token \in Tokens
  BY <1>1 DEF Tokens
<1> QED
  BY <1>1, <1>2, TokenWritten, TokenKeepsSound, FramesStay DEF IInv, TypeOK

\* An owner or a delegate moves the record to a status with its report.
LEMMA StatusKeepsSound ==
  ASSUME IInv, NEW s \in Serials, Registered(s), NEW record \in Records,
         record.collection = world.records[s].collection,
         record.report # None <=> record.status = "Missing",
         Changes(WithRecord(world, s, record))
  PROVE  IInv'
<1>1. world \in Worlds /\ HasToken(world, record.collection, s)
  BY DEF IInv, TypeOK, SoundWorld, SoundRecord, Registered
<1>2. world' = WithRecord(world, s, record) /\ frames' = frames /\ now' = now
  BY DEF Changes
<1> QED
  BY <1>1, <1>2, RecordWritten, RecordKeepsSound, FramesStay DEF IInv, TypeOK

\* An owner grants or revokes a delegation.
LEMMA DelegationKeepsSound ==
  ASSUME IInv, NEW s \in Serials, NEW a \in Accounts, NEW delegation \in Delegations \cup {None},
         Changes(WithDelegation(world, s, a, delegation))
  PROVE  IInv'
<1>1. /\ world \in Worlds /\ SoundWorld(world)
      /\ world' = WithDelegation(world, s, a, delegation) /\ frames' = frames /\ now' = now
  BY DEF Changes, IInv, TypeOK
<1>2. world' \in Worlds /\ world'.records = world.records /\ world'.tokens = world.tokens
  BY <1>1, DelegationWritten
<1> QED
  BY <1>1, <1>2, SameTokensKeepsSound, FramesStay DEF IInv, TypeOK

\* Governance changes neither a record nor a token.
LEMMA ConfigKeepsSound ==
  ASSUME IInv, NEW w \in Worlds, Governs(w), w.records = world.records,
         w.tokens = world.tokens, w.governance = world.governance
  PROVE  IInv'
BY SameTokensKeepsSound, GovernsKeepsSound DEF IInv

LEMMA StepKeepsSound == IInv /\ [Next]_vars => IInv'
<1> SUFFICES ASSUME IInv, [Next]_vars PROVE IInv'
  OBVIOUS
<1> USE RegistryAssumption
<1>0. /\ world \in Worlds /\ now \in 0..MaxTime /\ SoundWorld(world) /\ Grows(world, world)
      /\ \A s \in Serials : Registered(s) => world.records[s] \in Records
  BY DEF IInv, TypeOK, Worlds, Grows, Registered
<1>1. ASSUME NEW actor \in Accounts, NEW owner \in Accounts, NEW s \in Serials, NEW uri \in URIs,
             RegisterComponent(actor, owner, s, uri)
      PROVE  IInv'
  BY <1>1, RegisterKeepsSound
<1>2. CASE OwnerAccepts
  BY <1>2, AcceptKeepsSound
<1>3. CASE OwnerRejects
  BY <1>3, RejectKeepsSound
<1>4. ASSUME NEW actor \in Accounts, NEW s \in Serials, NEW uri \in URIs,
             SetComponentMetadata(actor, s, uri)
      PROVE  IInv'
  BY <1>4, MetadataKeepsSound
<1>5. ASSUME NEW actor \in Accounts, NEW s \in Serials, NEW report \in Reports,
             MarkComponentMissing(actor, s, report)
      PROVE  IInv'
  <2> DEFINE record == [world.records[s] EXCEPT !.report = report, !.status = "Missing"]
  <2>1. Registered(s) /\ Changes(WithRecord(world, s, record))
    BY <1>5 DEF MarkComponentMissing, MayMarkMissing, Acts
  <2>2. /\ record \in Records /\ record.collection = world.records[s].collection
        /\ record.report = report /\ record.status = "Missing"
    BY <1>0, <2>1 DEF Records
  <2> QED
    BY <2>1, <2>2, StatusKeepsSound
<1>6. ASSUME NEW actor \in Accounts, NEW s \in Serials, ClearComponentMissing(actor, s)
      PROVE  IInv'
  <2> DEFINE record == [world.records[s] EXCEPT !.report = None, !.status = "Active"]
  <2>1. Registered(s) /\ Changes(WithRecord(world, s, record))
    BY <1>6 DEF ClearComponentMissing, MayClearMissing, Acts
  <2>2. /\ record \in Records /\ record.collection = world.records[s].collection
        /\ record.report = None /\ record.status = "Active"
    BY <1>0, <2>1 DEF Records
  <2> QED
    BY <2>1, <2>2, StatusKeepsSound
<1>7. ASSUME NEW actor \in Accounts, NEW s \in Serials, RetireComponent(actor, s)
      PROVE  IInv'
  <2> DEFINE record == [world.records[s] EXCEPT !.status = "Retired"]
  <2>1. Registered(s) /\ world.records[s].status = "Active" /\ Changes(WithRecord(world, s, record))
    BY <1>7 DEF RetireComponent, MayRetire, Acts, StatusOf
  <2>2. world.records[s].report = None
    BY <1>0, <2>1 DEF SoundWorld, SoundRecord, Registered
  <2>3. /\ record \in Records /\ record.collection = world.records[s].collection
        /\ record.report = None /\ record.status = "Retired"
    BY <1>0, <2>1, <2>2 DEF Records
  <2> QED
    BY <2>1, <2>3, StatusKeepsSound
<1>8. ASSUME NEW actor \in Accounts, NEW s \in Serials, NEW delegate \in Accounts,
             NEW capabilities \in Grants, NEW validUntil \in Times,
             SetComponentDelegate(actor, s, delegate, capabilities, validUntil)
      PROVE  IInv'
  BY <1>8, DelegationKeepsSound DEF SetComponentDelegate, Delegations
<1>9. ASSUME NEW actor \in Accounts, NEW s \in Serials, NEW delegate \in Accounts,
             RevokeComponentDelegate(actor, s, delegate)
      PROVE  IInv'
  BY <1>9, DelegationKeepsSound DEF RevokeComponentDelegate
<1>10. ASSUME NEW c \in Collections, NEW s \in Serials, NEW to \in Accounts, Transfer(c, s, to)
       PROVE  IInv'
  <2> DEFINE token == [world.tokens[c][s] EXCEPT !.owner = to]
  <2>1. world' = WithToken(world, c, s, token) /\ frames' = frames /\ now' = now
    BY <1>10 DEF Transfer, Changes
  <2>2. token \in Tokens
    <3>1. world.tokens[c][s] \in Tokens
      BY <1>0, <1>10 DEF Transfer, Worlds
    <3> QED
      BY <3>1 DEF Tokens
  <2> QED
    BY <1>0, <2>1, <2>2, TokenWritten, TokenKeepsSound, FramesStay
<1>11. ASSUME NEW c \in Collections, NEW to \in Accounts, NEW s \in Serials, NEW uri \in URIs,
              Mint(c, to, s, uri)
       PROVE  IInv'
  <2> DEFINE token == [owner |-> to, uri |-> uri]
  <2>1. token \in Tokens /\ Governs(WithToken(world, c, s, token))
    BY <1>11 DEF Mint, Tokens
  <2>2. WithToken(world, c, s, token).governance = world.governance
    BY <1>0 DEF WithToken, Worlds
  <2> QED
    BY <1>0, <2>1, <2>2, TokenWritten, TokenKeepsSound, GovernsKeepsSound
<1>12. ASSUME NEW c \in Collections, PauseToken(c) \/ UnpauseToken(c) \/ SetComponentsAddress(c)
       PROVE  IInv'
  BY <1>0, <1>12, ConfigKeepsSound DEF PauseToken, UnpauseToken, SetComponentsAddress, Worlds
<1>13. ASSUME NEW c \in Collections, NEW role \in TokenRoles,
              GrantManagerRole(c, role) \/ RevokeManagerRole(c, role)
       PROVE  IInv'
  <2>1. PICK roles \in SUBSET TokenRoles : Governs([world EXCEPT !.managerRoles[c] = roles])
    <3>1. world.managerRoles[c] \in SUBSET TokenRoles
      BY <1>0 DEF Worlds
    <3>2. CASE GrantManagerRole(c, role)
      BY <3>1, <3>2 DEF GrantManagerRole
    <3>3. CASE RevokeManagerRole(c, role)
      BY <3>1, <3>3 DEF RevokeManagerRole
    <3> QED
      BY <1>13, <3>2, <3>3
  <2>2. [world EXCEPT !.managerRoles[c] = roles] \in Worlds
    BY <1>0 DEF Worlds
  <2> QED
    BY <1>0, <2>1, <2>2, ConfigKeepsSound DEF Worlds
<1>14. CASE Pause \/ Unpause
  BY <1>0, <1>14, ConfigKeepsSound DEF Pause, Unpause, Worlds
<1>15. ASSUME NEW actor \in Accounts, GrantRegistrar(actor) \/ RevokeRegistrar(actor)
       PROVE  IInv'
  <2>1. PICK registrars \in SUBSET Accounts : Governs([world EXCEPT !.registrars = registrars])
    <3>1. world.registrars \in SUBSET Accounts
      BY <1>0 DEF Worlds
    <3>2. CASE GrantRegistrar(actor)
      BY <3>1, <3>2 DEF GrantRegistrar
    <3>3. CASE RevokeRegistrar(actor)
      BY <3>1, <3>3 DEF RevokeRegistrar
    <3> QED
      BY <1>15, <3>2, <3>3
  <2>2. [world EXCEPT !.registrars = registrars] \in Worlds
    BY <1>0 DEF Worlds
  <2> QED
    BY <1>0, <2>1, <2>2, ConfigKeepsSound DEF Worlds
<1>16. ASSUME NEW duration \in 0..MaxDuration, SetMaxDelegationDuration(duration)
       PROVE  IInv'
  <2>1. duration \in 1..MaxDuration /\ Governs([world EXCEPT !.maxDuration = duration])
    BY <1>16 DEF SetMaxDelegationDuration
  <2>2. [world EXCEPT !.maxDuration = duration] \in Worlds
    BY <1>0, <2>1 DEF Worlds
  <2> QED
    BY <1>0, <2>1, <2>2, ConfigKeepsSound DEF Worlds
<1>17. CASE Tick
  BY <1>0, <1>17, FramesStay DEF Tick
<1>18. CASE UNCHANGED vars
  BY <1>0, <1>18, FramesStay DEF vars
<1> QED
  BY <1>1, <1>2, <1>3, <1>4, <1>5, <1>6, <1>7, <1>8, <1>9, <1>10, <1>11, <1>12, <1>13, <1>14,
     <1>15, <1>16, <1>17, <1>18 DEF Next

\* The inductive invariant holds in every reachable state.
THEOREM RegistryInvariant == Spec => []IInv
BY InitSound, StepKeepsSound, PTL DEF Spec

\* The registry's state has its type, however registrations nest.
THEOREM RegistryTypeOK == Spec => []TypeOK
<1>1. IInv => TypeOK
  BY DEF IInv
<1> QED
  BY <1>1, RegistryInvariant, PTL

\* Every record names a token that exists, also between the mint and the record.
THEOREM RegistryRecordsHaveTokens == Spec => []RecordsHaveTokens
<1>1. IInv => RecordsHaveTokens
  BY DEF IInv, SoundWorld, SoundRecord, HasToken, RecordsHaveTokens, Registered, TokenOf
<1> QED
  BY <1>1, RegistryInvariant, PTL

\* A report is open exactly while its component is missing.
THEOREM RegistryMissingHasReport == Spec => []MissingHasReport
<1>1. IInv => MissingHasReport
  BY DEF IInv, SoundWorld, SoundRecord, MissingHasReport, Registered
<1> QED
  BY <1>1, RegistryInvariant, PTL

-----------------------------------------------------------------------------
(* What no step may do to a record: a retired component stays as it is even   *)
(* if a callback reaches governance.  A record keeps its collection and       *)
(* registrar if no callback does.                                             *)

Retired(w, s) == w.records[s] # None /\ w.records[s].status = "Retired"

Kept(w, v, s) ==
  LET c == w.records[s].collection
  IN v.records[s] = w.records[s] /\ v.tokens[c][s].uri = w.tokens[c][s].uri

SameRecord(w, v, s) ==
  w.records[s] # None =>
    /\ v.records[s] # None
    /\ v.records[s].collection = w.records[s].collection
    /\ v.records[s].registrar = w.records[s].registrar

Preserves(w, v, s) ==
  /\ w.records[s] = None => v.records[s] = None
  /\ SameRecord(w, v, s)
  /\ Retired(w, s) => Kept(w, v, s)

-----------------------------------------------------------------------------
(* The steps that start and end no registration                             *)

\* A token that keeps its URI, or is new, or of no retired component, is written.
LEMMA TokenPreserves ==
  ASSUME NEW w \in Worlds, SoundWorld(w), NEW c \in Collections, NEW t \in Serials,
         NEW token \in Tokens, NEW s \in Serials,
         \/ ~HasToken(w, c, t)
         \/ token.uri = w.tokens[c][t].uri
         \/ ~Retired(w, t)
  PROVE  Preserves(w, WithToken(w, c, t, token), s)
<1> DEFINE v == WithToken(w, c, t, token)
<1>1. /\ v.records = w.records /\ v.tokens[c][t] = token
      /\ \A d \in Collections, r \in Serials : d # c \/ r # t => v.tokens[d][r] = w.tokens[d][r]
  BY TokenWritten
<1>2. w.records[s] # None =>
        w.records[s].collection \in Collections /\ HasToken(w, w.records[s].collection, s)
  BY DEF Worlds, Records, SoundWorld, SoundRecord
<1> HIDE DEF v
<1>3. Retired(w, s) => Kept(w, v, s)
  BY <1>1, <1>2 DEF Retired, Kept
<1>4. Preserves(w, v, s)
  BY <1>1, <1>3 DEF Preserves, SameRecord
<1> QED
  BY <1>4 DEF v

\* A record that is not retired gets another status.
LEMMA RecordPreserves ==
  ASSUME NEW w \in Worlds, NEW t \in Serials, NEW record \in Records, NEW s \in Serials,
         w.records[t] # None, ~Retired(w, t),
         record.collection = w.records[t].collection,
         record.registrar = w.records[t].registrar
  PROVE  Preserves(w, WithRecord(w, t, record), s)
<1> DEFINE v == WithRecord(w, t, record)
<1>1. /\ v.tokens = w.tokens /\ v.records[t] = record
      /\ \A r \in Serials : r # t => v.records[r] = w.records[r]
  BY RecordWritten
<1> HIDE DEF v
<1>2. Preserves(w, v, s)
  BY <1>1, NoneAssumption DEF Preserves, SameRecord, Retired, Kept
<1> QED
  BY <1>2 DEF v

\* A world with the same records and tokens.
LEMMA SamePreserves ==
  ASSUME NEW w, NEW v, NEW s, v.records = w.records, v.tokens = w.tokens
  PROVE  Preserves(w, v, s)
BY DEF Preserves, SameRecord, Kept

\* A step of governance: the records and the tokens are those of its argument.
LEMMA GovernsWrites ==
  ASSUME NEW w \in Worlds, Governs(w)
  PROVE  /\ world'.records = w.records /\ world'.tokens = w.tokens
         /\ frames' = frames
         /\ frames = <<>> \/ GovernanceIsReachable
BY DEF Governs, Changes, GovernanceCalls, OwnerRuns, Worlds

\* What holds of a step outside a registration.
Outside(s) ==
  /\ frames' = frames
  /\ Preserves(world, world', s)
  /\ \/ frames = <<>> \/ GovernanceIsReachable
     \/ world'.componentsAddress = world.componentsAddress

\* The steps of governance that change neither a record nor a token.
LEMMA ConfigOutside ==
  ASSUME NEW s, NEW w \in Worlds, Governs(w), w.records = world.records, w.tokens = world.tokens
  PROVE  Outside(s)
BY GovernsWrites, SamePreserves DEF Outside

Registration ==
  \/ \E actor \in Accounts, owner \in Accounts, s \in Serials, uri \in URIs :
       RegisterComponent(actor, owner, s, uri)
  \/ OwnerAccepts
  \/ OwnerRejects

\* A step outside a registration keeps every record's collection and registrar,
\* and every retired component as it is.
LEMMA OutsideStep ==
  ASSUME IInv, [Next]_vars, ~Registration, NEW r \in Serials
  PROVE  Outside(r)
<1> USE RegistryAssumption
<1>0. /\ world \in Worlds /\ SoundWorld(world)
      /\ \A s \in Serials : Registered(s) => world.records[s] \in Records
  BY DEF IInv, TypeOK, Worlds, Registered
<1>1. ASSUME NEW actor \in Accounts, NEW s \in Serials, NEW uri \in URIs,
             SetComponentMetadata(actor, s, uri)
      PROVE  Outside(r)
  <2> DEFINE c == world.records[s].collection
             token == [world.tokens[c][s] EXCEPT !.uri = uri]
  <2>1. /\ c \in Collections /\ world.tokens[c][s] \in Tokens /\ ~Retired(world, s)
        /\ world' = WithToken(world, c, s, token) /\ frames' = frames
    BY SMTT(30), <1>0, <1>1
      DEF SetComponentMetadata, MaySetMetadata, Acts, Registered, StatusOf, Changes, Worlds, Records, Retired
  <2>2. token \in Tokens
    BY <2>1 DEF Tokens
  <2> HIDE DEF c, token
  <2> QED
    BY <1>0, <2>1, <2>2, TokenWritten, TokenPreserves DEF Outside
<1>2. ASSUME NEW s \in Serials, NEW record \in Records, Registered(s), ~Retired(world, s),
             record.collection = world.records[s].collection,
             record.registrar = world.records[s].registrar,
             Changes(WithRecord(world, s, record))
      PROVE  Outside(r)
  <2>1. world.records[s] # None
    BY <1>2 DEF Registered
  <2>2. world' = WithRecord(world, s, record) /\ frames' = frames
    BY <1>2 DEF Changes
  <2> QED
    BY <1>0, <1>2, <2>1, <2>2, RecordWritten, RecordPreserves DEF Outside
<1>3. ASSUME NEW actor \in Accounts, NEW s \in Serials, NEW report \in Reports,
             MarkComponentMissing(actor, s, report)
      PROVE  Outside(r)
  <2>1. Registered(s) /\ ~Retired(world, s)
        /\ Changes(WithRecord(world, s, [world.records[s] EXCEPT !.report = report, !.status = "Missing"]))
    BY <1>3 DEF MarkComponentMissing, MayMarkMissing, Acts, StatusOf, Retired
  <2> QED
    BY <1>0, <1>2, <2>1 DEF Records
<1>4. ASSUME NEW actor \in Accounts, NEW s \in Serials, ClearComponentMissing(actor, s)
      PROVE  Outside(r)
  <2>1. Registered(s) /\ ~Retired(world, s)
        /\ Changes(WithRecord(world, s, [world.records[s] EXCEPT !.report = None, !.status = "Active"]))
    BY <1>4 DEF ClearComponentMissing, MayClearMissing, Acts, StatusOf, Retired
  <2> QED
    BY <1>0, <1>2, <2>1 DEF Records
<1>5. ASSUME NEW actor \in Accounts, NEW s \in Serials, RetireComponent(actor, s)
      PROVE  Outside(r)
  <2>1. Registered(s) /\ ~Retired(world, s)
        /\ Changes(WithRecord(world, s, [world.records[s] EXCEPT !.status = "Retired"]))
    BY <1>5 DEF RetireComponent, MayRetire, Acts, StatusOf, Retired
  <2> QED
    BY <1>0, <1>2, <2>1 DEF Records
<1>6. ASSUME NEW s \in Serials, NEW a \in Accounts, NEW delegation \in Delegations \cup {None},
             Changes(WithDelegation(world, s, a, delegation))
      PROVE  Outside(r)
  <2>1. world' = WithDelegation(world, s, a, delegation) /\ frames' = frames
    BY <1>6 DEF Changes
  <2> QED
    BY <1>0, <1>6, <2>1, DelegationWritten, SamePreserves DEF Outside
<1>7. ASSUME NEW actor \in Accounts, NEW s \in Serials, NEW delegate \in Accounts,
             NEW capabilities \in Grants, NEW validUntil \in Times,
             SetComponentDelegate(actor, s, delegate, capabilities, validUntil)
      PROVE  Outside(r)
  BY <1>6, <1>7 DEF SetComponentDelegate, Delegations
<1>8. ASSUME NEW actor \in Accounts, NEW s \in Serials, NEW delegate \in Accounts,
             RevokeComponentDelegate(actor, s, delegate)
      PROVE  Outside(r)
  BY <1>6, <1>8 DEF RevokeComponentDelegate
<1>9. ASSUME NEW c \in Collections, NEW s \in Serials, NEW to \in Accounts, Transfer(c, s, to)
      PROVE  Outside(r)
  <2> DEFINE token == [world.tokens[c][s] EXCEPT !.owner = to]
  <2>1. world' = WithToken(world, c, s, token) /\ frames' = frames
    BY <1>9 DEF Transfer, Changes
  <2>2. token \in Tokens /\ token.uri = world.tokens[c][s].uri
    <3>1. world.tokens[c][s] \in Tokens
      BY <1>0, <1>9 DEF Transfer, Worlds
    <3> QED
      BY <3>1 DEF Tokens
  <2> HIDE DEF token
  <2> QED
    BY <1>0, <2>1, <2>2, TokenWritten, TokenPreserves DEF Outside
<1>10. ASSUME NEW c \in Collections, NEW to \in Accounts, NEW s \in Serials, NEW uri \in URIs,
              Mint(c, to, s, uri)
       PROVE  Outside(r)
  <2> DEFINE token == [owner |-> to, uri |-> uri]
             v == WithToken(world, c, s, token)
  <2>1. token \in Tokens /\ ~HasToken(world, c, s) /\ Governs(v)
    BY <1>10 DEF Mint, Tokens, HasToken
  <2>2. v \in Worlds
    BY <1>0, <2>1, TokenWritten
  <2>3. Preserves(world, v, r)
    BY <1>0, <2>1, TokenPreserves
  <2> HIDE DEF v, token
  <2>4. world'.records = v.records /\ world'.tokens = v.tokens
        /\ frames' = frames /\ (frames = <<>> \/ GovernanceIsReachable)
    BY <2>1, <2>2, GovernsWrites
  <2> QED
    BY <2>3, <2>4 DEF Outside, Preserves, SameRecord, Retired, Kept
<1>11. ASSUME NEW c \in Collections, PauseToken(c) \/ UnpauseToken(c) \/ SetComponentsAddress(c)
       PROVE  Outside(r)
  BY <1>0, <1>11, ConfigOutside DEF PauseToken, UnpauseToken, SetComponentsAddress, Worlds
<1>12. ASSUME NEW c \in Collections, NEW roles \in SUBSET TokenRoles,
              Governs([world EXCEPT !.managerRoles[c] = roles])
       PROVE  Outside(r)
  <2>1. [world EXCEPT !.managerRoles[c] = roles] \in Worlds
    BY <1>0 DEF Worlds
  <2> QED
    BY <1>0, <1>12, <2>1, ConfigOutside DEF Worlds
<1>13. ASSUME NEW c \in Collections, NEW role \in TokenRoles,
              GrantManagerRole(c, role) \/ RevokeManagerRole(c, role)
       PROVE  Outside(r)
  <2>1. world.managerRoles[c] \in SUBSET TokenRoles
    BY <1>0 DEF Worlds
  <2>2. CASE GrantManagerRole(c, role)
    BY <1>12, <2>1, <2>2 DEF GrantManagerRole
  <2>3. CASE RevokeManagerRole(c, role)
    BY <1>12, <2>1, <2>3 DEF RevokeManagerRole
  <2> QED
    BY <1>13, <2>2, <2>3
<1>14. CASE Pause \/ Unpause
  BY <1>0, <1>14, ConfigOutside DEF Pause, Unpause, Worlds
<1>15. ASSUME NEW actor \in Accounts, GrantRegistrar(actor) \/ RevokeRegistrar(actor)
       PROVE  Outside(r)
  <2>1. PICK registrars \in SUBSET Accounts : Governs([world EXCEPT !.registrars = registrars])
    <3>1. world.registrars \in SUBSET Accounts
      BY <1>0 DEF Worlds
    <3>2. CASE GrantRegistrar(actor)
      BY <3>1, <3>2 DEF GrantRegistrar
    <3>3. CASE RevokeRegistrar(actor)
      BY <3>1, <3>3 DEF RevokeRegistrar
    <3> QED
      BY <1>15, <3>2, <3>3
  <2>2. [world EXCEPT !.registrars = registrars] \in Worlds
    BY <1>0 DEF Worlds
  <2> QED
    BY <1>0, <2>1, <2>2, ConfigOutside DEF Worlds
<1>16. ASSUME NEW duration \in 0..MaxDuration, SetMaxDelegationDuration(duration)
       PROVE  Outside(r)
  <2>1. duration \in 1..MaxDuration /\ Governs([world EXCEPT !.maxDuration = duration])
    BY <1>16 DEF SetMaxDelegationDuration
  <2>2. [world EXCEPT !.maxDuration = duration] \in Worlds
    BY <1>0, <2>1 DEF Worlds
  <2> QED
    BY <1>0, <2>1, <2>2, ConfigOutside DEF Worlds
<1>17. CASE Tick
  BY <1>17, SamePreserves DEF Tick, Outside
<1>18. CASE UNCHANGED vars
  BY <1>18, SamePreserves DEF vars, Outside
<1> QED
  BY <1>1, <1>3, <1>4, <1>5, <1>7, <1>8, <1>9, <1>10, <1>11, <1>13, <1>14, <1>15, <1>16,
     <1>17, <1>18 DEF Next, Registration

\* Only a registration changes the stack.
LEMMA FramesAreKept ==
  ASSUME [Next]_vars, ~Registration
  PROVE  frames' = frames
BY DEF Next, Registration, vars, Changes, Governs, SetComponentMetadata, MarkComponentMissing,
       ClearComponentMissing, RetireComponent, SetComponentDelegate, RevokeComponentDelegate,
       Transfer, Mint, PauseToken, UnpauseToken, SetComponentsAddress, GrantManagerRole,
       RevokeManagerRole, Pause, Unpause, GrantRegistrar, RevokeRegistrar,
       SetMaxDelegationDuration, Tick

-----------------------------------------------------------------------------
(* The steps that start and end a registration                              *)

\* A registration starts: no record changes, and its serial has none.
LEMMA RegisterWrites ==
  ASSUME IInv, NEW actor \in Accounts, NEW owner \in Accounts, NEW s \in Serials, NEW uri \in URIs,
         RegisterComponent(actor, owner, s, uri)
  PROVE  /\ Len(frames') = Len(frames) + 1 /\ Len(frames) \in Nat
         /\ frames'[1].serial = s /\ frames'[1].saved = world
         /\ frames'[1].collection = world.componentsAddress
         /\ \A i \in 2..(Len(frames) + 1) : frames'[i] = frames[i - 1]
         /\ world.records[s] = None /\ ~HasToken(world, world.componentsAddress, s)
         /\ world'.records = world.records /\ world'.componentsAddress = world.componentsAddress
         /\ \A r \in Serials : Preserves(world, world', r)
<1> DEFINE c == world.componentsAddress
           token == [owner |-> owner, uri |-> None]
<1>1. PICK f : f = [collection |-> c, serial |-> s, owner |-> owner, registrar |-> actor,
                    uri |-> uri, saved |-> world]
  OBVIOUS
<1>2. world \in Worlds /\ frames \in Seq(Frames) /\ c \in Collections /\ token \in Tokens
  BY DEF IInv, TypeOK, Worlds, Tokens
<1>3. /\ world' = WithToken(world, c, s, token) /\ frames' = <<f>> \o frames
      /\ world.records[s] = None /\ ~HasToken(world, c, s)
  BY <1>1 DEF RegisterComponent, MayRegister, EnterMint, MayMint, Registered, HasToken
<1>4. f \in Frames
  BY <1>1, <1>2 DEF Frames
<1>5. f.serial = s /\ f.saved = world /\ f.collection = c
  BY <1>1
<1> HIDE DEF c, token
<1>6. /\ Len(frames') = Len(frames) + 1 /\ Len(frames) \in Nat /\ frames'[1] = f
      /\ \A i \in 2..(Len(frames) + 1) : frames'[i] = frames[i - 1]
  BY <1>2, <1>3, <1>4, Push
<1>7. /\ world'.records = world.records /\ world'.componentsAddress = world.componentsAddress
      /\ \A r \in Serials : Preserves(world, world', r)
  BY <1>2, <1>3, TokenWritten, TokenPreserves DEF IInv
<1> QED
  BY <1>3, <1>5, <1>6, <1>7 DEF c

\* The owner accepts: only the record and the token of the frame's serial change.
LEMMA AcceptWrites ==
  ASSUME IInv, OwnerAccepts
  PROVE  /\ frames # <<>> /\ frames' = Tail(frames)
         /\ world'.componentsAddress = world.componentsAddress
         /\ \A r \in Serials :
              r # frames[1].serial =>
                /\ world'.records[r] = world.records[r]
                /\ \A c \in Collections : world'.tokens[c][r] = world.tokens[c][r]
<1>1. PICK f : f = Head(frames)
  OBVIOUS
<1>2. /\ frames # <<>> /\ frames' = Tail(frames) /\ f \in Frames /\ f = frames[1]
      /\ 1 \in 1..Len(frames)
  BY <1>1, Pop DEF OwnerAccepts, IInv, TypeOK
<1>3. /\ f.collection \in Collections /\ f.serial \in Serials /\ f.uri \in URIs
      /\ f.registrar \in Accounts
  BY <1>2 DEF Frames
<1> DEFINE token == [world.tokens[f.collection][f.serial] EXCEPT !.uri = f.uri]
           v == WithToken(world, f.collection, f.serial, token)
<1>4. world' = WithRecord(v, f.serial, NewRecord(f))
  BY <1>1 DEF OwnerAccepts
<1>5. token \in Tokens
  <2>1. Waits(world, f)
    BY <1>2 DEF IInv, SoundFrames
  <2>2. world.tokens[f.collection][f.serial] \in Tokens
    BY <1>3, <2>1 DEF IInv, TypeOK, Worlds, Waits, HasToken
  <2> QED
    BY <1>3, <2>2 DEF Tokens
<1>6. NewRecord(f) \in Records
  BY <1>3 DEF NewRecord, Records
<1> HIDE DEF token
<1>7. /\ v \in Worlds /\ v.records = world.records
      /\ v.componentsAddress = world.componentsAddress
      /\ \A d \in Collections, r \in Serials : r # f.serial => v.tokens[d][r] = world.tokens[d][r]
  BY <1>3, <1>5, TokenWritten DEF IInv, TypeOK
<1> HIDE DEF v
<1>8. /\ world'.tokens = v.tokens /\ world'.componentsAddress = v.componentsAddress
      /\ \A r \in Serials : r # f.serial => world'.records[r] = v.records[r]
  BY <1>3, <1>4, <1>6, <1>7, RecordWritten
<1> QED
  BY <1>2, <1>7, <1>8

\* A registration ends.
LEMMA Pops ==
  ASSUME IInv, frames # <<>>, frames' = Tail(frames)
  PROVE  /\ Len(frames') = Len(frames) - 1 /\ Len(frames) \in Nat \ {0}
         /\ \A i \in 1..Len(frames') : frames'[i] = frames[i + 1]
         /\ \A i \in 1..Len(frames) :
              /\ frames[i].serial \in Serials /\ frames[i].collection \in Collections
              /\ frames[i].saved \in Worlds
<1>1. \A i \in 1..Len(frames) : frames[i] \in Frames
  BY DEF IInv, TypeOK
<1> QED
  BY <1>1, Pop DEF IInv, TypeOK, Frames

-----------------------------------------------------------------------------
(* Records keep their token                                                 *)

\* The collection is the one the registration mints into; its record is to be written.
Pending(w, f) == w.componentsAddress = f.collection /\ w.records[f.serial] = None

Exclusive ==
  \A i \in 1..Len(frames) :
    /\ Pending(world, frames[i])
    /\ \A j \in 1..(i - 1) :
         Pending(frames[j].saved, frames[i]) /\ frames[j].serial # frames[i].serial

\* If no callback reaches governance, all waiting registrations mint into one
\* collection, so no two of them have one serial.
LEMMA StepKeepsExclusive ==
  ASSUME GovernanceIsReachable = FALSE, IInv, Exclusive, [Next]_vars
  PROVE  Exclusive'
<1>0. \A i \in 1..Len(frames) :
        frames[i].serial \in Serials /\ frames[i].collection \in Collections
  <2>1. \A i \in 1..Len(frames) : frames[i] \in Frames
    BY DEF IInv, TypeOK
  <2> QED
    BY <2>1 DEF Frames
<1>1. CASE ~Registration
  <2>1. frames' = frames
    BY <1>1, FramesAreKept
  <2>2. ASSUME NEW i \in 1..Len(frames) PROVE Pending(world', frames[i])
    <3>1. Outside(frames[i].serial)
      BY <1>0, <1>1, OutsideStep
    <3>2. frames # <<>>
      BY <2>2 DEF IInv, TypeOK
    <3> QED
      BY <2>2, <3>1, <3>2 DEF Outside, Preserves, Exclusive, Pending
  <2> QED
    BY <2>1, <2>2 DEF Exclusive, Pending
<1>2. ASSUME NEW actor \in Accounts, NEW owner \in Accounts, NEW s \in Serials, NEW uri \in URIs,
             RegisterComponent(actor, owner, s, uri)
      PROVE  Exclusive'
  <2>1. /\ Len(frames') = Len(frames) + 1 /\ Len(frames) \in Nat
        /\ frames'[1].serial = s /\ frames'[1].saved = world
        /\ frames'[1].collection = world.componentsAddress
        /\ \A i \in 2..(Len(frames) + 1) : frames'[i] = frames[i - 1]
        /\ world.records[s] = None /\ ~HasToken(world, world.componentsAddress, s)
        /\ world'.records = world.records /\ world'.componentsAddress = world.componentsAddress
    BY <1>2, RegisterWrites
  <2>2. ASSUME NEW i \in 1..Len(frames')
        PROVE  /\ Pending(world', frames'[i])
               /\ \A j \in 1..(i - 1) :
                    Pending(frames'[j].saved, frames'[i]) /\ frames'[j].serial # frames'[i].serial
    <3>1. CASE i = 1
      BY <2>1, <3>1 DEF Pending
    <3>2. CASE i # 1
      <4>1. i - 1 \in 1..Len(frames) /\ frames'[i] = frames[i - 1]
        BY <2>1, <3>2
      <4>2. /\ Pending(world, frames[i - 1]) /\ Waits(world, frames[i - 1])
            /\ \A j \in 1..(i - 2) :
                 Pending(frames[j].saved, frames[i - 1]) /\ frames[j].serial # frames[i - 1].serial
        BY <4>1 DEF Exclusive, IInv, SoundFrames
      <4>3. frames[i - 1].serial # s
        BY <2>1, <4>2 DEF Pending, Waits
      <4>4. ASSUME NEW j \in 1..(i - 1)
            PROVE  Pending(frames'[j].saved, frames'[i]) /\ frames'[j].serial # frames'[i].serial
        <5>1. CASE j = 1
          BY <2>1, <4>1, <4>2, <4>3, <5>1
        <5>2. CASE j # 1
          <6>1. j - 1 \in 1..(i - 2) /\ frames'[j] = frames[j - 1]
            BY <2>1, <5>2
          <6> QED
            BY <4>1, <4>2, <6>1
        <5> QED
          BY <5>1, <5>2
      <4> QED
        BY <2>1, <4>1, <4>2, <4>4 DEF Pending
    <3> QED
      BY <3>1, <3>2
  <2> QED
    BY <2>2 DEF Exclusive, Pending
<1>3. ASSUME frames # <<>>, frames' = Tail(frames),
             \A i \in 2..Len(frames) : Pending(world', frames[i])
      PROVE  Exclusive'
  <2>1. /\ Len(frames') = Len(frames) - 1 /\ Len(frames) \in Nat \ {0}
        /\ \A i \in 1..Len(frames') : frames'[i] = frames[i + 1]
    BY <1>3, Pops
  <2>2. ASSUME NEW i \in 1..Len(frames')
        PROVE  /\ Pending(world', frames'[i])
               /\ \A j \in 1..(i - 1) :
                    Pending(frames'[j].saved, frames'[i]) /\ frames'[j].serial # frames'[i].serial
    <3>1. i + 1 \in 2..Len(frames) /\ frames'[i] = frames[i + 1]
      BY <2>1
    <3>2. \A j \in 1..i :
            Pending(frames[j].saved, frames[i + 1]) /\ frames[j].serial # frames[i + 1].serial
      BY <2>1, <3>1 DEF Exclusive
    <3>3. \A j \in 1..(i - 1) : frames'[j] = frames[j + 1] /\ j + 1 \in 1..i
      BY <2>1
    <3> QED
      BY <1>3, <3>1, <3>2, <3>3
  <2> QED
    BY <2>2 DEF Exclusive, Pending
<1>4. CASE OwnerAccepts
  <2>1. /\ frames # <<>> /\ frames' = Tail(frames)
        /\ world'.componentsAddress = world.componentsAddress
        /\ \A r \in Serials : r # frames[1].serial => world'.records[r] = world.records[r]
    BY <1>4, AcceptWrites
  <2>2. ASSUME NEW i \in 2..Len(frames) PROVE Pending(world', frames[i])
    BY <1>0, <2>1 DEF Exclusive, Pending
  <2> QED
    BY <1>3, <2>1, <2>2
<1>5. CASE OwnerRejects
  <2>1. frames # <<>> /\ frames' = Tail(frames) /\ world' = frames[1].saved
    BY <1>5, Pop DEF OwnerRejects, IInv, TypeOK
  <2>2. ASSUME NEW i \in 2..Len(frames) PROVE Pending(world', frames[i])
    BY <2>1 DEF Exclusive
  <2> QED
    BY <1>3, <2>1, <2>2
<1> QED
  BY <1>1, <1>2, <1>4, <1>5 DEF Registration

\* The configured collection is free to change between registrations and cannot
\* during one: every record keeps its collection and its registrar.
THEOREM RegistryRecordsKeepTheirToken ==
  ASSUME GovernanceIsReachable = FALSE
  PROVE  Spec => RecordsKeepTheirToken
<1>1. Init => Exclusive
  BY DEF Init, Exclusive
<1>2. IInv /\ Exclusive /\ [Next]_vars => Exclusive'
  BY StepKeepsExclusive
<1>3. ASSUME IInv, Exclusive, [Next]_vars, ~OwnerRejects, NEW s \in Serials, Registered(s)
      PROVE  /\ world'.records[s] # None
             /\ world'.records[s].collection = world.records[s].collection
             /\ world'.records[s].registrar = world.records[s].registrar
  <2>1. CASE ~Registration
    BY <1>3, <2>1, OutsideStep DEF Outside, Preserves, SameRecord, Registered
  <2>2. ASSUME NEW actor \in Accounts, NEW owner \in Accounts, NEW t \in Serials, NEW uri \in URIs,
               RegisterComponent(actor, owner, t, uri)
        PROVE  world'.records = world.records
    BY <1>3, <2>2, RegisterWrites
  <2>3. CASE OwnerAccepts
    <3>1. s # frames[1].serial
      BY <1>3, <2>3, Pops, AcceptWrites DEF Exclusive, Pending, Registered
    <3> QED
      BY <1>3, <2>3, <3>1, AcceptWrites DEF Registered
  <2> QED
    BY <1>3, <2>1, <2>2, <2>3 DEF Registration, Registered
<1>4. IInv /\ Exclusive /\ [Next]_vars =>
        [\A s \in Serials :
           Registered(s) /\ ~OwnerRejects =>
             /\ world'.records[s] # None
             /\ world'.records[s].collection = world.records[s].collection
             /\ world'.records[s].registrar = world.records[s].registrar]_vars
  BY <1>3
<1> QED
  BY <1>1, <1>2, <1>4, RegistryInvariant, PTL DEF Spec, RecordsKeepTheirToken

-----------------------------------------------------------------------------
(* Retirement is final                                                      *)

\* What is retired in a world is so, unchanged, in another.
Final(w, v) == \A s \in Serials : Retired(w, s) => Kept(w, v, s)

\* A component that is retired for good is not being registered, and is as
\* retired in the world that runs and in every world that may be restored.
Frozen ==
  /\ Final(committed, world)
  /\ \A i \in 1..Len(frames) :
       /\ ~Retired(committed, frames[i].serial)
       /\ Final(committed, frames[i].saved)

\* Preserving is transitive.
LEMMA FinalTransitive ==
  ASSUME NEW u, NEW w, NEW v, Final(u, w), Final(w, v)
  PROVE  Final(u, v)
<1> SUFFICES ASSUME NEW s \in Serials, Retired(u, s) PROVE Kept(u, v, s)
  BY DEF Final
<1>1. Kept(u, w, s)
  BY DEF Final
<1>2. Retired(w, s)
  BY <1>1 DEF Kept, Retired
<1>3. Kept(w, v, s)
  BY <1>2 DEF Final
<1> QED
  BY <1>1, <1>3 DEF Kept

\* A world keeps what is retired in it.
LEMMA FinalReflexive ==
  ASSUME NEW w
  PROVE  Final(w, w)
BY SMTT(30) DEF Final, Kept

\* Frozen, of the next state.
LEMMA FrozenNext ==
  ASSUME Final(committed', world'),
         \A i \in 1..Len(frames') :
           ~Retired(committed', frames'[i].serial) /\ Final(committed', frames'[i].saved)
  PROVE  Frozen'
BY DEF Frozen, Final, Retired, Kept

\* A stack of frames has a bottom, and it is the committed world.
LEMMA CommittedIs ==
  ASSUME IInv
  PROVE  /\ frames = <<>> => committed = world
         /\ Len(frames) # 0 => committed = frames[Len(frames)].saved
BY DEF IInv, TypeOK, committed

\* A retired component stays so in every step, and what it was retired as stays
\* what every world has.
LEMMA StepKeepsFrozen ==
  ASSUME IInv, IInv', Frozen, [Next]_vars
  PROVE  Frozen' /\ Final(committed, committed')
<1>0. /\ frames \in Seq(Frames) /\ world \in Worlds
      /\ frames' = <<>> => committed' = world'
      /\ Len(frames') # 0 => committed' = frames'[Len(frames')].saved
      /\ \A i \in 1..Len(frames) : frames[i].serial \in Serials
  <2>1. \A i \in 1..Len(frames) : frames[i] \in Frames
    BY DEF IInv, TypeOK
  <2>2. /\ frames' = <<>> => committed' = world'
        /\ Len(frames') # 0 => committed' = frames'[Len(frames')].saved
    BY DEF IInv, TypeOK, committed
  <2> QED
    BY <2>1, <2>2 DEF Frames, IInv, TypeOK
<1>1. CASE ~Registration
  <2>1. frames' = frames
    BY <1>1, FramesAreKept
  <2>2. Final(world, world')
    BY <1>1, OutsideStep DEF Outside, Preserves, Final
  <2>3. CASE frames = <<>>
    <3>1. committed = world /\ committed' = world'
      BY <1>0, <2>1, <2>3, CommittedIs
    <3>2. 1..Len(frames') = {}
      BY <2>1, <2>3
    <3>3. Frozen'
      BY <3>1, <3>2, FinalReflexive, FrozenNext
    <3> QED
      BY <2>2, <3>1, <3>3
  <2>4. CASE frames # <<>>
    <3>1. committed' = committed
      BY <1>0, <2>1, <2>4, CommittedIs
    <3>2. Final(committed, world')
      BY <2>2, FinalTransitive DEF Frozen
    <3>3. Frozen'
      BY <2>1, <3>1, <3>2, FrozenNext DEF Frozen
    <3> QED
      BY <3>1, <3>3, FinalReflexive
  <2> QED
    BY <2>3, <2>4
<1>2. ASSUME NEW actor \in Accounts, NEW owner \in Accounts, NEW s \in Serials, NEW uri \in URIs,
             RegisterComponent(actor, owner, s, uri)
      PROVE  Frozen' /\ Final(committed, committed')
  <2>1. /\ Len(frames') = Len(frames) + 1 /\ Len(frames) \in Nat
        /\ frames'[1].serial = s /\ frames'[1].saved = world
        /\ \A i \in 2..(Len(frames) + 1) : frames'[i] = frames[i - 1]
        /\ world.records[s] = None
        /\ \A r \in Serials : Preserves(world, world', r)
    BY <1>2, RegisterWrites
  <2>2. Final(world, world')
    BY <2>1 DEF Preserves, Final
  <2>3. committed' = committed
    <3>1. CASE frames = <<>>
      BY <1>0, <2>1, <3>1, CommittedIs
    <3>2. CASE frames # <<>>
      <4>1. Len(frames) # 0 /\ Len(frames') \in 2..(Len(frames) + 1)
        BY <1>0, <2>1, <3>2
      <4> QED
        BY <1>0, <2>1, <4>1, CommittedIs
    <3> QED
      BY <3>1, <3>2
  <2>4. Final(committed, world')
    BY SMTT(30), <2>2, FinalTransitive DEF Frozen
  <2>5. ~Retired(committed, s)
    BY <2>1 DEF Frozen, Final, Retired, Kept
  <2>6. ASSUME NEW i \in 1..Len(frames')
        PROVE  ~Retired(committed, frames'[i].serial) /\ Final(committed, frames'[i].saved)
    <3>1. CASE i = 1
      BY <2>1, <2>5, <3>1 DEF Frozen
    <3>2. CASE i # 1
      <4>1. i - 1 \in 1..Len(frames) /\ frames'[i] = frames[i - 1]
        BY <2>1, <3>2
      <4> QED
        BY <4>1 DEF Frozen
    <3> QED
      BY <3>1, <3>2
  <2>7. Frozen'
    BY <2>3, <2>4, <2>6, FrozenNext
  <2> QED
    BY <2>3, <2>7, FinalReflexive
<1>3. ASSUME frames # <<>>, frames' = Tail(frames), Final(committed, world')
      PROVE  Frozen' /\ Final(committed, committed')
  <2>1. /\ Len(frames') = Len(frames) - 1 /\ Len(frames) \in Nat \ {0}
        /\ \A i \in 1..Len(frames') : frames'[i] = frames[i + 1]
    BY <1>3, Pops
  <2>2. CASE frames' = <<>>
    <3>1. committed' = world' /\ 1..Len(frames') = {}
      BY <1>0, <2>2
    <3>2. Frozen'
      BY <3>1, FinalReflexive, FrozenNext
    <3> QED
      BY <1>3, <3>1, <3>2
  <2>3. CASE frames' # <<>>
    <3>1. Len(frames') # 0
      BY <2>3 DEF IInv, TypeOK
    <3>2. committed' = committed
      BY <1>0, <2>1, <3>1, CommittedIs
    <3>3. \A i \in 1..Len(frames') :
            ~Retired(committed, frames'[i].serial) /\ Final(committed, frames'[i].saved)
      BY SMTT(30), <2>1 DEF Frozen
    <3>4. Frozen'
      BY <1>3, <3>2, <3>3, FrozenNext
    <3> QED
      BY <3>2, <3>4, FinalReflexive
  <2> QED
    BY <2>2, <2>3
<1>4. CASE OwnerAccepts
  <2>1. /\ frames # <<>> /\ frames' = Tail(frames) /\ 1 \in 1..Len(frames)
        /\ \A r \in Serials :
             r # frames[1].serial =>
               /\ world'.records[r] = world.records[r]
               /\ \A c \in Collections : world'.tokens[c][r] = world.tokens[c][r]
    BY <1>4, AcceptWrites, Pops
  <2>2. ASSUME NEW s \in Serials, Retired(committed, s) PROVE Kept(committed, world', s)
    <3>1. s # frames[1].serial /\ Kept(committed, world, s)
      BY <2>1, <2>2 DEF Frozen, Final
    <3>2. world.records[s].collection \in Collections
      BY <1>0, <2>2, <3>1 DEF Retired, Kept, Worlds, Records
    <3> QED
      BY <2>1, <3>1, <3>2 DEF Kept
  <2> QED
    BY <1>3, <2>1, <2>2 DEF Final
<1>5. CASE OwnerRejects
  <2>1. /\ frames # <<>> /\ frames' = Tail(frames) /\ world' = frames[1].saved
        /\ 1 \in 1..Len(frames)
    BY <1>5, Pop DEF OwnerRejects, IInv, TypeOK
  <2> QED
    BY <1>3, <2>1 DEF Frozen
<1> QED
  BY <1>1, <1>2, <1>4, <1>5 DEF Registration

\* No sequence of calls, callbacks and reverts included, brings a retired component
\* back or rewrites its metadata.
THEOREM RegistryRetiredIsFinal == Spec => RetiredIsFinal
<1>1. Init => Frozen
  <2>1. Init => frames = <<>> /\ committed = world
    BY InitSound, CommittedIs DEF Init
  <2> QED
    BY <2>1 DEF Frozen, Final, Kept
<1>2. IInv /\ IInv' /\ Frozen /\ [Next]_vars => Frozen'
  BY StepKeepsFrozen
<1>3. IInv /\ IInv' /\ Frozen /\ [Next]_vars => [RetiredStay]_vars
  BY StepKeepsFrozen DEF Final, Retired, Kept, RetiredStay
<1> QED
  BY <1>1, <1>2, <1>3, RegistryInvariant, PTL DEF Spec, RetiredIsFinal

-----------------------------------------------------------------------------
(* The views                                                                *)

\* The view of a component has the fields its own writes read: each write is
\* offered in the status whose view has them.
LEMMA ComponentViewRenders ==
  ASSUME TypeOK, NEW s \in Serials, Registered(s), NEW account \in Accounts \cup {None},
         NEW action \in _componentActions(account, s)
  PROVE  StateOf(action) \subseteq FieldsOf(_componentViewId(s))
<1>1. StatusOf(s) \in {"Active", "Missing", "Retired"}
  BY DEF TypeOK, Worlds, Records, Registered, StatusOf
<1>2. CASE action \in Lookup
  BY <1>2 DEF Lookup, StateOf, FieldsOf
<1>3. CASE action = "updateComponentMetadata"
  <2>1. StatusOf(s) \in {"Active", "Missing"}
    BY <1>3 DEF _componentActions, Lookup, canUpdateMetadata
  <2> QED
    BY <1>3, <2>1 DEF StateOf, FieldsOf, _componentViewId
<1>4. CASE action = "markComponentMissing"
  <2>1. StatusOf(s) = "Active"
    BY <1>4 DEF _componentActions, Lookup, canMarkMissing
  <2> QED
    BY <1>4, <2>1 DEF StateOf, FieldsOf, _componentViewId
<1>5. CASE action = "clearComponentMissing"
  <2>1. StatusOf(s) = "Missing"
    BY <1>5 DEF _componentActions, Lookup, canClearMissing
  <2> QED
    BY <1>5, <2>1 DEF StateOf, FieldsOf, _componentViewId
<1>6. CASE action = "retireComponent"
  BY <1>6 DEF StateOf
<1> QED
  BY <1>2, <1>3, <1>4, <1>5, <1>6 DEF _componentActions

\* The other views offer the lookup and, where their fields allow it, one more action.
LEMMA PlainViewsRender ==
  ASSUME NEW account
  PROVE  /\ \A action \in _entryActions(account) : StateOf(action) \subseteq FieldsOf("entry")
         /\ \A viewId : \A action \in _lookupAndRegisterActions(account) : StateOf(action) \subseteq FieldsOf(viewId)
         /\ \A action \in _registerReadyActions : StateOf(action) \subseteq FieldsOf("register.ready")
         /\ \A viewId : \A action \in Lookup : StateOf(action) \subseteq FieldsOf(viewId)
<1>1. \A viewId : \A action \in Lookup \cup {"openRegister"} : StateOf(action) \subseteq FieldsOf(viewId)
  BY DEF Lookup, StateOf, FieldsOf
<1>2. /\ Lookup \subseteq Lookup \cup {"openRegister"}
      /\ _lookupAndRegisterActions(account) \subseteq Lookup \cup {"openRegister"}
  BY DEF _lookupAndRegisterActions
<1>3. StateOf("setAccountInfo") \subseteq FieldsOf("entry")
  BY DEF StateOf, FieldsOf
<1>4. StateOf("registerComponent") \subseteq FieldsOf("register.ready")
  BY DEF StateOf, FieldsOf
<1> QED
  <2>1. /\ \A viewId : \A action \in Lookup : StateOf(action) \subseteq FieldsOf(viewId)
        /\ \A viewId : \A action \in _lookupAndRegisterActions(account) : StateOf(action) \subseteq FieldsOf(viewId)
    BY <1>1, <1>2
  <2>2. /\ _entryActions(account) \subseteq Lookup \cup _lookupAndRegisterActions(account) \cup {"setAccountInfo"}
        /\ _registerReadyActions \subseteq Lookup \cup {"registerComponent"}
    BY DEF _entryActions, _registerReadyActions
  <2> QED
    BY <1>3, <1>4, <2>1, <2>2

\* Whatever the account, the serial number and the state of the contracts: the
\* screen of a view has every field that the buttons it offers read.
THEOREM RegistryOfferedActionsRender == Spec => []OfferedActionsRender
<1>1. TypeOK => OfferedActionsRender
  <2> SUFFICES ASSUME TypeOK, NEW account \in Accounts \cup {None}, NEW s \in Serials \cup {NoSerial},
                      NEW view \in {viewEntry(account), viewComponent(s, account), viewRegister(s, account)},
                      NEW action \in view.actions
               PROVE  StateOf(action) \subseteq FieldsOf(view.viewId)
    BY DEF OfferedActionsRender
  <2>1. CASE view = viewEntry(account)
    BY <2>1, PlainViewsRender DEF viewEntry, View
  <2>2. CASE view = viewComponent(s, account)
    <3>1. CASE s = NoSerial
      <4>1. view = View("component.empty", _lookupAndRegisterActions(account))
        BY <2>2, <3>1 DEF viewComponent
      <4> QED
        BY <4>1, PlainViewsRender DEF View
    <3>2. CASE s # NoSerial /\ ~ Registered(s)
      <4>1. view = View("component.notFound", _lookupAndRegisterActions(account))
        BY <2>2, <3>2 DEF viewComponent
      <4> QED
        BY <4>1, PlainViewsRender DEF View
    <3>3. CASE s # NoSerial /\ Registered(s)
      <4>1. view = View(_componentViewId(s), _componentActions(account, s)) /\ s \in Serials
        BY <2>2, <3>3 DEF viewComponent
      <4> QED
        BY <3>3, <4>1, ComponentViewRenders DEF View
    <3> QED
      BY <3>1, <3>2, <3>3
  <2>3. CASE view = viewRegister(s, account)
    <3>1. \/ view = View("register.empty", _lookupAndRegisterActions(account))
          \/ view = View("register.ready", _registerReadyActions)
          \/ view = View("register.blocked", Lookup)
      BY <2>3 DEF viewRegister
    <3> QED
      BY <3>1, PlainViewsRender DEF View
  <2> QED
    BY <2>1, <2>2, <2>3
<1> QED
  BY <1>1, RegistryTypeOK, PTL

\* What the writes of a registered component ask for, the views ask for: its status
\* is one of three, and its token is where its record says.
LEMMA ComponentWritesMatch ==
  ASSUME TypeOK, RecordsHaveTokens, frames = <<>>, NEW account \in Accounts, NEW s \in Serials,
         Registered(s), NEW action \in ComponentWrites, CollectionIsReady(action, s)
  PROVE  action \in _componentActions(account, s) <=> Succeeds(action, s, account)
<1>1. /\ account # None /\ Calls(account) /\ TokenOf(s) # None
      /\ StatusOf(s) \in {"Active", "Missing", "Retired"}
  BY UIAssumption DEF Calls, RecordsHaveTokens, TypeOK, Worlds, Records, Registered, StatusOf
<1>2. CASE action = "updateComponentMetadata"
  <2>1. /\ world.records[s].collection = world.componentsAddress
        /\ "uriSetter" \in world.managerRoles[world.records[s].collection]
    BY <1>2 DEF CollectionIsReady
  <2>2. action \in _componentActions(account, s) <=>
          ~ world.paused /\ ~ componentTokenPaused /\ canUpdateMetadata(account, s)
    BY <1>1, <1>2 DEF _componentActions, Lookup
  <2>3. Succeeds(action, s, account) <=> MaySetMetadata(account, s)
    BY <1>2 DEF Succeeds
  <2>4. MaySetMetadata(account, s) <=>
          ~ world.paused /\ ~ componentTokenPaused /\ canUpdateMetadata(account, s)
    BY <1>1, <2>1 DEF MaySetMetadata, Acts, TokenOf, componentTokenPaused, canUpdateMetadata
  <2> QED
    BY <2>2, <2>3, <2>4
<1>3. CASE action = "markComponentMissing"
  <2>1. action \in _componentActions(account, s) <=> ~ world.paused /\ canMarkMissing(account, s)
    BY <1>1, <1>3 DEF _componentActions, Lookup
  <2>2. Succeeds(action, s, account) <=> MayMarkMissing(account, s)
    BY <1>3 DEF Succeeds
  <2> QED
    BY <1>1, <2>1, <2>2 DEF MayMarkMissing, Acts, canMarkMissing
<1>4. CASE action = "clearComponentMissing"
  <2>1. action \in _componentActions(account, s) <=> ~ world.paused /\ canClearMissing(account, s)
    BY <1>1, <1>4 DEF _componentActions, Lookup
  <2>2. Succeeds(action, s, account) <=> MayClearMissing(account, s)
    BY <1>4 DEF Succeeds
  <2> QED
    BY <1>1, <2>1, <2>2 DEF MayClearMissing, Acts, canClearMissing
<1>5. CASE action = "retireComponent"
  <2>1. action \in _componentActions(account, s) <=> ~ world.paused /\ canRetire(account, s)
    BY <1>1, <1>5 DEF _componentActions, Lookup
  <2>2. Succeeds(action, s, account) <=> MayRetire(account, s)
    BY <1>5 DEF Succeeds
  <2> QED
    BY <1>1, <2>1, <2>2 DEF MayRetire, Acts, canRetire
<1> QED
  BY <1>2, <1>3, <1>4, <1>5 DEF ComponentWrites

LEMMA RegistrationMatches ==
  ASSUME frames = <<>>, NEW account \in Accounts, NEW s \in Serials,
         CollectionIsReady("registerComponent", s)
  PROVE  "registerComponent" \in viewRegister(s, account).actions
           <=> Succeeds("registerComponent", s, account)
<1>1. /\ "minter" \in world.managerRoles[world.componentsAddress]
      /\ world.tokens[world.componentsAddress][s] = None
  BY DEF CollectionIsReady
<1>2. Succeeds("registerComponent", s, account) <=>
        /\ ~ world.paused /\ ~ componentTokenPaused
        /\ canRegister(account) /\ ~ Registered(s)
  BY <1>1 DEF Succeeds, MayRegister, MayMint, Calls, canRegister, componentTokenPaused
<1>3. s # NoSerial
  BY UIAssumption
<1>4. CASE canRegister(account) /\ ~ Registered(s)
  <2>1. viewRegister(s, account).actions = _registerReadyActions
    BY <1>3, <1>4 DEF viewRegister, View
  <2> QED
    BY <1>2, <1>4, <2>1 DEF _registerReadyActions, Lookup
<1>5. CASE ~ (canRegister(account) /\ ~ Registered(s))
  <2>1. viewRegister(s, account).actions = Lookup
    BY <1>3, <1>5 DEF viewRegister, View
  <2> QED
    BY <1>2, <1>5, <2>1 DEF Lookup
<1> QED
  BY <1>4, <1>5

\* In every state between transactions, for every account and serial number: a view
\* offers a write exactly when the manager would perform it.
THEOREM RegistryOfferedActionsSucceed == Spec => []OfferedActionsSucceed
<1>1. TypeOK /\ RecordsHaveTokens => OfferedActionsSucceed
  <2> SUFFICES ASSUME TypeOK, RecordsHaveTokens, frames = <<>>, NEW account \in Accounts
               PROVE  /\ "setAccountInfo" \in viewEntry(account).actions
                           <=> Succeeds("setAccountInfo", NoSerial, account)
                      /\ \A s \in Serials :
                           /\ CollectionIsReady("registerComponent", s) =>
                                ("registerComponent" \in viewRegister(s, account).actions
                                   <=> Succeeds("registerComponent", s, account))
                           /\ \A action \in ComponentWrites :
                                Registered(s) /\ CollectionIsReady(action, s) =>
                                  (action \in viewComponent(s, account).actions
                                     <=> Succeeds(action, s, account))
    BY DEF OfferedActionsSucceed
  <2>1. "setAccountInfo" \in viewEntry(account).actions
          <=> Succeeds("setAccountInfo", NoSerial, account)
    <3>1. viewEntry(account).actions = _entryActions(account) /\ account # None
      BY UIAssumption DEF viewEntry, View
    <3> QED
      BY <3>1 DEF _entryActions, _lookupAndRegisterActions, Lookup, Succeeds
  <2>2. ASSUME NEW s \in Serials, NEW action \in ComponentWrites,
               Registered(s), CollectionIsReady(action, s)
        PROVE  action \in viewComponent(s, account).actions <=> Succeeds(action, s, account)
    <3>1. viewComponent(s, account).actions = _componentActions(account, s)
      BY <2>2, UIAssumption DEF viewComponent, View
    <3> QED
      BY <2>2, <3>1, ComponentWritesMatch
  <2> QED
    BY <2>1, <2>2, RegistrationMatches
<1> QED
  BY <1>1, RegistryTypeOK, RegistryRecordsHaveTokens, PTL
=============================================================================
