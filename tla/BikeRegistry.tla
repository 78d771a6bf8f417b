---------------------------- MODULE BikeRegistry ----------------------------
(***************************************************************************)
(* The bicycle registry of dapps/bike-nft/src: the policy contract         *)
(* BicycleComponentManager and the ERC-721 collections BicycleComponents   *)
(* it mints into.                                                          *)
(*                                                                         *)
(* registerComponent mints with safeMint, which calls the new owner before *)
(* the record is written.  The owner may be a contract: before it returns, *)
(* it (or any contract it calls) may call the registry and the collections *)
(* again, and it may reject the token, which undoes everything since the   *)
(* registration began.  So the registrations in progress are a stack of    *)
(* frames, each with the world to restore.                                 *)
(***************************************************************************)
EXTENDS Integers, Sequences

CONSTANTS
  Accounts,       \* owners, delegates and registrars; address(0) is none of them
  Contracts,      \* the accounts that have code
  Serials,        \* serial numbers; a serial's token id is its hash
  Collections,    \* component-token contracts
  URIs,           \* metadata URIs that are not empty
  Reports,        \* lifecycle URIs that are not empty
  Grants,         \* the capability sets that owners grant
  None,           \* no record, token, delegation, URI or report
  GovernanceIsReachable,  \* may the call of a new owner reach governance?
  MaxDuration,    \* bound on maxDelegationDuration
  MaxTime,        \* bound on block.timestamp
  MaxGovernance   \* bound on the steps of governance

Capabilities == {"metadata", "markMissing", "clearMissing", "retire"}
TokenRoles == {"minter", "uriSetter"}
Times == 0..(MaxTime + MaxDuration)

ASSUME RegistryAssumption ==
  /\ Contracts \subseteq Accounts
  /\ Collections # {}
  /\ Grants \subseteq SUBSET Capabilities
  /\ None \notin URIs /\ None \notin Reports
  /\ GovernanceIsReachable \in BOOLEAN
  /\ MaxDuration \in Nat \ {0} /\ MaxTime \in Nat /\ MaxGovernance \in Nat

Tokens == [owner: Accounts, uri: URIs \cup {None}]
Records ==
  [collection: Collections, registrar: Accounts, status: {"Active", "Missing", "Retired"},
   report: Reports \cup {None}]
Delegations == [grantor: Accounts, capabilities: Grants \ {{}}, validUntil: Times]

ASSUME NoneAssumption == None \notin Tokens /\ None \notin Records /\ None \notin Delegations

\* What a transaction that reverts restores: the storage of the manager and of
\* the collections.
Worlds ==
  [componentsAddress: Collections, maxDuration: 1..MaxDuration, paused: BOOLEAN,
   registrars: SUBSET Accounts, records: [Serials -> Records \cup {None}],
   delegations: [Serials -> [Accounts -> Delegations \cup {None}]],
   tokens: [Collections -> [Serials -> Tokens \cup {None}]],
   tokenPaused: [Collections -> BOOLEAN],
   managerRoles: [Collections -> SUBSET TokenRoles],
   governance: 0..MaxGovernance]

Frames ==
  [collection: Collections, serial: Serials, owner: Accounts, registrar: Accounts,
   uri: URIs, saved: Worlds]

VARIABLES
  world,   \* the contracts as the code that runs now sees them
  frames,  \* the registrations that wait for the new owner, the innermost first
  now      \* block.timestamp

vars == <<world, frames, now>>

\* Deployed, with the manager's roles granted on every collection.
Init ==
  /\ \E c \in Collections :
       world = [componentsAddress |-> c, maxDuration |-> MaxDuration, paused |-> FALSE,
                registrars |-> {}, records |-> [s \in Serials |-> None],
                delegations |-> [s \in Serials |-> [a \in Accounts |-> None]],
                tokens |-> [d \in Collections |-> [s \in Serials |-> None]],
                tokenPaused |-> [d \in Collections |-> FALSE],
                managerRoles |-> [d \in Collections |-> TokenRoles],
                governance |-> 0]
  /\ frames = <<>>
  /\ now = 0

-----------------------------------------------------------------------------
(* Who may call, and what the contracts look up                             *)

\* Between transactions anyone may call; while a new owner runs, only contracts
\* that it reaches.
OwnerRuns == frames # <<>> /\ Head(frames).owner \in Contracts
Calls(actor) == frames = <<>> \/ (OwnerRuns /\ actor \in Contracts)

\* The accounts that hold the admin, configurer and pauser roles.
GovernanceCalls == frames = <<>> \/ (OwnerRuns /\ GovernanceIsReachable)

Registered(s) == world.records[s] # None
StatusOf(s) == IF Registered(s) THEN world.records[s].status ELSE "None"
TokenOf(s) == world.tokens[world.records[s].collection][s]
OwnerOf(s) == TokenOf(s).owner

\* _effectiveDelegationCapabilities
EffectiveCapabilities(s, actor) ==
  LET delegation == world.delegations[s][actor]
  IN IF delegation = None \/ delegation.validUntil <= now \/ OwnerOf(s) # delegation.grantor
     THEN {} ELSE delegation.capabilities

CanAct(s, actor, capability) ==
  OwnerOf(s) = actor \/ capability \in EffectiveCapabilities(s, actor)

\* The guard that every write of the manager shares.
Acts(actor, s) == Calls(actor) /\ ~world.paused /\ Registered(s)

\* The projections the UI is built from.
canUpdateMetadata(actor, s) ==
  StatusOf(s) \in {"Active", "Missing"} /\ CanAct(s, actor, "metadata")
canMarkMissing(actor, s) == StatusOf(s) = "Active" /\ CanAct(s, actor, "markMissing")
canClearMissing(actor, s) == StatusOf(s) = "Missing" /\ CanAct(s, actor, "clearMissing")

canRetire(actor, s) == StatusOf(s) = "Active" /\ CanAct(s, actor, "retire")

WithToken(w, c, s, token) == [w EXCEPT !.tokens[c][s] = token]
WithRecord(w, s, record) == [w EXCEPT !.records[s] = record]
WithDelegation(w, s, delegate, delegation) == [w EXCEPT !.delegations[s][delegate] = delegation]

Changes(newWorld) == world' = newWorld /\ UNCHANGED <<frames, now>>

-----------------------------------------------------------------------------
(* registerComponent                                                        *)

\* What the collection asks of a mint by the manager.
MayMint(s) ==
  LET c == world.componentsAddress
  IN "minter" \in world.managerRoles[c] /\ ~world.tokenPaused[c] /\ world.tokens[c][s] = None

\* safeMint up to its call of the new owner: the token exists, its URI does not.
EnterMint(actor, owner, s, uri) ==
  LET c == world.componentsAddress
  IN /\ MayMint(s)
     /\ world' = WithToken(world, c, s, [owner |-> owner, uri |-> None])
     /\ frames' = <<[collection |-> c, serial |-> s, owner |-> owner, registrar |-> actor,
                     uri |-> uri, saved |-> world]>> \o frames
     /\ UNCHANGED now

\* Mutated form of RegisterComponent: a registered serial may be registered again.
RegisterComponentAgain(actor, owner, s, uri) ==
  /\ Calls(actor) /\ ~world.paused
  /\ actor \in world.registrars
  /\ EnterMint(actor, owner, s, uri)

MayRegister(actor, s) ==
  Calls(actor) /\ ~world.paused /\ actor \in world.registrars /\ ~Registered(s)

RegisterComponent(actor, owner, s, uri) == MayRegister(actor, s) /\ EnterMint(actor, owner, s, uri)

NewRecord(frame) ==
  [collection |-> frame.collection, registrar |-> frame.registrar, status |-> "Active",
   report |-> None]

\* onERC721Received accepts: the token's URI, then the record, are written.
OwnerAccepts ==
  /\ frames # <<>>
  /\ LET frame == Head(frames)
         token == world.tokens[frame.collection][frame.serial]
     IN world' = WithRecord(WithToken(world, frame.collection, frame.serial,
                                      [token EXCEPT !.uri = frame.uri]),
                            frame.serial, NewRecord(frame))
  /\ frames' = Tail(frames)
  /\ UNCHANGED now

\* Mutated form of OwnerRejects: the failure of safeMint is caught, and the
\* record is written.
OwnerRejectsUnnoticed ==
  /\ frames # <<>>
  /\ LET frame == Head(frames)
     IN world' = WithRecord(frame.saved, frame.serial, NewRecord(frame))
  /\ frames' = Tail(frames)
  /\ UNCHANGED now

OwnerRejects ==
  /\ frames # <<>>
  /\ world' = Head(frames).saved
  /\ frames' = Tail(frames)
  /\ UNCHANGED now

-----------------------------------------------------------------------------
(* The actions of owners and delegates                                      *)

MaySetMetadata(actor, s) ==
  /\ Acts(actor, s) /\ CanAct(s, actor, "metadata") /\ StatusOf(s) # "Retired"
  /\ LET c == world.records[s].collection
     IN "uriSetter" \in world.managerRoles[c] /\ ~world.tokenPaused[c] /\ world.tokens[c][s] # None

SetComponentMetadata(actor, s, uri) ==
  /\ MaySetMetadata(actor, s)
  /\ LET c == world.records[s].collection
     IN Changes(WithToken(world, c, s, [world.tokens[c][s] EXCEPT !.uri = uri]))

MayMarkMissing(actor, s) ==
  Acts(actor, s) /\ CanAct(s, actor, "markMissing") /\ StatusOf(s) = "Active"

MarkComponentMissing(actor, s, report) ==
  /\ MayMarkMissing(actor, s)
  /\ Changes(WithRecord(world, s, [world.records[s] EXCEPT !.report = report, !.status = "Missing"]))

MayClearMissing(actor, s) ==
  Acts(actor, s) /\ CanAct(s, actor, "clearMissing") /\ StatusOf(s) = "Missing"

ClearComponentMissing(actor, s) ==
  /\ MayClearMissing(actor, s)
  /\ Changes(WithRecord(world, s, [world.records[s] EXCEPT !.report = None, !.status = "Active"]))

\* Mutated form of RetireComponent: an open report does not stop it.
RetireMissingComponent(actor, s) ==
  /\ Acts(actor, s)
  /\ CanAct(s, actor, "retire")
  /\ StatusOf(s) # "Retired"
  /\ Changes(WithRecord(world, s, [world.records[s] EXCEPT !.status = "Retired"]))

MayRetire(actor, s) == Acts(actor, s) /\ CanAct(s, actor, "retire") /\ StatusOf(s) = "Active"

RetireComponent(actor, s) ==
  /\ MayRetire(actor, s)
  /\ Changes(WithRecord(world, s, [world.records[s] EXCEPT !.status = "Retired"]))

SetComponentDelegate(actor, s, delegate, capabilities, validUntil) ==
  /\ Acts(actor, s)
  /\ OwnerOf(s) = actor
  /\ capabilities # {}
  /\ now < validUntil /\ validUntil - now <= world.maxDuration
  /\ Changes(WithDelegation(world, s, delegate,
                [grantor |-> actor, capabilities |-> capabilities, validUntil |-> validUntil]))

RevokeComponentDelegate(actor, s, delegate) ==
  /\ Acts(actor, s)
  /\ OwnerOf(s) = actor
  /\ Changes(WithDelegation(world, s, delegate, None))

-----------------------------------------------------------------------------
(* The collections: transfers by an owner or whom it approved, and mints by *)
(* another account that governance made a minter.                           *)

Transfer(c, s, to) ==
  /\ frames = <<>> \/ OwnerRuns
  /\ world.tokens[c][s] # None
  /\ ~world.tokenPaused[c]
  /\ Changes(WithToken(world, c, s, [world.tokens[c][s] EXCEPT !.owner = to]))

\* A step of governance, which is bounded.
Governs(newWorld) ==
  /\ GovernanceCalls
  /\ world.governance < MaxGovernance
  /\ Changes([newWorld EXCEPT !.governance = @ + 1])

Mint(c, to, s, uri) ==
  /\ ~world.tokenPaused[c]
  /\ world.tokens[c][s] = None
  /\ Governs(WithToken(world, c, s, [owner |-> to, uri |-> uri]))

PauseToken(c) == ~world.tokenPaused[c] /\ Governs([world EXCEPT !.tokenPaused[c] = TRUE])
UnpauseToken(c) == world.tokenPaused[c] /\ Governs([world EXCEPT !.tokenPaused[c] = FALSE])

GrantManagerRole(c, role) == Governs([world EXCEPT !.managerRoles[c] = @ \cup {role}])
RevokeManagerRole(c, role) == Governs([world EXCEPT !.managerRoles[c] = @ \ {role}])

-----------------------------------------------------------------------------
(* The manager's configuration                                              *)

Pause == ~world.paused /\ Governs([world EXCEPT !.paused = TRUE])
Unpause == world.paused /\ Governs([world EXCEPT !.paused = FALSE])

GrantRegistrar(actor) == Governs([world EXCEPT !.registrars = @ \cup {actor}])
RevokeRegistrar(actor) == Governs([world EXCEPT !.registrars = @ \ {actor}])

\* _requireManagerTokenPrivileges: the manager must hold its roles.
SetComponentsAddress(c) ==
  /\ world.managerRoles[c] = TokenRoles
  /\ Governs([world EXCEPT !.componentsAddress = c])

SetMaxDelegationDuration(duration) ==
  /\ duration # 0
  /\ Governs([world EXCEPT !.maxDuration = duration])

Tick ==
  /\ frames = <<>>
  /\ now < MaxTime
  /\ now' = now + 1
  /\ UNCHANGED <<world, frames>>

Next ==
  \/ \E actor \in Accounts, owner \in Accounts, s \in Serials, uri \in URIs :
       RegisterComponent(actor, owner, s, uri)
  \/ OwnerAccepts
  \/ OwnerRejects
  \/ \E actor \in Accounts, s \in Serials, uri \in URIs : SetComponentMetadata(actor, s, uri)
  \/ \E actor \in Accounts, s \in Serials, report \in Reports : MarkComponentMissing(actor, s, report)
  \/ \E actor \in Accounts, s \in Serials : ClearComponentMissing(actor, s)
  \/ \E actor \in Accounts, s \in Serials : RetireComponent(actor, s)
  \/ \E actor \in Accounts, s \in Serials, delegate \in Accounts, capabilities \in Grants,
        validUntil \in Times : SetComponentDelegate(actor, s, delegate, capabilities, validUntil)
  \/ \E actor \in Accounts, s \in Serials, delegate \in Accounts :
       RevokeComponentDelegate(actor, s, delegate)
  \/ \E c \in Collections, s \in Serials, to \in Accounts : Transfer(c, s, to)
  \/ \E c \in Collections, to \in Accounts, s \in Serials, uri \in URIs : Mint(c, to, s, uri)
  \/ \E c \in Collections : PauseToken(c) \/ UnpauseToken(c) \/ SetComponentsAddress(c)
  \/ \E c \in Collections, role \in TokenRoles : GrantManagerRole(c, role) \/ RevokeManagerRole(c, role)
  \/ Pause \/ Unpause
  \/ \E actor \in Accounts : GrantRegistrar(actor) \/ RevokeRegistrar(actor)
  \/ \E duration \in 0..MaxDuration : SetMaxDelegationDuration(duration)
  \/ Tick

Spec == Init /\ [][Next]_vars

-----------------------------------------------------------------------------
(* Properties                                                               *)

TypeOK ==
  /\ world \in Worlds
  /\ frames \in Seq(Frames)
  /\ now \in 0..MaxTime

\* What the transactions that have ended left behind.
committed == IF frames = <<>> THEN world ELSE frames[Len(frames)].saved

\* A registered component has its token, in the collection its record names, so
\* every read and every authorisation of the record finds an owner, also while a
\* registration waits for its new owner (BicycleComponentManager.sol 528-560,
\* 606-640).
RecordsHaveTokens == \A s \in Serials : Registered(s) => TokenOf(s) # None

\* A component has an open report exactly while it is missing: retirement leaves
\* no report open (BicycleComponentManager.sol 287-301, 562-590).
MissingHasReport ==
  \A s \in Serials : Registered(s) =>
    (world.records[s].report # None <=> world.records[s].status = "Missing")

\* A step that leaves the retired components of the ended transactions as they are.
RetiredStay ==
  \A s \in Serials :
    LET record == committed.records[s]
    IN record # None /\ record.status = "Retired" =>
         /\ committed'.records[s] = record
         /\ committed'.tokens[record.collection][s].uri =
              committed.tokens[record.collection][s].uri

\* Retirement is final: neither the record nor the token's metadata changes any
\* more, whoever owns the token later (001_permissions.txt, retireComponent;
\* BicycleComponentManager.sol 260-301).
RetiredIsFinal == [][RetiredStay]_vars

\* A record keeps its collection and its registrar, whatever becomes of the
\* configured collection, unless its transaction reverts: "changing the
\* configured contract only affects future registrations"
\* (BicycleComponentManager.sol 24-26, 213-217, 528-560).
RecordsKeepTheirToken ==
  [][\A s \in Serials :
       Registered(s) /\ ~OwnerRejects =>
         /\ world'.records[s] # None
         /\ world'.records[s].collection = world.records[s].collection
         /\ world'.records[s].registrar = world.records[s].registrar]_vars
=============================================================================
