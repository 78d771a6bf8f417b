---------------------------- MODULE DepositVault ----------------------------
(***************************************************************************)
(* The deposit contract dapps/deposit/src/DepositVault.sol with the        *)
(* OpenZeppelin contracts it inherits: Ownable2Step, Pausable,             *)
(* ReentrancyGuard and Nonces.                                             *)
(*                                                                         *)
(* deposit and sweepForcedNative call the treasury in the middle of their  *)
(* work.  The treasury may be a contract: before it returns, it (or any    *)
(* contract it calls) may call the vault again, and it may reject the      *)
(* value, which undoes everything since the call began.  So the calls in   *)
(* progress are a stack of frames, each with the world to restore.         *)
(***************************************************************************)
EXTENDS Integers, Sequences, FiniteSets, SequencesExt, FiniteSetsExt

CONSTANTS
  Accounts,       \* addresses other than 0 and the vault's
  Zero,           \* address(0), also what a malformed signature recovers to
  Vault,          \* address(this)
  Contracts,      \* the accounts that have code
  Payers,         \* accounts for which the backend signs intents
  Keys,           \* addresses of backend keys
  Refs, ZeroRef,  \* payment references
  Amounts,        \* amounts the backend signs, in wei
  MaxNonce,       \* bound on a payer's nonce
  MaxIntents,     \* bound on the intents signed
  MaxForced,      \* bound on the native value forced into the vault
  MaxTime         \* bound on block.timestamp

Times == 0..MaxTime

ASSUME VaultAssumption ==
  /\ Zero \notin Accounts /\ Vault \notin Accounts /\ Zero # Vault
  /\ Contracts \subseteq Accounts /\ Payers \subseteq Accounts /\ IsFiniteSet(Payers)
  /\ Zero \notin Keys
  /\ Amounts \subseteq Nat
  /\ MaxNonce \in Nat /\ MaxIntents \in Nat /\ MaxForced \in Nat /\ MaxTime \in Nat

Addresses == Accounts \cup {Zero, Vault}

Intents ==
  [paymentRef: Refs, payer: Payers, treasury: Accounts, amount: Amounts,
   nonce: 0..MaxNonce, deadline: Times]

SignedIntents == [intent: Intents, key: Keys]

\* A receipt is the data of a DepositReceived event.
Receipts == [ref: Refs, recipient: Accounts, amount: Amounts, nonce: Nat]

\* What a transaction that reverts restores: the storage of the vault, the
\* native value it holds, the events it emitted, and what it has paid out.
Worlds ==
  [owner: Accounts, pendingOwner: Accounts \cup {Zero}, treasury: Accounts, intentSigner: Keys,
   paused: BOOLEAN, entered: BOOLEAN, nonces: [Payers -> Nat],
   balance: Nat, receipts: [Payers -> Seq(Receipts)], paid: [Accounts -> Nat],
   forced: Nat, swept: Nat]

DepositFrames == [call: {"deposit"}, intent: Intents, recipient: Accounts, saved: Worlds]
SweepFrames == [call: {"sweep"}, recipient: Accounts, saved: Worlds]

VARIABLES
  world,    \* the vault as the code that runs now sees it
  frames,   \* the calls that wait for the treasury, the innermost first
  signed,   \* the intents the backend has signed
  now       \* block.timestamp

vars == <<world, frames, signed, now>>

Init ==
  /\ \E owner \in Accounts, treasury \in Accounts, signer \in Keys :
       world = [owner |-> owner, pendingOwner |-> Zero, treasury |-> treasury,
                intentSigner |-> signer, paused |-> FALSE, entered |-> FALSE,
                nonces |-> [p \in Payers |-> 0], balance |-> 0,
                receipts |-> [p \in Payers |-> <<>>], paid |-> [a \in Accounts |-> 0],
                forced |-> 0, swept |-> 0]
  /\ frames = <<>>
  /\ signed = {}
  /\ now = 0

\* Between transactions anyone may call; while the treasury runs, only contracts
\* that it reaches.
TreasuryRuns == frames # <<>> /\ Head(frames).recipient \in Contracts
Calls(caller) == frames = <<>> \/ (TreasuryRuns /\ caller \in Contracts)
OwnerCalls == Calls(world.owner)

-----------------------------------------------------------------------------
(* The off-chain backend and the chain around the vault                     *)

\* The backend reads the payer's nonce and signs, with a key that may have been
\* rotated out or not yet in; nothing here stops it from signing a nonce twice.
Sign(intent, key) ==
  /\ frames = <<>>
  /\ Cardinality(signed) < MaxIntents
  /\ intent.nonce = world.nonces[intent.payer]
  /\ signed' = signed \cup {[intent |-> intent, key |-> key]}
  /\ UNCHANGED <<world, frames, now>>

Tick ==
  /\ frames = <<>>
  /\ now < MaxTime
  /\ now' = now + 1
  /\ UNCHANGED <<world, frames, signed>>

\* Native value that bypasses receive and fallback, which reject every other
\* transfer to the vault.
ForceNative ==
  /\ frames = <<>> \/ TreasuryRuns
  /\ world.forced < MaxForced
  /\ world' = [world EXCEPT !.forced = @ + 1, !.balance = @ + 1]
  /\ UNCHANGED <<frames, signed, now>>

-----------------------------------------------------------------------------
(* deposit and sweepForcedNative up to the call of the treasury             *)

\* A well-formed signature recovers to its key; bytes that are no signature
\* recover to Zero.
RecoversTo(intent, signer) ==
  signer = Zero \/ [intent |-> intent, key |-> signer] \in signed

Payable(intent, signer) ==
  /\ intent.paymentRef # ZeroRef
  /\ intent.amount # 0
  /\ now <= intent.deadline
  /\ intent.treasury = world.treasury
  /\ RecoversTo(intent, signer)
  /\ signer = world.intentSigner

\* _useCheckedNonce, and the call of _sendNative.
EnterDeposit(intent) ==
  /\ intent.nonce = world.nonces[intent.payer]
  /\ frames' = <<[call |-> "deposit", intent |-> intent, recipient |-> world.treasury,
                  saved |-> world]>> \o frames
  /\ world' = [world EXCEPT !.entered = TRUE,
                            !.nonces[intent.payer] = @ + 1,
                            !.paid[world.treasury] = @ + intent.amount]

\* Mutated form of Deposit: not nonReentrant.
DepositReentrant(intent, signer) ==
  /\ Calls(intent.payer)
  /\ ~world.paused
  /\ Payable(intent, signer)
  /\ EnterDeposit(intent)
  /\ UNCHANGED <<signed, now>>

\* The caller is the payer and msg.value is the amount.
Deposit(intent, signer) ==
  /\ Calls(intent.payer)
  /\ ~world.entered
  /\ ~world.paused
  /\ Payable(intent, signer)
  /\ EnterDeposit(intent)
  /\ UNCHANGED <<signed, now>>

SweepForcedNative ==
  /\ OwnerCalls
  /\ ~world.entered
  /\ world.balance # 0
  /\ frames' = <<[call |-> "sweep", recipient |-> world.treasury, saved |-> world]>> \o frames
  /\ world' = [world EXCEPT !.entered = TRUE, !.balance = 0, !.swept = @ + world.balance]
  /\ UNCHANGED <<signed, now>>

-----------------------------------------------------------------------------
(* The treasury returns                                                     *)

Receipt(frame, recipient) ==
  [ref |-> frame.intent.paymentRef, recipient |-> recipient,
   amount |-> frame.intent.amount, nonce |-> frame.intent.nonce]

\* The receipts after a call returns: a deposit emits one, a sweep none.
Emits(frame, recipient) ==
  IF frame.call = "deposit"
  THEN [world.receipts EXCEPT ![frame.intent.payer] = Append(@, Receipt(frame, recipient))]
  ELSE world.receipts

Accepts ==
  /\ frames # <<>>
  /\ world' = [world EXCEPT !.entered = FALSE,
                            !.receipts = Emits(Head(frames), Head(frames).recipient)]
  /\ frames' = Tail(frames)
  /\ UNCHANGED <<signed, now>>

\* Mutated form of Rejects: the result of the call is ignored, so the value
\* stays in the vault and the receipt is emitted.
RejectsUnnoticed ==
  /\ frames # <<>>
  /\ world' = IF Head(frames).call = "sweep" THEN Head(frames).saved
              ELSE [Head(frames).saved EXCEPT
                      !.nonces[Head(frames).intent.payer] = @ + 1,
                      !.balance = @ + Head(frames).intent.amount,
                      !.receipts[Head(frames).intent.payer] =
                         Append(@, Receipt(Head(frames), Head(frames).recipient))]
  /\ frames' = Tail(frames)
  /\ UNCHANGED <<signed, now>>

Rejects ==
  /\ frames # <<>>
  /\ world' = Head(frames).saved
  /\ frames' = Tail(frames)
  /\ UNCHANGED <<signed, now>>

-----------------------------------------------------------------------------
(* The owner's policy: between transactions, or from within the treasury.   *)
(* renounceOwnership always reverts.                                        *)

\* Mutated form of SetIntentSigner: no check of the address.
SetIntentSignerUnchecked(newSigner) ==
  /\ OwnerCalls
  /\ world' = [world EXCEPT !.intentSigner = newSigner]
  /\ UNCHANGED <<frames, signed, now>>

SetTreasury(newTreasury) ==
  /\ OwnerCalls
  /\ newTreasury # Zero
  /\ newTreasury # Vault
  /\ world' = [world EXCEPT !.treasury = newTreasury]
  /\ UNCHANGED <<frames, signed, now>>

SetIntentSigner(newSigner) ==
  /\ OwnerCalls
  /\ newSigner # Zero
  /\ world' = [world EXCEPT !.intentSigner = newSigner]
  /\ UNCHANGED <<frames, signed, now>>

Pause ==
  /\ OwnerCalls
  /\ ~world.paused
  /\ world' = [world EXCEPT !.paused = TRUE]
  /\ UNCHANGED <<frames, signed, now>>

Unpause ==
  /\ OwnerCalls
  /\ world.paused
  /\ world' = [world EXCEPT !.paused = FALSE]
  /\ UNCHANGED <<frames, signed, now>>

TransferOwnership(newOwner) ==
  /\ OwnerCalls
  /\ world' = [world EXCEPT !.pendingOwner = newOwner]
  /\ UNCHANGED <<frames, signed, now>>

\* Only the pending owner can call this, and neither address(0) nor the vault
\* calls anything here.
AcceptOwnership ==
  /\ world.pendingOwner \in Accounts
  /\ Calls(world.pendingOwner)
  /\ world' = [world EXCEPT !.owner = world.pendingOwner, !.pendingOwner = Zero]
  /\ UNCHANGED <<frames, signed, now>>

Next ==
  \/ \E intent \in Intents, key \in Keys : Sign(intent, key)
  \/ Tick
  \/ ForceNative
  \/ \E intent \in Intents, signer \in Keys \cup {Zero} : Deposit(intent, signer)
  \/ SweepForcedNative
  \/ Accepts
  \/ Rejects
  \/ \E newTreasury \in Addresses : SetTreasury(newTreasury)
  \/ \E newSigner \in Keys \cup {Zero} : SetIntentSigner(newSigner)
  \/ Pause \/ Unpause
  \/ \E newOwner \in Accounts \cup {Zero} : TransferOwnership(newOwner)
  \/ AcceptOwnership

Spec == Init /\ [][Next]_vars

-----------------------------------------------------------------------------
(* Properties                                                               *)

TypeOK ==
  /\ world \in Worlds
  /\ frames \in Seq(DepositFrames \cup SweepFrames)
  /\ signed \subseteq SignedIntents
  /\ now \in Times

\* What the transactions that have ended left behind.
committed == IF frames = <<>> THEN world ELSE frames[Len(frames)].saved

DepositsInFlight == {i \in DOMAIN frames : frames[i].call = "deposit"}
InFlight(p) == {i \in DepositsInFlight : frames[i].intent.payer = p}

\* The receipts of a payer are numbered 0, 1, 2, ... in the order they settle,
\* and a deposit in flight holds the next number: no receiptId is emitted twice
\* and none is skipped, whatever the treasury calls while it is paid
\* (DepositVault.sol 180-189, 318-320).
ReceiptsAreConsecutive ==
  \A p \in Payers :
    /\ \A i \in DOMAIN world.receipts[p] : world.receipts[p][i].nonce = i - 1
    /\ \A i \in InFlight(p) : frames[i].intent.nonce = Len(world.receipts[p])
    /\ world.nonces[p] = Len(world.receipts[p]) + Cardinality(InFlight(p))

SumOf(f) == MapThenSumSet(LAMBDA x : f[x], DOMAIN f)
Credit(rs, a) == SumOf([i \in DOMAIN rs |-> IF rs[i].recipient = a THEN rs[i].amount ELSE 0])
ReceiptTotal(receipts, a) == SumOf([p \in Payers |-> Credit(receipts[p], a)])
OnTheWay(i, a) ==
  IF i \in DepositsInFlight /\ frames[i].recipient = a THEN frames[i].intent.amount ELSE 0

\* Every recipient got what its receipts (and the deposit in flight) say, and
\* the vault keeps nothing of a deposit: it holds the forced value that was not
\* swept (DepositVault.sol 189, 207-217, 324-330).
ReceiptsArePaid ==
  /\ \A a \in Accounts :
       world.paid[a] = ReceiptTotal(world.receipts, a) + SumOf([i \in DOMAIN frames |-> OnTheWay(i, a)])
  /\ world.balance = world.forced - world.swept

\* Every receipt settles an intent that a backend key has signed, for the
\* treasury that was signed: a rotation never redirects a payment, and no
\* malformed signature authorises one (DepositVault.sol 167-178, 294-300).
ReceiptsAreSigned ==
  \A p \in Payers : \A i \in DOMAIN world.receipts[p] :
    \E s \in signed :
      /\ s.intent.payer = p
      /\ Receipt([intent |-> s.intent], s.intent.treasury) = world.receipts[p][i]

\* A deposit is one step of the off-chain ledger, and nothing else is.
Ledger == INSTANCE DepositLedger WITH
            Recipients <- Accounts, receipts <- committed.receipts, paid <- committed.paid

\* The vault implements the ledger: receipts and payments appear together, one
\* deposit at a time (DepositVault.sol 137-142, 185-190).
ImplementsLedger == Ledger!LedgerSpec
=============================================================================
