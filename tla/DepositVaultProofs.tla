------------------------- MODULE DepositVaultProofs -------------------------
(***************************************************************************)
(* Proofs about DepositVault, for any accounts, keys, intents and bounds.  *)
(* The inductive invariant says that at most one call waits for the        *)
(* treasury, that the world it would restore is settled, and that until it *)
(* returns the world differs from that one by exactly the call's nonce and *)
(* payment, whatever the owner changes meanwhile.  The sums of             *)
(* ReceiptsArePaid are folds: the lemmas about them argue from a smallest  *)
(* set for which they would fail, in place of an induction.                *)
(***************************************************************************)
EXTENDS DepositVault, FiniteSetTheorems, WellFoundedInduction, TLAPS

Justified(p, receipt) ==
  \E s \in signed :
    /\ s.intent.payer = p
    /\ Receipt([intent |-> s.intent], s.intent.treasury) = receipt

\* Every nonce that was used up has its receipt, and every receipt its intent.
SettledWorld(w) ==
  /\ ~w.entered
  /\ \A p \in Payers :
       /\ w.nonces[p] = Len(w.receipts[p])
       /\ \A i \in 1..Len(w.receipts[p]) :
            w.receipts[p][i].nonce = i - 1 /\ Justified(p, w.receipts[p][i])

DepositInTransit(f) ==
  /\ f \in DepositFrames
  /\ f.intent.nonce = f.saved.nonces[f.intent.payer]
  /\ f.intent.treasury = f.recipient
  /\ \E s \in signed : s.intent = f.intent
  /\ world.nonces = [f.saved.nonces EXCEPT ![f.intent.payer] = @ + 1]
  /\ world.paid = [f.saved.paid EXCEPT ![f.recipient] = @ + f.intent.amount]

SweepInTransit(f) ==
  /\ f \in SweepFrames
  /\ world.nonces = f.saved.nonces
  /\ world.paid = f.saved.paid

OneCall ==
  \/ frames = <<>> /\ SettledWorld(world)
  \/ \E f \in DepositFrames \cup SweepFrames :
       /\ frames = <<f>>
       /\ world.entered
       /\ SettledWorld(f.saved)
       /\ world.receipts = f.saved.receipts
       /\ DepositInTransit(f) \/ SweepInTransit(f)

IInv == TypeOK /\ OneCall

-----------------------------------------------------------------------------

\* The constructor leaves a settled vault.
LEMMA InitOneCall == Init => IInv
<1> SUFFICES ASSUME Init PROVE IInv
  OBVIOUS
<1> USE VaultAssumption
<1>1. world \in Worlds
  <2>1. PICK owner \in Accounts, treasury \in Accounts, signer \in Keys :
          world = [owner |-> owner, pendingOwner |-> Zero, treasury |-> treasury,
                   intentSigner |-> signer, paused |-> FALSE, entered |-> FALSE,
                   nonces |-> [p \in Payers |-> 0], balance |-> 0,
                   receipts |-> [p \in Payers |-> <<>>], paid |-> [a \in Accounts |-> 0],
                   forced |-> 0, swept |-> 0]
    BY DEF Init
  <2>2. /\ [p \in Payers |-> 0] \in [Payers -> Nat]
        /\ [p \in Payers |-> <<>>] \in [Payers -> Seq(Receipts)]
        /\ [a \in Accounts |-> 0] \in [Accounts -> Nat]
    OBVIOUS
  <2> QED
    BY <2>1, <2>2 DEF Worlds
<1>2. TypeOK
  BY <1>1 DEF Init, TypeOK, Times
<1>3. SettledWorld(world)
  BY DEF Init, SettledWorld
<1> QED
  BY <1>2, <1>3 DEF Init, IInv, OneCall

\* A frame on an empty stack, and the stack without its only frame.
LEMMA Frames ==
  ASSUME NEW f
  PROVE  /\ <<f>> \o <<>> = <<f>>
         /\ Head(<<f>>) = f /\ Tail(<<f>>) = <<>> /\ <<f>> # <<>> /\ Len(<<f>>) = 1
OBVIOUS

\* What a step changes besides receipts, nonces, payments and the guard leaves
\* the invariant alone.
LEMMA PolicyKeepsOneCall ==
  ASSUME IInv, world' \in Worlds, frames' = frames, signed' = signed, now' \in Times,
         world'.receipts = world.receipts, world'.nonces = world.nonces,
         world'.paid = world.paid, world'.entered = world.entered
  PROVE  IInv'
<1>1. TypeOK'
  BY DEF IInv, TypeOK
<1>2. CASE frames = <<>> /\ SettledWorld(world)
  <2>1. SettledWorld(world')
    BY <1>2 DEF SettledWorld
  <2>2. SettledWorld(world)'
    BY <2>1 DEF SettledWorld, Justified
  <2> QED
    BY <1>1, <1>2, <2>2 DEF IInv, OneCall
<1>3. CASE frames # <<>> \/ ~SettledWorld(world)
  <2>1. PICK f \in DepositFrames \cup SweepFrames :
          /\ frames = <<f>>
          /\ world.entered
          /\ SettledWorld(f.saved)
          /\ world.receipts = f.saved.receipts
          /\ DepositInTransit(f) \/ SweepInTransit(f)
    BY <1>3 DEF IInv, OneCall
  <2>2. (SettledWorld(f.saved))'
    BY <2>1 DEF SettledWorld, Justified
  <2>3. (DepositInTransit(f) \/ SweepInTransit(f))'
    BY <2>1 DEF DepositInTransit, SweepInTransit
  <2> QED
    BY <1>1, <2>1, <2>2, <2>3 DEF IInv, OneCall
<1> QED
  BY <1>2, <1>3

-----------------------------------------------------------------------------
(* The steps that move money or nonces                                      *)

\* Only a settled vault starts a call of the treasury.
LEMMA EnteredMeansFrames == IInv => (world.entered <=> frames # <<>>)
BY DEF IInv, OneCall, SettledWorld

LEMMA DepositKeepsOneCall ==
  ASSUME IInv, NEW intent \in Intents, NEW signer \in Keys \cup {Zero}, Deposit(intent, signer)
  PROVE  IInv'
<1> USE VaultAssumption
<1>0. PICK f : f = [call |-> "deposit", intent |-> intent, recipient |-> world.treasury, saved |-> world]
  OBVIOUS
<1>1. /\ frames = <<>> /\ SettledWorld(world)
      /\ world \in Worlds /\ signed \subseteq SignedIntents /\ now \in Times
  BY EnteredMeansFrames DEF Deposit, IInv, OneCall, TypeOK
<1>2. /\ frames' = <<f>>
      /\ world' = [world EXCEPT !.entered = TRUE,
                                !.nonces[intent.payer] = @ + 1,
                                !.paid[world.treasury] = @ + intent.amount]
      /\ signed' = signed /\ now' = now
      /\ intent.nonce = world.nonces[intent.payer]
      /\ intent.treasury = world.treasury
  BY <1>0, <1>1, Frames DEF Deposit, EnterDeposit, Payable
<1>3. f \in DepositFrames
  BY <1>0, <1>1 DEF DepositFrames, Worlds
<1>4. \E s \in signed : s.intent = intent
  BY <1>1 DEF Deposit, Payable, RecoversTo, Worlds
<1>5. /\ intent.payer \in Payers /\ intent.amount \in Nat
      /\ world.treasury \in Accounts
      /\ world.nonces \in [Payers -> Nat] /\ world.paid \in [Accounts -> Nat]
  BY <1>1 DEF Intents, Worlds
<1>6. /\ world'.nonces = [world.nonces EXCEPT ![intent.payer] = @ + 1]
      /\ world'.paid = [world.paid EXCEPT ![world.treasury] = @ + intent.amount]
      /\ world'.receipts = world.receipts
      /\ world'.entered
  BY <1>1, <1>2 DEF Worlds
<1>7. world' \in Worlds
  <2>1. /\ [world.nonces EXCEPT ![intent.payer] = @ + 1] \in [Payers -> Nat]
        /\ [world.paid EXCEPT ![world.treasury] = @ + intent.amount] \in [Accounts -> Nat]
    BY <1>5
  <2> QED
    BY <1>1, <1>2, <2>1 DEF Worlds
<1>8. TypeOK'
  <2>1. <<f>> \in Seq(DepositFrames \cup SweepFrames)
    BY <1>3
  <2> QED
    BY <1>1, <1>2, <1>7, <2>1 DEF TypeOK
<1>9. DepositInTransit(f)'
  BY <1>0, <1>2, <1>3, <1>4, <1>6 DEF DepositInTransit
<1>10. SettledWorld(f.saved)'
  BY <1>0, <1>1, <1>2 DEF SettledWorld, Justified
<1>11. f.saved = world
  BY <1>0
<1> QED
  BY <1>2, <1>3, <1>6, <1>8, <1>9, <1>10, <1>11 DEF IInv, OneCall

LEMMA SweepKeepsOneCall ==
  ASSUME IInv, SweepForcedNative
  PROVE  IInv'
<1> USE VaultAssumption
<1>0. PICK f : f = [call |-> "sweep", recipient |-> world.treasury, saved |-> world]
  OBVIOUS
<1>1. /\ frames = <<>> /\ SettledWorld(world)
      /\ world \in Worlds /\ signed \subseteq SignedIntents /\ now \in Times
  BY EnteredMeansFrames DEF SweepForcedNative, IInv, OneCall, TypeOK
<1>2. /\ frames' = <<f>>
      /\ world' = [world EXCEPT !.entered = TRUE, !.balance = 0, !.swept = @ + world.balance]
      /\ signed' = signed /\ now' = now
  BY <1>0, <1>1, Frames DEF SweepForcedNative
<1>3. f \in SweepFrames
  BY <1>0, <1>1 DEF SweepFrames, Worlds
<1>4. /\ world'.nonces = world.nonces /\ world'.paid = world.paid
      /\ world'.receipts = world.receipts /\ world'.entered
  BY <1>1, <1>2 DEF Worlds
<1>5. world' \in Worlds
  <2>1. world.swept + world.balance \in Nat
    BY <1>1 DEF Worlds
  <2> QED
    BY <1>1, <1>2, <2>1 DEF Worlds
<1>6. TypeOK'
  <2>1. <<f>> \in Seq(DepositFrames \cup SweepFrames)
    BY <1>3
  <2> QED
    BY <1>1, <1>2, <1>5, <2>1 DEF TypeOK
<1>7. SettledWorld(f.saved)'
  BY <1>0, <1>1, <1>2 DEF SettledWorld, Justified
<1>8. f.saved = world
  BY <1>0
<1>9. SweepInTransit(f)'
  BY <1>3, <1>4, <1>8 DEF SweepInTransit
<1> QED
  BY <1>2, <1>3, <1>4, <1>6, <1>7, <1>8, <1>9 DEF IInv, OneCall

LEMMA RejectsKeepsOneCall ==
  ASSUME IInv, Rejects
  PROVE  IInv'
<1>1. PICK f \in DepositFrames \cup SweepFrames : frames = <<f>> /\ SettledWorld(f.saved)
  BY DEF IInv, OneCall, Rejects
<1>2. /\ world' = f.saved /\ frames' = <<>> /\ signed' = signed /\ now' = now
  BY <1>1, Frames DEF Rejects
<1>3. f.saved \in Worlds
  BY DEF DepositFrames, SweepFrames
<1>4. SettledWorld(world)'
  BY <1>1, <1>2 DEF SettledWorld, Justified
<1>5. TypeOK'
  BY <1>2, <1>3 DEF IInv, TypeOK
<1> QED
  BY <1>2, <1>4, <1>5 DEF IInv, OneCall

\* A deposit that returns adds the one receipt its nonce was waiting for.
LEMMA AcceptsKeepsOneCall ==
  ASSUME IInv, Accepts
  PROVE  IInv'
<1>1. PICK f \in DepositFrames \cup SweepFrames :
        /\ frames = <<f>>
        /\ SettledWorld(f.saved)
        /\ world.receipts = f.saved.receipts
        /\ DepositInTransit(f) \/ SweepInTransit(f)
  BY DEF IInv, OneCall, Accepts
<1>2. /\ world \in Worlds /\ frames' = <<>> /\ signed' = signed /\ now' = now
      /\ world' = [world EXCEPT !.entered = FALSE, !.receipts = Emits(f, f.recipient)]
  BY <1>1, Frames DEF Accepts, IInv, TypeOK
<1>3. ~world'.entered /\ world'.nonces = world.nonces
  BY <1>2 DEF Worlds
<1>7. frames' = <<>> /\ signed' = signed /\ now' = now /\ now \in Times /\ signed \subseteq SignedIntents
  BY <1>2 DEF IInv, TypeOK
<1>4. /\ world.receipts \in [Payers -> Seq(Receipts)] /\ f.saved \in Worlds
      /\ f.saved.nonces \in [Payers -> Nat]
  BY <1>1, <1>2 DEF Worlds, DepositFrames, SweepFrames
<1>5. CASE f \in SweepFrames
  <2>1. world'.receipts = f.saved.receipts /\ world'.nonces = f.saved.nonces /\ world' \in Worlds
    <3>1. f.call = "sweep" /\ SweepInTransit(f)
      BY <1>1, <1>5 DEF DepositInTransit, DepositFrames, SweepFrames
    <3>2. world' = [world EXCEPT !.entered = FALSE, !.receipts = world.receipts]
      BY <1>2, <3>1 DEF Emits
    <3> QED
      BY <1>1, <1>2, <1>3, <3>1, <3>2 DEF Worlds, SweepInTransit
  <2>2. SettledWorld(world)'
    BY <1>1, <1>3, <1>7, <2>1 DEF SettledWorld, Justified
  <2>3. TypeOK'
    BY <1>7, <2>1 DEF TypeOK
  <2> QED
    BY <1>7, <2>2, <2>3 DEF IInv, OneCall
<1>6. CASE f \in DepositFrames
  <2> DEFINE p == f.intent.payer
             r == Receipt(f, f.recipient)
  <2>1. /\ DepositInTransit(f) /\ f.call = "deposit" /\ f.intent \in Intents
        /\ f.recipient \in Accounts /\ p \in Payers
    BY <1>1, <1>6 DEF DepositFrames, SweepFrames, SweepInTransit, Intents
  <2>2. r \in Receipts
    BY <2>1, VaultAssumption DEF Receipt, Receipts, Intents
  <2>3. world'.receipts = [world.receipts EXCEPT ![p] = Append(@, r)]
    <3>1. world'.receipts = Emits(f, f.recipient)
      BY <1>2 DEF Worlds
    <3> QED
      BY <2>1, <3>1 DEF Emits
  <2>4. world'.receipts \in [Payers -> Seq(Receipts)]
    <3>1. p \in Payers
      BY <2>1
    <3> HIDE DEF p, r
    <3>2. PICK new : new = Append(world.receipts[p], r)
      OBVIOUS
    <3>3. new \in Seq(Receipts)
      BY <1>4, <2>2, <3>1, <3>2
    <3>4. world'.receipts = [world.receipts EXCEPT ![p] = new]
      BY <2>3, <3>2
    <3> QED
      BY <1>4, <3>1, <3>3, <3>4
  <2>5. world' \in Worlds
    BY <1>2, <2>1, <2>3, <2>4 DEF Worlds
  <2>6. Justified(p, r)
    BY <2>1 DEF Justified, DepositInTransit, Receipt
  <2>7. r.nonce = Len(world.receipts[p])
    BY <1>1, <2>1 DEF Receipt, DepositInTransit, SettledWorld
  <2>8. ASSUME NEW q \in Payers
        PROVE  /\ world'.nonces[q] = Len(world'.receipts[q])
               /\ \A i \in 1..Len(world'.receipts[q]) :
                    world'.receipts[q][i].nonce = i - 1 /\ Justified(q, world'.receipts[q][i])
    <3> HIDE DEF r
    <3>1. /\ f.saved.nonces[q] = Len(world.receipts[q])
          /\ \A i \in 1..Len(world.receipts[q]) :
               world.receipts[q][i].nonce = i - 1 /\ Justified(q, world.receipts[q][i])
      BY <1>1 DEF SettledWorld
    <3>2. CASE q = p
      <4>1. world'.receipts[q] = Append(world.receipts[q], r) /\ world.receipts[q] \in Seq(Receipts)
        BY <1>4, <2>3, <3>2
      <4>2. world'.nonces[q] = Len(world.receipts[q]) + 1
        BY <1>3, <1>4, <2>1, <3>1, <3>2 DEF DepositInTransit
      <4>3. /\ Len(world'.receipts[q]) = Len(world.receipts[q]) + 1
            /\ \A i \in 1..Len(world.receipts[q]) : world'.receipts[q][i] = world.receipts[q][i]
            /\ world'.receipts[q][Len(world.receipts[q]) + 1] = r
        BY <2>2, <4>1
      <4>4. Len(world.receipts[q]) \in Nat
        BY <4>1
      <4>5. ASSUME NEW i \in 1..(Len(world.receipts[q]) + 1)
            PROVE  world'.receipts[q][i].nonce = i - 1 /\ Justified(q, world'.receipts[q][i])
        <5> DEFINE n == Len(world.receipts[q])
        <5>1. CASE i = n + 1
          <6>1. world'.receipts[q][i] = r /\ Justified(q, r) /\ r.nonce = n
            BY <2>6, <2>7, <3>2, <4>3, <5>1
          <6> QED
            BY <4>4, <5>1, <6>1
        <5>2. CASE i # n + 1
          <6>1. i \in 1..n
            BY <4>4, <5>2
          <6> QED
            BY <3>1, <4>3, <6>1
        <5> QED
          BY <5>1, <5>2
      <4> QED
        BY <4>2, <4>3, <4>5
    <3>3. CASE q # p
      <4>1. world'.receipts[q] = world.receipts[q]
        BY <1>4, <2>3, <3>3
      <4>2. world'.nonces[q] = f.saved.nonces[q]
        BY <1>3, <1>4, <2>1, <3>3 DEF DepositInTransit
      <4> QED
        BY <3>1, <4>1, <4>2
    <3> QED
      BY <3>2, <3>3
  <2>9. SettledWorld(world)'
    BY <1>2, <1>3, <2>8 DEF SettledWorld, Justified
  <2> QED
    BY <1>2, <2>5, <2>9 DEF IInv, OneCall, TypeOK
<1> QED
  BY <1>5, <1>6

-----------------------------------------------------------------------------
(* Every step                                                               *)

LEMMA SignKeepsOneCall ==
  ASSUME IInv, NEW intent \in Intents, NEW key \in Keys, Sign(intent, key)
  PROVE  IInv'
<1>1. frames = <<>> /\ SettledWorld(world)
  BY DEF IInv, OneCall, Sign
<1>2. TypeOK'
  BY DEF IInv, TypeOK, Sign, SignedIntents
<1>3. SettledWorld(world)'
  BY <1>1 DEF SettledWorld, Justified, Sign
<1> QED
  BY <1>1, <1>2, <1>3 DEF IInv, OneCall, Sign

LEMMA StepKeepsOneCall == IInv /\ [Next]_vars => IInv'
<1> SUFFICES ASSUME IInv, [Next]_vars PROVE IInv'
  OBVIOUS
<1> USE VaultAssumption
<1>0. world \in Worlds /\ now \in Times
  BY DEF IInv, TypeOK
<1>1. ASSUME NEW intent \in Intents, NEW key \in Keys, Sign(intent, key) PROVE IInv'
  BY <1>1, SignKeepsOneCall
<1>2. CASE Tick
  BY <1>0, <1>2, PolicyKeepsOneCall DEF Tick, Times
<1>3. CASE ForceNative
  <2>1. world.forced + 1 \in Nat /\ world.balance + 1 \in Nat
    BY <1>0 DEF Worlds
  <2>2. world' = [world EXCEPT !.forced = @ + 1, !.balance = @ + 1]
    BY <1>3 DEF ForceNative
  <2>3. /\ world' \in Worlds
        /\ world'.receipts = world.receipts /\ world'.nonces = world.nonces
        /\ world'.paid = world.paid /\ world'.entered = world.entered
    BY <1>0, <2>1, <2>2 DEF Worlds
  <2> QED
    BY <1>0, <1>3, <2>3, PolicyKeepsOneCall DEF ForceNative
<1>4. ASSUME NEW intent \in Intents, NEW signer \in Keys \cup {Zero}, Deposit(intent, signer)
      PROVE  IInv'
  BY <1>4, DepositKeepsOneCall
<1>5. CASE SweepForcedNative
  BY <1>5, SweepKeepsOneCall
<1>6. CASE Accepts
  BY <1>6, AcceptsKeepsOneCall
<1>7. CASE Rejects
  BY <1>7, RejectsKeepsOneCall
<1>8. ASSUME NEW newTreasury \in Addresses, SetTreasury(newTreasury) PROVE IInv'
  <2>1. newTreasury \in Accounts /\ world' = [world EXCEPT !.treasury = newTreasury]
    BY <1>8 DEF SetTreasury, Addresses
  <2>2. /\ world' \in Worlds
        /\ world'.receipts = world.receipts /\ world'.nonces = world.nonces
        /\ world'.paid = world.paid /\ world'.entered = world.entered
    BY <1>0, <2>1 DEF Worlds
  <2> QED
    BY <1>0, <1>8, <2>2, PolicyKeepsOneCall DEF SetTreasury
<1>9. ASSUME NEW newSigner \in Keys \cup {Zero}, SetIntentSigner(newSigner) PROVE IInv'
  <2>1. newSigner \in Keys /\ world' = [world EXCEPT !.intentSigner = newSigner]
    BY <1>9 DEF SetIntentSigner
  <2>2. /\ world' \in Worlds
        /\ world'.receipts = world.receipts /\ world'.nonces = world.nonces
        /\ world'.paid = world.paid /\ world'.entered = world.entered
    BY <1>0, <2>1 DEF Worlds
  <2> QED
    BY <1>0, <1>9, <2>2, PolicyKeepsOneCall DEF SetIntentSigner
<1>10. ASSUME NEW b \in BOOLEAN, Pause \/ Unpause, world' = [world EXCEPT !.paused = b] PROVE IInv'
  <2>1. /\ world' \in Worlds
        /\ world'.receipts = world.receipts /\ world'.nonces = world.nonces
        /\ world'.paid = world.paid /\ world'.entered = world.entered
    BY <1>0, <1>10 DEF Worlds
  <2> QED
    BY <1>0, <1>10, <2>1, PolicyKeepsOneCall DEF Pause, Unpause
<1>11. ASSUME NEW newOwner \in Accounts \cup {Zero}, TransferOwnership(newOwner) PROVE IInv'
  <2>1. /\ world' \in Worlds
        /\ world'.receipts = world.receipts /\ world'.nonces = world.nonces
        /\ world'.paid = world.paid /\ world'.entered = world.entered
    BY <1>0, <1>11 DEF Worlds, TransferOwnership
  <2> QED
    BY <1>0, <1>11, <2>1, PolicyKeepsOneCall DEF TransferOwnership
<1>12. CASE AcceptOwnership
  <2>1. /\ world' \in Worlds
        /\ world'.receipts = world.receipts /\ world'.nonces = world.nonces
        /\ world'.paid = world.paid /\ world'.entered = world.entered
    BY <1>0, <1>12 DEF Worlds, AcceptOwnership
  <2> QED
    BY <1>0, <1>12, <2>1, PolicyKeepsOneCall DEF AcceptOwnership
<1>13. CASE UNCHANGED vars
  BY <1>0, <1>13, PolicyKeepsOneCall DEF vars
<1> QED
  BY <1>1, <1>2, <1>3, <1>4, <1>5, <1>6, <1>7, <1>8, <1>9, <1>10, <1>11, <1>12, <1>13
  DEF Next, Pause, Unpause

\* The inductive invariant holds in every reachable state.
THEOREM VaultInvariant == Spec => []IInv
BY InitOneCall, StepKeepsOneCall, PTL DEF Spec

\* The vault's state has its type, whatever the treasury calls.
THEOREM VaultTypeOK == Spec => []TypeOK
<1>1. IInv => TypeOK
  BY DEF IInv
<1> QED
  BY <1>1, VaultInvariant, PTL

\* No receiptId is emitted twice and none is skipped, for any payers, intents
\* and treasuries.
THEOREM VaultReceiptsAreConsecutive == Spec => []ReceiptsAreConsecutive
<1>1. IInv => ReceiptsAreConsecutive
  <2> SUFFICES ASSUME IInv, NEW p \in Payers
               PROVE  /\ \A i \in DOMAIN world.receipts[p] : world.receipts[p][i].nonce = i - 1
                      /\ \A i \in InFlight(p) : frames[i].intent.nonce = Len(world.receipts[p])
                      /\ world.nonces[p] = Len(world.receipts[p]) + Cardinality(InFlight(p))
    BY DEF ReceiptsAreConsecutive
  <2>1. /\ world.receipts[p] \in Seq(Receipts)
        /\ DOMAIN world.receipts[p] = 1..Len(world.receipts[p])
        /\ Len(world.receipts[p]) \in Nat
    BY DEF IInv, TypeOK, Worlds
  <2>2. Cardinality({}) = 0 /\ Cardinality({1}) = 1
    BY FS_EmptySet, FS_Singleton
  <2>3. CASE frames = <<>> /\ SettledWorld(world)
    <3>1. InFlight(p) = {}
      BY <2>3 DEF InFlight, DepositsInFlight
    <3>2. world.nonces[p] = Len(world.receipts[p])
      BY <2>3 DEF SettledWorld
    <3> QED
      BY <2>1, <2>2, <2>3, <3>1, <3>2 DEF SettledWorld
  <2>4. ASSUME NEW f \in DepositFrames \cup SweepFrames, frames = <<f>>, SettledWorld(f.saved),
               world.receipts = f.saved.receipts, DepositInTransit(f) \/ SweepInTransit(f)
        PROVE  /\ \A i \in DOMAIN world.receipts[p] : world.receipts[p][i].nonce = i - 1
               /\ \A i \in InFlight(p) : frames[i].intent.nonce = Len(world.receipts[p])
               /\ world.nonces[p] = Len(world.receipts[p]) + Cardinality(InFlight(p))
    <3>1. /\ \A i \in DOMAIN world.receipts[p] : world.receipts[p][i].nonce = i - 1
          /\ f.saved.nonces[p] = Len(world.receipts[p])
      BY <2>1, <2>4 DEF SettledWorld
    <3>2. DOMAIN frames = {1} /\ frames[1] = f
      BY <2>4
    <3>3. f.saved.nonces \in [Payers -> Nat]
      BY DEF DepositFrames, SweepFrames, Worlds
    <3>4. CASE SweepInTransit(f)
      <4>1. InFlight(p) = {}
        BY <3>2, <3>4 DEF InFlight, DepositsInFlight, SweepInTransit, SweepFrames
      <4> QED
        BY <2>1, <2>2, <3>1, <3>4, <4>1 DEF SweepInTransit
    <3>5. CASE DepositInTransit(f) /\ f.intent.payer = p
      <4>1. InFlight(p) = {1}
        BY <3>2, <3>5 DEF InFlight, DepositsInFlight, DepositInTransit, DepositFrames
      <4>2. world.nonces[p] = f.saved.nonces[p] + 1 /\ f.intent.nonce = f.saved.nonces[p]
        BY <3>3, <3>5 DEF DepositInTransit
      <4> QED
        BY <2>1, <2>2, <3>1, <3>2, <4>1, <4>2
    <3>6. CASE DepositInTransit(f) /\ f.intent.payer # p
      <4>1. InFlight(p) = {}
        BY <3>2, <3>6 DEF InFlight, DepositsInFlight
      <4>2. world.nonces[p] = f.saved.nonces[p]
        BY <3>3, <3>6 DEF DepositInTransit
      <4> QED
        BY <2>1, <2>2, <3>1, <4>1, <4>2
    <3> QED
      BY <2>4, <3>4, <3>5, <3>6
  <2> QED
    BY <2>3, <2>4 DEF IInv, OneCall
<1> QED
  BY <1>1, VaultInvariant, PTL

\* Every receipt settles an intent that a backend key signed for the treasury
\* that was paid, whatever keys and treasuries the owner rotates.
THEOREM VaultReceiptsAreSigned == Spec => []ReceiptsAreSigned
<1>1. IInv => ReceiptsAreSigned
  <2> SUFFICES ASSUME IInv, NEW p \in Payers, NEW i \in DOMAIN world.receipts[p]
               PROVE  Justified(p, world.receipts[p][i])
    BY DEF ReceiptsAreSigned, Justified
  <2>1. i \in 1..Len(world.receipts[p])
    BY DEF IInv, TypeOK, Worlds
  <2> QED
    BY <2>1 DEF IInv, OneCall, SettledWorld
<1> QED
  BY <1>1, VaultInvariant, PTL

-----------------------------------------------------------------------------
(* The vault implements the ledger                                          *)

LEMMA Committed ==
  /\ frames = <<>> => committed = world
  /\ \A f : frames = <<f>> => committed = f.saved
BY DEF committed

LEMMA InitImplementsLedger == Init => Ledger!LedgerInit
BY Committed DEF Init, Ledger!LedgerInit

\* The return of a deposit settles it; every other step leaves the receipts and
\* the payments of the ended transactions alone.
LEMMA StepImplementsLedger ==
  IInv /\ IInv' /\ [Next]_vars => [Ledger!LedgerNext]_(Ledger!ledgerVars)
<1> SUFFICES ASSUME IInv, IInv', [Next]_vars
             PROVE  [Ledger!LedgerNext]_(Ledger!ledgerVars)
  OBVIOUS
<1> USE DEF Ledger!ledgerVars
<1>0. world \in Worlds
  BY DEF IInv, TypeOK
<1>1. (\A f : frames' = <<f>> => committed' = f.saved) /\ (frames' = <<>> => committed' = world')
  BY DEF committed
<1>2. CASE Accepts /\ \E f \in DepositFrames : frames = <<f>>
  <2>1. PICK f \in DepositFrames :
          /\ frames = <<f>> /\ SettledWorld(f.saved)
          /\ world.receipts = f.saved.receipts /\ DepositInTransit(f)
    BY <1>2 DEF IInv, OneCall, SweepInTransit, SweepFrames, DepositFrames
  <2>2. /\ world' = [world EXCEPT !.entered = FALSE, !.receipts = Emits(f, f.recipient)]
        /\ frames' = <<>>
    BY <1>2, <2>1, Frames DEF Accepts
  <2>3. committed = f.saved /\ committed' = world'
    BY <1>1, <2>1, <2>2, Committed
  <2>4. /\ f.call = "deposit" /\ f.intent \in Intents /\ f.recipient \in Accounts
        /\ f.saved \in Worlds
    BY DEF DepositFrames
  <2>5. /\ f.intent.payer \in Payers /\ f.intent.paymentRef \in Refs /\ f.intent.amount \in Amounts
    BY <2>4 DEF Intents
  <2>6. /\ world'.receipts = [f.saved.receipts EXCEPT ![f.intent.payer] = Append(@, Receipt(f, f.recipient))]
        /\ world'.paid = world.paid
    <3>1. world'.receipts = Emits(f, f.recipient) /\ world'.paid = world.paid
      BY <1>0, <2>2 DEF Worlds
    <3> QED
      BY <2>1, <2>4, <3>1 DEF Emits
  <2>7. Receipt(f, f.recipient) =
          Ledger!Receipt(f.intent.paymentRef, f.recipient, f.intent.amount,
                         Len(f.saved.receipts[f.intent.payer]))
    BY <2>1, <2>5 DEF Receipt, Ledger!Receipt, DepositInTransit, SettledWorld
  <2>8. Ledger!Settle(f.intent.payer, f.intent.paymentRef, f.recipient, f.intent.amount)
    BY <2>1, <2>3, <2>6, <2>7 DEF Ledger!Settle, DepositInTransit
  <2> QED
    BY <2>4, <2>5, <2>8 DEF Ledger!LedgerNext
<1>3. CASE ~(Accepts /\ \E f \in DepositFrames : frames = <<f>>)
  <2> SUFFICES committed'.receipts = committed.receipts /\ committed'.paid = committed.paid
    OBVIOUS
  <2>1. CASE frames' = frames /\ frames # <<>>
    BY <2>1, <1>1, Committed DEF IInv, OneCall
  <2>2. CASE frames' = frames /\ frames = <<>>
    <3>1. world'.receipts = world.receipts /\ world'.paid = world.paid
      <4>1. ASSUME NEW intent \in Intents, NEW signer \in Keys \cup {Zero}, Deposit(intent, signer)
            PROVE  FALSE
        BY <2>2, <4>1, Frames DEF Deposit, EnterDeposit
      <4>2. CASE SweepForcedNative
        BY <2>2, <4>2, Frames DEF SweepForcedNative
      <4>3. CASE Accepts \/ Rejects
        BY <2>2, <4>3 DEF Accepts, Rejects
      <4>4. CASE world' = world
        BY <4>4
      <4>5. CASE ForceNative
        BY <1>0, <4>5 DEF ForceNative, Worlds
      <4>6. ASSUME NEW a \in Addresses, SetTreasury(a) \/ TransferOwnership(a)
            PROVE  world'.receipts = world.receipts /\ world'.paid = world.paid
        BY <1>0, <4>6 DEF SetTreasury, TransferOwnership, Worlds
      <4>7. ASSUME NEW a \in Keys \cup {Zero}, SetIntentSigner(a)
            PROVE  world'.receipts = world.receipts /\ world'.paid = world.paid
        BY <1>0, <4>7 DEF SetIntentSigner, Worlds
      <4>8. CASE Pause \/ Unpause
        BY <1>0, <4>8 DEF Pause, Unpause, Worlds
      <4>9. CASE AcceptOwnership
        BY <1>0, <4>9 DEF AcceptOwnership, Worlds
      <4> QED
        BY <4>1, <4>2, <4>3, <4>4, <4>5, <4>6, <4>7, <4>8, <4>9
        DEF Next, vars, Sign, Tick, Addresses
    <3> QED
      BY <1>1, <2>2, <3>1, Committed
  <2>3. CASE frames' # frames
    <3>1. (\E intent \in Intents, signer \in Keys \cup {Zero} : Deposit(intent, signer))
          \/ SweepForcedNative \/ Accepts \/ Rejects
      BY <2>3 DEF Next, vars, Sign, Tick, ForceNative, SetTreasury, SetIntentSigner, Pause,
         Unpause, TransferOwnership, AcceptOwnership
    <3>2. ASSUME NEW intent \in Intents, NEW signer \in Keys \cup {Zero}, Deposit(intent, signer)
          PROVE  committed' = committed
      <4>1. frames = <<>>
        BY <3>2, EnteredMeansFrames DEF Deposit
      <4>2. \E f : frames' = <<f>> /\ f.saved = world
        BY <3>2, <4>1, Frames DEF Deposit, EnterDeposit
      <4> QED
        BY <1>1, <4>1, <4>2, Committed
    <3>3. CASE SweepForcedNative
      <4>1. frames = <<>>
        BY <3>3, EnteredMeansFrames DEF SweepForcedNative
      <4>2. \E f : frames' = <<f>> /\ f.saved = world
        BY <3>3, <4>1, Frames DEF SweepForcedNative
      <4> QED
        BY <1>1, <4>1, <4>2, Committed
    <3>4. CASE Accepts
      <4>1. PICK f \in SweepFrames :
              frames = <<f>> /\ world.receipts = f.saved.receipts /\ SweepInTransit(f)
        BY <1>3, <3>4 DEF IInv, OneCall, Accepts, DepositInTransit
      <4>2. /\ world' = [world EXCEPT !.entered = FALSE, !.receipts = Emits(f, f.recipient)]
            /\ frames' = <<>>
        BY <3>4, <4>1, Frames DEF Accepts
      <4>3. world'.receipts = world.receipts /\ world'.paid = world.paid
        BY <1>0, <4>2 DEF Worlds, Emits, SweepFrames
      <4> QED
        BY <1>1, <4>1, <4>2, <4>3, Committed DEF SweepInTransit
    <3>5. CASE Rejects
      <4>1. PICK f : frames = <<f>>
        BY <3>5 DEF IInv, OneCall, Rejects
      <4>2. world' = f.saved /\ frames' = <<>>
        BY <3>5, <4>1, Frames DEF Rejects
      <4> QED
        BY <1>1, <4>1, <4>2, Committed
    <3> QED
      BY <3>1, <3>2, <3>3, <3>4, <3>5
  <2> QED
    BY <2>1, <2>2, <2>3
<1> QED
  BY <1>2, <1>3

\* A deposit is one step of the ledger and nothing else is, whatever the
\* treasury and the owner do while it is paid.
THEOREM VaultImplementsLedger == Spec => ImplementsLedger
<1>1. Spec => Ledger!LedgerSpec
  BY InitOneCall, StepKeepsOneCall, InitImplementsLedger, StepImplementsLedger, PTL
  DEF Spec, Ledger!LedgerSpec
<1> QED
  BY <1>1 DEF ImplementsLedger

-----------------------------------------------------------------------------
(* Sums over finite sets                                                    *)

\* The sums of f over the subsets of D, in the order the library adds them up.
Chosen(S) == CHOOSE x \in S : TRUE
SumStep(t, f, S) == IF S = {} THEN 0 ELSE f[Chosen(S)] + t[S \ {Chosen(S)}]
AreSums(t, f, D) == t = [S \in SUBSET D |-> SumStep(t, f, S)]

\* One step of a sum.
LEMMA SumSteps ==
  ASSUME NEW t, NEW f, NEW S
  PROVE  /\ S = {} => SumStep(t, f, S) = 0
         /\ S # {} => Chosen(S) \in S /\ SumStep(t, f, S) = f[Chosen(S)] + t[S \ {Chosen(S)}]
BY DEF SumStep, Chosen

\* A set of numbers has a least one.
LEMMA LeastNumber ==
  ASSUME NEW N \in SUBSET Nat, N # {}
  PROVE  \E x \in N : \A y \in N : x <= y
<1> DEFINE less == {ss \in Nat \X Nat : ss[1] < ss[2]}
<1>1. IsWellFoundedOn(less, Nat)
  BY NatLessThanWellFounded DEF OpToRel
<1> HIDE DEF less
<1>2. PICK x \in N : \A y \in N : <<y, x>> \notin less
  BY <1>1, WFMin
<1>3. ASSUME NEW y \in N PROVE x <= y
  <2>1. <<y, x>> \in Nat \X Nat /\ ~ (y < x)
    BY <1>2 DEF less
  <2> QED
    BY <2>1
<1> QED
  BY <1>3

\* A claim about the subsets of a finite set fails first for a smallest one.
LEMMA SmallestSubset ==
  ASSUME NEW D, IsFiniteSet(D), NEW Wrong \in SUBSET (SUBSET D), Wrong # {}
  PROVE  \E S \in Wrong : /\ IsFiniteSet(S) /\ Cardinality(S) \in Nat
                          /\ \A T \in SUBSET D :
                               IsFiniteSet(T) /\ Cardinality(T) < Cardinality(S) => T \notin Wrong
<1> DEFINE Sizes == {Cardinality(S) : S \in Wrong}
<1>1. \A S \in SUBSET D : IsFiniteSet(S) /\ Cardinality(S) \in Nat
  BY FS_Subset, FS_CardinalityType
<1>2. Sizes \in SUBSET Nat /\ Sizes # {}
  BY <1>1
<1>3. PICK n \in Sizes : \A m \in Sizes : n <= m
  BY <1>2, LeastNumber
<1>4. PICK S \in Wrong : n = Cardinality(S)
  BY <1>3
<1>5. ASSUME NEW T \in SUBSET D, Cardinality(T) < Cardinality(S), T \in Wrong PROVE FALSE
  <2>1. Cardinality(S) <= Cardinality(T)
    BY <1>3, <1>4, <1>5
  <2> QED
    BY <1>1, <1>5, <2>1
<1> QED
  BY <1>1, <1>4, <1>5

\* A finite set without one of its elements is smaller by one.
LEMMA WithoutOne ==
  ASSUME NEW S, IsFiniteSet(S), NEW x \in S
  PROVE  IsFiniteSet(S \ {x}) /\ Cardinality(S \ {x}) = Cardinality(S) - 1 /\ Cardinality(S) \in Nat
BY FS_RemoveElement, FS_CardinalityType

\* The sums over the subsets of at most n elements exist for every n.
LEMMA SumsExist ==
  ASSUME NEW f, NEW D, IsFiniteSet(D)
  PROVE  \E t : AreSums(t, f, D)
<1> DEFINE Small(n) == {S \in SUBSET D : Cardinality(S) <= n}
           Upto(t, n) == \A S \in Small(n) : t[S] = SumStep(t, f, S)
           Without == {n \in Nat : ~ \E t : Upto(t, n)}
<1>1. \A S \in SUBSET D : IsFiniteSet(S) /\ Cardinality(S) \in Nat /\ (Cardinality(S) = 0 <=> S = {})
  BY FS_Subset, FS_CardinalityType, FS_EmptySet
<1>2. ASSUME NEW S \in SUBSET D, S # {}
      PROVE  /\ Chosen(S) \in S /\ S \ {Chosen(S)} \in SUBSET D
             /\ Cardinality(S \ {Chosen(S)}) = Cardinality(S) - 1
  <2>1. Chosen(S) \in S
    BY <1>2, SumSteps
  <2>2. IsFiniteSet(S)
    BY <1>1
  <2> QED
    BY <2>1, <2>2, WithoutOne
<1>3. Without = {}
  <2>1. SUFFICES ASSUME Without # {} PROVE FALSE
    OBVIOUS
  <2>2. PICK n \in Without : \A m \in Without : n <= m
    <3>1. Without \in SUBSET Nat
      OBVIOUS
    <3> QED
      BY <2>1, <3>1, LeastNumber
  <2>3. n \in Nat /\ ~ \E t : Upto(t, n)
    BY <2>2
  <2>4. n # 0
    <3> DEFINE t == [S \in {{}} |-> 0]
    <3>1. \A S \in Small(0) : S = {}
      BY <1>1
    <3>2. Upto(t, 0)
      BY <3>1, SumSteps
    <3> QED
      BY <2>3, <3>2
  <2>5. n - 1 \in Nat /\ n - 1 \notin Without
    BY <2>2, <2>3, <2>4
  <2>6. PICK t : Upto(t, n - 1)
    BY <2>5
  <2> DEFINE u == [S \in Small(n) |-> SumStep(t, f, S)]
  <2>7. ASSUME NEW S \in Small(n)
        PROVE  u[S] = SumStep(u, f, S)
    <3>1. CASE S = {}
      BY <3>1, SumSteps
    <3>2. CASE S # {}
      <4> DEFINE R == S \ {Chosen(S)}
      <4>1. R \in Small(n - 1) /\ R \in Small(n)
        <5>1. R \in SUBSET D /\ Cardinality(R) = Cardinality(S) - 1 /\ Cardinality(S) \in Nat
          BY <1>1, <1>2, <3>2
        <5> HIDE DEF R
        <5>2. Cardinality(S) <= n
          OBVIOUS
        <5> QED
          BY <2>3, <5>1, <5>2
      <4>2. t[R] = SumStep(t, f, R)
        BY <2>6, <4>1
      <4>3. u[R] = SumStep(t, f, R)
        BY <4>1
      <4>4. u[S] = SumStep(t, f, S)
        OBVIOUS
      <4> HIDE DEF u
      <4>5. SumStep(t, f, S) = f[Chosen(S)] + t[R] /\ SumStep(u, f, S) = f[Chosen(S)] + u[R]
        BY <3>2, SumSteps
      <4> QED
        BY <4>2, <4>3, <4>4, <4>5
    <3> QED
      BY <3>1, <3>2
  <2>8. Upto(u, n)
    BY <2>7
  <2> QED
    BY <2>3, <2>8
<1>4. Cardinality(D) \in Nat /\ \A S \in SUBSET D : Cardinality(S) <= Cardinality(D)
  BY FS_Subset, FS_CardinalityType
<1>5. PICK t : Upto(t, Cardinality(D))
  BY <1>3, <1>4
<1>6. ASSUME NEW S \in SUBSET D PROVE t[S] = SumStep(t, f, S)
  BY <1>4, <1>5
<1> DEFINE v == [S \in SUBSET D |-> t[S]]
<1>7. ASSUME NEW S \in SUBSET D PROVE t[S] = SumStep(v, f, S)
  <2>1. CASE S = {}
    BY <1>6, <2>1, SumSteps
  <2>2. CASE S # {}
    <3>1. S \ {Chosen(S)} \in SUBSET D
      OBVIOUS
    <3>2. v[S \ {Chosen(S)}] = t[S \ {Chosen(S)}]
      BY <3>1
    <3> HIDE DEF v
    <3>3. SumStep(v, f, S) = f[Chosen(S)] + v[S \ {Chosen(S)}] /\ SumStep(t, f, S) = f[Chosen(S)] + t[S \ {Chosen(S)}]
      BY <2>2, SumSteps
    <3> QED
      BY <1>6, <3>2, <3>3
  <2> QED
    BY <2>1, <2>2
<1>8. AreSums(v, f, D)
  <2>1. v = [S \in SUBSET D |-> SumStep(v, f, S)]
    <3>1. v = [S \in SUBSET D |-> t[S]]
      OBVIOUS
    <3>2. \A S \in SUBSET D : t[S] = SumStep(v, f, S)
      BY <1>7
    <3> HIDE DEF v
    <3> QED
      BY <3>1, <3>2
  <2> HIDE DEF v
  <2> QED
    BY <2>1 DEF AreSums
<1> QED
  BY <1>8

\* Sums are numbers, and it does not matter which element is added first.
LEMMA AnyOrder ==
  ASSUME NEW f, NEW D, NEW t, IsFiniteSet(D), \A x \in D : f[x] \in Nat, AreSums(t, f, D)
  PROVE  /\ t[{}] = 0
         /\ \A S \in SUBSET D : t[S] \in Nat /\ \A x \in S : t[S] = f[x] + t[S \ {x}]
<1> DEFINE Right(S) == t[S] \in Nat /\ \A x \in S : t[S] = f[x] + t[S \ {x}]
           Wrong == {S \in SUBSET D : ~ Right(S)}
<1>1. \A S \in SUBSET D : t[S] = SumStep(t, f, S)
  BY DEF AreSums
<1>2. Wrong = {}
  <2>1. SUFFICES ASSUME Wrong # {} PROVE FALSE
    OBVIOUS
  <2>2. PICK S \in Wrong : /\ IsFiniteSet(S) /\ Cardinality(S) \in Nat
                           /\ \A T \in SUBSET D :
                                IsFiniteSet(T) /\ Cardinality(T) < Cardinality(S) => T \notin Wrong
    <3>1. Wrong \in SUBSET (SUBSET D)
      OBVIOUS
    <3> HIDE DEF Wrong
    <3> QED
      BY <2>1, <3>1, SmallestSubset
  <2>3. S # {}
    <3>1. t[{}] = 0
      <4>1. {} \in SUBSET D /\ SumStep(t, f, {}) = 0
        BY SumSteps
      <4> QED
        BY <1>1, <4>1
    <3>2. Right({})
      BY <3>1
    <3> QED
      BY <2>2, <3>2
  <2>4. PICK y \in S : t[S] = f[y] + t[S \ {y}]
    <3>1. S \in SUBSET D
      BY <2>2
    <3> QED
      BY <1>1, <2>3, <3>1, SumSteps
  <2>5. ASSUME NEW x \in S PROVE Right(S \ {x}) /\ S \ {x} \in SUBSET D
    <3>1. IsFiniteSet(S \ {x}) /\ Cardinality(S \ {x}) < Cardinality(S)
      BY <2>2, WithoutOne
    <3>2. S \ {x} \in SUBSET D
      OBVIOUS
    <3>3. S \ {x} \notin Wrong
      BY <2>2, <3>1, <3>2
    <3> QED
      BY <3>2, <3>3
  <2>6. t[S] \in Nat
    BY <2>2, <2>4, <2>5
  <2>7. ASSUME NEW x \in S PROVE t[S] = f[x] + t[S \ {x}]
    <3>1. CASE x = y
      BY <2>4, <3>1
    <3>2. CASE x # y
      <4>1. y \in S \ {x} /\ x \in S \ {y} /\ (S \ {x}) \ {y} = (S \ {y}) \ {x}
        BY <3>2
      <4>2. t[S \ {x}] = f[y] + t[(S \ {x}) \ {y}] /\ t[S \ {y}] = f[x] + t[(S \ {y}) \ {x}]
        BY <2>5, <4>1
      <4>3. t[(S \ {y}) \ {x}] \in Nat /\ f[x] \in Nat /\ f[y] \in Nat
        <5>1. IsFiniteSet((S \ {y}) \ {x}) /\ Cardinality((S \ {y}) \ {x}) < Cardinality(S)
          <6>1. /\ IsFiniteSet(S \ {y}) /\ Cardinality(S \ {y}) = Cardinality(S) - 1
                /\ IsFiniteSet((S \ {y}) \ {x})
                /\ Cardinality((S \ {y}) \ {x}) = Cardinality(S \ {y}) - 1
            BY <2>2, <4>1, WithoutOne
          <6> QED
            BY <2>2, <6>1
        <5> QED
          BY <2>2, <5>1
      <4> QED
        BY <2>4, <4>1, <4>2, <4>3
    <3> QED
      BY <3>1, <3>2
  <2> QED
    BY <2>2, <2>6, <2>7
<1>3. t[{}] = 0
  BY <1>1, SumSteps
<1> QED
  BY <1>2, <1>3

\* A sum over a smaller set does not depend on the larger one.
LEMMA SameSums ==
  ASSUME NEW f, NEW D, NEW t, NEW g, NEW E, NEW u, IsFiniteSet(D), E \subseteq D,
         \A x \in E : g[x] = f[x], AreSums(t, f, D), AreSums(u, g, E)
  PROVE  \A S \in SUBSET E : u[S] = t[S]
<1> DEFINE Wrong == {S \in SUBSET E : u[S] # t[S]}
<1>1. \A S \in SUBSET E : t[S] = SumStep(t, f, S) /\ u[S] = SumStep(u, g, S)
  BY DEF AreSums
<1>2. SUFFICES ASSUME Wrong # {} PROVE FALSE
  OBVIOUS
<1>3. PICK S \in Wrong : /\ IsFiniteSet(S) /\ Cardinality(S) \in Nat
                         /\ \A T \in SUBSET E :
                              IsFiniteSet(T) /\ Cardinality(T) < Cardinality(S) => T \notin Wrong
  <2>1. Wrong \in SUBSET (SUBSET E) /\ IsFiniteSet(E)
    BY FS_Subset
  <2> HIDE DEF Wrong
  <2> QED
    BY <1>2, <2>1, SmallestSubset
<1>4. S \in SUBSET E /\ u[S] # t[S]
  BY <1>3
<1>5. S # {}
  BY <1>1, <1>4, SumSteps
<1> DEFINE R == S \ {Chosen(S)}
<1>6. Chosen(S) \in S /\ R \in SUBSET E
  BY <1>4, <1>5, SumSteps
<1>7. u[R] = t[R]
  <2>1. IsFiniteSet(R) /\ Cardinality(R) < Cardinality(S)
    <3>1. IsFiniteSet(S) /\ Cardinality(S) \in Nat
      BY <1>3
    <3>2. IsFiniteSet(R) /\ Cardinality(R) = Cardinality(S) - 1
      BY <1>6, <3>1, WithoutOne
    <3> QED
      BY <3>1, <3>2
  <2>2. R \notin Wrong
    <3> HIDE DEF R, Wrong
    <3> QED
      BY <1>3, <1>6, <2>1
  <2> HIDE DEF R
  <2> QED
    BY <1>6, <2>2
<1>8. t[S] = f[Chosen(S)] + t[R] /\ u[S] = g[Chosen(S)] + u[R]
  <2>1. t[S] = SumStep(t, f, S) /\ u[S] = SumStep(u, g, S)
    BY <1>1, <1>4
  <2>2. SumStep(t, f, S) = f[Chosen(S)] + t[S \ {Chosen(S)}]
    BY <1>5, SumSteps
  <2>3. SumStep(u, g, S) = g[Chosen(S)] + u[S \ {Chosen(S)}]
    BY <1>5, SumSteps
  <2> QED
    BY <2>1, <2>2, <2>3
<1>9. g[Chosen(S)] = f[Chosen(S)]
  BY <1>4, <1>6
<1> QED
  BY <1>4, <1>7, <1>8, <1>9

\* A sum is a number; that of nothing is 0; any element can be taken out of it.
LEMMA SumTakesOut ==
  ASSUME NEW D, IsFiniteSet(D), NEW f \in [D -> Nat]
  PROVE  /\ SumOf(f) \in Nat
         /\ D = {} => SumOf(f) = 0
         /\ \A x \in D : SumOf(f) = f[x] + SumOf([y \in D \ {x} |-> f[y]])
<1> DEFINE t == CHOOSE t : AreSums(t, f, D)
<1>1. DOMAIN f = D /\ SumOf(f) = t[D]
  BY DEF SumOf, MapThenSumSet, MapThenFoldSet, AreSums, SumStep, Chosen
<1>2. AreSums(t, f, D)
  BY SumsExist
<1> HIDE DEF t
<1>3. t[{}] = 0 /\ t[D] \in Nat /\ \A x \in D : t[D] = f[x] + t[D \ {x}]
  <2>1. \A x \in D : f[x] \in Nat
    OBVIOUS
  <2>2. /\ t[{}] = 0
        /\ \A S \in SUBSET D : t[S] \in Nat /\ \A x \in S : t[S] = f[x] + t[S \ {x}]
    BY <1>2, <2>1, AnyOrder
  <2>3. D \in SUBSET D
    OBVIOUS
  <2> QED
    BY <2>2, <2>3
<1>4. ASSUME NEW x \in D PROVE SumOf([y \in D \ {x} |-> f[y]]) = t[D \ {x}]
  <2> DEFINE g == [y \in D \ {x} |-> f[y]]
             u == CHOOSE u : AreSums(u, g, D \ {x})
  <2>1. DOMAIN g = D \ {x} /\ SumOf(g) = u[D \ {x}]
    BY DEF SumOf, MapThenSumSet, MapThenFoldSet, AreSums, SumStep, Chosen
  <2>2. AreSums(u, g, D \ {x})
    <3>1. IsFiniteSet(D \ {x})
      BY FS_RemoveElement
    <3> QED
      BY <3>1, SumsExist
  <2>3. \A y \in D \ {x} : g[y] = f[y]
    OBVIOUS
  <2> HIDE DEF u, g
  <2>4. u[D \ {x}] = t[D \ {x}]
    <3> DEFINE E == D \ {x}
    <3>1. E \subseteq D
      OBVIOUS
    <3>2. (\A y \in E : g[y] = f[y]) /\ AreSums(u, g, E)
      BY <2>2, <2>3
    <3> HIDE DEF E
    <3>3. \A S \in SUBSET E : u[S] = t[S]
      BY <1>2, <3>1, <3>2, SameSums
    <3>4. u[E] = t[E]
      BY <3>3
    <3> QED
      BY <3>4 DEF E
  <2>5. SumOf(g) = t[D \ {x}]
    BY <2>1, <2>4
  <2> QED
    BY <2>5 DEF g
<1> QED
  BY <1>1, <1>3, <1>4

\* Equal everywhere, equal sums; changed in one place, the sum changes by that much.
LEMMA SumChanges ==
  ASSUME NEW D, NEW f \in [D -> Nat], NEW g \in [D -> Nat], NEW x \in D, IsFiniteSet(D),
         \A y \in D \ {x} : g[y] = f[y]
  PROVE  SumOf(g) + f[x] = SumOf(f) + g[x]
<1> DEFINE F == [y \in D \ {x} |-> f[y]]
           G == [y \in D \ {x} |-> g[y]]
<1>1. F = G
  OBVIOUS
<1>2. IsFiniteSet(D \ {x}) /\ F \in [D \ {x} -> Nat]
  BY FS_RemoveElement
<1>3. SumOf(F) \in Nat
  <2> HIDE DEF F
  <2> QED
    BY <1>2, SumTakesOut
<1>4. SumOf(f) = f[x] + SumOf(F) /\ SumOf(g) = g[x] + SumOf(G)
  <2>1. \A y \in D : SumOf(f) = f[y] + SumOf([z \in D \ {y} |-> f[z]])
    BY SumTakesOut
  <2>2. \A y \in D : SumOf(g) = g[y] + SumOf([z \in D \ {y} |-> g[z]])
    BY SumTakesOut
  <2> QED
    BY <2>1, <2>2
<1>5. f[x] \in Nat /\ g[x] \in Nat
  OBVIOUS
<1> HIDE DEF F, G
<1> QED
  BY <1>1, <1>3, <1>4, <1>5

\* Adding nothing up gives nothing.
LEMMA SumOfZeros ==
  ASSUME NEW D, NEW f \in [D -> Nat], IsFiniteSet(D), \A x \in D : f[x] = 0
  PROVE  SumOf(f) = 0
<1> DEFINE t == CHOOSE t : AreSums(t, f, D)
           u == [S \in SUBSET D |-> 0]
<1>1. DOMAIN f = D /\ SumOf(f) = t[D]
  BY DEF SumOf, MapThenSumSet, MapThenFoldSet, AreSums, SumStep, Chosen
<1>2. AreSums(t, f, D)
  BY SumsExist
<1>3. ASSUME NEW S \in SUBSET D PROVE SumStep(u, f, S) = 0
  <2>1. CASE S = {}
    BY <2>1, SumSteps
  <2>2. CASE S # {}
    <3>1. Chosen(S) \in S /\ SumStep(u, f, S) = f[Chosen(S)] + u[S \ {Chosen(S)}]
      BY <2>2, SumSteps
    <3>2. u[S \ {Chosen(S)}] = 0
      OBVIOUS
    <3> HIDE DEF u
    <3> QED
      BY <3>1, <3>2
  <2> QED
    BY <2>1, <2>2
<1>4. AreSums(u, f, D)
  <2>1. u = [S \in SUBSET D |-> SumStep(u, f, S)]
    BY <1>3
  <2> HIDE DEF u
  <2> QED
    BY <2>1 DEF AreSums
<1>5. u[D] = 0
  OBVIOUS
<1> HIDE DEF t, u
<1>6. \A S \in SUBSET D : u[S] = t[S]
  BY <1>2, <1>4, SameSums
<1> QED
  BY <1>1, <1>5, <1>6

\* What one more receipt adds to a recipient's credit.
Adds(r, a) == IF r.recipient = a THEN r.amount ELSE 0

\* No receipts, no credit.
LEMMA NoCredit ==
  ASSUME NEW a
  PROVE  Credit(<<>>, a) = 0
<1> DEFINE none == [i \in DOMAIN <<>> |-> IF <<>>[i].recipient = a THEN <<>>[i].amount ELSE 0]
<1>1. none \in [{} -> Nat] /\ IsFiniteSet({})
  BY FS_EmptySet
<1>2. Credit(<<>>, a) = SumOf(none)
  BY DEF Credit
<1> HIDE DEF none
<1> QED
  BY <1>1, <1>2, SumTakesOut

\* A receipt more adds its amount to its recipient's credit and to no other.
LEMMA CreditGrows ==
  ASSUME NEW rs \in Seq(Receipts), NEW r \in Receipts, NEW a
  PROVE  /\ Credit(rs, a) \in Nat
         /\ Credit(Append(rs, r), a) = Credit(rs, a) + Adds(r, a)
<1> DEFINE Amount(s) == [i \in DOMAIN s |-> Adds(s[i], a)]
           n == Len(rs)
<1>1. \A s : Credit(s, a) = SumOf(Amount(s))
  BY DEF Credit, Adds
<1>2. \A q \in Receipts : Adds(q, a) \in Nat
  BY VaultAssumption DEF Receipts, Adds
<1>3. ASSUME NEW s \in Seq(Receipts)
      PROVE  /\ IsFiniteSet(DOMAIN s) /\ DOMAIN s = 1..Len(s) /\ Len(s) \in Nat
             /\ Amount(s) \in [DOMAIN s -> Nat]
  <2>1. DOMAIN s = 1..Len(s) /\ Len(s) \in Nat /\ \A i \in DOMAIN s : s[i] \in Receipts
    OBVIOUS
  <2>2. IsFiniteSet(1..Len(s))
    BY <2>1, FS_Interval
  <2> QED
    BY <1>2, <2>1, <2>2
<1>4. Credit(rs, a) \in Nat
  <2>1. IsFiniteSet(DOMAIN rs) /\ Amount(rs) \in [DOMAIN rs -> Nat]
    BY <1>3
  <2> HIDE DEF Amount
  <2>2. SumOf(Amount(rs)) \in Nat
    BY <2>1, SumTakesOut
  <2> QED
    BY <1>1, <2>2
<1>5. Credit(Append(rs, r), a) = Credit(rs, a) + Adds(r, a)
  <2> DEFINE more == Append(rs, r)
             F == Amount(more)
             D == 1..(n + 1)
  <2>1. /\ more \in Seq(Receipts) /\ Len(more) = n + 1 /\ n \in Nat
        /\ more[n + 1] = r /\ \A i \in 1..n : more[i] = rs[i]
    OBVIOUS
  <2>2. DOMAIN more = D /\ DOMAIN rs = 1..n
    BY <1>3, <2>1
  <2>3. F \in [D -> Nat] /\ IsFiniteSet(D)
    BY <1>3, <2>1, <2>2
  <2>4. n + 1 \in D /\ D \ {n + 1} = 1..n
    BY <2>1
  <2>5. F[n + 1] = Adds(r, a)
    <3> HIDE DEF more
    <3> QED
      BY <2>1, <2>2, <2>4
  <2>6. [y \in D \ {n + 1} |-> F[y]] = Amount(rs)
    <3>1. \A y \in 1..n : F[y] = Adds(rs[y], a)
      <4> HIDE DEF more
      <4> QED
        BY <2>1, <2>2, <2>4
    <3> HIDE DEF F
    <3> QED
      BY <2>2, <2>4, <3>1
  <2> HIDE DEF F, D, Amount
  <2>7. \A x \in D : SumOf(F) = F[x] + SumOf([y \in D \ {x} |-> F[y]])
    BY <2>3, SumTakesOut
  <2>8. SumOf(F) = F[n + 1] + SumOf([y \in D \ {n + 1} |-> F[y]])
    BY <2>4, <2>7
  <2>9. SumOf(F) = Adds(r, a) + Credit(rs, a)
    BY <1>1, <2>5, <2>6, <2>8
  <2>10. Adds(r, a) \in Nat
    BY <1>2
  <2> QED
    BY <1>1, <1>4, <2>9, <2>10 DEF F
<1> QED
  BY <1>4, <1>5

\* At first nobody is owed anything.
LEMMA TotalAtFirst ==
  ASSUME NEW a
  PROVE  ReceiptTotal([p \in Payers |-> <<>>], a) = 0
<1> DEFINE none == [p \in Payers |-> <<>>]
           C == [p \in Payers |-> Credit(none[p], a)]
<1>1. IsFiniteSet(Payers)
  BY VaultAssumption
<1>2. \A p \in Payers : C[p] = 0
  BY NoCredit
<1>3. C \in [Payers -> Nat]
  BY <1>2
<1>4. ReceiptTotal(none, a) = SumOf(C)
  BY DEF ReceiptTotal
<1> HIDE DEF none, C
<1>5. ReceiptTotal(none, a) = 0
  BY <1>1, <1>2, <1>3, <1>4, SumOfZeros
<1> QED
  BY <1>5 DEF none

\* A receipt more in a payer's history adds to the total what it adds to the credit.
LEMMA TotalGrows ==
  ASSUME NEW rs \in [Payers -> Seq(Receipts)], NEW p \in Payers, NEW r \in Receipts, NEW a
  PROVE  ReceiptTotal([rs EXCEPT ![p] = Append(@, r)], a) = ReceiptTotal(rs, a) + Adds(r, a)
<1> DEFINE more == [rs EXCEPT ![p] = Append(@, r)]
           C(s) == [q \in Payers |-> Credit(s[q], a)]
<1>0. IsFiniteSet(Payers)
  BY VaultAssumption
<1>1. \A s : ReceiptTotal(s, a) = SumOf(C(s))
  BY DEF ReceiptTotal
<1>2. \A s \in Seq(Receipts) : Credit(s, a) \in Nat
  BY CreditGrows
<1>3. \A s \in [Payers -> Seq(Receipts)] : C(s) \in [Payers -> Nat]
  BY <1>2
<1>4. ReceiptTotal(more, a) = ReceiptTotal(rs, a) + Adds(r, a)
  <2>1. more \in [Payers -> Seq(Receipts)]
    <3>1. Append(rs[p], r) \in Seq(Receipts)
      OBVIOUS
    <3> QED
      BY <3>1
  <2>2. C(rs) \in [Payers -> Nat] /\ C(more) \in [Payers -> Nat]
    <3> HIDE DEF more
    <3> QED
      BY <1>3, <2>1
  <2>3. \A q \in Payers \ {p} : C(more)[q] = C(rs)[q]
    OBVIOUS
  <2>4. C(more)[p] = C(rs)[p] + Adds(r, a)
    <3>1. rs[p] \in Seq(Receipts) /\ more[p] = Append(rs[p], r)
      OBVIOUS
    <3>2. Credit(Append(rs[p], r), a) = Credit(rs[p], a) + Adds(r, a)
      BY <3>1, CreditGrows
    <3> HIDE DEF more
    <3> QED
      BY <3>1, <3>2
  <2>5. Adds(r, a) \in Nat /\ C(rs)[p] \in Nat
    BY <1>2, VaultAssumption DEF Receipts, Adds
  <2> HIDE DEF C, more
  <2>6. SumOf(C(more)) + C(rs)[p] = SumOf(C(rs)) + C(more)[p]
    BY <1>0, <2>2, <2>3, SumChanges
  <2>7. SumOf(C(more)) \in Nat /\ SumOf(C(rs)) \in Nat
    BY <1>0, <2>2, SumTakesOut
  <2>8. SumOf(C(more)) = SumOf(C(rs)) + Adds(r, a)
    BY <2>4, <2>5, <2>6, <2>7
  <2> QED
    BY <1>1, <2>8
<1> QED
  BY <1>4

-----------------------------------------------------------------------------
(* Receipts and payments                                                    *)

\* The vault keeps nothing of a deposit.
Balanced(w) == w.balance = w.forced - w.swept

\* What the ended transactions paid is what their receipts say.
PaidCommitted ==
  \A a \in Accounts : committed.paid[a] = ReceiptTotal(committed.receipts, a)

PaidInv == PaidCommitted /\ Balanced(world) /\ Balanced(committed)

\* What a call would restore is a world of the vault too.
LEMMA CommittedType == IInv => committed \in Worlds
BY Committed DEF IInv, TypeOK, OneCall, DepositFrames, SweepFrames

\* A new vault has paid nobody and holds nothing.
LEMMA InitPaid == Init => PaidInv
<1> SUFFICES ASSUME Init PROVE PaidInv
  OBVIOUS
<1>1. committed = world
  BY Committed DEF Init
<1>2. /\ world.receipts = [p \in Payers |-> <<>>] /\ world.paid = [a \in Accounts |-> 0]
      /\ world.balance = 0 /\ world.forced = 0 /\ world.swept = 0
  BY DEF Init
<1>3. ASSUME NEW a \in Accounts PROVE ReceiptTotal([p \in Payers |-> <<>>], a) = 0
  BY TotalAtFirst
<1> QED
  BY <1>1, <1>2, <1>3 DEF PaidInv, PaidCommitted, Balanced

\* A step of the ledger adds a payment and its receipt.
LEMMA LedgerStepPays ==
  ASSUME IInv, PaidCommitted, [Ledger!LedgerNext]_(Ledger!ledgerVars)
  PROVE  PaidCommitted'
<1>1. committed.receipts \in [Payers -> Seq(Receipts)] /\ committed.paid \in [Accounts -> Nat]
  BY CommittedType DEF Worlds
<1>2. CASE UNCHANGED Ledger!ledgerVars
  BY <1>2 DEF PaidCommitted, Ledger!ledgerVars
<1>3. ASSUME NEW p \in Payers, NEW ref \in Refs, NEW recipient \in Accounts,
             NEW amount \in Amounts, Ledger!Settle(p, ref, recipient, amount)
      PROVE  PaidCommitted'
  <2> DEFINE rs == committed.receipts
             r == Ledger!Receipt(ref, recipient, amount, Len(rs[p]))
  <2>1. /\ (committed.receipts)' = [rs EXCEPT ![p] = Append(@, r)]
        /\ (committed.paid)' = [committed.paid EXCEPT ![recipient] = @ + amount]
    BY <1>3 DEF Ledger!Settle
  <2>2. r \in Receipts /\ r.recipient = recipient /\ r.amount = amount
    <3>1. Len(rs[p]) \in Nat
      BY <1>1
    <3> QED
      BY <3>1 DEF Ledger!Receipt, Receipts
  <2>3. amount \in Nat
    BY VaultAssumption
  <2> HIDE DEF r
  <2>4. ASSUME NEW a \in Accounts
        PROVE  (committed.paid)'[a] = ReceiptTotal((committed.receipts)', a)
    <3>1. ReceiptTotal([rs EXCEPT ![p] = Append(@, r)], a) = ReceiptTotal(rs, a) + Adds(r, a)
      BY <1>1, <2>2, TotalGrows
    <3>2. committed.paid[a] = ReceiptTotal(rs, a) /\ committed.paid[a] \in Nat
      BY <1>1 DEF PaidCommitted
    <3>3. [committed.paid EXCEPT ![recipient] = @ + amount][a] = committed.paid[a] + Adds(r, a)
      BY <1>1, <2>2, <2>3, <3>2 DEF Adds
    <3> QED
      BY <2>1, <3>1, <3>2, <3>3
  <2> QED
    BY <2>4 DEF PaidCommitted
<1> QED
  BY <1>2, <1>3 DEF Ledger!LedgerNext

\* Forced value comes in, a sweep takes out what is there, and nothing else
\* changes what the vault holds.
LEMMA StepBalances ==
  ASSUME IInv, PaidInv, [Next]_vars
  PROVE  Balanced(world')
<1>0. /\ world \in Worlds /\ world.balance = world.forced - world.swept
      /\ world.balance \in Nat /\ world.forced \in Nat /\ world.swept \in Nat
  BY DEF IInv, TypeOK, PaidInv, Balanced, Worlds
<1>1. ASSUME world'.balance = world.balance, world'.forced = world.forced,
             world'.swept = world.swept
      PROVE  Balanced(world')
  BY <1>0, <1>1 DEF Balanced
<1>2. CASE world' = world
  BY <1>1, <1>2
<1>3. CASE ForceNative
  <2>1. world'.balance = world.balance + 1 /\ world'.forced = world.forced + 1 /\ world'.swept = world.swept
    BY <1>0, <1>3 DEF ForceNative, Worlds
  <2> QED
    BY <1>0, <2>1 DEF Balanced
<1>4. ASSUME NEW intent \in Intents, NEW signer \in Keys \cup {Zero}, Deposit(intent, signer)
      PROVE  Balanced(world')
  BY <1>0, <1>1, <1>4 DEF Deposit, EnterDeposit, Worlds
<1>5. CASE SweepForcedNative
  <2>1. world'.balance = 0 /\ world'.forced = world.forced /\ world'.swept = world.swept + world.balance
    BY <1>0, <1>5 DEF SweepForcedNative, Worlds
  <2> QED
    BY <1>0, <2>1 DEF Balanced
<1>6. CASE Accepts
  BY <1>0, <1>1, <1>6 DEF Accepts, Worlds
<1>7. CASE Rejects
  <2>1. PICK f : frames = <<f>>
    BY <1>7 DEF IInv, OneCall, Rejects
  <2>2. world' = f.saved
    BY <1>7, <2>1, Frames DEF Rejects
  <2>3. committed = f.saved
    BY <2>1, Committed
  <2> QED
    BY <2>2, <2>3 DEF PaidInv
<1>8. ASSUME NEW a, SetTreasury(a) \/ TransferOwnership(a) \/ SetIntentSigner(a)
      PROVE  Balanced(world')
  BY <1>0, <1>1, <1>8 DEF SetTreasury, TransferOwnership, SetIntentSigner, Worlds
<1>9. CASE Pause \/ Unpause \/ AcceptOwnership
  BY <1>0, <1>1, <1>9 DEF Pause, Unpause, AcceptOwnership, Worlds
<1> QED
  BY <1>2, <1>3, <1>4, <1>5, <1>6, <1>7, <1>8, <1>9 DEF Next, vars, Sign, Tick

\* Every step keeps the payments and what the vault holds in balance.
LEMMA StepKeepsPaid == IInv /\ IInv' /\ PaidInv /\ [Next]_vars => PaidInv'
<1> SUFFICES ASSUME IInv, IInv', PaidInv, [Next]_vars PROVE PaidInv'
  OBVIOUS
<1>1. PaidCommitted'
  BY StepImplementsLedger, LedgerStepPays DEF PaidInv
<1>2. Balanced(world')
  BY StepBalances
<1>3. Balanced(committed')
  <2>1. (\A f : frames' = <<f>> => committed' = f.saved) /\ (frames' = <<>> => committed' = world')
    BY DEF committed
  <2>2. CASE frames' = <<>>
    BY <1>2, <2>1, <2>2
  <2>3. CASE frames' = frames
    BY <2>1, <2>2, <2>3, Committed DEF PaidInv, IInv, OneCall
  <2>4. CASE frames' # frames /\ frames' # <<>>
    <3>1. (\E intent \in Intents, signer \in Keys \cup {Zero} : Deposit(intent, signer))
          \/ SweepForcedNative \/ Accepts \/ Rejects
      BY <2>4 DEF Next, vars, Sign, Tick, ForceNative, SetTreasury, SetIntentSigner, Pause,
         Unpause, TransferOwnership, AcceptOwnership
    <3>2. ~(Accepts \/ Rejects)
      BY <2>4, Frames DEF IInv, OneCall, Accepts, Rejects
    <3>3. frames = <<>>
      BY <3>1, <3>2, EnteredMeansFrames DEF Deposit, SweepForcedNative
    <3>4. \E f : frames' = <<f>> /\ f.saved = world
      <4>1. ASSUME NEW intent \in Intents, NEW signer \in Keys \cup {Zero}, Deposit(intent, signer)
            PROVE  \E f : frames' = <<f>> /\ f.saved = world
        BY <3>3, <4>1, Frames DEF Deposit, EnterDeposit
      <4>2. ASSUME SweepForcedNative PROVE \E f : frames' = <<f>> /\ f.saved = world
        BY <3>3, <4>2, Frames DEF SweepForcedNative
      <4> QED
        BY <3>1, <3>2, <4>1, <4>2
    <3> QED
      BY <2>1, <3>4 DEF PaidInv
  <2> QED
    BY <2>2, <2>3, <2>4
<1> QED
  BY <1>1, <1>2, <1>3 DEF PaidInv, Balanced

\* What is on its way: nothing between transactions, else the deposit's amount.
LEMMA OneOnTheWay ==
  ASSUME NEW a
  PROVE  /\ frames = <<>> => SumOf([i \in DOMAIN frames |-> OnTheWay(i, a)]) = 0
         /\ \A f : frames = <<f>> /\ OnTheWay(1, a) \in Nat
                   => SumOf([i \in DOMAIN frames |-> OnTheWay(i, a)]) = OnTheWay(1, a)
<1> DEFINE W == [i \in DOMAIN frames |-> OnTheWay(i, a)]
<1>1. ASSUME frames = <<>> PROVE SumOf(W) = 0
  <2>1. W \in [{} -> Nat] /\ IsFiniteSet({})
    BY <1>1, FS_EmptySet
  <2> HIDE DEF W
  <2> QED
    BY <2>1, SumTakesOut
<1>2. ASSUME NEW f, frames = <<f>>, OnTheWay(1, a) \in Nat PROVE SumOf(W) = OnTheWay(1, a)
  <2> DEFINE none == [y \in {1} \ {1} |-> W[y]]
  <2>1. DOMAIN frames = {1}
    BY <1>2
  <2>2. W \in [{1} -> Nat] /\ W[1] = OnTheWay(1, a) /\ IsFiniteSet({1})
    BY <1>2, <2>1, FS_Singleton
  <2>3. none \in [{} -> Nat] /\ IsFiniteSet({})
    BY FS_EmptySet
  <2> HIDE DEF W
  <2>4. SumOf(W) = W[1] + SumOf(none)
    BY <2>2, SumTakesOut
  <2> HIDE DEF none
  <2>5. SumOf(none) = 0
    BY <2>3, SumTakesOut
  <2> QED
    BY <1>2, <2>2, <2>4, <2>5
<1> QED
  BY <1>1, <1>2

\* Every recipient got what its receipts and the deposit in flight say, and the
\* vault keeps nothing of a deposit, for any payers, amounts and treasuries and
\* any number of deposits, rejections and sweeps.
THEOREM VaultReceiptsArePaid == Spec => []ReceiptsArePaid
<1>1. Spec => []PaidInv
  BY VaultInvariant, InitPaid, StepKeepsPaid, PTL DEF Spec
<1>2. IInv /\ PaidInv => ReceiptsArePaid
  <2> SUFFICES ASSUME IInv, PaidInv, NEW a \in Accounts
               PROVE  world.paid[a] = ReceiptTotal(world.receipts, a)
                                        + SumOf([i \in DOMAIN frames |-> OnTheWay(i, a)])
    BY DEF ReceiptsArePaid, PaidInv, Balanced
  <2>1. /\ committed.paid \in [Accounts -> Nat]
        /\ committed.paid[a] = ReceiptTotal(committed.receipts, a) /\ committed.paid[a] \in Nat
    <3>1. committed.paid \in [Accounts -> Nat]
      BY CommittedType DEF Worlds
    <3> QED
      BY <3>1 DEF PaidInv, PaidCommitted
  <2>2. CASE frames = <<>>
    <3>1. SumOf([i \in DOMAIN frames |-> OnTheWay(i, a)]) = 0
      BY <2>2, OneOnTheWay
    <3> QED
      BY <2>1, <2>2, <3>1, Committed
  <2>3. CASE frames # <<>>
    <3>1. PICK f \in DepositFrames \cup SweepFrames :
            /\ frames = <<f>>
            /\ world.receipts = f.saved.receipts
            /\ DepositInTransit(f) \/ SweepInTransit(f)
      BY <2>3 DEF IInv, OneCall
    <3>2. committed = f.saved /\ frames[1] = f /\ DOMAIN frames = {1}
      BY <3>1, Committed
    <3>3. CASE DepositInTransit(f)
      <4>1. /\ f.call = "deposit" /\ f.recipient \in Accounts /\ f.intent.amount \in Nat
            /\ world.paid = [committed.paid EXCEPT ![f.recipient] = @ + f.intent.amount]
        BY <3>2, <3>3, VaultAssumption DEF DepositInTransit, DepositFrames, Intents
      <4>2. OnTheWay(1, a) = IF f.recipient = a THEN f.intent.amount ELSE 0
        BY <3>2, <4>1 DEF OnTheWay, DepositsInFlight
      <4>3. SumOf([i \in DOMAIN frames |-> OnTheWay(i, a)]) = OnTheWay(1, a)
        BY <3>1, <4>1, <4>2, OneOnTheWay
      <4>4. world.paid[a] = committed.paid[a] + OnTheWay(1, a)
        BY <2>1, <4>1, <4>2
      <4> QED
        BY <2>1, <3>1, <3>2, <4>3, <4>4
    <3>4. CASE SweepInTransit(f)
      <4>1. OnTheWay(1, a) = 0 /\ world.paid = committed.paid
        BY <3>2, <3>4 DEF OnTheWay, DepositsInFlight, SweepInTransit, SweepFrames
      <4>2. SumOf([i \in DOMAIN frames |-> OnTheWay(i, a)]) = 0
        BY <3>1, <4>1, OneOnTheWay
      <4> QED
        BY <2>1, <3>1, <3>2, <4>1, <4>2
    <3> QED
      BY <3>1, <3>3, <3>4
  <2> QED
    BY <2>2, <2>3
<1> QED
  BY <1>1, <1>2, VaultInvariant, PTL
=============================================================================
