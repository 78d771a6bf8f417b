--------------------------- MODULE DepositLedger ---------------------------
(***************************************************************************)
(* What dapps/deposit/src/DepositVault.sol promises to the off-chain       *)
(* ledger: a payer's receipts are numbered 0, 1, 2, ..., and each receipt  *)
(* appears in one step with the payment of its amount to its recipient.    *)
(***************************************************************************)
EXTENDS Integers, Sequences

CONSTANTS Payers, Recipients, Refs, Amounts

VARIABLES
  receipts,  \* receipts[p]: the receipts of payer p, in the order they settled
  paid       \* paid[a]: what recipient a got from deposits

ledgerVars == <<receipts, paid>>

Receipt(ref, recipient, amount, nonce) ==
  [ref |-> ref, recipient |-> recipient, amount |-> amount, nonce |-> nonce]

LedgerInit ==
  /\ receipts = [p \in Payers |-> <<>>]
  /\ paid = [a \in Recipients |-> 0]

Settle(p, ref, recipient, amount) ==
  /\ receipts' = [receipts EXCEPT ![p] = Append(@, Receipt(ref, recipient, amount, Len(@)))]
  /\ paid' = [paid EXCEPT ![recipient] = @ + amount]

LedgerNext ==
  \E p \in Payers, ref \in Refs, recipient \in Recipients, amount \in Amounts :
    Settle(p, ref, recipient, amount)

LedgerSpec == LedgerInit /\ [][LedgerNext]_ledgerVars
=============================================================================
