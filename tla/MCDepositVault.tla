--------------------------- MODULE MCDepositVault ---------------------------
(* Two payers, one of them a contract, who may be treasury and owner too,   *)
(* and two interchangeable backend keys.                                    *)
EXTENDS DepositVault, TLC

CONSTANTS alice, safe, keyA, keyB, zero, vault, order

KeySymmetry == Permutations(Keys)
=============================================================================
