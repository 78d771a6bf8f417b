SPECIFICATION Spec
CONSTANTS
  alice = alice
  safe = safe
  keyA = keyA
  keyB = keyB
  zero = zero
  vault = vault
  order = order
  Accounts = {alice, safe}
  Zero = zero
  Vault = vault
  Contracts = {safe}
  Payers = {alice, safe}
  Keys = {keyA, keyB}
  Refs = {order}
  ZeroRef = zero
  Amounts = {1}
  MaxNonce = 1
  MaxIntents = 2
  MaxForced = 1
  MaxTime = 1
SYMMETRY KeySymmetry
CHECK_DEADLOCK FALSE
INVARIANTS ReceiptsArePaid ReceiptsAreSigned
PROPERTIES ImplementsLedger
