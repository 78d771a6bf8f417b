SPECIFICATION Spec
CONSTANTS
  alice = alice
  shop = shop
  serial = serial
  oldTokens = oldTokens
  newTokens = newTokens
  uri1 = uri1
  uri2 = uri2
  police = police
  None = None
  NoSerial = NoSerial
  Accounts = {alice, shop}
  Contracts = {shop}
  Serials = {serial}
  Collections = {oldTokens, newTokens}
  URIs = {uri1, uri2}
  Reports = {police}
  Grants <- AllCapabilities
  GovernanceIsReachable = FALSE
  MaxDuration = 2
  MaxTime = 1
  MaxGovernance = 3
SYMMETRY CollectionSymmetry
CHECK_DEADLOCK FALSE
INVARIANTS RecordsHaveTokens MissingHasReport OfferedActionsSucceed OfferedActionsRender
PROPERTIES RecordsKeepTheirToken
