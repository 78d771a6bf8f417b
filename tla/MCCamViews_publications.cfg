SPECIFICATION ViewSpec
CONSTANTS
  References <- MCReferences
  Malformed <- RouteMalformed
  Escapes <- RouteEscapes
  Indexes <- RouteIndexes
  Integer <- RouteInteger
  FixedBytes <- RouteFixedBytes
  Addresses <- RouteAddresses
  Hex <- RouteHexBytes
  Decimal <- RouteDecimal
  ChainId = "eip155:1"
  None = None
  Publications <- MCPublications
  InputValues <- RouteInputValues
  Account = "0xab"
  Raws <- MCRaws
  Identifiers <- MCIdentifiers
  HostAddress = "0xAB"
  StateTexts = {"7", "0xAB"}
INVARIANTS
  CleanFailsOnWhatIsUnknown
  CleanViewsCanBeShown
  ClosedPressesSucceed
  ReportedNeverHappens
  ScreenIsOfTheState
  AnswersAreArguments
  AccountIsAskedWhenNeeded
  DataIsNeverResolved
CHECK_DEADLOCK FALSE
