SPECIFICATION WebSpec
CONSTANTS
  alice = alice
  bob = bob
  nobody = nobody
  entry = entry
  component = component
  report = report
  blank = blank
  None = None
  serial = serial
  Accounts = {alice, bob}
  NoAccount = nobody
  InitialAccount = alice
  ReadRoutes = {entry, component}
  WriteRoutes = {report}
  Entry = entry
  AccountRoutes = {component, report}
  AccountScreens = {component}
  FieldRoutes = {entry}
  Links <- MCLinks
  Texts = {blank}
  Blank = blank
  Calls = {q1, q2}
  Overlap = TRUE
  MaxLoads = 1
  MaxCams = 1
  Then <- MCThen
  ConnectIsModal = FALSE
  MaxInteractions = 4
  MaxSends = 2
  MaxWalletSwitches = 1
CHECK_DEADLOCK FALSE
INVARIANTS StaleResultsStayDead
