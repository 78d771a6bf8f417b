SPECIFICATION FairSpec
CONSTANTS
  alice = alice
  bob = bob
  nobody = nobody
  entry = entry
  component = component
  profile = profile
  report = report
  blank = blank
  serial = serial
  None = None
  Accounts = {alice, bob}
  NoAccount = nobody
  InitialAccount = alice
  ReadRoutes = {entry, component}
  WriteRoutes = {report}
  Entry = entry
  AccountRoutes = {component, report}
  AccountScreens = {}
  FieldRoutes = {entry, component}
  Links <- MCLinks
  Texts = {blank, serial}
  Blank = blank
  Calls = {q1, q2}
  Overlap = TRUE
  MaxLoads = 1
  MaxCams = 1
CHECK_DEADLOCK FALSE
PROPERTY FailureKeepsASnapshot
