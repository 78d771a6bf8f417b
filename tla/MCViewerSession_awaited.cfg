SPECIFICATION FairSpec
CONSTANTS
  alice = alice
  bob = bob
  nobody = nobody
  entry = entry
  component = component
  profile = profile
  report = report
  blank = blank
  serial = serial
  None = None
  Accounts = {alice, bob}
  NoAccount = nobody
  InitialAccount = alice
  ReadRoutes = {entry, component, profile}
  WriteRoutes = {report}
  Entry = entry
  AccountRoutes = {component, report}
  AccountScreens = {profile}
  FieldRoutes = {entry, component, profile}
  Links <- MCLinks
  Texts = {blank, serial}
  Blank = blank
  Calls = {q1}
  Overlap = FALSE
  MaxLoads = 2
  MaxCams = 2
CHECK_DEADLOCK FALSE
INVARIANTS LoadIsAtomic IdleViewIsTheAccounts ViewIsOfLoadedCam
PROPERTIES CallsActForTheirView FailureKeepsASnapshot CallsSettle
