SPECIFICATION FairSpec
CONSTANTS
  Hosts = {allowed, other}
  AllowedHosts = {allowed}
  Addresses = {four, six, private}
  GlobalAddresses = {four, six}
  V4Addresses = {four, private}
  BufferBytes = 2
  Idle = 1
  Window = 2
  MaxBytes = 3
  None = None
CHECK_DEADLOCK FALSE
INVARIANTS StreamsAreKept LeadsWhereAllowed
PROPERTY TunnelsEnd
