SPECIFICATION FairSpec
CONSTANTS
  Clients = {one, two}
  eth_call = eth_call
  eth_sign = eth_sign
  Methods = {eth_call, eth_sign}
  AllowedMethods = {eth_call}
  NotAnObject = NotAnObject
  Nameless = Nameless
  Malformed = Malformed
  Missing = Missing
  Invalid = Invalid
  None = None
  MaxRequest = 1
  MaxResponse = 1
  Bodies <- MCBodies
  Upstreams = {rpc, None}
  UpstreamStatuses = {200, 403}
  Addresses = {public, private}
  GlobalAddresses = {public}
CHECK_DEADLOCK FALSE
INVARIANTS OnlyAllowedLeaves AnswersMatch
PROPERTY EveryoneIsServed
