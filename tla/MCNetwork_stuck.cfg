SPECIFICATION Spec
CONSTANTS
  a = a
  hub = hub
  discovery = discovery
  Peers = {a}
  Hub = hub
  Callers = {discovery}
  HubNamed = FALSE
  DialTimeout = 2
  PingStrikes = 3
  MaxLinks = 1
  MaxHubDials = 1
CHECK_DEADLOCK FALSE
INVARIANTS RetryArmed
