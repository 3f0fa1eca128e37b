SPECIFICATION FairSpec
CONSTANTS
  a = a
  hub = hub
  discovery = discovery
  Peers = {a}
  Hub = hub
  Callers = {discovery}
  HubNamed = TRUE
  DialTimeout = 2
  PingStrikes = 3
  MaxLinks = 2
  MaxHubDials = 2
CHECK_DEADLOCK FALSE
INVARIANTS TypeOK RetryArmed HubLossNoticed StrikesOfConnected
PROPERTIES DialAnswered DeadPeerBooted
