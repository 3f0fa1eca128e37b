SPECIFICATION Spec
CONSTANTS
  a = a
  b = b
  c = c
  NoPeer = NoPeer
  Peers = {a, b, c}
  Servers <- MCServers
  RememberedAt <- MCRememberedAt
  Worlds <- MCWorlds
  PinnedPasses = 2
  DiscoveryAttempts = 2
  ReconnectAttempts = 3
INVARIANTS TypeOK PinnedPreference StickyPreference ReachableMembersKept
PROPERTIES Implements Terminates
