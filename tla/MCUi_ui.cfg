SPECIFICATION Spec
CONSTANTS
  a = a
  b = b
  s = s
  NoPeer = NoPeer
  Peers = {a, b}
  Sessions = {s}
  Servers <- MCServers
  Capacity = 2
  Worlds <- MCWorlds
CHECK_DEADLOCK FALSE
INVARIANTS TypeOK ActiveRowVisible ShownExitServes ShownRouteLives
PROPERTIES CursorLandsOnRow
