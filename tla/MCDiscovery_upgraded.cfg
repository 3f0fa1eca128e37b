SPECIFICATION Spec
CONSTANTS
  a = a
  b = b
  north = north
  south = south
  NoPeer = NoPeer
  NoPort = NoPort
  Peers = {a, b}
  Ports = {north}
  Server <- MCSingle
  PoolsAtStart <- MCNoPool
  Unfit = {}
  Picked = {}
  Asking = FALSE
  MaxMail = 2
  MaxCopies = 1
  MaxTimers = 1
  MaxLinks = 2
PROPERTIES ConnectedExitKept
