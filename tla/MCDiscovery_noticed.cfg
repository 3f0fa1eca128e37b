SPECIFICATION Spec
CONSTANTS
  a = a
  b = b
  north = north
  south = south
  NoPeer = NoPeer
  NoPort = NoPort
  Peers = {a, b}
  Ports = {north, south}
  Server <- MCSteady
  PoolsAtStart <- MCNoPool
  Unfit = {}
  Picked = {}
  Asking = FALSE
  MaxMail = 2
  MaxCopies = 1
  MaxTimers = 1
  MaxLinks = 1
INVARIANTS DeadExitNoticed
