SPECIFICATION Spec
CONSTANTS
  a = a
  b = b
  north = north
  south = south
  NoPeer = NoPeer
  NoPort = NoPort
  Peers = {a, b}
  Ports = {north}
  Server <- MCRotating
  PoolsAtStart <- MCAnyPool
  Unfit = {}
  Picked = {}
  Asking = FALSE
  MaxMail = 3
  MaxCopies = 1
  MaxTimers = 1
  MaxLinks = 1
INVARIANTS DeadExitNoticed
