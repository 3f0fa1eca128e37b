SPECIFICATION FairSpec
CONSTANTS
  a = a
  b = b
  north = north
  south = south
  NoPeer = NoPeer
  NoPort = NoPort
  Peers = {a}
  Ports = {north}
  Server <- MCSingle
  PoolsAtStart <- MCNoPool
  Unfit = {}
  Picked = {}
  Asking = TRUE
  MaxMail = 2
  MaxCopies = 1
  MaxTimers = 1
  MaxLinks = 1
PROPERTIES ThrottledPortRetried
