SPECIFICATION Spec
CONSTANTS
  a = a
  b = b
  north = north
  south = south
  NoPeer = NoPeer
  NoPort = NoPort
  Peers = {a, b}
  Ports = {north}
  Server <- MCRotating
  PoolsAtStart <- MCAnyPool
  Unfit = {b}
  Picked = {b}
  Asking = TRUE
  MaxMail = 2
  MaxCopies = 1
  MaxTimers = 2
  MaxLinks = 2
INVARIANTS TypeOK ThrottledPortScheduled PendingIsScheduled ExitHeadsPool DirectExitRemembered
