SPECIFICATION FairSpec
CONSTANTS
  a = a
  hub = hub
  first = first
  second = second
  north = north
  NoPeer = NoPeer
  Clients = {first, second}
  Ports = {north}
  Peers = {a, hub}
  Incompatible = {hub}
  MaxConcurrent = 0
INVARIANTS TypeOK PermitsConserved OnlyIncompatibleEvicted ListedWhileServed
PROPERTIES FailureTold NobodyWaitsForEver
