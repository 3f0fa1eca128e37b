SPECIFICATION Spec
CONSTANTS
  a = a
  b = b
  Ports = {"1080"}
  Exits = {a, b}
  Wanted <- MCWanted
  MaxTotal = 2
  FilesAtStart <- MCFiles
INVARIANTS TypeOK AffinityMatchesFilters
PROPERTIES SavedWhole
