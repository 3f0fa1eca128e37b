SPECIFICATION FairSpec
CONSTANTS
  Files <- MCFiles
  MaxBootstrapRetries = 2
  MaxStarts = 2
CHECK_DEADLOCK FALSE
INVARIANTS TypeOK TerminalRestored FailureReported FiltersAsWritten
PROPERTIES IdentityKept StopsInTheEnd
