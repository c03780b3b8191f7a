SPECIFICATION FairSpec
CONSTANTS
  TLS_BUFFER_LIMIT = 1
  SndBuf = 1
  MaxUp = 3
  MaxDown = 2
  Resets = {"client", "remote"}
INVARIANTS ClosureComesLast
PROPERTIES RelayEnds
