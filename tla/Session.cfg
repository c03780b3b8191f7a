SPECIFICATION SessionSpec
CONSTANTS
  SndBuf = 1
  MAX_HEADER = 3
  CHUNK = 2
  CONNECT_TIMEOUT = 2
  MaxAddresses = 2
  MaxUp = 2
  MaxDown = 1
INVARIANTS TunnelIntact VerdictIsTrue SharedDeadline EofComesLast OnlyResetsFail
PROPERTIES ErrorEnds NegotiationEnds EofPassedOn
