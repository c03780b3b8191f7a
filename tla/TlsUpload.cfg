SPECIFICATION FairSpec
CONSTANTS
  TLS_BUFFER_LIMIT = 1
  SndBuf = 1
  MaxUp = 2
  MaxDown = 0
  Resets = {}
PROPERTY UploadForwarded
