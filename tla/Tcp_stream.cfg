SPECIFICATION FairSpec
INVARIANT TypeOK
INVARIANT StreamsTrue
PROPERTY WireTrue
PROPERTY Completes
CHECK_DEADLOCK FALSE
CONSTANTS
  Conns = 1
  SeqSpace = 16
  Iss <- MCIss
  PeerIss <- MCPeerIss
  OutLen = 3
  InLen = 2
  SendSize = 2
  RecvSize = 2
  FullIsh = 2
  Mss = 2
  MaxRetries = 1
  MinFails = 1
  Backstop = 2
  Windows = {0, 1, 2}
