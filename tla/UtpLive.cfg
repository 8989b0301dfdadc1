SPECIFICATION FairSpec
CONSTANTS
  Peers <- MCPeers
  SeqMod = 8
  AcceptorSeq0 = 7
  DupAckThreshold = 2
  Openers = {1}
  MaxSend <- MCTwoOne
  MaxLosses = 1
  MaxSpurious = 1
PROPERTIES
  ImplementsStream EventuallyQuiet
\* A pair with everything delivered and acknowledged is passive for good.
CHECK_DEADLOCK FALSE
