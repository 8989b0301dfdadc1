SPECIFICATION Spec
CONSTANTS
  Peers <- MCPeers
  SeqMod = 8
  AcceptorSeq0 = 7
  DupAckThreshold = 2
  Openers = {1, 2}
  MaxSend <- MCTwoTwo
  MaxLosses = 0
  MaxSpurious = 1
INVARIANTS
  OrderedDelivery
\* A pair with everything delivered and acknowledged is passive for good.
CHECK_DEADLOCK FALSE
