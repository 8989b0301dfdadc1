SPECIFICATION Spec
CONSTANTS
  Peers <- MCPeers
  SeqMod = 8
  AcceptorSeq0 = 7
  DupAckThreshold = 2
  Openers = {1}
  MaxSend <- MCThreeOne
  MaxLosses = 1
  MaxSpurious = 1
INVARIANTS
  TypeOK InOrderExactlyOnce HandshakeAgreement NothingLost WindowShape
\* A pair with everything delivered and acknowledged is passive for good.
CHECK_DEADLOCK FALSE
