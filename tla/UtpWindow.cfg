SPECIFICATION Spec
CONSTANTS
  SeqMod = 16
  Mtu = 2
  MinPacket = 2
  InitialCwnd = 6
  Header = 1
  RecvWindow = 12
  Gain = 4
  TargetDelay = 1
  DupAckThreshold = 2
  InitialTimeout = 1
  RttTimeouts = {1}
  Delays = {0, 4}
  PayloadSizes = {3}
  FirstSeq = 14
  MaxPayloads = 2
  MaxLosses = 1
  MaxReverse = 3
  MaxTimeouts = 1
INVARIANTS
  TypeOK StreamCovered NeverStalls NotPostponed
PROPERTIES
  OneCutPerWindow LossIsCut
\* Everything is acknowledged, or the timeout has reached its bound.
CHECK_DEADLOCK FALSE
