SPECIFICATION FairSpec
CONSTANTS
  NoPeer = NoPeer
  NoTime = NoTime
  Peers = {1, 2, 3}
  RateSlots = 1
  RateWindow = 1
  RechokePeriod = 1
  OptimisticPeriod = 2
  SnubTime = 1
  Pieces = {1}
  InitialComplete = FALSE
  MaxSamples = 1
  Fickle = {1}
  Traders = {2, 3}
INVARIANTS
  TypeOK UnchokedIsSlots SnubbedNotRanked SnubMarksCurrent CommandsReconcile
PROPERTIES
  TakesTurns
