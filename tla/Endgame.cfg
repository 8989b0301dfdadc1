SPECIFICATION Spec
CONSTANTS
  Clients = {1, 2, 3}
  TotalPieces = 1
  SubPiecesPerPiece = 2
  PipelineDepth = 1
  InitialHave <- TwoSeeds
  ConnectTo <- SeedsConnect
  MaxChokes = 0
INVARIANTS
  StartedIsIncomplete
CHECK_DEADLOCK FALSE
