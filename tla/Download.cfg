SPECIFICATION FairSpec
CONSTANTS
  Clients = {1, 2}
  TotalPieces = 2
  SubPiecesPerPiece = 2
  PipelineDepth = 1
  InitialHave <- Halves
  ConnectTo <- TwoConnect
  MaxChokes = 1
INVARIANTS
  StartedIsIncomplete
PROPERTY ImplementsTransfer
CHECK_DEADLOCK FALSE
