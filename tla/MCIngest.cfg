SPECIFICATION IngestSpec
CONSTANTS
  MaxFixes = 3
  Handlers = {h1, h2, h3}
  MaxGone = 2
  MaxFailures = 1
SYMMETRY IngestSymmetry
INVARIANTS
  IngestTypeOK
  CurrentIsNewest
  HistoryKeepsUp
  BroadcastNeedsLoss
CHECK_DEADLOCK FALSE
