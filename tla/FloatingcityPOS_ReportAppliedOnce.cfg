\* proof of service over three blocks, three nodes with distinct scores:
\* the clock passes a report's expiry while it is still young enough in
\* blocks; the cleanup then forgets it and a replay is applied again
CONSTANTS
  n1 = n1
  n2 = n2
  n3 = n3
  NoNode = NoNode
  Nodes <- MCNodes
  Scores <- MCScores
  Observer = n1
  DistinctScores = TRUE
  LagBlocks = 1
  AgeBlocks = 2
  ExpirySeconds = 2
  BlockGaps = {1}
  MaxScanHeight = 0
  MaxHeight = 3
  MaxTime = 4
  MaxApplies = 2
SPECIFICATION Spec
INVARIANT ReportAppliedOnce
\* the run ends once the last block is scanned and every report delivered
CHECK_DEADLOCK FALSE
