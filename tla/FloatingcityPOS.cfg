\* proof of service over three blocks, three nodes with distinct scores.
\* Nodes scan on the first block only (MaxScanHeight); the later two age
\* the reports.  Heights and time are scaled: a report is taken for one
\* block after the block it was made on (5 of 10 in the code), kept in the
\* dedup map for 2 time units, and the clock moves 1 unit at a time
\* between blocks (Tick) or 1 or 2 units with a block, up to MaxTime.
CONSTANTS
  n1 = n1
  n2 = n2
  n3 = n3
  NoNode = NoNode
  Nodes <- MCNodes
  Scores <- MCScores
  Observer = n1
  DistinctScores = TRUE
  LagBlocks = 1
  AgeBlocks = 2
  ExpirySeconds = 2
  BlockGaps = {1}
  MaxScanHeight = 0
  MaxHeight = 3
  MaxTime = 4
  MaxApplies = 2
SPECIFICATION Spec
INVARIANT POSTypeOK
INVARIANT QuotaBound
INVARIANT ReportsAccepted
INVARIANT WinnerIsTopScorer
\* the run ends once the last block is scanned and every report delivered
CHECK_DEADLOCK FALSE
