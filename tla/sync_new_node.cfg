SPECIFICATION FairSpec
CONSTANTS
  Subsidy = 10
  NoBlock = NoBlock
  A = n1
  B = n2
  g = g
  b1 = b1
  b2 = b2
  f = f
  BlockData <- ThreeBlocks
  Seed = n1
  Node = {n1, n2}
  BlockHash = {g, b1}
  Miner <- MinedBySeed
  MaxRequests = 1
  MaxStops = 0
PROPERTY NewNodeGetsBlocks
\* Nodes that have exchanged their blocks have nothing left to do.
CHECK_DEADLOCK FALSE
