SPECIFICATION FairSpec
CONSTANTS
  Subsidy = 10
  NoBlock = NoBlock
  A = n1
  B = n2
  g = g
  b1 = b1
  b2 = b2
  f = f
  BlockData <- Fork
  Seed = n1
  Node = {n1, n2}
  BlockHash = {g, b1, f}
  Miner <- MinedByBoth
  MaxRequests = 2
  MaxStops = 1
INVARIANT TypeOK
INVARIANT TipInMemory
INVARIANT InOrderAgrees
PROPERTY SyncStores
PROPERTY ImplementsBlockStore
\* Nodes that have exchanged their blocks have nothing left to do.
CHECK_DEADLOCK FALSE
