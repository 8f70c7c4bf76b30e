SPECIFICATION FairSpec
CONSTANTS
  BlockHash = {h1, h2}
  Node = {seed, peer}
  InitialNodes = {seed}
  Self = seed
  MaxRetries = 3
  MaxFaults = 2
INVARIANT TypeOK
INVARIANT NeverQueuedTwice
INVARIANT RetriesAreCurrent
INVARIANT RequestsBounded
INVARIANT TickEmptiesQueue
PROPERTY ImplementsPolicy
PROPERTY QueuedIsAsked
PROPERTY DownloadsEnd
