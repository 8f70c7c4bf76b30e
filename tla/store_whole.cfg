SPECIFICATION Spec
CONSTANTS
  Subsidy = 10
  NoBlock = NoBlock
  BlockHash = {h1, h2, h3, h4, h5}
  Address = {A, B}
  Amounts = {10}
  MaxCrashes = 0
SYMMETRY Symmetry
INVARIANT TypeOK
INVARIANT Settled
INVARIANT NoDoubleSpend
INVARIANT SpendsOwnOutput
INVARIANT NoInflation
PROPERTY ImplementsChainLog
\* A database file left without its bucket by a crash stops every command.
CHECK_DEADLOCK FALSE
