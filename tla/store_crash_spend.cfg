SPECIFICATION Spec
CONSTANTS
  Subsidy = 10
  NoBlock = NoBlock
  BlockHash = {h1, h2, h3, h4}
  Address = {A, B}
  Amounts = {10}
  MaxCrashes = 1
SYMMETRY Symmetry
INVARIANT NoDoubleSpend
\* A database file left without its bucket by a crash stops every command.
CHECK_DEADLOCK FALSE
