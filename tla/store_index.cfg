SPECIFICATION Spec
CONSTANTS
  Subsidy = 10
  NoBlock = NoBlock
  BlockHash = {h1, h2, h3, h4}
  Address = {A, B}
  Amounts = {4}
  MaxCrashes = 0
SYMMETRY Symmetry
INVARIANT SpendsOwnOutput
\* A database file left without its bucket by a crash stops every command.
CHECK_DEADLOCK FALSE
