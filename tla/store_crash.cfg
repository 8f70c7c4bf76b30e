SPECIFICATION Spec
CONSTANTS
  Subsidy = 10
  NoBlock = NoBlock
  BlockHash = {h1, h2, h3, h4}
  Address = {A, B}
  Amounts = {4, 7}
  MaxCrashes = 2
SYMMETRY Symmetry
INVARIANT ChainInv
INVARIANT UpdateNeverFails
INVARIANT ReindexAgrees
INVARIANT Conservation
PROPERTY SafePaymentSettles
\* A database file left without its bucket by a crash stops every command.
CHECK_DEADLOCK FALSE
