SPECIFICATION FairSpec
CONSTANTS
  r1 = r1
  r2 = r2
  pay = pay
  bad = bad
  out = out
  p1 = p1
  p2 = p2
  empty = empty
  b1 = b1
  fork = fork
  Tx = {r1, r2, pay, bad, out}
  Vin <- Spends
  Verifies <- Checks
  Block = {empty, b1, fork}
  Holds <- Chains
  Whole = {b1, fork}
  Start = empty
  Self = self
  Seed = p2
  Node = {self, p1, p2}
  Conn = {c1, c2, c3}
  Message <- Messages
  MaxKnown = 2
INVARIANT TypeOK
INVARIANT OneHandlerPerTx
INVARIANT PoolIsMarked
INVARIANT DroppedIsForgotten
PROPERTY HandlersEnd
PROPERTY ImplementsRelayOnce
\* Every connection has been served.
CHECK_DEADLOCK FALSE
