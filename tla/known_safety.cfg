SPECIFICATION Spec
CONSTANTS
  s = s
  x = x
  y = y
  Seed = s
  Node = {s, x, y}
  Conn = {c1, c2, c3}
  Versions = {x, y}
  AddrLists <- OneAddr
INVARIANT TypeOK
INVARIANT UnracedAsExpected
\* Every connection has been served.
CHECK_DEADLOCK FALSE
