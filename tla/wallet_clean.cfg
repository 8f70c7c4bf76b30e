SPECIFICATION Spec
CONSTANTS
  NoKey = NoKey
  Proc = {p1, p2}
  Key = {k1, k2, k3, k4}
  MaxFaults = 2
SYMMETRY Symmetry
INVARIANT TypeOK
INVARIANT FreshWritesKeepKeys
\* Every key has been given out.
CHECK_DEADLOCK FALSE
