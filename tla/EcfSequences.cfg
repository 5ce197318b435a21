CONSTANTS
  Scope <- PairScopes
  None = None
  Alt <- PairAlt
  Bare <- PairBare
  Row = {1, 2}
  Desde <- RowDesde
  Hasta <- RowHasta
  Loaded = {0, 1}
  Caller = {c1, c2, c3}
SPECIFICATION Spec
SYMMETRY Symmetry
INVARIANTS TypeOK NoDoubleIssue WithinAuthorisedRange CounterCoversIssued
CHECK_DEADLOCK FALSE
