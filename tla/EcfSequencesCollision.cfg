CONSTANTS
  Scope <- DefaultScopes
  None = None
  Alt <- DefaultAlt
  Bare <- DefaultBare
  Row = {1, 2}
  Desde <- DefaultDesde
  Hasta <- DefaultHasta
  Loaded = {0}
  Caller = {c1, c2}
SPECIFICATION Spec
SYMMETRY Symmetry
INVARIANT NoDoubleIssue
CHECK_DEADLOCK FALSE
