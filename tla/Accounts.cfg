\* Two parallel requests on two names, one Google identity, a name used again.
SPECIFICATION Spec
CONSTANTS
  Names = {n1, n2}
  Subs = {s1}
  Workers = {w1, w2}
  MaxBirths = 2
  MaxRows = 3
  None = None
SYMMETRY Symmetry
INVARIANTS TypeOK AdminsBounded NothingOutlivesAccount RowIsOwn TrailForgets
CHECK_DEADLOCK FALSE
