\* Three parallel asks of one user through key changes and erasures.
SPECIFICATION UserSpec
CONSTANTS
  Users = {u1}
  Workers = {w1, w2, w3}
  Limit = 2
  NoRow = NoRow
SYMMETRY Symmetry
INVARIANTS Ledger
PROPERTIES GateSpec
