\* Two parallel requests of one visitor over two midnights; rows are swept two days on.
SPECIFICATION Spec
CONSTANTS
  Keys = {k1}
  Workers = {w1, w2}
  Limit = 2
  RetainDays = 1
  LastDay = 2
  NoRow = NoRow
SYMMETRY Symmetry
INVARIANTS OverrunBound Ledger
PROPERTIES GateSpec
