\* Two parallel jobs on two documents, store calls that fail, and the process dying.
SPECIFICATION Spec
CONSTANTS
  Workers = {w1, w2}
  Docs = {d1, d2}
  Sizes <- TwoThenOne
  Tenants = {public, t1}
  Public = public
  Faults = TRUE
  None = None
SYMMETRY Symmetry
INVARIANTS IndexesFollowRegistry
