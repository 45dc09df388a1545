\* Three requests on two replicas, on Postgres.
SPECIFICATION Spec
CONSTANTS
  t1 = t1
  t2 = t2
  t3 = t3
  c1 = c1
  c2 = c2
  Threads = {t1, t2, t3}
  Conns = {c1, c2}
  Uses <- TwoReplicas
  Postgres = TRUE
  MaxWrites = 2
INVARIANTS TypeOK AllOrNothing Usable
PROPERTIES WedgeIsForever
