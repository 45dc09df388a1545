\* Three clients, a table of two buckets of two tokens, clocks one tick apart, time for a bucket to expire.
SPECIFICATION Spec
CONSTANTS
  Keys = {k1, k2, k3}
  RedisKeys = {k1}
  Burst = 2
  Cost = 2
  MaxBuckets = 2
  Skew = 1
  Ttl = 5
  MaxTime = 7
INVARIANTS WindowBound OwnBudget
PROPERTIES EvictionNeedsCrowd
CHECK_DEADLOCK FALSE
