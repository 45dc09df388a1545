------------------------------ MODULE RateLimit ------------------------------
(***************************************************************************)
(* api/middleware/ratelimit.py: the token bucket in front of POST /query   *)
(* and POST /ingest; other paths pass it by and are not modelled.  Buckets *)
(* live in a table of the process, bounded and ordered by last use, or in  *)
(* a Redis that all replicas share.  The handler of one request decides    *)
(* without giving way: on the event loop, or in one Lua script.            *)
(*                                                                         *)
(* Time is a count of ticks, a token is worth the Cost ticks it takes to   *)
(* refill, and levels are kept in ticks.  The table reads the monotonic    *)
(* clock of its process; Redis is told the wall clock of whichever replica *)
(* asks, which runs up to Skew ahead of the slowest and may be set back.   *)
(* Redis (external) saves its buckets now and then; when it restarts it    *)
(* has them as last saved, or none, and no script.                         *)
(***************************************************************************)
EXTENDS Integers, Sequences, FiniteSets

CONSTANTS Keys,        \* hashes of bearer tokens and addresses, see _key
          RedisKeys,   \* bound: those that ask when the buckets are in Redis
          Burst,       \* capacity in tokens
          Cost,        \* ticks that refill one token
          MaxBuckets,  \* _MAX_BUCKETS
          Skew,        \* most the wall clocks of two replicas differ by
          Ttl,         \* ticks until EXPIRE takes effect
          MaxTime      \* bound: ticks of one behaviour

Full == Burst * Cost

\* __init__ keeps the capacity at one token or more; 3600 seconds refill a
\* bucket whose burst is at most an hour's rate, as in every configuration shipped.
ASSUME RateAssumption ==
  /\ IsFiniteSet(Keys) /\ RedisKeys \subseteq Keys
  /\ Burst \in Nat \ {0} /\ Cost \in Nat \ {0}
  /\ MaxBuckets \in Nat \ {0}
  /\ Skew \in Nat
  /\ Ttl \in Nat /\ Ttl >= Full + Skew
  /\ MaxTime \in Nat

VARIABLES redis,     \* whether a Redis client was configured
          now,       \* true time
          bucket,    \* the buckets kept, by key: level, clock read, true time of the write
          order,     \* keys of the table, the least recently used first
          up,        \* whether Redis answers
          scripted,  \* whether it knows the script
          disk,      \* its last snapshot: the buckets, and what was charged to them by then
          charged,   \* history: true times of the tokens taken from the bucket of a key
          others     \* history: keys that asked the table since this one last did
vars == <<redis, now, bucket, order, up, scripted, disk, charged, others>>

\* What the clock a bucket is filled by may be ahead of true time.
Lag == IF redis THEN Skew ELSE 0

Bucket(b) ==
  /\ b \in [tokens : Int, ts : Nat, at : Nat]
  /\ b.tokens \in -Skew .. Full
  /\ b.at <= now
  /\ b.ts - b.at \in 0 .. Lag

TypeOK ==
  /\ redis \in BOOLEAN /\ up \in BOOLEAN /\ scripted \in BOOLEAN
  /\ now \in Nat
  /\ DOMAIN bucket \subseteq Keys
  /\ \A k \in DOMAIN bucket : Bucket(bucket[k])
  /\ order \in Seq(Keys)
  /\ charged \in [Keys -> Seq(Nat)]
  /\ others \in [Keys -> SUBSET Keys]
  /\ DOMAIN disk.bucket \subseteq Keys /\ disk.charged \in [Keys -> Seq(Nat)]
  /\ \A k \in DOMAIN disk.bucket : Bucket(disk.bucket[k])

Nothing == [bucket |-> << >>, charged |-> [k \in Keys |-> << >>]]

Init ==
  /\ redis \in BOOLEAN /\ up = TRUE /\ scripted = redis
  /\ now = 0
  /\ bucket = << >> /\ order = << >> /\ disk = Nothing
  /\ charged = [k \in Keys |-> << >>]
  /\ others = [k \in Keys |-> {}]

------------------------------------------------------------------------------
(* One decision *)

Known(k) == k \in DOMAIN bucket /\ (redis => now < bucket[k].at + Ttl)

Enough(l) == l >= Cost

\* Refill: what the bucket of k holds when the clock reads c.
Level(k, c) ==
  IF Known(k)
  THEN LET l == bucket[k].tokens + c - bucket[k].ts IN IF l < Full THEN l ELSE Full
  ELSE Full

TakeAnyway(k, c) ==  \* mutant of Take: a refused request is charged like the others
  bucket' = [j \in DOMAIN bucket \cup {k} |->
               IF j = k THEN [tokens |-> Level(k, c) - Cost, ts |-> c, at |-> now]
               ELSE bucket[j]]

TakeLate(k, c) ==  \* mutant of Take: a refused request leaves the clock as it was
  LET l == Level(k, c)
      t == IF k \in DOMAIN bucket THEN bucket[k].ts ELSE c
  IN bucket' = [j \in DOMAIN bucket \cup {k} |->
                  IF j = k THEN [tokens |-> IF Enough(l) THEN l - Cost ELSE l,
                                 ts |-> IF Enough(l) THEN c ELSE t, at |-> now]
                  ELSE bucket[j]]

\* Take a token if there is one; the level and the clock are written back in any case.
Take(k, c) ==
  LET l    == Level(k, c)
      left == IF Enough(l) THEN l - Cost ELSE l
  IN bucket' = [j \in DOMAIN bucket \cup {k} |->
                  IF j = k THEN [tokens |-> left, ts |-> c, at |-> now] ELSE bucket[j]]

\* History of a decision on k with the clock at c; dropped are keys evicted for it.
Record(k, c, dropped) ==
  /\ charged' = [j \in Keys |->
                   CASE j = k -> IF Enough(Level(k, c)) THEN Append(charged[k], now)
                                 ELSE charged[k]
                     [] j # k -> IF j \in dropped THEN << >> ELSE charged[j]]
  /\ others' = IF redis THEN others
               ELSE [j \in Keys |-> IF j = k THEN {} ELSE others[j] \cup {k}]

------------------------------------------------------------------------------
(* _allow_local *)

TouchNot(k) == order  \* mutant of Touch: a key asked for again keeps its place

Touch(k) ==  \* the keys behind k move up, and k is the last
  LET p == CHOOSE i \in 1 .. Len(order) : order[i] = k
  IN [i \in 1 .. Len(order) |->
        CASE i < p                     -> order[i]
          [] i >= p /\ i # Len(order)  -> order[i + 1]
          [] i >= p /\ i = Len(order)  -> k]

\* A key the table holds: refill, take, move to the end.
AskKnown(k) ==
  /\ ~redis /\ k \in DOMAIN bucket
  /\ Take(k, now)
  /\ order' = Touch(k)
  /\ Record(k, now, {})
  /\ UNCHANGED <<redis, now, up, scripted, disk>>

\* A new key: a full table gives up the one least recently used.
Victims == IF Cardinality(DOMAIN bucket) >= MaxBuckets THEN {Head(order)} ELSE {}

AskNew(k) ==
  /\ ~redis /\ k \notin DOMAIN bucket
  /\ bucket' = [j \in (DOMAIN bucket \ Victims) \cup {k} |->
                  IF j = k THEN [tokens |-> Full - Cost, ts |-> now, at |-> now]
                  ELSE bucket[j]]
  /\ order' = Append(IF Victims = {} THEN order ELSE Tail(order), k)
  /\ Record(k, now, Victims)
  /\ UNCHANGED <<redis, now, up, scripted, disk>>
------------------------------------------------------------------------------
(* _allow_redis, and dispatch where it fails *)

\* The script runs.  If its answer is lost the request passes, charged or not.
AskRedis(k, c) ==
  /\ redis /\ up /\ scripted
  /\ Take(k, c)
  /\ Record(k, c, {})
  /\ UNCHANGED <<redis, now, order, up, scripted, disk>>

\* Nobody answers, or with NOSCRIPT: the request passes uncharged.
AskOpen(k) ==
  /\ redis /\ ~(up /\ scripted)
  /\ UNCHANGED vars

RedisStops ==
  /\ redis /\ up
  /\ up' = FALSE
  /\ UNCHANGED <<redis, now, bucket, order, scripted, disk, charged, others>>

\* The snapshot is of all buckets at one time.
RedisSaves ==
  /\ redis /\ up
  /\ disk' = [bucket |-> bucket, charged |-> charged]
  /\ UNCHANGED <<redis, now, bucket, order, up, scripted, charged, others>>

\* Back with the buckets as saved, or, with the snapshot lost, without any.
RedisStarts ==
  /\ redis /\ ~up
  /\ up' = TRUE /\ scripted' = FALSE
  /\ disk' \in {disk, Nothing}
  /\ bucket' = disk'.bucket /\ charged' = disk'.charged
  /\ UNCHANGED <<redis, now, order, others>>

\* A process of the app starts: script_load, or an empty table.
AppStarts ==
  /\ redis => up /\ ~scripted
  /\ scripted' = redis
  /\ IF redis THEN UNCHANGED <<bucket, order, charged, others>>
     ELSE /\ bucket' = << >> /\ order' = << >>
          /\ charged' = [k \in Keys |-> << >>]
          /\ others' = [k \in Keys |-> {}]
  /\ UNCHANGED <<redis, now, up, disk>>

Tick ==
  /\ now < MaxTime
  /\ now' = now + 1
  /\ UNCHANGED <<redis, bucket, order, up, scripted, disk, charged, others>>

Next ==
  \/ \E k \in Keys : AskKnown(k) \/ AskNew(k)
  \/ \E k \in RedisKeys : AskOpen(k)
  \/ \E k \in RedisKeys, ahead \in 0 .. Skew : AskRedis(k, now + ahead)
  \/ RedisSaves \/ RedisStops \/ RedisStarts \/ AppStarts \/ Tick

Spec == Init /\ [][Next]_vars
------------------------------------------------------------------------------
(* Properties *)

\* What n tokens are worth in ticks, and what k's charges from the i-th on are.
Worth(n) == Cost * n
Spent(k, i) == Worth(Len(charged[k]) - i + 1)

\* In no stretch of time, of any length, is more taken from a bucket than the
\* burst and what the stretch refills, whichever replicas were asked and
\* whatever their clocks read (ratelimit.py:35-49, 91-106).  A bucket that
\* was evicted or lost counts from its new start, one that was restored from an
\* older snapshot with what had been charged to it by then.
WindowBound ==
  \A k \in Keys : \A i \in 1 .. Len(charged[k]) :
    Spent(k, i) <= Full + (now - charged[k][i]) + Lag

\* "One user can't spend another's budget" (ratelimit.py:10-11): a request is
\* refused only if those of its own key, with it, go beyond the allowance of
\* some stretch of time up to now.  Refused requests do not count.
OwnBudget ==
  \A k \in Keys, lag \in 0 .. Lag :
    ~Enough(Level(k, now + lag)) =>
      \E i \in 1 .. Len(charged[k]) :
        Spent(k, i) + Cost > Full + (now - charged[k][i]) - Lag

\* A bucket is evicted only when as many others as the table holds have asked
\* since its owner did (popitem of the least recently used, ratelimit.py:95-102).
EvictionNeedsCrowd ==
  [][\A k \in Keys : k \in DOMAIN bucket /\ k \notin DOMAIN bucket' /\ DOMAIN bucket' # {} /\ ~redis
       => Cardinality(others'[k]) >= MaxBuckets]_vars
==============================================================================
