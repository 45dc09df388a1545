---------------------------- MODULE LimitsProofs ------------------------------
(*****************************************************************************)
(* Proofs about the two limits of the question routes that are counted in    *)
(* tables of their own: the rate limiter in front of them (RateLimit) and the*)
(* lifetime allowance behind it (UserQuota).                                 *)
(*****************************************************************************)
EXTENDS RateLimit, UserQuota, FiniteSetTheorems, TLAPS

(*****************************************************************************)
(* RateLimit, for any number of clients and replicas, any rate and burst, and*)
(* clocks any distance apart.                                                *)
(*                                                                           *)
(* A bucket whose writer's clock read ts holds, at true time now, what       *)
(* tokens - ts + now says, capped; time cancels out of the two facts about it.*)
(* It has no more than the tokens taken since any charge leave of the burst  *)
(* and the refill (Upper), no less than those since some charge do (Lower),  *)
(* and is never down by more than the clocks differ (Floor).  Lower needs no *)
(* case for a bucket nothing was taken from: the request that makes a bucket *)
(* is let through.  The same holds of a snapshot (Saved), as none of it      *)
(* speaks of the time.  The table is in order of last use (Table), which is  *)
(* what an eviction relies on.                                               *)
(*****************************************************************************)
Floor == \A k \in DOMAIN bucket : bucket[k].tokens - bucket[k].ts + bucket[k].at >= -Lag

Fresh == \A k \in Keys : k \notin DOMAIN bucket => charged[k] = << >>

Upper ==
  \A k \in DOMAIN bucket : \A i \in 1 .. Len(charged[k]) :
    Spent(k, i) + bucket[k].tokens + charged[k][i] <= Full + bucket[k].ts

Lower ==
  \A k \in DOMAIN bucket : \E i \in 1 .. Len(charged[k]) :
    bucket[k].tokens - bucket[k].ts + charged[k][i] + Spent(k, i) >= Full - Lag

Table ==
  /\ ~redis => \A k \in Keys : k \in DOMAIN bucket <=> \E i \in 1 .. Len(order) : order[i] = k
  /\ \A k \in Keys : k \notin others[k]
  /\ \A i, j \in 1 .. Len(order) : i < j => order[j] \in others[order[i]]

\* The same of the buckets in the snapshot and what was charged to them by then.
Saved ==
  /\ \A k \in DOMAIN disk.bucket :
       disk.bucket[k].tokens - disk.bucket[k].ts + disk.bucket[k].at >= -Lag
  /\ \A k \in Keys : k \notin DOMAIN disk.bucket => disk.charged[k] = << >>
  /\ \A k \in DOMAIN disk.bucket : \A i \in 1 .. Len(disk.charged[k]) :
       Worth(Len(disk.charged[k]) - i + 1) + disk.bucket[k].tokens + disk.charged[k][i]
         <= Full + disk.bucket[k].ts
  /\ \A k \in DOMAIN disk.bucket : \E i \in 1 .. Len(disk.charged[k]) :
       disk.bucket[k].tokens - disk.bucket[k].ts + disk.charged[k][i]
         + Worth(Len(disk.charged[k]) - i + 1) >= Full - Lag

LevelInv == TypeOK /\ Floor /\ Fresh /\ Upper /\ Lower /\ Saved
IInv == LevelInv /\ Table

LEMMA Amounts == Full \in Nat /\ Cost \in Nat /\ Full >= Cost /\ Cost >= 1 /\ Skew \in Nat
                 /\ Lag \in 0 .. Skew /\ Ttl \in Nat /\ Ttl >= Full + Lag
<1>1. Full \in Nat /\ Full >= Cost
  <2>1. PICK b \in Nat : Burst = b + 1
    <3>1. Burst - 1 \in Nat
      BY RateAssumption
    <3> QED BY <3>1, RateAssumption
  <2>2. Full = b * Cost + Cost
    BY <2>1, RateAssumption DEF Full
  <2>3. b * Cost \in Nat
    BY <2>1, RateAssumption
  <2> QED BY <2>2, <2>3, RateAssumption
<1>2. Lag \in 0 .. Skew
  BY RateAssumption DEF Lag
<1> QED BY <1>1, <1>2, RateAssumption

LEMMA WorthMore ==
  ASSUME NEW m \in Int
  PROVE  Worth(m) \in Int /\ Worth(m + 1) = Worth(m) + Cost /\ Worth(1) = Cost
<1>1. Cost \in Int
  BY RateAssumption
<1>2. Cost * (m + 1) = Cost * m + Cost /\ Cost * 1 = Cost /\ Cost * m \in Int
  BY <1>1
<1> QED BY <1>2 DEF Worth

\* One more charge adds one token to what every stretch has spent.
LEMMA SpentMore ==
  ASSUME NEW n \in Nat, NEW i \in 1 .. n
  PROVE  Worth(n - i + 1) \in Int /\ Worth((n + 1) - i + 1) = Worth(n - i + 1) + Cost
<1>1. PICK m \in Int : m = n - i + 1
  OBVIOUS
<1>2. (n + 1) - i + 1 = m + 1
  BY <1>1
<1> QED BY <1>1, <1>2, WorthMore

LEMMA SpentLast ==
  ASSUME NEW n \in Nat
  PROVE  Worth((n + 1) - (n + 1) + 1) = Cost
<1>1. (n + 1) - (n + 1) + 1 = 1
  OBVIOUS
<1> QED BY <1>1, WorthMore

\* What the bucket of k holds when a clock reads c.
LEMMA LevelType ==
  ASSUME TypeOK, NEW k \in Keys, NEW c \in Nat, c >= now
  PROVE  /\ Level(k, c) \in Int /\ Level(k, c) <= Full
         /\ Level(k, c) = Full \/ (/\ k \in DOMAIN bucket /\ Known(k)
                                   /\ Level(k, c) = bucket[k].tokens + c - bucket[k].ts)
BY Amounts DEF Level, Known, TypeOK, Bucket

------------------------------------------------------------------------------
(* A decision keeps what is known of the levels *)

\* What a decision on k at a clock of c writes; the buckets of drop are evicted for it.
Wrote(k, c, drop) ==
  /\ c \in Nat /\ c - now \in 0 .. Lag
  /\ drop \subseteq DOMAIN bucket /\ k \notin drop
  /\ redis' = redis /\ now' = now
  /\ DOMAIN bucket' = (DOMAIN bucket \ drop) \cup {k}
  /\ \A j \in DOMAIN bucket \ drop : j # k => bucket'[j] = bucket[j]
  /\ bucket'[k] = [tokens |-> IF Enough(Level(k, c)) THEN Level(k, c) - Cost ELSE Level(k, c),
                   ts |-> c, at |-> now]
  /\ Record(k, c, drop)
  /\ order' \in Seq(Keys) /\ up' \in BOOLEAN /\ scripted' \in BOOLEAN /\ disk' = disk

LEMMA Decided ==
  ASSUME LevelInv, NEW k \in Keys, NEW c, NEW drop, Wrote(k, c, drop)
  PROVE  LevelInv'
<1>a. TypeOK /\ Floor /\ Fresh /\ Upper /\ Lower
  BY DEF LevelInv
<1>c. c \in Nat /\ c >= now /\ c <= now + Lag /\ now \in Nat /\ Lag' = Lag
  BY <1>a, Amounts DEF TypeOK, Lag, Wrote
<1>w. /\ redis' = redis /\ now' = now /\ drop \subseteq DOMAIN bucket /\ k \notin drop
      /\ DOMAIN bucket' = (DOMAIN bucket \ drop) \cup {k}
      /\ \A j \in DOMAIN bucket' : j # k => j \in DOMAIN bucket /\ j \notin drop /\ bucket'[j] = bucket[j]
  BY DEF Wrote
<1>0. PICK l \in Int : l = Level(k, c)
  BY <1>a, <1>c, LevelType
<1>l. l <= Full /\ (l = Full \/ (/\ k \in DOMAIN bucket /\ Known(k)
                                 /\ l = bucket[k].tokens + c - bucket[k].ts))
  BY <1>0, <1>a, <1>c, LevelType
<1>b. k \in DOMAIN bucket => /\ bucket[k].tokens \in Int /\ bucket[k].ts \in Nat
                             /\ bucket[k].at \in Nat /\ bucket[k].at <= now
                             /\ bucket[k].tokens - bucket[k].ts + bucket[k].at >= -Lag
  BY <1>a DEF TypeOK, Bucket, Floor
<1>n. PICK n \in Nat : n = Len(charged[k]) /\ charged[k] \in Seq(Nat)
  BY <1>a DEF TypeOK
<1>h. l >= c - now - Lag
  <2>1. CASE l = Full
    BY <2>1, <1>c, Amounts
  <2>2. CASE l # Full
    BY <2>2, <1>l, <1>b, <1>c, Amounts
  <2> QED BY <2>1, <2>2
<1>d. bucket'[k] = [tokens |-> IF Enough(l) THEN l - Cost ELSE l, ts |-> c, at |-> now]
  BY <1>0 DEF Wrote
<1>e. \A j \in Keys : /\ j # k /\ j \notin drop => charged'[j] = charged[j]
                      /\ j # k /\ j \in drop => charged'[j] = << >>
  BY DEF Record, Wrote
<1>f. charged'[k] = IF Enough(l) THEN Append(charged[k], now) ELSE charged[k]
  BY <1>0 DEF Record, Wrote
<1>t. TypeOK'
  <2>1. bucket'[k] \in [tokens : Int, ts : Nat, at : Nat]
    BY <1>d, <1>l, <1>c, Amounts
  <2>2. bucket'[k].tokens \in -Skew .. Full /\ bucket'[k].ts - bucket'[k].at \in 0 .. Lag
        /\ bucket'[k].at <= now
    <3>1. CASE Enough(l)
      BY <3>1, <1>d, <1>l, <1>c, Amounts DEF Enough
    <3>2. CASE ~Enough(l)
      BY <3>2, <1>d, <1>l, <1>c, <1>h, Amounts
    <3> QED BY <3>1, <3>2
  <2>3. charged' \in [Keys -> Seq(Nat)]
    BY <1>a, <1>c DEF TypeOK, Record, Wrote
  <2>4. others' \in [Keys -> SUBSET Keys]
    BY <1>a DEF TypeOK, Record, Wrote
  <2> QED BY <2>1, <2>2, <2>3, <2>4, <1>w, <1>a, <1>c DEF TypeOK, Bucket, Wrote
<1>fl. Floor'
  <2>1. bucket'[k].tokens - bucket'[k].ts + bucket'[k].at >= -Lag
    <3>1. CASE Enough(l)
      BY <3>1, <1>d, <1>l, <1>c, Amounts DEF Enough
    <3>2. CASE ~Enough(l)
      BY <3>2, <1>d, <1>l, <1>c, <1>h, Amounts
    <3> QED BY <3>1, <3>2
  <2> QED BY <2>1, <1>w, <1>a, <1>c DEF Floor
<1>fr. Fresh'
  BY <1>a, <1>e, <1>w DEF Fresh
<1>s. Saved'
  <2>1. disk' = disk /\ Saved
    BY DEF LevelInv, Wrote
  <2> QED BY <2>1, <1>c DEF Saved
<1>g. CASE Enough(l)
  <2>1. charged'[k] = Append(charged[k], now) /\ Len(charged'[k]) = n + 1
        /\ charged'[k][n + 1] = now /\ \A i \in 1 .. n : charged'[k][i] = charged[k][i]
    BY <1>g, <1>f, <1>n, <1>c
  <2>2. bucket'[k].tokens = l - Cost /\ bucket'[k].ts = c
    BY <1>g, <1>d
  <2>u. Upper'
    <3>1. \A i \in 1 .. n : Worth(n - i + 1) + l + charged[k][i] <= Full + c
      <4> SUFFICES ASSUME NEW i \in 1 .. n
                   PROVE  Worth(n - i + 1) + l + charged[k][i] <= Full + c
        OBVIOUS
      <4>0. charged[k][i] \in Nat /\ Worth(n - i + 1) \in Int /\ k \in DOMAIN bucket
        <5>1. charged[k][i] \in Nat /\ k \in DOMAIN bucket
          BY <1>n, <1>a DEF Fresh
        <5>2. Worth(n - i + 1) \in Int
          BY <1>n, SpentMore
        <5> QED BY <5>1, <5>2
      <4>1. Worth(n - i + 1) + bucket[k].tokens + charged[k][i] <= Full + bucket[k].ts
        BY <1>a, <4>0, <1>n DEF Upper, Spent
      <4>2. CASE Known(k)
        <5>1. l <= bucket[k].tokens + c - bucket[k].ts
          BY <4>2, <4>0, <1>0, <1>b, <1>c, Amounts DEF Level
        <5> QED BY <5>1, <4>1, <4>0, <1>b, <1>c, <1>l, Amounts
      <4>3. CASE ~Known(k)
        <5>1. now >= bucket[k].at + Ttl
          BY <4>3, <4>0, <1>b, <1>c, Amounts DEF Known
        <5> QED BY <5>1, <4>1, <4>0, <1>b, <1>c, <1>l, Amounts
      <4> QED BY <4>2, <4>3
    <3>2. \A i \in 1 .. n + 1 :
            Worth((n + 1) - i + 1) + (l - Cost) + charged'[k][i] <= Full + c
      <4> SUFFICES ASSUME NEW i \in 1 .. n + 1
                   PROVE  Worth((n + 1) - i + 1) + (l - Cost) + charged'[k][i] <= Full + c
        OBVIOUS
      <4>1. CASE i = n + 1
        <5>1. Worth((n + 1) - i + 1) = Cost /\ charged'[k][i] = now
          BY <4>1, <2>1, SpentLast
        <5> QED BY <5>1, <1>l, <1>c, Amounts
      <4>2. CASE i # n + 1
        <5>1. i \in 1 .. n /\ charged[k][i] \in Nat /\ charged'[k][i] = charged[k][i]
          BY <4>2, <1>n, <2>1
        <5>2. /\ Worth((n + 1) - i + 1) = Worth(n - i + 1) + Cost
              /\ Worth(n - i + 1) \in Int
          BY <5>1, SpentMore
        <5> QED BY <5>1, <5>2, <3>1, <1>l, <1>c, Amounts
      <4> QED BY <4>1, <4>2
    <3>3. \A j \in DOMAIN bucket' : j # k =>
            \A i \in 1 .. Len(charged'[j]) :
              Spent(j, i)' + bucket'[j].tokens + charged'[j][i] <= Full + bucket'[j].ts
      BY <1>a, <1>e, <1>w, <1>c DEF Upper, Spent, TypeOK
    <3> QED BY <3>2, <3>3, <2>1, <2>2, <1>n DEF Upper, Spent
  <2>w. Lower'
    <3>1. \E i \in 1 .. n + 1 :
            (l - Cost) - c + charged'[k][i] + Worth((n + 1) - i + 1) >= Full - Lag
      <4>1. CASE l = Full
        <5>1. (l - Cost) - c + now + Cost >= Full - Lag
          BY <4>1, <1>c, Amounts
        <5>2. Worth((n + 1) - (n + 1) + 1) = Cost /\ n + 1 \in 1 .. n + 1
          BY SpentLast
        <5>3. (l - Cost) - c + charged'[k][n + 1] + Worth((n + 1) - (n + 1) + 1) >= Full - Lag
          BY <5>1, <5>2, <2>1
        <5> QED BY <5>2, <5>3
      <4>2. CASE l # Full
        <5>1. k \in DOMAIN bucket /\ l = bucket[k].tokens + c - bucket[k].ts
          BY <4>2, <1>l
        <5>2. PICK i \in 1 .. n :
                bucket[k].tokens - bucket[k].ts + charged[k][i] + Worth(n - i + 1) >= Full - Lag
          BY <5>1, <1>a, <1>n DEF Lower, Spent
        <5>3. /\ charged[k][i] \in Nat /\ charged'[k][i] = charged[k][i]
              /\ Worth((n + 1) - i + 1) = Worth(n - i + 1) + Cost
              /\ Worth(n - i + 1) \in Int /\ i \in 1 .. n + 1
          <6>1. charged[k][i] \in Nat /\ charged'[k][i] = charged[k][i] /\ i \in 1 .. n + 1
            BY <1>n, <2>1
          <6> QED BY <6>1, SpentMore
        <5>4. (l - Cost) - c + charged'[k][i] + Worth((n + 1) - i + 1) >= Full - Lag
          BY <5>1, <5>2, <5>3, <1>b, <1>c, Amounts
        <5> QED BY <5>3, <5>4
      <4> QED BY <4>1, <4>2
    <3>2. \A j \in DOMAIN bucket' : j # k =>
            \E i \in 1 .. Len(charged'[j]) :
              bucket'[j].tokens - bucket'[j].ts + charged'[j][i] + Spent(j, i)' >= Full - Lag
      BY <1>a, <1>e, <1>w, <1>c DEF Lower, Spent, TypeOK
    <3> QED BY <3>1, <3>2, <2>1, <2>2, <1>c DEF Lower, Spent
  <2> QED BY <1>t, <1>fl, <1>fr, <1>s, <2>u, <2>w DEF LevelInv
<1>r. CASE ~Enough(l)
  <2>1. charged'[k] = charged[k] /\ bucket'[k].tokens = l /\ bucket'[k].ts = c
    BY <1>r, <1>f, <1>d
  <2>2. k \in DOMAIN bucket /\ l = bucket[k].tokens + c - bucket[k].ts
    BY <1>r, <1>l, Amounts DEF Enough
  <2>u. Upper'
    <3>1. \A i \in 1 .. n : Worth(n - i + 1) + l + charged[k][i] <= Full + c
      <4> SUFFICES ASSUME NEW i \in 1 .. n
                   PROVE  Worth(n - i + 1) + l + charged[k][i] <= Full + c
        OBVIOUS
      <4>0. charged[k][i] \in Nat /\ Worth(n - i + 1) \in Int
        <5>1. charged[k][i] \in Nat
          BY <1>n
        <5>2. Worth(n - i + 1) \in Int
          BY <1>n, SpentMore
        <5> QED BY <5>1, <5>2
      <4>1. Worth(n - i + 1) + bucket[k].tokens + charged[k][i] <= Full + bucket[k].ts
        BY <1>a, <2>2, <1>n DEF Upper, Spent
      <4> QED BY <4>0, <4>1, <2>2, <1>b, <1>c, Amounts
    <3>2. \A j \in DOMAIN bucket' : j # k =>
            \A i \in 1 .. Len(charged'[j]) :
              Spent(j, i)' + bucket'[j].tokens + charged'[j][i] <= Full + bucket'[j].ts
      BY <1>a, <1>e, <1>w, <1>c DEF Upper, Spent, TypeOK
    <3> QED BY <3>1, <3>2, <2>1, <1>n DEF Upper, Spent
  <2>w. Lower'
    <3>1. PICK i \in 1 .. n :
            bucket[k].tokens - bucket[k].ts + charged[k][i] + Worth(n - i + 1) >= Full - Lag
      BY <2>2, <1>a, <1>n DEF Lower, Spent
    <3>2. charged[k][i] \in Nat /\ Worth(n - i + 1) \in Int
      <4>1. charged[k][i] \in Nat
        BY <1>n
      <4>2. Worth(n - i + 1) \in Int
        BY <1>n, SpentMore
      <4> QED BY <4>1, <4>2
    <3>3. l - c + charged[k][i] + Worth(n - i + 1) >= Full - Lag
      BY <3>1, <3>2, <2>2, <1>b, <1>c, Amounts
    <3>4. \A j \in DOMAIN bucket' : j # k =>
            \E i_1 \in 1 .. Len(charged'[j]) :
              bucket'[j].tokens - bucket'[j].ts + charged'[j][i_1] + Spent(j, i_1)' >= Full - Lag
      BY <1>a, <1>e, <1>w, <1>c DEF Lower, Spent, TypeOK
    <3> QED BY <3>3, <3>4, <2>1, <1>c, <1>n DEF Lower, Spent
  <2> QED BY <1>t, <1>fl, <1>fr, <1>s, <2>u, <2>w DEF LevelInv
<1> QED BY <1>g, <1>r

------------------------------------------------------------------------------
(* The steps *)

LEMMA InitInv == Init => IInv
BY Amounts DEF Init, Nothing, IInv, LevelInv, TypeOK, Floor, Fresh, Upper, Lower, Saved, Table

\* The table is not empty when it is full, and what it gives up is in it.
LEMMA VictimKnown ==
  ASSUME IInv, ~redis
  PROVE  /\ Victims \subseteq DOMAIN bucket
         /\ Victims # {} => order # << >> /\ Victims = {order[1]}
<1>1. CASE Victims = {}
  BY <1>1
<1>2. CASE Victims # {}
  <2>1. Cardinality(DOMAIN bucket) >= MaxBuckets /\ Victims = {Head(order)}
    BY <1>2 DEF Victims
  <2>2. DOMAIN bucket # {}
    <3>1. SUFFICES ASSUME DOMAIN bucket = {} PROVE FALSE
      OBVIOUS
    <3>2. Cardinality({}) = 0
      BY FS_EmptySet
    <3> QED BY <3>1, <3>2, <2>1, RateAssumption
  <2>3. order \in Seq(Keys) /\ order # << >> /\ order[1] \in DOMAIN bucket
    <3>1. order \in Seq(Keys) /\ DOMAIN bucket \subseteq Keys
      BY DEF IInv, LevelInv, TypeOK
    <3>2. PICK k \in Keys : k \in DOMAIN bucket
      BY <2>2, <3>1
    <3>3. PICK i \in 1 .. Len(order) : order[i] = k
      BY <3>2 DEF IInv, Table
    <3>4. 1 \in 1 .. Len(order) /\ order[1] \in Keys
      BY <3>1, <3>3
    <3>5. order[1] \in DOMAIN bucket
      BY <3>4 DEF IInv, Table
    <3> QED BY <3>1, <3>3, <3>5
  <2> QED BY <2>1, <2>3
<1> QED BY <1>1, <1>2

LEMMA TouchType ==
  ASSUME order \in Seq(Keys), NEW k \in Keys, \E i \in 1 .. Len(order) : order[i] = k
  PROVE  \E p \in 1 .. Len(order) :
           /\ order[p] = k /\ Len(Touch(k)) = Len(order) /\ Touch(k) \in Seq(Keys)
           /\ \A i \in 1 .. Len(order) :
                Touch(k)[i] = IF i < p THEN order[i]
                              ELSE IF i # Len(order) THEN order[i + 1] ELSE k
<1> DEFINE p == CHOOSE i \in 1 .. Len(order) : order[i] = k
           n == Len(order)
<1>1. p \in 1 .. n /\ order[p] = k
  OBVIOUS
<1>2. n \in Nat /\ \A i \in 1 .. n : order[i] \in Keys
  OBVIOUS
<1>3. Touch(k) = [i \in 1 .. n |-> CASE i < p -> order[i]
                                     [] i >= p /\ i # n -> order[i + 1]
                                     [] i >= p /\ i = n -> k]
  BY DEF Touch
<1> HIDE DEF p, n
<1>4. \A i \in 1 .. n :
        Touch(k)[i] = IF i < p THEN order[i] ELSE IF i # n THEN order[i + 1] ELSE k
  BY <1>1, <1>2, <1>3
<1>5. \A i \in 1 .. n : Touch(k)[i] \in Keys
  BY <1>1, <1>2, <1>4
<1>6. Touch(k) \in Seq(Keys) /\ Len(Touch(k)) = n
  <2>1. DOMAIN Touch(k) = 1 .. n /\ Touch(k) = [i \in 1 .. n |-> Touch(k)[i]]
    BY <1>3
  <2> DEFINE f == Touch(k)
  <2>2. f \in [1 .. n -> Keys]
    BY <2>1, <1>5
  <2> HIDE DEF f
  <2>3. f \in Seq(Keys) /\ Len(f) = n
    BY <2>2, <1>2
  <2> QED BY <2>3 DEF f
<1> QED BY <1>1, <1>4, <1>6 DEF n

LEMMA AskKnownInv ==
  ASSUME IInv, NEW k \in Keys, AskKnown(k)
  PROVE  IInv'
<1>0. TypeOK /\ LevelInv /\ Table /\ ~redis /\ k \in DOMAIN bucket
  BY DEF IInv, LevelInv, AskKnown
<1>1. order \in Seq(Keys) /\ now \in Nat /\ others \in [Keys -> SUBSET Keys]
      /\ DOMAIN bucket \subseteq Keys /\ up \in BOOLEAN /\ scripted \in BOOLEAN
  BY <1>0 DEF TypeOK
<1>2. \E i \in 1 .. Len(order) : order[i] = k
  BY <1>0 DEF Table
<1>3. PICK p \in 1 .. Len(order) :
        /\ order[p] = k /\ Len(Touch(k)) = Len(order) /\ Touch(k) \in Seq(Keys)
        /\ \A i \in 1 .. Len(order) :
             Touch(k)[i] = IF i < p THEN order[i]
                           ELSE IF i # Len(order) THEN order[i + 1] ELSE k
  BY <1>1, <1>2, TouchType
<1>4. LevelInv'
  <2>1. Wrote(k, now, {})
    <3>1. now - now \in 0 .. Lag
      BY <1>1, Amounts
    <3>2. DOMAIN bucket' = DOMAIN bucket \cup {k}
          /\ \A j \in DOMAIN bucket : j # k => bucket'[j] = bucket[j]
      BY DEF AskKnown, Take
    <3>3. bucket'[k] = [tokens |-> IF Enough(Level(k, now)) THEN Level(k, now) - Cost
                                   ELSE Level(k, now), ts |-> now, at |-> now]
      BY DEF AskKnown, Take
    <3> QED BY <3>1, <3>2, <3>3, <1>1, <1>3 DEF Wrote, AskKnown
  <2> QED BY <2>1, <1>0, Decided
<1>5. order' = Touch(k) /\ Len(order') = Len(order) /\ redis' = redis
      /\ DOMAIN bucket' = DOMAIN bucket
      /\ others' = [j \in Keys |-> IF j = k THEN {} ELSE others[j] \cup {k}]
  BY <1>0, <1>3 DEF AskKnown, Take, Record
<1>6. Len(order) \in Nat /\ \A i \in 1 .. Len(order) : order[i] \in Keys
  BY <1>1
<1>7. \A i \in 1 .. Len(order) : i # p => order[i] # k
  BY <1>0, <1>3, <1>6 DEF Table
<1>8. Table'
  <2>1. \A j \in Keys : j \in DOMAIN bucket' <=> \E i \in 1 .. Len(order') : order'[i] = j
    <3> SUFFICES ASSUME NEW j \in Keys
                 PROVE  (\E i \in 1 .. Len(order) : order[i] = j)
                          <=> \E i \in 1 .. Len(order) : Touch(k)[i] = j
      BY <1>0, <1>5 DEF Table
    <3>1. ASSUME NEW i \in 1 .. Len(order), order[i] = j
          PROVE  \E h \in 1 .. Len(order) : Touch(k)[h] = j
      <4>1. CASE i < p
        BY <4>1, <3>1, <1>3
      <4>2. CASE i > p
        <5>1. i - 1 \in 1 .. Len(order) /\ Touch(k)[i - 1] = order[(i - 1) + 1] /\ (i - 1) + 1 = i
          BY <4>2, <1>3, <1>6
        <5> QED BY <5>1, <3>1
      <4>3. CASE i = p
        <5>1. Len(order) \in 1 .. Len(order) /\ Touch(k)[Len(order)] = k
          BY <1>3, <1>6
        <5> QED BY <5>1, <4>3, <3>1, <1>3
      <4> QED BY <4>1, <4>2, <4>3, <1>6
    <3>2. ASSUME NEW i \in 1 .. Len(order), Touch(k)[i] = j
          PROVE  \E h \in 1 .. Len(order) : order[h] = j
      <4>1. CASE i < p
        BY <4>1, <3>2, <1>3
      <4>2. CASE i >= p /\ i # Len(order)
        <5>1. i + 1 \in 1 .. Len(order) /\ order[i + 1] = j
          BY <4>2, <3>2, <1>3, <1>6
        <5> QED BY <5>1
      <4>3. CASE i >= p /\ i = Len(order)
        BY <4>3, <3>2, <1>3
      <4> QED BY <4>1, <4>2, <4>3, <1>6
    <3> QED BY <3>1, <3>2
  <2>2. \A j \in Keys : j \notin others'[j]
    BY <1>0, <1>5 DEF Table
  <2>3. \A i, j \in 1 .. Len(order') : i < j => order'[j] \in others'[order'[i]]
    <3> SUFFICES ASSUME NEW i \in 1 .. Len(order), NEW j \in 1 .. Len(order), i < j
                 PROVE  Touch(k)[j] \in others'[Touch(k)[i]]
      BY <1>5
    <3>1. PICK a \in 1 .. Len(order) : Touch(k)[i] = order[a] /\ a # p
                                       /\ a = IF i < p THEN i ELSE i + 1
      BY <1>3, <1>6
    <3>2. order[a] # k /\ order[a] \in Keys /\ others'[order[a]] = others[order[a]] \cup {k}
      BY <3>1, <1>5, <1>6, <1>7
    <3>3. CASE j = Len(order)
      BY <3>3, <3>1, <3>2, <1>3, <1>6
    <3>4. CASE j # Len(order)
      <4>1. PICK b \in 1 .. Len(order) : Touch(k)[j] = order[b] /\ a < b
        <5>1. CASE j < p
          BY <5>1, <3>1, <1>3, <1>6
        <5>2. CASE j >= p
          <6>1. j + 1 \in 1 .. Len(order) /\ Touch(k)[j] = order[j + 1] /\ a < j + 1
            BY <5>2, <3>4, <3>1, <1>3, <1>6
          <6> QED BY <6>1
        <5> QED BY <5>1, <5>2, <1>6
      <4>2. order[b] \in others[order[a]]
        BY <4>1, <3>1, <1>0 DEF Table
      <4> QED BY <4>1, <4>2, <3>1, <3>2
    <3> QED BY <3>3, <3>4
  <2> QED BY <2>1, <2>2, <2>3 DEF Table
<1> QED BY <1>4, <1>8 DEF IInv

LEMMA AskNewInv ==
  ASSUME IInv, NEW k \in Keys, AskNew(k)
  PROVE  IInv'
<1>0. TypeOK /\ LevelInv /\ Table /\ ~redis /\ k \notin DOMAIN bucket
  BY DEF IInv, LevelInv, AskNew
<1>1. order \in Seq(Keys) /\ now \in Nat /\ others \in [Keys -> SUBSET Keys]
      /\ DOMAIN bucket \subseteq Keys /\ up \in BOOLEAN /\ scripted \in BOOLEAN
  BY <1>0 DEF TypeOK
<1>2. /\ Victims \subseteq DOMAIN bucket
      /\ Victims # {} => order # << >> /\ Victims = {order[1]}
  BY <1>0, VictimKnown
<1> DEFINE kept == IF Victims = {} THEN order ELSE Tail(order)
<1>3. kept \in Seq(Keys) /\ order' = Append(kept, k)
  BY <1>1, <1>2 DEF AskNew
<1>4. LevelInv'
  <2>1. Level(k, now) = Full /\ Enough(Full)
    BY <1>0, Amounts DEF Level, Known, Enough
  <2>2. Wrote(k, now, Victims)
    <3>1. now - now \in 0 .. Lag
      BY <1>1, Amounts
    <3>2. DOMAIN bucket' = (DOMAIN bucket \ Victims) \cup {k} /\ k \notin Victims
          /\ \A j \in DOMAIN bucket \ Victims : j # k => bucket'[j] = bucket[j]
      BY <1>0, <1>2 DEF AskNew
    <3>3. bucket'[k] = [tokens |-> IF Enough(Level(k, now)) THEN Level(k, now) - Cost
                                   ELSE Level(k, now), ts |-> now, at |-> now]
      BY <2>1 DEF AskNew
    <3>4. order' \in Seq(Keys)
      BY <1>3
    <3> QED BY <3>1, <3>2, <3>3, <3>4, <1>1, <1>2 DEF Wrote, AskNew
  <2> QED BY <2>2, <1>0, Decided
<1>5. /\ DOMAIN bucket' = (DOMAIN bucket \ Victims) \cup {k} /\ redis' = redis
      /\ others' = [j \in Keys |-> IF j = k THEN {} ELSE others[j] \cup {k}]
  BY <1>0 DEF AskNew, Record
<1>6. Len(order) \in Nat /\ \A i \in 1 .. Len(order) : order[i] \in Keys /\ order[i] # k
  BY <1>0, <1>1 DEF Table
\* The keys that stay are the old ones from the first or the second on.
<1>7. PICK s \in {0, 1} :
        /\ (s = 0 <=> Victims = {}) /\ s <= Len(order)
        /\ Len(kept) = Len(order) - s
        /\ \A i \in 1 .. Len(order) - s : kept[i] = order[i + s]
  <2>1. CASE Victims = {}
    <3>1. kept = order /\ \A i \in 1 .. Len(order) - 0 : order[i] = order[i + 0]
      BY <2>1, <1>6
    <3> HIDE DEF kept
    <3> QED BY <2>1, <3>1, <1>6
  <2>2. CASE Victims # {}
    <3>1. order # << >> /\ kept = Tail(order)
      BY <2>2, <1>2
    <3> HIDE DEF kept
    <3>2. Len(order) >= 1 /\ Len(kept) = Len(order) - 1
          /\ \A i \in 1 .. Len(order) - 1 : kept[i] = order[i + 1]
      BY <3>1, <1>1, <1>6
    <3> QED BY <2>2, <3>2
  <2> QED BY <2>1, <2>2
<1> HIDE DEF kept
<1> DEFINE m == Len(order) - s
<1>8. /\ m \in Nat /\ Len(order') = m + 1 /\ order'[m + 1] = k
      /\ \A i \in 1 .. m : order'[i] = order[i + s] /\ i + s \in 1 .. Len(order)
  BY <1>3, <1>6, <1>7
<1>9. \A i, j \in 1 .. Len(order) : i < j => order[j] \in others[order[i]]
  BY <1>0 DEF Table
<1>10. \A i, j \in 1 .. Len(order) : i # j => order[i] # order[j]
  <2>1. \A i, j \in 1 .. Len(order) : i < j => order[i] # order[j]
    BY <1>0, <1>6, <1>9 DEF Table
  <2> QED BY <2>1, <1>6
<1> HIDE DEF m
<1>11. Table'
  <2>1. \A j \in Keys : j \in DOMAIN bucket' <=> \E i \in 1 .. Len(order') : order'[i] = j
    <3> SUFFICES ASSUME NEW j \in Keys
                 PROVE  j \in DOMAIN bucket' <=> \E i \in 1 .. m + 1 : order'[i] = j
      BY <1>8
    <3>1. CASE j = k
      <4>1. m + 1 \in 1 .. m + 1
        BY <1>8
      <4> QED BY <4>1, <3>1, <1>5, <1>8
    <3>2. CASE j # k
      <4>1. (\E i \in 1 .. m + 1 : order'[i] = j) <=> \E i \in 1 .. m : order[i + s] = j
        <5>1. \A i \in 1 .. m + 1 : i \in 1 .. m \/ i = m + 1
          BY <1>8
        <5>2. \A i \in 1 .. m : i \in 1 .. m + 1
          BY <1>8
        <5> QED BY <5>1, <5>2, <3>2, <1>8
      <4>2. j \in DOMAIN bucket' <=> j \in DOMAIN bucket /\ j \notin Victims
        BY <3>2, <1>5
      <4>3. j \in DOMAIN bucket <=> \E i \in 1 .. Len(order) : order[i] = j
        BY <1>0 DEF Table
      <4>4. CASE s = 0
        <5>1. Victims = {} /\ m = Len(order) /\ \A i \in 1 .. m : i + s = i
          BY <4>4, <1>7, <1>6 DEF m
        <5> QED BY <5>1, <4>1, <4>2, <4>3
      <4>5. CASE s = 1
        <5>1. Victims = {order[1]} /\ m = Len(order) - 1 /\ 1 \in 1 .. Len(order)
          BY <4>5, <1>7, <1>2, <1>6 DEF m
        <5>2. \A i \in 1 .. m : order[i + s] # order[1]
          BY <5>1, <4>5, <1>8, <1>10
        <5>3. \A h \in 1 .. Len(order) : h # 1 => h - 1 \in 1 .. m /\ (h - 1) + s = h
          BY <5>1, <4>5, <1>6
        <5>4. ASSUME j \in DOMAIN bucket, j \notin Victims
              PROVE  \E i \in 1 .. m : order[i + s] = j
          <6>1. PICK h \in 1 .. Len(order) : order[h] = j
            BY <5>4, <4>3
          <6>2. h # 1
            BY <6>1, <5>4, <5>1
          <6> QED BY <6>1, <6>2, <5>3
        <5>5. ASSUME NEW i \in 1 .. m, order[i + s] = j
              PROVE  j \in DOMAIN bucket /\ j \notin Victims
          BY <5>5, <5>1, <5>2, <4>3, <1>8
        <5> QED BY <5>4, <5>5, <4>1, <4>2
      <4> QED BY <4>4, <4>5
    <3> QED BY <3>1, <3>2
  <2>2. \A j \in Keys : j \notin others'[j]
    BY <1>0, <1>5 DEF Table
  <2>3. \A i, j \in 1 .. Len(order') : i < j => order'[j] \in others'[order'[i]]
    <3> SUFFICES ASSUME NEW i \in 1 .. m + 1, NEW j \in 1 .. m + 1, i < j
                 PROVE  order'[j] \in others'[order'[i]]
      BY <1>8
    <3>1. i \in 1 .. m /\ i + s \in 1 .. Len(order) /\ order'[i] = order[i + s]
      BY <1>8
    <3>2. others'[order[i + s]] = others[order[i + s]] \cup {k}
      BY <3>1, <1>5, <1>6
    <3>3. CASE j = m + 1
      BY <3>3, <3>1, <3>2, <1>8
    <3>4. CASE j # m + 1
      <4>1. j \in 1 .. m /\ j + s \in 1 .. Len(order) /\ i + s < j + s
        <5>1. j \in 1 .. m
          BY <3>4, <1>8
        <5>2. j + s \in 1 .. Len(order)
          BY <5>1, <1>8
        <5>3. i + s < j + s
          BY <3>1, <5>1, <1>8
        <5> QED BY <5>1, <5>2, <5>3
      <4> QED BY <4>1, <3>1, <3>2, <1>8, <1>9
    <3> QED BY <3>3, <3>4
  <2> QED BY <2>1, <2>2, <2>3 DEF Table
<1> QED BY <1>4, <1>11 DEF IInv

LEMMA AskRedisInv ==
  ASSUME IInv, NEW k \in RedisKeys, NEW ahead \in 0 .. Skew, AskRedis(k, now + ahead)
  PROVE  IInv'
<1>0. TypeOK /\ LevelInv /\ Table /\ redis /\ k \in Keys /\ now \in Nat /\ order \in Seq(Keys)
  BY RateAssumption DEF IInv, LevelInv, AskRedis, TypeOK
<1>1. PICK c \in Nat : c = now + ahead /\ c - now \in 0 .. Lag /\ AskRedis(k, c)
  <2>1. now + ahead \in Nat /\ (now + ahead) - now \in 0 .. Lag
    BY <1>0, RateAssumption DEF Lag
  <2> QED BY <2>1
<1>2. Wrote(k, c, {})
  <2>1. DOMAIN bucket' = DOMAIN bucket \cup {k}
        /\ \A j \in DOMAIN bucket : j # k => bucket'[j] = bucket[j]
    BY <1>1 DEF AskRedis, Take
  <2>2. bucket'[k] = [tokens |-> IF Enough(Level(k, c)) THEN Level(k, c) - Cost
                                 ELSE Level(k, c), ts |-> c, at |-> now]
    BY <1>1 DEF AskRedis, Take
  <2> QED BY <2>1, <2>2, <1>0, <1>1 DEF Wrote, AskRedis, TypeOK
<1>3. LevelInv'
  BY <1>0, <1>2, Decided
<1>4. Table'
  BY <1>0, <1>1 DEF AskRedis, Record, Table
<1> QED BY <1>3, <1>4 DEF IInv

\* Steps that make no decision: the clock, Redis, a new process, and stuttering.
LEMMA RestInv ==
  ASSUME IInv, RedisSaves \/ RedisStops \/ RedisStarts \/ AppStarts \/ Tick \/ UNCHANGED vars
  PROVE  IInv'
<1>0. TypeOK /\ Floor /\ Fresh /\ Upper /\ Lower /\ Saved /\ Table
  BY DEF IInv, LevelInv
<1> USE DEF IInv, LevelInv
<1>1. CASE UNCHANGED vars
  BY <1>0, <1>1 DEF vars, TypeOK, Bucket, Floor, Fresh, Upper, Lower, Saved, Table, Lag, Spent
<1>2. CASE RedisStops
  BY <1>0, <1>2 DEF RedisStops, TypeOK, Bucket, Floor, Fresh, Upper, Lower, Saved, Table, Lag, Spent
<1>7. CASE RedisSaves
  <2>1. /\ disk' = [bucket |-> bucket, charged |-> charged]
        /\ UNCHANGED <<redis, now, bucket, order, up, scripted, charged, others>>
    BY <1>7 DEF RedisSaves
  <2>2. disk'.bucket = bucket /\ disk'.charged = charged /\ Lag' = Lag
    BY <2>1 DEF Lag
  <2>3. TypeOK'
    BY <1>0, <2>1, <2>2 DEF TypeOK, Bucket
  <2>4. Floor' /\ Fresh' /\ Upper' /\ Lower' /\ Table'
    BY <1>0, <2>1, <2>2 DEF Floor, Fresh, Upper, Lower, Table, Spent
  <2>5. Saved'
    BY <1>0, <2>1, <2>2 DEF Saved, Floor, Fresh, Upper, Lower, Spent
  <2> QED BY <2>3, <2>4, <2>5
<1>3. CASE Tick
  <2>1. TypeOK'
    BY <1>0, <1>3 DEF Tick, TypeOK, Bucket, Lag
  <2> QED BY <2>1, <1>0, <1>3 DEF Tick, Floor, Fresh, Upper, Lower, Saved, Table, Lag, Spent
<1>4. CASE RedisStarts
  <2>1. /\ bucket' = disk'.bucket /\ charged' = disk'.charged
        /\ redis' = redis /\ now' = now /\ order' = order /\ others' = others /\ redis
        /\ up' \in BOOLEAN /\ scripted' \in BOOLEAN /\ Lag' = Lag
    BY <1>4 DEF RedisStarts, Lag
  <2>2. CASE disk' = disk
    <3>1. TypeOK'
      BY <1>0, <2>1, <2>2 DEF TypeOK, Bucket
    <3>2. Floor' /\ Fresh' /\ Upper' /\ Lower' /\ Saved'
      BY <1>0, <2>1, <2>2 DEF Floor, Fresh, Upper, Lower, Saved, Spent
    <3>3. Table'
      BY <1>0, <2>1 DEF Table
    <3> QED BY <3>1, <3>2, <3>3
  <2>3. CASE disk' = Nothing
    <3>1. DOMAIN bucket' = {} /\ DOMAIN disk'.bucket = {}
          /\ charged' = [k \in Keys |-> << >>] /\ disk'.charged = charged'
      BY <2>1, <2>3 DEF Nothing
    <3>2. TypeOK'
      BY <1>0, <2>1, <3>1 DEF TypeOK
    <3>3. Floor' /\ Fresh' /\ Upper' /\ Lower' /\ Saved'
      BY <3>1 DEF Floor, Fresh, Upper, Lower, Saved
    <3>4. Table'
      BY <1>0, <2>1 DEF Table
    <3> QED BY <3>2, <3>3, <3>4
  <2> QED BY <1>4, <2>2, <2>3 DEF RedisStarts
<1>5. CASE AppStarts /\ redis
  BY <1>0, <1>5 DEF AppStarts, TypeOK, Bucket, Floor, Fresh, Upper, Lower, Saved, Table, Lag, Spent
<1>6. CASE AppStarts /\ ~redis
  <2>1. /\ bucket' = << >> /\ order' = << >> /\ redis' = redis /\ now' = now /\ up' = up
        /\ charged' = [k \in Keys |-> << >>] /\ others' = [k \in Keys |-> {}]
        /\ scripted' = redis /\ disk' = disk /\ Lag' = Lag
    BY <1>6 DEF AppStarts, Lag
  <2>2. DOMAIN bucket' = {} /\ Len(order') = 0 /\ order' \in Seq(Keys)
    BY <2>1
  <2>3. TypeOK'
    BY <2>1, <2>2, <1>0 DEF TypeOK, Bucket
  <2>4. Floor' /\ Fresh' /\ Upper' /\ Lower'
    BY <2>1, <2>2 DEF Floor, Fresh, Upper, Lower
  <2>5. Table' /\ Saved'
    BY <2>1, <2>2, <1>0 DEF Table, Saved
  <2> QED BY <2>3, <2>4, <2>5
<1> QED BY <1>1, <1>2, <1>3, <1>4, <1>5, <1>6, <1>7

LEMMA NextInv == IInv /\ [Next]_vars => IInv'
<1> SUFFICES ASSUME IInv, [Next]_vars PROVE IInv'
  OBVIOUS
<1>1. ASSUME NEW k \in Keys, AskKnown(k) PROVE IInv'
  BY <1>1, AskKnownInv
<1>2. ASSUME NEW k \in Keys, AskNew(k) PROVE IInv'
  BY <1>2, AskNewInv
<1>3. ASSUME NEW k \in RedisKeys, AskOpen(k) PROVE IInv'
  BY <1>3, RestInv DEF AskOpen
<1>4. ASSUME NEW k \in RedisKeys, NEW ahead \in 0 .. Skew, AskRedis(k, now + ahead) PROVE IInv'
  BY <1>4, AskRedisInv
<1> QED BY <1>1, <1>2, <1>3, <1>4, RestInv DEF Next

------------------------------------------------------------------------------
(* The theorems *)

LEMMA Inductive == Spec => []IInv
BY InitInv, NextInv, PTL DEF Spec

\* Levels, clocks and histories keep their types, and no level leaves -Skew .. Full.
THEOREM TypeCorrect == Spec => []TypeOK
<1>1. IInv => TypeOK
  BY DEF IInv, LevelInv
<1> QED BY <1>1, Inductive, PTL

\* No client gets more than the burst and the refill of any stretch of time,
\* but for what the clocks of the replicas differ by.
THEOREM WindowIsBounded == Spec => []WindowBound
<1>1. IInv => WindowBound
  <2> SUFFICES ASSUME IInv, NEW k \in Keys, NEW i \in 1 .. Len(charged[k])
               PROVE  Spent(k, i) <= Full + (now - charged[k][i]) + Lag
    BY DEF WindowBound
  <2>0. TypeOK /\ Floor /\ Fresh /\ Upper
    BY DEF IInv, LevelInv
  <2>1. k \in DOMAIN bucket
    <3>1. charged[k] # << >>
      BY <2>0 DEF TypeOK
    <3> QED BY <3>1, <2>0 DEF Fresh
  <2>2. Spent(k, i) + bucket[k].tokens + charged[k][i] <= Full + bucket[k].ts
    BY <2>0, <2>1 DEF Upper
  <2>3. bucket[k].tokens - bucket[k].ts + bucket[k].at >= -Lag
    BY <2>0, <2>1 DEF Floor
  <2>4. /\ bucket[k].tokens \in Int /\ bucket[k].ts \in Nat /\ bucket[k].at \in Nat
        /\ bucket[k].at <= now /\ now \in Nat /\ charged[k][i] \in Nat
    BY <2>0, <2>1 DEF TypeOK, Bucket
  <2>5. Spent(k, i) \in Int
    <3>1. PICK n \in Nat : n = Len(charged[k]) /\ i \in 1 .. n
      BY <2>0 DEF TypeOK
    <3>2. Worth(n - i + 1) \in Int
      BY <3>1, SpentMore
    <3> QED BY <3>1, <3>2 DEF Spent
  <2>6. PICK w \in Int : w = Spent(k, i)
    BY <2>5
  <2>7. PICK l \in Nat : l = Lag
    BY Amounts
  <2>8. PICK t \in Int, s \in Nat, a \in Nat, g \in Nat :
          t = bucket[k].tokens /\ s = bucket[k].ts /\ a = bucket[k].at /\ g = charged[k][i]
    BY <2>4
  <2>9. w + t + g <= Full + s /\ t - s + a >= -l /\ a <= now
    BY <2>2, <2>3, <2>4, <2>6, <2>7, <2>8
  <2>10. w <= Full + (now - g) + l
    BY <2>9, <2>4, Amounts
  <2> QED BY <2>6, <2>7, <2>8, <2>10
<1> QED BY <1>1, Inductive, PTL

\* Who is refused has used up the allowance of some stretch of time itself.
THEOREM BudgetIsOwn == Spec => []OwnBudget
<1>1. IInv => OwnBudget
  <2> SUFFICES ASSUME IInv, NEW k \in Keys, NEW lag \in 0 .. Lag, ~Enough(Level(k, now + lag))
               PROVE  \E i \in 1 .. Len(charged[k]) :
                        Spent(k, i) + Cost > Full + (now - charged[k][i]) - Lag
    BY DEF OwnBudget
  <2>0. TypeOK /\ Lower /\ now \in Nat
    BY DEF IInv, LevelInv, TypeOK
  <2>1. PICK c \in Nat : c = now + lag /\ c >= now /\ lag \in Nat
    <3>1. lag \in Nat /\ now + lag \in Nat /\ now + lag >= now
      BY <2>0, Amounts
    <3> QED BY <3>1
  <2>2. Level(k, c) \in Int /\ Level(k, c) < Cost
    BY <2>0, <2>1, LevelType, Amounts DEF Enough
  <2>3. k \in DOMAIN bucket /\ Level(k, c) = bucket[k].tokens + c - bucket[k].ts
    <3>1. Level(k, c) # Full
      BY <2>2, Amounts
    <3> QED BY <3>1, <2>0, <2>1, LevelType
  <2>4. PICK n \in Nat : n = Len(charged[k]) /\ charged[k] \in Seq(Nat)
    <3>1. charged[k] \in Seq(Nat)
      BY <2>0 DEF TypeOK
    <3> QED BY <3>1
  <2>5. PICK i \in 1 .. n :
          bucket[k].tokens - bucket[k].ts + charged[k][i] + Worth(n - i + 1) >= Full - Lag
    BY <2>0, <2>3, <2>4 DEF Lower, Spent
  <2>6. charged[k][i] \in Nat /\ bucket[k].tokens \in Int /\ bucket[k].ts \in Nat
    BY <2>0, <2>3, <2>4 DEF TypeOK, Bucket
  <2>7. Worth(n - i + 1) \in Int
    BY <2>4, SpentMore
  <2>8. Worth(n - i + 1) + Cost > Full + (now - charged[k][i]) - Lag
    BY <2>0, <2>1, <2>2, <2>3, <2>5, <2>6, <2>7, Amounts
  <2> QED BY <2>4, <2>8 DEF Spent
<1> QED BY <1>1, Inductive, PTL

\* A client's bucket is forgotten only when as many others have asked since.
THEOREM EvictionsNeedCrowds == Spec => EvictionNeedsCrowd
<1>1. IInv /\ [Next]_vars =>
        [\A k \in Keys : k \in DOMAIN bucket /\ k \notin DOMAIN bucket' /\ DOMAIN bucket' # {} /\ ~redis
           => Cardinality(others'[k]) >= MaxBuckets]_vars
  <2> SUFFICES ASSUME IInv, Next, NEW k \in Keys, k \in DOMAIN bucket, k \notin DOMAIN bucket',
                      DOMAIN bucket' # {}, ~redis
               PROVE  Cardinality(others'[k]) >= MaxBuckets
    BY DEF vars
  <2>1. PICK j \in Keys : AskNew(j)
    <3>1. ASSUME NEW j \in Keys, AskKnown(j) PROVE FALSE
      BY <3>1 DEF AskKnown, Take
    <3>2. ~Tick
      BY DEF Tick
    <3>3. ~AppStarts
      BY DEF AppStarts
    <3> QED BY <3>1, <3>2, <3>3 DEF Next, AskOpen, AskRedis, RedisSaves, RedisStops, RedisStarts, vars
  <2>2. /\ k \in Victims /\ k # j /\ j \notin DOMAIN bucket
        /\ others'[k] = others[k] \cup {j}
    BY <2>1 DEF AskNew, Record
  <2>3. Victims = {order[1]} /\ order \in Seq(Keys) /\ order # << >>
        /\ Cardinality(DOMAIN bucket) >= MaxBuckets
    BY <2>2, VictimKnown DEF Victims, IInv, LevelInv, TypeOK
  <2>4. DOMAIN bucket \ {k} \subseteq others[k]
    <3> SUFFICES ASSUME NEW h \in DOMAIN bucket, h # k PROVE h \in others[k]
      OBVIOUS
    <3>1. h \in Keys
      BY DEF IInv, LevelInv, TypeOK
    <3>2. PICK i \in 1 .. Len(order) : order[i] = h
      BY <3>1 DEF IInv, Table
    <3>3. k = order[1] /\ i # 1 /\ 1 \in 1 .. Len(order) /\ 1 < i
      BY <2>2, <2>3, <3>2
    <3> QED BY <3>2, <3>3 DEF IInv, Table
  <2>5. IsFiniteSet(DOMAIN bucket) /\ IsFiniteSet(others'[k])
    <3>1. DOMAIN bucket \subseteq Keys /\ others'[k] \subseteq Keys
      BY <2>2 DEF IInv, LevelInv, TypeOK
    <3> QED BY <3>1, FS_Subset, RateAssumption
  <2>6. IsFiniteSet(DOMAIN bucket \ {k})
        /\ Cardinality(DOMAIN bucket \ {k}) = Cardinality(DOMAIN bucket) - 1
    BY <2>5, FS_RemoveElement
  <2>7. Cardinality((DOMAIN bucket \ {k}) \cup {j}) = (Cardinality(DOMAIN bucket) - 1) + 1
    BY <2>2, <2>6, FS_AddElement
  <2>8. Cardinality((DOMAIN bucket \ {k}) \cup {j}) <= Cardinality(others'[k])
    <3>1. (DOMAIN bucket \ {k}) \cup {j} \subseteq others'[k]
      BY <2>2, <2>4
    <3> QED BY <3>1, <2>5, FS_Subset
  <2>9. Cardinality(DOMAIN bucket) \in Nat /\ Cardinality(others'[k]) \in Nat /\ MaxBuckets \in Nat
    BY <2>5, FS_CardinalityType, RateAssumption
  <2> QED BY <2>3, <2>7, <2>8, <2>9
<1> QED BY <1>1, Inductive, PTL DEF Spec, EvictionNeedsCrowd

------------------------------------------------------------------------------
(*****************************************************************************)
(* UserQuota, for any number of users and parallel requests: the books, the  *)
(* bound on the overrun, and the refinement of QuotaGate.                    *)
(*                                                                           *)
(* The books are inductive together with what a request may do at all: before*)
(* its write it is charged nothing, and only one on the free plan gives back *)
(* (NotYetCharged).  For the overrun the counter is taken together with the  *)
(* requests that passed the check and have not written yet: one joins them   *)
(* only below the cap, and there are never more of them than requests        *)
(* (UserOverrun).                                                            *)
(*****************************************************************************)
\* A request in state s is charged to u, or has passed the check for u.
Pays(s, u)   == s.pc \in {"asking", "refunding"} /\ s.user = u /\ s.plan = "free" /\ ~s.stale
Passed(s, u) == s.pc = "checked" /\ s.user = u

\* A request is charged to nothing before its write, and only a free one refunds.
NotYetCharged == \A w \in Workers :
  /\ ask[w].pc \in {"admitted", "consuming", "checked"} => ask[w].plan = "free" /\ ~ask[w].stale
  /\ ask[w].pc = "refunding" => ask[w].plan = "free"

\* One user's requests that passed the check push the counter past Limit, by at
\* most one for each worker beside the first.
UserOverrun == \A u \in Users :
  Used(u) + Cardinality(Checked(u)) <= Limit + Cardinality(Workers) - 1

UserInv == UserTypeOK /\ NotYetCharged /\ Ledger /\ UserOverrun

------------------------------------------------------------------------------
(* Types *)

LEMMA UserInitType == UserInit => UserTypeOK
BY DEF UserInit, UserTypeOK, Idle

\* An ask that is under way is a record of InFlight.
LEMMA AskTyped ==
  ASSUME UserTypeOK, NEW w \in Workers
  PROVE  /\ ask[w] = Idle \/ ask[w] \in InFlight
         /\ ask[w].pc # "idle" => ask[w] \in InFlight
BY DEF UserTypeOK, Idle

LEMMA UserNextType == UserTypeOK /\ [UserNext]_userVars => UserTypeOK'
<1> SUFFICES ASSUME UserTypeOK, [UserNext]_userVars PROVE UserTypeOK'
  OBVIOUS
<1> USE DEF UserTypeOK
<1>1. ASSUME NEW u \in Users, AccountStep(u) PROVE UserTypeOK'
  <2>1. CASE Register(u) \/ SetKey(u) \/ ClearKey(u) \/ EraseAccount(u) \/ EraseFails(u)
    BY <2>1 DEF Register, SetKey, ClearKey, EraseAccount, EraseFails, History
  <2>2. CASE EraseCounter(u)
    <3>1. \A w \in Workers : ChargedTo(w, u) => ask[w] \in InFlight
      BY AskTyped DEF ChargedTo
    <3>2. \A w \in Workers : ChargedTo(w, u) => [ask[w] EXCEPT !.stale = TRUE] \in InFlight
      BY <3>1 DEF InFlight
    <3>3. ask' \in [Workers -> {Idle} \cup InFlight]
      BY <2>2, <3>2 DEF EraseCounter
    <3> QED BY <2>2, <3>3 DEF EraseCounter
  <2> QED BY <1>1, <2>1, <2>2 DEF AccountStep
<1>2. ASSUME NEW w \in Workers, AskStep(w) PROVE UserTypeOK'
  <2>0. ask[w].pc # "idle" => ask[w] \in InFlight
    BY AskTyped
  <2>1. ASSUME NEW u \in Users, Arrive(w, u) PROVE UserTypeOK'
    BY <2>1 DEF Arrive, InFlight, Account, History
  <2>2. CASE Plan(w)
    BY <2>0, <2>2 DEF Plan, InFlight, Account, History
  <2>3. CASE Refuse(w) \/ InsertConflict(w)
    BY <2>3 DEF Refuse, InsertConflict, Account, History
  <2>4. CASE Pass(w)
    BY <2>0, <2>4 DEF Pass, InFlight, Account, History
  <2>5. CASE Insert(w)
    BY <2>0, <2>5 DEF Insert, InFlight, Account, History
  <2>6. CASE Increment(w)
    <3>1. ask[w] \in InFlight /\ ask[w].user \in Users
      BY <2>0, <2>6 DEF Increment, InFlight
    <3>2. table' \in [Users -> Nat \cup {NoRow}]
      BY <2>6, <3>1 DEF Increment
    <3>3. [ask[w] EXCEPT !.pc = "asking", !.stale = (table[ask[w].user] = NoRow)] \in InFlight
      BY <3>1 DEF InFlight
    <3>4. ask' \in [Workers -> {Idle} \cup InFlight]
      BY <2>6, <3>3 DEF Increment
    <3> QED BY <2>6, <3>2, <3>4 DEF Increment, Account, History
  <2>7. CASE Answer(w)
    BY <2>0, <2>7 DEF Answer, InFlight, Account
  <2>8. CASE Unanswered(w)
    BY <2>0, <2>8 DEF Unanswered, InFlight, Account, History
  <2>9. CASE Refund(w)
    <3>1. ask[w] \in InFlight /\ ask[w].user \in Users
      BY <2>0, <2>9 DEF Refund, InFlight
    <3>2. table' \in [Users -> Nat \cup {NoRow}]
      BY <2>9, <3>1, UserAssumption DEF Refund, Refundable
    <3> QED BY <2>9, <3>1, <3>2 DEF Refund, Account
  <2>10. CASE Abort(w)
    BY <2>0, <2>10 DEF Abort, InFlight, Account
  <2> QED BY <1>2, <2>1, <2>2, <2>3, <2>4, <2>5, <2>6, <2>7, <2>8, <2>9, <2>10 DEF AskStep
<1>3. CASE UNCHANGED userVars
  BY <1>3 DEF userVars
<1> QED BY <1>1, <1>2, <1>3 DEF UserNext

\* The state variables of the lifetime gate keep their types: keys and erasures
\* are of accounts there are.
THEOREM UserTypeCorrect == UserSpec => []UserTypeOK
<1>1. UserInit => UserTypeOK
  BY UserInitType
<1>2. UserTypeOK /\ [UserNext]_userVars => UserTypeOK'
  BY UserNextType
<1> QED BY <1>1, <1>2, PTL DEF UserSpec

------------------------------------------------------------------------------
(* Counting the requests that are charged to a user or have passed the check. *)

\* Two sets of workers that differ at most in w.
LEMMA CountMove ==
  ASSUME NEW S \in SUBSET Workers, NEW T \in SUBSET Workers, NEW w \in Workers,
         \A x \in Workers : x # w => (x \in S <=> x \in T)
  PROVE  /\ Cardinality(S) \in Nat /\ Cardinality(T) \in Nat
         /\ Cardinality(T) = Cardinality(S) + (IF w \in T THEN 1 ELSE 0) - (IF w \in S THEN 1 ELSE 0)
         /\ Cardinality(S) >= IF w \in S THEN 1 ELSE 0
<1>1. IsFiniteSet(S) /\ IsFiniteSet(T)
  BY UserAssumption, FS_Subset
<1>2. Cardinality(S) \in Nat /\ Cardinality(T) \in Nat
  BY <1>1, FS_CardinalityType
<1>3. w \in S => Cardinality(S) # 0
  BY <1>1, FS_EmptySet
<1>4. CASE w \in T
  <2>1. T = S \cup {w}
    BY <1>4
  <2> QED BY <1>1, <1>2, <1>3, <1>4, <2>1, FS_AddElement
<1>5. CASE w \notin T
  <2>1. T = S \ {w}
    BY <1>5
  <2> QED BY <1>1, <1>2, <1>3, <1>5, <2>1, FS_RemoveElement
<1> QED BY <1>4, <1>5

\* The move of worker w to v changes both counts of a user by w alone.
LEMMA AskMoves ==
  ASSUME UserTypeOK, NEW w \in Workers, NEW u \in Users, NEW v, ask' = [ask EXCEPT ![w] = v]
  PROVE  /\ Cardinality(Charged(u)) \in Nat /\ Cardinality(Charged(u)') \in Nat
         /\ Cardinality(Charged(u)') = Cardinality(Charged(u)) + (IF Pays(v, u) THEN 1 ELSE 0)
                                                   - (IF Pays(ask[w], u) THEN 1 ELSE 0)
         /\ Cardinality(Charged(u)) >= IF Pays(ask[w], u) THEN 1 ELSE 0
         /\ Cardinality(Checked(u)) \in Nat /\ Cardinality(Checked(u)') \in Nat
         /\ Cardinality(Checked(u)') = Cardinality(Checked(u)) + (IF Passed(v, u) THEN 1 ELSE 0)
                                                   - (IF Passed(ask[w], u) THEN 1 ELSE 0)
         /\ Cardinality(Checked(u)) >= IF Passed(ask[w], u) THEN 1 ELSE 0
<1>1. ask'[w] = v /\ \A x \in Workers : x # w => ask'[x] = ask[x]
  BY DEF UserTypeOK
<1>2. Charged(u) \in SUBSET Workers /\ Charged(u)' \in SUBSET Workers
  BY DEF Charged
<1>3. \A x \in Workers : x # w => (x \in Charged(u) <=> x \in Charged(u)')
  BY <1>1 DEF Charged, ChargedTo, OnFreeTier
<1>4. (w \in Charged(u) <=> Pays(ask[w], u)) /\ (w \in Charged(u)' <=> Pays(v, u))
  BY <1>1 DEF Charged, ChargedTo, OnFreeTier, Pays
<1>5. Checked(u) \in SUBSET Workers /\ Checked(u)' \in SUBSET Workers
  BY DEF Checked
<1>6. \A x \in Workers : x # w => (x \in Checked(u) <=> x \in Checked(u)')
  BY <1>1 DEF Checked
<1>7. (w \in Checked(u) <=> Passed(ask[w], u)) /\ (w \in Checked(u)' <=> Passed(v, u))
  BY <1>1 DEF Checked, Passed
<1>8. /\ Cardinality(Charged(u)) \in Nat /\ Cardinality(Charged(u)') \in Nat
      /\ Cardinality(Charged(u)') = Cardinality(Charged(u)) + (IF w \in Charged(u)' THEN 1 ELSE 0)
                                                   - (IF w \in Charged(u) THEN 1 ELSE 0)
      /\ Cardinality(Charged(u)) >= IF w \in Charged(u) THEN 1 ELSE 0
  BY <1>2, <1>3, CountMove
<1>9. /\ Cardinality(Checked(u)) \in Nat /\ Cardinality(Checked(u)') \in Nat
      /\ Cardinality(Checked(u)') = Cardinality(Checked(u)) + (IF w \in Checked(u)' THEN 1 ELSE 0)
                                                   - (IF w \in Checked(u) THEN 1 ELSE 0)
      /\ Cardinality(Checked(u)) >= IF w \in Checked(u) THEN 1 ELSE 0
  BY <1>5, <1>6, CountMove
<1> QED BY <1>4, <1>7, <1>8, <1>9

------------------------------------------------------------------------------
(***************************************************************************)
(* The ledger and the overrun of one user, over the move of one request:   *)
(* what the counter gains is what the request, the answers and the losses  *)
(* of that user gain, and it grows only as a request leaves the check.     *)
(***************************************************************************)

Balanced(u) == u \notin strayed =>
  Used(u) = answered[u] + Cardinality(Charged(u)) + lost[u]

WithinSlack(u) == Used(u) + Cardinality(Checked(u)) <= Limit + Cardinality(Workers) - 1

LEMMA UserNumbers ==
  ASSUME UserTypeOK, NEW u \in Users
  PROVE  /\ Used(u) \in Nat /\ answered[u] \in Nat /\ lost[u] \in Nat
         /\ Limit \in Nat /\ Cardinality(Workers) \in Nat
BY UserAssumption, FS_CardinalityType DEF UserTypeOK, Used

LEMMA BalanceMoves ==
  ASSUME UserTypeOK, UserTypeOK', NEW w \in Workers, NEW u \in Users, NEW v,
         ask' = [ask EXCEPT ![w] = v], Balanced(u),
         u \notin strayed' =>
           /\ u \notin strayed
           /\ Used(u)' - Used(u) = (answered'[u] - answered[u]) + (lost'[u] - lost[u])
                + (IF Pays(v, u) THEN 1 ELSE 0) - (IF Pays(ask[w], u) THEN 1 ELSE 0)
  PROVE  Balanced(u)'
<1>1. /\ Used(u) \in Nat /\ answered[u] \in Nat /\ lost[u] \in Nat
      /\ Used(u)' \in Nat /\ answered'[u] \in Nat /\ lost'[u] \in Nat
  BY UserNumbers DEF UserTypeOK, Used
<1>2. /\ Cardinality(Charged(u)) \in Nat /\ Cardinality(Charged(u)') \in Nat
      /\ Cardinality(Charged(u)') = Cardinality(Charged(u)) + (IF Pays(v, u) THEN 1 ELSE 0)
                                                   - (IF Pays(ask[w], u) THEN 1 ELSE 0)
  BY AskMoves
<1>3. SUFFICES ASSUME u \notin strayed'
               PROVE  Used(u)' = answered'[u] + Cardinality(Charged(u)') + lost'[u]
  BY DEF Balanced
<1>4. Used(u) = answered[u] + Cardinality(Charged(u)) + lost[u]
  BY <1>3 DEF Balanced
<1>5. Used(u)' - Used(u) = (answered'[u] - answered[u]) + (lost'[u] - lost[u])
                + (IF Pays(v, u) THEN 1 ELSE 0) - (IF Pays(ask[w], u) THEN 1 ELSE 0)
  BY <1>3
<1> QED BY <1>1, <1>2, <1>4, <1>5

LEMMA SlackMoves ==
  ASSUME UserTypeOK, UserTypeOK', NEW w \in Workers, NEW u \in Users, NEW v,
         ask' = [ask EXCEPT ![w] = v], WithinSlack(u),
         \/ Used(u)' + (IF Passed(v, u) THEN 1 ELSE 0) <= Used(u) + (IF Passed(ask[w], u) THEN 1 ELSE 0)
         \/ Used(u)' = Used(u) /\ Used(u) < Limit
  PROVE  WithinSlack(u)'
<1>1. /\ Used(u) \in Nat /\ Used(u)' \in Nat /\ Limit \in Nat /\ Cardinality(Workers) \in Nat
  BY UserNumbers DEF UserTypeOK, Used
<1>2. /\ Cardinality(Checked(u)) \in Nat /\ Cardinality(Checked(u)') \in Nat
      /\ Cardinality(Checked(u)') = Cardinality(Checked(u)) + (IF Passed(v, u) THEN 1 ELSE 0)
                                                   - (IF Passed(ask[w], u) THEN 1 ELSE 0)
  BY AskMoves
<1>3. Cardinality(Checked(u)') <= Cardinality(Workers)
  <2>1. Checked(u)' \in SUBSET Workers
    BY DEF Checked
  <2> QED BY <2>1, UserAssumption, FS_Subset
<1>4. CASE Used(u)' + (IF Passed(v, u) THEN 1 ELSE 0) <= Used(u) + (IF Passed(ask[w], u) THEN 1 ELSE 0)
  BY <1>1, <1>2, <1>4 DEF WithinSlack
<1>5. CASE Used(u)' = Used(u) /\ Used(u) < Limit
  BY <1>1, <1>2, <1>3, <1>5 DEF WithinSlack
<1> QED BY <1>4, <1>5

LEMMA UserInitInv == UserInit => UserInv
<1> SUFFICES ASSUME UserInit PROVE UserInv
  OBVIOUS
<1>1. UserTypeOK
  BY UserInitType
<1>2. NotYetCharged
  BY DEF UserInit, NotYetCharged, Idle
<1>3. ASSUME NEW u \in Users PROVE Balanced(u) /\ WithinSlack(u)
  <2>1. Charged(u) = {} /\ Checked(u) = {}
    BY DEF UserInit, Charged, ChargedTo, Checked, Idle
  <2>2. Used(u) = 0 /\ answered[u] = 0 /\ lost[u] = 0
    BY DEF UserInit, Used
  <2>3. Cardinality(Workers) \in Nat /\ Cardinality(Workers) # 0 /\ Limit \in Nat
    BY UserAssumption, FS_CardinalityType, FS_EmptySet
  <2> QED BY <2>1, <2>2, <2>3, FS_EmptySet DEF Balanced, WithinSlack
<1> QED BY <1>1, <1>2, <1>3 DEF UserInv, Ledger, UserOverrun, Balanced, WithinSlack

\* The account's own steps: only the erasure of a counter touches the gate, and
\* it empties all four of the ledger's numbers at once.
LEMMA AccountKeeps ==
  ASSUME UserInv, NEW x \in Users, AccountStep(x), UserTypeOK', NEW u \in Users
  PROVE  Balanced(u)' /\ WithinSlack(u)' /\ NotYetCharged'
<1>1. UserTypeOK /\ NotYetCharged /\ Balanced(u) /\ WithinSlack(u)
  BY DEF UserInv, Ledger, UserOverrun, Balanced, WithinSlack
<1>2. CASE Register(x) \/ SetKey(x) \/ ClearKey(x) \/ EraseAccount(x) \/ EraseFails(x)
  <2>1. UNCHANGED <<table, ask, History>>
    BY <1>2 DEF Register, SetKey, ClearKey, EraseAccount, EraseFails
  <2>2. UNCHANGED <<table, ask, answered, lost, strayed>>
    BY <2>1 DEF History
  <2>3. Used(u)' = Used(u) /\ Charged(u)' = Charged(u) /\ Checked(u)' = Checked(u)
    BY <2>2 DEF Used, Charged, ChargedTo, Checked, OnFreeTier
  <2>4. Balanced(u)' /\ WithinSlack(u)'
    BY <1>1, <2>2, <2>3 DEF Balanced, WithinSlack
  <2> QED BY <1>1, <2>2, <2>4 DEF NotYetCharged
<1>3. CASE EraseCounter(x)
  <2>1. ASSUME NEW w \in Workers
        PROVE  /\ ask'[w].pc = ask[w].pc
               /\ ask[w].pc # "idle" => ask'[w].user = ask[w].user /\ ask'[w].plan = ask[w].plan
               /\ ChargedTo(w, x) => ask'[w].stale
               /\ ~ChargedTo(w, x) => ask'[w] = ask[w]
    <3>1. ask'[w] = IF ChargedTo(w, x) THEN [ask[w] EXCEPT !.stale = TRUE] ELSE ask[w]
      BY <1>3 DEF EraseCounter
    <3>2. ChargedTo(w, x) => ask[w] \in InFlight
      BY <1>1, AskTyped DEF ChargedTo
    <3> QED BY <3>1, <3>2 DEF InFlight
  <2>2. NotYetCharged'
    <3>1. \A w \in Workers : ask[w].pc \in {"admitted", "consuming", "checked"} => ~ChargedTo(w, x)
      BY DEF ChargedTo
    <3> QED BY <1>1, <2>1, <3>1 DEF NotYetCharged
  <2>3. Checked(u)' = Checked(u)
    BY <2>1 DEF Checked
  <2>4. CASE u = x
    <3>1. Used(u)' = 0 /\ answered'[u] = 0 /\ lost'[u] = 0
      BY <1>1, <1>3, <2>4 DEF EraseCounter, Used, UserTypeOK
    <3>2. Charged(u)' = {}
      <4>1. \A w \in Workers : ~ChargedTo(w, u)'
        BY <2>1, <2>4 DEF ChargedTo, OnFreeTier
      <4> QED BY <4>1 DEF Charged
    <3>3. Balanced(u)'
      BY <3>1, <3>2, FS_EmptySet DEF Balanced
    <3>4. Used(u) \in Nat /\ Cardinality(Workers) \in Nat /\ Limit \in Nat
      BY <1>1, UserNumbers
    <3>5. Cardinality(Checked(u)) \in Nat
      <4>1. IsFiniteSet(Checked(u))
        BY UserAssumption, FS_Subset DEF Checked
      <4> QED BY <4>1, FS_CardinalityType
    <3>6. WithinSlack(u)'
      BY <1>1, <2>3, <3>1, <3>4, <3>5 DEF WithinSlack
    <3> QED BY <2>2, <3>3, <3>6
  <2>5. CASE u # x
    <3>1. /\ Used(u)' = Used(u) /\ answered'[u] = answered[u] /\ lost'[u] = lost[u]
          /\ u \in strayed' <=> u \in strayed
      BY <1>1, <1>3, <2>5 DEF EraseCounter, Used, UserTypeOK
    <3>2. Charged(u)' = Charged(u)
      <4>1. \A w \in Workers : ChargedTo(w, u)' <=> ChargedTo(w, u)
        BY <2>1, <2>5 DEF ChargedTo, OnFreeTier
      <4> QED BY <4>1 DEF Charged
    <3> QED BY <1>1, <2>2, <2>3, <3>1, <3>2 DEF Balanced, WithinSlack
  <2> QED BY <2>4, <2>5
<1> QED BY <1>2, <1>3 DEF AccountStep

\* A move keeps NotYetCharged when the new place of the request does.
LEMMA NotYetMoves ==
  ASSUME UserTypeOK, NotYetCharged, NEW w \in Workers, NEW v, ask' = [ask EXCEPT ![w] = v],
         v.pc \in {"admitted", "consuming", "checked"} => v.plan = "free" /\ ~v.stale,
         v.pc = "refunding" => v.plan = "free"
  PROVE  NotYetCharged'
<1>1. ask'[w] = v /\ \A x \in Workers : x # w => ask'[x] = ask[x]
  BY DEF UserTypeOK
<1> QED BY <1>1 DEF NotYetCharged

LEMMA AskKeeps ==
  ASSUME UserInv, NEW w \in Workers, AskStep(w), UserTypeOK', NEW u \in Users
  PROVE  Balanced(u)' /\ WithinSlack(u)' /\ NotYetCharged'
<1>1. UserTypeOK /\ NotYetCharged /\ Balanced(u) /\ WithinSlack(u)
  BY DEF UserInv, Ledger, UserOverrun, Balanced, WithinSlack
<1>2. /\ Used(u) \in Nat /\ answered[u] \in Nat /\ lost[u] \in Nat
      /\ table \in [Users -> Nat \cup {NoRow}] /\ NoRow \notin Nat
  BY <1>1, UserNumbers, UserAssumption DEF UserTypeOK
<1>3. ask[w].pc # "idle" => ask[w] \in InFlight /\ ask[w].user \in Users
  BY <1>1, AskTyped DEF InFlight
<1>4. Idle.pc = "idle" /\ ~Pays(Idle, u) /\ ~Passed(Idle, u)
  BY DEF Idle, Pays, Passed
\* a request that is not charged moves to a place where it is not, or ends
<1>5. ASSUME NEW v, ask' = [ask EXCEPT ![w] = v], UNCHANGED <<table, answered, lost, strayed>>,
             Pays(v, u) <=> Pays(ask[w], u), Passed(v, u) => Used(u) < Limit,
             v.pc \in {"admitted", "consuming", "checked"} => v.plan = "free" /\ ~v.stale,
             v.pc = "refunding" => v.plan = "free"
      PROVE  Balanced(u)' /\ WithinSlack(u)' /\ NotYetCharged'
  <2>1. Used(u)' = Used(u)
    BY <1>5 DEF Used
  <2>2. NotYetCharged'
    BY <1>1, <1>5, NotYetMoves
  <2>3. u \notin strayed' =>
           /\ u \notin strayed
           /\ Used(u)' - Used(u) = (answered'[u] - answered[u]) + (lost'[u] - lost[u])
                + (IF Pays(v, u) THEN 1 ELSE 0) - (IF Pays(ask[w], u) THEN 1 ELSE 0)
    BY <1>2, <1>5, <2>1
  <2>4. Balanced(u)'
    BY <1>1, <1>5, <2>3, BalanceMoves
  <2>5. \/ Used(u)' + (IF Passed(v, u) THEN 1 ELSE 0) <= Used(u) + (IF Passed(ask[w], u) THEN 1 ELSE 0)
        \/ Used(u)' = Used(u) /\ Used(u) < Limit
    BY <1>2, <1>5, <2>1
  <2>6. WithinSlack(u)'
    BY <1>1, <1>5, <2>5, SlackMoves
  <2> QED BY <2>2, <2>4, <2>6
<1>6. ASSUME NEW x \in Users, Arrive(w, x) PROVE Balanced(u)' /\ WithinSlack(u)' /\ NotYetCharged'
  <2> DEFINE v == [pc |-> "admitted", user |-> x, plan |-> "free", fresh |-> FALSE, stale |-> FALSE]
  <2>1. v.pc = "admitted" /\ v.plan = "free" /\ ~v.stale
    OBVIOUS
  <2>2. ask' = [ask EXCEPT ![w] = v] /\ UNCHANGED <<table, answered, lost, strayed>> /\ ask[w].pc = "idle"
    BY <1>6 DEF Arrive, History
  <2> HIDE DEF v
  <2>3. ~Pays(v, u) /\ ~Passed(v, u) /\ ~Pays(ask[w], u)
    BY <2>1, <2>2 DEF Pays, Passed
  <2> QED BY <1>5, <2>1, <2>2, <2>3
<1>7. CASE Plan(w)
  <2> DEFINE v == IF ask[w].user \in byok THEN [ask[w] EXCEPT !.plan = "byok", !.pc = "asking"]
                                          ELSE [ask[w] EXCEPT !.pc = "consuming"]
  <2>1. ask[w] \in InFlight /\ ask[w].pc = "admitted" /\ ask[w].plan = "free" /\ ~ask[w].stale
    BY <1>1, <1>3, <1>7 DEF Plan, NotYetCharged
  <2>2. ask' = [ask EXCEPT ![w] = v] /\ UNCHANGED <<table, answered, lost, strayed>>
    BY <1>7 DEF Plan, History
  <2>3. /\ v.pc \in {"asking", "consuming"} /\ (v.pc = "asking" => v.plan = "byok")
        /\ v.pc = "consuming" => v.plan = "free" /\ ~v.stale
    BY <2>1 DEF InFlight
  <2> HIDE DEF v
  <2>4. ~Pays(v, u) /\ ~Passed(v, u) /\ ~Pays(ask[w], u)
    BY <2>1, <2>3 DEF Pays, Passed
  <2> QED BY <1>5, <2>2, <2>3, <2>4
<1>8. CASE Refuse(w) \/ InsertConflict(w)
  <2>1. /\ ask' = [ask EXCEPT ![w] = Idle] /\ UNCHANGED <<table, answered, lost, strayed>>
        /\ ask[w].pc \in {"consuming", "checked"}
    BY <1>8 DEF Refuse, InsertConflict, History
  <2>2. ~Pays(ask[w], u)
    BY <2>1 DEF Pays
  <2> QED BY <1>4, <1>5, <2>1, <2>2
<1>9. CASE Pass(w)
  <2> DEFINE v == [ask[w] EXCEPT !.pc = "checked", !.fresh = (table[ask[w].user] = NoRow)]
  <2>1. /\ ask[w] \in InFlight /\ ask[w].pc = "consuming" /\ ask[w].plan = "free" /\ ~ask[w].stale
        /\ Used(ask[w].user) < Limit
    BY <1>1, <1>3, <1>9 DEF Pass, NotYetCharged, Allow
  <2>2. ask' = [ask EXCEPT ![w] = v] /\ UNCHANGED <<table, answered, lost, strayed>>
    BY <1>9 DEF Pass, History
  <2>3. v.pc = "checked" /\ v.plan = "free" /\ ~v.stale /\ v.user = ask[w].user
    BY <2>1 DEF InFlight
  <2> HIDE DEF v
  <2>4. ~Pays(v, u) /\ ~Pays(ask[w], u) /\ (Passed(v, u) => Used(u) < Limit)
    BY <2>1, <2>3 DEF Pays, Passed
  <2> QED BY <1>5, <2>2, <2>3, <2>4
\* the write: w leaves the check, and is charged if there was a row to charge
<1>10. ASSUME NEW x \in Users, x = ask[w].user, ask[w].pc = "checked",
              NEW v, ask' = [ask EXCEPT ![w] = v], v.pc = "asking", v.user = x, v.plan = "free",
              UNCHANGED <<answered, lost, strayed>>, v.stale \in BOOLEAN,
              Used(u)' = IF u = x /\ ~v.stale THEN Used(u) + 1 ELSE Used(u)
       PROVE  Balanced(u)' /\ WithinSlack(u)' /\ NotYetCharged'
  <2>1. NotYetCharged'
    BY <1>1, <1>10, NotYetMoves
  <2>2. ~Pays(ask[w], u) /\ (Pays(v, u) <=> u = x /\ ~v.stale)
    BY <1>10 DEF Pays
  <2>3. ~Passed(v, u) /\ (Passed(ask[w], u) <=> u = x)
    BY <1>10 DEF Passed
  <2>4. u \notin strayed' =>
           /\ u \notin strayed
           /\ Used(u)' - Used(u) = (answered'[u] - answered[u]) + (lost'[u] - lost[u])
                + (IF Pays(v, u) THEN 1 ELSE 0) - (IF Pays(ask[w], u) THEN 1 ELSE 0)
    BY <1>2, <1>10, <2>2
  <2>5. Balanced(u)'
    BY <1>1, <1>10, <2>4, BalanceMoves
  <2>6. \/ Used(u)' + (IF Passed(v, u) THEN 1 ELSE 0) <= Used(u) + (IF Passed(ask[w], u) THEN 1 ELSE 0)
        \/ Used(u)' = Used(u) /\ Used(u) < Limit
    BY <1>2, <1>10, <2>3
  <2>7. WithinSlack(u)'
    BY <1>1, <1>10, <2>6, SlackMoves
  <2> QED BY <2>1, <2>5, <2>7
<1>11. CASE Insert(w)
  <2> DEFINE v == [ask[w] EXCEPT !.pc = "asking"]
  <2>1. PICK x \in Users : x = ask[w].user
    BY <1>3, <1>11 DEF Insert
  <2>2. /\ ask[w] \in InFlight /\ ask[w].pc = "checked" /\ ask[w].plan = "free" /\ ~ask[w].stale
        /\ table[x] = NoRow /\ table' = [table EXCEPT ![x] = 1]
    BY <1>1, <1>3, <1>11, <2>1 DEF Insert, NotYetCharged
  <2>3. ask' = [ask EXCEPT ![w] = v] /\ UNCHANGED <<answered, lost, strayed>>
    BY <1>11 DEF Insert, History
  <2>4. v.pc = "asking" /\ v.user = x /\ v.plan = "free" /\ ~v.stale /\ v.stale \in BOOLEAN
    BY <2>1, <2>2 DEF InFlight
  <2> HIDE DEF v
  <2>5. Used(u)' = IF u = x THEN Used(u) + 1 ELSE Used(u)
    BY <1>2, <2>2 DEF Used
  <2> QED BY <1>10, <2>1, <2>2, <2>3, <2>4, <2>5
<1>12. CASE Increment(w)
  <2> DEFINE v == [ask[w] EXCEPT !.pc = "asking", !.stale = (table[ask[w].user] = NoRow)]
  <2>1. PICK x \in Users : x = ask[w].user
    BY <1>3, <1>12 DEF Increment
  <2>2. /\ ask[w] \in InFlight /\ ask[w].pc = "checked" /\ ask[w].plan = "free"
        /\ table' = [table EXCEPT ![x] = IF @ = NoRow THEN NoRow ELSE @ + 1]
    BY <1>1, <1>3, <1>12, <2>1 DEF Increment, NotYetCharged
  <2>3. ask' = [ask EXCEPT ![w] = v] /\ UNCHANGED <<answered, lost, strayed>>
    BY <1>12 DEF Increment, History
  <2>4. /\ v.pc = "asking" /\ v.user = x /\ v.plan = "free"
        /\ v.stale = (table[x] = NoRow) /\ v.stale \in BOOLEAN
    BY <2>1, <2>2 DEF InFlight
  <2> HIDE DEF v
  <2>5. Used(u)' = IF u = x /\ table[x] # NoRow THEN Used(u) + 1 ELSE Used(u)
    BY <1>2, <2>2 DEF Used
  <2>6. Used(u)' = IF u = x /\ ~v.stale THEN Used(u) + 1 ELSE Used(u)
    BY <2>4, <2>5
  <2> QED BY <1>10, <2>1, <2>2, <2>3, <2>4, <2>6
\* the request ends: what it paid goes to the answers, the losses or the counter
<1>13. ASSUME ask' = [ask EXCEPT ![w] = Idle], Used(u)' <= Used(u),
              u \notin strayed' =>
                /\ u \notin strayed
                /\ Used(u)' - Used(u) = (answered'[u] - answered[u]) + (lost'[u] - lost[u])
                                                   - (IF Pays(ask[w], u) THEN 1 ELSE 0)
       PROVE  Balanced(u)' /\ WithinSlack(u)' /\ NotYetCharged'
  <2>0. /\ Used(u)' \in Nat /\ answered'[u] \in Nat /\ lost'[u] \in Nat
    BY UserNumbers DEF UserTypeOK, Used
  <2>1. NotYetCharged'
    BY <1>1, <1>4, <1>13, NotYetMoves
  <2>2. u \notin strayed' =>
           /\ u \notin strayed
           /\ Used(u)' - Used(u) = (answered'[u] - answered[u]) + (lost'[u] - lost[u])
                + (IF Pays(Idle, u) THEN 1 ELSE 0) - (IF Pays(ask[w], u) THEN 1 ELSE 0)
    BY <1>2, <1>4, <1>13, <2>0
  <2>3. Balanced(u)'
    BY <1>1, <1>13, <2>2, BalanceMoves
  <2>4. \/ Used(u)' + (IF Passed(Idle, u) THEN 1 ELSE 0) <= Used(u) + (IF Passed(ask[w], u) THEN 1 ELSE 0)
        \/ Used(u)' = Used(u) /\ Used(u) < Limit
    BY <1>2, <1>4, <1>13, <2>0
  <2>5. WithinSlack(u)'
    BY <1>1, <1>13, <2>4, SlackMoves
  <2> QED BY <2>1, <2>3, <2>5
<1>14. Pays(ask[w], u) <=> ask[w].user = u /\ ChargedTo(w, ask[w].user)
  BY DEF Pays, ChargedTo, OnFreeTier
<1>15. CASE Answer(w)
  <2>1. PICK x \in Users : x = ask[w].user
    BY <1>3, <1>15 DEF Answer
  <2>2. /\ ask' = [ask EXCEPT ![w] = Idle] /\ UNCHANGED <<table, lost, strayed>>
        /\ answered' = IF ChargedTo(w, x) THEN [answered EXCEPT ![x] = @ + 1] ELSE answered
    BY <1>15, <2>1 DEF Answer
  <2>3. Used(u)' = Used(u)
    BY <2>2 DEF Used
  <2>4. answered'[u] = answered[u] + (IF Pays(ask[w], u) THEN 1 ELSE 0)
    BY <1>1, <1>2, <1>14, <2>1, <2>2 DEF UserTypeOK
  <2> QED BY <1>2, <1>13, <2>2, <2>3, <2>4
<1>16. CASE Unanswered(w)
  <2> DEFINE v == IF Refunds(w) THEN [ask[w] EXCEPT !.pc = "refunding"] ELSE Idle
  <2>1. ask[w] \in InFlight /\ ask[w].pc = "asking"
    BY <1>3, <1>16 DEF Unanswered
  <2>2. ask' = [ask EXCEPT ![w] = v] /\ UNCHANGED <<table, answered, lost, strayed>>
    BY <1>16 DEF Unanswered, History
  <2>3. CASE Refunds(w)
    <3>1. /\ v.pc = "refunding" /\ v.plan = "free" /\ ask[w].plan = "free"
          /\ v.user = ask[w].user /\ v.stale = ask[w].stale
      BY <2>1, <2>3 DEF InFlight, Refunds, OnFreeTier
    <3> HIDE DEF v
    <3>2. (Pays(v, u) <=> Pays(ask[w], u)) /\ ~Passed(v, u)
      BY <2>1, <3>1 DEF Pays, Passed
    <3> QED BY <1>5, <2>2, <3>1, <3>2
  <2>4. CASE ~Refunds(w)
    <3>1. ~Pays(ask[w], u)
      BY <2>4 DEF Pays, Refunds, OnFreeTier
    <3> QED BY <1>4, <1>5, <2>2, <2>4, <3>1
  <2> QED BY <2>3, <2>4
<1>17. CASE Refund(w)
  <2>1. PICK x \in Users : x = ask[w].user
    BY <1>3, <1>17 DEF Refund
  <2>2. /\ ask' = [ask EXCEPT ![w] = Idle] /\ UNCHANGED <<answered, lost>>
        /\ table' = IF Refundable(x) THEN [table EXCEPT ![x] = @ - 1] ELSE table
        /\ strayed' = IF Refundable(x) /\ ~ChargedTo(w, x) THEN strayed \cup {x} ELSE strayed
    BY <1>17, <2>1 DEF Refund
  \* a refund of the request's own charge finds it on the counter
  <2>3. Pays(ask[w], u) /\ u \notin strayed => Refundable(u)
    <3>1. /\ Cardinality(Charged(u)) \in Nat
          /\ Cardinality(Charged(u)) >= IF Pays(ask[w], u) THEN 1 ELSE 0
      BY <1>1, <2>2, AskMoves
    <3>2. Pays(ask[w], u) /\ u \notin strayed => Used(u) >= 1
      BY <1>1, <1>2, <3>1 DEF Balanced
    <3> QED BY <1>2, <3>2 DEF Used, Refundable
  <2>4. Used(u)' = IF u = x /\ Refundable(u) THEN Used(u) - 1 ELSE Used(u)
    <3>1. table'[u] = IF u = x /\ Refundable(u) THEN table[u] - 1 ELSE table[u]
      BY <1>2, <2>2
    <3>2. Refundable(u) => table[u] \in Nat /\ table[u] > 0
      BY <1>2 DEF Refundable
    <3> QED BY <1>2, <3>1, <3>2 DEF Used
  <2>5. u \notin strayed' =>
          /\ u \notin strayed
          /\ (u = x /\ Refundable(u)) <=> Pays(ask[w], u)
    BY <1>14, <2>1, <2>2, <2>3
  <2> QED BY <1>2, <1>13, <2>2, <2>4, <2>5
<1>18. CASE Abort(w)
  <2>1. PICK x \in Users : x = ask[w].user
    BY <1>3, <1>18 DEF Abort
  <2>2. /\ ask' = [ask EXCEPT ![w] = Idle] /\ UNCHANGED <<table, answered, strayed>>
        /\ lost' = IF ChargedTo(w, x) THEN [lost EXCEPT ![x] = @ + 1] ELSE lost
    BY <1>18, <2>1 DEF Abort
  <2>3. Used(u)' = Used(u)
    BY <2>2 DEF Used
  <2>4. lost'[u] = lost[u] + (IF Pays(ask[w], u) THEN 1 ELSE 0)
    BY <1>1, <1>2, <1>14, <2>1, <2>2 DEF UserTypeOK
  <2> QED BY <1>2, <1>13, <2>2, <2>3, <2>4
<1> QED BY <1>6, <1>7, <1>8, <1>9, <1>11, <1>12, <1>15, <1>16, <1>17, <1>18 DEF AskStep

LEMMA UserNextInv == UserInv /\ [UserNext]_userVars => UserInv'
<1> SUFFICES ASSUME UserInv, [UserNext]_userVars PROVE UserInv'
  OBVIOUS
<1>1. UserTypeOK'
  BY UserNextType DEF UserInv
<1>2. ASSUME NEW u \in Users PROVE Balanced(u)' /\ WithinSlack(u)'
  <2>1. CASE UNCHANGED userVars
    <3>1. Used(u)' = Used(u) /\ Charged(u)' = Charged(u) /\ Checked(u)' = Checked(u)
      BY <2>1 DEF userVars, Used, Charged, ChargedTo, Checked, OnFreeTier
    <3>2. Balanced(u) /\ WithinSlack(u)
      BY DEF UserInv, Ledger, UserOverrun, Balanced, WithinSlack
    <3> QED BY <2>1, <3>1, <3>2 DEF userVars, Balanced, WithinSlack
  <2> QED BY <1>1, <2>1, AccountKeeps, AskKeeps DEF UserNext
<1>3. NotYetCharged'
  <2>1. CASE UNCHANGED userVars
    BY <2>1 DEF userVars, NotYetCharged, UserInv
  <2>2. ASSUME NEW x \in Users, AccountStep(x) PROVE NotYetCharged'
    BY <1>1, <2>2, AccountKeeps
  <2>3. ASSUME NEW w \in Workers, AskStep(w) PROVE NotYetCharged'
    <3>1. CASE Users = {}
      <4>1. \A x \in Workers : ask[x] = Idle
        BY <3>1, AskTyped DEF UserInv, InFlight
      <4>2. ask[w] = Idle /\ Idle.pc = "idle"
        BY <4>1 DEF Idle
      <4> QED BY <2>3, <3>1, <4>2 DEF AskStep, Plan, Refuse, Pass, Insert, InsertConflict,
                                      Increment, Answer, Unanswered, Refund, Abort
    <3>2. CASE Users # {}
      <4>1. PICK u \in Users : TRUE
        BY <3>2
      <4> QED BY <1>1, <2>3, <4>1, AskKeeps
    <3> QED BY <3>1, <3>2
  <2> QED BY <2>1, <2>2, <2>3 DEF UserNext
<1> QED BY <1>1, <1>2, <1>3 DEF UserInv, Ledger, UserOverrun, Balanced, WithinSlack

LEMMA UserInvariant == UserSpec => []UserInv
<1>1. UserInit => UserInv
  BY UserInitInv
<1>2. UserInv /\ [UserNext]_userVars => UserInv'
  BY UserNextInv
<1> QED BY <1>1, <1>2, PTL DEF UserSpec

\* Whatever keys are set and cleared and accounts erased and registered again,
\* a counter that no foreign refund has lowered is its answers, its calls still
\* running and its charges that died.
THEOREM UserLedgerBalances == UserSpec => []Ledger
<1>1. UserInv => Ledger
  BY DEF UserInv
<1> QED BY <1>1, UserInvariant, PTL

\* A user's parallel questions push the lifetime counter past Limit by at most one
\* for each worker beside the first.
THEOREM UserOverrunBounded == UserSpec => []UserOverrun
<1>1. UserInv => UserOverrun
  BY DEF UserInv
<1> QED BY <1>1, UserInvariant, PTL

------------------------------------------------------------------------------
(* The refinement: a write is a charge, a refund a return, an erasure forgets. *)

\* A request that passed the check finds its counter below the cap of the gate.
LEMMA PassedBelowCap ==
  ASSUME UserInv, NEW u \in Users, NEW w \in Checked(u)
  PROVE  Used(u) < Limit + (Cardinality(Workers) - 1)
<1>1. IsFiniteSet(Checked(u))
  BY UserAssumption, FS_Subset DEF Checked
<1>2. Cardinality(Checked(u)) \in Nat /\ Cardinality(Checked(u)) # 0
  BY <1>1, FS_CardinalityType, FS_EmptySet
<1>3. Used(u) \in Nat /\ Limit \in Nat /\ Cardinality(Workers) \in Nat
  BY UserNumbers DEF UserInv
<1> QED BY <1>2, <1>3 DEF UserInv, UserOverrun

LEMMA UserGateStep ==
  UserInv /\ [UserNext]_userVars => [Gate!Next]_([u \in Users |-> Used(u)])
<1> DEFINE bar == [u \in Users |-> Used(u)]
<1> SUFFICES ASSUME UserInv, [UserNext]_userVars
             PROVE  Gate!Next \/ bar' = bar
  OBVIOUS
<1>1. ASSUME table' = table PROVE bar' = bar
  BY <1>1 DEF Used
<1>2. /\ UserTypeOK /\ table \in [Users -> Nat \cup {NoRow}] /\ NoRow \notin Nat
      /\ \A u \in Users : Used(u) \in Nat
  BY UserAssumption DEF UserInv, UserTypeOK, Used
\* one more on the counter of x, which a request that passed the check takes
<1>3. ASSUME NEW x \in Users, NEW w \in Checked(x), Used(x)' = Used(x) + 1,
             \A b \in Users \ {x} : Used(b)' = Used(b)
      PROVE  Gate!Next
  <2>1. Used(x) < Limit + (Cardinality(Workers) - 1)
    BY PassedBelowCap
  <2>2. bar' = [b \in Users |-> IF b = x THEN bar[x] + 1 ELSE IF b \in {} THEN 0 ELSE bar[b]]
    BY <1>3
  <2>3. Gate!Charge(x, {})
    BY <2>1, <2>2 DEF Gate!Charge
  <2> QED BY <2>3 DEF Gate!Next
<1>4. ASSUME NEW u \in Users, AccountStep(u) PROVE Gate!Next \/ bar' = bar
  <2>1. CASE EraseCounter(u)
    <3>1. table' = [table EXCEPT ![u] = NoRow]
      BY <2>1 DEF EraseCounter
    <3>2. \A b \in Users : Used(b)' = IF b = u THEN 0 ELSE Used(b)
      BY <1>2, <3>1 DEF Used
    <3>3. bar' = [bar EXCEPT ![u] = 0]
      BY <3>2
    <3>4. Gate!Forget(u)
      BY <3>3 DEF Gate!Forget
    <3> QED BY <3>4 DEF Gate!Next
  <2>2. CASE Register(u) \/ SetKey(u) \/ ClearKey(u) \/ EraseAccount(u) \/ EraseFails(u)
    BY <1>1, <2>2 DEF Register, SetKey, ClearKey, EraseAccount, EraseFails
  <2> QED BY <1>4, <2>1, <2>2 DEF AccountStep
<1>5. ASSUME NEW w \in Workers, AskStep(w) PROVE Gate!Next \/ bar' = bar
  <2>0. ask[w].pc # "idle" => ask[w].user \in Users
    BY <1>2, AskTyped DEF InFlight
  <2>1. CASE \/ \E u \in Users : Arrive(w, u)
             \/ Plan(w) \/ Refuse(w) \/ Pass(w) \/ InsertConflict(w)
             \/ Answer(w) \/ Unanswered(w) \/ Abort(w)
    BY <1>1, <2>1 DEF Arrive, Plan, Refuse, Pass, InsertConflict, Answer, Unanswered, Abort
  <2>2. CASE Insert(w)
    <3>1. PICK x \in Users : x = ask[w].user
      BY <2>0, <2>2 DEF Insert
    <3>2. w \in Checked(x) /\ table[x] = NoRow /\ table' = [table EXCEPT ![x] = 1]
      BY <2>2, <3>1 DEF Insert, Checked
    <3>3. Used(x)' = Used(x) + 1 /\ \A b \in Users \ {x} : Used(b)' = Used(b)
      BY <1>2, <3>2 DEF Used
    <3> QED BY <1>3, <3>2, <3>3
  <2>3. CASE Increment(w)
    <3>1. PICK x \in Users : x = ask[w].user
      BY <2>0, <2>3 DEF Increment
    <3>2. w \in Checked(x) /\ table' = [table EXCEPT ![x] = IF @ = NoRow THEN NoRow ELSE @ + 1]
      BY <2>3, <3>1 DEF Increment, Checked
    <3>3. CASE table[x] = NoRow
      <4>1. table' = table
        BY <1>2, <3>2, <3>3
      <4> QED BY <1>1, <4>1
    <3>4. CASE table[x] # NoRow
      <4>1. Used(x)' = Used(x) + 1 /\ \A b \in Users \ {x} : Used(b)' = Used(b)
        BY <1>2, <3>2, <3>4 DEF Used
      <4> QED BY <1>3, <3>2, <4>1
    <3> QED BY <3>3, <3>4
  <2>4. CASE Refund(w)
    <3>1. PICK x \in Users : x = ask[w].user
      BY <2>0, <2>4 DEF Refund
    <3>2. CASE Refundable(x)
      <4>1. table' = [table EXCEPT ![x] = @ - 1] /\ table[x] \in Nat /\ table[x] > 0
        BY <1>2, <2>4, <3>1, <3>2 DEF Refund, Refundable
      <4>2. Used(x) > 0 /\ Used(x)' = Used(x) - 1 /\ \A b \in Users \ {x} : Used(b)' = Used(b)
        BY <1>2, <4>1 DEF Used
      <4>3. bar' = [bar EXCEPT ![x] = @ - 1]
        BY <4>2
      <4>4. Gate!Return(x)
        BY <4>2, <4>3 DEF Gate!Return
      <4> QED BY <4>4 DEF Gate!Next
    <3>3. CASE ~Refundable(x)
      BY <1>1, <2>4, <3>1, <3>3 DEF Refund
    <3> QED BY <3>2, <3>3
  <2> QED BY <1>5, <2>1, <2>2, <2>3, <2>4 DEF AskStep
<1>6. CASE UNCHANGED userVars
  BY <1>1, <1>6 DEF userVars
<1> QED BY <1>4, <1>5, <1>6 DEF UserNext

\* The lifetime counters are a question gate whose slack is one per worker beside
\* the first: charged below the cap, returned only when charged, forgotten by erasures.
THEOREM UserQuotaRefinesGate == UserSpec => GateSpec
<1>1. UserInit => Gate!Init
  BY DEF UserInit, Gate!Init, Used
<1>2. UserInv /\ [UserNext]_userVars => [Gate!Next]_([u \in Users |-> Used(u)])
  BY UserGateStep
<1> QED BY <1>1, <1>2, UserInvariant, PTL DEF UserSpec, GateSpec, Gate!Spec
==============================================================================
