--------------------------- MODULE AnsweringProofs ---------------------------
(***************************************************************************)
(* Proofs about Answering for any corpus, plan and helper configuration:   *)
(* types, cite or fail, the tenant scope, the number of model calls and    *)
(* the cut of a ranking.                                                   *)
(*                                                                         *)
(* What an asker sees is not enough of an invariant: an escalation that    *)
(* fails delivers the answer it was to better, so that one must be fit to  *)
(* show too (Texts), and so must the chunks a model is shown (Shape).  The *)
(* bound on calls needs what each pass may have cost so far (Costs).  The  *)
(* cut is counted by ranks: how many of a set of positions come before one *)
(* of them.                                                                *)
(***************************************************************************)
EXTENDS Answering, FiniteSetTheorems, WellFoundedInduction, TLAPS

\* A set of naturals that is not empty has a least element.
LEMMA Least ==
  ASSUME NEW T \in SUBSET Nat, T # {}
  PROVE  \E m \in T : \A n \in T : m <= n
<1>1. PICK m \in T : \A n \in T : ~(<<n, m>> \in OpToRel(<, Nat))
  BY WFMin, NatLessThanWellFounded, Zenon
<1>2. \A n \in T : ~(n < m)
  BY <1>1, Zenon DEF OpToRel
<1> QED BY <1>2

------------------------------------------------------------------------------
(* Positions of a sequence and their ranks *)

\* Ranks are at most the number of positions, and less for one of them.
LEMMA RankType ==
  ASSUME NEW len \in Nat, NEW P \in SUBSET (1 .. len), NEW i \in Nat
  PROVE  /\ IsFiniteSet(P) /\ Cardinality(P) \in Nat
         /\ IsFiniteSet({j \in P : j < i})
         /\ Rank(i, P) \in Nat /\ Rank(i, P) <= Cardinality(P)
         /\ i \in P => Rank(i, P) < Cardinality(P)
<1>1. IsFiniteSet(P)
  <2>1. IsFiniteSet(1 .. len)
    BY FS_Interval
  <2> QED BY <2>1, FS_Subset
<1>2. {j \in P : j < i} \in SUBSET P
  OBVIOUS
<1>3. /\ IsFiniteSet({j \in P : j < i})
      /\ Cardinality({j \in P : j < i}) <= Cardinality(P)
      /\ Cardinality({j \in P : j < i}) = Cardinality(P) => P = {j \in P : j < i}
  BY <1>1, <1>2, FS_Subset
<1>4. i \in P => P # {j \in P : j < i}
  BY SMT
<1>5. Cardinality(P) \in Nat /\ Cardinality({j \in P : j < i}) \in Nat
  BY <1>1, <1>3, FS_CardinalityType
<1> QED BY <1>1, <1>3, <1>4, <1>5 DEF Rank

\* Ranks grow by one after each of the positions.
LEMMA RankStep ==
  ASSUME NEW len \in Nat, NEW P \in SUBSET (1 .. len), NEW m \in Nat
  PROVE  Rank(m + 1, P) = IF m \in P THEN Rank(m, P) + 1 ELSE Rank(m, P)
<1>0. \A j \in P : j \in Nat /\ (j < m + 1 <=> j < m \/ j = m)
  OBVIOUS
<1>1. IsFiniteSet({j \in P : j < m})
  BY RankType
<1>2. CASE m \in P
  <2>1. {j \in P : j < m + 1} = {j \in P : j < m} \cup {m}
    BY <1>0, <1>2, Zenon
  <2>2. m \notin {j \in P : j < m}
    OBVIOUS
  <2> QED BY <1>1, <1>2, <2>1, <2>2, FS_AddElement DEF Rank
<1>3. CASE m \notin P
  <2>1. {j \in P : j < m + 1} = {j \in P : j < m}
    BY <1>0, <1>3, Zenon
  <2> QED BY <1>3, <2>1 DEF Rank
<1> QED BY <1>2, <1>3

\* The order of positions is the order of their ranks.
LEMMA RankGrows ==
  ASSUME NEW len \in Nat, NEW P \in SUBSET (1 .. len),
         NEW i \in P, NEW j \in Nat, i < j
  PROVE  Rank(i, P) < Rank(j, P)
<1>1. i \in Nat /\ i + 1 <= j
  OBVIOUS
<1>2. Rank(i + 1, P) = Rank(i, P) + 1
  BY <1>1, RankStep
<1>3. \A k \in P : k < i + 1 => k < j
  BY <1>1
<1>4. {k \in P : k < i + 1} \in SUBSET {k \in P : k < j}
  BY <1>3, Zenon
<1>5. IsFiniteSet({k \in P : k < j})
  BY <1>1, RankType
<1>6. Rank(i + 1, P) <= Rank(j, P)
  BY <1>4, <1>5, FS_Subset DEF Rank
<1>7. Rank(i, P) \in Nat /\ Rank(j, P) \in Nat
  BY <1>1, RankType
<1> QED BY <1>2, <1>6, <1>7

\* Every rank below their number is the rank of one of them.
LEMMA RankOnto ==
  ASSUME NEW len \in Nat, NEW P \in SUBSET (1 .. len),
         NEW r \in Nat, r < Cardinality(P)
  PROVE  \E i \in P : Rank(i, P) = r
<1> DEFINE T == {m \in Nat : r < Rank(m, P)}
<1>1. Rank(len + 1, P) = Cardinality(P)
  <2>1. \A j \in P : j < len + 1
    OBVIOUS
  <2>2. {j \in P : j < len + 1} = P
    BY <2>1, Zenon
  <2> QED BY <2>2 DEF Rank
<1>2. len + 1 \in T
  BY <1>1
<1>3. T \in SUBSET Nat /\ T # {}
  BY <1>2
<1>4. PICK m \in T : \A n \in T : m <= n
  BY ONLY <1>3, Least
<1>5. Rank(0, P) = 0
  <2>1. \A j \in P : ~(j < 0)
    OBVIOUS
  <2>2. {j \in P : j < 0} = {}
    BY <2>1, Zenon
  <2> QED BY <2>2, FS_EmptySet DEF Rank
<1>6. m \in Nat /\ m # 0
  BY <1>5
<1>7. PICK n \in Nat : m = n + 1
  BY <1>6
<1>8. n \notin T
  BY <1>4, <1>7
<1>9. Rank(n, P) \in Nat
  BY RankType
<1>10. r < Rank(n + 1, P)
  BY <1>7
<1>11. Rank(n, P) <= r
  BY <1>8, <1>9
<1>12. n \in P /\ Rank(n, P) = r
  BY <1>9, <1>10, <1>11, RankStep
<1> QED BY <1>12

\* There are n first ones, unless there are fewer in all.
LEMMA FirstsCount ==
  ASSUME NEW len \in Nat, NEW P \in SUBSET (1 .. len), NEW n \in Nat
  PROVE  /\ Cardinality({i \in P : Rank(i, P) < n})
              = IF n < Cardinality(P) THEN n ELSE Cardinality(P)
         /\ Cardinality(P) <= n => {i \in P : Rank(i, P) < n} = P
<1>0. Cardinality(P) \in Nat
  BY RankType
<1>1. CASE Cardinality(P) <= n
  <2>1. ASSUME NEW i \in P PROVE Rank(i, P) \in Nat /\ Rank(i, P) < Cardinality(P)
    <3>1. i \in Nat
      OBVIOUS
    <3> QED BY <3>1, RankType
  <2>2. \A i \in P : Rank(i, P) < n
    BY <1>0, <1>1, <2>1
  <2>3. {i \in P : Rank(i, P) < n} = P
    BY <2>2, Zenon
  <2>4. Cardinality({i \in P : Rank(i, P) < n}) = Cardinality(P)
    BY <2>3
  <2>5. ~(n < Cardinality(P))
    BY <1>0, <1>1
  <2> QED BY <2>3, <2>4, <2>5, Zenon
<1>2. CASE n < Cardinality(P)
  <2>1. PICK m \in P : Rank(m, P) = n
    BY <1>2, RankOnto
  <2>2. \A i \in P : Rank(i, P) < n <=> i < m
    <3> TAKE i \in P
    <3>1. i < m => Rank(i, P) < n
      BY <2>1, RankGrows
    <3>2. m < i => n < Rank(i, P)
      BY <2>1, RankGrows
    <3>0. i \in Nat
      OBVIOUS
    <3>3. Rank(i, P) \in Nat
      BY <3>0, RankType
    <3> QED BY <2>1, <3>0, <3>1, <3>2, <3>3
  <2>3. {i \in P : Rank(i, P) < n} = {i \in P : i < m}
    BY <2>2, Zenon
  <2>4. Cardinality({i \in P : Rank(i, P) < n}) = n
    BY <2>1, <2>3 DEF Rank
  <2>5. ~(Cardinality(P) <= n)
    BY <1>0, <1>2
  <2> QED BY <1>2, <2>4, <2>5, Zenon
<1> QED BY <1>0, <1>1, <1>2

\* s at the positions Q, each once, in some order.
Lists(p, s, Q) ==
  \E pos \in [1 .. Len(p) -> Q] :
    /\ \A r, t \in 1 .. Len(p) : pos[r] = pos[t] => r = t
    /\ \A i \in Q : \E r \in 1 .. Len(p) : pos[r] = i
    /\ \A r \in 1 .. Len(p) : p[r] = s[pos[r]]

\* Firsts lists the first n of the positions.
LEMMA FirstsList ==
  ASSUME NEW S, NEW s \in Seq(S), NEW P \in SUBSET DOMAIN s, NEW n \in Nat,
         NEW Q, Q = {i \in P : Rank(i, P) < n}
  PROVE  /\ Q \in SUBSET P /\ Cardinality(Q) \in Nat
         /\ Firsts(s, P, n) \in Seq(S) /\ Len(Firsts(s, P, n)) = Cardinality(Q)
         /\ Lists(Firsts(s, P, n), s, Q)
<1> DEFINE pos == [r \in 1 .. Cardinality(Q) |-> CHOOSE i \in Q : Rank(i, Q) = r - 1]
           f == Firsts(s, P, n)
<1>1. Len(s) \in Nat /\ DOMAIN s = 1 .. Len(s) /\ Q \in SUBSET (1 .. Len(s))
  OBVIOUS
<1>2. Cardinality(Q) \in Nat
  BY <1>1, RankType, 0 \in Nat
<1>3. f = [r \in 1 .. Cardinality(Q) |-> s[pos[r]]]
  BY DEF Firsts
<1>4. ASSUME NEW r \in 1 .. Cardinality(Q) PROVE pos[r] \in Q /\ Rank(pos[r], Q) = r - 1
  <2>1. r - 1 \in Nat /\ r - 1 < Cardinality(Q)
    BY <1>2
  <2>2. \E i \in Q : Rank(i, Q) = r - 1
    BY ONLY <1>1, <2>1, RankOnto
  <2>3. pos[r] = CHOOSE i \in Q : Rank(i, Q) = r - 1
    OBVIOUS
  <2> HIDE DEF pos
  <2> QED BY <2>2, <2>3, Zenon
<1>5. \A r, t \in 1 .. Cardinality(Q) : pos[r] = pos[t] => r = t
  <2> HIDE DEF pos
  <2> TAKE r, t \in 1 .. Cardinality(Q)
  <2> HAVE pos[r] = pos[t]
  <2>1. r - 1 = t - 1
    BY <1>4
  <2> QED BY <1>2, <2>1
<1>6. \A i \in Q : \E r \in 1 .. Cardinality(Q) : pos[r] = i
  <2> TAKE i \in Q
  <2> DEFINE r == Rank(i, Q) + 1
  <2>1. i \in Nat
    BY <1>1
  <2>2. Rank(i, Q) \in Nat /\ Rank(i, Q) < Cardinality(Q)
    BY <1>1, <2>1, RankType
  <2>3. r \in 1 .. Cardinality(Q)
    BY <1>2, <2>2
  <2>0. r - 1 = Rank(i, Q)
    BY <2>2
  <2> HIDE DEF pos, r
  <2>4. pos[r] \in Q /\ Rank(pos[r], Q) = Rank(i, Q) /\ pos[r] \in Nat
    BY <1>1, <1>4, <2>0, <2>3
  <2>5. ~(pos[r] < i)
    <3> SUFFICES ASSUME pos[r] < i PROVE FALSE
      OBVIOUS
    <3>1. Rank(pos[r], Q) < Rank(i, Q)
      BY <1>1, <2>1, <2>4, RankGrows
    <3> QED BY <2>2, <2>4, <3>1
  <2>6. ~(i < pos[r])
    <3> SUFFICES ASSUME i < pos[r] PROVE FALSE
      OBVIOUS
    <3>1. Rank(i, Q) < Rank(pos[r], Q)
      BY <1>1, <2>4, RankGrows
    <3> QED BY <2>2, <2>4, <3>1
  <2>7. pos[r] = i
    BY <2>1, <2>4, <2>5, <2>6
  <2> QED BY <2>3, <2>7
<1>7. pos \in [1 .. Cardinality(Q) -> Q]
  BY <1>4, Zenon
<1> HIDE DEF pos
<1>8. f \in Seq(S) /\ Len(f) = Cardinality(Q)
  <2>1. \A r \in 1 .. Cardinality(Q) : s[pos[r]] \in S
    BY <1>1, <1>4
  <2> HIDE DEF f
  <2> QED BY <1>2, <1>3, <2>1
<1>9. \A r \in 1 .. Len(f) : f[r] = s[pos[r]]
  <2> HIDE DEF f
  <2> QED BY <1>3, <1>8
<1>10. Lists(f, s, Q)
  <2> HIDE DEF f
  <2>1. 1 .. Len(f) = 1 .. Cardinality(Q)
    BY <1>8
  <2>2. pos \in [1 .. Len(f) -> Q]
    BY ONLY <1>7, <2>1
  <2>3. \A r, t \in 1 .. Len(f) : pos[r] = pos[t] => r = t
    BY ONLY <1>5, <2>1
  <2>4. \A i \in Q : \E r \in 1 .. Len(f) : pos[r] = i
    BY ONLY <1>6, <2>1
  <2> QED BY ONLY <1>9, <2>2, <2>3, <2>4, Zenon DEF Lists
<1> QED BY <1>2, <1>8, <1>10

\* Two lists of different positions in a row.
LEMMA ListsAppend ==
  ASSUME NEW S, NEW p \in Seq(S), NEW q \in Seq(S), NEW s, NEW P, NEW Q, P \cap Q = {},
         Lists(p, s, P), Lists(q, s, Q)
  PROVE  Lists(p \o q, s, P \cup Q)
<1>1. PICK f \in [1 .. Len(p) -> P] :
        /\ \A r, t \in 1 .. Len(p) : f[r] = f[t] => r = t
        /\ \A i \in P : \E r \in 1 .. Len(p) : f[r] = i
        /\ \A r \in 1 .. Len(p) : p[r] = s[f[r]]
  BY DEF Lists
<1>2. PICK g \in [1 .. Len(q) -> Q] :
        /\ \A r, t \in 1 .. Len(q) : g[r] = g[t] => r = t
        /\ \A i \in Q : \E r \in 1 .. Len(q) : g[r] = i
        /\ \A r \in 1 .. Len(q) : q[r] = s[g[r]]
  BY DEF Lists
<1>3. Len(p) \in Nat /\ Len(q) \in Nat /\ Len(p \o q) = Len(p) + Len(q)
  OBVIOUS
<1> DEFINE m == Len(p)
           n == Len(q)
           pos == [r \in 1 .. m + n |-> IF r <= m THEN f[r] ELSE g[r - m]]
<1>4. \A r \in 1 .. m : r \in 1 .. m + n /\ r <= m /\ (p \o q)[r] = p[r]
  OBVIOUS
<1>5. \A r \in 1 .. n : r + m \in 1 .. m + n /\ ~(r + m <= m) /\ r + m - m = r
                      /\ (p \o q)[r + m] = q[r]
  OBVIOUS
<1>0. m \in Nat /\ n \in Nat
  BY <1>3
<1> HIDE DEF m, n
<1>6. \A r \in 1 .. m + n : \/ r \in 1 .. m /\ r <= m
                            \/ r - m \in 1 .. n /\ r = (r - m) + m /\ ~(r <= m)
  <2> TAKE r \in 1 .. m + n
  <2>1. r \in Nat /\ 1 <= r /\ r <= m + n
    BY <1>0
  <2>2. CASE r <= m
    <3>1. r \in 1 .. m
      BY <1>0, <2>1, <2>2
    <3> QED BY <2>2, <3>1
  <2>3. CASE ~(r <= m)
    BY <1>0, <2>1, <2>3
  <2> QED BY <2>2, <2>3
<1>7. \A r \in 1 .. m : pos[r] = f[r] /\ f[r] \in P
  BY <1>1, <1>4 DEF m
<1>8. \A r \in 1 .. n : pos[r + m] = g[r] /\ g[r] \in Q
  <2> TAKE r \in 1 .. n
  <2>1. g[r] \in Q
    BY <1>2 DEF n
  <2>2. r + m \in 1 .. m + n /\ ~(r + m <= m) /\ r + m - m = r
    BY <1>5
  <2>3. pos[r + m] = IF r + m <= m THEN f[r + m] ELSE g[r + m - m]
    BY <1>0, <2>2
  <2> QED BY <2>1, <2>2, <2>3
<1> HIDE DEF pos
<1>9. \A r \in 1 .. m + n : pos[r] \in P \cup Q
  BY <1>6, <1>7, <1>8
<1>10. pos \in [1 .. m + n -> P \cup Q]
  BY <1>9, Zenon DEF pos
<1>11. \A r, t \in 1 .. m + n : pos[r] = pos[t] => r = t
  <2> TAKE r, t \in 1 .. m + n
  <2> HAVE pos[r] = pos[t]
  <2>1. CASE r \in 1 .. m /\ t \in 1 .. m
    BY <1>1, <1>7, <2>1 DEF m
  <2>2. CASE r \in 1 .. m /\ t - m \in 1 .. n /\ t = (t - m) + m
    BY <1>7, <1>8, <2>2
  <2>3. CASE t \in 1 .. m /\ r - m \in 1 .. n /\ r = (r - m) + m
    BY <1>7, <1>8, <2>3
  <2>4. CASE r - m \in 1 .. n /\ r = (r - m) + m /\ t - m \in 1 .. n /\ t = (t - m) + m
    <3>1. g[r - m] = g[t - m]
      BY <1>8, <2>4
    <3>2. r - m = t - m
      BY <1>2, <2>4, <3>1 DEF n
    <3> QED BY <2>4, <3>2
  <2> QED BY <1>6, <2>1, <2>2, <2>3, <2>4
<1>12. \A i \in P \cup Q : \E r \in 1 .. m + n : pos[r] = i
  <2> TAKE i \in P \cup Q
  <2>1. CASE i \in P
    <3>1. PICK r \in 1 .. m : f[r] = i
      BY <1>1, <2>1 DEF m
    <3> QED BY <1>4, <1>7, <3>1
  <2>2. CASE i \in Q
    <3>1. PICK r \in 1 .. n : g[r] = i
      BY <1>2, <2>2 DEF n
    <3>2. pos[r + m] = i /\ r + m \in 1 .. m + n
      BY <1>5, <1>8, <3>1
    <3> QED BY <3>2
  <2> QED BY <2>1, <2>2
<1>13. \A r \in 1 .. m + n : (p \o q)[r] = s[pos[r]]
  <2> TAKE r \in 1 .. m + n
  <2>1. CASE r \in 1 .. m
    <3>1. (p \o q)[r] = p[r] /\ pos[r] = f[r]
      BY <1>4, <1>7, <2>1
    <3> QED BY <1>1, <2>1, <3>1 DEF m
  <2>2. CASE r - m \in 1 .. n /\ r = (r - m) + m
    <3>1. (p \o q)[r] = q[r - m] /\ pos[r] = g[r - m]
      BY <1>5, <1>8, <2>2
    <3> QED BY <1>2, <2>2, <3>1 DEF n
  <2> QED BY <1>6, <2>1, <2>2
<1>14. Len(p \o q) = m + n
  BY <1>3 DEF m, n
<1> DEFINE w == p \o q
           U == P \cup Q
<1> HIDE DEF w, U
<1>15. pos \in [1 .. Len(w) -> U]
  BY <1>10, <1>14 DEF w, U
<1>16. \A r, t \in 1 .. Len(w) : pos[r] = pos[t] => r = t
  BY <1>11, <1>14 DEF w
<1>17. \A i \in U : \E r \in 1 .. Len(w) : pos[r] = i
  BY <1>12, <1>14 DEF w, U
<1>18. \A r \in 1 .. Len(w) : w[r] = s[pos[r]]
  BY <1>13, <1>14 DEF w
<1>19. Lists(w, s, U)
  BY ONLY <1>15, <1>16, <1>17, <1>18, Zenon DEF Lists
<1> QED BY <1>19 DEF w, U

\* How many elements of s at the positions Q are of document d.
Count(s, Q, d) == Cardinality({i \in Q : s[i][1] = d})

\* As many elements of p have a document as positions that p lists.
LEMMA ListsCount ==
  ASSUME NEW S, NEW p \in Seq(S), NEW s, NEW Q, Lists(p, s, Q), NEW d
  PROVE  Count(p, DOMAIN p, d) = Count(s, Q, d)
<1> DEFINE R == {r \in 1 .. Len(p) : p[r][1] = d}
           I == {i \in Q : s[i][1] = d}
<1>1. PICK pos \in [1 .. Len(p) -> Q] :
        /\ \A r, t \in 1 .. Len(p) : pos[r] = pos[t] => r = t
        /\ \A i \in Q : \E r \in 1 .. Len(p) : pos[r] = i
        /\ \A r \in 1 .. Len(p) : p[r] = s[pos[r]]
  BY DEF Lists
<1> DEFINE f == [r \in R |-> pos[r]]
<1>2. f \in [R -> I]
  BY <1>1
<1>3. \A r, t \in R : f[r] = f[t] => r = t
  BY <1>1
<1>4. \A i \in I : \E r \in R : f[r] = i
  BY <1>1
<1>5. IsFiniteSet(R)
  <2>1. 1 \in Int /\ Len(p) \in Int /\ R \in SUBSET (1 .. Len(p))
    OBVIOUS
  <2>2. IsFiniteSet(1 .. Len(p))
    BY <2>1, FS_Interval
  <2> HIDE DEF R
  <2> QED BY <2>1, <2>2, FS_Subset
<1>6. DOMAIN p = 1 .. Len(p)
  OBVIOUS
<1>7. Count(p, DOMAIN p, d) = Cardinality(R)
  BY <1>6 DEF Count
<1> HIDE DEF f, R, I
<1>8. ExistsBijection(R, I)
  <2>1. f \in Injection(R, I)
    BY ONLY <1>2, <1>3, Zenon DEF Injection, IsInjective
  <2>2. f \in Surjection(R, I)
    BY ONLY <1>2, <1>4 DEF Surjection
  <2> QED BY ONLY <2>1, <2>2, Zenon DEF ExistsBijection, Bijection
<1> QED BY <1>5, <1>7, <1>8, FS_Bijection DEF I, Count

\* The positions a cut takes within the cap, and those it takes to fill up.
InCap(s, k, cap) == {i \in Within(s, cap) : Rank(i, Within(s, cap)) < k}

Fill(s, k, cap) ==
  LET B == DOMAIN s \ Within(s, cap)
  IN  {i \in B : Rank(i, B) < k - Cardinality(InCap(s, k, cap))}

\* Pick lists them, those within the cap first.
LEMMA PickList ==
  ASSUME NEW S, NEW s \in Seq(S), NEW k \in Nat, NEW cap \in Nat
  PROVE  /\ InCap(s, k, cap) \in SUBSET Within(s, cap)
         /\ Fill(s, k, cap) \in SUBSET (DOMAIN s \ Within(s, cap))
         /\ k - Cardinality(InCap(s, k, cap)) \in Nat
         /\ Pick(s, k, cap) \in Seq(S)
         /\ Len(Pick(s, k, cap)) = Cardinality(InCap(s, k, cap)) + Cardinality(Fill(s, k, cap))
         /\ Lists(Pick(s, k, cap), s, InCap(s, k, cap) \cup Fill(s, k, cap))
<1> DEFINE W == Within(s, cap)
           B == DOMAIN s \ Within(s, cap)
           p == Firsts(s, W, k)
           n == k - Len(p)
           q == Firsts(s, B, n)
<1>1. W \in SUBSET DOMAIN s /\ B \in SUBSET DOMAIN s /\ W \cap B = {}
  BY DEF Within
<1>2. Len(s) \in Nat /\ DOMAIN s = 1 .. Len(s)
  OBVIOUS
<1>3. Pick(s, k, cap) = p \o q
  BY DEF Pick
<1>4. InCap(s, k, cap) = {i \in W : Rank(i, W) < k}
  BY Zenon DEF InCap
<1> HIDE DEF W, p
<1>5. /\ InCap(s, k, cap) \in SUBSET W /\ Cardinality(InCap(s, k, cap)) \in Nat
      /\ p \in Seq(S) /\ Len(p) = Cardinality(InCap(s, k, cap)) /\ Lists(p, s, InCap(s, k, cap))
  BY <1>1, <1>4, FirstsList DEF p
<1>6. Cardinality(InCap(s, k, cap)) <= k
  <2>1. Cardinality(W) \in Nat
    BY <1>1, <1>2, RankType, 0 \in Nat
  <2>2. Cardinality(InCap(s, k, cap)) = IF k < Cardinality(W) THEN k ELSE Cardinality(W)
    BY <1>1, <1>2, <1>4, FirstsCount
  <2> QED BY <2>1, <2>2
<1>7. n \in Nat /\ n = k - Cardinality(InCap(s, k, cap))
  BY <1>5, <1>6
<1>8. Fill(s, k, cap) = {i \in B : Rank(i, B) < n}
  BY <1>7 DEF Fill
<1> HIDE DEF B, n, q
<1>9. /\ Fill(s, k, cap) \in SUBSET B
      /\ q \in Seq(S) /\ Len(q) = Cardinality(Fill(s, k, cap)) /\ Lists(q, s, Fill(s, k, cap))
      /\ Cardinality(Fill(s, k, cap)) \in Nat
  <2>1. n \in Nat /\ B \in SUBSET DOMAIN s
    BY <1>1, <1>7
  <2> HIDE <1>7
  <2> QED BY <1>8, <2>1, FirstsList DEF q
<1>10. InCap(s, k, cap) \cap Fill(s, k, cap) = {}
  BY <1>1, <1>5, <1>9
<1>11. Lists(p \o q, s, InCap(s, k, cap) \cup Fill(s, k, cap))
  BY <1>5, <1>9, <1>10, ListsAppend
<1>12. p \o q \in Seq(S) /\ Len(p \o q) = Len(p) + Len(q)
  BY <1>5, <1>9
<1>13. k - Cardinality(InCap(s, k, cap)) \in Nat
  BY <1>7
<1> QED BY <1>3, <1>5, <1>9, <1>11, <1>12, <1>13 DEF W, B

\* The positions of a document's chunks.
Of(s, d) == {i \in DOMAIN s : s[i][1] = d}

\* Within takes the first cap chunks of every document.
LEMMA WithinFirst ==
  ASSUME NEW S, NEW s \in Seq(S), NEW cap \in Nat, NEW d
  PROVE  /\ Within(s, cap) \cap Of(s, d) = {i \in Of(s, d) : Rank(i, Of(s, d)) < cap}
         /\ Cardinality(Of(s, d)) \in Nat
         /\ Cardinality(Within(s, cap) \cap Of(s, d))
              = IF cap < Cardinality(Of(s, d)) THEN cap ELSE Cardinality(Of(s, d))
<1>1. Len(s) \in Nat /\ DOMAIN s = 1 .. Len(s) /\ Of(s, d) \in SUBSET (1 .. Len(s))
  BY DEF Of
<1>2. ASSUME NEW i \in Of(s, d)
      PROVE  Cardinality({j \in 1 .. i - 1 : s[j][1] = s[i][1]}) = Rank(i, Of(s, d))
  <2>1. i \in 1 .. Len(s) /\ s[i][1] = d
    BY <1>1 DEF Of
  <2>2. \A j : j \in 1 .. i - 1 <=> j \in 1 .. Len(s) /\ j < i
    BY <1>1, <2>1
  <2>3. {j \in 1 .. i - 1 : s[j][1] = s[i][1]} = {j \in Of(s, d) : j < i}
    BY <1>1, <2>1, <2>2, Zenon DEF Of
  <2> QED BY <2>3 DEF Rank
<1>3. Within(s, cap) \cap Of(s, d) = {i \in Of(s, d) : Rank(i, Of(s, d)) < cap}
  BY <1>2 DEF Within, Of
<1>4. Cardinality(Of(s, d)) \in Nat
  BY <1>1, RankType, 0 \in Nat
<1>5. Cardinality({i \in Of(s, d) : Rank(i, Of(s, d)) < cap})
        = IF cap < Cardinality(Of(s, d)) THEN cap ELSE Cardinality(Of(s, d))
  BY ONLY <1>1, cap \in Nat, FirstsCount
<1> QED BY <1>3, <1>4, <1>5, Zenon

\* A cut takes k chunks, or all there are.
LEMMA CutCounts ==
  ASSUME NEW S, NEW s \in Seq(S), NEW k \in Nat, NEW cap \in Nat
  PROVE  Len(Pick(s, k, cap)) = IF Len(s) < k THEN Len(s) ELSE k
<1> DEFINE W == Within(s, cap)
           B == DOMAIN s \ Within(s, cap)
<1>1. Len(s) \in Nat /\ DOMAIN s = 1 .. Len(s) /\ W \in SUBSET (1 .. Len(s)) /\ B = (1 .. Len(s)) \ W
  BY DEF Within
<1>2. B \in SUBSET (1 .. Len(s)) /\ (1 .. Len(s)) \cap W = W
  BY <1>1
<1>3. Cardinality(InCap(s, k, cap)) = IF k < Cardinality(W) THEN k ELSE Cardinality(W)
  BY <1>1, FirstsCount DEF InCap
<1>4. k - Cardinality(InCap(s, k, cap)) \in Nat
  BY PickList
<1>5. Cardinality(Fill(s, k, cap))
        = IF k - Cardinality(InCap(s, k, cap)) < Cardinality(B)
            THEN k - Cardinality(InCap(s, k, cap)) ELSE Cardinality(B)
  BY <1>1, <1>2, <1>4, FirstsCount DEF Fill
<1>6. Cardinality(W) \in Nat /\ Cardinality(B) \in Nat
  BY <1>1, <1>2, RankType, 0 \in Nat
<1>7. Cardinality(B) = Len(s) - Cardinality(W)
  <2>0. 1 \in Int /\ Len(s) \in Int /\ (1 > Len(s) => Len(s) = 0) /\ Len(s) - 1 + 1 = Len(s)
    BY <1>1
  <2>1. IsFiniteSet(1 .. Len(s)) /\ Cardinality(1 .. Len(s)) = Len(s)
    BY <2>0, FS_Interval
  <2>2. Cardinality((1 .. Len(s)) \ W) = Cardinality(1 .. Len(s)) - Cardinality((1 .. Len(s)) \cap W)
    BY <2>1, FS_Difference
  <2> HIDE DEF W, B
  <2> QED BY <1>1, <1>2, <2>1, <2>2
<1>8. Len(Pick(s, k, cap)) = Cardinality(InCap(s, k, cap)) + Cardinality(Fill(s, k, cap))
  BY PickList
<1> HIDE DEF W, B
<1> QED BY <1>1, <1>3, <1>4, <1>5, <1>6, <1>7, <1>8

\* Beyond the cap of one document nothing within the cap of another is left out.
LEMMA CutFair ==
  ASSUME NEW S, NEW s \in Seq(S), NEW k \in Nat, NEW cap \in Nat, NEW d, NEW e,
         NEW Q, Q = InCap(s, k, cap) \cup Fill(s, k, cap),
         Count(s, Q, d) > cap, Cardinality(Of(s, e)) - Count(s, Q, e) > 0
  PROVE  Count(s, Q, e) >= cap
<1> DEFINE W == Within(s, cap)
           C == InCap(s, k, cap)
           F == Fill(s, k, cap)
           Some(x) == {i \in Q : s[i][1] = x}
<1>1. Len(s) \in Nat /\ DOMAIN s = 1 .. Len(s) /\ W \in SUBSET (1 .. Len(s))
  BY DEF Within
<1>2. C \in SUBSET W /\ F \in SUBSET ((1 .. Len(s)) \ W) /\ Q = C \cup F
  BY <1>1, PickList
<1>3. \A x : Some(x) = Q \cap Of(s, x) /\ Some(x) \in SUBSET (1 .. Len(s))
  BY <1>1, <1>2 DEF Of
<1>4. \A x : IsFiniteSet(Some(x)) /\ Cardinality(Some(x)) \in Nat
  BY <1>1, <1>3, RankType, 0 \in Nat
<1>5. \A x : /\ IsFiniteSet(W \cap Of(s, x))
             /\ Cardinality(W \cap Of(s, x)) \in Nat /\ Cardinality(Of(s, x)) \in Nat
             /\ Cardinality(W \cap Of(s, x))
                  = IF cap < Cardinality(Of(s, x)) THEN cap ELSE Cardinality(Of(s, x))
  <2> TAKE x
  <2>1. W \cap Of(s, x) \in SUBSET (1 .. Len(s))
    BY <1>1
  <2>2. IsFiniteSet(W \cap Of(s, x)) /\ Cardinality(W \cap Of(s, x)) \in Nat
    BY <1>1, <2>1, RankType, 0 \in Nat
  <2> QED BY <2>2, WithinFirst
<1>6. F # {}
  <2> SUFFICES ASSUME F = {} PROVE FALSE
    OBVIOUS
  <2>1. Some(d) \in SUBSET (W \cap Of(s, d))
    BY <1>2, <1>3
  <2>2. Cardinality(Some(d)) <= Cardinality(W \cap Of(s, d))
    BY <1>5, <2>1, FS_Subset
  <2>3. Cardinality(Some(d)) > cap
    BY DEF Count
  <2>4. Cardinality(Some(d)) \in Nat
    BY <1>4
  <2>5. /\ Cardinality(W \cap Of(s, d)) \in Nat /\ Cardinality(Of(s, d)) \in Nat
        /\ Cardinality(W \cap Of(s, d))
             = IF cap < Cardinality(Of(s, d)) THEN cap ELSE Cardinality(Of(s, d))
    BY <1>5
  <2> HIDE DEF W, Some
  <2> QED BY ONLY <2>2, <2>3, <2>4, <2>5, cap \in Nat
<1>7. C = W
  <2>1. PICK i \in F : i \in (1 .. Len(s)) \ W /\ Rank(i, DOMAIN s \ W) < k - Cardinality(C)
    BY <1>2, <1>6 DEF Fill
  <2>2. Rank(i, DOMAIN s \ W) \in Nat
    <3>1. DOMAIN s \ W \in SUBSET (1 .. Len(s)) /\ i \in Nat
      BY <1>1, <2>1
    <3> QED BY <1>1, <3>1, RankType
  <2>3. k - Cardinality(C) \in Nat
    BY PickList
  <2>4. Cardinality(C) = IF k < Cardinality(W) THEN k ELSE Cardinality(W)
    BY <1>1, FirstsCount DEF InCap
  <2>5. Cardinality(W) <= k => C = W
    BY <1>1, FirstsCount DEF InCap
  <2>6. Cardinality(W) \in Nat
    BY <1>1, RankType, 0 \in Nat
  <2> HIDE DEF C, W
  <2> QED BY <2>1, <2>2, <2>3, <2>4, <2>5, <2>6
<1>8. W \cap Of(s, e) \in SUBSET Some(e)
  BY <1>2, <1>3, <1>7
<1>9. Cardinality(W \cap Of(s, e)) <= Cardinality(Some(e))
  BY <1>4, <1>8, FS_Subset
<1>10. Cardinality(Of(s, e)) - Cardinality(Some(e)) > 0
  BY DEF Count
<1>11. Cardinality(Some(e)) \in Nat
  BY <1>4
<1>12. /\ Cardinality(W \cap Of(s, e)) \in Nat /\ Cardinality(Of(s, e)) \in Nat
       /\ Cardinality(W \cap Of(s, e))
            = IF cap < Cardinality(Of(s, e)) THEN cap ELSE Cardinality(Of(s, e))
  BY <1>5
<1> HIDE DEF W, Some
<1>13. Cardinality(Some(e)) >= cap
  BY ONLY <1>9, <1>10, <1>11, <1>12, cap \in Nat
<1> QED BY <1>13 DEF Some, Count

\* What CutIsDiverse says, of any ranking.
LEMMA CutIsFair ==
  ASSUME NEW S, NEW s \in Seq(S), IsInjective(s), NEW k \in Nat, NEW cap \in Nat
  PROVE  LET p == Pick(s, k, cap)
             Picked(d) == Cardinality({i \in DOMAIN p : p[i][1] = d})
             Left(d)   == Cardinality({i \in DOMAIN s : s[i][1] = d}) - Picked(d)
         IN  /\ IsInjective(p) /\ Range(p) \subseteq Range(s)
             /\ Len(p) = IF Len(s) < k THEN Len(s) ELSE k
             /\ \A d, e \in Docs : Picked(d) > cap /\ Left(e) > 0 => Picked(e) >= cap
<1> DEFINE p == Pick(s, k, cap)
           Q == InCap(s, k, cap) \cup Fill(s, k, cap)
           Picked(d) == Cardinality({i \in DOMAIN p : p[i][1] = d})
           Left(d)   == Cardinality({i \in DOMAIN s : s[i][1] = d}) - Picked(d)
<1>1. Len(s) \in Nat /\ DOMAIN s = 1 .. Len(s)
  OBVIOUS
<1>2. p \in Seq(S) /\ Q \in SUBSET (1 .. Len(s)) /\ Lists(p, s, Q)
  <2>1. Within(s, cap) \in SUBSET (1 .. Len(s))
    BY DEF Within
  <2>2. /\ InCap(s, k, cap) \in SUBSET Within(s, cap)
        /\ Fill(s, k, cap) \in SUBSET (DOMAIN s \ Within(s, cap))
        /\ p \in Seq(S) /\ Lists(p, s, Q)
    BY PickList
  <2> QED BY <1>1, <2>1, <2>2
<1>3. Len(p) = IF Len(s) < k THEN Len(s) ELSE k
  BY CutCounts
<1> HIDE DEF p
<1>4. DOMAIN p = 1 .. Len(p)
  BY <1>2
<1>5. \A x : Count(p, DOMAIN p, x) = Count(s, Q, x)
  <2> HIDE DEF Q
  <2> QED BY <1>2, ListsCount
<1>6. IsInjective(p) /\ Range(p) \subseteq Range(s)
  <2> HIDE DEF Q
  <2>1. PICK pos \in [1 .. Len(p) -> Q] :
          /\ \A r, t \in 1 .. Len(p) : pos[r] = pos[t] => r = t
          /\ \A r \in 1 .. Len(p) : p[r] = s[pos[r]]
    BY <1>2 DEF Lists
  <2>2. \A r \in 1 .. Len(p) : pos[r] \in DOMAIN s
    BY <1>1, <1>2, <2>1
  <2> QED BY <1>4, <2>1, <2>2 DEF IsInjective, Range
<1>7. ASSUME NEW d \in Docs, NEW e \in Docs, Picked(d) > cap, Left(e) > 0
      PROVE  Picked(e) >= cap
  <2>1. Picked(d) = Count(s, Q, d) /\ Picked(e) = Count(s, Q, e)
    BY <1>5 DEF Count
  <2>2. Left(e) = Cardinality(Of(s, e)) - Picked(e)
    BY DEF Of
  <2>3. Q = InCap(s, k, cap) \cup Fill(s, k, cap)
    OBVIOUS
  <2> HIDE DEF Picked, Left, Q
  <2>4. Count(s, Q, d) > cap /\ Cardinality(Of(s, e)) - Count(s, Q, e) > 0
    BY <1>7, <2>1, <2>2
  <2>5. Count(s, Q, e) >= cap
    BY <2>3, <2>4, CutFair
  <2> QED BY <2>1, <2>5
<1> QED BY <1>3, <1>6, <1>7 DEF p

------------------------------------------------------------------------------
(* The invariant *)

\* An answer that may be shown, now or when an escalation fails.
Good(a) ==
  /\ a \in Answer
  /\ a.mode = "llm" => ~a.open /\ (a.cites = {} => a.insufficient)
  /\ \A x \in a.cites : x.tenant \in Scope

Failed == [mode : {"unavailable", "error"}]

\* Chunks that may be shown to the model.
Shown(src) ==
  src \in Seq(Source) /\ Len(src) <= DeepK /\ \A i \in DOMAIN src : src[i].tenant \in Scope

\* Calls to the helper models in one pass, and calls before this pass, at most.
Prep   == (IF Decomposes THEN 1 ELSE 0)
          + (IF Expands THEN IF Decomposes THEN 4 ELSE 1 ELSE 0)
Before == (IF Rewrites THEN 1 ELSE 0) + (IF Deep THEN 2 + Prep ELSE 0)

Shape ==
  /\ reg \in [Docs -> Tenants \cup {None}]
  /\ pc \in {"idle", "rewrite", "retrieve", "cut", "generate"}
  /\ clients \in Clients
  /\ ranked \in Seq(Ids) /\ IsInjective(ranked)
  /\ Shown(sources)
  /\ tries \in 0 .. 1 /\ calls \in Nat

Texts ==
  /\ primary = None \/ Good(primary)
  /\ outcome = None \/ outcome \in Failed \/ Good(outcome)

Costs ==
  /\ pc = "rewrite"  => Rewrites /\ ~Deep /\ calls = 0
  /\ pc = "retrieve" => calls <= Before
  /\ pc = "cut"      => calls <= Before + Prep
  /\ pc = "generate" => calls <= Before + Prep + tries
  /\ CallsBounded

IInv == Shape /\ Texts /\ Costs

\* The tenant gate: what is read is the asker's to read.
LEMMA ReadShown ==
  ASSUME reg \in [Docs -> Tenants \cup {None}], NEW ids \in Seq(Ids), Len(ids) <= DeepK
  PROVE  Shown(Read(ids))
<1> DEFINE P == {i \in DOMAIN ids : reg[ids[i][1]] \in Scope}
           Q == {i \in P : Rank(i, P) < Len(ids)}
           found == Firsts(ids, P, Len(ids))
<1>1. Len(ids) \in Nat /\ DOMAIN ids = 1 .. Len(ids) /\ P \in SUBSET DOMAIN ids
  OBVIOUS
<1>2. /\ Q \in SUBSET P /\ Cardinality(Q) \in Nat /\ found \in Seq(Ids)
      /\ Len(found) = Cardinality(Q) /\ Lists(found, ids, Q)
  <2>1. Q = {i \in P : Rank(i, P) < Len(ids)}
    OBVIOUS
  <2> HIDE DEF P, Q
  <2> QED BY <1>1, <2>1, FirstsList
<1>3. Len(found) <= DeepK
  <2>1. Q \in SUBSET (1 .. Len(ids))
    BY <1>1, <1>2
  <2>2. IsFiniteSet(1 .. Len(ids)) /\ Cardinality(1 .. Len(ids)) = Len(ids)
    <3>1. 1 \in Int /\ Len(ids) \in Int /\ (1 > Len(ids) => Len(ids) = 0) /\ Len(ids) - 1 + 1 = Len(ids)
      BY <1>1
    <3> QED BY <3>1, FS_Interval
  <2>3. Cardinality(Q) <= Len(ids)
    BY <2>1, <2>2, FS_Subset
  <2> HIDE DEF P, Q, found
  <2> QED BY <1>1, <1>2, <2>3, AnsweringAssumption
<1>4. ASSUME NEW i \in DOMAIN found
      PROVE  found[i] \in Ids /\ reg[found[i][1]] \in Scope
  <2>1. i \in 1 .. Len(found) /\ found[i] \in Ids
    BY <1>2
  <2>2. PICK pos \in [1 .. Len(found) -> Q] : \A r \in 1 .. Len(found) : found[r] = ids[pos[r]]
    BY <1>2 DEF Lists
  <2>3. found[i] = ids[pos[i]] /\ pos[i] \in P
    BY <1>2, <2>1, <2>2
  <2> QED BY <2>1, <2>3
<1> HIDE DEF found
<1>5. Read(ids) = [i \in DOMAIN found |-> [id |-> found[i], tenant |-> reg[found[i][1]]]]
  BY Zenon DEF Read, found
<1>6. \A i \in DOMAIN found : [id |-> found[i], tenant |-> reg[found[i][1]]] \in Source
  BY <1>4, AnsweringAssumption DEF Source
<1>7. DOMAIN found = 1 .. Len(found) /\ Len(found) \in Nat
  BY <1>2
<1>8. Read(ids) \in Seq(Source) /\ Len(Read(ids)) = Len(found) /\ DOMAIN Read(ids) = DOMAIN found
  BY <1>5, <1>6, <1>7
<1>9. \A i \in DOMAIN Read(ids) : Read(ids)[i].tenant \in Scope
  BY <1>4, <1>5
<1> QED BY <1>3, <1>8, <1>9 DEF Shown

\* Each way to answer from chunks that may be shown gives an answer that may be shown.
LEMMA ExtractiveGood ==
  ASSUME NEW src, Shown(src), NEW lacking \in BOOLEAN
  PROVE  Good(Extractive(src, lacking))
<1> DEFINE a == Extractive(src, lacking)
<1>1. /\ DOMAIN a = {"mode", "cites", "open", "insufficient", "escalated"}
      /\ a.mode = "extractive" /\ a.cites = Reading(src, Quoted(src))
      /\ a.open \in BOOLEAN /\ a.insufficient \in BOOLEAN /\ a.escalated \in BOOLEAN
  BY DEF Extractive
<1>2. Reading(src, Quoted(src)) \in SUBSET Source
      /\ \A x \in Reading(src, Quoted(src)) : x.tenant \in Scope
  BY DEF Reading, Shown
<1>3. a \in Answer
  BY <1>2 DEF Answer, Modes, Extractive
<1> HIDE DEF a
<1> QED BY <1>1, <1>2, <1>3 DEF Good, a

LEMMA GeneratedGood ==
  ASSUME NEW src, Shown(src), NEW r \in Replies, Accept(r, src)
  PROVE  Good(Generated(r, src))
<1> DEFINE a == Generated(r, src)
<1>1. r.used \subseteq DOMAIN src /\ (r.used # {} \/ r.lacking) /\ r.lacking \in BOOLEAN
  BY DEF Accept, Replies
<1>2. a.mode = "llm" /\ a.cites = Reading(src, r.used) /\ ~a.open /\ a.insufficient = r.lacking
  BY <1>1 DEF Generated
<1>3. Reading(src, r.used) \in SUBSET Source
      /\ \A x \in Reading(src, r.used) : x.tenant \in Scope
  BY DEF Reading, Shown
<1>4. r.used # {} => Reading(src, r.used) # {}
  BY <1>1 DEF Reading
<1>5. a \in Answer
  BY <1>1, <1>3 DEF Answer, Modes, Generated
<1> HIDE DEF a
<1> QED BY <1>1, <1>2, <1>3, <1>4, <1>5 DEF Good, a

LEMMA PlainGood == Good(NoSources) /\ Good(Smalltalk)
BY DEF Good, NoSources, Smalltalk, Answer, Modes

LEMMA EscalatedGood ==
  ASSUME NEW a, Good(a)
  PROVE  Good([a EXCEPT !.escalated = TRUE])
BY DEF Good, Answer

------------------------------------------------------------------------------
(* The steps *)

\* What CallsBounded allows is two passes of the most a pass can cost.
LEMMA Budget ==
  /\ Prep \in Nat /\ Before \in Nat
  /\ CallsBounded <=> calls <= (IF Rewrites THEN 1 ELSE 0) + 4 + Prep + Prep
  /\ Before + Prep + 2 <= (IF Rewrites THEN 1 ELSE 0) + 4 + Prep + Prep
BY DEF Prep, Before, CallsBounded

LEMMA PrimedBudget ==
  /\ primary' = primary => Before' = Before
  /\ ~Deep /\ primary' # None => Before' = Before + 2 + Prep
  /\ CallsBounded' <=> calls' <= (IF Rewrites THEN 1 ELSE 0) + 4 + Prep + Prep
BY DEF Prep, Before, CallsBounded, Deep

\* A question that ends with an answer fit to show, or with none.
LEMMA DeliverKeeps ==
  ASSUME IInv, NEW o, Good(o) \/ o \in Failed, Deliver(o), primary' = primary,
         calls' \in Nat, calls' <= Before + Prep + 2
  PROVE  IInv'
<1>1. Shape'
  <2>1. Shown(sources')
    <3>1. <<>> \in Seq(Source) /\ Len(<<>>) = 0 /\ DOMAIN <<>> = {}
      OBVIOUS
    <3> QED BY <3>1, AnsweringAssumption DEF Deliver, Shown
  <2>2. ranked' \in Seq(Ids) /\ IsInjective(ranked')
    BY DEF Deliver, IsInjective
  <2>3. tries' \in 0 .. 1
    BY DEF Deliver
  <2> QED BY <2>1, <2>2, <2>3 DEF IInv, Shape, Deliver, Shown
<1>2. Texts'
  BY DEF IInv, Texts, Deliver, Good
<1>3. CallsBounded'
  BY Budget, PrimedBudget
<1>4. Costs'
  BY <1>3 DEF Costs, Deliver
<1> QED BY <1>1, <1>2, <1>4 DEF IInv

\* A pass that ends with an answer fit to show.
LEMMA SettleKeeps ==
  ASSUME IInv, NEW a, Good(a), Settle(a), calls' \in Nat, calls' <= Before + Prep + 2
  PROVE  IInv'
<1>1. CASE Deliver(a) /\ UNCHANGED primary
  BY <1>1, DeliverKeeps
<1>2. CASE Deliver([a EXCEPT !.escalated = TRUE]) /\ UNCHANGED primary
  BY <1>2, DeliverKeeps, EscalatedGood
<1>3. CASE /\ ~Deep /\ primary' = a
           /\ pc' = "retrieve" /\ ranked' = <<>> /\ sources' = <<>> /\ tries' = 0
           /\ UNCHANGED <<reg, clients, outcome>>
  <2>1. Shape'
    <3>1. Shown(sources')
      <4>1. <<>> \in Seq(Source) /\ Len(<<>>) = 0 /\ DOMAIN <<>> = {}
        OBVIOUS
      <4> QED BY <1>3, <4>1, AnsweringAssumption DEF Shown
    <3>2. ranked' \in Seq(Ids) /\ IsInjective(ranked')
      BY <1>3 DEF IsInjective
    <3> QED BY <1>3, <3>1, <3>2 DEF IInv, Shape, Shown
  <2>2. Texts'
    BY <1>3 DEF IInv, Texts, Good
  <2>3. a # None
    BY AnsweringAssumption DEF Good
  <2>4. Before' = Before + 2 + Prep
    BY <1>3, <2>3, PrimedBudget
  <2>5. CallsBounded'
    BY Budget, PrimedBudget
  <2>6. calls' <= Before'
    BY <2>4, Budget
  <2> QED BY <1>3, <2>1, <2>2, <2>5, <2>6 DEF IInv, Costs
<1> QED BY <1>1, <1>2, <1>3 DEF Settle

LEMMA RetrieveKeeps == IInv /\ Retrieve => IInv'
<1> SUFFICES ASSUME IInv, Retrieve PROVE IInv'
  OBVIOUS
<1>1. ranked' \in Seq(Ids) /\ IsInjective(ranked')
  <2>1. PICK n \in 0 .. Cardinality(Ids) :
          ranked' \in {s \in [1 .. n -> Ids] : \A i, j \in 1 .. n : s[i] = s[j] => i = j}
    BY DEF Retrieve, Rankings
  <2>2. n \in Nat /\ ranked' \in [1 .. n -> Ids] /\ DOMAIN ranked' = 1 .. n
        /\ \A i, j \in 1 .. n : ranked'[i] = ranked'[j] => i = j
    BY <2>1
  <2> QED BY <2>2 DEF IsInjective
<1>2. calls' \in Nat /\ calls' <= calls + Prep
  BY AnsweringAssumption DEF Retrieve, Prep, IInv, Shape
<1>3. Prep' = Prep /\ Before' = Before
  BY PrimedBudget DEF Retrieve, Prep
<1>4. Shape'
  BY <1>1, <1>2 DEF IInv, Shape, Shown, Retrieve
<1>5. Texts'
  BY DEF IInv, Texts, Good, Retrieve
<1>6. calls' <= Before + Prep
  BY <1>2, Budget DEF IInv, Shape, Costs, Retrieve
<1>7. CallsBounded'
  BY <1>2, <1>6, Budget, PrimedBudget
<1>8. Costs'
  BY <1>3, <1>6, <1>7 DEF Costs, Retrieve
<1> QED BY <1>4, <1>5, <1>8 DEF IInv

LEMMA CutShown ==
  ASSUME IInv
  PROVE  Shown(Read(Pick(ranked, Bound, PerDoc)))
<1>1. Bound \in Nat /\ PerDoc \in Nat /\ Bound <= DeepK
  BY AnsweringAssumption DEF Bound, PerDoc
<1>2. ranked \in Seq(Ids) /\ reg \in [Docs -> Tenants \cup {None}]
  BY DEF IInv, Shape
<1>3. Pick(ranked, Bound, PerDoc) \in Seq(Ids)
  BY <1>1, <1>2, PickList
<1>4. Len(Pick(ranked, Bound, PerDoc)) = IF Len(ranked) < Bound THEN Len(ranked) ELSE Bound
  BY <1>1, <1>2, CutCounts
<1>5. Len(ranked) \in Nat /\ DeepK \in Nat
  BY <1>2, AnsweringAssumption
<1>6. Len(Pick(ranked, Bound, PerDoc)) <= DeepK
  BY <1>1, <1>4, <1>5
<1> QED BY <1>2, <1>3, <1>6, ReadShown

LEMMA CutKeeps == IInv /\ Cut => IInv'
<1> SUFFICES ASSUME IInv, Cut PROVE IInv'
  OBVIOUS
<1> DEFINE src == Read(Pick(ranked, Bound, PerDoc))
<1>1. Shown(src)
  BY CutShown
<1>2. calls' \in Nat /\ calls' <= Before + Prep + 2 /\ calls' <= Before + Prep
  BY Budget DEF IInv, Shape, Costs, Cut
<1>3. CASE Settle(NoSources)
  BY <1>2, <1>3, PlainGood, SettleKeeps
<1>4. CASE Settle(Extractive(src, FALSE))
  <2> HIDE DEF src
  <2> QED BY <1>1, <1>2, <1>4, ExtractiveGood, SettleKeeps
<1>5. CASE /\ pc' = "generate" /\ sources' = src /\ ranked' = <<>>
           /\ UNCHANGED <<reg, clients, tries, primary, outcome>>
  <2>1. Shown(sources')
    BY <1>1, <1>5
  <2>2. ranked' \in Seq(Ids) /\ IsInjective(ranked')
    BY <1>5 DEF IsInjective
  <2> HIDE DEF src
  <2>3. Shape'
    BY <1>2, <1>5, <2>1, <2>2 DEF IInv, Shape, Shown
  <2>4. Texts'
    BY <1>5 DEF IInv, Texts, Good
  <2>5. Prep' = Prep /\ Before' = Before /\ tries \in 0 .. 1
    BY <1>5, PrimedBudget DEF Prep, IInv, Shape
  <2>6. calls' <= Before + Prep + tries
    BY <1>2, <2>5, Budget
  <2>7. CallsBounded'
    BY <1>2, Budget, PrimedBudget
  <2>8. Costs'
    BY <1>5, <2>5, <2>6, <2>7 DEF Costs
  <2> QED BY <2>3, <2>4, <2>8 DEF IInv
<1> QED BY <1>3, <1>4, <1>5 DEF Cut

LEMMA GenerateKeeps == ASSUME IInv, NEW r \in Replies, Generate(r) PROVE IInv'
<1>1. Shown(sources) /\ tries \in 0 .. 1 /\ calls \in Nat /\ calls' = calls + 1
      /\ calls <= Before + Prep + tries /\ pc = "generate"
  BY DEF IInv, Shape, Costs, Generate
<1>2. calls' \in Nat /\ calls' <= Before + Prep + 2
  BY <1>1, Budget
<1>3. CASE Accept(r, sources) /\ Settle(Generated(r, sources))
  BY <1>1, <1>2, <1>3, GeneratedGood, SettleKeeps
<1>4. CASE Settle(Extractive(sources, TRUE))
  BY <1>1, <1>2, <1>4, ExtractiveGood, SettleKeeps
<1>5. CASE /\ tries = 0 /\ tries' = 1
           /\ UNCHANGED <<reg, pc, clients, ranked, sources, primary, outcome>>
  <2>1. Shape'
    BY <1>2, <1>5 DEF IInv, Shape, Shown
  <2>2. Texts'
    BY <1>5 DEF IInv, Texts, Good
  <2>3. Prep' = Prep /\ Before' = Before
    BY <1>5, PrimedBudget DEF Prep
  <2>4. calls' <= Before + Prep + 1
    BY <1>1, <1>5, Budget
  <2>5. CallsBounded'
    BY <1>2, Budget, PrimedBudget
  <2>6. Costs'
    BY <1>1, <1>5, <2>3, <2>4, <2>5 DEF Costs
  <2> QED BY <2>1, <2>2, <2>6 DEF IInv
<1> QED BY <1>3, <1>4, <1>5 DEF Generate

LEMMA UnavailableKeeps == IInv /\ Unavailable => IInv'
<1> SUFFICES ASSUME IInv, Unavailable PROVE IInv'
  OBVIOUS
<1>1. calls' \in Nat /\ calls' <= Before + Prep + 2
  BY Budget DEF IInv, Shape, Costs, Unavailable
<1>2. CASE Deep /\ Deliver(primary)
  BY <1>1, <1>2, DeliverKeeps DEF IInv, Texts, Deep, Unavailable
<1>3. CASE Deliver([mode |-> "unavailable"])
  BY <1>1, <1>3, DeliverKeeps DEF Failed, Unavailable
<1> QED BY <1>2, <1>3 DEF Unavailable

LEMMA BreakKeeps == IInv /\ Break => IInv'
<1> SUFFICES ASSUME IInv, Break PROVE IInv'
  OBVIOUS
<1>1. calls' \in Nat /\ calls' <= Before + Prep + 2
  BY Budget DEF IInv, Shape, Costs, Break
<1> QED BY <1>1, DeliverKeeps DEF Failed, Break

\* A question arrives, is greeted or is rewritten.
LEMMA OpeningKeeps == IInv /\ (Ask \/ Greet \/ Rewrite) => IInv'
<1> SUFFICES ASSUME IInv, Ask \/ Greet \/ Rewrite PROVE IInv'
  OBVIOUS
<1>1. Shape'
  BY DEF IInv, Shape, Shown, Ask, Greet, Rewrite
<1>2. Texts'
  BY PlainGood DEF IInv, Texts, Good, Ask, Greet, Rewrite
<1>3. calls' \in Nat /\ calls' <= (IF Rewrites THEN 1 ELSE 0)
  BY DEF IInv, Costs, Ask, Greet, Rewrite
<1>4. Before' \in Nat /\ Prep' = Prep /\ (IF Rewrites THEN 1 ELSE 0) <= Before'
  BY DEF Before, Prep
<1>5. CallsBounded'
  BY <1>3, Budget, PrimedBudget
<1>6. Costs'
  BY <1>3, <1>4, <1>5 DEF Costs, Ask, Greet, Rewrite, Deep, IInv, Shape
<1> QED BY <1>1, <1>2, <1>6 DEF IInv

LEMMA SaveKeeps ==
  ASSUME IInv, NEW d \in Docs, NEW t \in Tenants \cup {None}, Save(d, t)
  PROVE  IInv'
<1>1. Shape'
  BY DEF IInv, Shape, Shown, Save
<1>2. Texts'
  BY DEF IInv, Texts, Good, Save
<1>3. Costs'
  BY DEF IInv, Costs, Save, Before, Prep, Deep, CallsBounded
<1> QED BY <1>1, <1>2, <1>3 DEF IInv

LEMMA InitHolds == Init => IInv
<1> SUFFICES ASSUME Init PROVE IInv
  OBVIOUS
<1>1. Shown(sources)
  <2>1. <<>> \in Seq(Source) /\ Len(<<>>) = 0 /\ DOMAIN <<>> = {}
    OBVIOUS
  <2> QED BY <2>1, AnsweringAssumption DEF Shown, Init
<1>2. ranked \in Seq(Ids) /\ IsInjective(ranked)
  BY DEF Init, IsInjective
<1>3. clients \in Clients
  BY DEF Init, Clients
<1>4. Shape
  BY <1>1, <1>2, <1>3 DEF Init, Shape
<1>5. Texts
  BY DEF Init, Texts
<1>6. Costs
  BY Budget DEF Init, Costs
<1> QED BY <1>4, <1>5, <1>6 DEF IInv

LEMMA NextKeeps == IInv /\ [Next]_vars => IInv'
<1> SUFFICES ASSUME IInv, [Next]_vars PROVE IInv'
  OBVIOUS
<1>1. CASE Step
  BY <1>1, OpeningKeeps, RetrieveKeeps, CutKeeps, UnavailableKeeps, BreakKeeps, GenerateKeeps
     DEF Step
<1>2. CASE Ask \/ Greet
  BY <1>2, OpeningKeeps
<1>3. CASE \E d \in Docs, t \in Tenants \cup {None} : Save(d, t)
  BY <1>3, SaveKeeps
<1>4. CASE UNCHANGED vars
  BY <1>4 DEF vars, IInv, Shape, Shown, Texts, Good, Costs, Before, Prep, Deep, CallsBounded
<1> QED BY <1>1, <1>2, <1>3, <1>4 DEF Next

LEMMA Invariant == Spec => []IInv
BY InitHolds, NextKeeps, PTL DEF Spec

------------------------------------------------------------------------------
(* The theorems *)

\* Every variable keeps its type, and a model is never shown more than
\* escalation_top_k chunks.
THEOREM Typed == Spec => []TypeOK
<1>1. IInv => TypeOK
  <2> SUFFICES ASSUME IInv PROVE TypeOK
    OBVIOUS
  <2>1. primary \in Answer \cup {None} /\ outcome \in Outcome \cup {None}
    BY DEF IInv, Texts, Good, Failed, Outcome
  <2> QED BY <2>1 DEF IInv, Shape, Shown, TypeOK
<1> QED BY <1>1, Invariant, PTL

\* Cite or fail: whatever the model replies, however many passes it takes and
\* whether an escalation fails, an answer in a model's words cites a source and has no
\* marker without one, or says that the sources do not do and has no marker at all.
THEOREM Cited == Spec => []CitedOrHonest
<1>1. IInv => CitedOrHonest
  BY DEF IInv, Texts, Good, Failed, CitedOrHonest, Answered, Modes
<1> QED BY <1>1, Invariant, PTL

\* Nobody is shown a source of a tenant outside their scope, whatever the indexes
\* hold and whoever takes documents over while the question is answered.
THEOREM Scoped == Spec => []ScopeKept
<1>1. IInv => ScopeKept
  BY DEF IInv, Texts, Good, Failed, ScopeKept, Answered, Modes
<1> QED BY <1>1, Invariant, PTL

\* A question costs a bounded number of model calls, with every helper configured
\* and an escalation after two rejected generations.
THEOREM Bounded == Spec => []CallsBounded
<1>1. IInv => CallsBounded
  BY DEF IInv, Costs
<1> QED BY <1>1, Invariant, PTL

\* The cut of a ranking to k chunks takes as many as it may, and takes more than the
\* cap of one document only when no other has a chunk left that is within its cap.
THEOREM Diverse == Spec => []CutIsDiverse
<1>1. IInv => CutIsDiverse
  <2> SUFFICES ASSUME IInv, pc = "cut" PROVE CutIsDiverse
    BY DEF CutIsDiverse
  <2>1. ranked \in Seq(Ids) /\ IsInjective(ranked)
    BY DEF IInv, Shape
  <2>2. Bound \in Nat /\ PerDoc \in Nat
    BY AnsweringAssumption DEF Bound, PerDoc
  <2> QED BY <2>1, <2>2, CutIsFair DEF CutIsDiverse
<1> QED BY <1>1, Invariant, PTL
==============================================================================
