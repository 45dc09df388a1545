---------------------------- MODULE VisitorProofs -----------------------------
(*****************************************************************************)
(* Proofs about a visitor without an account: the daily allowance of         *)
(* anonymous questions (AnonQuota), and the page that asks them and takes the*)
(* thread along when the visitor signs in (ChatPage).                        *)
(*****************************************************************************)
EXTENDS AnonQuota, ChatPage, FiniteSetTheorems, SequenceTheorems, TLAPS

(*****************************************************************************)
(* AnonQuota, for any number of keys, workers and days: type correctness, the*)
(* books, the bound on the overrun, and the refinement of QuotaGate.         *)
(*****************************************************************************)
\* A worker's step changes only its own place in the handler.
LEMMA AskStep ==
  ASSUME TypeOK, NEW w \in Workers, NEW v, ask' = [ask EXCEPT ![w] = v]
  PROVE  ask'[w] = v /\ \A x \in Workers \ {w} : ask'[x] = ask[x]
BY DEF TypeOK

\* Sets of workers are finite, and counting them is monotone and strict.
LEMMA CountWorkers ==
  ASSUME NEW S \in SUBSET Workers, NEW T \in SUBSET S
  PROVE  /\ Cardinality(S) \in Nat /\ Cardinality(T) \in Nat
         /\ Cardinality(T) <= Cardinality(S)
         /\ \A w \in S \ T : Cardinality(T) <= Cardinality(S) - 1
<1>1. IsFiniteSet(S) /\ IsFiniteSet(T) /\ Cardinality(T) <= Cardinality(S)
  BY AnonAssumption, FS_Subset, Zenon
<1>2. Cardinality(S) \in Nat /\ Cardinality(T) \in Nat
  BY <1>1, FS_CardinalityType
<1>3. ASSUME NEW w \in S \ T PROVE Cardinality(T) <= Cardinality(S) - 1
  <2>1. T \in SUBSET (S \ {w})
    OBVIOUS
  <2>2. IsFiniteSet(S \ {w}) /\ Cardinality(S \ {w}) = Cardinality(S) - 1
    BY <1>1, <1>3, FS_RemoveElement
  <2> QED BY <2>1, <2>2, FS_Subset
<1> QED BY <1>1, <1>2, <1>3

LEMMA InitType == Init => TypeOK
BY AnonAssumption DEF Init, TypeOK, Days, Rows, InFlight, Idle

LEMMA NextType == TypeOK /\ [Next]_vars => TypeOK'
<1> SUFFICES ASSUME TypeOK, [Next]_vars PROVE TypeOK'
  OBVIOUS
<1> USE DEF TypeOK
<1>1. CASE Midnight
  BY <1>1, AnonAssumption DEF Midnight, Days
<1>2. ASSUME NEW w \in Workers, Step(w) PROVE TypeOK'
  <2>0. ask[w].pc # "idle" => ask[w] \in InFlight
    BY DEF Idle
  <2>1. ASSUME NEW k \in Keys, Arrive(w, k) PROVE TypeOK'
    <3>1. <<k, today>> \in Rows
      BY DEF Rows
    <3> QED BY <2>1, <3>1 DEF Arrive, InFlight
  <2>2. CASE Refuse(w)
    BY <2>2 DEF Refuse
  <2>3. CASE Pass(w)
    BY <2>3, <2>0 DEF Pass, InFlight
  <2>4. CASE Insert(w)
    <3>1. ask[w] \in InFlight
      BY <2>4, <2>0 DEF Insert
    <3>2. table' \in [Rows -> Nat \cup {NoRow}]
      BY <2>4, <3>1 DEF Insert, Sweep
    <3> QED BY <2>4, <3>1, <3>2 DEF Insert, InFlight
  <2>5. CASE InsertConflict(w)
    BY <2>5 DEF InsertConflict
  <2>6. CASE Increment(w)
    <3>1. ask[w] \in InFlight
      BY <2>6, <2>0 DEF Increment
    <3>2. table' \in [Rows -> Nat \cup {NoRow}]
      BY <2>6, <3>1 DEF Increment, InFlight
    <3> QED BY <2>6, <3>1, <3>2 DEF Increment, InFlight
  <2>7. CASE Answer(w)
    BY <2>7, <2>0 DEF Answer, InFlight
  <2>8. CASE Unanswered(w)
    BY <2>8, <2>0 DEF Unanswered, InFlight
  <2>9. CASE Refund(w)
    <3>1. ask[w] \in InFlight
      BY <2>9, <2>0 DEF Refund
    <3>2. RefundRow(w) \in Rows
      BY <3>1 DEF RefundRow, Rows, InFlight
    <3>3. table' \in [Rows -> Nat \cup {NoRow}]
      BY <2>9, <3>2, AnonAssumption DEF Refund, Refundable
    <3> QED BY <2>9, <3>1, <3>2, <3>3 DEF Refund, InFlight
  <2>10. CASE Abort(w)
    BY <2>10, <2>0 DEF Abort, InFlight
  <2> QED BY <1>2, <2>1, <2>2, <2>3, <2>4, <2>5, <2>6, <2>7, <2>8, <2>9, <2>10 DEF Step
<1>3. CASE UNCHANGED vars
  BY <1>3 DEF vars
<1> QED BY <1>1, <1>2, <1>3 DEF Next

\* The state variables of the gate keep their types.
THEOREM TypeCorrect == Spec => []TypeOK
<1>1. Init => TypeOK
  BY InitType
<1>2. TypeOK /\ [Next]_vars => TypeOK'
  BY NextType
<1> QED BY <1>1, <1>2, PTL DEF Spec

------------------------------------------------------------------------------
(***************************************************************************)
(* The overrun.  OverrunBound is inductive with TypeOK: passing the check  *)
(* needs Used(r) < Limit and adds one worker to at most all of them, a     *)
(* write moves one from the workers that passed to the counter, and        *)
(* nothing else raises either.                                             *)
(***************************************************************************)

\* A step that raises no counter and lets no worker pass keeps the bound of r.
LEMMA BoundLowered ==
  ASSUME TypeOK, TypeOK', OverrunBound, NEW r \in Rows,
         Used(r)' <= Used(r), Checked(r)' \in SUBSET Checked(r)
  PROVE  Used(r)' + Cardinality(Checked(r)') <= Limit + Cardinality(Workers) - 1
<1>1. Checked(r) \in SUBSET Workers
  BY DEF Checked, At
<1>2. Cardinality(Checked(r)') <= Cardinality(Checked(r))
  BY <1>1, CountWorkers
<1>3. Cardinality(Checked(r)') \in Nat /\ Cardinality(Checked(r)) \in Nat
  BY <1>1, CountWorkers
<1>4. Used(r) \in Nat /\ Used(r)' \in Nat
  BY DEF Used, TypeOK
<1>5. Limit \in Nat /\ Cardinality(Workers) \in Nat
  BY AnonAssumption, FS_CardinalityType
<1> QED BY <1>2, <1>3, <1>4, <1>5 DEF OverrunBound

\* A write: the counter of r grows by at most one, and w leaves Checked(r).
LEMMA BoundWritten ==
  ASSUME TypeOK, TypeOK', OverrunBound, NEW r \in Rows, NEW w \in Checked(r),
         Used(r)' <= Used(r) + 1, Checked(r)' \in SUBSET (Checked(r) \ {w})
  PROVE  Used(r)' + Cardinality(Checked(r)') <= Limit + Cardinality(Workers) - 1
<1>1. Checked(r) \in SUBSET Workers
  BY DEF Checked, At
<1>2. Cardinality(Checked(r)') <= Cardinality(Checked(r)) - 1
  BY <1>1, CountWorkers
<1>3. Cardinality(Checked(r)') \in Nat /\ Cardinality(Checked(r)) \in Nat
  BY <1>1, CountWorkers
<1>4. Used(r) \in Nat /\ Used(r)' \in Nat
  BY DEF Used, TypeOK
<1>5. Limit \in Nat /\ Cardinality(Workers) \in Nat
  BY AnonAssumption, FS_CardinalityType
<1> QED BY <1>2, <1>3, <1>4, <1>5 DEF OverrunBound

LEMMA InitBound == Init => OverrunBound
<1> SUFFICES ASSUME Init, NEW r \in Rows
             PROVE  Used(r) + Cardinality(Checked(r)) <= Limit + Cardinality(Workers) - 1
  BY DEF OverrunBound
<1>1. Used(r) = 0
  BY DEF Init, Used
<1>2. Checked(r) = {}
  BY DEF Init, Checked, At, Idle
<1>3. Cardinality(Checked(r)) = 0
  BY <1>2, FS_EmptySet
<1>4. Cardinality(Workers) \in Nat /\ Cardinality(Workers) # 0
  BY AnonAssumption, FS_CardinalityType, FS_EmptySet
<1> QED BY <1>1, <1>3, <1>4, AnonAssumption

LEMMA NextBound == TypeOK /\ OverrunBound /\ [Next]_vars => OverrunBound'
<1> SUFFICES ASSUME TypeOK, OverrunBound, [Next]_vars, NEW r \in Rows
             PROVE  Used(r)' + Cardinality(Checked(r)') <= Limit + Cardinality(Workers) - 1
  BY DEF OverrunBound, Rows, Days
<1>0. TypeOK'
  BY NextType
<1> DEFINE Goal == Used(r)' + Cardinality(Checked(r)') <= Limit + Cardinality(Workers) - 1
<1>a. Used(r) \in Nat
  BY DEF TypeOK, Used
<1>1. CASE Midnight
  BY <1>0, <1>1, <1>a, BoundLowered DEF Midnight, Used, Checked, At
<1>2. ASSUME NEW w \in Workers, Step(w) PROVE Goal
  \* a step that leaves the table and takes w to a place other than "checked"
  <2>0. ASSUME NEW v, ask' = [ask EXCEPT ![w] = v], v.pc # "checked", table' = table
        PROVE  Goal
    <3>1. Checked(r)' \in SUBSET Checked(r)
      BY <2>0, AskStep DEF Checked, At
    <3> QED BY <1>0, <1>a, <2>0, <3>1, BoundLowered DEF Used
  \* a write to w's row raises its counter by one and no other
  <2>w. ASSUME ask[w].pc = "checked", NEW v, ask' = [ask EXCEPT ![w] = v], v.pc = "asking",
               Used(r)' <= IF r = ask[w].row THEN Used(r) + 1 ELSE Used(r)
        PROVE  Goal
    <3>0. ask'[w].pc = "asking" /\ \A x \in Workers \ {w} : ask'[x] = ask[x]
      BY <2>w, AskStep
    <3>1. Checked(r)' = Checked(r) \ {w}
      BY <3>0 DEF Checked, At
    <3>2. CASE r = ask[w].row
      <4>1. w \in Checked(r)
        BY <2>w, <3>2 DEF Checked, At
      <4> QED BY <1>0, <2>w, <3>1, <3>2, <4>1, BoundWritten
    <3>3. CASE r # ask[w].row
      BY <1>0, <2>w, <3>1, <3>3, BoundLowered
    <3> QED BY <3>2, <3>3
  <2>n. Idle.pc = "idle"
    BY DEF Idle
  <2>i. ask[w].pc # "idle" => ask[w] \in InFlight
    BY DEF Idle, TypeOK
  <2>1. ASSUME NEW k \in Keys, Arrive(w, k) PROVE Goal
    <3> DEFINE v == [pc |-> "consuming", row |-> <<k, today>>, fresh |-> FALSE]
    <3>1. ask' = [ask EXCEPT ![w] = v] /\ v.pc # "checked" /\ table' = table
      BY <2>1 DEF Arrive
    <3> HIDE DEF v
    <3> QED BY <2>0, <3>1
  <2>2. CASE Refuse(w)
    BY <2>0, <2>2, <2>n DEF Refuse
  <2>3. CASE Pass(w)
    <3>1. CASE r = ask[w].row
      <4>1. Used(r)' = Used(r) /\ Used(r) < Limit
        BY <2>3, <3>1 DEF Pass, Used, Allow
      <4>2. Checked(r)' \in SUBSET Workers
        BY DEF Checked, At
      <4>3. Workers \in SUBSET Workers
        OBVIOUS
      <4>4. /\ Cardinality(Checked(r)') \in Nat /\ Cardinality(Workers) \in Nat
            /\ Cardinality(Checked(r)') <= Cardinality(Workers)
        BY <4>2, <4>3, CountWorkers
      <4> QED BY <1>a, <4>1, <4>4, AnonAssumption
    <3>2. CASE r # ask[w].row
      <4>1. Checked(r)' = Checked(r) \ {w}
        BY <2>3, <3>2, AskStep DEF Pass, Checked, At
      <4>2. Used(r)' = Used(r)
        BY <2>3 DEF Pass, Used
      <4> QED BY <1>0, <1>a, <4>1, <4>2, BoundLowered
    <3> QED BY <3>1, <3>2
  <2>4. CASE Insert(w)
    <3>1. ask[w] \in InFlight /\ ask[w].row \in Rows
      BY <2>4, <2>i DEF Insert, InFlight
    <3>2. table'[r] = NoRow \/ table'[r] = [table EXCEPT ![ask[w].row] = 1][r]
      BY <2>4 DEF Insert, Sweep
    <3>3. Used(r)' <= IF r = ask[w].row THEN Used(r) + 1 ELSE Used(r)
      BY <1>a, <2>4, <3>1, <3>2, AnonAssumption DEF Insert, Used, TypeOK
    <3> DEFINE v == [ask[w] EXCEPT !.pc = "asking"]
    <3>4. v.pc = "asking"
      BY <3>1 DEF InFlight
    <3>5. ask' = [ask EXCEPT ![w] = v] /\ ask[w].pc = "checked"
      BY <2>4 DEF Insert
    <3> HIDE DEF v
    <3> QED BY <2>w, <3>3, <3>4, <3>5
  <2>5. CASE InsertConflict(w)
    BY <2>0, <2>5, <2>n DEF InsertConflict
  <2>6. CASE Increment(w)
    <3>1. ask[w] \in InFlight /\ ask[w].row \in Rows
      BY <2>6, <2>i DEF Increment, InFlight
    <3>2. Used(r)' <= IF r = ask[w].row THEN Used(r) + 1 ELSE Used(r)
      BY <1>a, <2>6, <3>1, AnonAssumption DEF Increment, Used, TypeOK
    <3> DEFINE v == [ask[w] EXCEPT !.pc = "asking"]
    <3>3. v.pc = "asking"
      BY <3>1 DEF InFlight
    <3>4. ask' = [ask EXCEPT ![w] = v] /\ ask[w].pc = "checked"
      BY <2>6 DEF Increment
    <3> HIDE DEF v
    <3> QED BY <2>w, <3>2, <3>3, <3>4
  <2>7. CASE Answer(w)
    BY <2>0, <2>7, <2>n DEF Answer
  <2>8. CASE Unanswered(w)
    <3> DEFINE v == [ask[w] EXCEPT !.pc = "refunding"]
    <3>1. v.pc = "refunding"
      BY <2>8, <2>i DEF Unanswered, InFlight
    <3>2. ask' = [ask EXCEPT ![w] = v] /\ table' = table
      BY <2>8 DEF Unanswered
    <3> HIDE DEF v
    <3> QED BY <2>0, <3>1, <3>2
  <2>9. CASE Refund(w)
    <3>1. Used(r)' <= Used(r)
      BY <1>a, <2>9, AnonAssumption DEF Refund, Refundable, Used, TypeOK
    <3>2. Checked(r)' \in SUBSET Checked(r)
      BY <2>9, <2>n, AskStep DEF Refund, Checked, At
    <3> QED BY <1>0, <3>1, <3>2, BoundLowered
  <2>10. CASE Abort(w)
    BY <2>0, <2>10, <2>n DEF Abort
  <2> QED BY <1>2, <2>1, <2>2, <2>3, <2>4, <2>5, <2>6, <2>7, <2>8, <2>9, <2>10 DEF Step
<1>3. CASE UNCHANGED vars
  BY <1>0, <1>3, <1>a, BoundLowered DEF vars, Used, Checked, At
<1> QED BY <1>1, <1>2, <1>3 DEF Next

\* However many requests of a visitor race, the day's counter stays at most one
\* below Limit plus the number of workers (consume in core/quota.py).
THEOREM OverrunBounded == Spec => []OverrunBound
<1>1. Init => TypeOK /\ OverrunBound
  BY InitType, InitBound
<1>2. TypeOK /\ OverrunBound /\ [Next]_vars => (TypeOK /\ OverrunBound)'
  BY NextType, NextBound
<1> QED BY <1>1, <1>2, PTL DEF Spec

------------------------------------------------------------------------------
(***************************************************************************)
(* The refinement: the counters of AnonQuota are the charges of a gate     *)
(* with a slack of one per worker beside the first.                        *)
(***************************************************************************)

\* A worker that passed the check finds its counter below the gate's cap.
LEMMA CheckedBelowCap ==
  ASSUME TypeOK, OverrunBound, NEW r \in Rows, NEW w \in Checked(r)
  PROVE  Used(r) < Limit + (Cardinality(Workers) - 1)
<1>1. Checked(r) \in SUBSET Workers /\ {} \in SUBSET Checked(r)
  BY DEF Checked, At
<1>2. Cardinality({}) <= Cardinality(Checked(r)) - 1 /\ Cardinality(Checked(r)) \in Nat
  BY <1>1, CountWorkers
<1>3. Cardinality({}) = 0
  BY FS_EmptySet
<1>4. Limit \in Nat /\ Cardinality(Workers) \in Nat /\ Used(r) \in Nat
  BY AnonAssumption, FS_CardinalityType DEF Used, TypeOK
<1> QED BY <1>2, <1>3, <1>4 DEF OverrunBound

LEMMA GateInit == Init => Gate!Init
BY DEF Init, Gate!Init, Used

LEMMA GateStep ==
  TypeOK /\ OverrunBound /\ [Next]_vars => [Gate!Next]_([r \in Rows |-> Used(r)])
<1> DEFINE bar == [r \in Rows |-> Used(r)]
<1> SUFFICES ASSUME TypeOK, OverrunBound, [Next]_vars
             PROVE  Gate!Next \/ bar' = bar
  OBVIOUS
<1>s. ASSUME table' = table PROVE bar' = bar
  BY <1>s DEF Used
<1>a. \A r \in Rows : Used(r) \in Nat
  BY DEF TypeOK, Used
<1>1. CASE Midnight
  BY <1>1, <1>s DEF Midnight
<1>2. ASSUME NEW w \in Workers, Step(w) PROVE Gate!Next \/ bar' = bar
  <2>i. ask[w].pc # "idle" => ask[w] \in InFlight
    BY DEF Idle, TypeOK
  <2>1. ASSUME NEW k \in Keys, Arrive(w, k) PROVE bar' = bar
    BY <2>1, <1>s DEF Arrive
  <2>2. CASE Refuse(w) \/ Pass(w) \/ InsertConflict(w) \/ Answer(w) \/ Unanswered(w) \/ Abort(w)
    BY <2>2, <1>s DEF Refuse, Pass, InsertConflict, Answer, Unanswered, Abort
  <2>3. CASE Insert(w)
    <3>0. PICK a \in Rows : a = ask[w].row
      BY <2>3, <2>i DEF Insert, InFlight
    <3> DEFINE F == {b \in Rows : b # a /\ b[2] < a[2] - RetainDays}
    <3>1. a \in Rows /\ a[2] \in Int
      BY DEF Rows, Days
    <3>2. ask[w].pc = "checked" /\ table[a] = NoRow
      BY <2>3, <3>0 DEF Insert
    <3>3. w \in Checked(a)
      BY <3>0, <3>2 DEF Checked, At
    <3>4. Used(a) < Limit + (Cardinality(Workers) - 1)
      BY <3>1, <3>3, CheckedBelowCap
    <3>5. table' = Sweep([table EXCEPT ![a] = 1], a[2])
      BY <2>3, <3>0 DEF Insert
    <3>6. ~(a[2] < a[2] - RetainDays)
      BY <3>1, AnonAssumption
    <3>7. Used(a) = 0 /\ Used(a)' = 1
      BY <3>1, <3>2, <3>5, <3>6, AnonAssumption DEF Used, Sweep, TypeOK
    <3>8. ASSUME NEW b \in Rows, b # a
          PROVE  Used(b)' = IF b \in F THEN 0 ELSE Used(b)
      BY <3>1, <3>5, <3>8 DEF Used, Sweep, TypeOK
    <3>9. bar' = [b \in Rows |-> IF b = a THEN bar[a] + 1 ELSE IF b \in F THEN 0 ELSE bar[b]]
      BY <3>1, <3>7, <3>8
    <3>10. a \notin F /\ F \in SUBSET Rows /\ bar[a] < Limit + (Cardinality(Workers) - 1)
      BY <3>1, <3>4
    <3>11. Gate!Charge(a, F)
      BY <3>9, <3>10 DEF Gate!Charge
    <3> QED BY <3>1, <3>10, <3>11 DEF Gate!Next
  <2>4. CASE Increment(w)
    <3>1. PICK a \in Rows : a = ask[w].row
      BY <2>4, <2>i DEF Increment, InFlight
    <3>2. ask[w].pc = "checked" /\ table' = [table EXCEPT ![a] = IF @ = NoRow THEN NoRow ELSE @ + 1]
      BY <2>4, <3>1 DEF Increment
    <3>3. CASE table[a] = NoRow
      <4>1. table' = table
        BY <3>1, <3>2, <3>3 DEF TypeOK
      <4> QED BY <4>1, <1>s
    <3>4. CASE table[a] # NoRow
      <4>1. w \in Checked(a)
        BY <3>1, <3>2 DEF Checked, At
      <4>2. Used(a) < Limit + (Cardinality(Workers) - 1)
        BY <3>1, <4>1, CheckedBelowCap
      <4>3. Used(a)' = Used(a) + 1
        BY <3>1, <3>2, <3>4, AnonAssumption DEF Used, TypeOK
      <4>4. \A b \in Rows \ {a} : Used(b)' = Used(b)
        BY <3>1, <3>2 DEF Used, TypeOK
      <4>5. bar' = [b \in Rows |-> IF b = a THEN bar[a] + 1 ELSE IF b \in {} THEN 0 ELSE bar[b]]
        BY <3>1, <4>3, <4>4
      <4>6. Gate!Charge(a, {})
        BY <3>1, <4>2, <4>5 DEF Gate!Charge
      <4> QED BY <3>1, <4>6 DEF Gate!Next
    <3> QED BY <3>3, <3>4
  <2>5. CASE Refund(w)
    <3>1. PICK a \in Rows : a = RefundRow(w)
      BY <2>5, <2>i DEF Refund, InFlight, RefundRow, Rows, TypeOK
    <3>2. CASE Refundable(a)
      <4>1. table' = [table EXCEPT ![a] = @ - 1] /\ table[a] \in Nat /\ table[a] > 0
        BY <2>5, <3>1, <3>2 DEF Refund, Refundable, TypeOK
      <4>2. Used(a) > 0 /\ Used(a)' = Used(a) - 1
        BY <3>1, <4>1, AnonAssumption DEF Used, TypeOK
      <4>3. \A b \in Rows \ {a} : Used(b)' = Used(b)
        BY <3>1, <4>1 DEF Used, TypeOK
      <4>4. bar' = [bar EXCEPT ![a] = @ - 1]
        BY <3>1, <4>2, <4>3
      <4>5. Gate!Return(a)
        BY <3>1, <4>2, <4>4 DEF Gate!Return
      <4> QED BY <3>1, <4>5 DEF Gate!Next
    <3>3. CASE ~Refundable(a)
      BY <2>5, <3>1, <3>3, <1>s DEF Refund
    <3> QED BY <3>2, <3>3
  <2> QED BY <1>2, <2>1, <2>2, <2>3, <2>4, <2>5 DEF Step
<1>3. CASE UNCHANGED vars
  BY <1>3, <1>s DEF vars
<1> QED BY <1>1, <1>2, <1>3 DEF Next

\* AnonQuota implements the gate: charges are taken below Limit plus the slack,
\* returned only when taken, and forgotten only by the sweep.
THEOREM RefinesGate == Spec => GateSpec
<1>1. Init => Gate!Init
  BY GateInit
<1>2. TypeOK /\ OverrunBound /\ [Next]_vars => [Gate!Next]_([r \in Rows |-> Used(r)])
  BY GateStep
<1> QED BY <1>1, <1>2, TypeCorrect, OverrunBounded, PTL DEF Spec, GateSpec, Gate!Spec

------------------------------------------------------------------------------
(***************************************************************************)
(* The ledger.  It is inductive with two facts about requests in flight:   *)
(* the day they captured is not in the future, so a sweep spares recent    *)
(* rows, and a row the check saw is there when it is incremented.          *)
(***************************************************************************)

Captured == \A w \in Workers : ask[w].pc # "idle" => ask[w].row[2] <= today

SeenRowStays == \A w \in Workers :
  ask[w].pc = "checked" /\ ~ask[w].fresh /\ Recent(ask[w].row)
    => table[ask[w].row] # NoRow

LedgerInv == TypeOK /\ Captured /\ SeenRowStays /\ Ledger

LEMMA CountStep ==
  ASSUME NEW S \in SUBSET Workers, NEW w \in Workers
  PROVE  /\ Cardinality(S) \in Nat
         /\ w \notin S => Cardinality(S \cup {w}) = Cardinality(S) + 1
         /\ w \in S => /\ Cardinality(S \ {w}) = Cardinality(S) - 1
                      /\ Cardinality(S) >= 1
<1>1. IsFiniteSet(S) /\ Cardinality(S) \in Nat
  BY AnonAssumption, FS_Subset, FS_CardinalityType
<1>2. w \notin S => Cardinality(S \cup {w}) = Cardinality(S) + 1
  BY <1>1, FS_AddElement
<1>3. w \in S => Cardinality(S \ {w}) = Cardinality(S) - 1 /\ Cardinality(S \ {w}) \in Nat
  BY <1>1, FS_RemoveElement, FS_CardinalityType
<1> QED BY <1>1, <1>2, <1>3

LEMMA LedgerInit == Init => LedgerInv
<1> SUFFICES ASSUME Init PROVE LedgerInv
  OBVIOUS
<1>1. TypeOK
  BY InitType
<1>2. Captured /\ SeenRowStays
  BY DEF Init, Idle, Captured, SeenRowStays
<1>3. ASSUME NEW r \in Rows PROVE Used(r) = answered[r] + Cardinality(Charged(r)) + lost[r]
  <2>1. Charged(r) = {}
    BY DEF Init, Charged, At, Idle
  <2>2. Used(r) = 0 /\ answered[r] = 0 /\ lost[r] = 0
    BY DEF Init, Used
  <2> QED BY <2>1, <2>2, FS_EmptySet
<1> QED BY <1>1, <1>2, <1>3 DEF LedgerInv, Ledger

\* The two supporting facts survive every step.
LEMMA CapturedStep ==
  TypeOK /\ Captured /\ SeenRowStays /\ [Next]_vars => Captured' /\ SeenRowStays'
<1> SUFFICES ASSUME TypeOK, Captured, SeenRowStays, [Next]_vars
             PROVE  Captured' /\ SeenRowStays'
  OBVIOUS
<1>t. today \in Int /\ \A r \in Rows : r[2] \in Int
  BY DEF TypeOK, Rows, Days
<1>f. \A x \in Workers : ask[x].pc # "idle" => ask[x] \in InFlight /\ ask[x].row \in Rows
  BY DEF TypeOK, Idle, InFlight
<1>1. CASE Midnight
  BY <1>1, <1>t, <1>f, AnonAssumption DEF Midnight, Captured, SeenRowStays, Recent
<1>2. ASSUME NEW w \in Workers, Step(w) PROVE Captured' /\ SeenRowStays'
  <2>n. Idle.pc = "idle"
    BY DEF Idle
  \* no row appears or disappears, and w does not come to "checked"
  <2>q. ASSUME NEW v, ask' = [ask EXCEPT ![w] = v], today' = today,
               v.pc # "checked", v.pc # "idle" => v.row[2] <= today,
               \A r \in Rows : Recent(r) /\ table[r] # NoRow => table'[r] # NoRow
        PROVE  Captured' /\ SeenRowStays'
    <3>1. ask'[w] = v /\ \A x \in Workers \ {w} : ask'[x] = ask[x]
      BY <2>q, AskStep
    <3>2. Captured'
      BY <2>q, <3>1 DEF Captured
    <3>3. SeenRowStays'
      BY <2>q, <3>1, <1>f DEF SeenRowStays, Recent
    <3> QED BY <3>2, <3>3
  <2>1. ASSUME NEW k \in Keys, Arrive(w, k) PROVE Captured' /\ SeenRowStays'
    <3> DEFINE v == [pc |-> "consuming", row |-> <<k, today>>, fresh |-> FALSE]
    <3>1. v.pc = "consuming" /\ v.row[2] <= today
      BY <1>t
    <3>2. ask' = [ask EXCEPT ![w] = v] /\ table' = table /\ today' = today
      BY <2>1 DEF Arrive
    <3> HIDE DEF v
    <3> QED BY <2>q, <3>1, <3>2
  <2>2. CASE Refuse(w) \/ InsertConflict(w) \/ Answer(w) \/ Abort(w)
    BY <2>2, <2>n, <2>q DEF Refuse, InsertConflict, Answer, Abort
  <2>3. CASE Pass(w)
    <3> DEFINE v == [pc |-> "checked", row |-> ask[w].row, fresh |-> table[ask[w].row] = NoRow]
    <3>1. ask' = [ask EXCEPT ![w] = v] /\ table' = table /\ today' = today /\ ask[w].pc # "idle"
      BY <2>3 DEF Pass
    <3>2. v.row = ask[w].row /\ (~v.fresh => table[v.row] # NoRow)
      OBVIOUS
    <3> HIDE DEF v
    <3>3. ask'[w] = v /\ \A x \in Workers \ {w} : ask'[x] = ask[x]
      BY <3>1, AskStep
    <3> QED BY <3>1, <3>2, <3>3 DEF Captured, SeenRowStays, Recent
  <2>4. CASE Insert(w)
    <3>1. PICK a \in Rows : a = ask[w].row
      BY <2>4, <1>f DEF Insert
    <3>2. /\ table' = Sweep([table EXCEPT ![a] = 1], a[2])
          /\ ask[w].pc = "checked" /\ today' = today
          /\ ask' = [ask EXCEPT ![w] = [ask[w] EXCEPT !.pc = "asking"]]
      BY <2>4, <3>1 DEF Insert
    <3>3. a[2] <= today
      BY <3>1, <3>2 DEF Captured
    <3>4. \A r \in Rows : Recent(r) /\ table[r] # NoRow => table'[r] # NoRow
      BY <3>2, <3>3, <1>t, AnonAssumption DEF Recent, Sweep, TypeOK
    <3> DEFINE v == [ask[w] EXCEPT !.pc = "asking"]
    <3>5. v.pc = "asking" /\ v.row = a
      BY <3>1, <3>2, <1>f DEF InFlight
    <3>6. ask' = [ask EXCEPT ![w] = v]
      BY <3>2
    <3> HIDE DEF v
    <3> QED BY <2>q, <3>2, <3>3, <3>4, <3>5, <3>6
  <2>5. CASE Increment(w)
    <3>1. PICK a \in Rows : a = ask[w].row
      BY <2>5, <1>f DEF Increment
    <3>2. /\ table' = [table EXCEPT ![a] = IF @ = NoRow THEN NoRow ELSE @ + 1]
          /\ ask[w].pc = "checked" /\ today' = today
          /\ ask' = [ask EXCEPT ![w] = [ask[w] EXCEPT !.pc = "asking"]]
      BY <2>5, <3>1 DEF Increment
    <3>3. a[2] <= today
      BY <3>1, <3>2 DEF Captured
    <3>4. \A r \in Rows : table[r] # NoRow => table'[r] # NoRow
      BY <3>2, AnonAssumption DEF TypeOK
    <3> DEFINE v == [ask[w] EXCEPT !.pc = "asking"]
    <3>5. v.pc = "asking" /\ v.row = a
      BY <3>1, <3>2, <1>f DEF InFlight
    <3>6. ask' = [ask EXCEPT ![w] = v]
      BY <3>2
    <3> HIDE DEF v
    <3> QED BY <2>q, <3>2, <3>3, <3>4, <3>5, <3>6
  <2>6. CASE Unanswered(w)
    <3> DEFINE v == [ask[w] EXCEPT !.pc = "refunding"]
    <3>1. ask' = [ask EXCEPT ![w] = v] /\ ask[w].pc = "asking" /\ table' = table /\ today' = today
      BY <2>6 DEF Unanswered
    <3>2. v.pc = "refunding" /\ v.row = ask[w].row
      BY <3>1, <1>f DEF InFlight
    <3>3. v.row[2] <= today
      BY <3>1, <3>2 DEF Captured
    <3> HIDE DEF v
    <3> QED BY <2>q, <3>1, <3>2, <3>3
  <2>7. CASE Refund(w)
    <3>1. \A r \in Rows : table[r] # NoRow => table'[r] # NoRow
      BY <2>7, AnonAssumption DEF Refund, Refundable, TypeOK
    <3> QED BY <2>7, <2>n, <2>q, <3>1 DEF Refund
  <2> QED BY <1>2, <2>1, <2>2, <2>3, <2>4, <2>5, <2>6, <2>7 DEF Step
<1>3. CASE UNCHANGED vars
  BY <1>3 DEF vars, Captured, SeenRowStays, Recent
<1> QED BY <1>1, <1>2, <1>3 DEF Next

\* A request moves between places; r is charged for it before, after or never.
LEMMA ChargedMoves ==
  ASSUME TypeOK, NEW w \in Workers, NEW r \in Rows, NEW v, ask' = [ask EXCEPT ![w] = v]
  PROVE  /\ (v.pc \in {"asking", "refunding"} /\ v.row = r)
              => Charged(r)' = Charged(r) \cup {w}
         /\ ~(v.pc \in {"asking", "refunding"} /\ v.row = r)
              => Charged(r)' = Charged(r) \ {w}
<1>1. ask'[w] = v /\ \A x \in Workers \ {w} : ask'[x] = ask[x]
  BY AskStep
<1> QED BY <1>1 DEF Charged, At

LEMMA ChargedJoins ==
  ASSUME TypeOK, NEW w \in Workers, NEW r \in Rows, NEW v, ask' = [ask EXCEPT ![w] = v],
         v.pc \in {"asking", "refunding"}, v.row = r
  PROVE  Charged(r)' = Charged(r) \cup {w}
BY ChargedMoves

LEMMA LedgerStep == LedgerInv /\ [Next]_vars => Ledger'
<1> SUFFICES ASSUME LedgerInv, [Next]_vars, NEW r \in Rows, r \notin strayed', Recent(r)'
             PROVE  Used(r)' = answered'[r] + Cardinality(Charged(r)') + lost'[r]
  BY DEF Ledger, Rows, Days
<1> DEFINE Goal == Used(r)' = answered'[r] + Cardinality(Charged(r)') + lost'[r]
<1>0. TypeOK /\ Captured /\ SeenRowStays /\ Ledger /\ TypeOK'
  BY NextType DEF LedgerInv
<1>t. today \in Int /\ \A x \in Rows : x[2] \in Int
  BY <1>0 DEF TypeOK, Rows, Days
<1>f. \A x \in Workers : ask[x].pc # "idle" => ask[x] \in InFlight /\ ask[x].row \in Rows
  BY <1>0 DEF TypeOK, Idle, InFlight
<1>n. Idle.pc = "idle"
  BY DEF Idle
<1>c. Charged(r) \in SUBSET Workers /\ Cardinality(Charged(r)) \in Nat
  <2>1. Charged(r) \in SUBSET Workers
    BY DEF Charged, At
  <2> QED BY <2>1, CountWorkers
<1>u. Used(r) \in Nat /\ answered[r] \in Nat /\ lost[r] \in Nat
  BY <1>0 DEF Used, TypeOK
\* the ledger of r before the step
<1>l. r \notin strayed /\ Recent(r) => Used(r) = answered[r] + Cardinality(Charged(r)) + lost[r]
  BY <1>0 DEF Ledger
<1>1. CASE Midnight
  <2>1. Recent(r) /\ r \notin strayed
    BY <1>1, <1>t, AnonAssumption DEF Midnight, Recent
  <2> QED BY <1>1, <1>l, <2>1 DEF Midnight, Used, Charged, At
<1>2. ASSUME NEW w \in Workers, Step(w) PROVE Goal
  <2>1. Recent(r) /\ r \notin strayed
    BY <1>2 DEF Step, Arrive, Refuse, Pass, Insert, InsertConflict, Increment, Answer,
                Unanswered, Refund, Abort, Recent
  <2>l. Used(r) = answered[r] + Cardinality(Charged(r)) + lost[r]
    BY <1>l, <2>1
  <2>c. /\ w \notin Charged(r) => Cardinality(Charged(r) \cup {w}) = Cardinality(Charged(r)) + 1
        /\ w \in Charged(r) => /\ Cardinality(Charged(r) \ {w}) = Cardinality(Charged(r)) - 1
                              /\ Cardinality(Charged(r)) >= 1
    BY <1>c, CountStep
  <2>w. w \in Charged(r) <=> ask[w].pc \in {"asking", "refunding"} /\ ask[w].row = r
    BY DEF Charged, At
  \* a request that is charged neither before nor after the step
  <2>q. ASSUME NEW v, ask' = [ask EXCEPT ![w] = v], v.pc \notin {"asking", "refunding"},
               ask[w].pc \notin {"asking", "refunding"},
               table' = table, answered' = answered, lost' = lost
        PROVE  Goal
    <3>0. Charged(r)' = Charged(r) \ {w}
      BY <1>0, <2>q, ChargedMoves
    <3>1. Charged(r)' = Charged(r)
      BY <2>q, <2>w, <3>0
    <3> QED BY <2>q, <2>l, <3>1 DEF Used
  \* a request is charged to its row
  <2>p. ASSUME NEW a \in Rows, a = ask[w].row, ask[w].pc = "checked",
               ask' = [ask EXCEPT ![w] = [ask[w] EXCEPT !.pc = "asking"]],
               Used(r)' = IF r = a THEN Used(r) + 1 ELSE Used(r),
               answered' = answered, lost' = lost
        PROVE  Goal
    <3> DEFINE v == [ask[w] EXCEPT !.pc = "asking"]
    <3>1. v.pc = "asking" /\ v.row = a
      BY <2>p, <1>f DEF InFlight
    <3>2. ask' = [ask EXCEPT ![w] = v]
      BY <2>p
    <3> HIDE DEF v
    <3>3. CASE r = a
      <4>0. v.pc \in {"asking", "refunding"} /\ v.row = r /\ w \notin Charged(r)
        BY <2>p, <3>1, <3>3 DEF Charged, At
      <4>1. Charged(r)' = Charged(r) \cup {w} /\ w \notin Charged(r)
        BY <1>0, <3>2, <4>0, ChargedJoins
      <4>2. Cardinality(Charged(r)') = Cardinality(Charged(r)) + 1
        BY <2>c, <4>1
      <4> QED BY <1>c, <1>u, <2>l, <2>p, <3>3, <4>2
    <3>4. CASE r # a
      <4>0. Charged(r)' = Charged(r) \ {w}
        BY <1>0, <3>1, <3>2, <3>4, ChargedMoves
      <4>1. Charged(r)' = Charged(r)
        BY <2>p, <2>w, <4>0
      <4> QED BY <2>l, <2>p, <3>4, <4>1
    <3> QED BY <3>3, <3>4
  \* a charged request ends: exactly one of the counter, answered and lost pays for it
  <2>e. ASSUME NEW a \in Rows, a = ask[w].row, ask[w].pc \in {"asking", "refunding"},
               ask' = [ask EXCEPT ![w] = Idle],
               r # a => Used(r)' = Used(r) /\ answered'[r] = answered[r] /\ lost'[r] = lost[r],
               r = a => Used(r)' - answered'[r] - lost'[r] = Used(r) - answered[r] - lost[r] - 1,
               Used(r)' \in Int, answered'[r] \in Int, lost'[r] \in Int
        PROVE  Goal
    <3>1. Charged(r)' = Charged(r) \ {w}
      BY <1>0, <1>n, <2>e, ChargedMoves
    <3>2. CASE r = a
      <4>1. Cardinality(Charged(r)') = Cardinality(Charged(r)) - 1
        BY <2>c, <2>e, <2>w, <3>1, <3>2
      <4> QED BY <1>c, <1>u, <2>e, <2>l, <3>2, <4>1
    <3>3. CASE r # a
      <4>1. Charged(r)' = Charged(r)
        BY <2>e, <2>w, <3>1, <3>3
      <4> QED BY <2>e, <2>l, <3>3, <4>1
    <3> QED BY <3>2, <3>3
  <2>2. ASSUME NEW k \in Keys, Arrive(w, k) PROVE Goal
    <3> DEFINE v == [pc |-> "consuming", row |-> <<k, today>>, fresh |-> FALSE]
    <3>1. v.pc = "consuming"
      OBVIOUS
    <3>2. ask' = [ask EXCEPT ![w] = v] /\ ask[w].pc = "idle" /\ table' = table
          /\ answered' = answered /\ lost' = lost
      BY <2>2 DEF Arrive
    <3> HIDE DEF v
    <3> QED BY <2>q, <3>1, <3>2
  <2>3. CASE Refuse(w) \/ InsertConflict(w)
    BY <1>n, <2>3, <2>q DEF Refuse, InsertConflict
  <2>4. CASE Pass(w)
    <3> DEFINE v == [pc |-> "checked", row |-> ask[w].row, fresh |-> table[ask[w].row] = NoRow]
    <3>1. v.pc = "checked"
      OBVIOUS
    <3>2. ask' = [ask EXCEPT ![w] = v] /\ ask[w].pc = "consuming" /\ table' = table
          /\ answered' = answered /\ lost' = lost
      BY <2>4 DEF Pass
    <3> HIDE DEF v
    <3> QED BY <2>q, <3>1, <3>2
  <2>5. CASE Insert(w)
    <3>1. PICK a \in Rows : a = ask[w].row
      BY <2>5, <1>f DEF Insert
    <3>2. /\ table' = Sweep([table EXCEPT ![a] = 1], a[2]) /\ table[a] = NoRow
          /\ ask[w].pc = "checked" /\ answered' = answered /\ lost' = lost
          /\ ask' = [ask EXCEPT ![w] = [ask[w] EXCEPT !.pc = "asking"]]
      BY <2>5, <3>1 DEF Insert
    <3>3. a[2] <= today
      BY <1>0, <3>1, <3>2 DEF Captured
    <3>4. ~(r[2] < a[2] - RetainDays)
      BY <1>t, <2>1, <3>3, AnonAssumption DEF Recent
    <3>5. table'[r] = IF r = a THEN 1 ELSE table[r]
      BY <1>0, <3>2, <3>4 DEF Sweep, TypeOK
    <3>6. Used(r)' = IF r = a THEN Used(r) + 1 ELSE Used(r)
      BY <3>2, <3>5, AnonAssumption DEF Used
    <3> QED BY <2>p, <3>1, <3>2, <3>6
  <2>6. CASE Increment(w)
    <3>1. PICK a \in Rows : a = ask[w].row
      BY <2>6, <1>f DEF Increment
    <3>2. /\ table' = [table EXCEPT ![a] = IF @ = NoRow THEN NoRow ELSE @ + 1]
          /\ ask[w].pc = "checked" /\ ~ask[w].fresh /\ answered' = answered /\ lost' = lost
          /\ ask' = [ask EXCEPT ![w] = [ask[w] EXCEPT !.pc = "asking"]]
      BY <2>6, <3>1 DEF Increment
    <3>3. r = a => table[r] # NoRow
      BY <1>0, <2>1, <3>1, <3>2 DEF SeenRowStays
    <3>4. Used(r)' = IF r = a THEN Used(r) + 1 ELSE Used(r)
      BY <1>0, <3>2, <3>3, AnonAssumption DEF Used, TypeOK
    <3> QED BY <2>p, <3>1, <3>2, <3>4
  <2>7. CASE Answer(w)
    <3>1. PICK a \in Rows : a = ask[w].row
      BY <2>7, <1>f DEF Answer
    <3>2. /\ answered' = [answered EXCEPT ![a] = @ + 1] /\ table' = table /\ lost' = lost
          /\ ask[w].pc = "asking" /\ ask' = [ask EXCEPT ![w] = Idle]
      BY <2>7, <3>1 DEF Answer
    <3>3. answered'[r] = IF r = a THEN answered[r] + 1 ELSE answered[r]
      BY <1>0, <3>2 DEF TypeOK
    <3>4. Used(r)' = Used(r)
      BY <3>2 DEF Used
    <3> QED BY <1>u, <2>e, <3>1, <3>2, <3>3, <3>4
  <2>8. CASE Unanswered(w)
    <3> DEFINE v == [ask[w] EXCEPT !.pc = "refunding"]
    <3>1. ask' = [ask EXCEPT ![w] = v] /\ ask[w].pc = "asking" /\ table' = table
          /\ answered' = answered /\ lost' = lost
      BY <2>8 DEF Unanswered
    <3>2. v.pc = "refunding" /\ v.row = ask[w].row
      BY <3>1, <1>f DEF InFlight
    <3> HIDE DEF v
    <3>a. v.row = r => Charged(r)' = Charged(r) \cup {w}
      <4> SUFFICES ASSUME v.row = r PROVE Charged(r)' = Charged(r) \cup {w}
        OBVIOUS
      <4>1. v.pc \in {"asking", "refunding"} /\ v.row = r
        BY <3>2
      <4> QED BY <1>0, <3>1, <4>1, ChargedJoins
    <3>b. v.row # r => Charged(r)' = Charged(r) \ {w}
      <4> SUFFICES ASSUME v.row # r PROVE Charged(r)' = Charged(r) \ {w}
        OBVIOUS
      <4> QED BY <1>0, <3>1, ChargedMoves
    <3>3. Charged(r)' = Charged(r)
      BY <2>w, <3>1, <3>2, <3>a, <3>b
    <3> QED BY <2>l, <3>1, <3>3 DEF Used
  <2>9. CASE Refund(w)
    <3>1. PICK a \in Rows, b \in Rows : a = ask[w].row /\ b = RefundRow(w)
      BY <1>0, <2>9, <1>f DEF Refund, RefundRow, Rows, TypeOK
    <3>2. /\ table' = IF Refundable(b) THEN [table EXCEPT ![b] = @ - 1] ELSE table
          /\ strayed' = IF Refundable(b) /\ b # a THEN strayed \cup {b} ELSE strayed
          /\ lost' = IF b # a THEN [lost EXCEPT ![a] = @ + 1] ELSE lost
          /\ answered' = answered /\ ask[w].pc = "refunding" /\ ask' = [ask EXCEPT ![w] = Idle]
      BY <2>9, <3>1 DEF Refund
    <3>3. lost'[r] = IF r = a /\ b # a THEN lost[r] + 1 ELSE lost[r]
      BY <1>0, <3>2 DEF TypeOK
    \* a refund of the row's own finds a charge to return
    <3>4. r = a /\ b = a => Refundable(b)
      <4>1. r = a => Cardinality(Charged(r)) >= 1
        BY <2>c, <2>w, <3>1, <3>2
      <4>2. r = a => Used(r) >= 1
        BY <1>c, <1>u, <2>l, <4>1
      <4> QED BY <1>0, <4>2 DEF Used, Refundable, TypeOK
    <3>5. r # b => table'[r] = table[r]
      BY <1>0, <3>2 DEF TypeOK
    <3>6. r = b /\ r # a => table'[r] = table[r]
      BY <3>2
    <3>7. r = b /\ r = a => table'[r] = table[r] - 1 /\ table[r] \in Nat /\ table[r] > 0
      BY <1>0, <3>2, <3>4 DEF TypeOK, Refundable
    <3>8. Used(r)' = IF r = a /\ b = a THEN Used(r) - 1 ELSE Used(r)
      BY <3>5, <3>6, <3>7, AnonAssumption DEF Used
    <3> QED BY <1>u, <2>e, <3>1, <3>2, <3>3, <3>8
  <2>10. CASE Abort(w)
    <3>1. CASE ask[w].pc \notin {"asking", "refunding"}
      BY <1>n, <2>10, <2>q, <3>1 DEF Abort
    <3>2. CASE ask[w].pc \in {"asking", "refunding"}
      <4>1. PICK a \in Rows : a = ask[w].row
        BY <2>10, <1>f DEF Abort
      <4>2. /\ lost' = [lost EXCEPT ![a] = @ + 1] /\ table' = table /\ answered' = answered
            /\ ask' = [ask EXCEPT ![w] = Idle]
        BY <2>10, <3>2, <4>1 DEF Abort
      <4>3. lost'[r] = IF r = a THEN lost[r] + 1 ELSE lost[r]
        BY <1>0, <4>2 DEF TypeOK
      <4>4. Used(r)' = Used(r)
        BY <4>2 DEF Used
      <4> QED BY <1>u, <2>e, <3>2, <4>1, <4>2, <4>3, <4>4
    <3> QED BY <3>1, <3>2
  <2> QED BY <1>2, <2>2, <2>3, <2>4, <2>5, <2>6, <2>7, <2>8, <2>9, <2>10 DEF Step
<1>3. CASE UNCHANGED vars
  BY <1>3, <1>l DEF vars, Used, Charged, At, Recent
<1> QED BY <1>1, <1>2, <1>3 DEF Next

\* The counter of a day no foreign refund touched is its answers, its calls
\* still running and its lost charges, for any number of visitors and workers.
THEOREM LedgerBalances == Spec => []Ledger
<1>1. Init => LedgerInv
  BY LedgerInit
<1>2. LedgerInv /\ [Next]_vars => LedgerInv'
  BY NextType, CapturedStep, LedgerStep DEF LedgerInv
<1>3. LedgerInv => Ledger
  BY DEF LedgerInv
<1> QED BY <1>1, <1>2, <1>3, PTL DEF Spec

------------------------------------------------------------------------------
(*****************************************************************************)
(* ChatPage, for any number of handlers, chats and questions.                *)
(*                                                                           *)
(* A handler goes on after a call with what it held before it, so the        *)
(* invariant says what that is still worth, for each place in a handler      *)
(* against the page and the server: of which chat the answer awaited is, or  *)
(* that another came on screen meanwhile (Awaited); that the thread a sign-in*)
(* closed over is what the page has but for turns under way (Threads); that  *)
(* nothing was said yet of a turn that is not stored or answered (Untold).   *)
(*****************************************************************************)
\* Where a handler answers a question, and where it signs the user in.
Asking    == {"query", "create", "created", "ask", "replied", "listing"}
SigningIn == {"login", "import", "imported", "init"}

\* Whatever names a chat names one that was given.
PageTypes ==
  /\ authed \in BOOLEAN /\ pending \in BOOLEAN
  /\ active \in {None} \cup [id : given, msgs : Seq(Message)]
  /\ anon \in Seq(Message)
  /\ task \in [Tasks -> {Resting} \cup Task]
  /\ live \subseteq given /\ given \subseteq Chats /\ saved \in [Chats -> Seq(Message)]
  /\ turns \in 0 .. MaxTurns
  /\ shown \subseteq Message /\ kept \subseteq Message
  /\ overlap \subseteq Turns /\ moved \subseteq Turns
  /\ doubled \in BOOLEAN /\ again \in BOOLEAN

IdsGiven == \A h \in Tasks :
  /\ task[h].pc \in {"created", "ask", "replied", "open", "opened", "remove", "removed"} =>
       task[h].id \in given
  /\ HandlerAt(h, "imported") => task[h].id \in given \cup {None}

\* One question at a time, and the composer is off meanwhile.
OneTurn  == ~doubled => \A g, h \in In(Asking) : g = h
Composer == ~doubled => (pending <=> In({"query", "ask", "replied", "listing"}) # {})

\* What comes on screen is saved in the chat on screen, or the turn is in moved.
AwaitedBy(h) ==
  /\ task[h].pc \in {"ask", "replied"} => task[h].turn \in moved \/ Id(active) = task[h].id
  /\ HandlerAt(h, "replied") /\ task[h].role = "answer" /\ task[h].id \in live =>
       Msg("answer", task[h].turn) \in Range(saved[task[h].id])
  /\ HandlerAt(h, "opened") /\ task[h].id \in live =>
       Range(task[h].msgs) \subseteq Range(saved[task[h].id])
Awaited == \A h \in Tasks : AwaitedBy(h)

\* One sign-in at a time; what its thread leaves out of the page's is under way.
OneSignIn == \A g, h \in In(SigningIn) : g = h
Signing  == In({"login", "import", "imported"}) # {}
Noticed  == Signing => \A h \in In({"query"}) : task[h].turn \in overlap
ThreadBy(h) ==
  /\ task[h].pc \in {"login", "import"} =>
       /\ Range(task[h].thread) \subseteq Range(anon)
       /\ \A m \in Range(anon) : m \in Range(task[h].thread) \/ m.turn \in overlap
  /\ HandlerAt(h, "imported") /\ task[h].id # None =>
       \A m \in Range(anon) : m \in kept \/ m.turn \in overlap
Threads == \A h \in Tasks : ThreadBy(h)

\* Messages are of turns that were asked, and anonymous ones of no chat's turn.
Distinct(s) == \A i, j \in DOMAIN s : s[i] = s[j] => i = j
SavedMsgs   == UNION {Range(saved[c]) : c \in Chats}
Anonymous ==
  /\ Distinct(anon) /\ Range(anon) \subseteq shown /\ kept \subseteq shown
  /\ \A h \in In({"login", "import"}) : Distinct(task[h].thread)
  /\ \A m \in shown \cup SavedMsgs : m.turn <= turns
  /\ SavedMsgs \cap shown \subseteq kept

\* What a turn has still to say was not said before.
Untold ==
  /\ \A h \in In(Asking) : task[h].turn <= turns
  /\ \A h \in In({"query"}) :
       /\ Msg("answer", task[h].turn) \notin shown
       /\ \A m \in SavedMsgs : m.turn = task[h].turn => m \in shown
  /\ \A h \in In({"create", "created", "ask"}) : \A m \in shown \cup SavedMsgs : m.turn # task[h].turn
  /\ \A g, h \in In({"query", "create", "created", "ask"}) : task[g].turn = task[h].turn => g = h

\* Nothing is saved twice, and what the page still has was not imported.
NoTwice(f) == \A c, d \in Chats : \A i \in DOMAIN f[c], j \in DOMAIN f[d] :
                f[c][i] = f[d][j] => c = d /\ i = j
Once ==
  ~again =>
    /\ NoTwice(saved)
    /\ (\E h \in In({"imported"}) : task[h].id # None) \/ Range(anon) \cap kept = {}

PageInv ==
  /\ PageTypes /\ IdsGiven /\ OneTurn /\ Composer
  /\ Awaited /\ ShownIsSaved
  /\ OneSignIn /\ Noticed /\ Threads /\ NothingLost
  /\ Anonymous /\ Untold /\ Once

------------------------------------------------------------------------------
(* Handlers: what a task holds, and what a step leaves to the others. *)

TaskState == {Resting} \cup Task

LEMMA TaskFields ==
  ASSUME NEW t \in TaskState
  PROVE  /\ t.pc \in Asking => t.turn \in Turns
         /\ t.pc \in {"created", "ask", "replied", "open", "opened", "remove", "removed"} => t.id \in Chats
         /\ t.pc = "replied" => t.role \in {"answer", "error"}
         /\ t.pc = "opened" => t.msgs \in Seq(Message)
         /\ t.pc \in {"login", "import"} => t.thread \in Seq(Message)
         /\ t.pc = "imported" => t.id \in Chats \cup {None}
         /\ t.pc = "remove" => t \in [pc : {"remove", "removed"}, id : Chats, close : BOOLEAN]
<1> DEFINE M == Seq(Message)
           C == Chats \cup {None}
<1> HIDE DEF M, C
<1>1. \/ t.pc = "idle"
      \/ t \in [pc : {"query", "create", "listing"}, turn : Turns]
      \/ t \in [pc : {"created", "ask"}, turn : Turns, id : Chats]
      \/ t \in [pc : {"replied"}, turn : Turns, id : Chats, role : {"answer", "error"}]
      \/ t \in [pc : {"open"}, id : Chats]
      \/ t \in [pc : {"opened"}, id : Chats, msgs : M]
      \/ t \in [pc : {"remove", "removed"}, id : Chats, close : BOOLEAN]
      \/ t \in [pc : {"login", "import"}, thread : M]
      \/ t \in [pc : {"imported"}, id : C] \/ t \in [pc : {"init"}]
  BY DEF TaskState, Resting, Task, M, C
<1> SUFFICES /\ t.pc \in Asking => t.turn \in Turns
             /\ t.pc \in {"created", "ask", "replied", "open", "opened", "remove", "removed"} =>
                  t.id \in Chats
             /\ t.pc = "replied" => t.role \in {"answer", "error"}
             /\ t.pc = "opened" => t.msgs \in M
             /\ t.pc \in {"login", "import"} => t.thread \in M
             /\ t.pc = "imported" => t.id \in C
             /\ t.pc = "remove" => t \in [pc : {"remove", "removed"}, id : Chats, close : BOOLEAN]
  BY DEF M, C
<1>2. CASE t.pc = "idle"
  BY <1>2 DEF Asking
<1>3. CASE t \in [pc : {"query", "create", "listing"}, turn : Turns]
  BY <1>3 DEF Asking
<1>4. CASE t \in [pc : {"created", "ask"}, turn : Turns, id : Chats]
  BY <1>4 DEF Asking
<1>5. CASE t \in [pc : {"replied"}, turn : Turns, id : Chats, role : {"answer", "error"}]
  BY <1>5 DEF Asking
<1>6. CASE t \in [pc : {"open"}, id : Chats]
  BY <1>6 DEF Asking
<1>7. CASE t \in [pc : {"opened"}, id : Chats, msgs : M]
  BY <1>7 DEF Asking
<1>8. CASE t \in [pc : {"remove", "removed"}, id : Chats, close : BOOLEAN]
  BY <1>8 DEF Asking
<1>9. CASE t \in [pc : {"login", "import"}, thread : M]
  BY <1>9 DEF Asking
<1>10. CASE t \in [pc : {"imported"}, id : C] \/ t \in [pc : {"init"}]
  BY <1>10 DEF Asking
<1> QED BY <1>1, <1>2, <1>3, <1>4, <1>5, <1>6, <1>7, <1>8, <1>9, <1>10

\* The states that the steps lead to.
LEMMA TaskStates ==
  ASSUME NEW t \in Turns, NEW c \in Chats, NEW s \in Seq(Message), NEW b \in BOOLEAN
  PROVE  /\ Resting \in TaskState /\ [pc |-> "init"] \in TaskState
         /\ [pc |-> "query", turn |-> t] \in TaskState /\ [pc |-> "create", turn |-> t] \in TaskState
         /\ [pc |-> "listing", turn |-> t] \in TaskState
         /\ [pc |-> "created", turn |-> t, id |-> c] \in TaskState
         /\ [pc |-> "ask", turn |-> t, id |-> c] \in TaskState
         /\ [pc |-> "replied", turn |-> t, id |-> c, role |-> "answer"] \in TaskState
         /\ [pc |-> "replied", turn |-> t, id |-> c, role |-> "error"] \in TaskState
         /\ [pc |-> "open", id |-> c] \in TaskState
         /\ [pc |-> "opened", id |-> c, msgs |-> s] \in TaskState
         /\ [pc |-> "remove", id |-> c, close |-> b] \in TaskState
         /\ [pc |-> "removed", id |-> c, close |-> b] \in TaskState
         /\ [pc |-> "login", thread |-> s] \in TaskState /\ [pc |-> "import", thread |-> s] \in TaskState
         /\ [pc |-> "imported", id |-> c] \in TaskState /\ [pc |-> "imported", id |-> None] \in TaskState
BY DEF TaskState, Task

LEMMA Becomes ==
  ASSUME PageTypes, NEW h \in Tasks, NEW r, Become(h, r)
  PROVE  task'[h] = r /\ \A g \in Tasks : g # h => task'[g] = task[g]
BY DEF PageTypes, Become

\* A step of h to r, of which the ids have been given.
LEMMA Typed ==
  ASSUME PageTypes, IdsGiven, NEW h \in Tasks, NEW r \in TaskState, Become(h, r), given \subseteq given',
         r.pc \in {"created", "ask", "replied", "open", "opened", "remove", "removed"} => r.id \in given',
         r.pc = "imported" => r.id \in given' \cup {None}
  PROVE  task' \in [Tasks -> {Resting} \cup Task] /\ IdsGiven'
<1>1. task' \in [Tasks -> {Resting} \cup Task]
  BY DEF PageTypes, Become, TaskState
<1>2. task'[h] = r /\ \A g \in Tasks : g # h => task'[g] = task[g]
  BY Becomes
<1>3. IdsGiven'
  BY <1>2 DEF IdsGiven, HandlerAt
<1> QED BY <1>1, <1>3

\* An id that was not given is given only once.
LEMMA Fresh ==
  ASSUME PageTypes, given # Chats
  PROVE  FreshId \in Chats /\ FreshId \notin given
BY DEF PageTypes, FreshId

\* A chat on screen is not None, and its id is the chat's.
LEMMA ChatShown ==
  ASSUME NEW c \in Chats, NEW s \in Seq(Message)
  PROVE  /\ [id |-> c, msgs |-> s] # None /\ Id([id |-> c, msgs |-> s]) = c
         /\ [id |-> c, msgs |-> s] \in [id : {c}, msgs : Seq(Message)]
<1> HIDE DEF Message
<1>1. [id |-> c, msgs |-> s] \in [id : Chats, msgs : Seq(Message)]
  OBVIOUS
<1>2. [id |-> c, msgs |-> s] # None
  BY <1>1, ChatPageAssumption
<1> QED BY <1>2 DEF Id

LEMMA MessageAdded ==
  ASSUME PageTypes, NEW m \in Message, Add(m)
  PROVE  /\ active = None <=> active' = None
         /\ active # None => /\ active.id \in given /\ active.msgs \in Seq(Message)
                             /\ active' = [id |-> active.id, msgs |-> Append(active.msgs, m)]
         /\ Id(active') = Id(active) /\ active' \in {None} \cup [id : given, msgs : Seq(Message)]
<1> HIDE DEF Message
<1>1. CASE active = None
  BY <1>1 DEF Add
<1>2. CASE active # None
  <2>1. active \in [id : given, msgs : Seq(Message)] /\ given \subseteq Chats
    BY <1>2 DEF PageTypes
  <2>2. active' = [id |-> active.id, msgs |-> Append(active.msgs, m)]
    BY <1>2, <2>1 DEF Add
  <2>3. active.id \in Chats /\ active.id \in given
    BY <2>1
  <2>4. active.msgs \in Seq(Message) /\ Append(active.msgs, m) \in Seq(Message)
    BY <2>1
  <2>5. active' # None /\ Id(active') = active.id
    BY <2>2, <2>3, <2>4, ChatShown
  <2> QED BY <1>2, <2>2, <2>3, <2>4, <2>5 DEF Id
<1> QED BY <1>1, <1>2

------------------------------------------------------------------------------
(* What each part of the state is changed by. *)

LEMMA Frames ==
  ASSUME PageNext
  PROVE  /\ \/ UNCHANGED Server
            \/ \E h \in Tasks : StoreTurn(h) \/ DeleteChat(h) \/ Import(h) \/ Create(h)
         /\ UNCHANGED <<anon, shown>> \/ \E h \in Tasks : AskAnon(h) \/ QueryDone(h) \/ Imported(h)
         /\ UNCHANGED <<kept, again>> \/ \E h \in Tasks : Import(h)
         /\ UNCHANGED <<turns, doubled>> \/ \E h \in Tasks : AskAnon(h) \/ AskFirst(h) \/ AskIn(h)
         /\ UNCHANGED overlap \/ \E h \in Tasks : AskAnon(h) \/ Login(h)
         /\ \/ UNCHANGED <<active, moved>> \/ NewChat \/ Logout
            \/ \E h \in Tasks : \/ Created(h) \/ AskIn(h) \/ Answered(h)
                               \/ Opened(h) \/ Removed(h) \/ Imported(h)
<1>1. CASE NewChat \/ Logout
  BY <1>1 DEF NewChat, Logout, Server
<1>2. ASSUME NEW h \in Tasks, Click(h)
      PROVE  /\ UNCHANGED Server /\ UNCHANGED <<kept, again>>
             /\ UNCHANGED <<anon, shown>> \/ AskAnon(h)
             /\ UNCHANGED <<turns, doubled>> \/ AskAnon(h) \/ AskFirst(h) \/ AskIn(h)
             /\ UNCHANGED overlap \/ AskAnon(h) \/ Login(h)
             /\ UNCHANGED <<active, moved>> \/ AskIn(h)
  BY <1>2 DEF Click, AskAnon, AskFirst, AskIn, Login, OpenChat, RemoveChat, Page, Server, History
<1>3. ASSUME NEW h \in Tasks, Continue(h)
      PROVE  /\ UNCHANGED <<turns, doubled, overlap>>
             /\ UNCHANGED Server \/ StoreTurn(h) \/ DeleteChat(h) \/ Import(h) \/ Create(h)
             /\ UNCHANGED <<anon, shown>> \/ QueryDone(h) \/ Imported(h)
             /\ UNCHANGED <<kept, again>> \/ Import(h)
             /\ \/ UNCHANGED <<active, moved>>
                \/ Created(h) \/ Answered(h) \/ Opened(h) \/ Removed(h) \/ Imported(h)
  <2>1. CASE QueryDone(h) \/ Create(h) \/ CreateFails(h) \/ Created(h) \/ StoreTurn(h) \/ StoreFails(h)
    BY <2>1 DEF QueryDone, Create, CreateFails, Created, StoreTurn, StoreFails, Page, Server, History
  <2>2. CASE Answered(h) \/ Failed(h) \/ Listed(h) \/ GetChat(h) \/ Opened(h)
    BY <2>2 DEF Answered, Failed, Listed, GetChat, Opened, Page, Server, History
  <2>3. CASE DeleteChat(h) \/ Removed(h) \/ LoginFails(h) \/ LoggedIn(h)
    BY <2>3 DEF DeleteChat, Removed, LoginFails, LoggedIn, Page, Server, History
  <2>4. CASE Import(h) \/ ImportFails(h) \/ Imported(h) \/ InitDone(h)
    BY <2>4 DEF Import, ImportFails, Imported, InitDone, Page, Server, History
  <2> QED BY <1>3, <2>1, <2>2, <2>3, <2>4 DEF Continue
<1>4. CASE \E h \in Tasks : Click(h) \/ Continue(h)
  <2>1. PICK h \in Tasks : Click(h) \/ Continue(h)
    BY <1>4
  <2>2. CASE Click(h)
    BY <1>2, <2>2
  <2>3. CASE Continue(h)
    BY <1>3, <2>3
  <2> QED BY <2>1, <2>2, <2>3
<1> QED BY <1>1, <1>4 DEF PageNext

\* The histories and the ids given only grow.
LEMMA Grows ==
  ASSUME PageNext
  PROVE  /\ given \subseteq given' /\ shown \subseteq shown' /\ kept \subseteq kept'
         /\ overlap \subseteq overlap' /\ moved \subseteq moved'
         /\ (again => again') /\ (doubled => doubled')
<1>1. given \subseteq given'
  BY Frames DEF Server, StoreTurn, DeleteChat, Import, Create
<1>2. shown \subseteq shown'
  BY Frames DEF AskAnon, QueryDone, Imported, AddAnon
<1>3. kept \subseteq kept'
  BY Frames DEF Import
<1>4. overlap \subseteq overlap'
  BY Frames DEF AskAnon, Login
<1>5. moved \subseteq moved'
  BY Frames DEF NewChat, Logout, Created, AskIn, Answered, Opened, Removed, Imported, Show, History
<1>6. again => again'
  BY Frames DEF Import
<1>7. doubled => doubled'
  BY Frames DEF AskAnon, AskFirst, AskIn, NextTurn
<1> QED BY <1>1, <1>2, <1>3, <1>4, <1>5, <1>6, <1>7

------------------------------------------------------------------------------
(* Types *)

LEMMA ScalarsTyped ==
  ASSUME PageTypes, PageNext
  PROVE  /\ authed' \in BOOLEAN /\ pending' \in BOOLEAN
         /\ turns' \in 0 .. MaxTurns /\ turns' >= turns
         /\ doubled' \in BOOLEAN /\ again' \in BOOLEAN
<1>1. turns' \in 0 .. MaxTurns /\ turns' >= turns /\ doubled' \in BOOLEAN
  <2>1. CASE UNCHANGED <<turns, doubled>>
    BY <2>1, ChatPageAssumption DEF PageTypes
  <2>2. CASE NextTurn
    BY <2>2, ChatPageAssumption DEF PageTypes, NextTurn
  <2> QED BY <2>1, <2>2, Frames DEF AskAnon, AskFirst, AskIn
<1>2. again' \in BOOLEAN
  BY Frames DEF PageTypes, Import
<1>3. authed' \in BOOLEAN /\ pending' \in BOOLEAN
  <2>1. CASE NewChat \/ Logout
    BY <2>1 DEF NewChat, Logout, PageTypes
  <2>2. ASSUME NEW h \in Tasks, Click(h)
        PROVE  authed' \in BOOLEAN /\ pending' \in BOOLEAN
    BY <2>2 DEF PageTypes, Click, AskAnon, AskFirst, AskIn, Login, OpenChat, RemoveChat, Page
  <2>3. ASSUME NEW h \in Tasks, Continue(h)
        PROVE  authed' \in BOOLEAN /\ pending' \in BOOLEAN
    <3>1. CASE QueryDone(h) \/ Create(h) \/ CreateFails(h) \/ Created(h) \/ StoreTurn(h) \/ StoreFails(h)
      BY <3>1 DEF PageTypes, QueryDone, Create, CreateFails, Created, StoreTurn, StoreFails, Page
    <3>2. CASE Answered(h) \/ Failed(h) \/ Listed(h) \/ GetChat(h) \/ Opened(h)
      BY <3>2 DEF PageTypes, Answered, Failed, Listed, GetChat, Opened, Page
    <3>3. CASE DeleteChat(h) \/ Removed(h) \/ LoginFails(h) \/ LoggedIn(h)
      BY <3>3 DEF PageTypes, DeleteChat, Removed, LoginFails, LoggedIn, Page
    <3>4. CASE Import(h) \/ ImportFails(h) \/ Imported(h) \/ InitDone(h)
      BY <3>4 DEF PageTypes, Import, ImportFails, Imported, InitDone, Page
    <3> QED BY <2>3, <3>1, <3>2, <3>3, <3>4 DEF Continue
  <2> QED BY <2>1, <2>2, <2>3 DEF PageNext
<1> QED BY <1>1, <1>2, <1>3

\* A question is one of the turns.
LEMMA TurnOf ==
  ASSUME PageTypes, NEW h \in Tasks
  PROVE  /\ HandlerAt(h, "query") \/ HandlerAt(h, "create") \/ HandlerAt(h, "created") \/ HandlerAt(h, "ask")
              \/ HandlerAt(h, "replied") \/ HandlerAt(h, "listing") => task[h].turn \in Turns
         /\ NextTurn => turns + 1 \in Turns /\ turns' = turns + 1
<1>1. task[h] \in TaskState
  BY DEF PageTypes, TaskState
<1>2. NextTurn => turns + 1 \in Turns /\ turns' = turns + 1
  BY ChatPageAssumption DEF PageTypes, NextTurn, Turns
<1> QED BY <1>1, <1>2, TaskFields DEF HandlerAt, Asking

LEMMA ThreadsTyped ==
  ASSUME PageTypes, PageNext
  PROVE  anon' \in Seq(Message) /\ shown' \subseteq Message
<1>1. ASSUME NEW r \in {"question", "answer"}, NEW t \in Turns, AddAnon(Msg(r, t))
      PROVE  anon' \in Seq(Message) /\ shown' \subseteq Message
  <2>1. Msg(r, t) \in Message
    BY DEF Msg, Message
  <2> QED BY <1>1, <2>1 DEF AddAnon, PageTypes
<1>2. ASSUME NEW h \in Tasks, AskAnon(h) \/ QueryDone(h) \/ Imported(h)
      PROVE  anon' \in Seq(Message) /\ shown' \subseteq Message
  <2>1. CASE AskAnon(h)
    BY <1>1, <2>1, TurnOf DEF AskAnon
  <2>2. CASE QueryDone(h)
    <3>1. CASE UNCHANGED <<anon, shown>>
      BY <3>1 DEF PageTypes
    <3>2. CASE AddAnon(Msg("answer", task[h].turn))
      BY <1>1, <2>2, <3>2, TurnOf DEF QueryDone
    <3> QED BY <2>2, <3>1, <3>2 DEF QueryDone
  <2>3. CASE Imported(h)
    BY <2>3 DEF Imported, Cleared, PageTypes
  <2> QED BY <1>2, <2>1, <2>2, <2>3
<1> QED BY <1>2, Frames DEF PageTypes

LEMMA KeptTyped ==
  ASSUME PageTypes, PageNext
  PROVE  kept' \subseteq Message /\ overlap' \subseteq Turns /\ moved' \subseteq Turns
<1>1. kept' \subseteq Message
  <2>1. ASSUME NEW h \in Tasks, Import(h)
        PROVE  kept' \subseteq Message
    <3>1. task[h].thread \in Seq(Message)
      BY <2>1, TaskFields DEF PageTypes, TaskState, Import, HandlerAt
    <3> DEFINE thread == task[h].thread
    <3>2. PICK n \in 0 .. Len(thread) : kept' = kept \cup {thread[i] : i \in 1 .. n}
      BY <2>1 DEF Import
    <3>3. \A i \in 1 .. n : thread[i] \in Message
      BY <3>1, <3>2
    <3> HIDE DEF thread
    <3> QED BY <3>2, <3>3 DEF PageTypes
  <2> QED BY <2>1, Frames DEF PageTypes
<1>2. overlap' \subseteq Turns
  <2>1. ASSUME NEW h \in Tasks, AskAnon(h)
        PROVE  overlap' \subseteq Turns
    BY <2>1, TurnOf DEF AskAnon, PageTypes
  <2>2. ASSUME NEW h \in Tasks, Login(h)
        PROVE  overlap' \subseteq Turns
    BY <2>2, TurnOf DEF Login, PageTypes, In, HandlerAt
  <2> QED BY <2>1, <2>2, Frames DEF PageTypes
<1>3. moved' \subseteq Turns
  <2>1. ASSUME NEW chat, Show(chat)
        PROVE  moved' \subseteq Turns
    BY <2>1, TurnOf DEF Show, PageTypes, In, HandlerAt
  <2> QED BY <2>1, Frames DEF PageTypes, NewChat, Logout, Created, AskIn, Answered, Opened, Removed, Imported,
               History
<1> QED BY <1>1, <1>2, <1>3

LEMMA ServerTyped ==
  ASSUME PageTypes, PageNext
  PROVE  live' \subseteq given' /\ given' \subseteq Chats /\ saved' \in [Chats -> Seq(Message)]
<1>1. ASSUME NEW h \in Tasks, StoreTurn(h)
      PROVE  saved' \in [Chats -> Seq(Message)] /\ UNCHANGED <<live, given>>
  <2>1. task[h].turn \in Turns /\ task[h].id \in Chats
    BY <1>1, TaskFields DEF PageTypes, TaskState, StoreTurn, HandlerAt, Asking
  <2> DEFINE q == Msg("question", task[h].turn)
             a == Msg("answer", task[h].turn)
             c == task[h].id
  <2>2. q \in Message /\ a \in Message
    BY <2>1 DEF Msg, Message
  <2>3. PICK s \in {<<>>, <<a>>} : saved' = [saved EXCEPT ![c] = Append(saved[c], q) \o s]
    BY <1>1 DEF StoreTurn
  <2> HIDE DEF q, a, c
  <2>6. <<>> \in Seq(Message) /\ <<a>> \in Seq(Message)
    BY <2>2
  <2>4. s \in Seq(Message)
    BY <2>3, <2>6
  <2>5. Append(saved[c], q) \o s \in Seq(Message)
    BY <2>1, <2>2, <2>4 DEF PageTypes, c
  <2> QED BY <1>1, <2>3, <2>5 DEF PageTypes, StoreTurn
<1>2. ASSUME NEW h \in Tasks, DeleteChat(h)
      PROVE  saved' \in [Chats -> Seq(Message)] /\ live' \subseteq live /\ given' = given
  <2>1. <<>> \in Seq(Message)
    OBVIOUS
  <2> HIDE DEF Message
  <2> QED BY <1>2, <2>1 DEF DeleteChat, PageTypes, Server
<1>3. ASSUME NEW h \in Tasks, Create(h)
      PROVE  saved' = saved /\ live' \subseteq given' /\ given' \subseteq Chats
  BY <1>3, Fresh DEF Create, PageTypes
<1>4. ASSUME NEW h \in Tasks, Import(h)
      PROVE  saved' \in [Chats -> Seq(Message)] /\ live' \subseteq given' /\ given' \subseteq Chats
  <2> DEFINE thread == task[h].thread
  <2>1. thread \in Seq(Message)
    BY <1>4, TaskFields DEF PageTypes, TaskState, Import, HandlerAt
  <2>2. PICK n \in 0 .. Len(thread) : saved' = [saved EXCEPT ![FreshId] = SubSeq(thread, 1, n)]
    BY <1>4 DEF Import
  <2>3. SubSeq(thread, 1, n) \in Seq(Message)
    BY <2>1
  <2>4. live' \subseteq given' /\ given' \subseteq Chats
    BY <1>4, Fresh DEF Import, PageTypes
  <2> HIDE DEF thread
  <2> QED BY <2>2, <2>3, <2>4 DEF PageTypes
<1> QED BY <1>1, <1>2, <1>3, <1>4, Frames DEF PageTypes, Server

LEMMA ActiveTyped ==
  ASSUME PageTypes, IdsGiven, PageNext
  PROVE  active' \in {None} \cup [id : given', msgs : Seq(Message)]
<1> DEFINE Screen == {None} \cup [id : given, msgs : Seq(Message)]
<1> HIDE DEF Message
<1>1. ASSUME NEW c \in given, NEW s \in Seq(Message)
      PROVE  [id |-> c, msgs |-> s] \in Screen
  OBVIOUS
<1>2. active \in Screen /\ None \in Screen
  BY DEF PageTypes
<1>3. ASSUME NEW h \in Tasks
      PROVE  /\ HandlerAt(h, "created") =>
                  task[h].id \in given /\ <<Msg("question", task[h].turn)>> \in Seq(Message)
             /\ HandlerAt(h, "replied") => Msg("answer", task[h].turn) \in Message
             /\ HandlerAt(h, "opened") => task[h].id \in given /\ task[h].msgs \in Seq(Message)
             /\ HandlerAt(h, "imported") => task[h].id \in given \cup {None}
             /\ NextTurn => Msg("question", turns + 1) \in Message
  <2>1. /\ HandlerAt(h, "created") \/ HandlerAt(h, "replied") => task[h].turn \in Turns
        /\ HandlerAt(h, "opened") => task[h].msgs \in Seq(Message)
    BY TaskFields DEF PageTypes, TaskState, HandlerAt, Asking
  <2>2. \A t \in Turns : Msg("question", t) \in Message /\ Msg("answer", t) \in Message
    BY DEF Msg, Message
  <2>3. \A t \in Turns : <<Msg("question", t)>> \in Seq(Message)
    BY <2>2
  <2> QED BY <2>1, <2>2, <2>3, TurnOf DEF IdsGiven, HandlerAt
<1>4. ASSUME NEW h \in Tasks, Created(h) \/ Opened(h) \/ Removed(h) \/ Imported(h)
      PROVE  active' \in Screen
  <2>1. CASE Created(h)
    BY <1>1, <1>3, <2>1 DEF Created, Show
  <2>2. CASE Opened(h)
    BY <1>1, <1>3, <2>2 DEF Opened, Show
  <2>3. CASE Removed(h)
    BY <1>2, <2>3 DEF Removed, Show
  <2>4. CASE Imported(h)
    <3>1. task[h].id # None => task[h].id \in given /\ saved[task[h].id] \in Seq(Message)
      BY <1>3, <2>4 DEF Imported, PageTypes
    <3> QED BY <1>1, <1>2, <2>4, <3>1 DEF Imported, Show
  <2> QED BY <1>4, <2>1, <2>2, <2>3, <2>4
<1>5. ASSUME NEW h \in Tasks, AskIn(h) \/ Answered(h)
      PROVE  active' \in Screen
  BY <1>3, <1>5, MessageAdded DEF AskIn, Answered
<1>6. NewChat \/ Logout => active' \in Screen
  BY <1>2 DEF NewChat, Logout, Show
<1>7. active' \in Screen
  <2> HIDE DEF Screen
  <2>1. CASE UNCHANGED <<active, moved>>
    BY <1>2, <2>1
  <2>2. \/ UNCHANGED <<active, moved>> \/ NewChat \/ Logout
        \/ \E h \in Tasks : \/ Created(h) \/ AskIn(h) \/ Answered(h)
                           \/ Opened(h) \/ Removed(h) \/ Imported(h)
    BY Frames
  <2> QED BY <1>4, <1>5, <1>6, <2>1, <2>2
<1> QED BY <1>7, Grows

LEMMA TasksTyped ==
  ASSUME PageTypes, IdsGiven, PageNext
  PROVE  task' \in [Tasks -> {Resting} \cup Task] /\ IdsGiven'
<1> DEFINE Goal == task' \in [Tasks -> {Resting} \cup Task] /\ IdsGiven'
           Named == {"created", "ask", "replied", "open", "opened", "remove", "removed"}
<1>1. CASE NewChat \/ Logout
  BY <1>1 DEF NewChat, Logout, PageTypes, IdsGiven, HandlerAt, Server
<1>2. ASSUME NEW h \in Tasks, NEW r \in TaskState, Become(h, r),
             r.pc \in Named => r.id \in given', r.pc = "imported" => r.id \in given' \cup {None}
      PROVE  Goal
  BY <1>2, Typed, Grows
<1> HIDE DEF Goal
<1>3. ASSUME NEW h \in Tasks
      PROVE  /\ task[h] \in TaskState /\ TRUE \in BOOLEAN /\ given \subseteq given' /\ given' \subseteq Chats
             /\ task[h].pc \in Asking => task[h].turn \in Turns
             /\ task[h].pc \in Named => task[h].id \in given /\ task[h].id \in given' /\ task[h].id \in Chats
             /\ NextTurn => turns + 1 \in Turns
             /\ anon \in Seq(Message) /\ <<>> \in Seq(Message)
             /\ task[h].pc \in {"login", "import"} => task[h].thread \in Seq(Message)
  <2>1. task[h] \in TaskState /\ given \subseteq given' /\ given' \subseteq Chats
    BY Grows, ServerTyped DEF PageTypes, TaskState
  <2>2. task[h].pc \in Named => task[h].id \in given
    BY DEF IdsGiven
  <2>3. anon \in Seq(Message) /\ <<>> \in Seq(Message)
    BY DEF PageTypes
  <2> QED BY <2>1, <2>2, <2>3, TaskFields, TurnOf
<1>4. ASSUME NEW h \in Tasks
      PROVE  Resting \in TaskState /\ Resting.pc = "idle" /\ [pc |-> "init"] \in TaskState
  BY DEF TaskState, Resting, Task
<1>5. ASSUME NEW h \in Tasks, NEW t \in Turns
      PROVE  /\ Become(h, [pc |-> "query", turn |-> t]) => Goal
             /\ Become(h, [pc |-> "create", turn |-> t]) => Goal
             /\ Become(h, [pc |-> "listing", turn |-> t]) => Goal
  <2>1. /\ [pc |-> "query", turn |-> t] \in TaskState /\ [pc |-> "create", turn |-> t] \in TaskState
        /\ [pc |-> "listing", turn |-> t] \in TaskState
    BY DEF TaskState, Task
  <2> QED BY <1>2, <2>1
<1>6. ASSUME NEW h \in Tasks, NEW t \in Turns, NEW c \in given', c \in Chats
      PROVE  /\ Become(h, [pc |-> "created", turn |-> t, id |-> c]) => Goal
             /\ Become(h, [pc |-> "ask", turn |-> t, id |-> c]) => Goal
             /\ \A r \in {"answer", "error"} :
                  Become(h, [pc |-> "replied", turn |-> t, id |-> c, role |-> r]) => Goal
  <2>1. /\ [pc |-> "created", turn |-> t, id |-> c] \in TaskState
        /\ [pc |-> "ask", turn |-> t, id |-> c] \in TaskState
        /\ \A r \in {"answer", "error"} : [pc |-> "replied", turn |-> t, id |-> c, role |-> r] \in TaskState
    BY <1>6 DEF TaskState, Task
  <2> QED BY <1>2, <2>1
<1>7. ASSUME NEW h \in Tasks, NEW c \in given', c \in Chats, NEW s \in Seq(Message), NEW b \in BOOLEAN
      PROVE  /\ Become(h, [pc |-> "open", id |-> c]) => Goal
             /\ Become(h, [pc |-> "opened", id |-> c, msgs |-> s]) => Goal
             /\ Become(h, [pc |-> "remove", id |-> c, close |-> b]) => Goal
             /\ Become(h, [pc |-> "removed", id |-> c, close |-> b]) => Goal
             /\ Become(h, [pc |-> "imported", id |-> c]) => Goal
  <2>1. /\ [pc |-> "open", id |-> c] \in TaskState /\ [pc |-> "opened", id |-> c, msgs |-> s] \in TaskState
        /\ [pc |-> "remove", id |-> c, close |-> b] \in TaskState
        /\ [pc |-> "removed", id |-> c, close |-> b] \in TaskState
        /\ [pc |-> "imported", id |-> c] \in TaskState
    BY <1>7 DEF TaskState, Task
  <2> QED BY <1>2, <2>1
<1>8. ASSUME NEW h \in Tasks, NEW s \in Seq(Message)
      PROVE  /\ Become(h, [pc |-> "login", thread |-> s]) => Goal
             /\ Become(h, [pc |-> "import", thread |-> s]) => Goal
             /\ Become(h, [pc |-> "imported", id |-> None]) => Goal
  <2>1. /\ [pc |-> "login", thread |-> s] \in TaskState /\ [pc |-> "import", thread |-> s] \in TaskState
        /\ [pc |-> "imported", id |-> None] \in TaskState
    BY DEF TaskState, Task
  <2> QED BY <1>2, <2>1
<1> HIDE DEF Named
<1>9. ASSUME NEW h \in Tasks, Click(h)
      PROVE  Goal
  <2>1. CASE AskAnon(h)
    BY <1>3, <1>5, <2>1 DEF AskAnon
  <2>2. CASE AskFirst(h)
    BY <1>3, <1>5, <2>2 DEF AskFirst
  <2>3. CASE AskIn(h)
    <3>1. active.id \in given' /\ active.id \in Chats
      BY <1>3, <2>3 DEF AskIn, PageTypes
    <3> QED BY <1>3, <1>6, <2>3, <3>1 DEF AskIn
  <2>4. CASE Login(h)
    BY <1>3, <1>8, <2>4 DEF Login
  <2>5. ASSUME NEW c \in Chats, OpenChat(h, c)
        PROVE  Goal
    BY <1>3, <1>7, <2>5 DEF OpenChat
  <2>6. ASSUME NEW c \in Chats, RemoveChat(h, c)
        PROVE  Goal
    <3>1. c \in given' /\ (Id(active) = c) \in BOOLEAN
      BY <1>3, <2>6 DEF RemoveChat, PageTypes
    <3>2. Become(h, [pc |-> "remove", id |-> c, close |-> Id(active) = c])
      BY <2>6 DEF RemoveChat
    <3> QED BY <1>3, <1>7, <3>1, <3>2
  <2> QED BY <1>9, <2>1, <2>2, <2>3, <2>4, <2>5, <2>6 DEF Click
<1>10. ASSUME NEW h \in Tasks, Continue(h)
       PROVE  Goal
  <2>0. Become(h, Resting) => Goal
    BY <1>2, <1>4 DEF Named
  <2>1. CASE \/ QueryDone(h) \/ CreateFails(h) \/ Failed(h) \/ Listed(h)
             \/ Opened(h) \/ Removed(h) \/ LoginFails(h) \/ InitDone(h)
    BY <2>0, <2>1 DEF QueryDone, CreateFails, Failed, Listed, Opened, Removed, LoginFails, InitDone
  <2>2. CASE Create(h)
    <3>1. FreshId \in given' /\ FreshId \in Chats /\ task[h].turn \in Turns
      BY <1>3, <2>2, Fresh DEF Create, HandlerAt, Asking
    <3> QED BY <1>6, <2>2, <3>1 DEF Create
  <2>3. CASE Created(h)
    <3>1. task[h].id \in given' /\ task[h].id \in Chats /\ task[h].turn \in Turns
      BY <1>3, <2>3 DEF Created, HandlerAt, Asking, Named
    <3> QED BY <1>6, <2>3, <3>1 DEF Created
  <2>4. CASE StoreTurn(h) \/ StoreFails(h)
    <3>1. task[h].id \in given' /\ task[h].id \in Chats /\ task[h].turn \in Turns
      BY <1>3, <2>4 DEF StoreTurn, StoreFails, HandlerAt, Asking, Named
    <3>2. PICK r \in {"answer", "error"} :
            Become(h, [pc |-> "replied", turn |-> task[h].turn, id |-> task[h].id, role |-> r])
      BY <2>4 DEF StoreTurn, StoreFails
    <3> QED BY <1>6, <3>1, <3>2
  <2>5. CASE Answered(h)
    BY <1>3, <1>5, <2>5 DEF Answered, HandlerAt, Asking
  <2>6. CASE GetChat(h)
    <3>1. task[h].id \in given' /\ task[h].id \in Chats
      BY <1>3, <2>6 DEF GetChat, HandlerAt, Named
    <3>2. saved[task[h].id] \in Seq(Message)
      BY <3>1 DEF PageTypes
    <3> QED BY <1>3, <1>7, <2>0, <2>6, <3>1, <3>2 DEF GetChat
  <2>7. CASE DeleteChat(h)
    <3>1. task[h].id \in given' /\ task[h].id \in Chats
      BY <1>3, <2>7 DEF DeleteChat, HandlerAt, Named
    <3>2. task[h] \in [pc : {"remove", "removed"}, id : Chats, close : BOOLEAN]
      BY <1>3, <2>7, TaskFields DEF DeleteChat, HandlerAt
    <3>3. [task[h] EXCEPT !.pc = "removed"] = [pc |-> "removed", id |-> task[h].id, close |-> task[h].close]
      BY <3>2
    <3>4. task[h].close \in BOOLEAN
      BY <3>2
    <3>5. Become(h, [pc |-> "removed", id |-> task[h].id, close |-> task[h].close]) => Goal
      BY <1>3, <1>7, <3>1, <3>4
    <3>6. Become(h, [task[h] EXCEPT !.pc = "removed"]) \/ Become(h, Resting)
      BY <2>7 DEF DeleteChat
    <3> QED BY <2>0, <3>3, <3>5, <3>6
  <2>8. CASE LoggedIn(h)
    <3>1. task[h].thread \in Seq(Message)
      BY <1>3, <2>8 DEF LoggedIn, HandlerAt
    <3> QED BY <1>3, <1>8, <2>8, <3>1 DEF LoggedIn
  <2>9. CASE Import(h)
    <3>1. FreshId \in given' /\ FreshId \in Chats
      BY <2>9, Fresh DEF Import
    <3> QED BY <1>3, <1>7, <1>8, <2>9, <3>1 DEF Import
  <2>10. CASE ImportFails(h)
    BY <1>3, <1>8, <2>10 DEF ImportFails
  <2>11. CASE Imported(h)
    <3>1. Become(h, [pc |-> "init"])
      BY <2>11 DEF Imported
    <3> QED BY <1>2, <1>4, <3>1 DEF Named
  <2> QED BY <1>10, <2>1, <2>2, <2>3, <2>4, <2>5, <2>6, <2>7, <2>8, <2>9, <2>10, <2>11 DEF Continue
<1> QED BY <1>1, <1>9, <1>10 DEF PageNext, Goal

LEMMA TypesStep ==
  ASSUME PageTypes, IdsGiven, PageNext
  PROVE  PageTypes' /\ IdsGiven'
BY ScalarsTyped, ThreadsTyped, KeptTyped, ServerTyped, ActiveTyped, TasksTyped DEF PageTypes

------------------------------------------------------------------------------
(* One question at a time *)

Off == {"query", "ask", "replied", "listing"}

LEMMA TurnGoesOn ==
  ASSUME PageTypes, OneTurn, Composer, NEW h \in Tasks, NEW r, Become(h, r), doubled' = doubled,
         task[h].pc \in Asking, r.pc \in Asking \cup {"idle"},
         pending \in BOOLEAN, pending' \in BOOLEAN,
         pending' <=> r.pc \in Off
  PROVE  OneTurn' /\ Composer'
<1> SUFFICES ASSUME ~doubled
             PROVE  /\ \A f, g \in In(Asking)' : f = g
                    /\ pending' <=> In({"query", "ask", "replied", "listing"})' # {}
  BY DEF OneTurn, Composer
<1>1. task'[h] = r /\ \A g \in Tasks : g # h => task'[g] = task[g]
  BY Becomes
<1>2. \A g \in Tasks : task[g].pc \in Asking => g = h
  BY DEF OneTurn, In
<1>3. \A g \in Tasks : task'[g].pc \in Asking => g = h
  BY <1>1, <1>2
<1> QED BY <1>1, <1>3 DEF In, Off, Asking

LEMMA TurnApart ==
  ASSUME PageTypes, OneTurn, Composer, NEW h \in Tasks, NEW r, Become(h, r), doubled' = doubled,
         task[h].pc \notin Asking, r.pc \notin Asking, pending' = pending
  PROVE  OneTurn' /\ Composer'
<1>1. task'[h] = r /\ \A g \in Tasks : g # h => task'[g] = task[g]
  BY Becomes
<1>2. /\ In(Asking)' = In(Asking)
      /\ In({"query", "ask", "replied", "listing"})' = In({"query", "ask", "replied", "listing"})
  BY <1>1 DEF In, Asking
<1>3. OneTurn'
  BY <1>2 DEF OneTurn
<1>4. Composer'
  BY <1>2 DEF Composer
<1> QED BY <1>3, <1>4

LEMMA TurnBegins ==
  ASSUME PageTypes, OneTurn, Composer, NEW h \in Tasks, NEW r, Become(h, r), NextTurn, HandlerAt(h, "idle"),
         r.pc \in Asking, pending' \in BOOLEAN, pending' <=> r.pc \in Off
  PROVE  OneTurn' /\ Composer'
<1> SUFFICES ASSUME ~doubled'
             PROVE  /\ \A f, g \in In(Asking)' : f = g
                    /\ pending' <=> In({"query", "ask", "replied", "listing"})' # {}
  BY DEF OneTurn, Composer
<1>1. task'[h] = r /\ \A g \in Tasks : g # h => task'[g] = task[g]
  BY Becomes
<1>2. \A g \in Tasks : task[g].pc \notin Asking
  BY DEF NextTurn, Ready, Composer, In, Asking
<1>3. \A g \in Tasks : task'[g].pc \in Asking => g = h
  BY <1>1, <1>2
<1> QED BY <1>1, <1>3 DEF In, Off, Asking

LEMMA OneTurnStep ==
  ASSUME PageTypes, OneTurn, Composer, PageNext
  PROVE  OneTurn' /\ Composer'
<1>1. CASE NewChat \/ Logout
  BY <1>1 DEF NewChat, Logout, OneTurn, Composer, In
<1>0. pending \in BOOLEAN /\ pending' \in BOOLEAN
  BY ScalarsTyped DEF PageTypes
<1>2. ASSUME NEW h \in Tasks, Click(h)
      PROVE  OneTurn' /\ Composer'
  <2>1. CASE AskAnon(h) \/ AskIn(h)
    BY <1>0, <2>1, TurnBegins DEF AskAnon, AskIn, Asking, Off
  <2>2. CASE AskFirst(h)
    <3>1. pending' = FALSE
      BY <1>0, <2>2 DEF AskFirst, Page, NextTurn, Ready
    <3> QED BY <1>0, <2>2, <3>1, TurnBegins DEF AskFirst, Asking, Off
  <2>3. CASE Login(h)
    BY <2>3, TurnApart DEF Login, HandlerAt, Asking, Page
  <2>4. ASSUME NEW c \in Chats, OpenChat(h, c) \/ RemoveChat(h, c)
        PROVE  OneTurn' /\ Composer'
    BY <2>4, TurnApart DEF OpenChat, RemoveChat, HandlerAt, Asking, Page, History
  <2> QED BY <1>2, <2>1, <2>2, <2>3, <2>4 DEF Click
<1>3. ASSUME NEW h \in Tasks, Continue(h)
      PROVE  OneTurn' /\ Composer'
  <2>1. ~doubled /\ task[h].pc \in Asking => (pending <=> task[h].pc \in Off)
    BY DEF OneTurn, Composer, In, Asking, Off
  <2>2. CASE doubled
    BY <2>2, Grows DEF OneTurn, Composer
  <2> SUFFICES ASSUME ~doubled
               PROVE  OneTurn' /\ Composer'
    BY <2>2
  <2>3. CASE QueryDone(h) \/ Failed(h) \/ Listed(h)
    BY <1>0, <2>3, TurnGoesOn DEF QueryDone, Failed, Listed, HandlerAt, Asking, Off, Resting, History
  <2>4. CASE Create(h) \/ CreateFails(h) \/ Created(h)
    BY <1>0, <2>1, <2>4, TurnGoesOn DEF Create, CreateFails, Created, HandlerAt, Asking, Off, Resting,
         Page, History
  <2>5. CASE StoreTurn(h) \/ StoreFails(h) \/ Answered(h)
    BY <1>0, <2>1, <2>5, TurnGoesOn DEF StoreTurn, StoreFails, Answered, HandlerAt, Asking, Off, Page, History
  <2>6. CASE GetChat(h) \/ Opened(h) \/ Removed(h)
    BY <2>6, TurnApart DEF GetChat, Opened, Removed, HandlerAt, Asking, Resting, Page, History
  <2>7. CASE DeleteChat(h)
    <3>1. [task[h] EXCEPT !.pc = "removed"].pc \notin Asking
      <4>1. task[h] \in [pc : {"remove", "removed"}, id : Chats, close : BOOLEAN]
        BY <2>7, TaskFields DEF PageTypes, TaskState, DeleteChat, HandlerAt
      <4> QED BY <4>1 DEF Asking
    <3>2. task[h].pc \notin Asking /\ Resting.pc \notin Asking
      BY <2>7 DEF DeleteChat, HandlerAt, Asking, Resting
    <3>3. /\ Become(h, [task[h] EXCEPT !.pc = "removed"]) \/ Become(h, Resting)
          /\ UNCHANGED <<pending, doubled>>
      BY <2>7 DEF DeleteChat, Page, History
    <3> QED BY <3>1, <3>2, <3>3, TurnApart
  <2>8. CASE LoginFails(h) \/ LoggedIn(h) \/ InitDone(h)
    BY <2>8, TurnApart DEF LoginFails, LoggedIn, InitDone, HandlerAt, Asking, Resting, Page, History
  <2>9. CASE Import(h) \/ ImportFails(h) \/ Imported(h)
    BY <2>9, TurnApart DEF Import, ImportFails, Imported, HandlerAt, Asking, Resting, Page, History
  <2> QED BY <1>3, <2>3, <2>4, <2>5, <2>6, <2>7, <2>8, <2>9 DEF Continue
<1> QED BY <1>1, <1>2, <1>3 DEF PageNext

------------------------------------------------------------------------------
(* Answers come on screen in their own chat *)

LEMMA Appended ==
  ASSUME NEW s \in Seq(Message), NEW m \in Message, NEW n \in Message
  PROVE  /\ Append(s, m) \in Seq(Message) /\ Range(Append(s, m)) = Range(s) \cup {m}
         /\ Append(s, m) \o <<n>> \in Seq(Message)
         /\ Range(Append(s, m) \o <<n>>) = Range(s) \cup {m, n}
         /\ \A u \in Seq(Message) : u \o <<>> = u
<1> HIDE DEF Message
<1>1. ASSUME NEW u \in Seq(Message), NEW x \in Message
      PROVE  Append(u, x) \in Seq(Message) /\ Range(Append(u, x)) = Range(u) \cup {x}
  <2>1. /\ Append(u, x) \in Seq(Message) /\ Len(Append(u, x)) = Len(u) + 1
        /\ \A i \in 1 .. Len(u) : Append(u, x)[i] = u[i]
        /\ Append(u, x)[Len(u) + 1] = x
    OBVIOUS
  <2>2. DOMAIN Append(u, x) = 1 .. Len(u) + 1 /\ DOMAIN u = 1 .. Len(u) /\ Len(u) \in Nat
    BY <2>1
  <2>3. \A i \in 1 .. Len(u) + 1 : i \in 1 .. Len(u) \/ i = Len(u) + 1
    BY <2>2
  <2>4. 1 .. Len(u) \subseteq 1 .. Len(u) + 1 /\ Len(u) + 1 \in 1 .. Len(u) + 1
    BY <2>2
  <2> QED BY <2>1, <2>2, <2>3, <2>4 DEF Range
<1>2. Append(s, m) \o <<n>> = Append(Append(s, m), n)
  OBVIOUS
<1>3. \A u \in Seq(Message) : u \o <<>> = u
  BY ConcatEmptySeq
<1> QED BY <1>1, <1>2, <1>3

\* The messages of a turn are messages.
LEMMA MsgTyped ==
  ASSUME NEW t \in Turns, NEW r \in {"question", "answer"}
  PROVE  Msg(r, t) \in Message /\ Msg(r, t).role = r /\ Msg(r, t).turn = t
BY DEF Msg, Message

\* What POST /conversations/{id}/messages stores.
LEMMA TurnStored ==
  ASSUME PageTypes, NEW h \in Tasks, StoreTurn(h)
  PROVE  /\ task[h].turn \in Turns /\ task[h].id \in Chats
         /\ \A c \in Chats : c # task[h].id => saved'[c] = saved[c]
         /\ \/ /\ saved'[task[h].id] = Append(saved[task[h].id], Msg("question", task[h].turn))
               /\ task'[h] = [pc |-> "replied", turn |-> task[h].turn, id |-> task[h].id, role |-> "error"]
            \/ /\ saved'[task[h].id] = Append(saved[task[h].id], Msg("question", task[h].turn))
                                        \o <<Msg("answer", task[h].turn)>>
               /\ \E r \in {"answer", "error"} :
                    task'[h] = [pc |-> "replied", turn |-> task[h].turn, id |-> task[h].id, role |-> r]
<1> DEFINE t == task[h].turn
           c == task[h].id
           q == Msg("question", t)
           a == Msg("answer", t)
<1>1. t \in Turns /\ c \in Chats
  BY TaskFields DEF PageTypes, TaskState, StoreTurn, HandlerAt, Asking
<1>2. q \in Message /\ a \in Message /\ saved[c] \in Seq(Message)
  BY <1>1, MsgTyped DEF PageTypes
<1>3. PICK r \in {"answer", "error"}, s \in {<<>>, <<a>>} :
        /\ r = "answer" => s # <<>>
        /\ saved' = [saved EXCEPT ![c] = Append(saved[c], q) \o s]
        /\ Become(h, [pc |-> "replied", turn |-> t, id |-> c, role |-> r])
  BY DEF StoreTurn
<1> HIDE DEF q, a
<1>4. task'[h] = [pc |-> "replied", turn |-> t, id |-> c, role |-> r]
  BY <1>3, Becomes
<1> HIDE DEF t, c
<1>5. saved'[c] = Append(saved[c], q) \o s /\ \A d \in Chats : d # c => saved'[d] = saved[d]
  BY <1>1, <1>3 DEF PageTypes
<1>6. Append(saved[c], q) \o <<>> = Append(saved[c], q)
  BY <1>2, Appended
<1> USE DEF t, c, q, a
<1> QED BY <1>1, <1>3, <1>4, <1>5, <1>6

\* A chat loses messages only with itself.
LEMMA SavedStays ==
  ASSUME PageTypes, PageNext, NEW c \in given
  PROVE  c \in live' => c \in live /\ Range(saved[c]) \subseteq Range(saved'[c])
<1>0. c \in Chats /\ saved[c] \in Seq(Message)
  BY DEF PageTypes
<1>1. ASSUME NEW h \in Tasks, StoreTurn(h)
      PROVE  live' = live /\ Range(saved[c]) \subseteq Range(saved'[c])
  <2>1. live' = live
    BY <1>1 DEF StoreTurn
  <2>2. CASE c # task[h].id
    BY <1>0, <1>1, <2>1, <2>2, TurnStored
  <2>3. CASE c = task[h].id
    <3>1. task[h].turn \in Turns
      BY <1>1, TurnStored
    <3> DEFINE q == Msg("question", task[h].turn)
               a == Msg("answer", task[h].turn)
    <3>2. q \in Message /\ a \in Message
      BY <3>1, MsgTyped
    <3>3. saved'[c] = Append(saved[c], q) \/ saved'[c] = Append(saved[c], q) \o <<a>>
      BY <1>1, <2>3, TurnStored
    <3> HIDE DEF q, a
    <3>4. Range(Append(saved[c], q)) = Range(saved[c]) \cup {q}
      BY <1>0, <3>2, Appended
    <3>5. Range(Append(saved[c], q) \o <<a>>) = Range(saved[c]) \cup {q, a}
      BY <1>0, <3>2, Appended
    <3> QED BY <2>1, <3>3, <3>4, <3>5
  <2> QED BY <2>2, <2>3
<1>2. ASSUME NEW h \in Tasks, DeleteChat(h)
      PROVE  c \in live' => c \in live /\ saved'[c] = saved[c]
  BY <1>0, <1>2 DEF DeleteChat, PageTypes, Server
<1>3. ASSUME NEW h \in Tasks, Import(h) \/ Create(h)
      PROVE  c \in live' => c \in live /\ saved'[c] = saved[c]
  <2>1. FreshId # c /\ live' = live \cup {FreshId}
    BY <1>3, Fresh DEF Import, Create
  <2>2. saved'[c] = saved[c]
    BY <1>0, <1>3, <2>1 DEF Import, Create, PageTypes
  <2> QED BY <2>1, <2>2
<1>4. CASE UNCHANGED Server
  BY <1>4 DEF Server
<1> QED BY <1>1, <1>2, <1>3, <1>4, Frames

\* Another chat comes on screen only with the turns under way in moved.
LEMMA ScreenStays ==
  ASSUME PageTypes, PageNext
  PROVE  Id(active') = Id(active) \/ \A h \in In({"ask", "replied"}) : task[h].turn \in moved'
<1>1. ASSUME NEW chat, Show(chat)
      PROVE  Id(active') = Id(active) \/ \A h \in In({"ask", "replied"}) : task[h].turn \in moved'
  BY <1>1 DEF Show
<1>2. ASSUME NEW h \in Tasks, AskIn(h) \/ Answered(h)
      PROVE  Id(active') = Id(active)
  <2>1. CASE AskIn(h)
    BY <2>1, MessageAdded, MsgTyped, TurnOf DEF AskIn
  <2>2. CASE Answered(h)
    BY <2>2, MessageAdded, MsgTyped, TurnOf DEF Answered
  <2> QED BY <1>2, <2>1, <2>2
<1> QED BY <1>1, <1>2, Frames DEF NewChat, Logout, Created, Opened, Removed, Imported

LEMMA AwaitedByOthers ==
  ASSUME PageTypes, IdsGiven, PageNext, NEW g \in Tasks, AwaitedBy(g), task'[g] = task[g]
  PROVE  AwaitedBy(g)'
<1>1. task[g].pc \in {"ask", "replied", "opened"} => task[g].id \in given
  BY DEF IdsGiven
<1>2. task[g].pc \in {"ask", "replied"} => (task[g].turn \in moved \/ Id(active) = task[g].id)'
  BY ScreenStays, Grows DEF AwaitedBy, In
<1>3. /\ (HandlerAt(g, "replied") /\ task[g].role = "answer" /\ task[g].id \in live)' =>
           Msg("answer", task[g].turn) \in Range(saved'[task[g].id])
      /\ (HandlerAt(g, "opened") /\ task[g].id \in live)' =>
           Range(task[g].msgs) \subseteq Range(saved'[task[g].id])
  BY <1>1, SavedStays DEF AwaitedBy, HandlerAt
<1> QED BY <1>2, <1>3 DEF AwaitedBy, HandlerAt

\* A handler elsewhere awaits nothing that comes on screen.
LEMMA AwaitsNothing ==
  ASSUME PageTypes, NEW h \in Tasks, NEW r, Become(h, r), r.pc \notin {"ask", "replied", "opened"}
  PROVE  AwaitedBy(h)'
BY Becomes DEF AwaitedBy, HandlerAt

LEMMA AwaitedByActor ==
  ASSUME PageTypes, IdsGiven, PageNext, NEW h \in Tasks, AwaitedBy(h), Click(h) \/ Continue(h)
  PROVE  AwaitedBy(h)'
<1>1. ASSUME Click(h)
      PROVE  AwaitedBy(h)'
  <2>1. CASE AskAnon(h) \/ AskFirst(h) \/ Login(h)
    BY <2>1, AwaitsNothing DEF AskAnon, AskFirst, Login
  <2>2. CASE AskIn(h)
    <3>1. Id(active') = Id(active) /\ Id(active) = active.id
      BY <2>2, MessageAdded, MsgTyped, TurnOf DEF AskIn, Id
    <3>2. task'[h] = [pc |-> "ask", turn |-> turns + 1, id |-> active.id]
      BY <2>2, Becomes DEF AskIn
    <3> QED BY <3>1, <3>2 DEF AwaitedBy, HandlerAt
  <2>3. ASSUME NEW c \in Chats, OpenChat(h, c) \/ RemoveChat(h, c)
        PROVE  AwaitedBy(h)'
    BY <2>3, AwaitsNothing DEF OpenChat, RemoveChat
  <2> QED BY <1>1, <2>1, <2>2, <2>3 DEF Click
<1>2. ASSUME Continue(h)
      PROVE  AwaitedBy(h)'
  <2>1. CASE \/ QueryDone(h) \/ Create(h) \/ CreateFails(h) \/ Answered(h) \/ Failed(h) \/ Listed(h)
             \/ Opened(h) \/ Removed(h) \/ LoginFails(h) \/ InitDone(h)
    BY <2>1, AwaitsNothing DEF QueryDone, Create, CreateFails, Answered, Failed, Listed,
                               Opened, Removed, LoginFails, InitDone, Resting
  <2>2. CASE Created(h)
    <3>1. task[h].id \in Chats /\ <<Msg("question", task[h].turn)>> \in Seq(Message)
      <4>1. task[h].id \in Chats /\ task[h].turn \in Turns
        BY <2>2, TaskFields DEF PageTypes, TaskState, Created, HandlerAt, Asking
      <4>2. Msg("question", task[h].turn) \in Message
        BY <4>1, MsgTyped
      <4> QED BY <4>1, <4>2
    <3>2. Id(active') = task[h].id
      BY <2>2, <3>1, ChatShown DEF Created, Show
    <3>3. task'[h] = [pc |-> "ask", turn |-> task[h].turn, id |-> task[h].id]
      BY <2>2, Becomes DEF Created
    <3> QED BY <3>2, <3>3 DEF AwaitedBy, HandlerAt
  <2>3. CASE StoreTurn(h)
    <3> DEFINE t == task[h].turn
               c == task[h].id
               q == Msg("question", t)
               a == Msg("answer", t)
    <3>1. (t \in moved \/ Id(active) = c) /\ UNCHANGED <<moved, active>>
      BY <2>3 DEF StoreTurn, AwaitedBy, HandlerAt, Page, History
    <3>2. q \in Message /\ a \in Message /\ saved[c] \in Seq(Message)
      BY <2>3, TurnStored, MsgTyped DEF PageTypes
    <3>3. \/ task'[h] = [pc |-> "replied", turn |-> t, id |-> c, role |-> "error"]
          \/ /\ saved'[c] = Append(saved[c], q) \o <<a>>
             /\ \E r \in {"answer", "error"} : task'[h] = [pc |-> "replied", turn |-> t, id |-> c, role |-> r]
      BY <2>3, TurnStored
    <3>4. Range(Append(saved[c], q) \o <<a>>) = Range(saved[c]) \cup {q, a}
      <4> HIDE DEF q, a
      <4> QED BY <3>2, Appended
    <3>5. /\ task'[h].pc = "replied" /\ task'[h].turn = t /\ task'[h].id = c
          /\ task'[h].role = "answer" => a \in Range(saved'[c])
      <4> HIDE DEF q, a
      <4>1. a \in Range(Append(saved[c], q) \o <<a>>)
        BY <3>4
      <4>2. CASE task'[h] = [pc |-> "replied", turn |-> t, id |-> c, role |-> "error"]
        BY <4>2
      <4>3. ASSUME saved'[c] = Append(saved[c], q) \o <<a>>, NEW r,
                   task'[h] = [pc |-> "replied", turn |-> t, id |-> c, role |-> r]
            PROVE  /\ task'[h].pc = "replied" /\ task'[h].turn = t /\ task'[h].id = c
                   /\ task'[h].role = "answer" => a \in Range(saved'[c])
        BY <4>1, <4>3
      <4> QED BY <3>3, <4>2, <4>3
    <3> QED BY <3>1, <3>5 DEF AwaitedBy, HandlerAt
  <2>4. CASE StoreFails(h)
    <3>1. task'[h] = [pc |-> "replied", turn |-> task[h].turn, id |-> task[h].id, role |-> "error"]
      BY <2>4, Becomes DEF StoreFails
    <3> QED BY <2>4, <3>1 DEF StoreFails, AwaitedBy, HandlerAt, Page, History
  <2>5. CASE GetChat(h)
    <3>1. CASE Become(h, Resting)
      BY <3>1, AwaitsNothing DEF Resting
    <3>2. CASE Become(h, [pc |-> "opened", id |-> task[h].id, msgs |-> saved[task[h].id]])
      <4>1. task'[h] = [pc |-> "opened", id |-> task[h].id, msgs |-> saved[task[h].id]]
        BY <3>2, Becomes
      <4> QED BY <2>5, <4>1 DEF GetChat, AwaitedBy, HandlerAt, Server
    <3> QED BY <2>5, <3>1, <3>2 DEF GetChat
  <2>6. CASE DeleteChat(h)
    <3>1. [task[h] EXCEPT !.pc = "removed"].pc = "removed"
      <4>1. task[h] \in [pc : {"remove", "removed"}, id : Chats, close : BOOLEAN]
        BY <2>6, TaskFields DEF PageTypes, TaskState, DeleteChat, HandlerAt
      <4> QED BY <4>1
    <3>2. Become(h, [task[h] EXCEPT !.pc = "removed"]) \/ Become(h, Resting)
      BY <2>6 DEF DeleteChat
    <3> QED BY <3>1, <3>2, AwaitsNothing DEF Resting
  <2>7. CASE LoggedIn(h) \/ Import(h) \/ ImportFails(h) \/ Imported(h)
    BY <2>7, AwaitsNothing DEF LoggedIn, Import, ImportFails, Imported
  <2> QED BY <1>2, <2>1, <2>2, <2>3, <2>4, <2>5, <2>6, <2>7 DEF Continue
<1> QED BY <1>1, <1>2

\* A handler's step is a step of its task alone.
LEMMA OneMoves ==
  ASSUME PageTypes, NEW h \in Tasks, Click(h) \/ Continue(h)
  PROVE  \A g \in Tasks : g # h => task'[g] = task[g]
<1>1. \E r : Become(h, r)
  <2>1. CASE Click(h)
    BY <2>1 DEF Click, AskAnon, AskFirst, AskIn, Login, OpenChat, RemoveChat
  <2>2. CASE \/ QueryDone(h) \/ Create(h) \/ CreateFails(h) \/ Created(h) \/ StoreTurn(h) \/ StoreFails(h)
             \/ Answered(h) \/ Failed(h) \/ Listed(h)
    BY <2>2 DEF QueryDone, Create, CreateFails, Created, StoreTurn, StoreFails, Answered, Failed, Listed
  <2>3. CASE GetChat(h) \/ Opened(h) \/ DeleteChat(h) \/ Removed(h)
    BY <2>3 DEF GetChat, Opened, DeleteChat, Removed
  <2>4. CASE LoginFails(h) \/ LoggedIn(h) \/ Import(h) \/ ImportFails(h) \/ Imported(h) \/ InitDone(h)
    BY <2>4 DEF LoginFails, LoggedIn, Import, ImportFails, Imported, InitDone
  <2> QED BY <2>1, <2>2, <2>3, <2>4 DEF Continue
<1> QED BY <1>1, Becomes

LEMMA AwaitedStep ==
  ASSUME PageTypes, IdsGiven, Awaited, PageNext
  PROVE  Awaited'
<1>1. CASE NewChat \/ Logout
  BY <1>1, AwaitedByOthers DEF NewChat, Logout, Awaited
<1>2. ASSUME NEW h \in Tasks, Click(h) \/ Continue(h)
      PROVE  Awaited'
  BY <1>2, OneMoves, AwaitedByActor, AwaitedByOthers DEF Awaited
<1> QED BY <1>1, <1>2 DEF PageNext

\* The answers among messages s are saved in chat c.
InChat(c, s) == c \in live => \A i \in DOMAIN s :
  s[i].role = "answer" => s[i] \in Range(saved[c]) \/ s[i].turn \in moved

LEMMA InChatAdded ==
  ASSUME PageTypes, NEW c \in given, NEW s \in Seq(Message), InChat(c, s),
         NEW m \in Message, m.role = "answer" => m \in Range(saved[c]) \/ m.turn \in moved \/ c \notin live
  PROVE  InChat(c, Append(s, m))
<1> HIDE DEF Message
<1>1. /\ DOMAIN Append(s, m) = 1 .. Len(s) + 1 /\ DOMAIN s = 1 .. Len(s)
      /\ \A i \in 1 .. Len(s) : Append(s, m)[i] = s[i]
      /\ Append(s, m)[Len(s) + 1] = m
  OBVIOUS
<1>2. \A i \in 1 .. Len(s) + 1 : i \in 1 .. Len(s) \/ i = Len(s) + 1
  OBVIOUS
<1> QED BY <1>1, <1>2 DEF InChat

LEMMA InChatStays ==
  ASSUME PageTypes, PageNext, NEW c \in given, NEW s, InChat(c, s)
  PROVE  InChat(c, s)'
BY SavedStays, Grows DEF InChat

LEMMA ShownStep ==
  ASSUME PageTypes, IdsGiven, Awaited, ShownIsSaved, PageNext
  PROVE  ShownIsSaved'
<1> DEFINE Good == active' # None => InChat(active.id, active.msgs)'
<1> SUFFICES Good
  BY DEF ShownIsSaved, InChat
<1>1. active # None => active.id \in given /\ active.msgs \in Seq(Message) /\ InChat(active.id, active.msgs)
  BY DEF ShownIsSaved, InChat, PageTypes
<1>2. ASSUME active' = active
      PROVE  Good
  BY <1>1, <1>2, InChatStays
<1>3. ASSUME active' = None
      PROVE  Good
  BY <1>3
<1>4. ASSUME NEW c \in given, NEW s \in Seq(Message), InChat(c, s), Show([id |-> c, msgs |-> s])
      PROVE  Good
  <2>1. InChat(c, s)'
    BY <1>4, InChatStays
  <2>2. active'.id = c /\ active'.msgs = s
    BY <1>4 DEF Show
  <2> QED BY <2>1, <2>2
<1>5. ASSUME NEW m \in Message, Add(m), active # None,
             m.role = "answer" => m \in Range(saved[active.id]) \/ m.turn \in moved \/ active.id \notin live
      PROVE  Good
  <2>1. InChat(active.id, Append(active.msgs, m))
    BY <1>1, <1>5, InChatAdded
  <2>2. /\ active'.id = active.id /\ active'.msgs = Append(active.msgs, m)
        /\ Append(active.msgs, m) \in Seq(Message)
    BY <1>1, <1>5, MessageAdded, Appended
  <2>3. PICK c \in given, s \in Seq(Message) : c = active.id /\ s = Append(active.msgs, m)
    BY <1>1, <1>5, <2>2
  <2>4. InChat(c, s)'
    BY <2>1, <2>3, InChatStays
  <2> QED BY <2>2, <2>3, <2>4
<1>6. ASSUME NEW h \in Tasks, Created(h)
      PROVE  Good
  <2>1. task[h].id \in given /\ task[h].turn \in Turns
    BY <1>6, TaskFields DEF IdsGiven, PageTypes, TaskState, Created, HandlerAt, Asking
  <2>2. Msg("question", task[h].turn) \in Message /\ Msg("question", task[h].turn).role = "question"
    BY <2>1, MsgTyped
  <2> DEFINE q == Msg("question", task[h].turn)
  <2>3. Show([id |-> task[h].id, msgs |-> <<q>>])
    BY <1>6 DEF Created
  <2> HIDE DEF q
  <2>4. <<q>> \in Seq(Message) /\ InChat(task[h].id, <<q>>)
    BY <2>2 DEF InChat, q
  <2> QED BY <1>4, <2>1, <2>3, <2>4
<1>7. ASSUME NEW h \in Tasks, AskIn(h)
      PROVE  Good
  <2>1. Msg("question", turns + 1) \in Message /\ Msg("question", turns + 1).role = "question"
    BY <1>7, TurnOf, MsgTyped DEF AskIn
  <2> QED BY <1>5, <1>7, <2>1 DEF AskIn
<1>8. ASSUME NEW h \in Tasks, Answered(h)
      PROVE  Good
  <2>1. task[h].turn \in Turns
    BY <1>8, TaskFields DEF PageTypes, TaskState, Answered, HandlerAt, Asking
  <2> DEFINE a == Msg("answer", task[h].turn)
  <2>2. a \in Message /\ a.turn = task[h].turn
    BY <2>1, MsgTyped
  <2>3. Add(a)
    BY <1>8 DEF Answered
  <2> HIDE DEF a
  <2>4. CASE active = None
    BY <1>3, <2>3, <2>4 DEF Add
  <2>5. CASE active # None
    <3>1. task[h].turn \in moved \/ active.id = task[h].id
      BY <1>8, <2>5 DEF Awaited, AwaitedBy, Answered, HandlerAt, Id
    <3>2. task[h].id \in live => a \in Range(saved[task[h].id])
      BY <1>8 DEF Awaited, AwaitedBy, Answered, HandlerAt, a
    <3> QED BY <1>5, <2>2, <2>3, <2>5, <3>1, <3>2
  <2> QED BY <2>4, <2>5
<1>9. ASSUME NEW h \in Tasks, Opened(h)
      PROVE  Good
  <2>1. task[h].id \in given /\ task[h].msgs \in Seq(Message)
    BY <1>9, TaskFields DEF IdsGiven, PageTypes, TaskState, Opened, HandlerAt
  <2>2. InChat(task[h].id, task[h].msgs)
    BY <1>9 DEF InChat, Awaited, AwaitedBy, Opened, HandlerAt, Range
  <2> QED BY <1>4, <1>9, <2>1, <2>2 DEF Opened
<1>10. ASSUME NEW h \in Tasks, Removed(h)
       PROVE  Good
  BY <1>2, <1>3, <1>10 DEF Removed, Show
<1>11. ASSUME NEW h \in Tasks, Imported(h)
       PROVE  Good
  <2>1. CASE task[h].id = None
    BY <1>3, <1>11, <2>1 DEF Imported, Show
  <2>2. CASE task[h].id # None
    <3>1. task[h].id \in given /\ saved[task[h].id] \in Seq(Message)
      BY <1>11, <2>2 DEF IdsGiven, PageTypes, Imported, HandlerAt
    <3>2. InChat(task[h].id, saved[task[h].id])
      BY DEF InChat, Range
    <3>3. Show([id |-> task[h].id, msgs |-> saved[task[h].id]])
      BY <1>11, <2>2 DEF Imported
    <3> QED BY <1>4, <3>1, <3>2, <3>3
  <2> QED BY <2>1, <2>2
<1>12. ASSUME NewChat \/ Logout
       PROVE  Good
  BY <1>3, <1>12 DEF NewChat, Logout, Show
<1> HIDE DEF Good
<1>13. \/ UNCHANGED <<active, moved>> \/ NewChat \/ Logout
       \/ \E h \in Tasks : \/ Created(h) \/ AskIn(h) \/ Answered(h)
                          \/ Opened(h) \/ Removed(h) \/ Imported(h)
  BY Frames
<1> QED BY <1>2, <1>6, <1>7, <1>8, <1>9, <1>10, <1>11, <1>12, <1>13

------------------------------------------------------------------------------
(* The anonymous thread is on the page or imported *)

\* Who comes to ask anonymously or to sign in, and how.
LEMMA SignInMoves ==
  ASSUME PageTypes, NEW h \in Tasks, Click(h) \/ Continue(h)
  PROVE  \/ task'[h].pc \notin SigningIn \cup {"query"}
         \/ Login(h) \/ AskAnon(h) \/ LoggedIn(h) \/ Import(h) \/ ImportFails(h) \/ Imported(h)
<1>1. ASSUME NEW r, Become(h, r), r.pc \notin SigningIn \cup {"query"}
      PROVE  task'[h].pc \notin SigningIn \cup {"query"}
  BY <1>1, Becomes
<1>2. CASE Click(h)
  BY <1>1, <1>2 DEF Click, AskFirst, AskIn, OpenChat, RemoveChat, SigningIn
<1>3. CASE Continue(h)
  <2>1. CASE \/ QueryDone(h) \/ Create(h) \/ CreateFails(h) \/ Created(h) \/ StoreTurn(h) \/ StoreFails(h)
    BY <1>1, <2>1 DEF QueryDone, Create, CreateFails, Created, StoreTurn, StoreFails, SigningIn, Resting
  <2>2. CASE Answered(h) \/ Failed(h) \/ Listed(h) \/ GetChat(h) \/ Opened(h)
    BY <1>1, <2>2 DEF Answered, Failed, Listed, GetChat, Opened, SigningIn, Resting
  <2>3. CASE Removed(h) \/ LoginFails(h) \/ InitDone(h)
    BY <1>1, <2>3 DEF Removed, LoginFails, InitDone, SigningIn, Resting
  <2>4. CASE DeleteChat(h)
    <3>1. [task[h] EXCEPT !.pc = "removed"].pc = "removed"
      <4>1. task[h] \in [pc : {"remove", "removed"}, id : Chats, close : BOOLEAN]
        BY <2>4, TaskFields DEF PageTypes, TaskState, DeleteChat, HandlerAt
      <4> QED BY <4>1
    <3>2. Become(h, [task[h] EXCEPT !.pc = "removed"]) \/ Become(h, Resting)
      BY <2>4 DEF DeleteChat
    <3> QED BY <1>1, <3>1, <3>2 DEF Resting, SigningIn
  <2> QED BY <1>3, <2>1, <2>2, <2>3, <2>4 DEF Continue
<1> QED BY <1>2, <1>3

LEMMA SignInFrom ==
  ASSUME PageTypes, PageNext, NEW g \in Tasks
  PROVE  /\ task'[g].pc \in SigningIn => task[g].pc \in SigningIn \/ Login(g)
         /\ task'[g].pc \in {"login", "import", "imported"} =>
              task[g].pc \in {"login", "import"} \/ Login(g) \/ task'[g] = task[g]
         /\ task'[g].pc = "query" => task'[g] = task[g] \/ AskAnon(g)
<1>1. CASE NewChat \/ Logout
  BY <1>1 DEF NewChat, Logout
<1>2. ASSUME NEW h \in Tasks, Click(h) \/ Continue(h), h # g
      PROVE  task'[g] = task[g]
  BY <1>2, OneMoves
<1>3. ASSUME Click(g) \/ Continue(g)
      PROVE  /\ task'[g].pc \in SigningIn => task[g].pc \in SigningIn \/ Login(g)
             /\ task'[g].pc \in {"login", "import", "imported"} =>
                  task[g].pc \in {"login", "import"} \/ Login(g) \/ task'[g] = task[g]
             /\ task'[g].pc = "query" => AskAnon(g)
  <2>1. CASE task'[g].pc \notin SigningIn \cup {"query"}
    BY <2>1 DEF SigningIn
  <2>2. CASE Login(g)
    BY <2>2, Becomes DEF Login
  <2>3. CASE AskAnon(g)
    BY <2>3, Becomes DEF AskAnon, SigningIn
  <2>4. CASE LoggedIn(g)
    BY <2>4, Becomes DEF LoggedIn, HandlerAt, SigningIn
  <2>5. CASE Import(g)
    BY <2>5, Becomes DEF Import, HandlerAt, SigningIn
  <2>6. CASE ImportFails(g) \/ Imported(g)
    BY <2>6, Becomes DEF ImportFails, Imported, HandlerAt, SigningIn
  <2> QED BY <1>3, <2>1, <2>2, <2>3, <2>4, <2>5, <2>6, SignInMoves
<1> QED BY <1>1, <1>2, <1>3 DEF PageNext

LEMMA OneSignInStep ==
  ASSUME PageTypes, OneSignIn, PageNext
  PROVE  OneSignIn'
<1> SUFFICES ASSUME NEW f \in Tasks, NEW g \in Tasks, task'[f].pc \in SigningIn, task'[g].pc \in SigningIn
             PROVE  f = g
  BY DEF OneSignIn, In
<1>1. CASE task[f].pc \in SigningIn /\ task[g].pc \in SigningIn
  BY <1>1 DEF OneSignIn, In
<1>2. ASSUME NEW h \in Tasks, Login(h), NEW e \in Tasks, task'[e].pc \in SigningIn
      PROVE  e = h
  <2>1. task[e].pc \notin SigningIn
    BY <1>2 DEF Login, In, SigningIn
  <2> QED BY <1>2, <2>1, Becomes DEF Login
<1> QED BY <1>1, <1>2, SignInFrom

\* What a step adds to the thread is shown, and noticed if a sign-in is under way.
LEMMA AnonGrows ==
  ASSUME PageTypes, Noticed, PageNext, \A h \in Tasks : ~Imported(h)
  PROVE  /\ Range(anon) \subseteq Range(anon')
         /\ \A m \in Range(anon') : m \in Range(anon) \/ ~Signing \/ m.turn \in overlap'
         /\ \A m \in shown' : m \in shown \/ m \in Range(anon')
<1>1. CASE UNCHANGED <<anon, shown>>
  BY <1>1
<1>2. ASSUME NEW m \in Message, AddAnon(m), ~Signing \/ m.turn \in overlap'
      PROVE  /\ Range(anon) \subseteq Range(anon')
             /\ \A x \in Range(anon') : x \in Range(anon) \/ ~Signing \/ x.turn \in overlap'
             /\ \A x \in shown' : x \in shown \/ x \in Range(anon')
  <2>1. Range(anon') = Range(anon) \cup {m}
    BY <1>2, Appended DEF PageTypes, AddAnon
  <2> QED BY <1>2, <2>1 DEF AddAnon
<1>3. ASSUME NEW h \in Tasks, AskAnon(h)
      PROVE  \E m \in Message : AddAnon(m) /\ (~Signing \/ m.turn \in overlap')
  <2>1. turns + 1 \in Turns
    BY <1>3, TurnOf DEF AskAnon
  <2> DEFINE m == Msg("question", turns + 1)
  <2>2. m \in Message /\ m.turn = turns + 1
    BY <2>1, MsgTyped
  <2>3. AddAnon(m)
    BY <1>3 DEF AskAnon
  <2> HIDE DEF m
  <2>4. ~Signing \/ turns + 1 \in overlap'
    BY <1>3 DEF AskAnon, Signing
  <2> QED BY <2>2, <2>3, <2>4
<1>4. ASSUME NEW h \in Tasks, QueryDone(h), ~UNCHANGED <<anon, shown>>
      PROVE  \E m \in Message : AddAnon(m) /\ (~Signing \/ m.turn \in overlap')
  <2>1. task[h].turn \in Turns
    BY <1>4, TurnOf DEF QueryDone
  <2> DEFINE m == Msg("answer", task[h].turn)
  <2>2. m \in Message /\ m.turn = task[h].turn
    BY <2>1, MsgTyped
  <2>3. AddAnon(m)
    BY <1>4 DEF QueryDone
  <2> HIDE DEF m
  <2>4. ~Signing \/ task[h].turn \in overlap'
    BY <1>4 DEF QueryDone, Noticed, In, HandlerAt
  <2> QED BY <2>2, <2>3, <2>4
<1>5. UNCHANGED <<anon, shown>> \/ \E h \in Tasks : AskAnon(h) \/ QueryDone(h)
  BY Frames
<1> QED BY <1>1, <1>2, <1>3, <1>4, <1>5

LEMMA NoticedStep ==
  ASSUME PageTypes, Noticed, PageNext
  PROVE  Noticed'
<1> SUFFICES ASSUME NEW g \in Tasks, task'[g].pc \in {"login", "import", "imported"},
                    NEW q \in Tasks, task'[q].pc = "query"
             PROVE  task'[q].turn \in overlap'
  BY DEF Noticed, Signing, In
<1>1. CASE Login(g)
  <2>1. task'[q] = task[q] /\ task[q].pc = "query"
    BY <1>1, Becomes DEF Login
  <2> QED BY <1>1, <2>1 DEF Login, In
<1>2. CASE task[g].pc \in {"login", "import", "imported"}
  <2>1. CASE task'[q] = task[q]
    BY <1>2, <2>1, Grows DEF Noticed, Signing, In
  <2>2. CASE AskAnon(q)
    <3>1. task'[q].turn = turns + 1
      BY <2>2, Becomes DEF AskAnon
    <3>2. In({"login", "import", "imported"}) # {}
      BY <1>2 DEF In
    <3> QED BY <2>2, <3>1, <3>2 DEF AskAnon
  <2> QED BY <2>1, <2>2, SignInFrom
<1> QED BY <1>1, <1>2, SignInFrom

LEMMA ThreadsStep ==
  ASSUME PageTypes, OneSignIn, Noticed, Threads, PageNext
  PROVE  Threads'
<1> SUFFICES ASSUME NEW g \in Tasks
             PROVE  ThreadBy(g)'
  BY DEF Threads
<1>1. CASE task'[g].pc \notin {"login", "import", "imported"}
  BY <1>1 DEF ThreadBy, HandlerAt
<1>2. CASE Login(g)
  <2>1. task'[g] = [pc |-> "login", thread |-> anon] /\ anon' = anon
    BY <1>2, Becomes DEF Login, Page
  <2> QED BY <2>1 DEF ThreadBy, HandlerAt
<1>3. ASSUME task[g].pc \in {"login", "import", "imported"}, \A h \in Tasks : ~Imported(h)
      PROVE  /\ Range(anon) \subseteq Range(anon')
             /\ \A m \in Range(anon') : m \in Range(anon) \/ m.turn \in overlap'
  BY <1>3, AnonGrows DEF Signing, In
<1>4. ASSUME task'[g] = task[g], task[g].pc \in {"login", "import", "imported"}
      PROVE  ThreadBy(g)'
  <2>1. ASSUME NEW h \in Tasks, Imported(h)
        PROVE  FALSE
    <3>1. task'[h].pc = "init"
      BY <2>1, Becomes DEF Imported
    <3>2. h = g
      BY <1>4, <2>1 DEF OneSignIn, In, SigningIn, Imported, HandlerAt
    <3> QED BY <1>4, <3>1, <3>2
  <2> QED BY <1>3, <1>4, <2>1, Grows DEF Threads, ThreadBy, HandlerAt
<1>5. ASSUME LoggedIn(g) \/ ImportFails(g)
      PROVE  ThreadBy(g)'
  <2>1. \/ task'[g] = [pc |-> "imported", id |-> None]
        \/ task'[g] = [pc |-> "import", thread |-> task[g].thread] /\ task[g].pc = "login"
    BY <1>5, Becomes DEF LoggedIn, ImportFails, HandlerAt
  <2>2. UNCHANGED <<anon, overlap, kept>>
    BY <1>5 DEF LoggedIn, ImportFails, Page, History
  <2> QED BY <2>1, <2>2 DEF Threads, ThreadBy, HandlerAt
<1>6. ASSUME Import(g)
      PROVE  ThreadBy(g)'
  <2> DEFINE thread == task[g].thread
  <2>1. thread \in Seq(Message) /\ UNCHANGED <<anon, overlap>> /\ HandlerAt(g, "import")
    BY <1>6, TaskFields DEF PageTypes, TaskState, Import, HandlerAt, Page
  <2>2. PICK n \in 0 .. Len(thread) :
          /\ kept' = kept \cup {thread[i] : i \in 1 .. n}
          /\ \/ n = Len(thread) /\ Become(g, [pc |-> "imported", id |-> FreshId])
             \/ Become(g, [pc |-> "imported", id |-> None])
    BY <1>6 DEF Import
  <2>3. CASE Become(g, [pc |-> "imported", id |-> None])
    <3>1. task'[g] = [pc |-> "imported", id |-> None]
      BY <2>3, Becomes
    <3> QED BY <3>1 DEF ThreadBy, HandlerAt
  <2>4. CASE n = Len(thread) /\ Become(g, [pc |-> "imported", id |-> FreshId])
    <3>1. task'[g].pc = "imported"
      BY <2>4, Becomes
    <3>2. Range(thread) \subseteq kept'
      <4> HIDE DEF thread
      <4>1. DOMAIN thread = 1 .. Len(thread)
        BY <2>1
      <4> QED BY <2>2, <2>4, <4>1 DEF Range
    <3>3. \A m \in Range(anon) : m \in Range(thread) \/ m.turn \in overlap
      BY <2>1 DEF Threads, ThreadBy, HandlerAt
    <3> QED BY <2>1, <3>1, <3>2, <3>3 DEF ThreadBy, HandlerAt
  <2> QED BY <2>2, <2>3, <2>4
<1>7. ASSUME task'[g] # task[g], task'[g].pc \in {"login", "import", "imported"}
      PROVE  Login(g) \/ LoggedIn(g) \/ ImportFails(g) \/ Import(g)
  <2>1. Click(g) \/ Continue(g)
    BY <1>7, OneMoves DEF PageNext, NewChat, Logout
  <2>2. ~AskAnon(g) /\ ~Imported(g)
    BY <1>7, Becomes DEF AskAnon, Imported
  <2> QED BY <1>7, <2>1, <2>2, SignInMoves DEF SigningIn
<1> QED BY <1>1, <1>2, <1>4, <1>5, <1>6, <1>7

LEMMA NothingLostStep ==
  ASSUME PageTypes, Noticed, Threads, NothingLost, PageNext
  PROVE  NothingLost'
<1>1. ASSUME NEW h \in Tasks, Imported(h)
      PROVE  NothingLost'
  <2>1. UNCHANGED <<shown, kept, overlap>> /\ anon' = Cleared(task[h].id)
    BY <1>1 DEF Imported
  <2>2. CASE task[h].id = None
    BY <2>1, <2>2 DEF NothingLost, Cleared
  <2>3. CASE task[h].id # None
    <3>1. \A m \in Range(anon) : m \in kept \/ m.turn \in overlap
      BY <1>1, <2>3 DEF Threads, ThreadBy, Imported
    <3> QED BY <2>1, <3>1 DEF NothingLost
  <2> QED BY <2>2, <2>3
<1>2. CASE \A h \in Tasks : ~Imported(h)
  BY <1>2, AnonGrows, Grows DEF NothingLost
<1> QED BY <1>1, <1>2

------------------------------------------------------------------------------
(* Turns and what is told of them *)

LEMMA AskMoves ==
  ASSUME PageTypes, PageNext, NEW g \in Tasks
  PROVE  /\ task'[g].pc \in {"create", "created", "ask"} =>
              \/ task[g].pc \in {"create", "created", "ask"} /\ task'[g].turn = task[g].turn
              \/ (AskFirst(g) \/ AskIn(g)) /\ task'[g].turn = turns + 1
         /\ task'[g].pc \in Asking =>
              \/ task[g].pc \in Asking /\ task'[g].turn = task[g].turn
              \/ (AskAnon(g) \/ AskFirst(g) \/ AskIn(g)) /\ task'[g].turn = turns + 1
         /\ AskAnon(g) => task'[g].turn = turns + 1
<1>1. ASSUME task'[g] = task[g]
      PROVE  /\ task'[g].pc \in {"create", "created", "ask"} =>
                  task[g].pc \in {"create", "created", "ask"} /\ task'[g].turn = task[g].turn
             /\ task'[g].pc \in Asking => task[g].pc \in Asking /\ task'[g].turn = task[g].turn
  BY <1>1
<1>2. ASSUME NEW r, Become(g, r), r.pc \notin Asking
      PROVE  task'[g].pc \notin Asking
  BY <1>2, Becomes
<1>3. ASSUME Click(g)
      PROVE  \/ task'[g].pc \notin Asking
             \/ (AskAnon(g) \/ AskFirst(g) \/ AskIn(g)) /\ task'[g].turn = turns + 1
  <2>1. CASE AskAnon(g)
    BY <2>1, Becomes DEF AskAnon
  <2>2. CASE AskFirst(g)
    BY <2>2, Becomes DEF AskFirst
  <2>3. CASE AskIn(g)
    BY <2>3, Becomes DEF AskIn
  <2>4. CASE Login(g)
    BY <1>2, <2>4 DEF Login, Asking
  <2>5. ASSUME NEW c \in Chats, OpenChat(g, c) \/ RemoveChat(g, c)
        PROVE  task'[g].pc \notin Asking
    BY <1>2, <2>5 DEF OpenChat, RemoveChat, Asking
  <2> QED BY <1>3, <2>1, <2>2, <2>3, <2>4, <2>5 DEF Click
<1>4. ASSUME Continue(g)
      PROVE  \/ task'[g].pc \notin Asking
             \/ /\ task[g].pc \in Asking /\ task'[g].turn = task[g].turn
                /\ task'[g].pc \in {"create", "created", "ask"} => task[g].pc \in {"create", "created", "ask"}
  <2>1. CASE \/ QueryDone(g) \/ CreateFails(g) \/ Failed(g) \/ Listed(g)
             \/ Opened(g) \/ Removed(g) \/ LoginFails(g) \/ InitDone(g)
    BY <1>2, <2>1 DEF QueryDone, CreateFails, Failed, Listed, Opened, Removed, LoginFails, InitDone,
         Resting, Asking
  <2>2. CASE Create(g)
    BY <2>2, Becomes DEF Create, HandlerAt, Asking
  <2>3. CASE Created(g)
    BY <2>3, Becomes DEF Created, HandlerAt, Asking
  <2>4. CASE StoreTurn(g)
    <3>0. PICK r : Become(g, [pc |-> "replied", turn |-> task[g].turn, id |-> task[g].id, role |-> r])
      BY <2>4 DEF StoreTurn
    <3>1. task'[g].pc = "replied" /\ task'[g].turn = task[g].turn
      BY <3>0, Becomes
    <3> QED BY <2>4, <3>1 DEF StoreTurn, HandlerAt, Asking
  <2>5. CASE StoreFails(g)
    BY <2>5, Becomes DEF StoreFails, HandlerAt, Asking
  <2>6. CASE Answered(g)
    BY <2>6, Becomes DEF Answered, HandlerAt, Asking
  <2>7. CASE GetChat(g) \/ LoggedIn(g)
    BY <1>2, <2>7 DEF GetChat, LoggedIn, Resting, Asking
  <2>8. CASE DeleteChat(g)
    <3>1. [task[g] EXCEPT !.pc = "removed"].pc = "removed"
      <4>1. task[g] \in [pc : {"remove", "removed"}, id : Chats, close : BOOLEAN]
        BY <2>8, TaskFields DEF PageTypes, TaskState, DeleteChat, HandlerAt
      <4> QED BY <4>1
    <3>2. Become(g, [task[g] EXCEPT !.pc = "removed"]) \/ Become(g, Resting)
      BY <2>8 DEF DeleteChat
    <3> QED BY <1>2, <3>1, <3>2 DEF Resting, Asking
  <2>9. CASE Import(g) \/ ImportFails(g) \/ Imported(g)
    BY <1>2, <2>9 DEF Import, ImportFails, Imported, Asking
  <2> QED BY <1>4, <2>1, <2>2, <2>3, <2>4, <2>5, <2>6, <2>7, <2>8, <2>9 DEF Continue
<1>5. \/ task'[g] = task[g] \/ Click(g) \/ Continue(g)
  BY OneMoves DEF PageNext, NewChat, Logout
<1>6. AskAnon(g) => task'[g].turn = turns + 1 /\ task'[g].pc = "query"
  BY Becomes DEF AskAnon
<1>7. {"create", "created", "ask"} \subseteq Asking
  BY DEF Asking
<1> QED BY <1>1, <1>3, <1>4, <1>5, <1>6, <1>7

\* What is shown, and what is saved, that was not.
LEMMA ShownNew ==
  ASSUME PageNext, NEW m \in shown'
  PROVE  \/ m \in shown
         \/ \E h \in Tasks : AskAnon(h) /\ m = Msg("question", turns + 1)
         \/ \E h \in Tasks : QueryDone(h) /\ m = Msg("answer", task[h].turn)
BY Frames DEF AskAnon, QueryDone, Imported, AddAnon

LEMMA Imports ==
  ASSUME PageTypes, NEW h \in Tasks, Import(h)
  PROVE  /\ task[h].thread \in Seq(Message) /\ FreshId \in Chats /\ FreshId \notin given
         /\ \E n \in 0 .. Len(task[h].thread) :
              /\ saved' = [saved EXCEPT ![FreshId] = SubSeq(task[h].thread, 1, n)]
              /\ Range(SubSeq(task[h].thread, 1, n)) = {task[h].thread[i] : i \in 1 .. n}
              /\ kept' = kept \cup {task[h].thread[i] : i \in 1 .. n}
              /\ {task[h].thread[i] : i \in 1 .. n} \subseteq Range(task[h].thread)
              /\ again' \/ (n = Len(task[h].thread) /\ task'[h] = [pc |-> "imported", id |-> FreshId])
<1> DEFINE thread == task[h].thread
<1>1. thread \in Seq(Message) /\ FreshId \in Chats /\ FreshId \notin given
  BY TaskFields, Fresh DEF PageTypes, TaskState, Import, HandlerAt
<1>2. PICK n \in 0 .. Len(thread) :
        /\ saved' = [saved EXCEPT ![FreshId] = SubSeq(thread, 1, n)]
        /\ kept' = kept \cup {thread[i] : i \in 1 .. n}
        /\ again' \/ (n = Len(thread) /\ Become(h, [pc |-> "imported", id |-> FreshId]))
  BY DEF Import
<1>3. Become(h, [pc |-> "imported", id |-> FreshId]) => task'[h] = [pc |-> "imported", id |-> FreshId]
  BY Becomes
<1> HIDE DEF thread
<1>4. /\ DOMAIN SubSeq(thread, 1, n) = 1 .. n /\ DOMAIN thread = 1 .. Len(thread)
      /\ \A i \in 1 .. n : SubSeq(thread, 1, n)[i] = thread[i]
      /\ 1 .. n \subseteq 1 .. Len(thread)
  BY <1>1, <1>2
<1>5. Range(SubSeq(thread, 1, n)) = {thread[i] : i \in 1 .. n}
  BY <1>4 DEF Range
<1>6. {thread[i] : i \in 1 .. n} \subseteq Range(thread)
  BY <1>4 DEF Range
<1> USE DEF thread
<1> QED BY <1>1, <1>2, <1>3, <1>5, <1>6

LEMMA SavedNew ==
  ASSUME PageTypes, PageNext, NEW m \in SavedMsgs'
  PROVE  \/ m \in SavedMsgs
         \/ \E h \in Tasks : StoreTurn(h) /\ m \in Message /\ m.turn = task[h].turn
         \/ \E h \in Tasks : Import(h) /\ m \in Range(task[h].thread) /\ m \in kept'
<1>1. PICK c \in Chats : m \in Range(saved'[c])
  BY DEF SavedMsgs
<1>2. m \in Range(saved[c]) => m \in SavedMsgs
  BY DEF SavedMsgs
<1>3. ASSUME NEW h \in Tasks, StoreTurn(h), c = task[h].id
      PROVE  m \in Range(saved[c]) \/ (m \in Message /\ m.turn = task[h].turn)
  <2> DEFINE q == Msg("question", task[h].turn)
             a == Msg("answer", task[h].turn)
  <2>1. saved[c] \in Seq(Message) /\ task[h].turn \in Turns
    BY <1>3, TurnStored DEF PageTypes
  <2>2. q \in Message /\ a \in Message /\ q.turn = task[h].turn /\ a.turn = task[h].turn
    BY <2>1, MsgTyped
  <2>3. saved'[c] = Append(saved[c], q) \/ saved'[c] = Append(saved[c], q) \o <<a>>
    BY <1>3, TurnStored
  <2> HIDE DEF q, a
  <2>4. Range(Append(saved[c], q)) = Range(saved[c]) \cup {q}
    BY <2>1, <2>2, Appended
  <2>5. Range(Append(saved[c], q) \o <<a>>) = Range(saved[c]) \cup {q, a}
    BY <2>1, <2>2, Appended
  <2> QED BY <1>1, <2>2, <2>3, <2>4, <2>5
<1>4. ASSUME NEW h \in Tasks, StoreTurn(h), c # task[h].id
      PROVE  m \in Range(saved[c])
  BY <1>1, <1>4, TurnStored
<1>5. ASSUME NEW h \in Tasks, Import(h)
      PROVE  m \in Range(saved[c]) \/ (m \in Range(task[h].thread) /\ m \in kept')
  BY <1>1, <1>5, Imports DEF PageTypes
<1>6. ASSUME NEW h \in Tasks, DeleteChat(h) \/ Create(h)
      PROVE  m \in Range(saved[c])
  <2>1. Range(<<>>) = {}
    BY DEF Range
  <2>2. saved'[c] = saved[c] \/ saved'[c] = <<>>
    BY <1>6 DEF DeleteChat, Create, PageTypes, Server
  <2> QED BY <1>1, <2>1, <2>2
<1>7. CASE UNCHANGED Server
  BY <1>1, <1>2, <1>7 DEF Server
<1> QED BY <1>2, <1>3, <1>4, <1>5, <1>6, <1>7, Frames

LEMMA DistinctAppended ==
  ASSUME NEW s \in Seq(Message), NEW m \in Message, Distinct(s), m \notin Range(s)
  PROVE  Distinct(Append(s, m))
<1> HIDE DEF Message
<1>1. /\ DOMAIN Append(s, m) = 1 .. Len(s) + 1 /\ DOMAIN s = 1 .. Len(s)
      /\ \A i \in 1 .. Len(s) : Append(s, m)[i] = s[i]
      /\ Append(s, m)[Len(s) + 1] = m
  OBVIOUS
<1>2. \A i \in 1 .. Len(s) + 1 : i \in 1 .. Len(s) \/ i = Len(s) + 1
  OBVIOUS
<1>3. \A i \in 1 .. Len(s) : s[i] # m
  BY <1>1 DEF Range
<1> QED BY <1>1, <1>2, <1>3 DEF Distinct

LEMMA TurnNumbers ==
  ASSUME PageTypes, PageNext
  PROVE  /\ turns \in Nat /\ turns' \in Nat /\ turns' >= turns
         /\ \A m \in Message : m.turn \in Nat
         /\ \A t \in Turns : t \in Nat
<1>1. \A t \in Turns : t \in Nat
  BY ChatPageAssumption DEF Turns
<1>2. \A m \in Message : m.turn \in Turns
  BY DEF Message
<1>3. turns \in Nat /\ turns' \in Nat /\ turns' >= turns
  BY ScalarsTyped, ChatPageAssumption DEF PageTypes
<1> QED BY <1>1, <1>2, <1>3

\* What is shown of a turn was asked; nothing is shown of a turn that asks in a chat.
LEMMA AnonymousStep ==
  ASSUME PageTypes, OneSignIn, Threads, Anonymous, Untold, PageNext
  PROVE  Anonymous'
<1>1. turns \in Nat /\ turns' \in Nat /\ turns' >= turns /\ \A m \in Message : m.turn \in Nat
  BY TurnNumbers
<1>2. ASSUME NEW h \in Tasks, AskAnon(h)
      PROVE  /\ Msg("question", turns + 1) \in Message /\ Msg("question", turns + 1).turn = turns + 1
             /\ Msg("question", turns + 1) \notin shown \cup SavedMsgs /\ turns' = turns + 1
             /\ AddAnon(Msg("question", turns + 1))
  <2>1. /\ Msg("question", turns + 1) \in Message /\ Msg("question", turns + 1).turn = turns + 1
        /\ turns' = turns + 1
    BY <1>2, TurnOf, MsgTyped DEF AskAnon
  <2> QED BY <1>1, <1>2, <2>1 DEF Anonymous, AskAnon
<1>3. ASSUME NEW h \in Tasks, QueryDone(h)
      PROVE  /\ Msg("answer", task[h].turn) \in Message /\ Msg("answer", task[h].turn).turn = task[h].turn
             /\ Msg("answer", task[h].turn) \notin shown \cup SavedMsgs /\ task[h].turn <= turns
             /\ AddAnon(Msg("answer", task[h].turn)) \/ UNCHANGED <<anon, shown>>
  <2>1. task[h].turn \in Turns
    BY <1>3, TurnOf DEF QueryDone
  <2>2. Msg("answer", task[h].turn) \in Message /\ Msg("answer", task[h].turn).turn = task[h].turn
    BY <2>1, MsgTyped
  <2>3. Msg("answer", task[h].turn) \notin shown \cup SavedMsgs /\ task[h].turn <= turns
    BY <1>3, <2>2 DEF Untold, In, Asking, QueryDone, HandlerAt
  <2> QED BY <1>3, <2>2, <2>3 DEF QueryDone
<1>4. ASSUME NEW m \in Message, m \notin shown, AddAnon(m)
      PROVE  Distinct(anon') /\ Range(anon') \subseteq shown'
  <2>1. m \notin Range(anon) /\ anon \in Seq(Message) /\ Range(anon) \subseteq shown
    BY <1>4 DEF Anonymous, PageTypes
  <2>2. Range(Append(anon, m)) = Range(anon) \cup {m}
    BY <2>1, Appended
  <2> QED BY <1>4, <2>1, <2>2, DistinctAppended DEF AddAnon, Anonymous
<1>5. Distinct(anon') /\ Range(anon') \subseteq shown'
  <2>1. CASE UNCHANGED <<anon, shown>>
    BY <2>1 DEF Anonymous
  <2>2. ASSUME NEW h \in Tasks, Imported(h)
        PROVE  Distinct(anon') /\ Range(anon') \subseteq shown'
    <3>1. Distinct(<<>>) /\ Range(<<>>) = {}
      BY DEF Distinct, Range
    <3> QED BY <2>2, <3>1 DEF Imported, Cleared, Anonymous
  <2> QED BY <1>2, <1>3, <1>4, <2>1, <2>2, Frames
<1>6. ASSUME NEW h \in Tasks, Import(h)
      PROVE  Range(task[h].thread) \subseteq shown
  BY <1>6 DEF Threads, ThreadBy, Anonymous, Import, HandlerAt
<1>7. kept' \subseteq shown'
  <2>1. ASSUME NEW h \in Tasks, Import(h)
        PROVE  kept' \subseteq shown
    BY <1>6, <2>1, Imports DEF Anonymous
  <2> QED BY <2>1, Frames, Grows DEF Anonymous
<1>8. \A h \in In({"login", "import"})' : Distinct(task'[h].thread)
  <2> SUFFICES ASSUME NEW g \in Tasks, task'[g].pc \in {"login", "import"}
               PROVE  Distinct(task'[g].thread)
    BY DEF In
  <2>1. CASE task'[g] = task[g]
    BY <2>1 DEF Anonymous, In
  <2>2. CASE Login(g)
    BY <2>2, Becomes DEF Login, Anonymous
  <2>3. CASE LoggedIn(g)
    BY <2>3, Becomes DEF LoggedIn, Anonymous, In, HandlerAt
  <2>4. task'[g] = task[g] \/ Click(g) \/ Continue(g)
    BY OneMoves DEF PageNext, NewChat, Logout
  <2>5. ~AskAnon(g) /\ ~Import(g) /\ ~ImportFails(g) /\ ~Imported(g)
    BY Becomes DEF AskAnon, Import, ImportFails, Imported
  <2> QED BY <2>1, <2>2, <2>3, <2>4, <2>5, SignInMoves DEF SigningIn
<1>9. ASSUME NEW m \in shown' \cup SavedMsgs'
      PROVE  m.turn <= turns'
  <2>1. CASE m \in shown \cup SavedMsgs
    <3>1. m \in Message /\ m.turn <= turns
      BY <2>1 DEF Anonymous, PageTypes, SavedMsgs, Range
    <3> QED BY <1>1, <3>1
  <2>2. ASSUME NEW h \in Tasks, StoreTurn(h), m \in Message, m.turn = task[h].turn
        PROVE  m.turn <= turns'
    BY <1>1, <2>2 DEF Untold, In, Asking, StoreTurn, HandlerAt
  <2>3. ASSUME NEW h \in Tasks, Import(h), m \in Range(task[h].thread)
        PROVE  m \in shown
    BY <1>6, <2>3
  <2>4. ASSUME NEW h \in Tasks, AskAnon(h), m = Msg("question", turns + 1)
        PROVE  m.turn <= turns'
    BY <1>1, <1>2, <2>4
  <2>5. ASSUME NEW h \in Tasks, QueryDone(h), m = Msg("answer", task[h].turn)
        PROVE  m.turn <= turns'
    BY <1>1, <1>3, <2>5
  <2> QED BY <2>1, <2>2, <2>3, <2>4, <2>5, ShownNew, SavedNew
<1>10. ASSUME NEW m \in SavedMsgs', m \in shown'
       PROVE  m \in kept'
  <2>1. ASSUME NEW h \in Tasks, StoreTurn(h), m.turn = task[h].turn
        PROVE  FALSE
    <3>1. m \in shown
      <4>1. /\ \A g \in Tasks : AskAnon(g) => FALSE
            /\ \A g \in Tasks : QueryDone(g) => FALSE
        BY <2>1 DEF StoreTurn, AskAnon, QueryDone, HandlerAt, Become, PageTypes, History, AddAnon
      <4> QED BY <1>10, <4>1, ShownNew
    <3> QED BY <2>1, <3>1 DEF Untold, In, StoreTurn, HandlerAt
  <2>2. CASE m \in SavedMsgs
    <3>1. m \in shown
      BY <1>2, <1>3, <1>10, <2>2, ShownNew
    <3> QED BY <2>2, <3>1, Grows DEF Anonymous
  <2> QED BY <2>1, <2>2, SavedNew
<1> QED BY <1>5, <1>7, <1>8, <1>9, <1>10 DEF Anonymous

\* A turn that has still to be stored or answered has left nothing behind.
LEMMA UntoldStep ==
  ASSUME PageTypes, OneSignIn, Threads, Anonymous, Untold, PageNext
  PROVE  Untold'
<1> DEFINE Mute == {"query", "create", "created", "ask"}
<1>1. /\ turns \in Nat /\ turns' \in Nat /\ turns' >= turns
      /\ \A m \in Message : m.turn \in Nat
      /\ \A g \in Tasks : task[g].pc \in Asking => task[g].turn \in Nat /\ task[g].turn <= turns
      /\ \A m \in shown \cup SavedMsgs : m \in Message /\ m.turn <= turns
  <2>1. \A g \in Tasks : task[g].pc \in Asking => task[g].turn \in Turns
    BY TaskFields DEF PageTypes, TaskState
  <2>2. \A m \in shown \cup SavedMsgs : m \in Message
    BY DEF PageTypes, SavedMsgs, Range
  <2> QED BY <2>1, <2>2, TurnNumbers DEF Untold, Anonymous, In
<1>2. ASSUME NEW h \in Tasks, AskAnon(h) \/ AskFirst(h) \/ AskIn(h)
      PROVE  turns' = turns + 1 /\ turns + 1 \in Turns /\ SavedMsgs' = SavedMsgs
    BY <1>2, TurnOf DEF AskAnon, AskFirst, AskIn, SavedMsgs, Server
<1>3. ASSUME NEW h \in Tasks, Import(h)
      PROVE  Range(task[h].thread) \subseteq shown
  BY <1>3 DEF Threads, ThreadBy, Anonymous, Import, HandlerAt
<1>4. ASSUME NEW h \in Tasks, NEW g \in Tasks, StoreTurn(h) \/ QueryDone(h),
             task'[g].pc \in Mute, task[g].pc \in Mute
      PROVE  task[h].turn # task[g].turn
  <2>1. h # g
    BY <1>4, Becomes DEF StoreTurn, QueryDone, Resting
  <2> QED BY <1>4, <2>1 DEF Untold, In, StoreTurn, QueryDone, HandlerAt
\* What is new of another turn is of none that is not told.
<1>5. ASSUME NEW g \in Tasks, task[g].pc \in Mute, task'[g].pc \in Mute, task'[g].turn = task[g].turn,
             NEW m \in shown', m \notin shown
      PROVE  m.turn # task[g].turn
  <2>1. ASSUME NEW h \in Tasks, AskAnon(h), m = Msg("question", turns + 1)
        PROVE  m.turn # task[g].turn
    <3>1. m.turn = turns + 1
      BY <1>2, <2>1, MsgTyped
    <3> QED BY <1>1, <1>5, <3>1 DEF Asking
  <2>2. ASSUME NEW h \in Tasks, QueryDone(h), m = Msg("answer", task[h].turn)
        PROVE  m.turn # task[g].turn
    <3>1. m.turn = task[h].turn
      BY <2>2, TurnOf, MsgTyped DEF QueryDone
    <3> QED BY <1>4, <1>5, <2>2, <3>1
  <2> QED BY <1>5, <2>1, <2>2, ShownNew
<1>6. ASSUME NEW g \in Tasks, task[g].pc \in Mute, task'[g].pc \in Mute, task'[g].turn = task[g].turn,
             NEW m \in SavedMsgs', m.turn = task[g].turn
      PROVE  m \in SavedMsgs \/ m \in shown
  BY <1>3, <1>4, <1>6, SavedNew
<1>7. ASSUME NEW g \in Tasks, task'[g].pc \in Asking
      PROVE  task'[g].turn <= turns'
  <2>1. CASE task[g].pc \in Asking /\ task'[g].turn = task[g].turn
    BY <1>1, <2>1
  <2>2. CASE (AskAnon(g) \/ AskFirst(g) \/ AskIn(g)) /\ task'[g].turn = turns + 1
    BY <1>1, <1>2, <2>2
  <2> QED BY <1>7, <2>1, <2>2, AskMoves
<1>8. ASSUME NEW g \in Tasks, task'[g].pc = "query"
      PROVE  /\ Msg("answer", task'[g].turn) \notin shown'
             /\ \A m \in SavedMsgs' : m.turn = task'[g].turn => m \in shown'
  <2>1. CASE task'[g] = task[g]
    <3>1. task[g].pc \in Mute /\ task'[g].pc \in Mute /\ task[g].turn \in Turns
      BY <1>8, <2>1, TurnOf DEF HandlerAt
    <3>2. /\ Msg("answer", task[g].turn) \notin shown
          /\ \A m \in SavedMsgs : m.turn = task[g].turn => m \in shown
      BY <1>8, <2>1 DEF Untold, In
    <3>3. Msg("answer", task[g].turn).turn = task[g].turn
      BY <3>1, MsgTyped
    <3>4. Msg("answer", task[g].turn) \notin shown'
      BY <1>5, <2>1, <3>1, <3>2, <3>3
    <3>5. \A m \in SavedMsgs' : m.turn = task[g].turn => m \in shown'
      BY <1>6, <2>1, <3>1, <3>2, Grows
    <3> QED BY <2>1, <3>4, <3>5
  <2>2. CASE AskAnon(g)
    <3>1. task'[g].turn = turns + 1 /\ turns + 1 \in Turns /\ SavedMsgs' = SavedMsgs
      BY <1>2, <2>2, AskMoves
    <3>2. shown' = shown \cup {Msg("question", turns + 1)}
      BY <2>2 DEF AskAnon, AddAnon
    <3>3. /\ Msg("answer", turns + 1) # Msg("question", turns + 1)
          /\ Msg("answer", turns + 1).turn = turns + 1
      BY <3>1, MsgTyped DEF Msg
    <3>4. \A m \in shown \cup SavedMsgs : m.turn # turns + 1
      BY <1>1
    <3> QED BY <3>1, <3>2, <3>3, <3>4
  <2> QED BY <1>8, <2>1, <2>2, SignInFrom
<1>9. ASSUME NEW g \in Tasks, task'[g].pc \in {"create", "created", "ask"}, NEW m \in shown' \cup SavedMsgs'
      PROVE  m.turn # task'[g].turn
  <2>1. CASE task[g].pc \in {"create", "created", "ask"} /\ task'[g].turn = task[g].turn
    <3>1. \A x \in shown \cup SavedMsgs : x.turn # task[g].turn
      BY <2>1 DEF Untold, In
    <3> QED BY <1>5, <1>6, <1>9, <2>1, <3>1
  <2>2. CASE (AskFirst(g) \/ AskIn(g)) /\ task'[g].turn = turns + 1
    <3>1. shown' = shown /\ SavedMsgs' = SavedMsgs
      BY <1>2, <2>2 DEF AskFirst, AskIn
    <3> QED BY <1>1, <1>9, <2>2, <3>1
  <2> QED BY <1>9, <2>1, <2>2, AskMoves
<1>10. ASSUME NEW f \in Tasks, NEW g \in Tasks, task'[f].pc \in Mute, task'[g].pc \in Mute,
              task'[f].turn = task'[g].turn
       PROVE  f = g
  <2>1. ASSUME NEW e \in Tasks, task'[e].pc \in Mute
        PROVE  \/ task[e].pc \in Mute /\ task'[e].turn = task[e].turn
               \/ (AskAnon(e) \/ AskFirst(e) \/ AskIn(e)) /\ task'[e].turn = turns + 1
    <3>1. CASE task'[e].pc = "query"
      BY <3>1, SignInFrom, AskMoves
    <3>2. CASE task'[e].pc \in {"create", "created", "ask"}
      BY <3>2, AskMoves
    <3> QED BY <2>1, <3>1, <3>2
  <2>2. ASSUME NEW e \in Tasks, AskAnon(e) \/ AskFirst(e) \/ AskIn(e), NEW d \in Tasks, d # e
        PROVE  ~(AskAnon(d) \/ AskFirst(d) \/ AskIn(d))
    <3>1. task'[d] = task[d]
      BY <2>2, OneMoves DEF Click
    <3>2. AskAnon(d) \/ AskFirst(d) \/ AskIn(d) => task[d].pc = "idle" /\ task'[d].pc # "idle"
      BY Becomes DEF AskAnon, AskFirst, AskIn, HandlerAt
    <3> QED BY <3>1, <3>2
  <2>3. CASE /\ task[f].pc \in Mute /\ task'[f].turn = task[f].turn
             /\ task[g].pc \in Mute /\ task'[g].turn = task[g].turn
    BY <1>10, <2>3 DEF Untold, In
  <2>4. \A e \in Tasks : task[e].pc \in Mute => task[e].turn # turns + 1
    BY <1>1 DEF Asking
  <2> QED BY <1>10, <2>1, <2>2, <2>3, <2>4
<1> QED BY <1>7, <1>8, <1>9, <1>10 DEF Untold, In

------------------------------------------------------------------------------
(* Nothing is saved twice *)

LEMMA TwiceInOne ==
  ASSUME NEW f, NEW g, NEW c \in Chats, NoTwice(f), Distinct(g[c]),
         \A d \in Chats : d # c => g[d] = f[d],
         \A d \in Chats : d # c => \A m \in Range(g[c]) : m \notin Range(f[d])
  PROVE  NoTwice(g)
<1> SUFFICES ASSUME NEW a \in Chats, NEW b \in Chats, NEW i \in DOMAIN g[a], NEW j \in DOMAIN g[b],
                    g[a][i] = g[b][j]
             PROVE  a = b /\ i = j
  BY DEF NoTwice
<1>1. CASE a = c /\ b = c
  BY <1>1 DEF Distinct
<1>2. CASE a # c /\ b # c
  BY <1>2 DEF NoTwice
<1>3. CASE a = c /\ b # c
  BY <1>3 DEF Range
<1>4. CASE a # c /\ b = c
  BY <1>4 DEF Range
<1> QED BY <1>1, <1>2, <1>3, <1>4

LEMMA TurnSavedOnce ==
  ASSUME PageTypes, Untold, NEW h \in Tasks, StoreTurn(h), NoTwice(saved)
  PROVE  NoTwice(saved')
<1>1. PICK c \in Chats, q \in Message, a \in Message :
        c = task[h].id /\ q = Msg("question", task[h].turn) /\ a = Msg("answer", task[h].turn)
  BY TurnStored, MsgTyped
<1>2. /\ \A d \in Chats : d # c => saved'[d] = saved[d]
      /\ saved'[c] = Append(saved[c], q) \/ saved'[c] = Append(saved[c], q) \o <<a>>
  BY <1>1, TurnStored
<1>3. q # a /\ q \notin SavedMsgs /\ a \notin SavedMsgs
  <2>1. q.turn = task[h].turn /\ a.turn = task[h].turn /\ q.role # a.role
    BY <1>1, TurnStored, MsgTyped
  <2>2. \A m \in SavedMsgs : m.turn # task[h].turn
    BY DEF Untold, In, StoreTurn, HandlerAt
  <2> QED BY <2>1, <2>2
<1>4. PICK s \in Seq(Message) : s = saved[c]
  BY DEF PageTypes
<1>5. Distinct(s) /\ q \notin Range(s) /\ a \notin Range(s)
  BY <1>3, <1>4 DEF NoTwice, Distinct, SavedMsgs
<1>6. Distinct(Append(s, q)) /\ Append(s, q) \in Seq(Message) /\ Range(Append(s, q)) = Range(s) \cup {q}
  BY <1>5, DistinctAppended, Appended
<1>7. Distinct(Append(s, q) \o <<a>>) /\ Range(Append(s, q) \o <<a>>) = Range(s) \cup {q, a}
  <2>1. a \notin Range(Append(s, q))
    BY <1>3, <1>5, <1>6
  <2>2. Distinct(Append(Append(s, q), a))
    BY <1>6, <2>1, DistinctAppended
  <2>3. Append(Append(s, q), a) = Append(s, q) \o <<a>>
    OBVIOUS
  <2> QED BY <2>2, <2>3, Appended
<1>8. Distinct(saved'[c]) /\ Range(saved'[c]) \subseteq Range(s) \cup {q, a}
  BY <1>2, <1>4, <1>6, <1>7
<1>9. ASSUME NEW d \in Chats, d # c, NEW m \in Range(saved'[c])
      PROVE  m \notin Range(saved[d])
  <2>1. \A x \in Range(s) : x \notin Range(saved[d])
    BY <1>4, <1>9 DEF NoTwice, Range
  <2>2. q \notin Range(saved[d]) /\ a \notin Range(saved[d])
    BY <1>3 DEF SavedMsgs
  <2> QED BY <1>8, <1>9, <2>1, <2>2
<1> QED BY <1>2, <1>8, <1>9, TwiceInOne

\* What the importing handler holds, the page has, and none of it was imported.
LEMMA ImportedOnce ==
  ASSUME PageTypes, OneSignIn, Threads, Anonymous, Once, ~again, ~again', NEW h \in Tasks, Import(h)
  PROVE  NoTwice(saved') /\ task'[h].pc = "imported" /\ task'[h].id # None
<1>1. PICK c \in Chats, s \in Seq(Message) :
        /\ c = FreshId /\ s = task[h].thread
        /\ saved' = [saved EXCEPT ![c] = SubSeq(s, 1, Len(s))]
        /\ task'[h] = [pc |-> "imported", id |-> c]
  BY Imports
<1>2. SubSeq(s, 1, Len(s)) = s
  OBVIOUS
<1>3. saved'[c] = s /\ \A d \in Chats : d # c => saved'[d] = saved[d]
  BY <1>1, <1>2 DEF PageTypes
<1>4. Distinct(s) /\ Range(s) \subseteq Range(anon)
  BY <1>1 DEF Anonymous, Threads, ThreadBy, In, Import, HandlerAt
<1>5. Range(anon) \cap kept = {}
  <2>1. ASSUME NEW g \in Tasks, task[g].pc = "imported"
        PROVE  FALSE
    BY <2>1 DEF OneSignIn, In, SigningIn, Import, HandlerAt
  <2> QED BY <2>1 DEF Once, In
<1>6. ASSUME NEW d \in Chats, NEW m \in Range(s)
      PROVE  m \notin Range(saved[d])
  BY <1>4, <1>5 DEF Anonymous, SavedMsgs
<1>7. NoTwice(saved)
  BY DEF Once
<1>8. NoTwice(saved')
  BY <1>3, <1>4, <1>6, <1>7, TwiceInOne
<1> QED BY <1>1, <1>8, ChatPageAssumption

LEMMA OnceStep ==
  ASSUME PageTypes, OneSignIn, Threads, Anonymous, Untold, Once, PageNext
  PROVE  Once'
<1> SUFFICES ASSUME ~again'
             PROVE  /\ NoTwice(saved)'
                    /\ (\E h \in In({"imported"})' : task'[h].id # None) \/ Range(anon') \cap kept' = {}
  BY DEF Once
<1>1. ~again
  BY Grows
<1>2. NoTwice(saved)
  BY <1>1 DEF Once
<1>3. NoTwice(saved)'
  <2>1. ASSUME NEW h \in Tasks, StoreTurn(h)
        PROVE  NoTwice(saved')
    BY <1>2, <2>1, TurnSavedOnce
  <2>2. ASSUME NEW h \in Tasks, Import(h)
        PROVE  NoTwice(saved')
    BY <1>1, <2>2, ImportedOnce
  <2>3. ASSUME NEW h \in Tasks, DeleteChat(h)
        PROVE  NoTwice(saved')
    <3>1. \A d \in Chats : saved'[d] = saved[d] \/ saved'[d] = <<>>
      BY <2>3 DEF DeleteChat, PageTypes, Server
    <3> QED BY <1>2, <3>1 DEF NoTwice
  <2>4. CASE saved' = saved
    BY <1>2, <2>4 DEF NoTwice
  <2>5. NoTwice(saved')
    BY <2>1, <2>2, <2>3, <2>4, Frames DEF Create, Server
  <2> QED BY <2>5 DEF NoTwice
<1>4. (\E h \in In({"imported"})' : task'[h].id # None) \/ Range(anon') \cap kept' = {}
  <2>1. ASSUME NEW h \in Tasks, Import(h)
        PROVE  \E g \in In({"imported"})' : task'[g].id # None
    BY <1>1, <2>1, ImportedOnce DEF In
  <2>2. CASE \E h \in In({"imported"}) : task[h].id # None
    <3>1. PICK h \in Tasks : task[h].pc = "imported" /\ task[h].id # None
      BY <2>2 DEF In
    <3>2. CASE task'[h] = task[h]
      BY <3>1, <3>2 DEF In
    <3>3. CASE task'[h] # task[h]
      <4>1. Imported(h)
        <5>1. Click(h) \/ Continue(h)
          BY <3>3, OneMoves DEF PageNext, NewChat, Logout
        <5> QED BY <3>1, <5>1 DEF Click, Continue, HandlerAt,
              AskAnon, AskFirst, AskIn, Login, OpenChat, RemoveChat,
              QueryDone, Create, CreateFails, Created, StoreTurn, StoreFails, Answered, Failed, Listed,
              GetChat, Opened, DeleteChat, Removed, LoginFails, LoggedIn, Import, ImportFails, InitDone
      <4>2. anon' = <<>>
        BY <3>1, <4>1 DEF Imported, Cleared
      <4>3. Range(<<>>) = {}
        BY DEF Range
      <4> QED BY <4>2, <4>3
    <3> QED BY <3>2, <3>3
  <2>3. ASSUME ~\E h \in In({"imported"}) : task[h].id # None, \A h \in Tasks : ~Import(h)
        PROVE  Range(anon') \cap kept' = {}
    <3>1. Range(anon) \cap kept = {} /\ kept' = kept
      BY <1>1, <2>3, Frames DEF Once
    <3>2. \A m \in Range(anon') : m \in Range(anon) \/ m \notin shown
      <4>1. CASE UNCHANGED <<anon, shown>>
        BY <4>1
      <4>2. ASSUME NEW h \in Tasks, Imported(h)
            PROVE  Range(anon') \subseteq Range(anon)
        <5>1. Range(<<>>) = {}
          BY DEF Range
        <5> QED BY <4>2, <5>1 DEF Imported, Cleared
      <4>3. ASSUME NEW m \in Message, m \notin shown, AddAnon(m)
            PROVE  \A x \in Range(anon') : x \in Range(anon) \/ x \notin shown
        <5>1. anon \in Seq(Message) /\ anon' = Append(anon, m)
          BY <4>3 DEF AddAnon, PageTypes
        <5>2. Range(Append(anon, m)) = Range(anon) \cup {m}
          BY <4>3, <5>1, Appended
        <5> QED BY <4>3, <5>1, <5>2
      <4>4. ASSUME NEW h \in Tasks, AskAnon(h)
            PROVE  \E m \in Message : m \notin shown /\ AddAnon(m)
        <5>1. /\ Msg("question", turns + 1) \in Message /\ Msg("question", turns + 1).turn = turns + 1
              /\ AddAnon(Msg("question", turns + 1))
          BY <4>4, TurnOf, MsgTyped DEF AskAnon
        <5>2. \A m \in shown : m.turn # turns + 1
          BY TurnNumbers DEF Anonymous, PageTypes
        <5> QED BY <5>1, <5>2
      <4>5. ASSUME NEW h \in Tasks, QueryDone(h), ~UNCHANGED <<anon, shown>>
            PROVE  \E m \in Message : m \notin shown /\ AddAnon(m)
        <5>1. Msg("answer", task[h].turn) \in Message
          BY <4>5, TurnOf, MsgTyped DEF QueryDone
        <5>2. Msg("answer", task[h].turn) \notin shown
          BY <4>5 DEF Untold, In, QueryDone, HandlerAt
        <5> QED BY <4>5, <5>1, <5>2 DEF QueryDone
      <4> QED BY <4>1, <4>2, <4>3, <4>4, <4>5, Frames
    <3> QED BY <3>1, <3>2 DEF Anonymous
  <2> QED BY <2>1, <2>2, <2>3
<1> QED BY <1>3, <1>4

------------------------------------------------------------------------------
(* The invariant *)

LEMMA PageInvInit ==
  ASSUME PageInit
  PROVE  PageInv
<1>1. \A h \in Tasks : task[h].pc = "idle"
  BY DEF PageInit, Resting
<1>2. Range(anon) = {} /\ SavedMsgs = {}
  BY DEF PageInit, Range, SavedMsgs
<1>3. PageTypes
  <2>1. <<>> \in Seq(Message) /\ 0 \in 0 .. MaxTurns
    BY ChatPageAssumption
  <2>2. saved \in [Chats -> Seq(Message)] /\ task \in [Tasks -> {Resting} \cup Task]
    BY <2>1 DEF PageInit
  <2> QED BY <2>1, <2>2 DEF PageTypes, PageInit
<1>4. IdsGiven /\ OneTurn /\ Composer
  BY <1>1 DEF PageInit, IdsGiven, OneTurn, Composer, In, Asking, HandlerAt
<1>5. Awaited /\ ShownIsSaved
  BY <1>1 DEF PageInit, Awaited, AwaitedBy, ShownIsSaved, HandlerAt
<1>6. OneSignIn /\ Noticed /\ Threads /\ NothingLost
  BY <1>1 DEF PageInit, OneSignIn, Noticed, Signing, Threads, ThreadBy, NothingLost, In, SigningIn, HandlerAt
<1>7. Anonymous
  <2>1. Distinct(anon)
    BY DEF PageInit, Distinct
  <2>2. shown = {} /\ kept = {}
    BY DEF PageInit
  <2> QED BY <1>1, <1>2, <2>1, <2>2 DEF Anonymous, In
<1>8. Untold
  BY <1>1 DEF Untold, In, Asking
<1>9. Once
  BY <1>2 DEF PageInit, Once, NoTwice
<1> QED BY <1>3, <1>4, <1>5, <1>6, <1>7, <1>8, <1>9 DEF PageInv

LEMMA PageInvStep ==
  ASSUME PageInv, [PageNext]_pageVars
  PROVE  PageInv'
<1>1. CASE UNCHANGED pageVars
  <2>1. (PageTypes /\ IdsGiven)'
    BY <1>1 DEF PageInv, pageVars, PageTypes, IdsGiven, HandlerAt
  <2>2. (OneTurn /\ Composer /\ OneSignIn /\ Noticed)'
    BY <1>1 DEF PageInv, pageVars, OneTurn, Composer, OneSignIn, Noticed, Signing, In
  <2>3. (Awaited /\ ShownIsSaved)'
    BY <1>1 DEF PageInv, pageVars, Awaited, AwaitedBy, ShownIsSaved, HandlerAt
  <2>4. (Threads /\ NothingLost)'
    BY <1>1 DEF PageInv, pageVars, Threads, ThreadBy, NothingLost, HandlerAt
  <2>5. (Anonymous /\ Untold)'
    BY <1>1 DEF PageInv, pageVars, Anonymous, Untold, SavedMsgs, In
  <2>6. Once'
    BY <1>1 DEF PageInv, pageVars, Once, NoTwice, In
  <2> QED BY <2>1, <2>2, <2>3, <2>4, <2>5, <2>6 DEF PageInv
<1>2. CASE PageNext
  <2>1. PageTypes' /\ IdsGiven'
    BY <1>2, TypesStep DEF PageInv
  <2>2. OneTurn' /\ Composer'
    BY <1>2, OneTurnStep DEF PageInv
  <2>3. Awaited' /\ ShownIsSaved'
    BY <1>2, AwaitedStep, ShownStep DEF PageInv
  <2>4. OneSignIn' /\ Noticed' /\ Threads' /\ NothingLost'
    BY <1>2, OneSignInStep, NoticedStep, ThreadsStep, NothingLostStep DEF PageInv
  <2>5. Anonymous' /\ Untold' /\ Once'
    BY <1>2, AnonymousStep, UntoldStep, OnceStep DEF PageInv
  <2> QED BY <2>1, <2>2, <2>3, <2>4, <2>5 DEF PageInv
<1> QED BY <1>1, <1>2

\* The inductive invariant: what the handlers of page.tsx hold while they await a call,
\* against the page and the server they come back to.
LEMMA PageInvariant == PageSpec => []PageInv
<1>1. PageInit => PageInv
  BY PageInvInit
<1>2. PageInv /\ [PageNext]_pageVars => PageInv'
  BY PageInvStep
<1> QED BY <1>1, <1>2, PTL DEF PageSpec

\* The types, and the composer: it is off just while send awaits an answer, unless a
\* question was asked while send was creating a chat.
THEOREM PageTyped == PageSpec => []PageTypeOK
<1>1. PageInv => PageTypeOK
  <2> SUFFICES ASSUME PageInv
               PROVE  PageTypeOK
    OBVIOUS
  <2>1. active = None \/ (active.id \in Chats /\ active.msgs \in Seq(Message))
    BY DEF PageInv, PageTypes
  <2>2. PageTypes /\ Composer
    BY DEF PageInv
  <2> QED BY <2>1, <2>2 DEF PageTypes, Composer, PageTypeOK
<1> QED BY <1>1, PageInvariant, PTL

\* Whatever was clicked while send awaited its answer, and whichever chat open put on
\* screen since, an answer on screen is saved in the chat it is shown in, provided that
\* chat stayed on screen from the question on.
THEOREM AnswersInTheirChat == PageSpec => []ShownIsSaved
<1>1. PageInv => ShownIsSaved
  BY DEF PageInv
<1> QED BY <1>1, PageInvariant, PTL

\* onLoggedIn imports the thread of the render it closes over and then clears the page's:
\* what was shown anonymously is on the page or imported, unless its turn was under way
\* during the sign-in.
THEOREM ThreadNotLost == PageSpec => []NothingLost
<1>1. PageInv => NothingLost
  BY DEF PageInv
<1> QED BY <1>1, PageInvariant, PTL

\* No sequence of questions, sign-ins and imports saves a message twice, unless the answer
\* to an import that was stored is lost.
THEOREM MessagesSavedOnce == PageSpec => []SavedOnce
<1>1. PageInv => SavedOnce
  <2> SUFFICES ASSUME PageInv, ~again, NEW m \in Message
               PROVE  Cardinality({p \in Chats \X (1 .. 2 * MaxTurns) :
                                     p[2] \in DOMAIN saved[p[1]] /\ saved[p[1]][p[2]] = m}) <= 1
    BY DEF SavedOnce
  <2> DEFINE P == {p \in Chats \X (1 .. 2 * MaxTurns) :
                     p[2] \in DOMAIN saved[p[1]] /\ saved[p[1]][p[2]] = m}
  <2>1. \A p, r \in P : p = r
    <3> SUFFICES ASSUME NEW p \in P, NEW r \in P
                 PROVE  p = r
      OBVIOUS
    <3>1. p = <<p[1], p[2]>> /\ r = <<r[1], r[2]>> /\ p[1] \in Chats /\ r[1] \in Chats
      OBVIOUS
    <3>2. p[1] = r[1] /\ p[2] = r[2]
      BY <3>1 DEF PageInv, Once, NoTwice
    <3> QED BY <3>1, <3>2
  <2> HIDE DEF P
  <2>2. P = {} \/ \E p : P = {p}
    BY <2>1
  <2>3. Cardinality(P) <= 1
    <3>1. Cardinality({}) = 0
      BY FS_EmptySet
    <3>2. ASSUME NEW p, P = {p}
          PROVE  Cardinality(P) = 1
      BY <3>2, FS_Singleton
    <3>3. Cardinality(P) = 0 \/ Cardinality(P) = 1
      BY <2>2, <3>1, <3>2
    <3> QED BY <3>3
  <2> QED BY <2>3 DEF P
<1> QED BY <1>1, PageInvariant, PTL

\* The composer that send turns off keeps a chat to one question under way, unless one
\* was asked in the gap while send was creating a chat.
THEOREM OneQuestionPerChat == PageSpec => []OneAskPerChat
<1>1. PageInv => OneAskPerChat
  BY DEF PageInv, OneTurn, OneAskPerChat, In, Asking
<1> QED BY <1>1, PageInvariant, PTL
==============================================================================
