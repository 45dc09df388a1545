---------------------------- MODULE StorageProofs -----------------------------
(*****************************************************************************)
(* Proofs about what the SQL database keeps for everyone: the wrapper around *)
(* its connections (Database), and the refresh tokens in its tables with the *)
(* clients that hold the other half of them (Sessions).                      *)
(*****************************************************************************)
EXTENDS Database, Sessions, SequenceTheorems, FiniteSetTheorems, TLAPS

(*****************************************************************************)
(* Database: what it promises a thread that has its connection to itself, in *)
(* whatever company: an operation that returned is committed, one that raised*)
(* left nothing, and transaction() can always start.  The first fails for    *)
(* threads that share one: Rollback takes what others wrote.                 *)
(*                                                                           *)
(* AllOrNothing speaks of threads between operations only, so it is not      *)
(* inductive.  Local says where the writes of an operation are at every point*)
(* of it: executed ones are pending until the commit, none is durable before,*)
(* and the transaction is open exactly as long.  A step of another thread    *)
(* leaves it alone: it reaches its own connection and the writes pending     *)
(* there, among which, by Home, there is none of t's.                        *)
(*****************************************************************************)
\* What holds of t's writes when its operation is over.
Settled(t) ==
  /\ outcome[t] = "returned" => {t} \X (1 .. size[t]) \subseteq durable
  /\ outcome[t] = "raised" => Marks(t) \cap durable = {}

Local(t) == LET c == Uses[t] IN
  /\ pending[c] \subseteq Marks(t)
  /\ at[t] = "out" => open[c] = "idle" /\ auto[c] = Postgres /\ Settled(t)
  /\ at[t] \in {"body", "commit", "rollback"} => auto[c] = FALSE /\ Marks(t) \cap durable = {}
  /\ at[t] = "body" => /\ pending[c] = {t} \X (1 .. done[t])
                       /\ done[t] < size[t] /\ open[c] # "failed"
                       /\ open[c] = "idle" => done[t] = 0
  /\ at[t] = "commit" => open[c] = "open" /\ pending[c] = {t} \X (1 .. size[t])
  /\ at[t] = "reset" => Postgres /\ open[c] = "idle" /\ Settled(t)

------------------------------------------------------------------------------
(* Types, for any assignment of connections to threads. *)

\* TypeOK and the two facts about the place of a thread that it rests on.
TypeInv ==
  /\ TypeOK
  /\ \A t \in Threads : at[t] = "reset" => Postgres
  /\ \A t \in Threads : at[t] = "body" => done[t] < size[t]

LEMMA InitTypeInv == Init => TypeInv
BY DatabaseAssumption DEF Init, TypeInv, TypeOK

\* Executing one write keeps the state of connections and writes well typed.
LEMMA ExecuteType ==
  ASSUME TypeOK, NEW c \in Conns, NEW w \in Writes,
         NEW p \in [Conns -> SUBSET Writes], NEW d \in SUBSET Writes,
         \A b \in Conns : p[b] \subseteq pending[b],
         Execute(c, w, p, d)
  PROVE  /\ open' \in [Conns -> {"idle", "open", "failed"}]
         /\ pending' \in [Conns -> SUBSET Writes]
         /\ durable' \subseteq Writes
         /\ \A b \in Conns : auto[b] => open'[b] = "idle"
         /\ \A b \in Conns : open'[b] = "idle" => pending'[b] = {}
<1>1. CASE auto[c]
  <2>1. durable' = d \cup {w} /\ pending' = p /\ open' = open
    BY <1>1 DEF Execute
  <2>2. \A b \in Conns : open[b] = "idle" => p[b] = {}
    BY DEF TypeOK
  <2> QED BY <2>1, <2>2 DEF TypeOK
<1>2. CASE ~auto[c]
  <2>1. /\ durable' = d /\ pending' = [p EXCEPT ![c] = @ \cup {w}]
        /\ open' = [open EXCEPT ![c] = "open"]
    BY <1>2 DEF Execute
  <2> QED BY <1>2, <2>1 DEF TypeOK
<1> QED BY <1>1, <1>2

LEMMA FreshType ==
  ASSUME TypeOK, NEW t \in Threads, Fresh(t, pending, durable)
  PROVE  /\ pending' \in [Conns -> SUBSET Writes]
         /\ durable' \subseteq Writes
         /\ \A b \in Conns : pending'[b] \subseteq pending[b]
BY DEF TypeOK, Fresh

LEMMA NextTypeInv == TypeInv /\ [Next]_vars => TypeInv'
<1> SUFFICES ASSUME TypeInv, [Next]_vars PROVE TypeInv'
  OBVIOUS
<1> USE DatabaseAssumption DEF TypeInv
<1>0. TypeOK
  OBVIOUS
<1>1. ASSUME NEW t \in Threads, Step(t) PROVE TypeInv'
  <2>0. Uses[t] \in Conns
    OBVIOUS
  <2>1. ASSUME NEW n \in 1 .. MaxWrites, Enter(t, n) PROVE TypeInv'
    <3>1. Fresh(t, pending, durable)
      BY <2>1 DEF Enter
    <3> HIDE DEF Fresh
    <3> QED BY <1>0, <2>0, <2>1, <3>1, FreshType DEF Enter, TypeOK
  <2>2. CASE EnterRaises(t)
    <3>1. Fresh(t, pending, durable)
      BY <2>2 DEF EnterRaises
    <3> QED BY <1>0, <2>0, <2>2, <3>1, FreshType DEF EnterRaises, TypeOK
  <2>3. CASE Statement(t)
    <3>1. at[t] = "body" /\ done[t] + 1 \in 1 .. MaxWrites
      BY <2>3 DEF Statement, TypeOK
    <3>2. <<t, done[t] + 1>> \in Writes
      BY <3>1 DEF Writes
    <3>3. /\ open' \in [Conns -> {"idle", "open", "failed"}]
          /\ pending' \in [Conns -> SUBSET Writes]
          /\ durable' \subseteq Writes
          /\ \A b \in Conns : auto[b] => open'[b] = "idle"
          /\ \A b \in Conns : open'[b] = "idle" => pending'[b] = {}
      BY <1>0, <2>0, <2>3, <3>2, ExecuteType DEF Statement, TypeOK
    <3> QED BY <2>3, <3>1, <3>3 DEF Statement, TypeOK
  <2>4. CASE StatementRaises(t)
    BY <2>0, <2>4 DEF StatementRaises, TypeOK
  <2>5. CASE Commit(t)
    BY <2>0, <2>5 DEF Commit, After, TypeOK
  <2>10. CASE CommitRaises(t)
    BY <2>0, <2>10 DEF CommitRaises, TypeOK
  <2>6. CASE Rollback(t)
    BY <2>0, <2>6 DEF Rollback, After, TypeOK
  <2>7. CASE Reset(t)
    BY <2>0, <2>7 DEF Reset, TypeOK
  <2>8. CASE Query(t)
    BY <2>0, <2>8 DEF Query, TypeOK
  <2>9. CASE Plain(t)
    <3> DEFINE p == [b \in Conns |-> pending[b] \ Marks(t)]
               d == durable \ Marks(t)
    <3>1. p \in [Conns -> SUBSET Writes] /\ d \in SUBSET Writes
      BY DEF TypeOK
    <3>2. \A b \in Conns : p[b] \subseteq pending[b]
      OBVIOUS
    <3>3. <<t, 1>> \in Writes
      BY DEF Writes
    <3>4. Execute(Uses[t], <<t, 1>>, p, d)
      BY <2>9 DEF Plain
    <3> HIDE DEF p, d
    <3>5. /\ open' \in [Conns -> {"idle", "open", "failed"}]
          /\ pending' \in [Conns -> SUBSET Writes]
          /\ durable' \subseteq Writes
          /\ \A b \in Conns : auto[b] => open'[b] = "idle"
          /\ \A b \in Conns : open'[b] = "idle" => pending'[b] = {}
      BY <1>0, <2>0, <3>1, <3>2, <3>3, <3>4, ExecuteType
    <3> QED BY <2>9, <3>5 DEF Plain, TypeOK
  <2> QED BY <1>1, <2>1, <2>2, <2>3, <2>4, <2>5, <2>6, <2>7, <2>8, <2>9, <2>10 DEF Step
<1>2. CASE UNCHANGED vars
  BY <1>2 DEF vars, TypeOK
<1> QED BY <1>1, <1>2 DEF Next

\* The state keeps its types, and autocommit is never on inside a transaction,
\* however many threads share a connection.
THEOREM TypeCorrect == Spec => []TypeOK
<1>1. Init => TypeInv
  BY InitTypeInv
<1>2. TypeInv /\ [Next]_vars => TypeInv'
  BY NextTypeInv
<1>3. TypeInv => TypeOK
  BY DEF TypeInv
<1> QED BY <1>1, <1>2, <1>3, PTL DEF Spec

------------------------------------------------------------------------------
(* Whose writes are in which transaction, for any assignment too. *)

\* The writes of two threads are different.
LEMMA MarksDisjoint ==
  ASSUME NEW t \in Threads, NEW u \in Threads, u # t
  PROVE  Marks(t) \cap Marks(u) = {}
BY DEF Marks

\* The open transaction of a connection holds writes of its own threads only.
Home == \A c \in Conns, t \in Threads : Uses[t] # c => pending[c] \cap Marks(t) = {}

\* Where the writes that a step adds come from.
LEMMA StepGrows ==
  ASSUME TypeInv, NEW t \in Threads, Step(t)
  PROVE  /\ \A c \in Conns : pending'[c] \subseteq
                pending[c] \cup (IF c = Uses[t] THEN Marks(t) ELSE {})
         /\ durable' \subseteq durable \cup pending[Uses[t]] \cup Marks(t)
<1>1. TypeOK /\ Uses[t] \in Conns
  BY DatabaseAssumption DEF TypeInv
<1>2. CASE \E n \in 1 .. MaxWrites : Enter(t, n)
  BY <1>1, <1>2 DEF Enter, Fresh
<1>3. CASE EnterRaises(t)
  BY <1>1, <1>3 DEF EnterRaises, Fresh
<1>4. CASE Statement(t)
  <2>1. <<t, done[t] + 1>> \in Marks(t)
    BY <1>4, DatabaseAssumption DEF Statement, TypeInv, TypeOK, Marks
  <2> QED BY <1>1, <1>4, <2>1 DEF Statement, Execute, TypeOK
<1>5. CASE StatementRaises(t) \/ Reset(t) \/ Query(t)
  BY <1>5 DEF StatementRaises, Reset, Query
<1>6. CASE Commit(t) \/ CommitRaises(t) \/ Rollback(t)
  BY <1>1, <1>6 DEF Commit, CommitRaises, Rollback, TypeOK
<1>7. CASE Plain(t)
  <2> DEFINE p == [b \in Conns |-> pending[b] \ Marks(t)]
             d == durable \ Marks(t)
  <2>1. <<t, 1>> \in Marks(t)
    BY DatabaseAssumption DEF Marks
  <2>2. d \subseteq durable /\ p \in [Conns -> SUBSET Writes]
        /\ \A b \in Conns : p[b] \subseteq pending[b]
    BY <1>1 DEF TypeOK
  <2>3. Execute(Uses[t], <<t, 1>>, p, d)
    BY <1>7 DEF Plain
  <2> HIDE DEF p, d
  <2> QED BY <1>1, <2>1, <2>2, <2>3 DEF Execute
<1> QED BY <1>2, <1>3, <1>4, <1>5, <1>6, <1>7 DEF Step

LEMMA NextHome == TypeInv /\ Home /\ [Next]_vars => Home'
<1> SUFFICES ASSUME TypeInv, Home, [Next]_vars PROVE Home'
  OBVIOUS
<1>1. ASSUME NEW t \in Threads, Step(t),
             NEW c \in Conns, NEW u \in Threads, Uses[u] # c
      PROVE  pending'[c] \cap Marks(u) = {}
  <2>1. pending[c] \cap Marks(u) = {}
    BY <1>1 DEF Home
  <2>2. pending'[c] \subseteq pending[c] \cup (IF c = Uses[t] THEN Marks(t) ELSE {})
    BY <1>1, StepGrows
  <2>3. c = Uses[t] => Marks(t) \cap Marks(u) = {}
    BY <1>1, MarksDisjoint
  <2> QED BY <2>1, <2>2, <2>3
<1>2. CASE UNCHANGED vars
  BY <1>2 DEF vars, Home, Marks
<1> QED BY <1>1, <1>2 DEF Next, Home, Marks

------------------------------------------------------------------------------
(* Threads with connections of their own. *)

Inv == TypeInv /\ Home /\ (\A t \in Threads : Alone(t) => Local(t))

LEMMA InitInv == Init => Inv
<1> SUFFICES ASSUME Init PROVE Inv
  OBVIOUS
<1>1. TypeInv
  BY InitTypeInv
<1>2. ASSUME NEW t \in Threads PROVE Local(t)
  BY DatabaseAssumption DEF Init, Local, Settled
<1>3. Home
  BY DEF Init, Home
<1> QED BY <1>1, <1>2, <1>3 DEF Inv

\* What a step of t leaves of another thread u.
LEMMA OthersStay ==
  ASSUME Inv, NEW t \in Threads, Step(t), NEW u \in Threads, u # t, Alone(u)
  PROVE  /\ at'[u] = at[u] /\ size'[u] = size[u]
         /\ done'[u] = done[u] /\ outcome'[u] = outcome[u]
         /\ open'[Uses[u]] = open[Uses[u]] /\ auto'[Uses[u]] = auto[Uses[u]]
         /\ pending'[Uses[u]] = pending[Uses[u]]
         /\ durable' \cap Marks(u) = durable \cap Marks(u)
<1> DEFINE Stay == /\ at'[u] = at[u] /\ size'[u] = size[u]
                   /\ done'[u] = done[u] /\ outcome'[u] = outcome[u]
                   /\ open'[Uses[u]] = open[Uses[u]] /\ auto'[Uses[u]] = auto[Uses[u]]
                   /\ pending'[Uses[u]] = pending[Uses[u]]
                   /\ durable' \cap Marks(u) = durable \cap Marks(u)
<1>1. Uses[u] # Uses[t] /\ Uses[u] \in Conns /\ Uses[t] \in Conns
  BY DatabaseAssumption DEF Alone
<1>2. Marks(t) \cap Marks(u) = {}
  BY MarksDisjoint
<1>3. pending[Uses[u]] \subseteq Marks(u) /\ pending[Uses[t]] \cap Marks(u) = {}
  BY <1>1 DEF Inv, Local, Home
<1>4. TypeOK
  BY DEF Inv, TypeInv
<1>5. ASSUME Fresh(t, pending, durable)
      PROVE  /\ pending'[Uses[u]] = pending[Uses[u]]
             /\ durable' \cap Marks(u) = durable \cap Marks(u)
  <2>1. pending'[Uses[u]] = pending[Uses[u]] \ Marks(t) /\ durable' = durable \ Marks(t)
    BY <1>1, <1>5 DEF Fresh
  <2> QED BY <1>2, <1>3, <2>1
<1>6. ASSUME NEW w \in Marks(t), NEW p \in [Conns -> SUBSET Writes], NEW d,
             p[Uses[u]] = pending[Uses[u]], d \cap Marks(u) = durable \cap Marks(u),
             Execute(Uses[t], w, p, d)
      PROVE  /\ open'[Uses[u]] = open[Uses[u]] /\ pending'[Uses[u]] = pending[Uses[u]]
             /\ durable' \cap Marks(u) = durable \cap Marks(u)
  BY <1>1, <1>2, <1>4, <1>6 DEF Execute, TypeOK
<1> HIDE DEF Marks
<1>10. ASSUME NEW n \in 1 .. MaxWrites, Enter(t, n) PROVE Stay
  BY <1>1, <1>4, <1>5, <1>10 DEF Enter, TypeOK
<1>11. CASE EnterRaises(t)
  BY <1>1, <1>4, <1>5, <1>11 DEF EnterRaises, TypeOK
<1>12. CASE Statement(t)
  <2>1. done[t] + 1 \in 1 .. MaxWrites
    BY <1>12, <1>4, DatabaseAssumption DEF Statement, Inv, TypeInv, TypeOK
  <2>2. <<t, done[t] + 1>> \in Marks(t)
    BY <2>1 DEF Marks
  <2>3. Execute(Uses[t], <<t, done[t] + 1>>, pending, durable)
    BY <1>12 DEF Statement
  <2>4. pending \in [Conns -> SUBSET Writes]
    BY <1>4 DEF TypeOK
  <2>5. /\ open'[Uses[u]] = open[Uses[u]] /\ pending'[Uses[u]] = pending[Uses[u]]
        /\ durable' \cap Marks(u) = durable \cap Marks(u)
    BY <1>6, <2>2, <2>3, <2>4
  <2> QED BY <1>4, <1>12, <2>5 DEF Statement, TypeOK
<1>13. CASE StatementRaises(t)
  BY <1>1, <1>4, <1>13 DEF StatementRaises, TypeOK
<1>14. CASE Commit(t)
  <2>1. durable' = durable \/ durable' = durable \cup pending[Uses[t]]
    BY <1>14 DEF Commit
  <2>2. durable' \cap Marks(u) = durable \cap Marks(u)
    BY <1>3, <2>1
  <2> QED BY <1>1, <1>4, <1>14, <2>2 DEF Commit, TypeOK
<1>15. CASE Rollback(t)
  BY <1>1, <1>4, <1>15 DEF Rollback, TypeOK
<1>19. CASE CommitRaises(t)
  BY <1>1, <1>4, <1>19 DEF CommitRaises, TypeOK
<1>16. CASE Reset(t)
  BY <1>1, <1>4, <1>16 DEF Reset, TypeOK
<1>17. CASE Query(t)
  BY <1>1, <1>4, <1>17 DEF Query, TypeOK
<1>18. CASE Plain(t)
  <2> DEFINE p == [b \in Conns |-> pending[b] \ Marks(t)]
             d == durable \ Marks(t)
  <2>1. p \in [Conns -> SUBSET Writes]
    BY <1>4 DEF TypeOK
  <2>2. p[Uses[u]] = pending[Uses[u]] /\ d \cap Marks(u) = durable \cap Marks(u)
    BY <1>1, <1>2, <1>3
  <2>3. <<t, 1>> \in Marks(t)
    BY DatabaseAssumption DEF Marks
  <2>4. Execute(Uses[t], <<t, 1>>, p, d)
    BY <1>18 DEF Plain
  <2> HIDE DEF p, d
  <2>5. /\ open'[Uses[u]] = open[Uses[u]] /\ pending'[Uses[u]] = pending[Uses[u]]
        /\ durable' \cap Marks(u) = durable \cap Marks(u)
    BY <1>6, <2>1, <2>2, <2>3, <2>4
  <2> QED BY <1>4, <1>18, <2>5 DEF Plain, TypeOK
<1> QED BY <1>10, <1>11, <1>12, <1>13, <1>14, <1>15, <1>16, <1>17, <1>18, <1>19 DEF Step

\* A step of t keeps what is known of its own writes.
LEMMA OwnStep ==
  ASSUME Inv, NEW t \in Threads, Alone(t), Step(t)
  PROVE  Local(t)'
<1> DEFINE c == Uses[t]
<1>1. c \in Conns /\ Postgres \in BOOLEAN /\ MaxWrites \in Nat \ {0}
  BY DatabaseAssumption
<1>2. TypeOK /\ Local(t)
  BY DEF Inv, TypeInv
<1>3. size[t] \in 0 .. MaxWrites /\ done[t] \in 0 .. MaxWrites
  BY <1>2 DEF TypeOK
\* A transaction starts with no write of t anywhere.
<1>4. ASSUME Fresh(t, pending, durable)
      PROVE  pending'[c] = {} /\ durable' \cap Marks(t) = {}
  BY <1>1, <1>2, <1>4 DEF Fresh, Local
<1>10. ASSUME NEW n \in 1 .. MaxWrites, Enter(t, n) PROVE Local(t)'
  <2>1. at'[t] = "body" /\ size'[t] = n /\ done'[t] = 0 /\ auto'[c] = FALSE
    BY <1>1, <1>2, <1>10 DEF Enter, TypeOK
  <2>2. pending'[c] = {} /\ durable' \cap Marks(t) = {} /\ open'[c] = open[c]
    BY <1>4, <1>10 DEF Enter
  <2>3. open[c] = "idle"
    BY <1>2, <1>10 DEF Enter, Local
  <2>4. {t} \X (1 .. 0) = {}
    OBVIOUS
  <2> QED BY <2>1, <2>2, <2>3, <2>4 DEF Local
<1>11. CASE EnterRaises(t)
  <2>1. at[t] = "out" /\ open[c] # "idle"
    BY <1>11 DEF EnterRaises
  <2> QED BY <1>2, <2>1 DEF Local
<1>12. CASE Statement(t)
  <2>1. at[t] = "body" /\ auto[c] = FALSE
    BY <1>2, <1>12 DEF Statement, Local
  <2>2. /\ pending'[c] = pending[c] \cup {<<t, done[t] + 1>>} /\ durable' = durable
        /\ open'[c] = "open" /\ auto' = auto /\ size' = size
        /\ done'[t] = done[t] + 1
        /\ at'[t] = IF done[t] + 1 = size[t] THEN "commit" ELSE "body"
    BY <1>1, <1>2, <2>1, <1>12 DEF Statement, Execute, TypeOK
  <2>3. /\ pending[c] = {t} \X (1 .. done[t]) /\ done[t] < size[t]
        /\ Marks(t) \cap durable = {}
    BY <1>2, <2>1 DEF Local
  <2>4. 1 .. done[t] + 1 = (1 .. done[t]) \cup {done[t] + 1}
    BY <1>3
  <2>5. pending'[c] = {t} \X (1 .. done'[t])
    BY <2>2, <2>3, <2>4
  <2>6. pending'[c] \subseteq Marks(t)
    BY <1>1, <1>3, <2>2, <2>3, <2>5 DEF Marks
  <2>7. CASE done[t] + 1 = size[t]
    BY <2>1, <2>2, <2>3, <2>5, <2>6, <2>7 DEF Local
  <2>8. CASE done[t] + 1 # size[t]
    <3>1. done'[t] < size'[t]
      BY <1>3, <2>2, <2>3, <2>8
    <3> QED BY <2>1, <2>2, <2>3, <2>5, <2>6, <2>8, <3>1 DEF Local
  <2> QED BY <2>7, <2>8
<1>13. CASE StatementRaises(t)
  <2>1. at[t] = "body" /\ at'[t] = "rollback"
    BY <1>2, <1>13 DEF StatementRaises, TypeOK
  <2>2. auto' = auto /\ pending' = pending /\ durable' = durable
    BY <1>13 DEF StatementRaises
  <2> QED BY <1>2, <2>1, <2>2 DEF Local
<1>14. CASE Commit(t)
  <2>1. /\ open[c] = "open" /\ pending[c] = {t} \X (1 .. size[t]) /\ auto[c] = FALSE
    BY <1>2, <1>14 DEF Commit, Local
  <2>2. /\ durable' = durable \cup pending[c] /\ pending'[c] = {} /\ open'[c] = "idle"
        /\ outcome'[t] = "returned" /\ at'[t] = After /\ auto' = auto /\ size' = size
    BY <1>1, <1>2, <2>1, <1>14 DEF Commit, TypeOK
  <2>3. Settled(t)'
    BY <2>1, <2>2 DEF Settled
  <2> QED BY <1>1, <2>1, <2>2, <2>3 DEF Local, After
<1>19. CASE CommitRaises(t)
  <2>1. auto[c] = FALSE /\ Marks(t) \cap durable = {}
    BY <1>2, <1>19 DEF CommitRaises, Local
  <2>2. /\ durable' = durable /\ pending'[c] = {} /\ auto' = auto
        /\ at'[t] = "rollback" /\ size' = size /\ done' = done
    BY <1>1, <1>2, <1>19 DEF CommitRaises, TypeOK
  <2> QED BY <2>1, <2>2 DEF Local
<1>15. CASE Rollback(t)
  <2>1. auto[c] = FALSE /\ Marks(t) \cap durable = {}
    BY <1>2, <1>15 DEF Rollback, Local
  <2>2. /\ durable' = durable /\ pending'[c] = {} /\ open'[c] = "idle"
        /\ outcome'[t] = "raised" /\ at'[t] = After /\ auto' = auto
    BY <1>1, <1>2, <1>15 DEF Rollback, TypeOK
  <2>3. Settled(t)'
    BY <2>1, <2>2 DEF Settled, Marks
  <2> QED BY <1>1, <2>1, <2>2, <2>3 DEF Local, After
<1>16. CASE Reset(t)
  <2>1. at[t] = "reset" /\ Postgres /\ open[c] = "idle" /\ Settled(t)
    BY <1>2, <1>16 DEF Reset, Local
  <2>2. /\ at'[t] = "out" /\ auto'[c] = TRUE /\ outcome'[t] = outcome[t]
        /\ open' = open /\ pending' = pending /\ durable' = durable /\ size' = size
    BY <1>1, <1>2, <2>1, <1>16 DEF Reset, TypeOK
  <2>3. Settled(t)'
    BY <2>1, <2>2 DEF Settled, Marks
  <2> QED BY <1>1, <1>2, <2>1, <2>2, <2>3 DEF Local
<1>17. CASE Query(t)
  <2>1. Postgres /\ at[t] = "out" /\ ~auto[c]
    BY <1>17 DEF Query
  <2> QED BY <1>2, <2>1 DEF Local
<1>18. CASE Plain(t)
  <2>1. at[t] = "out" /\ open[c] = "idle" /\ auto[c] = Postgres
    BY <1>2, <1>18 DEF Plain, Local
  <2> DEFINE p == [b \in Conns |-> pending[b] \ Marks(t)]
             d == durable \ Marks(t)
  <2>2. p[c] = {} /\ p \in [Conns -> SUBSET Writes] /\ d \cap Marks(t) = {}
    BY <1>1, <1>2 DEF Local, TypeOK
  <2>3. Execute(c, <<t, 1>>, p, d) /\ auto' = auto
    BY <1>18 DEF Plain
  <2>4. /\ size'[t] = 1 /\ done'[t] = 1
        /\ at'[t] = IF Postgres THEN "out" ELSE "commit"
        /\ outcome'[t] = IF Postgres THEN "returned" ELSE "none"
    BY <1>2, <1>18 DEF Plain, TypeOK
  <2>5. {t} \X (1 .. 1) = {<<t, 1>>} /\ <<t, 1>> \in Marks(t)
    BY <1>1 DEF Marks
  <2> HIDE DEF p, d
  <2>6. CASE Postgres
    <3>1. durable' = d \cup {<<t, 1>>} /\ pending' = p /\ open' = open
      BY <2>1, <2>3, <2>6 DEF Execute
    <3> QED BY <2>1, <2>2, <2>3, <2>4, <2>5, <2>6, <3>1 DEF Local, Settled
  <2>7. CASE ~Postgres
    <3>1. durable' = d /\ pending'[c] = {<<t, 1>>} /\ open'[c] = "open"
      BY <1>1, <1>2, <2>1, <2>2, <2>3, <2>7 DEF Execute, TypeOK
    <3> QED BY <1>1, <2>1, <2>2, <2>3, <2>4, <2>5, <2>7, <3>1 DEF Local, Settled
  <2> QED BY <2>6, <2>7
<1> QED BY <1>10, <1>11, <1>12, <1>13, <1>14, <1>15, <1>16, <1>17, <1>18, <1>19 DEF Step

LEMMA NextInv == Inv /\ [Next]_vars => Inv'
<1> SUFFICES ASSUME Inv, [Next]_vars PROVE Inv'
  OBVIOUS
<1>1. TypeInv' /\ Home'
  BY NextTypeInv, NextHome DEF Inv
<1>2. ASSUME NEW t \in Threads, Step(t) PROVE Inv'
  <2>1. ASSUME NEW u \in Threads, Alone(u) PROVE Local(u)'
    <3>1. CASE u = t
      BY <1>2, <2>1, <3>1, OwnStep
    <3>2. CASE u # t
      <4>1. Local(u)
        BY <2>1 DEF Inv
      <4>2. /\ at'[u] = at[u] /\ size'[u] = size[u]
            /\ done'[u] = done[u] /\ outcome'[u] = outcome[u]
            /\ open'[Uses[u]] = open[Uses[u]] /\ auto'[Uses[u]] = auto[Uses[u]]
            /\ pending'[Uses[u]] = pending[Uses[u]]
            /\ durable' \cap Marks(u) = durable \cap Marks(u)
        BY <1>2, <2>1, <3>2, OthersStay
      <4>3. {u} \X (1 .. size[u]) \subseteq Marks(u)
        BY DatabaseAssumption DEF Marks, Inv, TypeInv, TypeOK
      <4>4. Settled(u) => Settled(u)'
        BY <4>2, <4>3 DEF Settled, Marks
      <4> QED BY <4>1, <4>2, <4>4 DEF Local, Marks
    <3> QED BY <3>1, <3>2
  <2> QED BY <1>1, <2>1 DEF Inv, Alone
<1>3. CASE UNCHANGED vars
  BY <1>3, <1>1 DEF vars, Inv, Local, Settled, Alone, Marks
<1> QED BY <1>2, <1>3 DEF Next

\* Between operations, what a thread wrote is where its outcome says.
LEMMA InvAllOrNothing == Inv => AllOrNothing
<1> SUFFICES ASSUME Inv, NEW t \in Threads, Alone(t), at[t] = "out"
             PROVE  /\ outcome[t] = "returned" => {t} \X (1 .. size[t]) \subseteq durable
                    /\ outcome[t] = "raised" =>
                         Marks(t) \cap (durable \cup UNION {pending[c] : c \in Conns}) = {}
  BY DEF AllOrNothing, Atomic
<1>1. Settled(t) /\ open[Uses[t]] = "idle"
  BY DEF Inv, Local
<1>2. ASSUME NEW c \in Conns PROVE Marks(t) \cap pending[c] = {}
  <2>1. CASE c = Uses[t]
    BY <1>1, <2>1, DatabaseAssumption DEF Inv, TypeInv, TypeOK
  <2>2. CASE c # Uses[t]
    BY <2>2 DEF Inv, Home
  <2> QED BY <2>1, <2>2
<1> QED BY <1>1, <1>2 DEF Settled

LEMMA InvUsable == Inv => Usable
BY DEF Inv, Usable, Wedged, Local

\* A thread that has its connection to itself works in atomic operations: when one
\* returned all its writes are committed, when it raised none is or will be.
THEOREM OwnIsAtomic == Spec => []AllOrNothing
<1>1. Init => Inv
  BY InitInv
<1>2. Inv /\ [Next]_vars => Inv'
  BY NextInv
<1>3. Inv => AllOrNothing
  BY InvAllOrNothing
<1> QED BY <1>1, <1>2, <1>3, PTL DEF Spec

\* ... and its connection is never left inside a transaction.
THEOREM NeverWedged == Spec => []Usable
<1>1. Init => Inv
  BY InitInv
<1>2. Inv /\ [Next]_vars => Inv'
  BY NextInv
<1>3. Inv => Usable
  BY InvUsable
<1> QED BY <1>1, <1>2, <1>3, PTL DEF Spec

------------------------------------------------------------------------------
(* A wedged connection, whoever shares it. *)

\* With Postgres a thread that finds a transaction open between operations can
\* neither end it nor start one of its own.
LEMMA WedgedStays ==
  ASSUME Postgres, TypeInv, Home, NEW t \in Threads, Step(t), NEW c \in Conns, Wedged(c)
  PROVE  /\ Wedged(c)'
         /\ \A u \in Threads : Uses[u] = c => durable' \cap Marks(u) \subseteq durable
<1>1. TypeOK /\ open[c] # "idle" /\ ~auto[c]
  BY DEF TypeInv, TypeOK, Wedged
<1>2. CASE Uses[t] = c
  <2>1. at[t] = "out"
    BY <1>2 DEF Wedged
  <2>2. EnterRaises(t) \/ Plain(t)
    BY <1>1, <1>2, <2>1 DEF Step, Enter, Statement, StatementRaises, Commit,
                            CommitRaises, Rollback, Reset, Query
  <2>3. at' = at /\ open'[c] # "idle" /\ durable' \subseteq durable
    <3>1. CASE EnterRaises(t)
      BY <1>1, <3>1 DEF EnterRaises, Fresh
    <3>2. CASE Plain(t)
      <4>1. at' = [at EXCEPT ![t] = "out"]
        BY <3>2 DEF Plain
      <4>2. at' = at
        BY <1>1, <2>1, <4>1 DEF TypeOK
      <4>3. durable' = durable \ Marks(t) /\ open' = [open EXCEPT ![Uses[t]] = "open"]
        BY <1>1, <1>2, <3>2 DEF Plain, Execute
      <4> QED BY <1>1, <1>2, <4>2, <4>3 DEF TypeOK
    <3> QED BY <2>2, <3>1, <3>2
  <2> QED BY <2>3 DEF Wedged
<1>3. CASE Uses[t] # c
  <2>1. open'[c] = open[c]
    BY <1>1, <1>3 DEF Step, Enter, EnterRaises, Statement, StatementRaises, Commit,
                      CommitRaises, Rollback, Reset, Query, Plain, Execute, TypeOK
  <2>2. ASSUME NEW u \in Threads, Uses[u] = c
        PROVE  at'[u] = at[u] /\ durable' \cap Marks(u) \subseteq durable
    <3>1. u # t
      BY <1>3, <2>2
    <3>2. at'[u] = at[u]
      BY <1>1, <3>1 DEF Step, Enter, EnterRaises, Statement, StatementRaises, Commit,
                        CommitRaises, Rollback, Reset, Query, Plain, TypeOK
    <3>3. durable' \subseteq durable \cup pending[Uses[t]] \cup Marks(t)
      BY StepGrows
    <3>4. pending[Uses[t]] \cap Marks(u) = {}
      BY <1>3, <2>2, DatabaseAssumption DEF Home
    <3>5. Marks(t) \cap Marks(u) = {}
      BY <3>1, MarksDisjoint
    <3> QED BY <3>2, <3>3, <3>4, <3>5
  <2> QED BY <1>1, <2>1, <2>2 DEF Wedged
<1> QED BY <1>2, <1>3

\* On Postgres a connection left inside a transaction stays so for good, and
\* nothing its threads write is committed any more.
THEOREM WedgedForever == Spec => WedgeIsForever
<1> DEFINE Stays == \A c \in Conns : Postgres /\ Wedged(c) =>
             Wedged(c)' /\ \A t \in Threads : Uses[t] = c => durable' \cap Marks(t) \subseteq durable
<1>1. Init => TypeInv /\ Home
  BY InitTypeInv DEF Init, Home
<1>2. TypeInv /\ Home /\ [Next]_vars => (TypeInv /\ Home)'
  BY NextTypeInv, NextHome
<1>3. TypeInv /\ Home /\ [Next]_vars => [Stays]_vars
  <2> SUFFICES ASSUME TypeInv, Home, Next PROVE Stays
    OBVIOUS
  <2> QED BY WedgedStays DEF Next
<1> QED BY <1>1, <1>2, <1>3, PTL DEF Spec, WedgeIsForever

------------------------------------------------------------------------------
(*****************************************************************************)
(* Sessions, for any number of requests, token pairs and accounts of one name.*)
(*                                                                           *)
(* The right to continue a login is in one place at any time: in its one valid*)
(* row, or with the one request that has exchanged its pair and has not issued*)
(* the next (OneRight).  No pair becomes valid or in date again (Kept), so a *)
(* refusal is still right when the client comes to act on it (Worthless).    *)
(*****************************************************************************)
\* The requests that may still issue a pair, for which Room leaves a place.
Owes(s) == s.pc \in {"refused", "swapping", "swapped", "found"} \/ (s.pc = "sent" /\ s.retry)
Owing   == {r \in Requests : Owes(req[r])}

\* Request r has exchanged its pair and not issued the next: its server half
\* holds the one right to continue the login.
Holds(r) == req[r].pc \in {"swapped", "found"}

SessionTypes ==
  /\ SessionTypeOK
  /\ Len(pairs) + Cardinality(Owing) <= MaxPairs

\* A login is named by its first pair, and every pair is of an account that existed.
Origins ==
  /\ \A n \in Numbers : pairs[n].login <= n /\ pairs[n].birth <= births
  /\ \A r \in Requests : At(r, "found") => req[r].birth <= births

\* The right to continue a login is in one place: its one valid row, or one request.
OneRight ==
  /\ OneLiveToken
  /\ \A r \in Requests : Holds(r) =>
       \A n \in Numbers : pairs[n].login = pairs[req[r].pair].login => pairs[n].row # "valid"
  /\ \A r, q \in Requests :
       Holds(r) /\ Holds(q) /\ pairs[req[r].pair].login = pairs[req[q].pair].login => r = q

\* A second try is made with an access token in date, and a refusal is over a
\* pair that is worth nothing.
Worthless ==
  /\ \A r \in Requests, n \in Numbers : Retrying(r, n) => pairs[n].age = "fresh"
  /\ \A r \in Requests : At(r, "denied") =>
       ~(Exchangeable(req[r].pair) /\ pairs[req[r].pair].birth = account)

SessionInv == SessionTypes /\ Origins /\ OneRight /\ Worthless

------------------------------------------------------------------------------
(* What the operations do to the pairs and to the requests. *)

\* No pair loses its origin or becomes valid or in date again.
Kept ==
  /\ Len(pairs') \in Nat /\ Len(pairs) <= Len(pairs')
  /\ \A n \in Numbers :
       /\ pairs'[n].login = pairs[n].login /\ pairs'[n].birth = pairs[n].birth
       /\ pairs'[n].row = "valid" => pairs[n].row = "valid"
       /\ pairs'[n].age # "dead" => pairs[n].age # "dead"

\* A pair in its place, and the number of pairs.
LEMMA PairTyped ==
  ASSUME SessionTypeOK
  PROVE  /\ Len(pairs) \in Nat
         /\ \A n \in Numbers : pairs[n] \in Pair
         /\ \A n \in Numbers : n \in Nat /\ 1 <= n /\ n <= Len(pairs)
BY ElementOfSeq, LenProperties DEF SessionTypeOK, Numbers

\* What a request remembers while it is under way.
LEMMA RequestTyped ==
  ASSUME SessionTypeOK, NEW r \in Requests
  PROVE  /\ req[r] = Idle \/ req[r] \in Requesting
         /\ ~At(r, "idle") => req[r].pair \in Numbers
         /\ At(r, "found") => req[r].birth \in 1 .. MaxBirths
         /\ At(r, "sent") => req[r].retry \in BOOLEAN
<1>1. req[r] \in {Idle} \cup Requesting
  BY DEF SessionTypeOK
<1> QED BY <1>1 DEF Requesting, Idle, At

\* Issue puts one valid pair after all others.
LEMMA IssueAppends ==
  ASSUME SessionTypeOK, NEW l \in 1 .. MaxPairs, NEW b \in 1 .. MaxBirths, Issue(l, b)
  PROVE  /\ pairs' \in Seq(Pair) /\ Len(pairs') = Len(pairs) + 1
         /\ \A n \in Numbers : pairs'[n] = pairs[n]
         /\ pairs'[Len(pairs) + 1] = [row |-> "valid", age |-> "fresh", login |-> l, birth |-> b]
         /\ \A n \in Numbers' : n \in Numbers \/ n = Len(pairs) + 1
         /\ Len(pairs) + 1 \in Numbers'
         /\ Kept
<1> DEFINE p == [row |-> "valid", age |-> "fresh", login |-> l, birth |-> b]
<1>1. p \in Pair
  BY DEF Pair
<1>2. pairs \in Seq(Pair) /\ pairs' = Append(pairs, p)
  BY DEF SessionTypeOK, Issue
<1> HIDE DEF p
<1>3. /\ pairs' \in Seq(Pair) /\ Len(pairs') = Len(pairs) + 1
      /\ \A n \in 1 .. Len(pairs) : pairs'[n] = pairs[n]
      /\ pairs'[Len(pairs) + 1] = p
  BY <1>1, <1>2
<1>4. Len(pairs) \in Nat
  BY PairTyped
<1>5. /\ \A n \in Numbers' : n \in Numbers \/ n = Len(pairs) + 1
      /\ Len(pairs) + 1 \in Numbers'
  BY <1>3, <1>4 DEF Numbers
<1>6. Kept
  BY <1>3, <1>4 DEF Kept, Numbers
<1> QED BY <1>3, <1>5, <1>6 DEF Numbers, p

\* Writing one field of pair n leaves the sequence as long and every pair typed.
LEMMA RewritePair ==
  ASSUME SessionTypeOK, NEW n \in Numbers, NEW p \in Pair, pairs' = [pairs EXCEPT ![n] = p],
         p.login = pairs[n].login, p.birth = pairs[n].birth,
         p.row = "valid" => pairs[n].row = "valid", p.age # "dead" => pairs[n].age # "dead"
  PROVE  /\ pairs' \in Seq(Pair) /\ Len(pairs') = Len(pairs)
         /\ \A m \in Numbers : pairs'[m] = IF m = n THEN p ELSE pairs[m]
         /\ Numbers' = Numbers /\ Kept
<1>1. pairs \in Seq(Pair) /\ n \in 1 .. Len(pairs)
  BY DEF SessionTypeOK, Numbers
<1>2. /\ pairs' \in Seq(Pair) /\ Len(pairs') = Len(pairs)
      /\ \A m \in 1 .. Len(pairs) : pairs'[m] = IF m = n THEN p ELSE pairs[m]
  BY <1>1, ExceptSeq
<1>3. Len(pairs) \in Nat
  BY PairTyped
<1> QED BY <1>2, <1>3 DEF Numbers, Kept

\* Expire ages one pair, which no second try uses.
LEMMA ExpireKeeps ==
  ASSUME SessionTypeOK, NEW n \in Numbers, Expire(n)
  PROVE  /\ pairs' \in Seq(Pair) /\ Numbers' = Numbers /\ Len(pairs') = Len(pairs)
         /\ \A m \in Numbers : m # n => pairs'[m] = pairs[m]
         /\ \A m \in Numbers : pairs'[m].row = pairs[m].row
         /\ Kept
<1> DEFINE p == [pairs[n] EXCEPT !.age = IF @ = "fresh" THEN "stale" ELSE "dead"]
<1>1. pairs[n] \in Pair /\ pairs[n].age # "dead"
  BY PairTyped DEF Expire
<1>2. /\ p \in Pair /\ p.login = pairs[n].login /\ p.birth = pairs[n].birth
      /\ p.row = pairs[n].row
  BY <1>1 DEF Pair
<1>3. pairs' = [pairs EXCEPT ![n] = p]
  BY DEF Expire
<1> HIDE DEF p
<1>4. /\ pairs' \in Seq(Pair) /\ Len(pairs') = Len(pairs)
      /\ \A m \in Numbers : pairs'[m] = IF m = n THEN p ELSE pairs[m]
      /\ Numbers' = Numbers /\ Kept
  BY <1>1, <1>2, <1>3, RewritePair
<1> QED BY <1>2, <1>4

\* The swap of a valid row: that row is used, every other as it was.
LEMMA SwapKeeps ==
  ASSUME SessionTypeOK, NEW n \in Numbers, pairs' = [pairs EXCEPT ![n].row = "used"]
  PROVE  /\ pairs' \in Seq(Pair) /\ Numbers' = Numbers /\ Len(pairs') = Len(pairs)
         /\ \A m \in Numbers : m # n => pairs'[m] = pairs[m]
         /\ pairs'[n].row = "used" /\ pairs'[n].age = pairs[n].age
         /\ Kept
<1> DEFINE p == [pairs[n] EXCEPT !.row = "used"]
<1>1. pairs[n] \in Pair
  BY PairTyped
<1>2. /\ p \in Pair /\ p.login = pairs[n].login /\ p.birth = pairs[n].birth
      /\ p.age = pairs[n].age /\ p.row = "used"
  BY <1>1 DEF Pair
<1>3. pairs' = [pairs EXCEPT ![n] = p]
  OBVIOUS
<1> HIDE DEF p
<1>4. /\ pairs' \in Seq(Pair) /\ Len(pairs') = Len(pairs)
      /\ \A m \in Numbers : pairs'[m] = IF m = n THEN p ELSE pairs[m]
      /\ Numbers' = Numbers /\ Kept
  BY <1>1, <1>2, <1>3, RewritePair
<1> QED BY <1>2, <1>4

\* An erasure leaves no row of the name.
LEMMA EraseKeeps ==
  ASSUME SessionTypeOK, EraseUser
  PROVE  /\ pairs' \in Seq(Pair) /\ Numbers' = Numbers /\ Len(pairs') = Len(pairs)
         /\ \A m \in Numbers : pairs'[m].row = "none" /\ pairs'[m].age = pairs[m].age
         /\ Kept
<1>1. pairs \in Seq(Pair) /\ Len(pairs) \in Nat /\ \A n \in Numbers : pairs[n] \in Pair
  BY PairTyped DEF SessionTypeOK
<1>2. pairs' = [n \in 1 .. Len(pairs) |-> [pairs[n] EXCEPT !.row = "none"]]
  BY DEF EraseUser, Numbers
<1>3. \A n \in Numbers : /\ pairs'[n] \in Pair /\ pairs'[n].row = "none"
                         /\ pairs'[n].age = pairs[n].age /\ pairs'[n].login = pairs[n].login
                         /\ pairs'[n].birth = pairs[n].birth
  BY <1>1, <1>2 DEF Numbers, Pair
<1>4. pairs' \in [1 .. Len(pairs) -> Pair]
  BY <1>2, <1>3 DEF Numbers
<1>5. pairs' \in Seq(Pair) /\ Len(pairs') = Len(pairs)
  BY <1>1, <1>2, <1>4, SeqDef
<1> QED BY <1>1, <1>3, <1>5 DEF Numbers, Kept

\* The requests stay typed when one of them moves and pairs are added at most.
LEMMA MoveTyped ==
  ASSUME SessionTypeOK, Len(pairs') \in Nat, Len(pairs) <= Len(pairs'),
         NEW r \in Requests, NEW s \in {Idle} \cup Requesting', Become(r, s)
  PROVE  /\ req' \in [Requests -> {Idle} \cup Requesting']
         /\ req'[r] = s
         /\ \A q \in Requests : q # r => req'[q] = req[q]
<1>1. \A n \in Numbers : n \in Numbers'
  BY PairTyped DEF Numbers
<1>2. Requesting \subseteq Requesting'
  BY <1>1 DEF Requesting
<1>3. req \in [Requests -> {Idle} \cup Requesting]
  BY DEF SessionTypeOK
<1> QED BY <1>2, <1>3 DEF Become

\* A move adds at most one place to those that Room counts, none when the
\* request had one, and gives one back when it no longer owes.
LEMMA MoveOwing ==
  ASSUME SessionTypeOK, NEW r \in Requests, NEW s, Become(r, s)
  PROVE  /\ Cardinality(Owing) \in Nat /\ Cardinality(Owing') \in Nat
         /\ Cardinality(Owing') <= Cardinality(Owing) + 1
         /\ (Owes(s) => Owes(req[r])) => Cardinality(Owing') <= Cardinality(Owing)
         /\ ~Owes(s) /\ Owes(req[r]) => Cardinality(Owing') = Cardinality(Owing) - 1
<1>1. IsFiniteSet(Owing)
  BY SessionsAssumption, FS_Subset DEF Owing
<1>2. req'[r] = s /\ \A q \in Requests : q # r => req'[q] = req[q]
  BY DEF Become, SessionTypeOK
<1>3. r \in Owing' <=> Owes(s)
  BY <1>2 DEF Owing, Owes
<1>4. \A q \in Requests : q # r => (q \in Owing' <=> q \in Owing)
  BY <1>2 DEF Owing, Owes
<1>5. Owing \subseteq Requests /\ Owing' \subseteq Requests
  BY DEF Owing
<1>6. r \in Owing <=> Owes(req[r])
  BY DEF Owing
<1>7. CASE Owes(s)
  <2>1. Owing' = Owing \cup {r}
    BY <1>3, <1>4, <1>5, <1>7
  <2>2. Cardinality(Owing') = IF r \in Owing THEN Cardinality(Owing) ELSE Cardinality(Owing) + 1
    BY <1>1, <2>1, FS_AddElement
  <2>3. Cardinality(Owing) \in Nat
    BY <1>1, FS_CardinalityType
  <2> QED BY <1>6, <1>7, <2>2, <2>3
<1>8. CASE ~Owes(s)
  <2>1. Owing' = Owing \ {r}
    BY <1>3, <1>4, <1>5, <1>8
  <2>2. Cardinality(Owing') = IF r \in Owing THEN Cardinality(Owing) - 1 ELSE Cardinality(Owing)
    BY <1>1, <2>1, FS_RemoveElement
  <2>3. IsFiniteSet(Owing')
    BY <1>1, <2>1, FS_RemoveElement
  <2>4. Cardinality(Owing) \in Nat /\ Cardinality(Owing') \in Nat
    BY <1>1, <2>3, FS_CardinalityType
  <2> QED BY <1>6, <1>8, <2>2, <2>4
<1> QED BY <1>7, <1>8

\* Room counts every request that may owe a pair.
LEMMA RoomLeft ==
  ASSUME SessionTypeOK, Room
  PROVE  Len(pairs) + Cardinality(Owing) < MaxPairs /\ Cardinality(Owing) \in Nat
<1> DEFINE Busy == {q \in Requests : req[q].pc \notin {"idle", "issued"}}
<1>1. IsFiniteSet(Busy)
  BY SessionsAssumption, FS_Subset
<1>2. Owing \subseteq Busy
  BY DEF Owing, Owes
<1>3. Len(pairs) + Cardinality(Busy) < MaxPairs
  BY DEF Room
<1> HIDE DEF Busy
<1>4. IsFiniteSet(Owing) /\ Cardinality(Owing) <= Cardinality(Busy)
  BY <1>1, <1>2, FS_Subset
<1>5. Cardinality(Owing) \in Nat /\ Cardinality(Busy) \in Nat /\ Len(pairs) \in Nat
  BY <1>1, <1>4, FS_CardinalityType, PairTyped
<1> QED BY <1>3, <1>4, <1>5, SessionsAssumption

------------------------------------------------------------------------------
(* The invariant, part by part, under the move of one request. *)

\* Origins holds on when every new pair and every new find has a proper origin.
LEMMA OriginsKept ==
  ASSUME SessionTypeOK, Origins, Kept, births \in Nat, births' \in Nat, births <= births',
         \A n \in Numbers' \ Numbers : pairs'[n].login <= n /\ pairs'[n].birth <= births',
         \A q \in Requests : At(q, "found")' =>
           (At(q, "found") /\ req'[q].birth = req[q].birth) \/ req'[q].birth <= births'
  PROVE  Origins'
<1>1. ASSUME NEW n \in Numbers'  PROVE pairs'[n].login <= n /\ pairs'[n].birth <= births'
  <2>1. CASE n \in Numbers
    <3>1. pairs[n] \in Pair
      BY <2>1, PairTyped
    <3>2. pairs[n].birth \in Nat
      BY <3>1 DEF Pair
    <3> QED BY <2>1, <3>2 DEF Kept, Origins
  <2> QED BY <1>1, <2>1
<1>2. ASSUME NEW q \in Requests, At(q, "found")'  PROVE req'[q].birth <= births'
  <2>1. CASE At(q, "found") /\ req'[q].birth = req[q].birth
    <3>1. req[q].birth \in 1 .. MaxBirths
      BY <2>1, RequestTyped
    <3>2. req[q].birth \in Nat
      BY <3>1
    <3> QED BY <2>1, <3>2 DEF Origins
  <2> QED BY <1>2, <2>1
<1> QED BY <1>1, <1>2 DEF Origins

\* OneRight holds on when no pair is new and no request comes to hold a right.
LEMMA OneRightKept ==
  ASSUME SessionTypeOK, OneRight, Kept, Numbers' = Numbers,
         \A q \in Requests : Holds(q)' => Holds(q) /\ req'[q].pair = req[q].pair
  PROVE  OneRight'
<1>1. \A q \in Requests : Holds(q) => req[q].pair \in Numbers
  BY RequestTyped DEF Holds, At
<1>2. OneLiveToken'
  BY DEF OneRight, OneLiveToken, Kept
<1>3. ASSUME NEW r \in Requests, Holds(r)', NEW n \in Numbers',
             pairs'[n].login = pairs'[req'[r].pair].login
      PROVE  pairs'[n].row # "valid"
  BY <1>1, <1>3 DEF OneRight, Kept
<1>4. ASSUME NEW r \in Requests, NEW q \in Requests, Holds(r)', Holds(q)',
             pairs'[req'[r].pair].login = pairs'[req'[q].pair].login
      PROVE  r = q
  BY <1>1, <1>4 DEF OneRight, Kept
<1> QED BY <1>2, <1>3, <1>4 DEF OneRight

\* Worthless holds on when every second try and every refusal is an old one, the
\* pairs of second tries are not aged, and the name goes to no account of before.
LEMMA WorthlessKept ==
  ASSUME SessionTypeOK, Worthless, Origins, Kept,
         account' \in {0, account} \/ account' = births + 1, births \in Nat,
         \A q \in Requests, n \in Numbers' : Retrying(q, n)' => pairs'[n].age = "fresh",
         \A q \in Requests : At(q, "denied")' =>
           \/ At(q, "denied") /\ req'[q].pair = req[q].pair
           \/ ~(Exchangeable(req[q].pair)' /\ pairs'[req'[q].pair].birth = account')
  PROVE  Worthless'
<1>1. ASSUME NEW q \in Requests, At(q, "denied")'
      PROVE  ~(Exchangeable(req[q].pair)' /\ pairs'[req'[q].pair].birth = account')
  <2>1. CASE At(q, "denied") /\ req'[q].pair = req[q].pair
    <3> DEFINE n == req[q].pair
    <3>1. n \in Numbers
      BY <2>1, RequestTyped DEF At
    <3>2. pairs[n] \in Pair
      BY <3>1, PairTyped
    <3>3. pairs[n].birth \in Nat /\ pairs[n].birth <= births /\ pairs[n].birth # 0
      BY <3>1, <3>2 DEF Pair, Origins
    <3>4. Exchangeable(req[q].pair)' => Exchangeable(req[q].pair)
      BY <2>1, <3>1 DEF Exchangeable, Kept
    <3>5. ~(Exchangeable(n) /\ pairs[n].birth = account)
      BY <2>1 DEF Worthless
    <3>6. pairs'[n].birth = pairs[n].birth
      BY <3>1 DEF Kept
    <3> QED BY <2>1, <3>3, <3>4, <3>5, <3>6
  <2> QED BY <1>1, <2>1
<1> QED BY <1>1 DEF Worthless

------------------------------------------------------------------------------
(* The invariant, step by step. *)

LEMMA InitSession == SessionInit => SessionInv
<1> SUFFICES ASSUME SessionInit PROVE SessionInv
  OBVIOUS
<1>1. Len(pairs) = 0 /\ pairs \in Seq(Pair) /\ Numbers = {}
  BY DEF SessionInit, Numbers
<1>2. Owing = {}
  BY DEF SessionInit, Owing, Owes, Idle
<1>3. Cardinality(Owing) = 0
  BY <1>2, FS_EmptySet
<1>4. SessionTypes
  BY <1>1, <1>3, SessionsAssumption DEF SessionTypes, SessionTypeOK, SessionInit
<1> QED BY <1>1, <1>4 DEF SessionInv, SessionInit, Origins, OneRight, OneLiveToken, Worthless, At,
                          Idle, Holds

\* A step that leaves the pairs and the requests alone.
LEMMA QuietStep ==
  ASSUME SessionInv, UNCHANGED <<pairs, req>>, store' \in 0 .. Len(pairs),
         \/ account' \in {0, account} /\ births' = births
         \/ account' = births + 1 /\ births' = births + 1 /\ births < MaxBirths
  PROVE  SessionInv'
<1>1. /\ SessionTypeOK /\ Origins /\ OneRight /\ Worthless
      /\ Len(pairs) + Cardinality(Owing) <= MaxPairs
  BY DEF SessionInv, SessionTypes
<1>2. births \in Nat /\ births' \in Nat /\ births <= births' /\ births' \in 0 .. MaxBirths
      /\ account' \in {0, births'}
  BY <1>1, SessionsAssumption DEF SessionTypeOK
<1>3. Numbers' = Numbers /\ Owing' = Owing /\ Requesting' = Requesting
  BY DEF Numbers, Owing, Requesting
<1>4. SessionTypes'
  BY <1>1, <1>2, <1>3 DEF SessionTypes, SessionTypeOK
<1>5. Kept
  BY <1>1, PairTyped DEF Kept
<1>6. Origins'
  BY <1>1, <1>2, <1>3, <1>5, OriginsKept DEF At
<1>7. OneRight'
  BY <1>1, <1>3, <1>5, OneRightKept DEF Holds
<1>8. Worthless'
  <2>1. \A q \in Requests, n \in Numbers' : Retrying(q, n)' => pairs'[n].age = "fresh"
    BY <1>1, <1>3 DEF Worthless, Retrying, At
  <2>2. \A q \in Requests : At(q, "denied")' => At(q, "denied") /\ req'[q].pair = req[q].pair
    BY DEF At
  <2>3. account' \in {0, account} \/ account' = births + 1
    OBVIOUS
  <2> QED BY <1>1, <1>2, <1>5, <2>1, <2>2, <2>3, WorthlessKept
<1> QED BY <1>4, <1>6, <1>7, <1>8 DEF SessionInv

\* A step of the account or of time: the pairs change, the requests do not.
LEMMA PairsStep ==
  ASSUME SessionInv, UNCHANGED <<births, req>>, account' \in {0, account},
         store' \in 0 .. Len(pairs'), pairs' \in Seq(Pair), Kept, Numbers' = Numbers,
         Len(pairs') = Len(pairs),
         \A q \in Requests, n \in Numbers : Retrying(q, n) => pairs'[n].age = pairs[n].age
  PROVE  SessionInv'
<1>1. /\ SessionTypeOK /\ Origins /\ OneRight /\ Worthless
      /\ Len(pairs) + Cardinality(Owing) <= MaxPairs
  BY DEF SessionInv, SessionTypes
<1>2. births \in Nat /\ account' \in {0, births}
  BY <1>1, SessionsAssumption DEF SessionTypeOK
<1>3. Owing' = Owing /\ Requesting' = Requesting
  BY DEF Owing, Requesting
<1>4. SessionTypes'
  BY <1>1, <1>2, <1>3 DEF SessionTypes, SessionTypeOK
<1>6. Origins'
  BY <1>1, <1>2, OriginsKept DEF At
<1>7. OneRight'
  BY <1>1, OneRightKept DEF Holds
<1>8. Worthless'
  <2>1. \A q \in Requests, n \in Numbers' : Retrying(q, n)' => pairs'[n].age = "fresh"
    BY <1>1 DEF Worthless, Retrying, At
  <2>2. \A q \in Requests : At(q, "denied")' => At(q, "denied") /\ req'[q].pair = req[q].pair
    BY DEF At
  <2>3. account' \in {0, account} \/ account' = births + 1
    OBVIOUS
  <2> QED BY <1>1, <1>2, <2>1, <2>2, <2>3, WorthlessKept
<1> QED BY <1>4, <1>6, <1>7, <1>8 DEF SessionInv

\* A step of request r that leaves the pairs alone.  s may owe a pair only when
\* r did or Room leaves a place, be a second try only of the pair just issued,
\* and be a refusal only over a worthless pair.
LEMMA MoveStep ==
  ASSUME SessionInv, UNCHANGED <<account, births, pairs>>, store' \in 0 .. Len(pairs),
         NEW r \in Requests, NEW s \in {Idle} \cup Requesting, Become(r, s),
         Owes(s) => Owes(req[r]) \/ Len(pairs) + Cardinality(Owing) < MaxPairs,
         s.pc \in {"swapped", "found"} => Holds(r) /\ s.pair = req[r].pair,
         s.pc = "found" => s.birth <= births,
         s.pc # "issued", s.pc = "sent" /\ ~s.retry => At(r, "issued") /\ s.pair = req[r].pair,
         s.pc = "denied" => ~(Exchangeable(s.pair) /\ pairs[s.pair].birth = account)
  PROVE  SessionInv'
<1>1. /\ SessionTypeOK /\ Origins /\ OneRight /\ Worthless
      /\ Len(pairs) + Cardinality(Owing) <= MaxPairs
  BY DEF SessionInv, SessionTypes
<1>2. /\ births \in Nat /\ Len(pairs) \in Nat
  BY <1>1, PairTyped, SessionsAssumption DEF SessionTypeOK
<1>3. Numbers' = Numbers /\ Requesting' = Requesting
  BY DEF Numbers, Requesting
<1>4. /\ req' \in [Requests -> {Idle} \cup Requesting']
      /\ req'[r] = s
      /\ \A q \in Requests : q # r => req'[q] = req[q]
  BY <1>1, <1>2, <1>3, MoveTyped
<1>5. Len(pairs') + Cardinality(Owing') <= MaxPairs
  <2>1. /\ Cardinality(Owing) \in Nat /\ Cardinality(Owing') \in Nat
        /\ Cardinality(Owing') <= Cardinality(Owing) + 1
        /\ (Owes(s) => Owes(req[r])) => Cardinality(Owing') <= Cardinality(Owing)
    BY <1>1, MoveOwing
  <2> QED BY <1>1, <1>2, <2>1, SessionsAssumption
<1>6. SessionTypes'
  BY <1>1, <1>3, <1>4, <1>5 DEF SessionTypes, SessionTypeOK
<1>7. Kept
  BY <1>2 DEF Kept
<1>8. Origins'
  <2>1. \A q \in Requests : At(q, "found")' =>
           (At(q, "found") /\ req'[q].birth = req[q].birth) \/ req'[q].birth <= births'
    BY <1>4 DEF At
  <2> QED BY <1>1, <1>2, <1>3, <1>7, <2>1, OriginsKept
<1>9. OneRight'
  <2>1. \A q \in Requests : Holds(q)' => Holds(q) /\ req'[q].pair = req[q].pair
    BY <1>4 DEF Holds
  <2> QED BY <1>1, <1>3, <1>7, <2>1, OneRightKept
<1>10. Worthless'
  <2>1. \A q \in Requests, n \in Numbers' : Retrying(q, n)' => pairs'[n].age = "fresh"
    BY <1>1, <1>3, <1>4 DEF Worthless, Retrying, At
  <2>2. \A q \in Requests : At(q, "denied")' =>
           \/ At(q, "denied") /\ req'[q].pair = req[q].pair
           \/ ~(Exchangeable(req[q].pair)' /\ pairs'[req'[q].pair].birth = account')
    BY <1>4 DEF At, Exchangeable
  <2>3. account' \in {0, account} \/ account' = births + 1
    OBVIOUS
  <2> QED BY <1>1, <1>2, <1>7, <2>1, <2>2, <2>3, WorthlessKept
<1> QED BY <1>6, <1>8, <1>9, <1>10 DEF SessionInv

\* Login starts a login of its own number, which no pair before it has.
LEMMA LoginStep ==
  ASSUME SessionInv, Login
  PROVE  SessionInv'
<1>1. /\ SessionTypeOK /\ Origins /\ OneRight /\ Worthless
      /\ Len(pairs) + Cardinality(Owing) <= MaxPairs
  BY DEF SessionInv, SessionTypes
<1> DEFINE k == Len(pairs) + 1
<1>2. /\ Len(pairs) \in Nat /\ births \in Nat /\ account \in 1 .. MaxBirths /\ account <= births
      /\ \A n \in Numbers : n \in Nat /\ n < k
  BY <1>1, PairTyped, SessionsAssumption DEF SessionTypeOK, Login
<1>3. Len(pairs) + Cardinality(Owing) < MaxPairs /\ Cardinality(Owing) \in Nat
  BY <1>1, RoomLeft DEF Login
<1>7. k + Cardinality(Owing) <= MaxPairs /\ k \in 1 .. MaxPairs
  BY <1>2, <1>3, SessionsAssumption
<1>8. Issue(k, account) /\ store' = k
  BY DEF Login
<1> HIDE DEF k
<1>9. /\ pairs' \in Seq(Pair) /\ Len(pairs') = Len(pairs) + 1
      /\ \A n \in Numbers : pairs'[n] = pairs[n]
      /\ pairs'[Len(pairs) + 1] = [row |-> "valid", age |-> "fresh", login |-> k, birth |-> account]
      /\ \A n \in Numbers' : n \in Numbers \/ n = Len(pairs) + 1
      /\ Len(pairs) + 1 \in Numbers'
      /\ Kept
  BY <1>1, <1>2, <1>7, <1>8, IssueAppends
<1>10. UNCHANGED <<account, births, req>> /\ Owing' = Owing
  BY DEF Login, Owing
<1>11. /\ \A n \in Numbers : pairs[n].login \in Nat /\ pairs[n].login < k
  <2>1. \A n \in Numbers : pairs[n].login \in Nat
    BY <1>1, PairTyped DEF Pair
  <2> QED BY <1>1, <1>2, <2>1 DEF Origins, k
<1>12. \A q \in Requests : Holds(q) => req[q].pair \in Numbers
  BY <1>1, RequestTyped DEF Holds, At
<1>13. SessionTypes'
  <2>1. \A n \in Numbers : n \in Numbers'
    BY <1>2, <1>9 DEF Numbers
  <2>2. Requesting \subseteq Requesting'
    BY <2>1 DEF Requesting
  <2>3. store' \in 0 .. Len(pairs')
    BY <1>2, <1>8, <1>9 DEF k
  <2>4. req' \in [Requests -> {Idle} \cup Requesting']
    BY <1>1, <1>10, <2>2 DEF SessionTypeOK
  <2>5. Len(pairs') + Cardinality(Owing') <= MaxPairs /\ Len(pairs') <= MaxPairs
    BY <1>2, <1>3, <1>7, <1>9, <1>10, SessionsAssumption DEF k
  <2> QED BY <1>1, <1>9, <1>10, <2>3, <2>4, <2>5 DEF SessionTypes, SessionTypeOK
<1>14. Origins'
  <2>1. \A n \in Numbers' \ Numbers : pairs'[n].login <= n /\ pairs'[n].birth <= births'
    BY <1>2, <1>9, <1>10 DEF k
  <2>2. \A q \in Requests : At(q, "found")' =>
           (At(q, "found") /\ req'[q].birth = req[q].birth) \/ req'[q].birth <= births'
    BY <1>10 DEF At
  <2>3. births' \in Nat /\ births <= births'
    BY <1>2, <1>10
  <2> QED BY <1>1, <1>2, <1>9, <2>1, <2>2, <2>3, OriginsKept
<1>15. OneRight'
  <2>1. OneLiveToken'
    BY <1>1, <1>2, <1>9, <1>11 DEF OneRight, OneLiveToken, k
  <2>2. ASSUME NEW q \in Requests, Holds(q)', NEW n \in Numbers',
               pairs'[n].login = pairs'[req'[q].pair].login
        PROVE  pairs'[n].row # "valid"
    <3>1. Holds(q) /\ req[q].pair \in Numbers /\ req'[q].pair = req[q].pair
      BY <1>10, <1>12, <2>2 DEF Holds
    <3>2. n \in Numbers
      BY <1>2, <1>9, <1>11, <2>2, <3>1 DEF k
    <3> QED BY <1>1, <1>9, <2>2, <3>1, <3>2 DEF OneRight
  <2>3. ASSUME NEW p \in Requests, NEW q \in Requests, Holds(p)', Holds(q)',
               pairs'[req'[p].pair].login = pairs'[req'[q].pair].login
        PROVE  p = q
    BY <1>1, <1>9, <1>10, <1>12, <2>3 DEF OneRight, Holds
  <2> QED BY <2>1, <2>2, <2>3 DEF OneRight
<1>16. Worthless'
  <2>1. \A q \in Requests, n \in Numbers' : Retrying(q, n)' => pairs'[n].age = "fresh"
    BY <1>1, <1>9, <1>10 DEF Worthless, Retrying, At
  <2>2. \A q \in Requests : At(q, "denied")' => At(q, "denied") /\ req'[q].pair = req[q].pair
    BY <1>10 DEF At
  <2>3. account' \in {0, account} \/ account' = births + 1
    BY <1>10
  <2> QED BY <1>1, <1>2, <1>9, <2>1, <2>2, <2>3, WorthlessKept
<1> QED BY <1>13, <1>14, <1>15, <1>16 DEF SessionInv

\* The swap that succeeds: the right of the login goes from its row to request r.
LEMMA SwapStep ==
  ASSUME SessionInv, NEW r \in Requests, At(r, "swapping"), Exchangeable(req[r].pair),
         SwapRow(r, TRUE)
  PROVE  SessionInv'
<1> DEFINE k == req[r].pair
           s == [pc |-> "swapped", pair |-> k]
<1>1. /\ SessionTypeOK /\ Origins /\ OneRight /\ Worthless
      /\ Len(pairs) + Cardinality(Owing) <= MaxPairs
  BY DEF SessionInv, SessionTypes
<1>2. k \in Numbers /\ pairs[k].row = "valid"
  BY <1>1, RequestTyped DEF At, Exchangeable
<1>3. Become(r, s) /\ pairs' = [pairs EXCEPT ![k].row = "used"]
  BY DEF SwapRow
<1>4. s \in Requesting /\ s.pc = "swapped" /\ s.pair = k
  BY <1>2 DEF Requesting
<1>5. UNCHANGED <<account, births, store>> /\ births \in Nat /\ Len(pairs) \in Nat
  BY <1>1, PairTyped, SessionsAssumption DEF SwapRow, SessionTypeOK
<1>6. Owes(req[r])
  BY DEF Owes, At
<1> HIDE DEF k, s
<1>7. /\ pairs' \in Seq(Pair) /\ Numbers' = Numbers /\ Len(pairs') = Len(pairs)
      /\ \A m \in Numbers : m # k => pairs'[m] = pairs[m]
      /\ pairs'[k].row = "used" /\ pairs'[k].age = pairs[k].age
      /\ Kept
  BY <1>1, <1>2, <1>3, SwapKeeps
<1>8. Requesting' = Requesting
  BY <1>7 DEF Requesting
<1>9. /\ req' \in [Requests -> {Idle} \cup Requesting']
      /\ req'[r] = s
      /\ \A q \in Requests : q # r => req'[q] = req[q]
  BY <1>1, <1>3, <1>4, <1>5, <1>7, <1>8, MoveTyped
<1>10. SessionTypes'
  <2>1. /\ Cardinality(Owing) \in Nat /\ Cardinality(Owing') \in Nat
        /\ (Owes(s) => Owes(req[r])) => Cardinality(Owing') <= Cardinality(Owing)
    BY <1>1, <1>3, MoveOwing
  <2>2. Len(pairs') + Cardinality(Owing') <= MaxPairs
    BY <1>1, <1>5, <1>6, <1>7, <2>1, SessionsAssumption
  <2> QED BY <1>1, <1>5, <1>7, <1>9, <2>2 DEF SessionTypes, SessionTypeOK
<1>11. Origins'
  <2>1. \A q \in Requests : At(q, "found")' =>
           (At(q, "found") /\ req'[q].birth = req[q].birth) \/ req'[q].birth <= births'
    BY <1>4, <1>9 DEF At
  <2> QED BY <1>1, <1>5, <1>7, <2>1, OriginsKept
<1>12. OneRight'
  <2>1. OneLiveToken'
    BY <1>1, <1>7 DEF OneRight, OneLiveToken, Kept
  <2>2. \A q \in Requests : Holds(q) => req[q].pair \in Numbers
    BY <1>1, RequestTyped DEF Holds, At
  <2>3. ASSUME NEW q \in Requests, Holds(q)
        PROVE  pairs[req[q].pair].login # pairs[k].login
    BY <1>1, <1>2, <2>3 DEF OneRight
  <2>4. ASSUME NEW q \in Requests, Holds(q)'
        PROVE  /\ req'[q].pair \in Numbers
               /\ q = r \/ (Holds(q) /\ req'[q].pair = req[q].pair)
    <3>1. CASE q = r
      BY <1>2, <1>4, <1>9, <3>1
    <3>2. CASE q # r
      <4>1. req'[q] = req[q]
        BY <1>9, <3>2
      <4> QED BY <2>2, <2>4, <4>1 DEF Holds
    <3> QED BY <3>1, <3>2
  <2>5. ASSUME NEW q \in Requests, Holds(q)', NEW n \in Numbers',
               pairs'[n].login = pairs'[req'[q].pair].login
        PROVE  pairs'[n].row # "valid"
    <3>1. CASE q = r
      <4>1. pairs[n].login = pairs[k].login
        BY <1>2, <1>4, <1>7, <1>9, <2>5, <3>1 DEF Kept
      <4> QED BY <1>1, <1>2, <1>7, <4>1 DEF OneRight, OneLiveToken
    <3>2. CASE Holds(q) /\ req'[q].pair = req[q].pair
      BY <1>1, <1>7, <2>2, <2>5, <3>2 DEF OneRight, Kept
    <3> QED BY <2>4, <2>5, <3>1, <3>2
  <2>6. ASSUME NEW p \in Requests, NEW q \in Requests, Holds(p)', Holds(q)',
               pairs'[req'[p].pair].login = pairs'[req'[q].pair].login
        PROVE  p = q
    <3>1. pairs[req'[p].pair].login = pairs[req'[q].pair].login
      BY <2>4, <2>6, <1>7 DEF Kept
    <3>2. req'[r].pair = k
      BY <1>4, <1>9
    <3> QED BY <1>1, <2>3, <2>4, <2>6, <3>1, <3>2 DEF OneRight
  <2> QED BY <2>1, <2>5, <2>6 DEF OneRight
<1>13. Worthless'
  <2>1. \A q \in Requests, n \in Numbers' : Retrying(q, n)' => pairs'[n].age = "fresh"
    BY <1>1, <1>4, <1>7, <1>9 DEF Worthless, Retrying, At
  <2>2. \A q \in Requests : At(q, "denied")' => At(q, "denied") /\ req'[q].pair = req[q].pair
    BY <1>4, <1>9 DEF At
  <2> QED BY <1>1, <1>5, <1>7, <2>1, <2>2, WorthlessKept
<1> QED BY <1>10, <1>11, <1>12, <1>13 DEF SessionInv

\* The INSERT of the next pair: the right goes from request r to the new row.
LEMMA IssueStep ==
  ASSUME SessionInv, NEW r \in Requests, IssueTokens(r)
  PROVE  SessionInv'
<1> DEFINE l == pairs[req[r].pair].login
           b == req[r].birth
           k == Len(pairs) + 1
           s == [pc |-> "issued", pair |-> k]
<1>1. /\ SessionTypeOK /\ Origins /\ OneRight /\ Worthless
      /\ Len(pairs) + Cardinality(Owing) <= MaxPairs
  BY DEF SessionInv, SessionTypes
<1>2. At(r, "found") /\ req[r].pair \in Numbers /\ b \in 1 .. MaxBirths /\ Holds(r)
  BY <1>1, RequestTyped DEF At, IssueTokens, Holds
<1>3. /\ pairs[req[r].pair] \in Pair /\ b <= births
      /\ Len(pairs) \in Nat /\ births \in Nat
      /\ \A n \in Numbers : n \in Nat /\ n < k
  BY <1>1, <1>2, PairTyped, SessionsAssumption DEF Origins, SessionTypeOK
<1>4. l \in 1 .. MaxPairs /\ l <= req[r].pair
  BY <1>1, <1>2, <1>3 DEF Pair, Origins
<1>5. Issue(l, b) /\ Become(r, s) /\ UNCHANGED <<account, births, store>>
  BY DEF IssueTokens
<1>6. Owes(req[r]) /\ ~Owes(s) /\ s.pc = "issued" /\ s.pair = k
  BY <1>2 DEF Owes, At
<1>7. \A n \in Numbers : pairs[n].login = l => pairs[n].row # "valid"
  BY <1>1, <1>2 DEF OneRight
<1>8. \A q \in Requests : Holds(q) => req[q].pair \in Numbers
  BY <1>1, RequestTyped DEF Holds, At
<1>9. \A q \in Requests : q # r /\ Holds(q) => pairs[req[q].pair].login # l
  BY <1>1, <1>2 DEF OneRight
<1>10. s = [pc |-> "issued", pair |-> k]
  OBVIOUS
<1>11. k = Len(pairs) + 1
  OBVIOUS
<1> HIDE DEF l, b, k, s
<1>12. /\ pairs' \in Seq(Pair) /\ Len(pairs') = Len(pairs) + 1
       /\ \A n \in Numbers : pairs'[n] = pairs[n]
       /\ pairs'[Len(pairs) + 1] = [row |-> "valid", age |-> "fresh", login |-> l, birth |-> b]
       /\ \A n \in Numbers' : n \in Numbers \/ n = Len(pairs) + 1
       /\ Len(pairs) + 1 \in Numbers'
       /\ Kept
  BY <1>1, <1>2, <1>4, <1>5, IssueAppends
<1>13. s \in Requesting'
  BY <1>10, <1>11, <1>12 DEF Requesting
<1>14. /\ req' \in [Requests -> {Idle} \cup Requesting']
       /\ req'[r] = s
       /\ \A q \in Requests : q # r => req'[q] = req[q]
  BY <1>1, <1>3, <1>5, <1>12, <1>13, MoveTyped
<1>15. SessionTypes'
  <2>1. /\ Cardinality(Owing) \in Nat /\ Cardinality(Owing') \in Nat
        /\ ~Owes(s) /\ Owes(req[r]) => Cardinality(Owing') = Cardinality(Owing) - 1
    BY <1>1, <1>5, MoveOwing
  <2>2. Len(pairs') + Cardinality(Owing') <= MaxPairs /\ Len(pairs') <= MaxPairs
    BY <1>1, <1>3, <1>6, <1>12, <2>1, SessionsAssumption
  <2>3. store' \in 0 .. Len(pairs')
    BY <1>1, <1>3, <1>5, <1>12 DEF SessionTypeOK
  <2> QED BY <1>1, <1>5, <1>12, <1>14, <2>2, <2>3 DEF SessionTypes, SessionTypeOK
<1>16. Origins'
  <2>1. \A n \in Numbers' \ Numbers : pairs'[n].login <= n /\ pairs'[n].birth <= births'
    BY <1>2, <1>3, <1>4, <1>5, <1>11, <1>12
  <2>2. \A q \in Requests : At(q, "found")' =>
           (At(q, "found") /\ req'[q].birth = req[q].birth) \/ req'[q].birth <= births'
    BY <1>6, <1>14 DEF At
  <2>3. births' \in Nat /\ births <= births'
    BY <1>3, <1>5
  <2> QED BY <1>1, <1>3, <1>12, <2>1, <2>2, <2>3, OriginsKept
<1>17. OneRight'
  <2>1. OneLiveToken'
    <3> SUFFICES ASSUME NEW m \in Numbers', NEW n \in Numbers', pairs'[m].login = pairs'[n].login,
                        pairs'[m].row = "valid", pairs'[n].row = "valid"
                 PROVE  m = n
      BY DEF OneLiveToken
    <3>1. CASE m \in Numbers /\ n \in Numbers
      BY <1>1, <1>12, <3>1 DEF OneRight, OneLiveToken
    <3>2. CASE m \in Numbers /\ n = Len(pairs) + 1
      BY <1>7, <1>12, <3>2
    <3>3. CASE n \in Numbers /\ m = Len(pairs) + 1
      BY <1>7, <1>12, <3>3
    <3> QED BY <1>12, <3>1, <3>2, <3>3
  <2>2. ASSUME NEW q \in Requests, Holds(q)'
        PROVE  q # r /\ Holds(q) /\ req'[q].pair = req[q].pair /\ req[q].pair \in Numbers
    <3>1. q # r
      BY <1>6, <1>14, <2>2 DEF Holds
    <3>2. req'[q] = req[q]
      BY <1>14, <3>1
    <3> QED BY <1>8, <2>2, <3>1, <3>2 DEF Holds
  <2>3. ASSUME NEW q \in Requests, Holds(q)', NEW n \in Numbers',
               pairs'[n].login = pairs'[req'[q].pair].login
        PROVE  pairs'[n].row # "valid"
    <3>1. /\ q # r /\ Holds(q) /\ req'[q].pair = req[q].pair /\ req[q].pair \in Numbers
      BY <2>2, <2>3
    <3>2. n \in Numbers
      BY <1>9, <1>12, <2>3, <3>1
    <3> QED BY <1>1, <1>12, <2>3, <3>1, <3>2 DEF OneRight
  <2>4. ASSUME NEW p \in Requests, NEW q \in Requests, Holds(p)', Holds(q)',
               pairs'[req'[p].pair].login = pairs'[req'[q].pair].login
        PROVE  p = q
    BY <1>1, <1>12, <2>2, <2>4 DEF OneRight
  <2> QED BY <2>1, <2>3, <2>4 DEF OneRight
<1>18. Worthless'
  <2>1. ASSUME NEW q \in Requests, NEW n \in Numbers', Retrying(q, n)'
        PROVE  pairs'[n].age = "fresh"
    <3>1. CASE q = r
      BY <1>6, <1>11, <1>12, <1>14, <2>1, <3>1 DEF Retrying, At
    <3>2. CASE q # r
      <4>1. req'[q] = req[q]
        BY <1>14, <3>2
      <4>2. Retrying(q, n) /\ ~At(q, "idle")
        BY <2>1, <4>1 DEF Retrying, At
      <4>3. n \in Numbers
        BY <1>1, <4>2, RequestTyped DEF Retrying
      <4> QED BY <1>1, <1>12, <4>2, <4>3 DEF Worthless
    <3> QED BY <3>1, <3>2
  <2>2. ASSUME NEW q \in Requests, At(q, "denied")'
        PROVE  At(q, "denied") /\ req'[q].pair = req[q].pair
    <3>1. q # r
      BY <1>6, <1>14, <2>2 DEF At
    <3> QED BY <1>14, <2>2, <3>1 DEF At
  <2>3. account' \in {0, account} \/ account' = births + 1
    BY <1>5
  <2> QED BY <1>1, <1>3, <1>12, <2>1, <2>2, <2>3, WorthlessKept
<1> QED BY <1>15, <1>16, <1>17, <1>18 DEF SessionInv

\* What the steps of one request have in common.
LEMMA RequestStep ==
  ASSUME SessionInv, NEW r \in Requests, Send(r) \/ Advance(r) \/ RefreshFails(r) \/ Lost(r)
  PROVE  SessionInv'
<1>1. /\ SessionTypeOK /\ Origins /\ OneRight /\ Worthless
      /\ Len(pairs) + Cardinality(Owing) <= MaxPairs
  BY DEF SessionInv, SessionTypes
<1>2. /\ store \in 0 .. Len(pairs) /\ Len(pairs) \in Nat /\ births \in Nat
      /\ store # 0 => store \in Numbers
  BY <1>1, PairTyped, SessionsAssumption DEF SessionTypeOK, Numbers
<1>3. /\ ~At(r, "idle") => req[r].pair \in Numbers
      /\ At(r, "sent") => req[r].retry \in BOOLEAN
  BY <1>1, RequestTyped
<1>4. \A n \in Numbers : n \in 0 .. Len(pairs) /\ pairs[n].birth # 0 /\ pairs[n].birth <= births
  <2>1. \A n \in Numbers : pairs[n] \in Pair
    BY <1>1, PairTyped
  <2> QED BY <1>1, <1>2, <2>1 DEF Numbers, Pair, Origins
<1>5. ASSUME Become(r, Idle), UNCHANGED <<account, births, pairs>>, store' \in 0 .. Len(pairs)
      PROVE  SessionInv'
  <2>1. Idle.pc = "idle" /\ ~Owes(Idle)
    BY DEF Idle, Owes
  <2> QED BY <1>5, <2>1, MoveStep
<1>6. CASE Send(r)
  <2> DEFINE s == [pc |-> "sent", pair |-> store, retry |-> TRUE]
  <2>1. s \in Requesting /\ s.pc = "sent" /\ s.retry
    BY <1>2, <1>6 DEF Requesting, Send
  <2>2. Len(pairs) + Cardinality(Owing) < MaxPairs
    BY <1>1, <1>6, RoomLeft DEF Send
  <2>3. Become(r, s) /\ UNCHANGED <<account, births, pairs, store>>
    BY <1>6 DEF Send
  <2> HIDE DEF s
  <2> QED BY <1>2, <2>1, <2>2, <2>3, MoveStep
<1>7. CASE Serve(r) \/ Forget(r) \/ ShowError(r) \/ Lost(r)
  <2>1. Become(r, Idle) /\ UNCHANGED <<account, births, pairs>> /\ store' \in {0, store}
    BY <1>7 DEF Serve, Forget, ShowError, Lost
  <2> QED BY <1>2, <1>5, <2>1
<1>8. CASE Reject(r)
  <2> DEFINE s == [pc |-> IF req[r].retry THEN "refused" ELSE "denied", pair |-> req[r].pair]
  <2>1. At(r, "sent") /\ req[r].pair \in Numbers /\ req[r].retry \in BOOLEAN
    BY <1>3, <1>8 DEF At, Reject
  <2>2. Become(r, s) /\ UNCHANGED <<account, births, pairs, store>>
    BY <1>8 DEF Reject
  <2>3. /\ s \in Requesting /\ s.pair = req[r].pair
        /\ s.pc \in {"refused", "denied"} /\ (s.pc = "refused" => Owes(req[r]))
        /\ s.pc = "denied" => ~req[r].retry
    BY <2>1 DEF Requesting, Owes, At
  <2>4. s.pc = "denied" => pairs[req[r].pair].birth # account
    <3> SUFFICES ASSUME s.pc = "denied" PROVE pairs[req[r].pair].birth # account
      OBVIOUS
    <3>1. Retrying(r, req[r].pair)
      BY <2>1, <2>3 DEF Retrying, At
    <3>2. pairs[req[r].pair].age = "fresh"
      BY <1>1, <2>1, <3>1 DEF Worthless
    <3>3. account = 0
      BY <1>8, <3>2 DEF Reject
    <3> QED BY <1>4, <2>1, <3>3
  <2> HIDE DEF s
  <2>5. Owes(s) => Owes(req[r])
    BY <2>3 DEF Owes
  <2> QED BY <1>2, <2>2, <2>3, <2>4, <2>5, MoveStep
<1>9. CASE Refresh(r)
  <2> DEFINE s == IF store = 0 THEN [pc |-> "tokenless", pair |-> req[r].pair]
                  ELSE [pc |-> "swapping", pair |-> store]
  <2>1. At(r, "refused") /\ req[r].pair \in Numbers
    BY <1>3, <1>9 DEF At, Refresh
  <2>2. Become(r, s) /\ UNCHANGED <<account, births, pairs, store>>
    BY <1>9 DEF Refresh
  <2>3. s \in Requesting /\ s.pc \in {"tokenless", "swapping"} /\ Owes(req[r])
    BY <1>2, <2>1 DEF Requesting, Owes, At
  <2> HIDE DEF s
  <2> QED BY <1>2, <2>2, <2>3, MoveStep
<1>10. CASE Swap(r)
  <2> DEFINE s == [pc |-> "denied", pair |-> req[r].pair]
  <2>1. At(r, "swapping") /\ req[r].pair \in Numbers
    BY <1>3, <1>10 DEF At, Swap
  <2>2. CASE Exchangeable(req[r].pair)
    <3>1. SwapRow(r, TRUE)
      BY <1>10, <2>2 DEF Swap, SwapRow
    <3> QED BY <2>1, <2>2, <3>1, SwapStep
  <2>3. CASE ~Exchangeable(req[r].pair)
    <3>1. Become(r, s) /\ UNCHANGED <<account, births, pairs, store>>
      BY <1>10, <2>3 DEF Swap, SwapRow
    <3>2. s \in Requesting /\ s.pc = "denied" /\ s.pair = req[r].pair
      BY <2>1 DEF Requesting
    <3> HIDE DEF s
    <3>3. ~Owes(s)
      BY <3>2 DEF Owes
    <3> QED BY <1>2, <2>3, <3>1, <3>2, <3>3, MoveStep
  <2> QED BY <2>2, <2>3
<1>11. CASE FindUser(r)
  <2> DEFINE s == IF account = 0 THEN [pc |-> "denied", pair |-> req[r].pair]
                  ELSE [pc |-> "found", pair |-> req[r].pair, birth |-> account]
  <2>1. At(r, "swapped") /\ req[r].pair \in Numbers /\ Holds(r) /\ Owes(req[r])
    BY <1>3, <1>11 DEF At, FindUser, Holds, Owes
  <2>2. Become(r, s) /\ UNCHANGED <<account, births, pairs, store>>
    BY <1>11 DEF FindUser
  <2>3. account # 0 => account \in 1 .. MaxBirths /\ account <= births
    BY <1>1, <1>2, SessionsAssumption DEF SessionTypeOK
  <2>4. /\ s \in Requesting /\ s.pc \in {"denied", "found"} /\ s.pair = req[r].pair
        /\ s.pc = "found" => s.birth <= births
    BY <2>1, <2>3 DEF Requesting
  <2>5. ~Exchangeable(req[r].pair)
    BY <1>1, <2>1 DEF OneRight, Exchangeable
  <2> HIDE DEF s
  <2> QED BY <1>2, <2>1, <2>2, <2>4, <2>5, MoveStep
<1>12. CASE Retry(r)
  <2> DEFINE s == [pc |-> "sent", pair |-> req[r].pair, retry |-> FALSE]
  <2>1. At(r, "issued") /\ req[r].pair \in Numbers
    BY <1>3, <1>12 DEF At, Retry
  <2>2. Become(r, s) /\ UNCHANGED <<account, births, pairs>> /\ store' \in 0 .. Len(pairs)
    BY <1>4, <1>12, <2>1 DEF Retry
  <2>3. s \in Requesting /\ s.pc = "sent" /\ ~s.retry /\ s.pair = req[r].pair
    BY <2>1 DEF Requesting
  <2> HIDE DEF s
  <2>4. ~Owes(s)
    BY <2>3 DEF Owes
  <2> QED BY <2>1, <2>2, <2>3, <2>4, MoveStep
<1>13. CASE RefreshFails(r)
  <2> DEFINE s == [pc |-> "failed", pair |-> req[r].pair]
  <2>1. ~At(r, "idle") /\ req[r].pair \in Numbers
    BY <1>3, <1>13 DEF At, RefreshFails
  <2>2. Become(r, s) /\ UNCHANGED <<account, births, pairs, store>>
    BY <1>13 DEF RefreshFails
  <2>3. s \in Requesting /\ s.pc = "failed"
    BY <2>1 DEF Requesting
  <2> HIDE DEF s
  <2>4. ~Owes(s)
    BY <2>3 DEF Owes
  <2> QED BY <1>2, <2>2, <2>3, <2>4, MoveStep
<1> QED BY <1>6, <1>7, <1>8, <1>9, <1>10, <1>11, <1>12, <1>13, IssueStep DEF Advance

LEMMA NextSession == SessionInv /\ [SessionNext]_sessionVars => SessionInv'
<1> SUFFICES ASSUME SessionInv, [SessionNext]_sessionVars PROVE SessionInv'
  OBVIOUS
<1>1. /\ SessionTypeOK /\ Len(pairs) \in Nat /\ Worthless
      /\ store \in 0 .. Len(pairs)
  BY PairTyped DEF SessionInv, SessionTypes, SessionTypeOK
<1>2. CASE Register
  BY <1>1, <1>2, QuietStep DEF Register
<1>3. CASE Logout
  BY <1>1, <1>3, QuietStep DEF Logout
<1>4. CASE EraseUser
  <2>1. UNCHANGED <<births, store, req>> /\ account' = 0
    BY <1>4 DEF EraseUser
  <2>2. /\ pairs' \in Seq(Pair) /\ Numbers' = Numbers /\ Len(pairs') = Len(pairs)
        /\ \A m \in Numbers : pairs'[m].row = "none" /\ pairs'[m].age = pairs[m].age
        /\ Kept
    BY <1>1, <1>4, EraseKeeps
  <2> QED BY <1>1, <2>1, <2>2, PairsStep
<1>5. ASSUME NEW n \in Numbers, Expire(n) PROVE SessionInv'
  <2>1. UNCHANGED <<account, births, store, req>>
    BY <1>5 DEF Expire
  <2>2. /\ pairs' \in Seq(Pair) /\ Numbers' = Numbers /\ Len(pairs') = Len(pairs)
        /\ \A m \in Numbers : m # n => pairs'[m] = pairs[m]
        /\ Kept
    BY <1>1, <1>5, ExpireKeeps
  <2>3. \A q \in Requests : ~Retrying(q, n)
    BY <1>5 DEF Expire
  <2> QED BY <1>1, <2>1, <2>2, <2>3, PairsStep
<1>6. CASE UNCHANGED sessionVars
  BY <1>1, <1>6, QuietStep DEF sessionVars
<1> QED BY <1>2, <1>3, <1>4, <1>5, <1>6, LoginStep, RequestStep DEF SessionNext

LEMMA SessionInvariant == SessionSpec => []SessionInv
<1>1. SessionInit => SessionInv
  BY InitSession
<1>2. SessionInv /\ [SessionNext]_sessionVars => SessionInv'
  BY NextSession
<1> QED BY <1>1, <1>2, PTL DEF SessionSpec

\* The numbers of pairs and of accounts stay within the bounds that Room and
\* Register keep, and every request refers to a pair that was issued.
THEOREM SessionsTyped == SessionSpec => []SessionTypeOK
<1>1. SessionInv => SessionTypeOK
  BY DEF SessionInv, SessionTypes
<1> QED BY <1>1, SessionInvariant, PTL

\* However many refreshes run in parallel, whatever is lost between them and
\* whenever the account goes, one login has at most one exchangeable token.
THEOREM LoginsHoldOneToken == SessionSpec => []OneLiveToken
<1>1. SessionInv => OneLiveToken
  BY DEF SessionInv, OneRight
<1> QED BY <1>1, SessionInvariant, PTL

\* init drops a session when there was no token to refresh with, when the refresh
\* was answered with a server error, and over a pair that is used, expired, revoked
\* or of another account than the one that has the name: never because the server
\* refused a token that is still good.
THEOREM SessionsDroppedForAReason == SessionSpec => DroppedForAReason
<1> DEFINE Reason == \A r \in Requests : Forget(r) =>
             \/ At(r, "tokenless") \/ At(r, "failed")
             \/ ~(Exchangeable(req[r].pair) /\ pairs[req[r].pair].birth = account)
<1>1. SessionInv /\ [SessionNext]_sessionVars => [Reason]_sessionVars
  BY DEF SessionInv, Worthless, Forget, Failed, At
<1> QED BY <1>1, SessionInvariant, PTL DEF SessionSpec, DroppedForAReason
==============================================================================
