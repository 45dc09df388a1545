------------------------------ MODULE Database -------------------------------
(***************************************************************************)
(* core/db.py: the wrapper every store of users, tokens, chats, audit and  *)
(* quotas goes through.  A process opens one Database, hence one           *)
(* connection, and its request handlers run on many threads; transaction() *)
(* turns autocommit off on that connection (Postgres) or relies on the     *)
(* implicit transaction of sqlite3, and takes no lock.                     *)
(*                                                                         *)
(* A thread runs one operation at a time: the body of a transaction(), a   *)
(* query, or a single write made through execute().  The operation is so   *)
(* many writes; <<t, i>> stands for the i-th write of t's operation.  The  *)
(* drivers and servers are modelled by the contract db.py relies on:       *)
(*   psycopg: with autocommit off the first statement opens a transaction; *)
(*     one that fails makes the transaction fail until it is ended; commit *)
(*     of a failed transaction undoes it, and so does a commit that the    *)
(*     server refuses, which raises; autocommit can be set only while no   *)
(*     transaction is open, and raises otherwise;                          *)
(*   sqlite3: the first write opens a transaction, commit and rollback end *)
(*     whatever is open.                                                   *)
(***************************************************************************)
EXTENDS Naturals

CONSTANTS Threads, Conns,
          Uses,       \* Uses[t]: the connection of the process t is a thread of
          Postgres,   \* is_pg
          MaxWrites   \* bound: writes of one operation

ASSUME DatabaseAssumption ==
  /\ Uses \in [Threads -> Conns]
  /\ Postgres \in BOOLEAN
  /\ MaxWrites \in Nat \ {0}

VARIABLES open,     \* open[c]: what is open on the server for c
          auto,     \* auto[c]: psycopg's autocommit; never on with sqlite3
          pending,  \* pending[c]: writes of the open transaction
          durable,  \* committed writes of the threads' latest operations
          at,       \* at[t]: where thread t is, "out" between operations
          size,     \* size[t]: writes of t's latest operation
          done,     \* done[t]: those it has executed
          outcome   \* outcome[t]: how the latest operation ended
vars == <<open, auto, pending, durable, at, size, done, outcome>>

Marks(t) == {t} \X (1 .. MaxWrites)
Writes   == Threads \X (1 .. MaxWrites)

\* Types, and what the contract of the drivers implies.
TypeOK ==
  /\ open \in [Conns -> {"idle", "open", "failed"}]
  /\ auto \in [Conns -> BOOLEAN]
  /\ pending \in [Conns -> SUBSET Writes]
  /\ durable \subseteq Writes
  /\ at \in [Threads -> {"out", "body", "commit", "rollback", "reset"}]
  /\ size \in [Threads -> 0 .. MaxWrites]
  /\ done \in [Threads -> 0 .. MaxWrites]
  /\ outcome \in [Threads -> {"none", "returned", "raised"}]
  /\ \A c \in Conns : auto[c] => Postgres /\ open[c] = "idle"
  /\ \A c \in Conns : open[c] = "idle" => pending[c] = {}

Init ==
  /\ open = [c \in Conns |-> "idle"]
  /\ auto = [c \in Conns |-> Postgres]
  /\ pending = [c \in Conns |-> {}] /\ durable = {}
  /\ at = [t \in Threads |-> "out"]
  /\ size = [t \in Threads |-> 0] /\ done = [t \in Threads |-> 0]
  /\ outcome = [t \in Threads |-> "none"]

Conn == <<open, auto, pending>>

\* The writes of the operation before are no longer looked at.
Fresh(t, p, d) ==
  /\ pending' = [c \in Conns |-> p[c] \ Marks(t)]
  /\ durable' = d \ Marks(t)

------------------------------------------------------------------------------
(* with db.transaction() *)

EnterAnyway(t, n) == LET c == Uses[t] IN  \* mutant of Enter: joins an open transaction
  /\ at[t] = "out"
  /\ auto' = [auto EXCEPT ![c] = FALSE]
  /\ Fresh(t, pending, durable)
  /\ at' = [at EXCEPT ![t] = "body"]
  /\ size' = [size EXCEPT ![t] = n] /\ done' = [done EXCEPT ![t] = 0]
  /\ outcome' = [outcome EXCEPT ![t] = "none"]
  /\ UNCHANGED open

Enter(t, n) == LET c == Uses[t] IN
  /\ at[t] = "out"
  /\ Postgres => open[c] = "idle"
  /\ auto' = [auto EXCEPT ![c] = FALSE]
  /\ Fresh(t, pending, durable)
  /\ at' = [at EXCEPT ![t] = "body"]
  /\ size' = [size EXCEPT ![t] = n] /\ done' = [done EXCEPT ![t] = 0]
  /\ outcome' = [outcome EXCEPT ![t] = "none"]
  /\ UNCHANGED open

\* autocommit cannot be set: raised before the try, so nothing is rolled back.
EnterRaises(t) ==
  /\ at[t] = "out" /\ Postgres /\ open[Uses[t]] # "idle"
  /\ Fresh(t, pending, durable)
  /\ size' = [size EXCEPT ![t] = 0] /\ done' = [done EXCEPT ![t] = 0]
  /\ outcome' = [outcome EXCEPT ![t] = "raised"]
  /\ UNCHANGED <<open, auto, at>>

\* What executing write w on connection c does.
Execute(c, w, p, d) ==
  IF auto[c]
  THEN /\ durable' = d \cup {w} /\ pending' = p
       /\ UNCHANGED open
  ELSE /\ pending' = [p EXCEPT ![c] = @ \cup {w}] /\ durable' = d
       /\ open' = [open EXCEPT ![c] = "open"]

Statement(t) == LET c == Uses[t] IN
  /\ at[t] = "body" /\ open[c] # "failed"
  /\ Execute(c, <<t, done[t] + 1>>, pending, durable)
  /\ done' = [done EXCEPT ![t] = @ + 1]
  /\ at' = [at EXCEPT ![t] = IF done[t] + 1 = size[t] THEN "commit" ELSE "body"]
  /\ UNCHANGED <<auto, size, outcome>>

\* The statement violates a constraint, or finds the transaction failed.
StatementRaises(t) == LET c == Uses[t] IN
  /\ at[t] = "body"
  /\ open' = [open EXCEPT ![c] = IF auto[c] THEN @ ELSE IF Postgres THEN "failed" ELSE "open"]
  /\ at' = [at EXCEPT ![t] = "rollback"]
  /\ UNCHANGED <<auto, pending, durable, size, done, outcome>>

\* After commit or rollback Postgres has autocommit to restore.
After == IF Postgres THEN "reset" ELSE "out"

CommitOpen(t) == LET c == Uses[t] IN  \* mutant of Commit: forgets to end the transaction
  /\ at[t] = "commit"
  /\ durable' = IF open[c] = "open" THEN durable \cup pending[c] ELSE durable
  /\ at' = [at EXCEPT ![t] = After]
  /\ outcome' = [outcome EXCEPT ![t] = "returned"]
  /\ UNCHANGED <<open, auto, pending, size, done>>

Commit(t) == LET c == Uses[t] IN
  /\ at[t] = "commit"
  /\ durable' = IF open[c] = "open" THEN durable \cup pending[c] ELSE durable
  /\ pending' = [pending EXCEPT ![c] = {}]
  /\ open' = [open EXCEPT ![c] = "idle"]
  /\ at' = [at EXCEPT ![t] = After]
  /\ outcome' = [outcome EXCEPT ![t] = "returned"]
  /\ UNCHANGED <<auto, size, done>>

\* The commit raises, inside the try.
CommitRaises(t) == LET c == Uses[t] IN
  /\ at[t] = "commit" /\ Postgres
  /\ pending' = [pending EXCEPT ![c] = {}]
  /\ open' = [open EXCEPT ![c] = "idle"]
  /\ at' = [at EXCEPT ![t] = "rollback"]
  /\ UNCHANGED <<auto, durable, size, done, outcome>>

RollbackForgotten(t) ==  \* mutant of Rollback: re-raise without it
  /\ at[t] = "rollback"
  /\ at' = [at EXCEPT ![t] = After]
  /\ outcome' = [outcome EXCEPT ![t] = "raised"]
  /\ UNCHANGED <<Conn, durable, size, done>>

Rollback(t) == LET c == Uses[t] IN
  /\ at[t] = "rollback"
  /\ pending' = [pending EXCEPT ![c] = {}]
  /\ open' = [open EXCEPT ![c] = "idle"]
  /\ at' = [at EXCEPT ![t] = After]
  /\ outcome' = [outcome EXCEPT ![t] = "raised"]
  /\ UNCHANGED <<auto, durable, size, done>>

ResetBlindly(t) == LET c == Uses[t] IN  \* mutant of Reset: autocommit set by force
  /\ at[t] = "reset"
  /\ auto' = [auto EXCEPT ![c] = TRUE]
  /\ at' = [at EXCEPT ![t] = "out"]
  /\ UNCHANGED <<open, pending, durable, size, done, outcome>>

\* finally: autocommit on again, unless another thread's statement has opened
\* the next transaction already; then this raises and autocommit stays off.
Reset(t) == LET c == Uses[t] IN
  /\ at[t] = "reset"
  /\ auto' = [auto EXCEPT ![c] = open[c] = "idle"]
  /\ outcome' = [outcome EXCEPT ![t] = IF open[c] = "idle" THEN @ ELSE "raised"]
  /\ at' = [at EXCEPT ![t] = "out"]
  /\ UNCHANGED <<open, pending, durable, size, done>>

------------------------------------------------------------------------------
(* Outside transaction() *)

\* query: only Postgres opens a transaction for a SELECT, and only when
\* another thread has autocommit off.
Query(t) == LET c == Uses[t] IN
  /\ at[t] = "out" /\ Postgres /\ ~auto[c] /\ open[c] = "idle"
  /\ open' = [open EXCEPT ![c] = "open"]
  /\ UNCHANGED <<auto, pending, durable, at, size, done, outcome>>

\* One write through execute(): AuthStore.refresh and ConversationStore.rename.
\* With sqlite3 the caller commits, with Postgres it trusts autocommit.
Plain(t) == LET c == Uses[t] IN
  /\ at[t] = "out" /\ open[c] # "failed"
  /\ Execute(c, <<t, 1>>, [b \in Conns |-> pending[b] \ Marks(t)], durable \ Marks(t))
  /\ size' = [size EXCEPT ![t] = 1] /\ done' = [done EXCEPT ![t] = 1]
  /\ at' = [at EXCEPT ![t] = IF Postgres THEN "out" ELSE "commit"]
  /\ outcome' = [outcome EXCEPT ![t] = IF Postgres THEN "returned" ELSE "none"]
  /\ UNCHANGED auto

Step(t) ==
  \/ \E n \in 1 .. MaxWrites : Enter(t, n)
  \/ EnterRaises(t) \/ Statement(t) \/ StatementRaises(t)
  \/ Commit(t) \/ CommitRaises(t) \/ Rollback(t) \/ Reset(t)
  \/ Query(t) \/ Plain(t)

Next == \E t \in Threads : Step(t)

Spec == Init /\ [][Next]_vars

------------------------------------------------------------------------------
(* Properties *)

\* No other thread uses t's connection: the only request of its process.
Alone(t) == \A u \in Threads : Uses[u] = Uses[t] => u = t

\* An operation that returned has all its writes committed; one that raised
\* has none, and leaves none behind that a later commit could take along.
Atomic(t) == at[t] = "out" =>
  /\ outcome[t] = "returned" => {t} \X (1 .. size[t]) \subseteq durable
  /\ outcome[t] = "raised" =>
       Marks(t) \cap (durable \cup UNION {pending[c] : c \in Conns}) = {}

\* The operations of a thread that has its connection to itself are atomic,
\* whatever threads that share another connection do meanwhile.
AllOrNothing == \A t \in Threads : Alone(t) => Atomic(t)

\* No thread is inside transaction(), and yet one is open.
Wedged(c) == /\ \A t \in Threads : Uses[t] = c => at[t] = "out"
             /\ open[c] # "idle"

\* When a thread that has its connection to itself is outside transaction(),
\* the next one can start.
Usable == \A t \in Threads : Alone(t) => ~Wedged(Uses[t])

\* A Postgres connection left with an open transaction never recovers: every later
\* transaction() raises, and what is written on it is never committed.
WedgeIsForever ==
  [][\A c \in Conns : Postgres /\ Wedged(c) =>
       Wedged(c)' /\ \A t \in Threads : Uses[t] = c => durable' \cap Marks(t) \subseteq durable]_vars
==============================================================================
