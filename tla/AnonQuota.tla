------------------------------ MODULE AnonQuota ------------------------------
(***************************************************************************)
(* The anonymous question gate: core/quota.py AnonQuota together with the  *)
(* anonymous branch of POST /query (api/routes/query.py), its only caller. *)
(*                                                                         *)
(* A worker is a request in flight, on any thread of any API instance.     *)
(* Handlers run in parallel, and consume reads the counter with one SQL    *)
(* statement and writes it with another, so each of the two is a step.     *)
(* Under READ COMMITTED a write is visible to other readers when its       *)
(* transaction commits, and nothing but the commit follows it: the write   *)
(* and the commit are one step.                                            *)
(*                                                                         *)
(* The bot check that comes before consume rejects without touching any    *)
(* state, so Arrive stands for a request that passed it.                   *)
(***************************************************************************)
EXTENDS Integers, FiniteSets

CONSTANTS Keys,      \* quota keys, "ip:<address>"
          Workers,   \* requests that can be in flight together
          Limit,     \* settings.free_anon_questions
          RetainDays,\* _RETAIN_DAYS
          LastDay,   \* bound: the last day the clock reaches
          NoRow      \* "no such row in anon_quota"

ASSUME AnonAssumption ==
  /\ IsFiniteSet(Workers) /\ Workers # {}
  /\ Limit \in Nat /\ RetainDays \in Nat /\ LastDay \in Nat
  /\ NoRow \notin Nat

Days  == 0 .. LastDay
Rows  == Keys \X Days     \* primary key (quota_key, day)

VARIABLES today,    \* date.today()
          table,    \* table[r]: column used of row r of anon_quota, or NoRow
          ask,      \* ask[w]: where worker w is in its handler
          answered, \* history: answered[r], model answers delivered on a charge to r
          lost,     \* history: lost[r], charges to r never answered nor refunded to r
          strayed   \* history: rows whose counter a refund for another row lowered
vars == <<today, table, ask, answered, lost, strayed>>

Idle == [pc |-> "idle"]

\* row is captured when the handler computes key and day; fresh: SELECT found no row
InFlight == [pc : {"consuming", "checked", "asking", "refunding"},
             row : Rows, fresh : BOOLEAN]

TypeOK ==
  /\ today \in Days
  /\ table \in [Rows -> Nat \cup {NoRow}]
  /\ ask \in [Workers -> {Idle} \cup InFlight]
  /\ answered \in [Rows -> Nat]
  /\ lost \in [Rows -> Nat]
  /\ strayed \in SUBSET Rows

Used(r) == IF table[r] = NoRow THEN 0 ELSE table[r]

At(pc, r)  == {w \in Workers : ask[w].pc = pc /\ ask[w].row = r}
Checked(r) == At("checked", r)                            \* passed the check, not yet charged
Charged(r) == At("asking", r) \cup At("refunding", r)     \* charged, and not settled
Recent(r)  == r[2] >= today - RetainDays                  \* not yet within reach of _sweep

Init ==
  /\ today = 0
  /\ table = [r \in Rows |-> NoRow]
  /\ ask = [w \in Workers |-> Idle]
  /\ answered = [r \in Rows |-> 0]
  /\ lost = [r \in Rows |-> 0]
  /\ strayed = {}

------------------------------------------------------------------------------
\* A question arrives; consume captures the day before it opens its transaction.
Arrive(w, k) ==
  /\ ask[w].pc = "idle"
  /\ ask' = [ask EXCEPT ![w] = [pc |-> "consuming", row |-> <<k, today>>, fresh |-> FALSE]]
  /\ UNCHANGED <<today, table, answered, lost, strayed>>

AllowLate(r) == Used(r) <= Limit  \* mutant of Allow: the comparison off by one

\* the check of consume
Allow(r) == Used(r) < Limit

\* SELECT used: a spent row answers 401 ...
Refuse(w) ==
  /\ ask[w].pc = "consuming"
  /\ ~Allow(ask[w].row)
  /\ ask' = [ask EXCEPT ![w] = Idle]
  /\ UNCHANGED <<today, table, answered, lost, strayed>>

\* ... and otherwise the worker goes on to write, knowing whether a row was there.
Pass(w) == LET r == ask[w].row IN
  /\ ask[w].pc = "consuming"
  /\ Allow(r)
  /\ ask' = [ask EXCEPT ![w] = [pc |-> "checked", row |-> r, fresh |-> table[r] = NoRow]]
  /\ UNCHANGED <<today, table, answered, lost, strayed>>

SweepEager(t, day) ==  \* mutant of Sweep: <= for <
  [r \in Rows |-> IF r[2] <= day - RetainDays THEN NoRow ELSE t[r]]

\* DELETE ... WHERE day < cutoff
Sweep(t, day) == [r \in Rows |-> IF r[2] < day - RetainDays THEN NoRow ELSE t[r]]

InsertOrReplace(w) == LET r == ask[w].row IN  \* mutant of Insert: an upsert
  /\ ask[w].pc = "checked" /\ ask[w].fresh
  /\ table' = Sweep([table EXCEPT ![r] = 1], r[2])
  /\ ask' = [ask EXCEPT ![w].pc = "asking"]
  /\ UNCHANGED <<today, answered, lost, strayed>>

\* INSERT of the first question of the day, and the sweep that rides on it.
Insert(w) == LET r == ask[w].row IN
  /\ ask[w].pc = "checked" /\ ask[w].fresh
  /\ table[r] = NoRow
  /\ table' = Sweep([table EXCEPT ![r] = 1], r[2])
  /\ ask' = [ask EXCEPT ![w].pc = "asking"]
  /\ UNCHANGED <<today, answered, lost, strayed>>

\* Another worker inserted the row first: the primary key refuses the second
\* INSERT, the transaction rolls back and the request ends with an error.
InsertConflict(w) ==
  /\ ask[w].pc = "checked" /\ ask[w].fresh
  /\ table[ask[w].row] # NoRow
  /\ ask' = [ask EXCEPT ![w] = Idle]
  /\ UNCHANGED <<today, table, answered, lost, strayed>>

\* UPDATE ... SET used = used + 1 (of no row, when a sweep took it meanwhile).
Increment(w) == LET r == ask[w].row IN
  /\ ask[w].pc = "checked" /\ ~ask[w].fresh
  /\ table' = [table EXCEPT ![r] = IF @ = NoRow THEN NoRow ELSE @ + 1]
  /\ ask' = [ask EXCEPT ![w].pc = "asking"]
  /\ UNCHANGED <<today, answered, lost, strayed>>

\* The pipeline returns an answer a model was called for.
Answer(w) ==
  /\ ask[w].pc = "asking"
  /\ answered' = [answered EXCEPT ![ask[w].row] = @ + 1]
  /\ ask' = [ask EXCEPT ![w] = Idle]
  /\ UNCHANGED <<today, table, lost, strayed>>

\* The pipeline raises LLMUnavailableError, or answers small talk with no model
\* call (cost_nothing): both give the question back.
Unanswered(w) ==
  /\ ask[w].pc = "asking"
  /\ ask' = [ask EXCEPT ![w].pc = "refunding"]
  /\ UNCHANGED <<today, table, answered, lost, strayed>>

\* UPDATE ... WHERE quota_key = ? AND day = ? AND used > 0 matches row r
Refundable(r) == table[r] # NoRow /\ table[r] > 0

\* refund takes its day from the clock again, not from the consume it undoes.
RefundRow(w) == <<ask[w].row[1], today>>

Refund(w) == LET own == ask[w].row
                 r   == RefundRow(w) IN
  /\ ask[w].pc = "refunding"
  /\ table' = IF Refundable(r) THEN [table EXCEPT ![r] = @ - 1] ELSE table
  /\ strayed' = IF Refundable(r) /\ r # own THEN strayed \cup {r} ELSE strayed
  /\ lost' = IF r # own THEN [lost EXCEPT ![own] = @ + 1] ELSE lost
  /\ ask' = [ask EXCEPT ![w] = Idle]
  /\ UNCHANGED <<today, answered>>

\* Any other exception, or the end of the process: the handler stops where it
\* is, an open transaction is rolled back and nothing is refunded.
Abort(w) ==
  /\ ask[w].pc # "idle"
  /\ lost' = IF ask[w].pc \in {"asking", "refunding"}
             THEN [lost EXCEPT ![ask[w].row] = @ + 1] ELSE lost
  /\ ask' = [ask EXCEPT ![w] = Idle]
  /\ UNCHANGED <<today, table, answered, strayed>>

Midnight ==
  /\ today < LastDay
  /\ today' = today + 1
  /\ UNCHANGED <<table, ask, answered, lost, strayed>>

Step(w) ==
  \/ \E k \in Keys : Arrive(w, k)
  \/ Refuse(w) \/ Pass(w) \/ Insert(w) \/ InsertConflict(w) \/ Increment(w)
  \/ Answer(w) \/ Unanswered(w) \/ Refund(w) \/ Abort(w)

Next == Midnight \/ \E w \in Workers : Step(w)

Spec == Init /\ [][Next]_vars

------------------------------------------------------------------------------
(* Properties *)

\* Concurrent requests that read the counter before any of them wrote it can
\* push it past Limit, but only by one for each worker beside the first.
OverrunBound == \A r \in Rows :
  Used(r) + Cardinality(Checked(r)) <= Limit + Cardinality(Workers) - 1

\* The counter of a row no foreign refund has touched is exactly what its
\* requests did: one for each answer delivered, each call still running, and
\* each charge whose request died or whose refund went to another day.  No
\* answer goes uncharged and no question is taken without one of the three.
Ledger == \A r \in Rows \ strayed :
  Recent(r) => Used(r) = answered[r] + Cardinality(Charged(r)) + lost[r]

\* With OverrunBound: the gate lets Cardinality(Workers) - 1 more through than
\* the abstract gate with no slack, and is otherwise that gate.
Gate == INSTANCE QuotaGate WITH
          Accounts <- Rows, Slack <- Cardinality(Workers) - 1,
          charged <- [r \in Rows |-> Used(r)]
GateSpec == Gate!Spec
==============================================================================
