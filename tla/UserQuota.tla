------------------------------ MODULE UserQuota ------------------------------
(***************************************************************************)
(* The lifetime question gate of a logged-in user: core/quota.py           *)
(* UserQuota, the helpers of api/deps.py through which both ask routes     *)
(* (/query and /conversations/{id}/messages) reach it, and the events of   *)
(* an account that bear on it: registration, setting and clearing the      *)
(* user's own API key, and the last two steps of DELETE /account.          *)
(*                                                                         *)
(* As in AnonQuota a worker is a request in flight, and consume's SELECT   *)
(* and its INSERT or UPDATE are separate steps.  One erasure of a username *)
(* runs at a time: two parallel DELETE /account are not modelled.          *)
(***************************************************************************)
EXTENDS Integers, FiniteSets

CONSTANTS Users,    \* usernames
          Workers,  \* ask requests that can be in flight together
          Limit,    \* settings.free_user_questions
          NoRow     \* "no such row in user_quota"

ASSUME UserAssumption ==
  /\ IsFiniteSet(Workers) /\ Workers # {}
  /\ Limit \in Nat
  /\ NoRow \notin Nat

VARIABLES accounts, \* usernames with a row in users
          byok,     \* those whose row holds an API key
          erasing,  \* accounts whose erasure has dropped the counter, not yet the row of users
          table,    \* table[u]: column used of user_quota, or NoRow
          ask,      \* ask[w]: where worker w is in its handler
          answered, \* history: answers delivered on a charge to the present counter
          lost,     \* history: charges to the present counter neither answered nor refunded
          strayed   \* history: users whose counter a refund for an erased one lowered
userVars == <<accounts, byok, erasing, table, ask, answered, lost, strayed>>

Idle == [pc |-> "idle"]

\* plan is paid_tier's answer, kept for the whole request; fresh: SELECT found
\* no row; stale (history): the counter this request was charged to is erased
InFlight == [pc : {"admitted", "consuming", "checked", "asking", "refunding"},
             user : Users, plan : {"free", "byok"}, fresh : BOOLEAN, stale : BOOLEAN]

UserTypeOK ==
  /\ accounts \in SUBSET Users
  /\ byok \in SUBSET accounts
  /\ erasing \in SUBSET accounts
  /\ table \in [Users -> Nat \cup {NoRow}]
  /\ ask \in [Workers -> {Idle} \cup InFlight]
  /\ answered \in [Users -> Nat]
  /\ lost \in [Users -> Nat]
  /\ strayed \in SUBSET Users

Used(u) == IF table[u] = NoRow THEN 0 ELSE table[u]

OnFreeTier(w) == ask[w].plan = "free"
ChargedTo(w, u) == /\ ask[w].pc \in {"asking", "refunding"}
                   /\ ask[w].user = u /\ OnFreeTier(w) /\ ~ask[w].stale
Checked(u) == {w \in Workers : ask[w].pc = "checked" /\ ask[w].user = u}
Charged(u) == {w \in Workers : ChargedTo(w, u)}

UserInit ==
  /\ accounts = {} /\ byok = {} /\ erasing = {}
  /\ table = [u \in Users |-> NoRow]
  /\ ask = [w \in Workers |-> Idle]
  /\ answered = [u \in Users |-> 0]
  /\ lost = [u \in Users |-> 0]
  /\ strayed = {}

Account == <<accounts, byok, erasing>>
History == <<answered, lost, strayed>>

------------------------------------------------------------------------------
(* The account *)

Register(u) ==
  /\ u \notin accounts
  /\ accounts' = accounts \cup {u}
  /\ UNCHANGED <<byok, erasing, table, ask, History>>

SetKey(u) ==
  /\ u \in accounts
  /\ byok' = byok \cup {u}
  /\ UNCHANGED <<accounts, erasing, table, ask, History>>

ClearKey(u) ==
  /\ u \in accounts
  /\ byok' = byok \ {u}
  /\ UNCHANGED <<accounts, erasing, table, ask, History>>

\* UserQuota.erase_user: the counter goes, whatever still refers to it.
EraseCounter(u) ==
  /\ u \in accounts \ erasing
  /\ erasing' = erasing \cup {u}
  /\ table' = [table EXCEPT ![u] = NoRow]
  /\ ask' = [w \in Workers |-> IF ChargedTo(w, u) THEN [ask[w] EXCEPT !.stale = TRUE] ELSE ask[w]]
  /\ answered' = [answered EXCEPT ![u] = 0]
  /\ lost' = [lost EXCEPT ![u] = 0]
  /\ strayed' = strayed \ {u}
  /\ UNCHANGED <<accounts, byok>>

\* AuthStore.erase_user: the row of users goes, the key with it.
EraseAccount(u) ==
  /\ u \in erasing
  /\ accounts' = accounts \ {u}
  /\ byok' = byok \ {u}
  /\ erasing' = erasing \ {u}
  /\ UNCHANGED <<table, ask, History>>

\* The erasure fails between the two: the account stays usable.
EraseFails(u) ==
  /\ u \in erasing
  /\ erasing' = erasing \ {u}
  /\ UNCHANGED <<accounts, byok, table, ask, History>>

------------------------------------------------------------------------------
(* An ask *)

\* current_principal: the token is good and the account still exists.
Arrive(w, u) ==
  /\ ask[w].pc = "idle"
  /\ u \in accounts
  /\ ask' = [ask EXCEPT ![w] = [pc |-> "admitted", user |-> u, plan |-> "free",
                                fresh |-> FALSE, stale |-> FALSE]]
  /\ UNCHANGED <<Account, table, History>>

\* paid_tier: a request on the user's own key skips the gate.
Plan(w) ==
  /\ ask[w].pc = "admitted"
  /\ ask' = [ask EXCEPT ![w] = IF @.user \in byok
                               THEN [@ EXCEPT !.plan = "byok", !.pc = "asking"]
                               ELSE [@ EXCEPT !.pc = "consuming"]]
  /\ UNCHANGED <<Account, table, History>>

AllowLate(u) == Used(u) <= Limit  \* mutant of Allow: the comparison off by one

\* the check of consume
Allow(u) == Used(u) < Limit

\* SELECT used: a spent allowance answers 402 ...
Refuse(w) ==
  /\ ask[w].pc = "consuming"
  /\ ~Allow(ask[w].user)
  /\ ask' = [ask EXCEPT ![w] = Idle]
  /\ UNCHANGED <<Account, table, History>>

\* ... and otherwise the worker goes on to write, knowing whether a row was there.
Pass(w) == LET u == ask[w].user IN
  /\ ask[w].pc = "consuming"
  /\ Allow(u)
  /\ ask' = [ask EXCEPT ![w].pc = "checked", ![w].fresh = (table[u] = NoRow)]
  /\ UNCHANGED <<Account, table, History>>

Insert(w) == LET u == ask[w].user IN
  /\ ask[w].pc = "checked" /\ ask[w].fresh
  /\ table[u] = NoRow
  /\ table' = [table EXCEPT ![u] = 1]
  /\ ask' = [ask EXCEPT ![w].pc = "asking"]
  /\ UNCHANGED <<Account, History>>

\* Two first questions at once: the primary key refuses the second INSERT.
InsertConflict(w) ==
  /\ ask[w].pc = "checked" /\ ask[w].fresh
  /\ table[ask[w].user] # NoRow
  /\ ask' = [ask EXCEPT ![w] = Idle]
  /\ UNCHANGED <<Account, table, History>>

\* UPDATE ... SET used = used + 1; of no row when an erasure took it meanwhile.
Increment(w) == LET u == ask[w].user IN
  /\ ask[w].pc = "checked" /\ ~ask[w].fresh
  /\ table' = [table EXCEPT ![u] = IF @ = NoRow THEN NoRow ELSE @ + 1]
  /\ ask' = [ask EXCEPT ![w].pc = "asking", ![w].stale = (table[u] = NoRow)]
  /\ UNCHANGED <<Account, History>>

\* The pipeline returns an answer a model was called for.
Answer(w) == LET u == ask[w].user IN
  /\ ask[w].pc = "asking"
  /\ answered' = IF ChargedTo(w, u) THEN [answered EXCEPT ![u] = @ + 1] ELSE answered
  /\ ask' = [ask EXCEPT ![w] = Idle]
  /\ UNCHANGED <<Account, table, lost, strayed>>

\* mutant of Refunds: the tier read again after the call
RefundsNow(w) == ask[w].user \notin byok

\* refund_free_question decides by the plan the request started with
Refunds(w) == OnFreeTier(w)

\* LLMUnavailableError, or small talk that called no model (cost_nothing).
Unanswered(w) ==
  /\ ask[w].pc = "asking"
  /\ ask' = [ask EXCEPT ![w] = IF Refunds(w) THEN [@ EXCEPT !.pc = "refunding"] ELSE Idle]
  /\ UNCHANGED <<Account, table, History>>

\* UPDATE ... WHERE username = ? AND used > 0 matches the row of u
Refundable(u) == table[u] # NoRow /\ table[u] > 0

Refund(w) == LET u == ask[w].user IN
  /\ ask[w].pc = "refunding"
  /\ table' = IF Refundable(u) THEN [table EXCEPT ![u] = @ - 1] ELSE table
  /\ strayed' = IF Refundable(u) /\ ~ChargedTo(w, u) THEN strayed \cup {u} ELSE strayed
  /\ ask' = [ask EXCEPT ![w] = Idle]
  /\ UNCHANGED <<Account, answered, lost>>

\* Any other exception, or the end of the process.
Abort(w) == LET u == ask[w].user IN
  /\ ask[w].pc # "idle"
  /\ lost' = IF ChargedTo(w, u) THEN [lost EXCEPT ![u] = @ + 1] ELSE lost
  /\ ask' = [ask EXCEPT ![w] = Idle]
  /\ UNCHANGED <<Account, table, answered, strayed>>

AccountStep(u) ==
  Register(u) \/ SetKey(u) \/ ClearKey(u) \/ EraseCounter(u) \/ EraseAccount(u) \/ EraseFails(u)

AskStep(w) ==
  \/ \E u \in Users : Arrive(w, u)
  \/ Plan(w) \/ Refuse(w) \/ Pass(w) \/ Insert(w) \/ InsertConflict(w) \/ Increment(w)
  \/ Answer(w) \/ Unanswered(w) \/ Refund(w) \/ Abort(w)

UserNext == (\E u \in Users : AccountStep(u)) \/ (\E w \in Workers : AskStep(w))

UserSpec == UserInit /\ [][UserNext]_userVars

------------------------------------------------------------------------------
(* Properties *)

\* Across key changes, erasures and registrations under the same name, a counter
\* no foreign refund has touched is its answers, its calls still running and its
\* charges that died: an ask is charged and refunded by one and the same plan.
Ledger == \A u \in Users \ strayed :
  Used(u) = answered[u] + Cardinality(Charged(u)) + lost[u]

\* The counters are the charges of the abstract gate.
Gate == INSTANCE QuotaGate WITH
          Accounts <- Users, Slack <- Cardinality(Workers) - 1,
          charged <- [u \in Users |-> Used(u)]
GateSpec == Gate!Spec
==============================================================================
