------------------------------ MODULE QuotaGate ------------------------------
(***************************************************************************)
(* What a question allowance promises, whatever stores it: a charge is     *)
(* taken only below the cap, a returned charge was taken, and accounts may *)
(* be forgotten.  core/quota.py states it twice, once per anonymous key    *)
(* and day (AnonQuota) and once per username (UserQuota); both modules     *)
(* refine this one.  Slack is how far above Limit concurrent requests may  *)
(* push a counter: 0 is the atomic gate the docstrings of consume          *)
(* describe.                                                               *)
(***************************************************************************)
EXTENDS Naturals

CONSTANTS Accounts, \* the counters
          Limit,    \* questions an account may be charged
          Slack     \* charges that may exceed it

VARIABLE charged    \* charged[a]: the questions account a is charged for

Init == charged = [a \in Accounts |-> 0]

\* Take one question from account a; the accounts of F are forgotten with it
\* (the sweep rides on the first charge of a day).
Charge(a, F) ==
  /\ a \notin F
  /\ charged[a] < Limit + Slack
  /\ charged' = [b \in Accounts |-> IF b = a THEN charged[a] + 1
                                    ELSE IF b \in F THEN 0 ELSE charged[b]]

Return(a) ==
  /\ charged[a] > 0
  /\ charged' = [charged EXCEPT ![a] = @ - 1]

Forget(a) == charged' = [charged EXCEPT ![a] = 0]

Next == \E a \in Accounts :
          \/ \E F \in SUBSET Accounts : Charge(a, F)
          \/ Return(a)
          \/ Forget(a)

Spec == Init /\ [][Next]_charged
==============================================================================
