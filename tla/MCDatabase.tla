----------------------------- MODULE MCDatabase ------------------------------
(* Model-checking instance of Database: threads t2 and t3 of one process share *)
(* its connection c2; t1 is the only thread of another, a second replica.      *)
EXTENDS Database, TLC

CONSTANTS t1, t2, t3, c1, c2

TwoReplicas == t1 :> c1 @@ t2 :> c2 @@ t3 :> c2
==============================================================================
