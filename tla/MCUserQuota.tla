---------------------------- MODULE MCUserQuota ----------------------------
(* Model-checking instance of UserQuota: workers are interchangeable. *)
EXTENDS UserQuota, TLC

Symmetry == Permutations(Workers)
==============================================================================
