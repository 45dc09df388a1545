---------------------------- MODULE MCAnonQuota ----------------------------
(* Model-checking instance of AnonQuota: workers are interchangeable. *)
EXTENDS AnonQuota, TLC

Symmetry == Permutations(Workers)
==============================================================================
