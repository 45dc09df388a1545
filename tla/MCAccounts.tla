----------------------------- MODULE MCAccounts ------------------------------
(* Model-checking instance of Accounts: names and workers are interchangeable. *)
EXTENDS Accounts, TLC

Symmetry == Permutations(Names) \cup Permutations(Workers)
==============================================================================
