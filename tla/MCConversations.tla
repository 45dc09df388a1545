-------------------------- MODULE MCConversations ---------------------------
(* Model-checking instance of Conversations: ids and workers are interchangeable. *)
EXTENDS Conversations, TLC

Symmetry == Permutations(Workers) \cup Permutations(Convs)
==============================================================================
