----------------------------- MODULE MCChatPage ------------------------------
(* Model-checking instance of ChatPage: handlers are interchangeable. *)
EXTENDS ChatPage, TLC

Symmetry == Permutations(Tasks)
==============================================================================
