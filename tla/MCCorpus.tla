------------------------------ MODULE MCCorpus -------------------------------
(* Model-checking instance of Corpus: a text of two chunks and one of a single chunk. *)
EXTENDS Corpus, TLC

TwoThenOne == <<2, 1>>
Symmetry == Permutations(Workers) \cup Permutations(Docs)
==============================================================================
