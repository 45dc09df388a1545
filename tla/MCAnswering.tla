----------------------------- MODULE MCAnswering -----------------------------
(* Model-checking instance of Answering: one document of two chunks and one of a *)
(* single chunk, which quotes a footnote of its own.                             *)
EXTENDS Answering

CONSTANTS d1, d2

TwoAndOne == [d \in {d1, d2} |-> IF d = d1 THEN 2 ELSE 1]
Footnote  == [c \in {<<d1, 1>>, <<d1, 2>>, <<d2, 1>>} |-> IF c = <<d2, 1>> THEN {3} ELSE {}]
==============================================================================
