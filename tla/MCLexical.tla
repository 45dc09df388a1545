------------------------------ MODULE MCLexical ------------------------------
(* Model-checking instance of Lexical. *)
EXTENDS Lexical, TLC

CONSTANTS d1, d2, w1, w2, w3, MaxLines

H == [kind |-> "heading", n |-> 1]
T == [kind |-> "title", n |-> 1]
B == [kind |-> "blank", n |-> 0]
P(k) == [kind |-> "prose", n |-> k]

\* One writer brings every text of a few lines, the others one of two, or a line.
AllTexts == UNION {[1 .. k -> {H, T, B, P(1), P(4)}] : k \in 1 .. MaxLines}
FewTexts == {<<P(2)>>, <<H, P(1), B, P(4)>>}
SomeTexts == (w1 :> FewTexts) @@ (w2 :> {<<P(2)>>}) @@ (w3 :> AllTexts)
BaseTexts == (d1 :> <<P(2), B, P(3)>>) @@ (d2 :> <<H, P(1)>>)
\* One thread erases or ingests beside another that does so twice, or beside
\* one that brings any text.
FewOps == {(w1 :> 1) @@ (w2 :> 2) @@ (w3 :> 0), (w1 :> 1) @@ (w2 :> 0) @@ (w3 :> 1)}
KeptDocs == {{}, {d1, d2}}
==============================================================================
