------------------------------ MODULE SavedChat ------------------------------
(***************************************************************************)
(* What a saved chat promises its reader: a set of turns that grows by     *)
(* questions nobody asked before, each of which may later get its own      *)
(* answer and then keeps it, until the chat is deleted.                    *)
(***************************************************************************)
EXTENDS Naturals

CONSTANTS Convs, MaxTurns, None

VARIABLE chat    \* chat[c]: the turns of c, [question, answer], answer None while open

Questions(c) == {t.question : t \in chat[c]}

Init == chat = [c \in Convs |-> {}]

Ask(c, q) ==
  /\ \A d \in Convs : q \notin Questions(d)
  /\ chat' = [chat EXCEPT ![c] = @ \cup {[question |-> q, answer |-> None]}]

Reply(c, q) ==
  /\ [question |-> q, answer |-> None] \in chat[c]
  /\ chat' = [chat EXCEPT ![c] = (@ \ {[question |-> q, answer |-> None]})
                                     \cup {[question |-> q, answer |-> q]}]

Drop(D) == chat' = [c \in Convs |-> IF c \in D THEN {} ELSE chat[c]]

Next == \/ \E c \in Convs, q \in 1 .. MaxTurns : Ask(c, q) \/ Reply(c, q)
        \/ \E D \in SUBSET Convs : Drop(D)

Spec == Init /\ [][Next]_chat
==============================================================================
