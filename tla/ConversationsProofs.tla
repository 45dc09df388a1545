------------------------- MODULE ConversationsProofs -------------------------
(***************************************************************************)
(* The saved chats keep their order under every interleaving: the proofs   *)
(* of the invariants of Conversations and of its refinement of SavedChat.  *)
(*                                                                         *)
(* Neither the store nor a handler locks a chat: what keeps an answer      *)
(* behind its question is that a request writes its own turn in its own    *)
(* order, and that no chat is ever made twice.  IInv says this of the      *)
(* requests under way.  Every step of the program is one of four kinds     *)
(* (StepKinds): it writes one message, it begins a turn, it deletes chats, *)
(* or it is quiet; IInv and the refinement are proved once for each kind.  *)
(***************************************************************************)
EXTENDS Conversations, TLAPS

Active(w) == req[w].pc # "idle"

\* The messages of a chat, whatever their order.
Kept(c) == {log[c][i] : i \in DOMAIN log[c]}
Message(r, t) == [role |-> r, turn |-> t]

\* Requests that have saved no message of their turn, or the question alone.
Unsaved(w) == req[w].pc \in {"asking", "question", "importQ"}
Halfway(w) == req[w].pc \in {"answer", "importA"}

\* Turns are used in order, each by one request and in one chat.
Turns ==
  /\ \A c \in Convs : \A m \in Kept(c) : m.turn <= turns
  /\ \A w \in Workers : Active(w) => req[w].turn <= turns
  /\ \A w, v \in Workers : Active(w) /\ Active(v) /\ req[w].turn = req[v].turn => w = v
  /\ \A c, d \in Convs : \A m \in Kept(c), n \in Kept(d) : m.turn = n.turn => c = d
  /\ \A w \in Workers, c \in Convs : \A m \in Kept(c) :
       Active(w) /\ m.turn = req[w].turn => c = req[w].conv

\* What a request has written to a chat is there while the chat lives, and no more.
Progress ==
  /\ \A c \in Convs : c \notin drawn => log[c] = <<>>
  /\ \A w \in Workers : Active(w) => req[w].conv \in drawn
  /\ \A w \in Workers : Active(w) => \A m \in Kept(req[w].conv) :
       m.turn = req[w].turn => ~Unsaved(w) /\ (Halfway(w) => m.role = "user")
  /\ \A w \in Workers : Halfway(w) /\ req[w].conv \in live =>
       Message("user", req[w].turn) \in Kept(req[w].conv)

\* A chat nobody shared has one writer, and half a turn is the last it holds.
Alone ==
  /\ \A w, v \in Workers : Active(w) /\ Active(v) /\ req[w].conv = req[v].conv
       /\ req[w].conv \notin shared => w = v
  /\ \A w \in Workers : Halfway(w) /\ req[w].conv \in live \ shared =>
       /\ log[req[w].conv] # <<>>
       /\ log[req[w].conv][Len(log[req[w].conv])] = Message("user", req[w].turn)

Orphans ==
  /\ OrphansComeFromRaces
  /\ \A w \in Workers : Active(w) => req[w].conv \in live \cup raced

IInv == TypeOK /\ Turns /\ Progress /\ AnswersFollowQuestions /\ Alone /\ Orphans

------------------------------------------------------------------------------
(* What is known of a request and of a chat *)

\* A request under way has a chat and a turn.
LEMMA ActiveType ==
  ASSUME TypeOK, NEW w \in Workers, Active(w)
  PROVE  /\ req[w] \in Serving /\ req[w].conv \in Convs
         /\ req[w].turn \in 1 .. MaxTurns /\ req[w].turn \in Nat
BY ConversationsAssumption DEF TypeOK, Active, Idle, Serving

\* The messages of a chat are rows.
LEMMA KeptType ==
  ASSUME TypeOK, NEW c \in Convs
  PROVE  /\ log[c] \in Seq(Rows) /\ Len(log[c]) \in Nat /\ DOMAIN log[c] = 1 .. Len(log[c])
         /\ \A m \in Kept(c) : m \in Rows /\ m.turn \in 1 .. MaxTurns /\ m.turn \in Nat
<1>1. log[c] \in Seq(Rows)
  BY DEF TypeOK
<1>2. Len(log[c]) \in Nat /\ DOMAIN log[c] = 1 .. Len(log[c])
  BY <1>1
<1>3. \A m \in Kept(c) : m \in Rows
  BY <1>1, <1>2 DEF Kept
<1>4. \A m \in Rows : m.turn \in 1 .. MaxTurns /\ m.turn \in Nat
  BY ConversationsAssumption DEF Rows
<1> QED BY <1>1, <1>2, <1>3, <1>4

\* A message is added at the end of its chat.
LEMMA SavedRows ==
  ASSUME TypeOK, NEW w \in Workers, Active(w), NEW r \in {"user", "assistant"},
         NEW c \in Convs, c = req[w].conv, NEW m, m = Message(r, req[w].turn),
         log' = Saved(w, r)
  PROVE  /\ m \in Rows /\ log' \in [Convs -> Seq(Rows)]
         /\ log'[c] = Append(log[c], m)
         /\ \A d \in Convs : d # c => log'[d] = log[d]
         /\ Len(log[c]) \in Nat /\ DOMAIN log'[c] = 1 .. Len(log[c]) + 1
         /\ Len(log'[c]) = Len(log[c]) + 1 /\ log'[c][Len(log[c]) + 1] = m
         /\ \A i \in 1 .. Len(log[c]) : log'[c][i] = log[c][i]
         /\ Kept(c)' = Kept(c) \cup {m}
         /\ \A d \in Convs : d # c => Kept(d)' = Kept(d)
<1>1. m \in Rows
  BY ActiveType DEF Message, Rows
<1>2. log[c] \in Seq(Rows) /\ Len(log[c]) \in Nat /\ DOMAIN log[c] = 1 .. Len(log[c])
  BY KeptType
<1>3. log' = [log EXCEPT ![c] = Append(log[c], m)]
  BY DEF Saved, Message, TypeOK
<1>4. log'[c] = Append(log[c], m) /\ \A d \in Convs : d # c => log'[d] = log[d]
  BY <1>1, <1>3 DEF TypeOK
<1>5. Append(log[c], m) \in Seq(Rows)
  BY <1>1, <1>2
<1>6. log' \in [Convs -> Seq(Rows)]
  BY <1>1, <1>3, <1>5 DEF TypeOK
<1>7. /\ Len(log'[c]) = Len(log[c]) + 1 /\ log'[c][Len(log[c]) + 1] = m
      /\ \A i \in 1 .. Len(log[c]) : log'[c][i] = log[c][i]
      /\ DOMAIN log'[c] = 1 .. Len(log[c]) + 1
  BY <1>1, <1>2, <1>4
<1>8. Kept(c)' = Kept(c) \cup {m}
  <2>1. \A i : i \in 1 .. Len(log[c]) + 1 <=> i \in 1 .. Len(log[c]) \/ i = Len(log[c]) + 1
    BY <1>2
  <2>2. Kept(c)' = {log'[c][i] : i \in 1 .. Len(log[c]) + 1}
    BY <1>7 DEF Kept
  <2>3. Kept(c) = {log[c][i] : i \in 1 .. Len(log[c])}
    BY <1>2 DEF Kept
  <2>4. \A x : x \in Kept(c)' => x \in Kept(c) \cup {m}
    BY <1>7, <2>1, <2>2, <2>3
  <2>5. m \in Kept(c)'
    BY <1>7, <2>1, <2>2
  <2>6. \A x : x \in Kept(c) => x \in Kept(c)'
    BY <1>7, <2>1, <2>2, <2>3
  <2> HIDE <2>2, <2>3
  <2> QED BY ONLY <2>4, <2>5, <2>6
<1>9. \A d \in Convs : d # c => Kept(d)' = Kept(d)
  BY <1>4 DEF Kept
<1> QED BY <1>1, <1>2, <1>4, <1>6, <1>7, <1>8, <1>9

------------------------------------------------------------------------------
(* Steps that write a message *)

\* Where a request is after it saved a message of role r: done, further on in its
\* turn, or at the next turn of an import.
Onward(w, r, q) ==
  \/ turns' = turns /\ q = Idle
  \/ /\ turns' = turns /\ q.conv = req[w].conv /\ q.turn = req[w].turn
     /\ q.pc \in IF r = "user" THEN {"answer", "importA"} ELSE {"title"}
  \/ /\ r = "assistant" /\ turns' = turns + 1 /\ turns < MaxTurns
     /\ q.conv = req[w].conv /\ q.turn = turns + 1 /\ q.pc = "importQ"

Writes(w, r, q) ==
  /\ Active(w) /\ log' = Saved(w, r)
  /\ IF r = "user" THEN Unsaved(w) ELSE Halfway(w)
  /\ req' = [req EXCEPT ![w] = q] /\ q \in {Idle} \cup Serving
  /\ Onward(w, r, q)
  /\ UNCHANGED <<live, drawn, title, Erasure, Histories>>

\* A message written by the request whose turn it is disturbs no other turn.
LEMMA WritesKeeps ==
  ASSUME IInv, NEW w \in Workers, NEW r \in {"user", "assistant"}, NEW q, Writes(w, r, q)
  PROVE  IInv'
<1>1. PICK c \in Convs : c = req[w].conv
  BY ActiveType DEF IInv, Writes
<1>2. PICK t \in 1 .. MaxTurns : t = req[w].turn
  BY ActiveType DEF IInv, Writes
<1> DEFINE m == Message(r, t)
<1>3. /\ m \in Rows /\ log' \in [Convs -> Seq(Rows)]
      /\ \A d \in Convs : d # c => log'[d] = log[d]
      /\ Len(log[c]) \in Nat /\ DOMAIN log'[c] = 1 .. Len(log[c]) + 1
      /\ Len(log'[c]) = Len(log[c]) + 1 /\ log'[c][Len(log[c]) + 1] = m
      /\ \A i \in 1 .. Len(log[c]) : log'[c][i] = log[c][i]
      /\ Kept(c)' = Kept(c) \cup {m}
      /\ \A d \in Convs : d # c => Kept(d)' = Kept(d)
  <2>1. m = Message(r, req[w].turn) /\ TypeOK /\ Active(w) /\ log' = Saved(w, r)
    BY <1>2 DEF IInv, Writes
  <2> HIDE DEF m
  <2>2. m \in Rows
    BY <1>1, <2>1, SavedRows
  <2>3. Kept(c)' = Kept(c) \cup {m}
    BY <1>1, <2>1, SavedRows
  <2>4. \A d \in Convs : d # c => Kept(d)' = Kept(d)
    BY <1>1, <2>1, SavedRows
  <2>5. \A d \in Convs : d # c => log'[d] = log[d]
    BY <1>1, <2>1, SavedRows
  <2>6. \A i \in 1 .. Len(log[c]) : log'[c][i] = log[c][i]
    BY <1>1, <2>1, SavedRows
  <2>7. log' \in [Convs -> Seq(Rows)] /\ Len(log[c]) \in Nat
    BY <1>1, <2>1, SavedRows
  <2>8. /\ DOMAIN log'[c] = 1 .. Len(log[c]) + 1
        /\ Len(log'[c]) = Len(log[c]) + 1 /\ log'[c][Len(log[c]) + 1] = m
    BY <1>1, <2>1, SavedRows
  <2> QED BY ONLY <2>2, <2>3, <2>4, <2>5, <2>6, <2>7, <2>8
<1>4. m.turn = t /\ m.role = r /\ t \in Nat /\ t <= turns
  BY <1>2 DEF Message, IInv, Turns, Writes
<1> HIDE DEF m
<1>5. /\ \A v \in Workers : v # w => req'[v] = req[v]
      /\ req'[w] = q
  BY DEF Writes, IInv, TypeOK
<1>6. /\ \A v \in Workers : v # w => (Active(v)' <=> Active(v))
      /\ \A v \in Workers : v # w => (Unsaved(v)' <=> Unsaved(v))
      /\ \A v \in Workers : v # w => (Halfway(v)' <=> Halfway(v))
  BY <1>5 DEF Active, Unsaved, Halfway
<1>7. /\ turns \in Nat /\ turns' \in Nat /\ turns <= turns' /\ turns' \in 0 .. MaxTurns
  BY ConversationsAssumption DEF Writes, Onward, IInv, TypeOK
<1>8. TypeOK'
  BY <1>3, <1>7 DEF Writes, IInv, TypeOK, Erasure, Histories
<1>9. Turns'
  <2>1. \A d \in Convs : \A n \in Kept(d)' : n.turn <= turns'
    BY <1>3, <1>4, <1>7, KeptType DEF IInv, Turns
  <2>2. \A v \in Workers : Active(v)' => req'[v].turn <= turns'
    BY <1>2, <1>4, <1>5, <1>6, <1>7, ActiveType DEF IInv, Turns, Active, Writes, Onward, Idle
  <2>3. \A u, v \in Workers : Active(u)' /\ Active(v)' /\ req'[u].turn = req'[v].turn => u = v
    <3>1. \A v \in Workers : v # w /\ Active(v) /\ Active(w)' => req'[w].turn # req[v].turn
      BY <1>5, <1>7, ActiveType DEF IInv, Turns, Active, Writes, Onward, Idle
    <3> QED BY <1>5, <1>6, <3>1 DEF IInv, Turns
  <2>4. \A d, e \in Convs : \A n \in Kept(d)', o \in Kept(e)' : n.turn = o.turn => d = e
    <3>1. \A d \in Convs : \A n \in Kept(d) : n.turn = t => d = c
      BY <1>1, <1>2 DEF IInv, Turns, Writes
    <3> QED BY <1>3, <1>4, <3>1 DEF IInv, Turns
  <2>5. \A v \in Workers, d \in Convs : \A n \in Kept(d)' :
          Active(v)' /\ n.turn = req'[v].turn => d = req'[v].conv
    <3>1. \A v \in Workers : v # w /\ Active(v) => req[v].turn # t
      BY <1>2 DEF IInv, Turns, Writes
    <3>2. CASE q = Idle
      BY <1>3, <1>4, <1>5, <1>6, <3>1, <3>2 DEF IInv, Turns, Active, Idle
    <3>3. CASE q.conv = c /\ q.turn = t
      BY <1>1, <1>2, <1>3, <1>4, <1>5, <1>6, <3>1, <3>3 DEF IInv, Turns, Writes
    <3>4. CASE q.turn = turns + 1
      <4>1. \A d \in Convs : \A n \in Kept(d)' : n.turn <= turns /\ n.turn \in Nat
        BY <1>3, <1>4, KeptType DEF IInv, Turns
      <4> QED BY <1>3, <1>4, <1>5, <1>6, <1>7, <3>1, <3>4, <4>1 DEF IInv, Turns
    <3> QED BY <1>1, <1>2, <3>2, <3>3, <3>4 DEF Writes, Onward
  <2> QED BY <2>1, <2>2, <2>3, <2>4, <2>5 DEF Turns
<1>10. Progress'
  <2>1. \A d \in Convs : d \notin drawn' => log'[d] = <<>>
    BY <1>1, <1>3 DEF IInv, Progress, Writes
  <2>2. \A v \in Workers : Active(v)' => req'[v].conv \in drawn'
    BY <1>1, <1>5, <1>6 DEF IInv, Progress, Writes, Onward, Active, Idle
  <2>3. ASSUME NEW v \in Workers, Active(v)', NEW d \in Convs, d = req'[v].conv,
               NEW n \in Kept(d)', n.turn = req'[v].turn
        PROVE  Unsaved(v)' = FALSE /\ (Halfway(v)' => n.role = "user")
    <3>1. CASE v # w
      <4>1. req[v].turn # t /\ req[v].conv = d /\ Active(v)
        BY <1>2, <1>5, <1>6, <2>3, <3>1 DEF IInv, Turns, Writes
      <4>2. n \in Kept(d)
        BY <1>3, <1>4, <1>5, <2>3, <3>1, <4>1
      <4> QED BY <1>5, <1>6, <2>3, <3>1, <4>1, <4>2 DEF IInv, Progress
    <3>2. CASE v = w /\ q.turn = t /\ r = "user"
      <4>1. d = c /\ q.pc \in {"answer", "importA"}
        BY <1>1, <1>2, <1>4, <1>5, <1>7, <2>3, <3>2 DEF Writes, Onward, Active, Idle
      <4>2. n = m
        BY <1>1, <1>2, <1>3, <1>5, <2>3, <3>2, <4>1 DEF IInv, Progress, Writes
      <4> QED BY <1>4, <1>5, <3>2, <4>1, <4>2 DEF Unsaved
    <3>3. CASE v = w /\ q.pc = "title"
      BY <1>5, <3>3 DEF Unsaved, Halfway
    <3>4. CASE v = w /\ q.turn = turns + 1
      <4>1. n.turn <= turns /\ n.turn \in Nat
        BY <1>3, <1>4, KeptType DEF IInv, Turns
      <4> QED BY <1>5, <1>7, <2>3, <3>4, <4>1
    <3>5. CASE v = w
      <4>1. q # Idle
        BY <1>5, <2>3, <3>5 DEF Active, Idle
      <4>2. \/ q.turn = t /\ r = "user"
            \/ q.pc = "title"
            \/ q.turn = turns + 1
        BY <1>2, <4>1 DEF Writes, Onward
      <4> QED BY <3>2, <3>3, <3>4, <3>5, <4>2
    <3> QED BY <3>1, <3>5
  <2>4. ASSUME NEW v \in Workers, Halfway(v)', NEW d \in Convs, d = req'[v].conv, d \in live'
        PROVE  Message("user", req'[v].turn) \in Kept(d)'
    <3>1. CASE v # w
      BY <1>3, <1>5, <1>6, <2>4, <3>1 DEF IInv, Progress, Writes
    <3>2. CASE v = w
      <4>1. d = c /\ q.turn = t /\ r = "user"
        BY <1>1, <1>2, <1>5, <2>4, <3>2 DEF Writes, Onward, Halfway, Idle
      <4> QED BY <1>3, <1>5, <3>2, <4>1 DEF m
    <3> QED BY <3>1, <3>2
  <2>5. \A v \in Workers : (Active(v)' => req'[v].conv \in Convs) /\ (Halfway(v)' => Active(v)')
    BY <1>8 DEF TypeOK, Halfway, Active, Idle, Serving
  <2> QED BY <2>1, <2>2, <2>3, <2>4, <2>5 DEF Progress
<1>11. AnswersFollowQuestions'
  <2> SUFFICES ASSUME NEW d \in Convs, d \in live
               PROVE  /\ \A i, j \in DOMAIN log'[d] : log'[d][i] = log'[d][j] => i = j
                      /\ \A i \in DOMAIN log'[d] : log'[d][i].role = "assistant" =>
                           \E j \in 1 .. i - 1 : /\ log'[d][j].role = "user"
                                                 /\ log'[d][j].turn = log'[d][i].turn
    BY <1>8 DEF AnswersFollowQuestions, Of, Writes, TypeOK
  <2>1. /\ \A i, j \in DOMAIN log[d] : log[d][i] = log[d][j] => i = j
        /\ \A i \in DOMAIN log[d] : log[d][i].role = "assistant" =>
             \E j \in 1 .. i - 1 : log[d][j].role = "user" /\ log[d][j].turn = log[d][i].turn
    BY DEF IInv, AnswersFollowQuestions, Of
  <2>2. CASE d # c
    <3>1. log'[d] = log[d]
      BY <1>3, <2>2
    <3> QED BY <2>1, <3>1
  <2>3. CASE d = c
    <3> DEFINE n == Len(log[c])
    <3>1. n \in Nat /\ DOMAIN log[c] = 1 .. n /\ DOMAIN log'[c] = 1 .. n + 1
      BY <1>3, KeptType DEF IInv
    <3>2. \A i \in 1 .. n + 1 : i \in 1 .. n \/ i = n + 1
      BY <3>1
    <3>3. \A i \in 1 .. n : log'[c][i] = log[c][i] /\ log'[c][i] # m
      <4> TAKE i \in 1 .. n
      <4>1. log[c][i] \in Kept(c) /\ log'[c][i] = log[c][i]
        BY <1>3, <3>1 DEF Kept
      <4>2. log[c][i].turn = t => ~Unsaved(w) /\ (Halfway(w) => log[c][i].role = "user")
        BY <1>1, <1>2, <4>1 DEF IInv, Progress, Writes
      <4> QED BY <1>4, <4>1, <4>2 DEF Writes
    <3>4. log'[c][n + 1] = m
      BY <1>3
    <3>5. \A i, j \in 1 .. n + 1 : log'[c][i] = log'[c][j] => i = j
      <4> HIDE DEF n
      <4> QED BY <2>1, <2>3, <3>1, <3>2, <3>3, <3>4
    <3>6. ASSUME NEW i \in 1 .. n, log'[c][i].role = "assistant"
          PROVE  \E j \in 1 .. i - 1 : log'[c][j].role = "user" /\ log'[c][j].turn = log'[c][i].turn
      <4>1. PICK j \in 1 .. i - 1 : log[c][j].role = "user" /\ log[c][j].turn = log[c][i].turn
        BY <2>1, <2>3, <3>1, <3>3, <3>6
      <4>2. j \in 1 .. n
        BY <3>1
      <4> QED BY <3>3, <4>1, <4>2
    <3>7. r = "assistant" =>
            \E j \in 1 .. n : log'[c][j].role = "user" /\ log'[c][j].turn = t
      <4> SUFFICES ASSUME r = "assistant"
                   PROVE  \E j \in 1 .. n : log'[c][j].role = "user" /\ log'[c][j].turn = t
        OBVIOUS
      <4>1. Message("user", t) \in Kept(c)
        BY <1>1, <1>2, <2>3 DEF IInv, Progress, Writes
      <4>2. PICK j \in 1 .. n : log[c][j] = Message("user", t)
        BY <3>1, <4>1 DEF Kept
      <4> QED BY <3>3, <4>2 DEF Message
    <3>8. n + 1 - 1 = n
      BY <3>1
    <3> HIDE DEF n
    <3>9. ASSUME NEW i \in 1 .. n + 1, log'[c][i].role = "assistant"
          PROVE  \E j \in 1 .. i - 1 : log'[c][j].role = "user" /\ log'[c][j].turn = log'[c][i].turn
      <4>1. CASE i \in 1 .. n
        BY <3>6, <3>9, <4>1
      <4>2. CASE i = n + 1
        <5>1. r = "assistant" /\ log'[c][i].turn = t
          BY <1>4, <3>4, <3>9, <4>2
        <5>2. i - 1 = n
          BY <3>1, <4>2
        <5> QED BY <3>7, <5>1, <5>2
      <4> QED BY <3>2, <4>1, <4>2
    <3> QED BY <2>3, <3>1, <3>5, <3>9
  <2> QED BY <2>2, <2>3
<1>12. Alone'
  <2>1. ASSUME NEW u \in Workers, NEW v \in Workers, Active(u)', Active(v)',
               req'[u].conv = req'[v].conv, req'[u].conv \notin shared'
        PROVE  u = v
    <3>1. Active(w)' => req'[w].conv = req[w].conv
      BY <1>5 DEF Writes, Onward, Active, Idle
    <3> QED BY <1>5, <1>6, <2>1, <3>1 DEF IInv, Alone, Writes, Histories
  <2>2. ASSUME NEW v \in Workers, Halfway(v)', NEW d \in Convs, d = req'[v].conv,
               d \in live' \ shared'
        PROVE  log'[d] # <<>> /\ log'[d][Len(log'[d])] = Message("user", req'[v].turn)
    <3>1. CASE v # w
      <4>1. d # c
        BY <1>1, <1>5, <1>6, <2>2, <3>1 DEF IInv, Alone, Writes, Histories, Halfway, Active
      <4> QED BY <1>3, <1>5, <1>6, <2>2, <3>1, <4>1 DEF IInv, Alone, Writes, Histories
    <3>2. CASE v = w
      <4>1. d = c /\ q.turn = t /\ r = "user"
        BY <1>1, <1>2, <1>5, <2>2, <3>2 DEF Writes, Onward, Halfway, Idle
      <4>2. log'[c][Len(log'[c])] = m
        BY <1>3
      <4>3. log'[c] # <<>>
        BY <1>3
      <4> QED BY <1>5, <3>2, <4>1, <4>2, <4>3 DEF m
    <3> QED BY <3>1, <3>2
  <2>3. \A v \in Workers : Halfway(v)' => req'[v].conv \in Convs
    BY <1>8 DEF TypeOK, Halfway, Idle, Serving
  <2> QED BY <2>1, <2>2, <2>3 DEF Alone
<1>13. Orphans'
  <2>1. c \in live \cup raced
    BY <1>1 DEF IInv, Orphans, Writes
  <2>2. OrphansComeFromRaces'
    BY <1>3, <2>1 DEF IInv, Orphans, OrphansComeFromRaces, Of, Writes, Histories
  <2>3. \A v \in Workers : Active(v)' => req'[v].conv \in live' \cup raced'
    BY <1>1, <1>5, <1>6, <2>1 DEF IInv, Orphans, Writes, Histories, Onward, Active, Idle
  <2> QED BY <2>2, <2>3 DEF Orphans
<1> QED BY <1>8, <1>9, <1>10, <1>11, <1>12, <1>13 DEF IInv

------------------------------------------------------------------------------
(* Steps that write none *)

\* No message and no turn: a request waits less or goes, an empty chat appears.
Quiet ==
  /\ UNCHANGED <<log, turns, Histories>>
  /\ drawn \subseteq drawn' /\ \A c \in live' : c \in live \/ c \notin drawn
  /\ live \subseteq live'
  /\ \A w \in Workers :
       \/ req'[w] = req[w]
       \/ req'[w] = Idle
       \/ /\ Active(w) /\ req[w].pc = "asking" /\ req'[w].pc = "question"
          /\ req'[w].conv = req[w].conv /\ req'[w].turn = req[w].turn

\* Nothing is lost while nobody writes.
LEMMA QuietKeeps ==
  ASSUME IInv, TypeOK', Quiet
  PROVE  IInv'
<1>1. log' = log /\ turns' = turns /\ raced' = raced /\ shared' = shared
  BY DEF Quiet, Histories
<1>2. \A c \in Convs : Kept(c)' = Kept(c)
  BY <1>1 DEF Kept
<1>3. \A w \in Workers : Active(w)' =>
        /\ Active(w) /\ req'[w].conv = req[w].conv /\ req'[w].turn = req[w].turn
        /\ Unsaved(w)' <=> Unsaved(w)
        /\ Halfway(w)' <=> Halfway(w)
  BY DEF Quiet, Active, Unsaved, Halfway, Idle
<1>4. \A w \in Workers : (Active(w)' => req[w].conv \in Convs) /\ (Halfway(w)' => Active(w)')
  BY <1>3, ActiveType DEF IInv, Halfway, Active
<1>5. Turns'
  <2>1. \A c \in Convs : \A m \in Kept(c)' : m.turn <= turns'
    BY <1>1, <1>2 DEF IInv, Turns
  <2>2. \A w \in Workers : Active(w)' => req'[w].turn <= turns'
    BY <1>1, <1>3 DEF IInv, Turns
  <2>3. \A w, v \in Workers : Active(w)' /\ Active(v)' /\ req'[w].turn = req'[v].turn => w = v
    BY <1>3 DEF IInv, Turns
  <2>4. \A c, d \in Convs : \A m \in Kept(c)', n \in Kept(d)' : m.turn = n.turn => c = d
    BY <1>2 DEF IInv, Turns
  <2>5. \A w \in Workers, c \in Convs : \A m \in Kept(c)' :
          Active(w)' /\ m.turn = req'[w].turn => c = req'[w].conv
    BY <1>2, <1>3 DEF IInv, Turns
  <2> QED BY <2>1, <2>2, <2>3, <2>4, <2>5 DEF Turns
<1>6. Progress'
  <2>1. \A c \in Convs : c \notin drawn' => log'[c] = <<>>
    BY <1>1 DEF IInv, Progress, Quiet
  <2>2. \A w \in Workers : Active(w)' => req'[w].conv \in drawn'
    BY <1>3 DEF IInv, Progress, Quiet
  <2>3. ASSUME NEW w \in Workers, Active(w)', NEW c \in Convs, c = req'[w].conv,
               NEW n \in Kept(c)', n.turn = req'[w].turn
        PROVE  Unsaved(w)' = FALSE /\ (Halfway(w)' => n.role = "user")
    BY <1>2, <1>3, <2>3 DEF IInv, Progress
  <2>4. ASSUME NEW w \in Workers, Halfway(w)', NEW c \in Convs, c = req'[w].conv, c \in live'
        PROVE  Message("user", req'[w].turn) \in Kept(c)'
    BY <1>2, <1>3, <1>4, <2>4 DEF IInv, Progress, Quiet
  <2> QED BY <1>3, <1>4, <2>1, <2>2, <2>3, <2>4 DEF Progress
<1>7. \A c \in live' : c \in live \/ log[c] = <<>>
  BY DEF Quiet, IInv, Progress, TypeOK
<1>8. AnswersFollowQuestions'
  <2> SUFFICES ASSUME NEW c \in live'
               PROVE  /\ \A i, j \in DOMAIN log'[c] : log'[c][i] = log'[c][j] => i = j
                      /\ \A i \in DOMAIN log'[c] : log'[c][i].role = "assistant" =>
                           \E j \in 1 .. i - 1 : /\ log'[c][j].role = "user"
                                                 /\ log'[c][j].turn = log'[c][i].turn
    BY DEF AnswersFollowQuestions, Of
  <2>1. CASE c \in live
    BY <1>1, <2>1 DEF IInv, AnswersFollowQuestions, Of
  <2>2. CASE log[c] = <<>>
    <3>1. DOMAIN log'[c] = {}
      BY <1>1, <2>2
    <3> QED BY <3>1
  <2> QED BY <1>7, <2>1, <2>2
<1>9. Alone'
  <2>1. ASSUME NEW w \in Workers, NEW v \in Workers, Active(w)', Active(v)',
               req'[w].conv = req'[v].conv, req'[w].conv \notin shared'
        PROVE  w = v
    BY <1>1, <1>3, <2>1 DEF IInv, Alone
  <2>2. ASSUME NEW w \in Workers, Halfway(w)', NEW c \in Convs, c = req'[w].conv,
               c \in live' \ shared'
        PROVE  log'[c] # <<>> /\ log'[c][Len(log'[c])] = Message("user", req'[w].turn)
    <3>1. c \in drawn
      BY <1>3, <1>4, <2>2 DEF IInv, Progress
    <3> QED BY <1>1, <1>3, <1>4, <2>2, <3>1 DEF IInv, Alone, Quiet
  <2> QED BY <1>3, <1>4, <2>1, <2>2 DEF Alone
<1>10. Orphans'
  <2>1. OrphansComeFromRaces'
    BY <1>1 DEF IInv, Orphans, OrphansComeFromRaces, Of, Quiet
  <2>2. \A w \in Workers : Active(w)' => req'[w].conv \in live' \cup raced'
    BY <1>1, <1>3 DEF IInv, Orphans, Quiet
  <2> QED BY <2>1, <2>2 DEF Orphans
<1> QED BY <1>5, <1>6, <1>8, <1>9, <1>10 DEF IInv

\* A request begins its turn in c, a live chat or a new one.
Starts(w, c) ==
  /\ ~Active(w) /\ turns' = turns + 1 /\ UNCHANGED <<log, raced>>
  /\ live' = live \cup {c} /\ drawn' = drawn \cup {c} /\ (c \in live \/ c \notin drawn)
  /\ shared \subseteq shared' /\ shared' \subseteq shared \cup {c}
  /\ c \notin shared' => Writing(c) = {}
  /\ req'[w].pc \in {"asking", "importQ"} /\ req'[w].conv = c /\ req'[w].turn = turns + 1
  /\ \A v \in Workers : v # w => req'[v] = req[v]

\* A new turn is later than every other, and a second writer is known as such.
LEMMA StartsKeeps ==
  ASSUME IInv, TypeOK', NEW w \in Workers, NEW c \in Convs, Starts(w, c)
  PROVE  IInv'
<1>1. log' = log /\ turns' = turns + 1 /\ raced' = raced
  BY DEF Starts
<1>2. \A d \in Convs : Kept(d)' = Kept(d)
  BY <1>1 DEF Kept
<1>3. \A v \in Workers : v # w =>
        /\ Active(v)' <=> Active(v)
        /\ req'[v] = req[v]
        /\ Unsaved(v)' <=> Unsaved(v)
        /\ Halfway(v)' <=> Halfway(v)
  BY DEF Starts, Active, Unsaved, Halfway
<1>4. /\ Active(w)' /\ ~Halfway(w)' /\ req'[w].conv = c /\ req'[w].turn = turns'
      /\ ~Active(w)
  BY <1>1 DEF Starts, Active, Halfway
<1>5. \A v \in Workers : Active(v) =>
        req[v].conv \in Convs /\ req[v].turn \in Nat /\ req[v].turn <= turns
  BY ActiveType DEF IInv, Turns
<1>6. \A d \in Convs : \A n \in Kept(d) : n.turn \in Nat /\ n.turn <= turns
  BY KeptType DEF IInv, Turns
<1>7. turns \in Nat /\ turns < turns'
  BY <1>1, ConversationsAssumption DEF IInv, TypeOK
<1>8. \A v \in Workers : Halfway(v)' => v # w /\ Active(v)' /\ Active(v)
  BY <1>3, <1>4 DEF Halfway, Active
<1>9. Turns'
  <2>1. \A d \in Convs : \A n \in Kept(d)' : n.turn <= turns'
    BY <1>2, <1>6, <1>7, <1>1
  <2>2. \A v \in Workers : Active(v)' => req'[v].turn <= turns'
    BY <1>1, <1>3, <1>4, <1>5, <1>7
  <2>3. \A u, v \in Workers : Active(u)' /\ Active(v)' /\ req'[u].turn = req'[v].turn => u = v
    <3>1. \A v \in Workers : v # w /\ Active(v)' => req'[v].turn # turns'
      BY <1>1, <1>3, <1>5, <1>7
    <3> QED BY <1>3, <1>4, <3>1 DEF IInv, Turns
  <2>4. \A d, e \in Convs : \A m \in Kept(d)', n \in Kept(e)' : m.turn = n.turn => d = e
    BY <1>2 DEF IInv, Turns
  <2>5. \A v \in Workers, d \in Convs : \A n \in Kept(d)' :
          Active(v)' /\ n.turn = req'[v].turn => d = req'[v].conv
    <3>1. \A d \in Convs : \A n \in Kept(d) : n.turn # turns'
      BY <1>1, <1>6, <1>7
    <3> QED BY <1>2, <1>3, <1>4, <3>1 DEF IInv, Turns
  <2> QED BY <2>1, <2>2, <2>3, <2>4, <2>5 DEF Turns
<1>10. Progress'
  <2>1. \A d \in Convs : d \notin drawn' => log'[d] = <<>>
    BY <1>1 DEF IInv, Progress, Starts
  <2>2. \A v \in Workers : Active(v)' => req'[v].conv \in drawn'
    BY <1>3, <1>4 DEF IInv, Progress, Starts
  <2>3. ASSUME NEW v \in Workers, Active(v)', NEW d \in Convs, d = req'[v].conv,
               NEW n \in Kept(d)', n.turn = req'[v].turn
        PROVE  Unsaved(v)' = FALSE /\ (Halfway(v)' => n.role = "user")
    <3>1. CASE v = w
      BY <1>1, <1>2, <1>4, <1>6, <1>7, <2>3, <3>1
    <3>2. CASE v # w
      BY <1>2, <1>3, <2>3, <3>2 DEF IInv, Progress
    <3> QED BY <3>1, <3>2
  <2>4. ASSUME NEW v \in Workers, Halfway(v)', NEW d \in Convs, d = req'[v].conv, d \in live'
        PROVE  Message("user", req'[v].turn) \in Kept(d)'
    <3>1. d \in drawn
      BY <1>3, <1>8, <2>4 DEF IInv, Progress
    <3>2. d \in live
      BY <2>4, <3>1 DEF Starts
    <3> QED BY <1>2, <1>3, <1>8, <2>4, <3>2 DEF IInv, Progress
  <2> QED BY <1>3, <1>4, <1>5, <1>8, <2>1, <2>2, <2>3, <2>4 DEF Progress
<1>11. \A d \in live' : d \in live \/ log[d] = <<>>
  BY DEF Starts, IInv, Progress, TypeOK
<1>12. AnswersFollowQuestions'
  <2> SUFFICES ASSUME NEW d \in live'
               PROVE  /\ \A i, j \in DOMAIN log'[d] : log'[d][i] = log'[d][j] => i = j
                      /\ \A i \in DOMAIN log'[d] : log'[d][i].role = "assistant" =>
                           \E j \in 1 .. i - 1 : /\ log'[d][j].role = "user"
                                                 /\ log'[d][j].turn = log'[d][i].turn
    BY DEF AnswersFollowQuestions, Of
  <2>1. CASE d \in live
    BY <1>1, <2>1 DEF IInv, AnswersFollowQuestions, Of
  <2>2. CASE log[d] = <<>>
    <3>1. DOMAIN log'[d] = {}
      BY <1>1, <2>2
    <3> QED BY <3>1
  <2> QED BY <1>11, <2>1, <2>2
<1>13. Alone'
  <2>1. ASSUME NEW u \in Workers, NEW v \in Workers, Active(u)', Active(v)',
               req'[u].conv = req'[v].conv, req'[u].conv \notin shared'
        PROVE  u = v
    <3>1. \A x \in Workers : x # w /\ Active(x) /\ req[x].conv = c => x \in Writing(c)
      BY DEF Writing, Active
    <3>2. c \notin shared' => \A x \in Workers : x # w /\ Active(x) => req[x].conv # c
      BY <3>1 DEF Starts
    <3> QED BY <1>3, <1>4, <2>1, <3>2 DEF IInv, Alone, Starts
  <2>2. ASSUME NEW v \in Workers, Halfway(v)', NEW d \in Convs, d = req'[v].conv,
               d \in live' \ shared'
        PROVE  log'[d] # <<>> /\ log'[d][Len(log'[d])] = Message("user", req'[v].turn)
    <3>1. d \in drawn
      BY <1>3, <1>8, <2>2 DEF IInv, Progress
    <3>2. d \in live \ shared
      BY <2>2, <3>1 DEF Starts
    <3> QED BY <1>1, <1>3, <1>8, <2>2, <3>2 DEF IInv, Alone
  <2> QED BY <1>3, <1>5, <1>8, <2>1, <2>2 DEF Alone
<1>14. Orphans'
  <2>1. OrphansComeFromRaces'
    BY <1>1 DEF IInv, Orphans, OrphansComeFromRaces, Of, Starts
  <2>2. \A v \in Workers : Active(v)' => req'[v].conv \in live' \cup raced'
    BY <1>1, <1>3, <1>4 DEF IInv, Orphans, Starts
  <2> QED BY <2>1, <2>2 DEF Orphans
<1> QED BY <1>9, <1>10, <1>12, <1>13, <1>14 DEF IInv

\* Chats are deleted, each with its messages or as one that was raced.
Deletes ==
  /\ UNCHANGED <<drawn, turns, req, shared>>
  /\ live' \subseteq live /\ raced \subseteq raced'
  /\ \A c \in Convs : log'[c] = log[c] \/ log'[c] = <<>>
  /\ \A c \in live' : log'[c] = log[c]
  /\ \A c \in live \ live' : c \in raced' \/ (log'[c] = <<>> /\ Writing(c) = {})

\* What a deletion leaves is whole chats and the chats it raced.
LEMMA DeletesKeeps ==
  ASSUME IInv, TypeOK', Deletes
  PROVE  IInv'
<1>1. drawn' = drawn /\ turns' = turns /\ req' = req /\ shared' = shared
  BY DEF Deletes
<1>2. \A c \in Convs : Kept(c)' \subseteq Kept(c)
  <2> SUFFICES ASSUME NEW c \in Convs PROVE Kept(c)' \subseteq Kept(c)
    OBVIOUS
  <2>1. CASE log'[c] = log[c]
    BY <2>1 DEF Kept
  <2>2. CASE log'[c] = <<>>
    <3>1. DOMAIN log'[c] = {}
      BY <2>2
    <3> QED BY <3>1 DEF Kept
  <2> QED BY <2>1, <2>2 DEF Deletes
<1>3. \A c \in live' : c \in live /\ c \in Convs /\ log'[c] = log[c] /\ Kept(c)' = Kept(c)
  BY DEF Deletes, Kept, IInv, TypeOK
<1>4. \A w \in Workers :
        /\ Active(w)' <=> Active(w)
        /\ Unsaved(w)' <=> Unsaved(w)
        /\ Halfway(w)' <=> Halfway(w)
  BY <1>1 DEF Active, Unsaved, Halfway
<1>5. \A w \in Workers : (Active(w) => req[w].conv \in Convs) /\ (Halfway(w) => Active(w))
  BY ActiveType DEF IInv, Halfway, Active
<1>6. Turns'
  <2>1. \A c \in Convs : \A m \in Kept(c)' : m.turn <= turns'
    BY <1>1, <1>2 DEF IInv, Turns
  <2>2. \A w \in Workers : Active(w)' => req'[w].turn <= turns'
    BY <1>1, <1>4 DEF IInv, Turns
  <2>3. \A w, v \in Workers : Active(w)' /\ Active(v)' /\ req'[w].turn = req'[v].turn => w = v
    BY <1>1, <1>4 DEF IInv, Turns
  <2>4. \A c, d \in Convs : \A m \in Kept(c)', n \in Kept(d)' : m.turn = n.turn => c = d
    BY <1>2 DEF IInv, Turns
  <2>5. \A w \in Workers, c \in Convs : \A m \in Kept(c)' :
          Active(w)' /\ m.turn = req'[w].turn => c = req'[w].conv
    BY <1>1, <1>2, <1>4 DEF IInv, Turns
  <2> QED BY <2>1, <2>2, <2>3, <2>4, <2>5 DEF Turns
<1>7. Progress'
  <2>1. \A c \in Convs : c \notin drawn' => log'[c] = <<>>
    BY <1>1 DEF IInv, Progress, Deletes
  <2>2. \A w \in Workers : Active(w)' => req'[w].conv \in drawn'
    BY <1>1, <1>4 DEF IInv, Progress
  <2>3. ASSUME NEW w \in Workers, Active(w)', NEW c \in Convs, c = req'[w].conv,
               NEW n \in Kept(c)', n.turn = req'[w].turn
        PROVE  Unsaved(w)' = FALSE /\ (Halfway(w)' => n.role = "user")
    BY <1>1, <1>2, <1>4, <2>3 DEF IInv, Progress
  <2>4. ASSUME NEW w \in Workers, Halfway(w)', NEW c \in Convs, c = req'[w].conv, c \in live'
        PROVE  Message("user", req'[w].turn) \in Kept(c)'
    BY <1>1, <1>3, <1>4, <2>4 DEF IInv, Progress
  <2> QED BY <1>1, <1>4, <1>5, <2>1, <2>2, <2>3, <2>4 DEF Progress
<1>8. AnswersFollowQuestions'
  BY <1>3 DEF IInv, AnswersFollowQuestions, Of
<1>9. Alone'
  <2>1. ASSUME NEW w \in Workers, NEW v \in Workers, Active(w)', Active(v)',
               req'[w].conv = req'[v].conv, req'[w].conv \notin shared'
        PROVE  w = v
    BY <1>1, <1>4, <2>1 DEF IInv, Alone
  <2>2. ASSUME NEW w \in Workers, Halfway(w)', NEW c \in Convs, c = req'[w].conv,
               c \in live' \ shared'
        PROVE  log'[c] # <<>> /\ log'[c][Len(log'[c])] = Message("user", req'[w].turn)
    BY <1>1, <1>3, <1>4, <2>2 DEF IInv, Alone
  <2> QED BY <1>1, <1>4, <1>5, <2>1, <2>2 DEF Alone
<1>10. Orphans'
  <2>1. OrphansComeFromRaces'
    BY DEF IInv, Orphans, OrphansComeFromRaces, Of, Deletes
  <2>2. ASSUME NEW w \in Workers, Active(w)' PROVE req'[w].conv \in live' \cup raced'
    <3>1. w \in Writing(req[w].conv)
      BY <1>4, <2>2 DEF Writing, Active
    <3> QED BY <1>1, <1>4, <2>2, <3>1 DEF IInv, Orphans, Deletes
  <2> QED BY <2>1, <2>2 DEF Orphans
<1> QED BY <1>6, <1>7, <1>8, <1>9, <1>10 DEF IInv

------------------------------------------------------------------------------
(* Every step of the program is of one of these kinds *)

\* Create, rename, the model's answer, the title, the end of a request, and the erasure
\* but for its transaction.
LEMMA QuietSteps ==
  ASSUME IInv,
         \/ \E c \in Convs : Create(c) \/ Rename(c)
         \/ \E w \in Workers : Answered(w) \/ AutoTitle(w) \/ Abort(w)
         \/ EraseList
         \/ CloseAccount
         \/ EraseFails
  PROVE  TypeOK' /\ Quiet
<1>1. TypeOK
  BY DEF IInv
<1>2. ASSUME NEW c \in Convs, Create(c) PROVE TypeOK' /\ Quiet
  BY <1>1, <1>2 DEF Create, TypeOK, Quiet, Erasure, Histories, Titles
<1>3. ASSUME NEW c \in Convs, Rename(c) PROVE TypeOK' /\ Quiet
  BY <1>1, <1>3 DEF Rename, TypeOK, Quiet, Erasure, Histories, Titles
<1>4. ASSUME NEW w \in Workers, Answered(w) PROVE TypeOK' /\ Quiet
  <2>1. Active(w) /\ req[w] \in Serving
    BY <1>1, <1>4, ActiveType DEF Answered, Active
  <2>2. /\ req'[w] \in Serving /\ req'[w].pc = "question"
        /\ req'[w].conv = req[w].conv /\ req'[w].turn = req[w].turn
        /\ req' = [req EXCEPT ![w] = req'[w]]
    BY <1>1, <1>4, <2>1 DEF Answered, TypeOK, Serving
  <2>3. \A v \in Workers : v # w => req'[v] = req[v]
    BY <1>1, <2>2 DEF TypeOK
  <2>4. TypeOK'
    BY <1>1, <1>4, <2>2 DEF Answered, TypeOK, Store, Erasure, Histories
  <2>5. Quiet
    BY <1>4, <2>1, <2>2, <2>3 DEF Answered, Quiet, Store, Erasure, Histories
  <2> QED BY <2>4, <2>5
<1>5. ASSUME NEW w \in Workers, AutoTitle(w) PROVE TypeOK' /\ Quiet
  <2>1. title' \in [Convs -> Titles] /\ req' \in [Workers -> {Idle} \cup Serving]
    BY <1>1, <1>5 DEF AutoTitle, TypeOK, Titles
  <2>2. \A v \in Workers : req'[v] = req[v] \/ req'[v] = Idle
    BY <1>1, <1>5 DEF AutoTitle, TypeOK
  <2> QED BY <1>1, <1>5, <2>1, <2>2 DEF AutoTitle, TypeOK, Quiet, Erasure, Histories
<1>6. ASSUME NEW w \in Workers, Abort(w) PROVE TypeOK' /\ Quiet
  <2>1. req' \in [Workers -> {Idle} \cup Serving]
    BY <1>1, <1>6 DEF Abort, TypeOK
  <2>2. \A v \in Workers : req'[v] = req[v] \/ req'[v] = Idle
    BY <1>1, <1>6 DEF Abort, TypeOK
  <2> QED BY <1>1, <1>6, <2>1, <2>2 DEF Abort, TypeOK, Quiet, Store, Erasure, Histories
<1>7. CASE EraseList
  BY <1>1, <1>7 DEF EraseList, TypeOK, Quiet, Store, Histories
<1>8. CASE CloseAccount
  BY <1>1, <1>8 DEF CloseAccount, TypeOK, Quiet, Store, Histories
<1>9. CASE EraseFails
  BY <1>1, <1>9 DEF EraseFails, TypeOK, Quiet, Store, Histories
<1> QED BY <1>2, <1>3, <1>4, <1>5, <1>6, <1>7, <1>8, <1>9

\* Get and Import.
LEMMA StartSteps ==
  ASSUME IInv, NEW w \in Workers, NEW c \in Convs, Get(w, c) \/ Import(w, c)
  PROVE  TypeOK' /\ Starts(w, c)
<1>1. TypeOK /\ turns \in Nat /\ MaxTurns \in Nat
  BY ConversationsAssumption DEF IInv, TypeOK
<1>2. turns < MaxTurns /\ turns' = turns + 1
  BY DEF Get, Import
<1>3. turns + 1 \in 1 .. MaxTurns /\ turns' \in 0 .. MaxTurns
  BY <1>1, <1>2
<1>4. PICK q \in Serving : /\ req' = [req EXCEPT ![w] = q]
                           /\ q.pc \in {"asking", "importQ"} /\ q.conv = c /\ q.turn = turns + 1
  <2>1. \A p \in {"asking", "importQ"}, a \in BOOLEAN :
          [pc |-> p, conv |-> c, turn |-> turns + 1, auto |-> a] \in Serving
    BY <1>3 DEF Serving
  <2>2. PICK p \in {"asking", "importQ"}, a \in BOOLEAN :
          req' = [req EXCEPT ![w] = [pc |-> p, conv |-> c, turn |-> turns + 1, auto |-> a]]
    BY DEF Get, Import
  <2> QED BY <2>1, <2>2
<1>5. /\ req' \in [Workers -> {Idle} \cup Serving] /\ req'[w] = q
      /\ \A v \in Workers : v # w => req'[v] = req[v]
  BY <1>1, <1>4 DEF TypeOK
<1>6. ~Active(w)
  BY DEF Get, Import, Active
<1>7. CASE Get(w, c)
  <2>1. /\ live' = live /\ drawn' = drawn /\ title' = title /\ log' = log /\ raced' = raced
        /\ eraser' = eraser /\ listed' = listed /\ closed' = closed
        /\ c \in live /\ shared' = IF Writing(c) # {} THEN shared \cup {c} ELSE shared
    BY <1>7 DEF Get, Store, Erasure
  <2>2. c \in drawn
    BY <1>1, <2>1 DEF TypeOK
  <2>3. TypeOK'
    BY <1>1, <1>3, <1>5, <2>1 DEF TypeOK
  <2> QED BY <1>2, <1>4, <1>5, <1>6, <2>1, <2>2, <2>3 DEF Starts
<1>8. CASE Import(w, c)
  <2>1. /\ live' = live \cup {c} /\ drawn' = drawn \cup {c} /\ c \notin drawn
        /\ title' = [title EXCEPT ![c] = "question"] /\ log' = log
        /\ raced' = raced /\ shared' = shared
        /\ eraser' = eraser /\ listed' = listed /\ closed' = closed
    BY <1>8 DEF Import, Histories, Erasure
  <2>2. Writing(c) = {}
    BY <2>1 DEF Writing, Active, IInv, Progress
  <2>3. TypeOK'
    BY <1>1, <1>3, <1>5, <2>1 DEF TypeOK, Titles
  <2> QED BY <1>2, <1>4, <1>5, <1>6, <2>1, <2>2, <2>3 DEF Starts
<1> QED BY <1>7, <1>8

\* The four calls of add_message.
LEMMA WriteSteps ==
  ASSUME IInv, NEW w \in Workers,
         \/ SaveQuestion(w)
         \/ SaveAnswer(w)
         \/ ImportQuestion(w)
         \/ ImportAnswer(w)
  PROVE  \E r \in {"user", "assistant"} : \E q \in {Idle} \cup Serving : Writes(w, r, q)
<1>1. TypeOK /\ turns \in Nat /\ MaxTurns \in Nat
  BY ConversationsAssumption DEF IInv, TypeOK
<1>2. Active(w) /\ req[w] \in Serving
  BY <1>1, ActiveType DEF Active, SaveQuestion, SaveAnswer, ImportQuestion, ImportAnswer
<1>3. req \in [Workers -> {Idle} \cup Serving]
  BY <1>1 DEF TypeOK
<1>4. CASE SaveQuestion(w)
  <2> DEFINE q == [req[w] EXCEPT !.pc = "answer"]
  <2>1. /\ q \in Serving /\ q.pc = "answer" /\ q.conv = req[w].conv /\ q.turn = req[w].turn
        /\ req' = [req EXCEPT ![w] = q]
    BY <1>2, <1>3, <1>4 DEF SaveQuestion, Serving
  <2> HIDE DEF q
  <2>2. Writes(w, "user", q)
    BY <1>2, <1>4, <2>1 DEF SaveQuestion, Writes, Onward, Unsaved
  <2> QED BY <2>1, <2>2
<1>5. CASE ImportQuestion(w)
  <2> DEFINE q == [req[w] EXCEPT !.pc = "importA"]
  <2>1. /\ q \in Serving /\ q.pc = "importA" /\ q.conv = req[w].conv /\ q.turn = req[w].turn
        /\ req' = [req EXCEPT ![w] = q]
    BY <1>2, <1>3, <1>5 DEF ImportQuestion, Serving
  <2> HIDE DEF q
  <2>2. Writes(w, "user", q)
    BY <1>2, <1>5, <2>1 DEF ImportQuestion, Writes, Onward, Unsaved
  <2> QED BY <2>1, <2>2
<1>6. CASE SaveAnswer(w) /\ ~req[w].auto
  <2>1. req' = [req EXCEPT ![w] = Idle]
    BY <1>3, <1>6 DEF SaveAnswer
  <2>2. Writes(w, "assistant", Idle)
    BY <1>2, <1>6, <2>1 DEF SaveAnswer, Writes, Onward, Halfway
  <2> QED BY <2>2
<1>7. CASE SaveAnswer(w) /\ req[w].auto
  <2> DEFINE q == [req[w] EXCEPT !.pc = "title"]
  <2>1. /\ q \in Serving /\ q.pc = "title" /\ q.conv = req[w].conv /\ q.turn = req[w].turn
        /\ req' = [req EXCEPT ![w] = q]
    BY <1>2, <1>3, <1>7 DEF SaveAnswer, Serving
  <2> HIDE DEF q
  <2>2. Writes(w, "assistant", q)
    BY <1>2, <1>7, <2>1 DEF SaveAnswer, Writes, Onward, Halfway
  <2> QED BY <2>1, <2>2
<1>8. CASE ImportAnswer(w) /\ req' = [req EXCEPT ![w] = Idle] /\ turns' = turns
  <2>1. Writes(w, "assistant", Idle)
    BY <1>2, <1>8 DEF ImportAnswer, Writes, Onward, Halfway
  <2> QED BY <2>1
<1>9. CASE /\ ImportAnswer(w) /\ turns < MaxTurns /\ turns' = turns + 1
           /\ req' = [req EXCEPT ![w].pc = "importQ", ![w].turn = turns + 1]
  <2> DEFINE q == [req[w] EXCEPT !.pc = "importQ", !.turn = turns + 1]
  <2>1. turns + 1 \in 1 .. MaxTurns
    BY <1>1, <1>9
  <2>2. q \in Serving /\ q.pc = "importQ" /\ q.conv = req[w].conv /\ q.turn = turns + 1
    BY <1>2, <2>1 DEF Serving
  <2>3. req' = [req EXCEPT ![w] = q]
    BY <1>2, <1>3, <1>9 DEF Serving
  <2> HIDE DEF q
  <2>4. Writes(w, "assistant", q)
    BY <1>2, <1>9, <2>2, <2>3 DEF ImportAnswer, Writes, Onward, Halfway
  <2> QED BY <2>2, <2>4
<1> QED BY <1>4, <1>5, <1>6, <1>7, <1>8, <1>9 DEF ImportAnswer

\* Delete and the transaction of erase_user.
LEMMA DeleteSteps ==
  ASSUME IInv, (\E c \in Convs : Delete(c)) \/ EraseChats
  PROVE  TypeOK' /\ Deletes
<1>1. TypeOK
  BY DEF IInv
<1>2. <<>> \in Seq(Rows)
  OBVIOUS
<1>3. ASSUME NEW c \in Convs, Delete(c) PROVE TypeOK' /\ Deletes
  <2>1. TypeOK'
    BY <1>1, <1>2, <1>3 DEF Delete, TypeOK, Erasure
  <2>2. \A d \in Convs : log'[d] = IF d = c THEN <<>> ELSE log[d]
    BY <1>1, <1>3 DEF Delete, TypeOK
  <2> QED BY <1>1, <1>3, <2>1, <2>2 DEF Delete, Deletes, Erasure, TypeOK
<1>4. CASE EraseChats
  <2>1. TypeOK'
    BY <1>1, <1>2, <1>4 DEF EraseChats, TypeOK
  <2>2. \A d \in Convs : log'[d] = IF d \in listed THEN <<>> ELSE log[d]
    BY <1>4 DEF EraseChats
  <2> QED BY <1>1, <1>4, <2>1, <2>2 DEF EraseChats, Deletes, TypeOK
<1> QED BY <1>3, <1>4

\* The four kinds are all there is.
LEMMA StepKinds ==
  ASSUME IInv, [Next]_vars
  PROVE  \/ TypeOK' /\ Quiet
         \/ \E w \in Workers, c \in Convs : TypeOK' /\ Starts(w, c)
         \/ \E w \in Workers : \E r \in {"user", "assistant"} :
              \E q \in {Idle} \cup Serving : Writes(w, r, q)
         \/ TypeOK' /\ Deletes
<1>1. CASE UNCHANGED vars
  <2>1. TypeOK'
    BY <1>1 DEF IInv, TypeOK, vars
  <2>2. Quiet
    BY <1>1 DEF Quiet, vars, Histories
  <2> QED BY <2>1, <2>2
<1>2. CASE \E c \in Convs : Create(c) \/ Rename(c) \/ Delete(c)
  <2>1. CASE \E c \in Convs : Create(c) \/ Rename(c)
    BY <2>1, QuietSteps
  <2>2. CASE \E c \in Convs : Delete(c)
    BY <2>2, DeleteSteps
  <2> QED BY <1>2, <2>1, <2>2
<1>3. CASE \E w \in Workers : RequestStep(w)
  <2>1. PICK w \in Workers : RequestStep(w)
    BY <1>3
  <2>2. CASE \E c \in Convs : Get(w, c) \/ Import(w, c)
    BY <2>2, StartSteps
  <2>3. CASE SaveQuestion(w) \/ SaveAnswer(w) \/ ImportQuestion(w) \/ ImportAnswer(w)
    BY <2>3, WriteSteps
  <2>4. CASE Answered(w) \/ AutoTitle(w) \/ Abort(w)
    BY <2>4, QuietSteps
  <2> QED BY <2>1, <2>2, <2>3, <2>4 DEF RequestStep
<1>4. CASE EraseList \/ EraseChats \/ CloseAccount \/ EraseFails
  BY <1>4, QuietSteps, DeleteSteps
<1> QED BY <1>1, <1>2, <1>3, <1>4 DEF Next

------------------------------------------------------------------------------
(* The invariants *)

\* No chat and no request: nothing to keep.
LEMMA InitHolds ==
  ASSUME Init
  PROVE  IInv
<1>1. TypeOK
  <2>1. <<>> \in Seq(Rows) /\ 0 \in 0 .. MaxTurns
    BY ConversationsAssumption
  <2> QED BY <2>1 DEF Init, TypeOK, Titles
<1>2. \A c \in Convs : log[c] = <<>> /\ Kept(c) = {}
  <2> SUFFICES ASSUME NEW c \in Convs PROVE log[c] = <<>> /\ Kept(c) = {}
    OBVIOUS
  <2>1. log[c] = <<>>
    BY DEF Init
  <2>2. DOMAIN log[c] = {}
    BY <2>1
  <2> QED BY <2>1, <2>2 DEF Kept
<1>3. \A w \in Workers : ~Active(w) /\ ~Halfway(w)
  BY DEF Init, Idle, Active, Halfway
<1>4. Turns
  BY <1>2, <1>3 DEF Turns
<1>5. Progress
  BY <1>2, <1>3 DEF Progress
<1>6. AnswersFollowQuestions
  BY DEF Init, AnswersFollowQuestions
<1>7. Alone
  BY <1>3 DEF Alone
<1>8. Orphans
  BY <1>2, <1>3 DEF Orphans, OrphansComeFromRaces, Of
<1> QED BY <1>1, <1>4, <1>5, <1>6, <1>7, <1>8 DEF IInv

\* IInv is inductive.
LEMMA StepKeeps ==
  ASSUME IInv, [Next]_vars
  PROVE  IInv'
BY StepKinds, QuietKeeps, StartsKeeps, WritesKeeps, DeletesKeeps

\* All of the strengthened invariant, for any number of chats, requests and turns.
THEOREM Inductive == Spec => []IInv
<1>1. Init => IInv
  BY InitHolds
<1>2. IInv /\ [Next]_vars => IInv'
  BY StepKeeps
<1> QED BY <1>1, <1>2, PTL DEF Spec

\* Every variable has its type: a row never names a turn nobody used.
THEOREM Typed == Spec => []TypeOK
<1>1. IInv => TypeOK
  BY DEF IInv
<1> QED BY <1>1, Inductive, PTL

\* The store keeps every live chat in order, each message once and no answer before its
\* question, whatever asks, imports, deletions and erasures overlap.
THEOREM Ordered == Spec => []AnswersFollowQuestions
<1>1. IInv => AnswersFollowQuestions
  BY DEF IInv
<1> QED BY <1>1, Inductive, PTL

\* delete and erase_user leave messages behind only of the chats they raced with.
THEOREM Accounted == Spec => []OrphansComeFromRaces
<1>1. IInv => OrphansComeFromRaces
  BY DEF IInv, Orphans
<1> QED BY <1>1, Inductive, PTL

------------------------------------------------------------------------------
(* The chat a reader sees *)

Reads(c) == IF c \in live \ shared THEN History(c) ELSE {}
Turn(q, a) == [question |-> q, answer |-> a]

\* A turn of the history is a question and what stands after it.
LEMMA HistoryIs ==
  ASSUME NEW c \in Convs, NEW x
  PROVE  x \in History(c) <=>
           \E i \in DOMAIN log[c] : /\ log[c][i].role = "user"
                                    /\ x = Turn(log[c][i].turn,
                                                IF i < Len(log[c]) /\ log[c][i + 1].role = "assistant"
                                                THEN log[c][i + 1].turn ELSE None)
BY DEF History, Of, Turn

\* The same of the history after a step.
LEMMA HistoryNext ==
  ASSUME NEW c \in Convs, NEW x, NEW k, k = Len(log'[c])
  PROVE  x \in History(c)' <=>
           \E i \in DOMAIN log'[c] : /\ log'[c][i].role = "user"
                                     /\ x = Turn(log'[c][i].turn,
                                                 IF i < k /\ log'[c][i + 1].role = "assistant"
                                                 THEN log'[c][i + 1].turn ELSE None)
BY DEF History, Of, Turn

\* An empty chat shows nothing.
LEMMA HistoryOfNone ==
  ASSUME NEW c \in Convs, log'[c] = <<>>
  PROVE  History(c)' = {}
<1>1. DOMAIN log'[c] = {}
  OBVIOUS
<1> QED BY <1>1, HistoryNext

\* A chat shows what it did while it is not written.
LEMMA HistoryKept ==
  ASSUME NEW c \in Convs, log'[c] = log[c]
  PROVE  History(c)' = History(c)
BY DEF History, Of

\* A question saved in a chat is a turn without an answer.
LEMMA HistoryAsked ==
  ASSUME IInv, NEW c \in Convs, NEW t \in 1 .. MaxTurns,
         log'[c] = Append(log[c], Message("user", t))
  PROVE  History(c)' = History(c) \cup {Turn(t, None)}
<1> DEFINE n == Len(log[c])
           m == Message("user", t)
<1>1. /\ log[c] \in Seq(Rows) /\ n \in Nat /\ DOMAIN log[c] = 1 .. n /\ m \in Rows
      /\ m.role = "user" /\ m.turn = t
  BY KeptType DEF IInv, Message, Rows
<1>2. /\ DOMAIN log'[c] = 1 .. n + 1 /\ Len(log'[c]) = n + 1 /\ log'[c][n + 1] = m
      /\ \A i \in 1 .. n : log'[c][i] = log[c][i]
  BY <1>1
<1> HIDE DEF n, m
<1>3. \A i \in 1 .. n + 1 : i \in 1 .. n \/ i = n + 1
  BY <1>1
<1>4. \A i \in 1 .. n : i \in 1 .. n + 1 /\ i < n + 1
  BY <1>1
<1>5. n + 1 \in 1 .. n + 1 /\ ~(n + 1 < n + 1)
  BY <1>1
<1>6. \A i \in 1 .. n :
        (IF i < n /\ log[c][i + 1].role = "assistant" THEN log[c][i + 1].turn ELSE None)
        = (IF i < n + 1 /\ log'[c][i + 1].role = "assistant" THEN log'[c][i + 1].turn ELSE None)
  <2> TAKE i \in 1 .. n
  <2>1. CASE i = n
    <3>1. ~(i < n) /\ log'[c][i + 1].role = "user"
      BY <1>1, <1>2, <2>1
    <3> QED BY <3>1
  <2>2. CASE i # n
    <3>1. i < n /\ i < n + 1 /\ i + 1 \in 1 .. n
      BY <1>1, <2>2
    <3> QED BY <1>2, <3>1
  <2> QED BY <2>1, <2>2
<1>7. ASSUME NEW x PROVE x \in History(c)' <=> x \in History(c) \/ x = Turn(t, None)
  <2>1. x \in History(c) <=>
          \E i \in 1 .. n : /\ log[c][i].role = "user"
                            /\ x = Turn(log[c][i].turn,
                                        IF i < n /\ log[c][i + 1].role = "assistant"
                                        THEN log[c][i + 1].turn ELSE None)
    BY <1>1, HistoryIs DEF n
  <2>2. x \in History(c)' <=>
          \E i \in 1 .. n + 1 : /\ log'[c][i].role = "user"
                                /\ x = Turn(log'[c][i].turn,
                                            IF i < n + 1 /\ log'[c][i + 1].role = "assistant"
                                            THEN log'[c][i + 1].turn ELSE None)
    <3> DEFINE k == n + 1
    <3>1. k = Len(log'[c]) /\ DOMAIN log'[c] = 1 .. k
      BY <1>2
    <3> HIDE DEF k
    <3>2. x \in History(c)' <=>
            \E i \in 1 .. k : /\ log'[c][i].role = "user"
                              /\ x = Turn(log'[c][i].turn,
                                          IF i < k /\ log'[c][i + 1].role = "assistant"
                                          THEN log'[c][i + 1].turn ELSE None)
      <4>1. x \in History(c)' <=>
            \E i \in DOMAIN log'[c] :
                              /\ log'[c][i].role = "user"
                              /\ x = Turn(log'[c][i].turn,
                                          IF i < k /\ log'[c][i + 1].role = "assistant"
                                          THEN log'[c][i + 1].turn ELSE None)
        BY <3>1, HistoryNext, Zenon
      <4> QED BY <3>1, <4>1
    <3> QED BY <3>2 DEF k
  <2>3. ASSUME x \in History(c) PROVE x \in History(c)'
    <3>1. PICK i \in 1 .. n : /\ log[c][i].role = "user"
                              /\ x = Turn(log[c][i].turn,
                                        IF i < n /\ log[c][i + 1].role = "assistant"
                                        THEN log[c][i + 1].turn ELSE None)
      BY <2>1, <2>3
    <3> QED BY <1>2, <1>4, <1>6, <2>2, <3>1
  <2>4. ASSUME x = Turn(t, None) PROVE x \in History(c)'
    BY <1>1, <1>2, <1>5, <2>2, <2>4
  <2>5. ASSUME x \in History(c)' PROVE x \in History(c) \/ x = Turn(t, None)
    <3>1. PICK i \in 1 .. n + 1 : /\ log'[c][i].role = "user"
                                  /\ x = Turn(log'[c][i].turn,
                                            IF i < n + 1 /\ log'[c][i + 1].role = "assistant"
                                            THEN log'[c][i + 1].turn ELSE None)
      BY <2>2, <2>5
    <3>2. CASE i \in 1 .. n
      BY <1>2, <1>6, <2>1, <3>1, <3>2
    <3>3. CASE i = n + 1
      BY <1>1, <1>2, <1>5, <3>1, <3>3
    <3> QED BY <1>3, <3>2, <3>3
  <2> QED BY <2>3, <2>4, <2>5
<1> QED BY <1>7

\* An answer saved after its question closes that turn.
LEMMA HistoryAnswered ==
  ASSUME IInv, NEW c \in live, NEW t \in 1 .. MaxTurns,
         log[c] # <<>>, log[c][Len(log[c])] = Message("user", t),
         log'[c] = Append(log[c], Message("assistant", t))
  PROVE  /\ Turn(t, None) \in History(c)
         /\ History(c)' = (History(c) \ {Turn(t, None)}) \cup {Turn(t, t)}
<1> DEFINE n == Len(log[c])
           m == Message("assistant", t)
<1>0. c \in Convs
  BY DEF IInv, TypeOK
<1>1. /\ log[c] \in Seq(Rows) /\ n \in Nat /\ DOMAIN log[c] = 1 .. n /\ m \in Rows
      /\ m.role = "assistant" /\ m.turn = t
  BY <1>0, KeptType DEF IInv, Message, Rows
<1>2. /\ DOMAIN log'[c] = 1 .. n + 1 /\ Len(log'[c]) = n + 1 /\ log'[c][n + 1] = m
      /\ \A i \in 1 .. n : log'[c][i] = log[c][i]
  BY <1>1
<1>3. n # 0
  BY <1>1
<1>4. log[c][n] = Message("user", t) /\ log[c][n].role = "user" /\ log[c][n].turn = t
  BY DEF Message
<1>5. \A i \in 1 .. n : log[c][i] \in Rows
  BY <1>1
<1> HIDE DEF n, m
<1>6. n \in 1 .. n /\ n \in 1 .. n + 1 /\ ~(n < n) /\ n < n + 1
  BY <1>1, <1>3
<1>7. \A i \in 1 .. n : i # n => i < n /\ i < n + 1 /\ i + 1 \in 1 .. n /\ i \in 1 .. n + 1
  BY <1>1
<1>8. \A i \in 1 .. n + 1 : i \in 1 .. n \/ i = n + 1
  BY <1>1
<1>9. \A i \in 1 .. n : i # n /\ log[c][i].role = "user" => log[c][i].turn # t
  <2> SUFFICES ASSUME NEW i \in 1 .. n, i # n, log[c][i].role = "user", log[c][i].turn = t
               PROVE  FALSE
    OBVIOUS
  <2>1. log[c][i] = log[c][n]
    BY <1>4, <1>5 DEF Message, Rows
  <2> QED BY <1>1, <1>6, <2>1 DEF IInv, AnswersFollowQuestions, Of
<1>10. ASSUME NEW x
       PROVE  /\ x \in History(c) <=>
                  \/ x = Turn(t, None)
                  \/ \E i \in 1 .. n : /\ i # n /\ log[c][i].role = "user"
                                       /\ x = Turn(log[c][i].turn,
                                                   IF log[c][i + 1].role = "assistant"
                                                   THEN log[c][i + 1].turn ELSE None)
              /\ x \in History(c)' <=>
                  \/ x = Turn(t, t)
                  \/ \E i \in 1 .. n : /\ i # n /\ log[c][i].role = "user"
                                       /\ x = Turn(log[c][i].turn,
                                                   IF log[c][i + 1].role = "assistant"
                                                   THEN log[c][i + 1].turn ELSE None)
  <2>1. x \in History(c) <=>
          \E i \in 1 .. n : /\ log[c][i].role = "user"
                            /\ x = Turn(log[c][i].turn,
                                        IF i < n /\ log[c][i + 1].role = "assistant"
                                        THEN log[c][i + 1].turn ELSE None)
    BY <1>0, <1>1, HistoryIs DEF n
  <2>2. x \in History(c)' <=>
          \E i \in 1 .. n + 1 : /\ log'[c][i].role = "user"
                                /\ x = Turn(log'[c][i].turn,
                                            IF i < n + 1 /\ log'[c][i + 1].role = "assistant"
                                            THEN log'[c][i + 1].turn ELSE None)
    <3> DEFINE k == n + 1
    <3>1. k = Len(log'[c]) /\ DOMAIN log'[c] = 1 .. k
      BY <1>2
    <3> HIDE DEF k
    <3>2. x \in History(c)' <=>
            \E i \in 1 .. k : /\ log'[c][i].role = "user"
                              /\ x = Turn(log'[c][i].turn,
                                          IF i < k /\ log'[c][i + 1].role = "assistant"
                                          THEN log'[c][i + 1].turn ELSE None)
      <4>1. x \in History(c)' <=>
            \E i \in DOMAIN log'[c] :
                              /\ log'[c][i].role = "user"
                              /\ x = Turn(log'[c][i].turn,
                                          IF i < k /\ log'[c][i + 1].role = "assistant"
                                          THEN log'[c][i + 1].turn ELSE None)
        BY <1>0, <3>1, HistoryNext, Zenon
      <4> QED BY <3>1, <4>1
    <3> QED BY <3>2 DEF k
  <2>3. x \in History(c)' <=>
          \E i \in 1 .. n : /\ log[c][i].role = "user"
                            /\ x = Turn(log[c][i].turn,
                                        IF log'[c][i + 1].role = "assistant"
                                        THEN log'[c][i + 1].turn ELSE None)
    <3>1. log'[c][n + 1].role # "user"
      BY <1>1, <1>2
    <3>2. \A i \in 1 .. n : i < n + 1 /\ i \in 1 .. n + 1
      BY <1>1
    <3> QED BY <1>2, <1>8, <2>2, <3>1, <3>2
  <2>4. \A i \in 1 .. n : i # n => log'[c][i + 1] = log[c][i + 1]
    BY <1>2, <1>7
  <2>5. log'[c][n + 1].role = "assistant" /\ log'[c][n + 1].turn = t
    BY <1>1, <1>2
  <2>6. /\ (IF n < n /\ log[c][n + 1].role = "assistant" THEN log[c][n + 1].turn ELSE None) = None
        /\ (IF log'[c][n + 1].role = "assistant" THEN log'[c][n + 1].turn ELSE None) = t
    BY <1>6, <2>5
  <2>7. x \in History(c) <=>
                  \/ x = Turn(t, None)
                  \/ \E i \in 1 .. n : /\ i # n /\ log[c][i].role = "user"
                                       /\ x = Turn(log[c][i].turn,
                                                   IF log[c][i + 1].role = "assistant"
                                                   THEN log[c][i + 1].turn ELSE None)
    BY <1>4, <1>6, <1>7, <2>1, <2>6
  <2>8. x \in History(c)' <=>
                  \/ x = Turn(t, t)
                  \/ \E i \in 1 .. n : /\ i # n /\ log[c][i].role = "user"
                                       /\ x = Turn(log[c][i].turn,
                                                   IF log[c][i + 1].role = "assistant"
                                                   THEN log[c][i + 1].turn ELSE None)
    BY <1>4, <1>6, <2>3, <2>4, <2>6
  <2> QED BY <2>7, <2>8
<1>11. \A q, a, b : Turn(q, a) = Turn(t, b) => q = t
  BY DEF Turn
<1>12. Turn(t, None) \in History(c)
  BY <1>10
<1>13. ASSUME NEW x
       PROVE  x \in History(c)' <=> x \in (History(c) \ {Turn(t, None)}) \cup {Turn(t, t)}
  BY <1>9, <1>10, <1>11
<1> QED BY <1>12, <1>13

\* The refinement mapping of Chat.
Shown == [c \in Convs |-> Reads(c)]

\* The steps of SavedChat, of the chats this program shows.
LEMMA ShownIs ==
  /\ Chat!Init <=> Shown = [c \in Convs |-> {}]
  /\ Chat!Next <=>
       \/ \E c \in Convs, q \in 1 .. MaxTurns : Chat!Ask(c, q) \/ Chat!Reply(c, q)
       \/ \E D \in SUBSET Convs : Chat!Drop(D)
  /\ \A c, q : Chat!Ask(c, q) <=>
       /\ \A d \in Convs : q \notin {t.question : t \in Shown[d]}
       /\ Shown' = [Shown EXCEPT ![c] = @ \cup {Turn(q, None)}]
  /\ \A c, q : Chat!Reply(c, q) <=>
       /\ Turn(q, None) \in Shown[c]
       /\ Shown' = [Shown EXCEPT ![c] = (@ \ {Turn(q, None)}) \cup {Turn(q, q)}]
  /\ \A D : Chat!Drop(D) <=> Shown' = [c \in Convs |-> IF c \in D THEN {} ELSE Shown[c]]
BY DEF Chat!Init, Chat!Next, Chat!Ask, Chat!Reply, Chat!Drop, Chat!Questions, Shown, Reads, Turn

\* What no chat shows differently is not seen.
LEMMA SameShown ==
  ASSUME \A c \in Convs : Reads(c)' = Reads(c)
  PROVE  Shown' = Shown
BY DEF Shown

\* Every question of the history is the turn of a message.
LEMMA QuestionsKept ==
  ASSUME NEW c \in Convs, NEW x \in Reads(c)
  PROVE  \E m \in Kept(c) : m.turn = x.question
<1>1. x \in History(c)
  BY DEF Reads
<1>2. PICK i \in DOMAIN log[c] : x.question = log[c][i].turn
  BY <1>1, HistoryIs DEF Turn
<1> QED BY <1>2 DEF Kept

\* A quiet step is not seen.
LEMMA QuietShows ==
  ASSUME IInv, IInv', Quiet
  PROVE  Shown' = Shown
<1>1. ASSUME NEW c \in Convs PROVE Reads(c)' = Reads(c)
  <2>1. History(c)' = History(c)
    BY HistoryKept DEF Quiet
  <2>2. CASE c \in live' <=> c \in live
    BY <2>1, <2>2 DEF Reads, Quiet, Histories
  <2>3. CASE c \in live' /\ c \notin live
    <3>1. log'[c] = <<>>
      BY <2>3 DEF Quiet, IInv, Progress
    <3>2. History(c)' = {}
      BY <3>1, HistoryOfNone
    <3> QED BY <2>3, <3>2 DEF Reads
  <2> QED BY <2>2, <2>3 DEF Quiet
<1> QED BY <1>1, SameShown

\* A new turn is not seen; when it is the second at once, the chat is given up.
LEMMA StartsShows ==
  ASSUME IInv, IInv', NEW w \in Workers, NEW c \in Convs, Starts(w, c)
  PROVE  Shown' = Shown \/ Chat!Drop({c})
<1>1. \A d \in Convs : History(d)' = History(d)
  BY HistoryKept DEF Starts
<1>2. \A d \in Convs : d # c => Reads(d)' = Reads(d)
  BY <1>1 DEF Reads, Starts
<1>3. CASE c \in shared'
  <2>1. Reads(c)' = {}
    BY <1>3 DEF Reads
  <2>2. Shown' = [d \in Convs |-> IF d \in {c} THEN {} ELSE Shown[d]]
    BY <1>2, <2>1 DEF Shown
  <2> QED BY <2>2, ShownIs
<1>4. CASE c \notin shared'
  <2>1. c \notin shared
    BY <1>4 DEF Starts
  <2>2. Reads(c)' = Reads(c)
    <3>1. CASE c \in live
      BY <1>1, <1>4, <2>1, <3>1 DEF Reads, Starts
    <3>2. CASE c \notin live
      <4>1. log'[c] = <<>>
        BY <3>2 DEF Starts, IInv, Progress
      <4>2. History(c)' = {}
        BY <4>1, HistoryOfNone
      <4> QED BY <3>2, <4>2 DEF Reads
    <3> QED BY <3>1, <3>2
  <2> QED BY <1>2, <2>2, SameShown
<1> QED BY <1>3, <1>4

\* A deletion is seen as one.
LEMMA DeletesShows ==
  ASSUME IInv, IInv', Deletes
  PROVE  \E D \in SUBSET Convs : Chat!Drop(D)
<1>1. PICK D \in SUBSET Convs : D = Convs \ live'
  OBVIOUS
<1>2. \A c \in Convs : c \notin D => Reads(c)' = Reads(c)
  BY <1>1, HistoryKept DEF Reads, Deletes
<1>3. \A c \in Convs : c \in D => Reads(c)' = {}
  BY <1>1 DEF Reads
<1>4. Shown' = [c \in Convs |-> IF c \in D THEN {} ELSE Shown[c]]
  BY <1>2, <1>3 DEF Shown
<1>5. Chat!Drop(D)
  BY <1>4, ShownIs
<1> QED BY <1>5

\* A saved question is an Ask and a saved answer its Reply, in a chat with one writer.
LEMMA WritesShows ==
  ASSUME IInv, IInv', NEW w \in Workers, NEW r \in {"user", "assistant"}, NEW q, Writes(w, r, q)
  PROVE  \/ Shown' = Shown
         \/ \E c \in Convs, t \in 1 .. MaxTurns : Chat!Ask(c, t) \/ Chat!Reply(c, t)
<1>1. PICK c \in Convs : c = req[w].conv
  BY ActiveType DEF IInv, Writes
<1>2. PICK t \in 1 .. MaxTurns : t = req[w].turn
  BY ActiveType DEF IInv, Writes
<1>3. log'[c] = Append(log[c], Message(r, t))
  BY <1>1, <1>2, SavedRows DEF IInv, Writes
<1>4. \A d \in Convs : d # c => log'[d] = log[d]
  BY <1>1, <1>2, SavedRows DEF IInv, Writes
<1>5. \A d \in Convs : d # c => Reads(d)' = Reads(d)
  BY <1>4, HistoryKept DEF Reads, Writes, Histories
<1>6. CASE c \notin live \ shared
  <2>1. Reads(c)' = Reads(c)
    BY <1>6 DEF Reads, Writes, Histories
  <2> QED BY <1>5, <2>1, SameShown
<1>7. CASE c \in live \ shared /\ r = "user"
  <2>1. History(c)' = History(c) \cup {Turn(t, None)}
    BY <1>3, <1>7, HistoryAsked
  <2>2. Reads(c)' = Reads(c) \cup {Turn(t, None)}
    BY <1>7, <2>1 DEF Reads, Writes, Histories
  <2>3. Shown' = [Shown EXCEPT ![c] = @ \cup {Turn(t, None)}]
    BY <1>5, <2>2 DEF Shown
  <2>4. ASSUME NEW d \in Convs, NEW x \in Shown[d] PROVE x.question # t
    <3>1. PICK m \in Kept(d) : m.turn = x.question
      BY <2>4, QuestionsKept DEF Shown
    <3>2. m.turn = t => d = c
      BY <1>1, <1>2 DEF IInv, Turns, Writes
    <3>3. m.turn # t
      BY <1>1, <1>2, <1>7, <3>2 DEF IInv, Progress, Writes
    <3> QED BY <3>1, <3>3
  <2>5. \A d \in Convs : t \notin {x.question : x \in Shown[d]}
    BY <2>4
  <2>6. Chat!Ask(c, t)
    BY <2>3, <2>5, ShownIs
  <2> QED BY <2>6
<1>8. CASE c \in live \ shared /\ r = "assistant"
  <2>1. log[c] # <<>> /\ log[c][Len(log[c])] = Message("user", t)
    BY <1>1, <1>2, <1>8 DEF IInv, Alone, Writes
  <2>2. /\ Turn(t, None) \in History(c)
        /\ History(c)' = (History(c) \ {Turn(t, None)}) \cup {Turn(t, t)}
    BY <1>3, <1>8, <2>1, HistoryAnswered
  <2>3. /\ Turn(t, None) \in Reads(c)
        /\ Reads(c)' = (Reads(c) \ {Turn(t, None)}) \cup {Turn(t, t)}
    BY <1>8, <2>2 DEF Reads, Writes, Histories
  <2>4. /\ Turn(t, None) \in Shown[c]
        /\ Shown' = [Shown EXCEPT ![c] = (@ \ {Turn(t, None)}) \cup {Turn(t, t)}]
    BY <1>5, <2>3 DEF Shown
  <2>5. Chat!Reply(c, t)
    BY <2>4, ShownIs
  <2> QED BY <2>5
<1> QED BY <1>6, <1>7, <1>8

\* Every step is one of SavedChat, or is not seen.
LEMMA StepShows ==
  ASSUME IInv, IInv', [Next]_vars
  PROVE  Chat!Next \/ Shown' = Shown
<1>1. CASE Quiet
  BY <1>1, QuietShows
<1>2. CASE \E w \in Workers, c \in Convs : Starts(w, c)
  <2>1. PICK w \in Workers, c \in Convs : Starts(w, c)
    BY <1>2
  <2>2. Shown' = Shown \/ Chat!Drop({c})
    BY <2>1, StartsShows
  <2>3. {c} \in SUBSET Convs
    OBVIOUS
  <2> QED BY <2>2, <2>3, ShownIs
<1>3. CASE \E w \in Workers : \E r \in {"user", "assistant"} :
             \E q \in {Idle} \cup Serving : Writes(w, r, q)
  BY <1>3, WritesShows, ShownIs
<1>4. CASE Deletes
  BY <1>4, DeletesShows, ShownIs
<1> QED BY <1>1, <1>2, <1>3, <1>4, StepKinds

\* What _history reads is a chat that only grows by new questions and their own answers,
\* until it is deleted or two of its asks overlap.
THEOREM RefinesChat == Spec => ChatSpec
<1>1. Init => Chat!Init
  <2>1. Init => \A c \in Convs : Reads(c) = {}
    BY DEF Init, Reads
  <2> QED BY <2>1, ShownIs DEF Shown
<1>2. IInv /\ IInv' /\ [Next]_vars => [Chat!Next]_Shown
  BY StepShows
<1>3. IInv /\ IInv' /\ [Next]_vars =>
        [Chat!Next]_([c \in Convs |-> IF c \in live \ shared THEN History(c) ELSE {}])
  BY <1>2 DEF Shown, Reads
<1> QED BY <1>1, <1>3, Inductive, PTL DEF Spec, ChatSpec, Chat!Spec
==============================================================================
