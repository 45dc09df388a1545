---------------------------- MODULE Conversations ----------------------------
(***************************************************************************)
(* The saved chats of one user: core/conversations.py ConversationStore    *)
(* and the handlers of api/routes/conversations.py, with the chat step of  *)
(* DELETE /account.                                                        *)
(*                                                                         *)
(* Every store method is one transaction and so one step; a handler is a   *)
(* sequence of them, with the model call of an ask in between, and any     *)
(* other request may run between two.  Each method names its conversation  *)
(* and its user, so chats of different users do not meet: one user's are   *)
(* modelled.  A turn number stands for a question, and for its answer.     *)
(* What an ask costs is the subject of UserQuota.                          *)
(***************************************************************************)
EXTENDS Naturals, Sequences

CONSTANTS Convs,     \* conversation ids that may be drawn (uuid4: never twice)
          Workers,   \* requests that can be in flight together
          MaxTurns,  \* bound: questions asked or imported altogether
          None       \* no conversation, no answer

ASSUME ConversationsAssumption == MaxTurns \in Nat /\ None \notin 1 .. MaxTurns

\* A title is "New chat", taken from a question, or the user's own words.
Titles == {"untitled", "question", "chosen"}

VARIABLES live,    \* rows of conversations
          drawn,   \* ids ever given out
          title,   \* column title
          log,     \* log[c]: rows of messages of c in the order of their ids
          turns,   \* turns used so far
          req,     \* req[w]: the request worker w is serving
          eraser,  \* the chat step of DELETE /account: before, inside or after erase_user
          listed,  \* the ids erase_user listed
          closed,  \* the account is erased: no new request is admitted
          raced,   \* history: conversations deleted under a request that still writes to them
          shared   \* history: conversations asked in while another request was writing to them
vars == <<live, drawn, title, log, turns, req, eraser, listed, closed, raced, shared>>
Store == <<live, drawn, title, log>>
Erasure == <<eraser, listed, closed>>
Histories == <<raced, shared>>

Idle == [pc |-> "idle"]
Rows == [role : {"user", "assistant"}, turn : 1 .. MaxTurns]

\* auto: the snapshot was untitled and empty, so the ask will title the chat
Serving == [pc : {"asking", "question", "answer", "title", "importQ", "importA"},
            conv : Convs, turn : 1 .. MaxTurns, auto : BOOLEAN]

TypeOK ==
  /\ live \subseteq drawn /\ drawn \subseteq Convs
  /\ title \in [Convs -> Titles]
  /\ log \in [Convs -> Seq(Rows)]
  /\ turns \in 0 .. MaxTurns
  /\ req \in [Workers -> {Idle} \cup Serving]
  /\ eraser \in {"idle", "listed", "erased"} /\ listed \subseteq Convs
  /\ closed \in BOOLEAN
  /\ raced \subseteq Convs /\ shared \subseteq Convs

Of(c)       == log[c]    \* SELECT ... WHERE conversation_id = c ORDER BY id
\* The table with a message of w's turn added.
Saved(w, r) == [log EXCEPT ![req[w].conv] = Append(@, [role |-> r, turn |-> req[w].turn])]
Writing(c)  == {w \in Workers : req[w].pc # "idle" /\ req[w].conv = c}

\* _history: every question with the message after it, if that is an answer.
HistorySkipping(c) == LET m == Of(c) IN  \* mutant of History: the next answer, wherever it is
  {[question |-> m[i].turn,
    answer |-> LET A == {j \in i .. Len(m) : m[j].role = "assistant"}
               IN  IF A = {} THEN None ELSE m[CHOOSE j \in A : \A k \in A : j <= k].turn] :
     i \in {j \in DOMAIN m : m[j].role = "user"}}

History(c) == LET m == Of(c) IN
  {[question |-> m[i].turn,
    answer |-> IF i < Len(m) /\ m[i + 1].role = "assistant" THEN m[i + 1].turn ELSE None] :
     i \in {j \in DOMAIN m : m[j].role = "user"}}

Init ==
  /\ live = {} /\ drawn = {} /\ log = [c \in Convs |-> <<>>] /\ turns = 0
  /\ title = [c \in Convs |-> "untitled"]
  /\ req = [w \in Workers |-> Idle]
  /\ eraser = "idle" /\ listed = {} /\ closed = FALSE /\ raced = {} /\ shared = {}

------------------------------------------------------------------------------
(* Requests of one store call *)

Create(c) ==
  /\ ~closed /\ c \notin drawn
  /\ live' = live \cup {c} /\ drawn' = drawn \cup {c}
  /\ \E t \in {"untitled", "chosen"} : title' = [title EXCEPT ![c] = t]
  /\ UNCHANGED <<log, turns, req, Erasure, Histories>>

Rename(c) ==
  /\ ~closed /\ c \in live
  /\ title' = [title EXCEPT ![c] = "chosen"]
  /\ UNCHANGED <<live, drawn, log, turns, req, Erasure, Histories>>

DeleteRowOnly(c) ==  \* mutant of Delete: the messages stay
  /\ ~closed /\ c \in live
  /\ live' = live \ {c}
  /\ raced' = IF Writing(c) # {} THEN raced \cup {c} ELSE raced
  /\ UNCHANGED <<drawn, title, log, turns, req, Erasure, shared>>

\* DELETE the conversation and its messages, in one transaction.
Delete(c) ==
  /\ ~closed /\ c \in live
  /\ live' = live \ {c}
  /\ log' = [log EXCEPT ![c] = <<>>]
  /\ raced' = IF Writing(c) # {} THEN raced \cup {c} ELSE raced
  /\ UNCHANGED <<drawn, title, turns, req, Erasure, shared>>

------------------------------------------------------------------------------
(* POST /conversations/{id}/messages *)

\* store.get: the ask goes on with this snapshot of the chat.
Get(w, c) ==
  /\ req[w].pc = "idle" /\ ~closed /\ c \in live /\ turns < MaxTurns
  /\ turns' = turns + 1
  /\ req' = [req EXCEPT ![w] = [pc |-> "asking", conv |-> c, turn |-> turns + 1,
                                auto |-> title[c] = "untitled" /\ Of(c) = <<>>]]
  /\ shared' = IF Writing(c) # {} THEN shared \cup {c} ELSE shared
  /\ UNCHANGED <<Store, Erasure, raced>>

\* The gate and the pipeline let an answer through.
Answered(w) ==
  /\ req[w].pc = "asking"
  /\ req' = [req EXCEPT ![w].pc = "question"]
  /\ UNCHANGED <<Store, turns, Erasure, Histories>>

SaveAnswerFirst(w) ==  \* mutant of SaveQuestion: the two turns in the other order
  /\ req[w].pc = "question"
  /\ log' = Saved(w, "assistant")
  /\ req' = [req EXCEPT ![w].pc = "answer"]
  /\ UNCHANGED <<live, drawn, title, turns, Erasure, Histories>>

\* add_message does not ask whether the conversation is still there.
SaveQuestion(w) ==
  /\ req[w].pc = "question"
  /\ log' = Saved(w, "user")
  /\ req' = [req EXCEPT ![w].pc = "answer"]
  /\ UNCHANGED <<live, drawn, title, turns, Erasure, Histories>>

SaveAnswer(w) ==
  /\ req[w].pc = "answer"
  /\ log' = Saved(w, "assistant")
  /\ req' = [req EXCEPT ![w] = IF @.auto THEN [@ EXCEPT !.pc = "title"] ELSE Idle]
  /\ UNCHANGED <<live, drawn, title, turns, Erasure, Histories>>

\* The first question becomes the title, by the snapshot and not by the row.
AutoTitle(w) == LET c == req[w].conv IN
  /\ req[w].pc = "title"
  /\ title' = IF c \in live THEN [title EXCEPT ![c] = "question"] ELSE title
  /\ req' = [req EXCEPT ![w] = Idle]
  /\ UNCHANGED <<live, drawn, log, turns, Erasure, Histories>>

------------------------------------------------------------------------------
(* POST /conversations/import: a new chat and its turns, one by one *)

Import(w, c) ==
  /\ req[w].pc = "idle" /\ ~closed /\ c \notin drawn /\ turns < MaxTurns
  /\ turns' = turns + 1
  /\ live' = live \cup {c} /\ drawn' = drawn \cup {c}
  /\ title' = [title EXCEPT ![c] = "question"]
  /\ req' = [req EXCEPT ![w] = [pc |-> "importQ", conv |-> c, turn |-> turns + 1, auto |-> FALSE]]
  /\ UNCHANGED <<log, Erasure, Histories>>

ImportQuestion(w) ==
  /\ req[w].pc = "importQ"
  /\ log' = Saved(w, "user")
  /\ req' = [req EXCEPT ![w].pc = "importA"]
  /\ UNCHANGED <<live, drawn, title, turns, Erasure, Histories>>

\* The thread ends with this answer, or goes on with another turn.
ImportAnswer(w) ==
  /\ req[w].pc = "importA"
  /\ log' = Saved(w, "assistant")
  /\ \/ req' = [req EXCEPT ![w] = Idle] /\ turns' = turns
     \/ /\ turns < MaxTurns /\ turns' = turns + 1
        /\ req' = [req EXCEPT ![w].pc = "importQ", ![w].turn = turns + 1]
  /\ UNCHANGED <<live, drawn, title, Erasure, Histories>>

\* A refusal of the gate, an exception or the end of the process: what was
\* written stays, what was not never will be.
Abort(w) ==
  /\ req[w].pc # "idle"
  /\ req' = [req EXCEPT ![w] = Idle]
  /\ UNCHANGED <<Store, turns, Erasure, Histories>>

------------------------------------------------------------------------------
(* DELETE /account: erase_user lists the ids before its transaction; the   *)
(* account itself goes some steps later.                                   *)

EraseList ==
  /\ ~closed /\ eraser = "idle"
  /\ eraser' = "listed" /\ listed' = live
  /\ UNCHANGED <<Store, turns, req, closed, Histories>>

\* The messages of the listed chats go, and every chat of the user.
EraseChats ==
  /\ eraser = "listed"
  /\ log' = [c \in Convs |-> IF c \in listed THEN <<>> ELSE log[c]]
  /\ live' = {}
  /\ raced' = raced \cup (live \ listed) \cup {c \in live : Writing(c) # {}}
  /\ eraser' = "erased" /\ listed' = {}
  /\ UNCHANGED <<drawn, title, turns, req, closed, shared>>

CloseAccount ==
  /\ eraser = "erased"
  /\ eraser' = "idle" /\ closed' = TRUE
  /\ UNCHANGED <<Store, turns, req, listed, Histories>>

\* A later step of the erasure fails: the account lives on without its chats.
EraseFails ==
  /\ eraser # "idle"
  /\ eraser' = "idle" /\ listed' = {}
  /\ UNCHANGED <<Store, turns, req, closed, Histories>>

RequestStep(w) ==
  \/ \E c \in Convs : Get(w, c) \/ Import(w, c)
  \/ Answered(w) \/ SaveQuestion(w) \/ SaveAnswer(w) \/ AutoTitle(w)
  \/ ImportQuestion(w) \/ ImportAnswer(w) \/ Abort(w)

Next ==
  \/ \E c \in Convs : Create(c) \/ Rename(c) \/ Delete(c)
  \/ \E w \in Workers : RequestStep(w)
  \/ EraseList \/ EraseChats \/ CloseAccount \/ EraseFails

Spec == Init /\ [][Next]_vars

------------------------------------------------------------------------------
(* Properties *)

\* Whatever runs in parallel, a live chat holds every question and every answer
\* at most once, and no answer before its question.
AnswersFollowQuestions == \A c \in live : LET m == Of(c) IN
  /\ \A i, j \in DOMAIN m : m[i] = m[j] => i = j
  /\ \A i \in DOMAIN m : m[i].role = "assistant" =>
       \E j \in 1 .. i - 1 : m[j].role = "user" /\ m[j].turn = m[i].turn

\* Messages whose chat is gone were written by a request that was under way when
\* it was deleted, or to a chat made while erase_user was listing.
OrphansComeFromRaces == \A c \in Convs : Of(c) # <<>> => c \in live \cup raced

\* What History reads of a chat is a saved chat of the abstract kind until two of
\* its asks overlap.
Chat == INSTANCE SavedChat WITH
          chat <- [c \in Convs |-> IF c \in live \ shared THEN History(c) ELSE {}]
ChatSpec == Chat!Spec
==============================================================================
