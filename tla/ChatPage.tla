------------------------------ MODULE ChatPage -------------------------------
(***************************************************************************)
(* The chat page of the web client (frontend/web/app/chat/page.tsx): the   *)
(* anonymous thread, the saved chat on screen, asking, opening, deleting,  *)
(* and the sign-in that imports the anonymous thread.                      *)
(*                                                                         *)
(* JavaScript runs one handler at a time up to its next await, so a step   *)
(* is a click or the continuation of a handler after a call; the server's  *)
(* side of a call that reads or writes chats is a step of its own.  A      *)
(* handler keeps the state of the render it was created in: what it        *)
(* captured is in its task.  Calls may fail before the server acts and     *)
(* after it did.  One account is modelled, one sign-in at a time, and a    *)
(* page that is not reloaded.  A turn number stands for a question and     *)
(* its answer; the errors shown in between are left out.                   *)
(***************************************************************************)
EXTENDS Naturals, Sequences, FiniteSets, Functions

CONSTANTS Tasks,     \* handlers that can be awaiting a call together
          Chats,     \* ids of saved chats
          MaxTurns,  \* bound: questions asked altogether
          None       \* no chat

Turns   == 1 .. MaxTurns
Message == [role : {"question", "answer"}, turn : Turns]
Msg(r, t) == [role |-> r, turn |-> t]

ASSUME ChatPageAssumption ==
  MaxTurns \in Nat /\ None \notin Chats \cup [id : Chats, msgs : Seq(Message)]

VARIABLES authed,  \* the page shows a signed-in user
          active,  \* the saved chat on screen, or None
          anon,    \* anonMsgs
          pending, \* a question is being answered: the composer is off
          task,    \* task[h]: the handler h, and the call it awaits
          live,    \* chats on the server
          given,   \* ids given to a chat: none is given twice
          saved,   \* their messages
          turns,   \* questions asked so far
          shown,   \* history: messages ever put into anon
          kept,    \* history: messages ever imported
          overlap, \* history: anonymous turns under way while a sign-in was
          moved,   \* history: turns under way when another chat came on screen
          doubled, \* history: a question was asked while a chat was being created
          again    \* history: an import was stored and its answer lost
pageVars == <<authed, active, anon, pending, task, live, given, saved, turns,
              shown, kept, overlap, moved, doubled, again>>
Page    == <<authed, active, anon, pending>>
Server  == <<live, given, saved>>
History == <<shown, kept, overlap, moved, doubled, again>>

Resting == [pc |-> "idle"]
Task == [pc : {"query", "create", "listing"}, turn : Turns] \cup
        [pc : {"created", "ask"}, turn : Turns, id : Chats] \cup
        [pc : {"replied"}, turn : Turns, id : Chats, role : {"answer", "error"}] \cup
        [pc : {"open"}, id : Chats] \cup
        [pc : {"opened"}, id : Chats, msgs : Seq(Message)] \cup
        [pc : {"remove", "removed"}, id : Chats, close : BOOLEAN] \cup
        [pc : {"login", "import"}, thread : Seq(Message)] \cup
        [pc : {"imported"}, id : Chats \cup {None}] \cup [pc : {"init"}]

HandlerAt(h, pc) == task[h].pc = pc
Become(h, t)     == task' = [task EXCEPT ![h] = t]
In(pcs)          == {h \in Tasks : task[h].pc \in pcs}

\* Types, and that the composer is off just while a question is being answered, unless
\* one was asked while a chat was being created.
PageTypeOK ==
  /\ authed \in BOOLEAN /\ pending \in BOOLEAN
  /\ active = None \/ (active.id \in Chats /\ active.msgs \in Seq(Message))
  /\ anon \in Seq(Message)
  /\ task \in [Tasks -> {Resting} \cup Task]
  /\ live \subseteq given /\ given \subseteq Chats /\ saved \in [Chats -> Seq(Message)]
  /\ turns \in 0 .. MaxTurns
  /\ shown \cup kept \subseteq Message
  /\ overlap \cup moved \subseteq Turns /\ {doubled, again} \subseteq BOOLEAN
  /\ ~doubled => (pending <=> In({"query", "ask", "replied", "listing"}) # {})

PageInit ==
  /\ authed = FALSE /\ active = None /\ anon = <<>> /\ pending = FALSE
  /\ task = [h \in Tasks |-> Resting]
  /\ live = {} /\ given = {} /\ saved = [c \in Chats |-> <<>>]
  /\ turns = 0
  /\ shown = {} /\ kept = {} /\ overlap = {} /\ moved = {}
  /\ doubled = FALSE /\ again = FALSE

Id(chat) == IF chat = None THEN None ELSE chat.id

\* setActive
Show(chat) ==
  /\ active' = chat
  /\ moved' = IF Id(chat) = Id(active) THEN moved
              ELSE moved \cup {task[h].turn : h \in In({"ask", "replied"})}

\* setActive((cur) => cur ? {...} : cur): whichever chat is on screen by now
Add(m) == active' = IF active = None THEN None ELSE [active EXCEPT !.msgs = Append(@, m)]

\* The id of a new chat: which one it is does not matter.
FreshId == CHOOSE c \in Chats \ given : TRUE

\* setAnonMsgs((m) => [...m, msg])
AddAnon(m) == anon' = Append(anon, m) /\ shown' = shown \cup {m}

------------------------------------------------------------------------------
(* send *)

ReadyAlways == TRUE  \* mutant of Ready: "|| pending" dropped

\* if (!q || pending) return
Ready == ~pending

\* A question is next: what its turn meets.
NextTurn ==
  /\ Ready /\ turns < MaxTurns /\ turns' = turns + 1
  /\ doubled' = (doubled \/ In({"create", "created"}) # {})

AskAnon(h) == LET t == turns + 1 IN
  /\ HandlerAt(h, "idle") /\ ~authed /\ NextTurn
  /\ AddAnon(Msg("question", t))
  /\ pending' = TRUE
  /\ Become(h, [pc |-> "query", turn |-> t])
  /\ overlap' = IF In({"login", "import", "imported"}) = {} THEN overlap ELSE overlap \cup {t}
  /\ UNCHANGED <<authed, active, Server, kept, moved, again>>

\* An answer, or an error or the login wall; finally the composer is on.
QueryDone(h) ==
  /\ HandlerAt(h, "query")
  /\ AddAnon(Msg("answer", task[h].turn)) \/ UNCHANGED <<anon, shown>>
  /\ pending' = FALSE
  /\ Become(h, Resting)
  /\ UNCHANGED <<authed, active, Server, turns, kept, overlap, moved, doubled, again>>

\* No chat is on screen: one is created, with the composer still on.
AskFirst(h) ==
  /\ HandlerAt(h, "idle") /\ authed /\ active = None /\ NextTurn
  /\ Become(h, [pc |-> "create", turn |-> turns + 1])
  /\ UNCHANGED <<Page, Server, shown, kept, overlap, moved, again>>

Create(h) == LET c == FreshId IN
  /\ HandlerAt(h, "create") /\ given # Chats /\ given' = given \cup {c}
  /\ live' = live \cup {c}
  /\ Become(h, [pc |-> "created", turn |-> task[h].turn, id |-> c])
  /\ UNCHANGED <<Page, saved, turns, History>>

\* The call fails outside the try: the question is neither shown nor asked.
CreateFails(h) ==
  /\ HandlerAt(h, "create")
  /\ Become(h, Resting)
  /\ UNCHANGED <<Page, Server, turns, History>>

CreatedQuietly(h) ==  \* mutant of Created: setActive forgotten
  /\ HandlerAt(h, "created")
  /\ Add(Msg("question", task[h].turn)) /\ moved' = moved
  /\ pending' = TRUE
  /\ Become(h, [pc |-> "ask", turn |-> task[h].turn, id |-> task[h].id])
  /\ UNCHANGED <<authed, anon, Server, turns, shown, kept, overlap, doubled, again>>

Created(h) ==
  /\ HandlerAt(h, "created")
  /\ Show([id |-> task[h].id, msgs |-> <<Msg("question", task[h].turn)>>])
  /\ pending' = TRUE
  /\ Become(h, [pc |-> "ask", turn |-> task[h].turn, id |-> task[h].id])
  /\ UNCHANGED <<authed, anon, Server, turns, shown, kept, overlap, doubled, again>>

AskIn(h) ==
  /\ HandlerAt(h, "idle") /\ authed /\ active # None /\ NextTurn
  /\ Add(Msg("question", turns + 1))
  /\ pending' = TRUE
  /\ Become(h, [pc |-> "ask", turn |-> turns + 1, id |-> active.id])
  /\ UNCHANGED <<authed, anon, Server, shown, kept, overlap, moved, again>>

\* POST /conversations/{id}/messages stores the question, then the answer, if it gets
\* that far; what it returns may be lost on the way back.
StoreTurn(h) == LET c == task[h].id
                    t == task[h].turn IN
  /\ HandlerAt(h, "ask") /\ c \in live
  /\ \E r \in {"answer", "error"}, s \in {<<>>, <<Msg("answer", t)>>} :
       /\ r = "answer" => s # <<>>
       /\ saved' = [saved EXCEPT ![c] = Append(@, Msg("question", t)) \o s]
       /\ Become(h, [pc |-> "replied", turn |-> t, id |-> c, role |-> r])
  /\ UNCHANGED <<Page, live, given, turns, History>>

StoreFails(h) ==
  /\ HandlerAt(h, "ask")
  /\ Become(h, [pc |-> "replied", turn |-> task[h].turn, id |-> task[h].id, role |-> "error"])
  /\ UNCHANGED <<Page, Server, turns, History>>

\* The answer comes on screen, and the list of chats is fetched.
Answered(h) ==
  /\ HandlerAt(h, "replied") /\ task[h].role = "answer"
  /\ Add(Msg("answer", task[h].turn))
  /\ Become(h, [pc |-> "listing", turn |-> task[h].turn])
  /\ UNCHANGED <<authed, anon, pending, Server, turns, History>>

Failed(h) ==
  /\ HandlerAt(h, "replied") /\ task[h].role = "error"
  /\ pending' = FALSE
  /\ Become(h, Resting)
  /\ UNCHANGED <<authed, active, anon, Server, turns, History>>

\* refreshList is inside the try: when it fails, an error follows the answer.
Listed(h) ==
  /\ HandlerAt(h, "listing")
  /\ pending' = FALSE
  /\ Become(h, Resting)
  /\ UNCHANGED <<authed, active, anon, Server, turns, History>>

------------------------------------------------------------------------------
(* The list of chats; it may still name one that was deleted *)

OpenChat(h, c) ==
  /\ HandlerAt(h, "idle") /\ authed /\ c \in given
  /\ Become(h, [pc |-> "open", id |-> c])
  /\ UNCHANGED <<Page, Server, turns, History>>

GetChat(h) == LET c == task[h].id IN
  /\ HandlerAt(h, "open")
  /\ \/ c \in live /\ Become(h, [pc |-> "opened", id |-> c, msgs |-> saved[c]])
     \/ Become(h, Resting)
  /\ UNCHANGED <<Page, Server, turns, History>>

\* Whatever has been clicked since, this chat comes on screen.
Opened(h) ==
  /\ HandlerAt(h, "opened")
  /\ Show([id |-> task[h].id, msgs |-> task[h].msgs])
  /\ Become(h, Resting)
  /\ UNCHANGED <<authed, anon, pending, Server, turns, shown, kept, overlap, doubled, again>>

NewChat ==
  /\ authed /\ active # None
  /\ Show(None)
  /\ UNCHANGED <<authed, anon, pending, task, Server, turns, shown, kept, overlap, doubled, again>>

\* close is decided on the chat that is on screen at the click.
RemoveChat(h, c) ==
  /\ HandlerAt(h, "idle") /\ authed /\ c \in live
  /\ Become(h, [pc |-> "remove", id |-> c, close |-> Id(active) = c])
  /\ UNCHANGED <<Page, Server, turns, History>>

DeleteChat(h) == LET c == task[h].id IN
  /\ HandlerAt(h, "remove")
  /\ \/ /\ live' = live \ {c} /\ saved' = [saved EXCEPT ![c] = <<>>] /\ given' = given
        /\ Become(h, [task[h] EXCEPT !.pc = "removed"])
     \/ Become(h, Resting) /\ UNCHANGED Server
  /\ UNCHANGED <<Page, turns, History>>

Removed(h) ==
  /\ HandlerAt(h, "removed")
  /\ Show(IF task[h].close THEN None ELSE active)
  /\ Become(h, Resting)
  /\ UNCHANGED <<authed, anon, pending, Server, turns, shown, kept, overlap, doubled, again>>

------------------------------------------------------------------------------
(* Signing in and out *)

Logout ==
  /\ authed
  /\ authed' = FALSE /\ Show(None)
  /\ UNCHANGED <<anon, pending, task, Server, turns, shown, kept, overlap, doubled, again>>

\* submit, with the onLoggedIn of this render and the thread it closes over.
Login(h) ==
  /\ HandlerAt(h, "idle") /\ ~authed /\ In({"login", "import", "imported", "init"}) = {}
  /\ Become(h, [pc |-> "login", thread |-> anon])
  /\ overlap' = overlap \cup {task[g].turn : g \in In({"query"})}
  /\ UNCHANGED <<Page, Server, turns, shown, kept, moved, doubled, again>>

LoginFails(h) ==
  /\ HandlerAt(h, "login")
  /\ Become(h, Resting)
  /\ UNCHANGED <<Page, Server, turns, History>>

\* onLoggedIn: the thread is imported, if there is one.
LoggedIn(h) ==
  /\ HandlerAt(h, "login")
  /\ Become(h, IF task[h].thread = <<>> THEN [pc |-> "imported", id |-> None]
               ELSE [pc |-> "import", thread |-> task[h].thread])
  /\ UNCHANGED <<Page, Server, turns, History>>

\* POST /conversations/import creates a chat and stores the thread in it, message by
\* message; it may fail on the way, or its answer be lost.
Import(h) == LET c == FreshId
                 thread == task[h].thread IN
  /\ HandlerAt(h, "import") /\ given # Chats /\ given' = given \cup {c}
  /\ live' = live \cup {c}
  /\ \E n \in 0 .. Len(thread) :
       /\ saved' = [saved EXCEPT ![c] = SubSeq(thread, 1, n)]
       /\ kept' = kept \cup {thread[i] : i \in 1 .. n}
       /\ \/ /\ n = Len(thread)
             /\ Become(h, [pc |-> "imported", id |-> c]) /\ again' = again
          \/ Become(h, [pc |-> "imported", id |-> None]) /\ again' = TRUE
  /\ UNCHANGED <<Page, turns, shown, overlap, moved, doubled>>

ImportFails(h) ==
  /\ HandlerAt(h, "import")
  /\ Become(h, [pc |-> "imported", id |-> None])
  /\ UNCHANGED <<Page, Server, turns, History>>

ClearedAlways(id) == <<>>  \* mutant of Cleared: setAnonMsgs([]) in a finally

ClearedNever(id) == anon  \* mutant of Cleared: setAnonMsgs([]) forgotten

\* What is left of the anonymous thread: everything, unless the import succeeded.
Cleared(id) == IF id = None THEN anon ELSE <<>>

\* setAnonMsgs([]) and setActive(adopted), then init.
Imported(h) == LET c == task[h].id IN
  /\ HandlerAt(h, "imported")
  /\ anon' = Cleared(c)
  /\ Show(IF c = None THEN None ELSE [id |-> c, msgs |-> saved[c]])
  /\ Become(h, [pc |-> "init"])
  /\ UNCHANGED <<authed, pending, Server, turns, shown, kept, overlap, doubled, again>>

\* init reads account and chats: it succeeds or leaves the page signed out.
InitDone(h) ==
  /\ HandlerAt(h, "init")
  /\ authed' \in BOOLEAN
  /\ Become(h, Resting)
  /\ UNCHANGED <<active, anon, pending, Server, turns, History>>

\* What a handler does next without a click.
Continue(h) ==
  \/ QueryDone(h) \/ Create(h) \/ CreateFails(h) \/ Created(h) \/ StoreTurn(h) \/ StoreFails(h)
  \/ Answered(h) \/ Failed(h) \/ Listed(h) \/ GetChat(h) \/ Opened(h)
  \/ DeleteChat(h) \/ Removed(h) \/ LoginFails(h) \/ LoggedIn(h)
  \/ Import(h) \/ ImportFails(h) \/ Imported(h) \/ InitDone(h)

Click(h) ==
  \/ AskAnon(h) \/ AskFirst(h) \/ AskIn(h) \/ Login(h)
  \/ \E c \in Chats : OpenChat(h, c) \/ RemoveChat(h, c)

PageNext == NewChat \/ Logout \/ \E h \in Tasks : Click(h) \/ Continue(h)

PageSpec == PageInit /\ [][PageNext]_pageVars

------------------------------------------------------------------------------
(* Properties *)

\* An answer on screen is an answer of the chat it is shown in, provided another
\* chat did not come on screen while it was awaited.
ShownIsSaved ==
  active # None /\ active.id \in live =>
    \A i \in DOMAIN active.msgs : LET m == active.msgs[i] IN
      m.role = "answer" => m \in Range(saved[active.id]) \/ m.turn \in moved

\* Questions and answers of the anonymous thread are on the page or imported, in
\* spite of failed sign-ins and imports, unless one was under way during a sign-in.
NothingLost ==
  \A m \in shown : m \in Range(anon) \cup kept \/ m.turn \in overlap

\* No question or answer is saved twice, unless an import was stored without the
\* page hearing of it.
SavedOnce == ~again =>
  \A m \in Message :
    Cardinality({p \in Chats \X (1 .. 2 * MaxTurns) :
                   p[2] \in DOMAIN saved[p[1]] /\ saved[p[1]][p[2]] = m}) <= 1

\* A chat has one question under way at a time, which is what keeps its messages
\* alternating, unless a question was asked while a chat was being created.
OneAskPerChat == ~doubled =>
  \A g, h \in In({"ask"}) : task[g].id = task[h].id => g = h
==============================================================================
