------------------------------ MODULE Accounts -------------------------------
(***************************************************************************)
(* The accounts of core/security/auth.py AuthStore behind the routes of    *)
(* api/routes/auth.py and api/routes/account.py: registration with a       *)
(* password or through Google, logins and refreshes with the tokens and    *)
(* the audit trail they leave, authenticated requests that write under the *)
(* account's name, and DELETE /account, which erases chats, documents,     *)
(* quota and account one after the other.                                  *)
(*                                                                         *)
(* A worker is a request in flight.  Everything refers to an account by    *)
(* its username, which is free again after an erasure, and so does an      *)
(* access token, which is believed while it is in date and somebody has    *)
(* its name.  Birth numbers tell the successive accounts apart and are     *)
(* known to the model only.  Each of the four erasures is one step here;   *)
(* what happens inside them is the subject of Conversations, Corpus,       *)
(* UserQuota and Sessions.  A user's tenant is the username.               *)
(***************************************************************************)
EXTENDS Naturals, FiniteSets

CONSTANTS Names,     \* usernames outside RESERVED_USERNAMES
          Subs,      \* Google identities
          Workers,   \* requests that can be in flight together
          MaxBirths, \* bound: accounts ever registered
          MaxRows,   \* bound: rows at which only a registration or an erasure still begins
          None       \* no row, no Google identity

Births == 1 .. MaxBirths
Kinds  == {"chats", "docs", "quota"}

VARIABLES users,   \* users[n]: the row of username n, or None
          births,  \* accounts registered so far
          data,    \* what is stored under usernames, refresh tokens included
          tokens,  \* access tokens in date: the name in them, and whom they were issued to
          trail,   \* the audit rows that name somebody
          req,     \* req[w]: the request worker w is serving
          ever,    \* history: which account was registered under which name
          crossed, \* history: accounts under whose name another request ran during an erasure
          outlived \* history: accounts with a token in date when the name was registered anew
vars == <<users, births, data, tokens, trail, req, ever, crossed, outlived>>

\* set_by (history): the account to whose token or Google identity the request was
\* due that last set a column of the row: the address shown, the API key or the
\* business profile
Row == [birth : Births, role : {"admin", "user"}, sub : Subs \cup {None}, set_by : Births]

ASSUME AccountsAssumption ==
  /\ IsFiniteSet(Workers) /\ Workers # {}
  /\ MaxBirths \in Nat /\ None \notin Subs \cup Row

\* birth: the account that had the name when the request was let in; for a refresh
\* token, the account it was issued to
Item == [name : Names, kind : Kinds \cup {"tokens"}, birth : Births]

\* An audit row about the account birth.  Its actor is the username ("name"), or a
\* spelling of it that strip().lower() turns into the username ("typed"); "late":
\* the username, for an attempt that began when the account was gone.
Entry == [name : Names, as : {"name", "typed", "late"}, birth : Births]

Idle    == [pc |-> "idle"]
Request ==
  [pc : {"google"}, sub : Subs] \cup
  [pc : {"named"}, name : Names, sub : Subs \cup {None}] \cup
  [pc : {"counted"}, name : Names, sub : Subs \cup {None}, role : {"admin", "user"}] \cup
  [pc : {"acting", "swapped", "issuing", "late"}, name : Names, birth : Births] \cup
  [pc : {"setting"}, name : Names, birth : Births, by : Births, more : BOOLEAN] \cup
  [pc : {"chats", "docs", "quota", "account"}, name : Names, birth : Births] \cup
  [pc : {"audit"}, name : Names, as : {"name", "typed"}, birth : Births, more : BOOLEAN]

\* Types, and that a Google identity has one account (the unique index on google_sub).
TypeOK ==
  /\ users \in [Names -> Row \cup {None}]
  /\ births \in 0 .. MaxBirths
  /\ data \subseteq Item /\ tokens \subseteq Names \X Births
  /\ trail \subseteq Entry
  /\ req \in [Workers -> {Idle} \cup Request]
  /\ ever \subseteq Names \X Births /\ crossed \subseteq Births /\ outlived \subseteq Births
  /\ \A m, n \in Names : /\ users[m] # None /\ users[n] # None
                         /\ users[m].sub = users[n].sub /\ users[m].sub # None
                         => m = n

Init ==
  /\ users = [n \in Names |-> None] /\ births = 0
  /\ data = {} /\ tokens = {} /\ trail = {}
  /\ req = [w \in Workers |-> Idle]
  /\ ever = {} /\ crossed = {} /\ outlived = {}

At(w, pc)    == req[w].pc = pc
Become(w, r) == req' = [req EXCEPT ![w] = r]
\* more: tokens are issued once the audit row is written.
Audit(w, n, as, b, more) ==
  Become(w, [pc |-> "audit", name |-> n, as |-> as, birth |-> b, more |-> more])

Alive     == {users[n].birth : n \in {m \in Names : users[m] # None}}
Holder(n) == IF users[n] = None THEN {} ELSE {users[n].birth}
Under(n)  == {w \in Workers :
                /\ req[w].pc \in {"acting", "setting", "swapped", "issuing", "audit",
                                 "chats", "docs", "quota", "account"}
                /\ req[w].name = n}
Erasing(n) == {w \in Under(n) : req[w].pc \in {"chats", "docs", "quota", "account"}}

\* A request starts under name n on behalf of the accounts B; erases: it is a
\* DELETE /account.
Meet(n, B, erases) ==
  crossed' = IF (IF erases THEN Under(n) ELSE Erasing(n)) # {} THEN crossed \cup B ELSE crossed

Room == Cardinality(data) + Cardinality(trail) < MaxRows

------------------------------------------------------------------------------
(* Registration *)

\* register: the name is free.
Register(w, n) ==
  /\ At(w, "idle") /\ users[n] = None /\ births < MaxBirths
  /\ Become(w, [pc |-> "named", name |-> n, sub |-> None])
  /\ UNCHANGED <<users, births, data, tokens, trail, ever, crossed, outlived>>

\* upsert_google_user: nobody has the identity yet ...
GoogleNew(w, s) ==
  /\ At(w, "idle") /\ births < MaxBirths
  /\ \A n \in Names : users[n] # None => users[n].sub # s
  /\ Become(w, [pc |-> "google", sub |-> s])
  /\ UNCHANGED <<users, births, data, tokens, trail, ever, crossed, outlived>>

\* ... so a name no account has is derived.
FreeUsername(w, n) ==
  /\ At(w, "google") /\ users[n] = None
  /\ Become(w, [pc |-> "named", name |-> n, sub |-> req[w].sub])
  /\ UNCHANGED <<users, births, data, tokens, trail, ever, crossed, outlived>>

FirstByName(n) == users[n] = None  \* mutant of First: the query asks for the name again

First(n) == \A m \in Names : users[m] = None

\* SELECT 1 FROM users LIMIT 1: the very first user is to be the admin.
CountUsers(w) == LET n == req[w].name IN
  /\ At(w, "named")
  /\ Become(w, [pc |-> "counted", name |-> n, sub |-> req[w].sub,
                role |-> IF First(n) THEN "admin" ELSE "user"])
  /\ UNCHANGED <<users, births, data, tokens, trail, ever, crossed, outlived>>

Taken(n, s) == users[n] # None \/ \E m \in Names : s # None /\ users[m] # None /\ users[m].sub = s

\* The account births + 1 gets the name n, and tokens too when it came by Google.
Found(w, n) ==
  /\ births' = births + 1 /\ ever' = ever \cup {<<n, births + 1>>}
  /\ outlived' = outlived \cup {t[2] : t \in {u \in tokens : u[1] = n}}
  /\ Audit(w, n, "name", births + 1, req[w].sub # None)
  /\ Meet(n, {births + 1}, FALSE)
  /\ UNCHANGED <<data, tokens, trail>>

NewRow(w) == [birth |-> births + 1, role |-> req[w].role, sub |-> req[w].sub,
              set_by |-> births + 1]

InsertUnindexed(w) == LET n == req[w].name IN  \* mutant of Insert: no unique index on google_sub
  /\ At(w, "counted") /\ users[n] = None /\ births < MaxBirths
  /\ users' = [users EXCEPT ![n] = NewRow(w)]
  /\ Found(w, n)

Insert(w) == LET n == req[w].name IN
  /\ At(w, "counted") /\ ~Taken(n, req[w].sub) /\ births < MaxBirths
  /\ users' = [users EXCEPT ![n] = NewRow(w)]
  /\ Found(w, n)

\* The primary key or the index refuses: the request ends with an error.
InsertConflict(w) ==
  /\ At(w, "counted") /\ Taken(req[w].name, req[w].sub)
  /\ Become(w, Idle)
  /\ UNCHANGED <<users, births, data, tokens, trail, ever, crossed, outlived>>

------------------------------------------------------------------------------
(* Logins, refreshes and authenticated requests *)

\* authenticate: it succeeds or fails, and either way writes the name as typed.
Login(w, n) ==
  /\ At(w, "idle") /\ users[n] # None /\ Room
  /\ \E as \in {"name", "typed"}, ok \in BOOLEAN : Audit(w, n, as, users[n].birth, ok)
  /\ Meet(n, Holder(n), FALSE)
  /\ UNCHANGED <<users, births, data, tokens, trail, ever, outlived>>

\* An attempt that leaves a row about an account that is gone.
Late(w, n, b) ==
  /\ b \notin Alive
  /\ Become(w, [pc |-> "late", name |-> n, birth |-> b])
  /\ UNCHANGED <<users, births, data, tokens, trail, ever, crossed, outlived>>

\* authenticate with a name nobody has any more: login_failed, all the same.
LoginNobody(w, n, b) ==
  At(w, "idle") /\ users[n] = None /\ <<n, b>> \in ever /\ Room /\ Late(w, n, b)

\* refresh, the UPDATE finds no valid row: refresh_reuse_blocked, by the name in the
\* token, whoever has it by now.
Refuse(w, n, b) ==
  /\ At(w, "idle") /\ <<n, b>> \in ever /\ Room
  /\ \/ Late(w, n, b)
     \/ /\ b \in Alive
        /\ Audit(w, n, "name", b, FALSE)
        /\ Meet(n, {b}, FALSE)
        /\ UNCHANGED <<users, births, data, tokens, trail, ever, outlived>>

\* refresh, the UPDATE finds the row, maybe one of several of the account's.
Refresh(w, n, b) == LET row == [name |-> n, kind |-> "tokens", birth |-> b] IN
  /\ At(w, "idle") /\ row \in data /\ Room
  /\ data' = data \/ data' = data \ {row}
  /\ Become(w, [pc |-> "swapped", name |-> n, birth |-> b])
  /\ Meet(n, {b} \cup Holder(n), FALSE)
  /\ UNCHANGED <<users, births, tokens, trail, ever, outlived>>

\* SELECT the user of that name: gone, or whoever has it now.
FindUser(w) == LET n == req[w].name IN
  /\ At(w, "swapped")
  /\ IF users[n] = None THEN Become(w, Idle) ELSE Audit(w, n, "name", req[w].birth, TRUE)
  /\ UNCHANGED <<users, births, data, tokens, trail, ever, crossed, outlived>>

\* issue_tokens: the INSERT asks nothing about the account.
IssueTokens(w) == LET n == req[w].name IN
  /\ At(w, "issuing")
  /\ data' = data \cup {[name |-> n, kind |-> "tokens", birth |-> req[w].birth]}
  /\ tokens' = tokens \cup {<<n, req[w].birth>>}
  /\ Become(w, Idle)
  /\ UNCHANGED <<users, births, trail, ever, crossed, outlived>>

\* ACCESS_TTL passes over the last access token issued to an account; while the
\* account is there it can have another.
Lapse(t) ==
  /\ t \in tokens /\ t[2] \notin Alive
  /\ tokens' = tokens \ {t}
  /\ UNCHANGED <<users, births, data, trail, req, ever, crossed, outlived>>

\* upsert_google_user finds the account; the address may have changed.
GoogleKnown(w, n) ==
  /\ At(w, "idle") /\ users[n] # None /\ users[n].sub # None /\ Room
  /\ LET b == users[n].birth IN
     \/ Audit(w, n, "name", b, TRUE)
     \/ Become(w, [pc |-> "setting", name |-> n, birth |-> b, by |-> b, more |-> TRUE])
  /\ Meet(n, Holder(n), FALSE)
  /\ UNCHANGED <<users, births, data, tokens, trail, ever, outlived>>

ActAnyTime(w, n, b) ==  \* mutant of Act: the token's exp is not asked
  /\ At(w, "idle") /\ users[n] # None /\ <<n, b>> \in ever /\ Room
  /\ Become(w, [pc |-> "setting", name |-> n, birth |-> users[n].birth, by |-> b, more |-> FALSE])
  /\ Meet(n, Holder(n), FALSE)
  /\ UNCHANGED <<users, births, data, tokens, trail, ever, outlived>>

\* current_principal lets a request in on a token in date and an account with its
\* name, whosoever.  It will store something under the name, or set the key or the
\* profile in the account's row.
Act(w, n, b) ==
  /\ At(w, "idle") /\ users[n] # None /\ <<n, b>> \in tokens /\ Room
  /\ LET c == users[n].birth IN
     \/ Become(w, [pc |-> "acting", name |-> n, birth |-> c])
     \/ Become(w, [pc |-> "setting", name |-> n, birth |-> c, by |-> b, more |-> FALSE])
  /\ Meet(n, Holder(n), FALSE)
  /\ UNCHANGED <<users, births, data, tokens, trail, ever, outlived>>

\* A chat, a document or a quota row; nothing asks whether the account is still there.
Write(w, k) == LET n == req[w].name IN
  /\ At(w, "acting")
  /\ data' = data \cup {[name |-> n, kind |-> k, birth |-> req[w].birth]}
  /\ Audit(w, n, "name", req[w].birth, FALSE)
  /\ UNCHANGED <<users, births, tokens, trail, ever, crossed, outlived>>

\* UPDATE users SET ... WHERE username = ?; a profile is set without an audit row.
SetColumn(w) == LET n == req[w].name IN
  /\ At(w, "setting")
  /\ users' = IF users[n] = None THEN users ELSE [users EXCEPT ![n].set_by = req[w].by]
  /\ \/ Audit(w, n, "name", req[w].birth, req[w].more)
     \/ ~req[w].more /\ Become(w, Idle)
  /\ UNCHANGED <<births, data, tokens, trail, ever, crossed, outlived>>

\* AuthStore.audit, after what the row is about
WriteAudit(w) == LET n == req[w].name
                     b == req[w].birth IN
  /\ At(w, "audit")
  /\ trail' = trail \cup {[name |-> n, as |-> req[w].as, birth |-> b]}
  /\ Become(w, IF req[w].more THEN [pc |-> "issuing", name |-> n, birth |-> b] ELSE Idle)
  /\ UNCHANGED <<users, births, data, tokens, ever, crossed, outlived>>

WriteLate(w) ==
  /\ At(w, "late")
  /\ trail' = trail \cup {[name |-> req[w].name, as |-> "late", birth |-> req[w].birth]}
  /\ Become(w, Idle)
  /\ UNCHANGED <<users, births, data, tokens, ever, crossed, outlived>>

------------------------------------------------------------------------------
(* DELETE /account *)

Delete(w, n, b) ==
  /\ At(w, "idle") /\ users[n] # None /\ <<n, b>> \in tokens
  /\ Become(w, [pc |-> "chats", name |-> n, birth |-> users[n].birth])
  /\ Meet(n, Holder(n), TRUE)
  /\ UNCHANGED <<users, births, data, tokens, trail, ever, outlived>>

\* What delete_account erases after what.
AfterForgetful == [chats |-> "docs", docs |-> "account", quota |-> "account"]  \* mutant of After: no quota
After == [chats |-> "docs", docs |-> "quota", quota |-> "account"]

EraseContent(w) ==
  /\ req[w].pc \in Kinds
  /\ data' = {d \in data : ~(d.name = req[w].name /\ d.kind = req[w].pc)}
  /\ Become(w, [req[w] EXCEPT !.pc = After[@]])
  /\ UNCHANGED <<users, births, tokens, trail, ever, crossed, outlived>>

\* The one transaction of erase_user.
Erased(n) ==
  /\ users' = [users EXCEPT ![n] = None]
  /\ data' = {d \in data : ~(d.name = n /\ d.kind = "tokens")}
  /\ trail' = {e \in trail : e.name = n => e.as = "typed"}
  /\ UNCHANGED <<births, tokens, ever, crossed, outlived>>

EraseUserNamed(w) == LET n == req[w].name IN  \* mutant of EraseUser: account.erase names the user
  /\ At(w, "account") /\ Erased(n)
  /\ Audit(w, n, "name", req[w].birth, FALSE)

\* AuthStore.erase_user: the row and the refresh tokens go, and the audit rows whose
\* actor is the username become rows of "deleted_account", as the one it adds itself.
EraseUser(w) ==
  /\ At(w, "account") /\ Erased(req[w].name)
  /\ Become(w, Idle)

\* A statement raises or the process ends.
Abort(w) ==
  /\ ~At(w, "idle")
  /\ Become(w, Idle)
  /\ UNCHANGED <<users, births, data, tokens, trail, ever, crossed, outlived>>

Step(w) ==
  \/ \E n \in Names : \/ Register(w, n) \/ FreeUsername(w, n) \/ Login(w, n) \/ GoogleKnown(w, n)
  \/ \E n \in Names, b \in Births : \/ LoginNobody(w, n, b) \/ Refuse(w, n, b) \/ Refresh(w, n, b)
                                   \/ Act(w, n, b) \/ Delete(w, n, b)
  \/ \E s \in Subs : GoogleNew(w, s)
  \/ CountUsers(w) \/ Insert(w) \/ InsertConflict(w)
  \/ \E k \in Kinds : Write(w, k)
  \/ FindUser(w) \/ IssueTokens(w) \/ SetColumn(w) \/ WriteAudit(w) \/ WriteLate(w)
  \/ EraseContent(w) \/ EraseUser(w) \/ Abort(w)

Next == (\E w \in Workers : Step(w)) \/ (\E t \in tokens : Lapse(t))

Spec == Init /\ [][Next]_vars

------------------------------------------------------------------------------
(* Properties *)

Admins   == {n \in Names : users[n] # None /\ users[n].role = "admin"}
Founding == {w \in Workers : At(w, "counted") /\ req[w].role = "admin"}

\* The first user is the admin: registrations that all found no user may make
\* more, but never more than can run together, and none once they are over.
AdminsBounded == Cardinality(Admins) + Cardinality(Founding) <= Cardinality(Workers)

\* Content first, account last: an account that is gone has left no chat, document,
\* quota row or refresh token behind, however often its erasure failed and was
\* repeated, unless another request under its name ran during one.
NothingOutlivesAccount == \A d \in data : d.birth \in Alive \cup crossed

\* Nobody but its holder sets a column of an account's row, with two exceptions: a
\* request was under way when the name changed hands, or the name was registered
\* anew while an access token of an account before was in date.  Once those have
\* expired nothing the earlier holder kept opens the next account.
RowIsOwn == \A n \in Names :
  users[n] # None => users[n].set_by \in {users[n].birth} \cup crossed \cup outlived

\* An erasure leaves no audit row with the username for an actor.  What names the
\* account afterwards is due to a request that crossed the erasure, or to an attempt
\* that began later: a login with the name, a refresh with a token of old.
TrailForgets == \A e \in trail : e.as = "name" => e.birth \in Alive \cup crossed
==============================================================================
