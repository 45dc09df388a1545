------------------------------- MODULE Sessions ------------------------------
(***************************************************************************)
(* The session of one browser with one account name: the token pairs of    *)
(* core/security/auth.py (issue_tokens, refresh, erase_user), the check of *)
(* api/deps.py current_principal, and the web client that keeps one pair   *)
(* in localStorage and exchanges it when a request is answered 401         *)
(* (frontend/web/lib/api.ts, the init of chat/page.tsx).                   *)
(*                                                                         *)
(* Several requests of the browser run at once: tabs, or the two that init *)
(* sends together.  The server's refresh is three statements with nothing  *)
(* around them, and an erasure may come between any two.                   *)
(***************************************************************************)
EXTENDS Naturals, Sequences, FiniteSets

CONSTANTS Requests,   \* requests the browser can have under way together
          MaxPairs,   \* bound: token pairs ever issued
          MaxBirths   \* bound: accounts ever registered under the name

ASSUME SessionsAssumption == IsFiniteSet(Requests) /\ MaxPairs \in Nat /\ MaxBirths \in Nat

VARIABLES account,  \* which account has the name: its number, 0 when there is none
          births,   \* accounts registered so far
          pairs,    \* every token pair issued, in order
          store,    \* localStorage: the number of the pair kept, 0 for none
          req       \* req[r]: how far request r is
sessionVars == <<account, births, pairs, store, req>>

\* row: the pair's row in refresh_tokens; age: both tokens in date, the access
\* token expired, or both; login (history): the first pair of this chain of
\* refreshes; birth (history): the account it was issued to
Pair == [row : {"valid", "used", "none"}, age : {"fresh", "stale", "dead"},
         login : 1 .. MaxPairs, birth : 1 .. MaxBirths]

Idle     == [pc |-> "idle"]
Numbers  == 1 .. Len(pairs)
Requesting ==
  [pc : {"sent"}, pair : Numbers, retry : BOOLEAN] \cup
  [pc : {"refused", "tokenless", "denied", "failed", "swapping", "swapped", "issued"},
   pair : Numbers] \cup
  [pc : {"found"}, pair : Numbers, birth : 1 .. MaxBirths]

SessionTypeOK ==
  /\ account \in {0, births} /\ births \in 0 .. MaxBirths
  /\ pairs \in Seq(Pair) /\ Len(pairs) <= MaxPairs
  /\ store \in 0 .. Len(pairs)
  /\ req \in [Requests -> {Idle} \cup Requesting]

Exchangeable(n) == pairs[n].row = "valid" /\ pairs[n].age # "dead"

\* Every request under way may need one more pair.
Room == Len(pairs) + Cardinality({r \in Requests : req[r].pc \notin {"idle", "issued"}}) < MaxPairs

SessionInit ==
  /\ account = 0 /\ births = 0
  /\ pairs = <<>> /\ store = 0
  /\ req = [r \in Requests |-> Idle]

At(r, pc)    == req[r].pc = pc
Become(r, s) == req' = [req EXCEPT ![r] = s]
Issue(login, birth) ==
  pairs' = Append(pairs, [row |-> "valid", age |-> "fresh", login |-> login, birth |-> birth])

------------------------------------------------------------------------------
(* The account *)

Register ==
  /\ account = 0 /\ births < MaxBirths
  /\ births' = births + 1 /\ account' = births + 1
  /\ UNCHANGED <<pairs, store, req>>

\* POST /auth/login; the page offers it when no session is kept.
Login ==
  /\ account # 0 /\ store = 0 /\ Room
  /\ Issue(Len(pairs) + 1, account)
  /\ store' = Len(pairs) + 1
  /\ UNCHANGED <<account, births, req>>

Logout ==
  /\ store # 0
  /\ store' = 0
  /\ UNCHANGED <<account, births, pairs, req>>

\* AuthStore.erase_user: the row of users and the name's refresh tokens.
EraseUser ==
  /\ account # 0
  /\ account' = 0
  /\ pairs' = [n \in Numbers |-> [pairs[n] EXCEPT !.row = "none"]]
  /\ UNCHANGED <<births, store, req>>

\* Request r has refreshed to pair n and is at its second try.
Retrying(r, n) == /\ req[r].pc \in {"issued", "sent"} /\ req[r].pair = n
                  /\ At(r, "sent") => ~req[r].retry

\* ACCESS_TTL passes over pair n and over all issued before it, or REFRESH_TTL.
\* A second try takes less than the 15 minutes of ACCESS_TTL.
Expire(n) ==
  /\ pairs[n].age # "dead"
  /\ ~\E r \in Requests : Retrying(r, n)
  /\ \A m \in 1 .. n - 1 : pairs[m].age # pairs[n].age
  /\ pairs' = [pairs EXCEPT ![n].age = IF @ = "fresh" THEN "stale" ELSE "dead"]
  /\ UNCHANGED <<account, births, store, req>>

------------------------------------------------------------------------------
(* A request: request() and refresh() of api.ts, with their server halves *)

Send(r) ==
  /\ At(r, "idle") /\ store # 0 /\ Room
  /\ Become(r, [pc |-> "sent", pair |-> store, retry |-> TRUE])
  /\ UNCHANGED <<account, births, pairs, store>>

\* current_principal: a token in date, and an account with its name.
Serve(r) ==
  /\ At(r, "sent")
  /\ pairs[req[r].pair].age = "fresh" /\ account # 0
  /\ Become(r, Idle)
  /\ UNCHANGED <<account, births, pairs, store>>

RejectForGood(r) ==  \* mutant of Reject: no refresh on 401
  /\ At(r, "sent")
  /\ pairs[req[r].pair].age # "fresh" \/ account = 0
  /\ Become(r, [pc |-> "denied", pair |-> req[r].pair])
  /\ UNCHANGED <<account, births, pairs, store>>

\* 401: the client tries to refresh, once.
Reject(r) ==
  /\ At(r, "sent")
  /\ pairs[req[r].pair].age # "fresh" \/ account = 0
  /\ Become(r, [pc |-> IF req[r].retry THEN "refused" ELSE "denied", pair |-> req[r].pair])
  /\ UNCHANGED <<account, births, pairs, store>>

RefreshOnlyWithToken(r) ==  \* mutant of Refresh: nothing settles the promise without a token
  /\ At(r, "refused") /\ store # 0
  /\ Become(r, [pc |-> "swapping", pair |-> store])
  /\ UNCHANGED <<account, births, pairs, store>>

\* refresh() sends whatever refresh token localStorage holds by now.
Refresh(r) ==
  /\ At(r, "refused")
  /\ Become(r, IF store = 0 THEN [pc |-> "tokenless", pair |-> req[r].pair]
               ELSE [pc |-> "swapping", pair |-> store])
  /\ UNCHANGED <<account, births, pairs, store>>

SwapRow(r, ok) == LET n == req[r].pair IN
  /\ Become(r, [pc |-> IF ok THEN "swapped" ELSE "denied", pair |-> n])
  /\ pairs' = IF ok THEN [pairs EXCEPT ![n].row = "used"] ELSE pairs
  /\ UNCHANGED <<account, births, store>>

SwapAny(r) ==  \* mutant of Swap: AND revoked = 0 dropped
  At(r, "swapping") /\ SwapRow(r, pairs[req[r].pair].row # "none" /\ pairs[req[r].pair].age # "dead")

\* UPDATE ... SET revoked = 1 WHERE jti = ? AND revoked = 0 AND expires_at > ?
Swap(r) == At(r, "swapping") /\ SwapRow(r, Exchangeable(req[r].pair))

\* SELECT the user of that name: gone, or whoever has it now.
FindUser(r) ==
  /\ At(r, "swapped")
  /\ Become(r, IF account = 0 THEN [pc |-> "denied", pair |-> req[r].pair]
               ELSE [pc |-> "found", pair |-> req[r].pair, birth |-> account])
  /\ UNCHANGED <<account, births, pairs, store>>

\* issue_tokens: the INSERT asks nothing about the account.
IssueTokens(r) ==
  /\ At(r, "found")
  /\ Issue(pairs[req[r].pair].login, req[r].birth)
  /\ Become(r, [pc |-> "issued", pair |-> Len(pairs) + 1])
  /\ UNCHANGED <<account, births, store>>

\* setTokens, and the request again with the new pair.
Retry(r) ==
  /\ At(r, "issued")
  /\ store' = req[r].pair
  /\ Become(r, [pc |-> "sent", pair |-> req[r].pair, retry |-> FALSE])
  /\ UNCHANGED <<account, births, pairs>>

\* The refresh is answered with an error that is no refusal (a 5xx, of the server
\* or of a proxy before it) at any point of its server half; to refresh() of the
\* client every answer that is not 2xx is the same.
RefreshFails(r) ==
  /\ req[r].pc \in {"swapping", "swapped", "found", "issued"}
  /\ Become(r, [pc |-> "failed", pair |-> req[r].pair])
  /\ UNCHANGED <<account, births, pairs, store>>

\* The 401 of the request stands: refresh had no token to send, the server refused
\* it, or it failed.
Failed(r) == req[r].pc \in {"tokenless", "denied", "failed"}

\* The request fails with 401: init drops the session ...
Forget(r) ==
  /\ Failed(r)
  /\ store' = 0
  /\ Become(r, Idle)
  /\ UNCHANGED <<account, births, pairs>>

\* ... every other caller shows the error.
ShowError(r) ==
  /\ Failed(r)
  /\ Become(r, Idle)
  /\ UNCHANGED <<account, births, pairs, store>>

\* The answer is lost and fetch rejects, or the request itself is answered with
\* another error: no 401 either way.
Lost(r) ==
  /\ req[r].pc \notin {"idle", "refused"} /\ ~Failed(r)
  /\ Become(r, Idle)
  /\ UNCHANGED <<account, births, pairs, store>>

Advance(r) ==
  \/ Serve(r) \/ Reject(r) \/ Refresh(r) \/ Swap(r) \/ FindUser(r) \/ IssueTokens(r)
  \/ Retry(r) \/ Forget(r) \/ ShowError(r)

SessionNext ==
  \/ Register \/ Login \/ Logout \/ EraseUser
  \/ \E n \in Numbers : Expire(n)
  \/ \E r \in Requests : Send(r) \/ Advance(r) \/ RefreshFails(r) \/ Lost(r)

SessionSpec == SessionInit /\ [][SessionNext]_sessionVars

\* A request that is under way is carried on with; nothing makes it be lost.
FairSpec == SessionSpec /\ \A r \in Requests : WF_sessionVars(Advance(r))

------------------------------------------------------------------------------
(* Properties *)

\* Of the refresh tokens that come from one login, at most one can be
\* exchanged: whatever runs in parallel, a token once used is worth nothing.
OneLiveToken == \A m, n \in Numbers :
  pairs[m].login = pairs[n].login /\ pairs[m].row = "valid" /\ pairs[n].row = "valid" => m = n

\* Init drops a session for one of three reasons: its request found no refresh
\* token to send, the refresh was answered with a server error, or the refresh token
\* it sent is worth nothing any more: used, expired or revoked, or the account it was
\* issued to is gone.  A refusal by the server is never over a token still good.
DroppedForAReason ==
  [][\A r \in Requests : Forget(r) =>
       \/ At(r, "tokenless") \/ At(r, "failed")
       \/ ~(Exchangeable(req[r].pair) /\ pairs[req[r].pair].birth = account)]_sessionVars

\* Every request ends in an answer or an error: no loop of 401 and refresh.
RequestsEnd == \A r \in Requests : req[r].pc # "idle" ~> req[r].pc = "idle"

==============================================================================
