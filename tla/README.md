# A verification project for EU-RAG

TLA+ models of the api server of this repository, of the chat page of its web
client and of the seeding of its corpus, checked with TLC on small instances, with theorems
proved by TLAPS for every instance. `PROJECT.json` maps every definition to the
lines it models and lists the runs, the mutants that show each property can
fail, the hazards and the theorems.

    tlasany M.tla                              parse a module
    tlc -workers 2 -config X.cfg MCM.tla       check a configuration of module M
    tlapm LimitsProofs.tla                     check one of the eight modules of proofs

## 1. The system

EU-RAG answers questions about EU law and funding from a corpus of official
texts. A FastAPI process (`api/`) serves a Next.js page (`frontend/web`). Route
handlers are plain functions, so every request runs on a thread of its own and
any two of them interleave, on one process and across replicas. What they share:

| part | state | operations | talks to |
|---|---|---|---|
| database wrapper, `core/db.py` | one connection per process, used by all threads | `transaction`, `execute`, `query` | Postgres or SQLite; every store below |
| anonymous gate, `core/quota.py` | `anon_quota(key, day, used)` | `consume` with its sweep, `refund`, `remaining` | called around the pipeline by `POST /query` |
| user gate, `core/quota.py`, `api/deps.py` | `user_quota(username, used)`, the user's own API key | `consume`, `refund`, `erase_user`, `paid_tier` | both ask routes, `/account/key`, `DELETE /account` |
| saved chats, `core/conversations.py` | `conversations`, `messages` | create, rename, delete, `add_message`, import, `erase_user` | the chat routes, the pipeline, the user gate |
| corpus, `core/pipeline.py`, `core/registry.py`, `core/retrieval/` | registry rows and chunks (SQLite), vectors (Qdrant), lexical index (memory) | `ingest`, `erase_document`, `erase_tenant`, rebuild at start | the ingest, document, admin and account routes |
| retrieval, `core/retrieval/` | none of its own; reads both indexes | `retrieve_scored`, rank fusion, cap per document | the pipeline |
| answer cascade, `core/generation/`, `core/pipeline.py` | none of its own | `query`, `_answer`, `answer_question` | retrieval, registry, model providers |
| sessions, `core/security/auth.py`, `api/deps.py`, `lib/api.ts` | `refresh_tokens`; the pair in the browser's localStorage | login, refresh, check of a token, logout, erasure | every authenticated route |
| accounts, `core/security/auth.py`, `api/routes/account.py` | `users`, roles, audit rows | register, Google login, keys, `DELETE /account` | all stores above, one after the other |
| rate limiter, `api/middleware/ratelimit.py` | token buckets in memory or Redis | one decision per request | in front of `/query` and `/ingest` |
| chat page, `app/chat/page.tsx` | the thread shown, the active chat | init, send, open, import after login | the api through `lib/api.ts` |
| chunker, `core/ingestion/` | none | text to articles to overlapping chunks | ingest |
| lexical index, `core/retrieval/bm25.py` | three dicts and an average, no lock | `add`, `remove`, `search` | ingest, erasure, retrieval |
| seeding, `data/` | page caches on disk, a lock file | fetch, verify, ingest; scrapers by hand | web sites, the corpus |

What makes it correct, part by part:

* **gates**: no question beyond the allowance, none charged that was neither
  answered nor given back, and a refund returns what this request took.
* **chats**: a reader gets each question with its own answer, a deletion leaves
  nothing behind, other chats are not touched.
* **corpus**: both indexes hold what the registry says, an erased document is
  nowhere, nobody reads another tenant's text.
* **database**: a `transaction()` block takes effect as a whole or not at all.
* **answers**: cite or refuse; an escalation that fails costs nothing but time; a
  question costs a bounded number of model calls and ends.
* **accounts**: one first admin, and an account that is gone has left nothing
  under its name for the next one to find.
* **chat page**: what is on screen is what the chat on screen holds, and signing
  in neither loses nor doubles the anonymous thread.
* **limiter**: no stretch of time lets more through than burst and refill, and
  nobody is refused for what others asked.
* **lexical index**: a search finds what is indexed, and does not fail.
* **chunker**: no text lost, none under another article, no chunk out of budget.
* **seeding**: what is ingested is the page that was wanted, all of it, and
  repeated deployments get the whole corpus.
* **sessions**: a refresh token works once, expiry is not noticed by the user, no
  request loops between 401 and refresh.

What is hard, and where a unit test hardly gets: check-then-write over two SQL
statements (quotas); work across a model call of many seconds (chats, gates);
three stores written one after the other with no transaction around them
(corpus); one connection shared by all threads (database); a single-use token
that two requests present together (sessions); an erasure of four parts under a
name that is free again afterwards (accounts); handlers that go on after an await
with the state of the click (chat page); ids that come from an index that
is stale and global (retrieval); a bucket filled by clocks that disagree
(limiter); dictionaries changed by several threads (lexical index); files that
are half written when another run, or the next one, reads them (seeding).
`PROJECT.json` lists these hazards at their lines with the property that watches
each, or says why none does yet.

## 2. The modules

Every module is one component. `MC<module>` instantiates it for TLC and holds
only constants and symmetry sets. The theorems are in eight modules, of which four
take two components that belong together: `VisitorProofs` (`AnonQuota`, `ChatPage`),
`LimitsProofs` (`RateLimit`, `UserQuota`), `StorageProofs` (`Database`, `Sessions`),
`DocumentsProofs` (`Corpus`, `Seeding`), and `AccountsProofs`, `AnsweringProofs`,
`ConversationsProofs`, `LexicalProofs` (with `Chunker`). Two components in one module
share no name, hence `UserSpec`, `SessionSpec`, `SeedingSpec` and `PageSpec` for the
specifications of the second ones, and the like.

| module | models | refines |
|---|---|---|
| `QuotaGate` | what an allowance promises, whatever stores it | |
| `AnonQuota` | `AnonQuota` with the anonymous branch of `POST /query` | `QuotaGate` |
| `UserQuota` | `UserQuota`, `paid_tier`, the spend and refund helpers, keys, erasure | `QuotaGate` |
| `SavedChat` | what a saved chat promises its reader | |
| `Conversations` | `ConversationStore` under the chat routes, the chat step of the erasure | `SavedChat` |
| `Corpus` | `ingest`, `erase_document`, `erase_tenant`, crash and restart | |
| `Answering` | one question through `Pipeline.query` over a changing corpus | |
| `Database` | `transaction`, `execute`, `query` on shared and unshared connections | |
| `Sessions` | token pairs, the check of a token, the client that keeps and refreshes them | |
| `Accounts` | registration, Google accounts, the audit trail, `DELETE /account` over all stores | |
| `ChatPage` | the page: send, open, create, delete, sign in with import, sign out | |
| `RateLimit` | the token bucket in a table and in Redis, and failing open | |
| `Chunker` | cutting a text into chunks, as operators | |
| `Lexical` | `BM25Index` under parallel `ingest` and `erase_document`; uses `Chunker` | |
| `Seeding` | page caches, lock, `seed`, `fill_caches`, the three scrapers | |

Each action is one operation, or the piece of a handler between two points at
which another thread may run: a store method that is one transaction is one
step, a handler is a sequence of them, and a record per worker (`ask`, `req`,
`job`) holds its program counter and what the handler has read and not yet used.
`Abort`, `Crash`, `Lost`, `Break` stand for an exception or the end of the
process at any of these points. Two statements in one transaction are two steps
where the code reads in the first what it writes in the second and takes no lock
(the quotas), since READ COMMITTED lets another transaction in between.

The modules of the server lean on one assumption about each other: **one store
transaction is atomic**. `Database` shows when it is (a thread that has its
connection to itself, `AllOrNothing`, proved) and when it is not (threads that
share one, section 6). The others describe a deployment in which each
process serves one request at a time, or the code once a connection per thread
is used; what a shared connection adds on top is in `Database` alone.

### AnonQuota and UserQuota

`table` is the SQL table with `NoRow` for a missing row, `ask[w]` the handler of
worker w: *consuming* (before SELECT), *checked* (after it, `fresh` remembers
whether it found a row), *asking* (charged, the pipeline runs), *refunding*.
`AnonQuota` keeps the day it captured in `row`, and refunds to the day of the
clock (`RefundRow`), as the code does. `UserQuota` keeps the plan read before
the call, as `paid_tier` returns it; an erasure marks the charges it forgets as
`stale` (history). `answered`, `lost` and `strayed` are history: answers on a
charge, charges that died, counters lowered by a refund for another row.

* `OverrunBound` (`AnonQuota`): workers that read the counter before any of them
  wrote it push it past the cap, at most one for each worker beside the first. Of
  the lifetime gate `GateSpec` says the same.
* `Ledger`: a counter is exactly its answers, its running calls and its charges
  that died, through lost inserts, sweeps, midnight, key changes and erasure.
* `GateSpec`: the two-statement gate is the abstract gate with a slack of
  workers - 1. With slack 0 it is not: see section 6.

### Conversations

`log[c]` holds the rows of `messages` of chat c in id order, `req[w]` the ask or import in
flight with the snapshot it took, `eraser`/`listed` the erasure between listing
the chats and deleting them. `shared` and `raced` are history: chats in which
two writers overlapped, chats deleted under a writer. The refinement of
`SavedChat` (`ChatSpec`) speaks of what `_history` hands to the model, each
question with its own answer or none, for chats nobody used twice at once;
`OrphansComeFromRaces` says that messages without a
chat have no other cause than a deletion under a running request.

### Corpus

`reg`, `vec`, `words` are the three stores, entry by entry; `job[w]` an ingest
(*hashed*, *cleared*, *upserted*, *saved*) or an erasure over the documents of
`todo` (*dropped*, *wiped*). `torn` is history: documents whose last change was
cut short or overlapped another. `IndexesFollowRegistry` holds for every other
document, so it says two things: a job that runs alone leaves the three stores
consistent, stale ids of a longer older version being the one exception it
spells out; and such a job repairs whatever state it found.

### Answering

Questions share nothing but the corpus, so one is modelled at a time; `Save`
changes the corpus under it at any moment. A ranking is any sequence of known
chunk ids, which covers every index, stale or foreign, every embedder and
reranker. A reply of a model is the set of markers in it and two facts about its
text. `Settle` is the decision of `query` after a pass; `Deep` tells the
escalated pass from the first.

### Database

`open[c]` is the state of the transaction on the server, `auto[c]` psycopg's
autocommit, `pending[c]` and `durable` the writes; `at[t]` is the line of
`transaction()` thread t is at. The drivers are modelled by the contract `db.py`
relies on, written out in the module's head. A commit that the server refuses raises
and undoes the transaction (`CommitRaises`).

### Sessions

`pairs` is every token pair ever issued with its row in `refresh_tokens`;
`store` is localStorage; `req[r]` a request with the two halves of its refresh
(`Swap`, `FindUser`, `IssueTokens` are the three statements of the server). To the client
every answer to the refresh that is not 2xx is the same: a server error at any of
these points (`RefreshFails`) ends as a refusal does, and `init` drops the session.
`DroppedForAReason` names the three ways this comes about, and says that a refusal
is never over a token still good. `login` and `birth` are history.

### Accounts

`users[n]` is the row of a username, `data` what chats, documents, quota and refresh
tokens there are under names, `tokens` the access tokens in date, `trail` the audit
rows that name somebody; `req[w]` is a request in flight: a registration between its
three reads and its INSERT (*google*, *named*, *counted*), a refresh between its
statements (*swapped*, *issuing*), an authenticated request that will write, an erasure
in front of one of its four steps. An access token lets in whoever holds it as long
as somebody has its name (`Act`), and `set_by` of a row says whose it was. A login
under a name nobody has any more, and the refusal of a token of old, leave an audit
row all the same (`LoginNobody`, `Refuse`). `birth` tells successive accounts of one
name apart. `ever`, `crossed` and `outlived` are history: who was registered under which
name, accounts under whose name something else ran during an erasure, accounts
with an access token in date when the name was registered anew. This module composes
the four erasures; what happens inside one is in `Conversations`, `Corpus`, `UserQuota`
and `Sessions`.

* `AdminsBounded`: parallel first registrations all become admin, so there may be
  as many admins as requests ran at once, and never one more. With one worker it
  says that the first user is the only admin.
* `NothingOutlivesAccount`, `RowIsOwn`, `TrailForgets`: through failed and
  repeated erasures and a new registration of the name. Each excepts `crossed`
  accounts; section 6 says what a crossing request leaves behind. `RowIsOwn` excepts
  also an account whose token was in date at the new registration, so it says that
  once the tokens have expired nothing is left that opens the next account.
  `TrailForgets` is about what the account itself wrote: a row that names it
  afterwards comes from a request across the erasure, or an attempt after it.

### ChatPage

`task[h]` is a handler between two awaits with what it closed over: `thread`, the
anonymous messages of the render that opened the login dialog; `close`, whether
the chat to delete was on screen at the click. A step is a click, a continuation,
or the server's part of a call, and each call may fail before it acted, after it
did, or (import and ask) half way. `moved`, `overlap`, `doubled` and `again` are
history and name the races the properties except: another chat came on screen
while an answer was awaited, an anonymous question was under way during a sign-in,
a question was asked while a chat was being created, an import was stored at least
in part and its answer lost. Messages that report an error are not modelled, so a
`refreshList` that fails after an answer (`Listed`) shows as no change.

### RateLimit

`bucket[k]` is what the table or Redis keeps for a key, `order` the OrderedDict;
one decision is one step, since `dispatch` does not await between reading and
writing, and the Lua script is atomic. `disk` is the last snapshot of Redis, which a
restart goes back to, or finds lost. Levels are kept in ticks, so that refill
is exact. `charged` and `others` are history: when tokens were taken from the
present bucket of a key, and who asked the table since its owner did.

* `WindowBound`, `OwnBudget`: the two sides of a limiter, enough is refused and
  not too much; with Redis both give way by what the clocks of replicas differ.
* `EvictionNeedsCrowd`: the only way to a fresh burst is through as many other
  keys as the table holds.

### Chunker and Lexical

A line is its kind and its number of words, a text a sequence of lines, a part of a
text (section, paragraph, sentence) the set of the numbers of its lines; `Pack` puts
together what fits, sentences without overlap and paragraphs with it, and `Chunks` is
`chunk_document`. `Lexical` runs it on what its writers bring, and indexes
the result: `tokens`, `lens`, `df`, `avg` are the four fields of `BM25Index`,
`thread[w]` an ingest or erasure between two operations on a dict (each is one
step under the interpreter's lock): `+= 1` is two of them, a count of 0 is looked
at (`Drop`) and then deleted (`Delete`), and an average is a test, a sum, a number
and a store (`Test`, `SumUp`, `Divide`, `Store`). A KeyError, or a division by the number of
no chunks, ends the thread where it is. `mixed`, `lost` and `blank` are history:
documents two writers were in at once, terms whose count was written over, a sum
that was taken when there was no length.

* `SearchWorks`, `CountsExact` are what `search` takes for granted, stated for the
  state between writers. `SearchWorks` excepts `mixed` documents, and an average of 0
  where a sum was `blank`; `CountsExact` excepts terms that are `lost`, see section 6.
* `ArticlesKept`, `WithinBudget` are the promises of the chunker's head: checked for
  every text of up to four lines, proved for every text.

### Seeding

`cache[s]` is the file of a page, `registry[d]` what the corpus holds of a
document, both told apart by whether it is the page wanted, another one with its
phrases (*like*) or without (*wrong*), a part that verifies or one that does not;
`proc[p]` a process with what it has still to do and the pages it holds in memory.
Writing a file is two steps, of which the first empties it. The second may raise
(`WriteFails`), which is caught as a failed fetch: the part stays, and the run goes
on. `cut`, `raced` and `stirred` are history: pages whose writer died or whose write
raised, pages read while a scraper or its rival wrote them, seedings under which
another process wrote.

* `WholeUnlessCut`, `SeededIsCached`: what gets into the corpus, and that the
  excerpts and the official texts never both fail to.
* `FullUnlessStuck`: liveness of repeated deployments.

## 3. The runs

| run | question | bounds |
|---|---|---|
| `AnonQuota` | the gate, its books and its refinement | 1 key, 2 workers, cap 2, three days with retention 1 |
| `UserQuota` | the same through key changes and erasure | 1 user, 3 workers, cap 2 |
| `Conversations` | pairing, order, orphans, refinement | 2 chats, 2 workers, 3 turns |
| `Corpus` | three stores after any interleaving and failure | 2 documents, 2 jobs, texts of 2 and 1 chunks, 2 tenants |
| `Answering` | one question over every ranking and reply | 2 documents of 2 and 1 chunks, k = 2, caps 1 and 2, 2 tenants |
| `Database` | atomic and usable when unshared; wedged for good otherwise | 3 threads, 2 connections, 2 writes per operation |
| `Sessions` | one live token, no needless logout, no loop | 2 requests, 4 pairs, 2 accounts of one name |
| `Accounts` | admins, what outlives an account, audit rows | 2 names, 1 Google identity, 2 workers, 2 accounts, requests while there are fewer than 3 rows |
| `ChatPage` | answers in their chat, the thread kept and saved once | 2 handlers, 2 chats, 2 questions |
| `RateLimit` | both sides of the limit, evictions | 3 keys (1 in Redis), 2 buckets of 2 tokens, a token per 2 ticks, 7 ticks, skew 1 |
| `Lexical` | searches after parallel writers; every text through the chunker | 2 documents, 2 writers at a time, 1 and 2 operations, up to 4 lines, 3 words with overlap 1 |
| `Seeding` | whole pages, what a seeding leaves, completeness in the end | 3 processes, 1 law with its excerpt, an excerpt of no law, the calls, 1 death |

Why the bounds are enough. A race here is between one reader and one writer, so
two workers show every kind; the third in `UserQuota` shows that the overrun
grows by one per worker, and the theorems about the two gates say so for any
number. A cap of 2 separates "the first question" (INSERT) from "a later one"
(UPDATE). Three days with a retention of 1 let a row be swept while a worker
still holds it. Three turns are a question that is overtaken, one that
overtakes, and one asked when both are done. A text of 2 chunks followed by one
of 1 leaves a stale id behind. A document of 2 chunks under a cap of 1, with k = 2, makes the backfill of the cut
run. Four pairs are a login, a refresh, and both again after a new registration.
Two accounts registered ever are two first ones at once, or one name used twice;
two rows are one of each account, or of two kinds, and a request begun then may add
its own.
Two handlers of the page are an answer awaited and a click meanwhile; two
questions are one answered and one in its place. Three keys at a table of two evict,
and evict again a key that came back; seven ticks let a bucket of four expire
between two questions and refill in part. Four lines are a heading, a title, and
a paragraph that is too long on either side of a blank line; of the writers, one
has one operation to race the two of another, or any text of four lines. One law with its
excerpt and the calls are the two ways a part of a file reads (HTML may pass,
JSON does not) and the one replacement; one death leaves one part behind.
`LastDay`, `MaxTurns`, `MaxPairs`, `MaxBirths`, `MaxRows`, `MaxWrites`, `MaxTime`, `RedisKeys`, `MaxOps`,
`Base`, `Kept`, `TextsOf`, `ByHand` and `MaxDeaths` are bounds of the models only;
`Skew` and `Faults` are about the surroundings; all other constants are settings
of the code.

Types. `TypeOK` of a module (`UserTypeOK`, `SessionTypeOK`, `PageTypeOK` of those that
share a module of proofs) says what its variables range over. It is proved of every
module with a state (of `Lexical` as the parts `Shape` and `Types` of its invariants, of
`Seeding` as `SeedingTypes`), and checked by the runs of `Database` and `Accounts`, where
it holds more than types; elsewhere it is there to be read.

`CHECK_DEADLOCK FALSE` is set for `Conversations`, `Sessions`, `Accounts`, `RateLimit` and
`Lexical`: with the account closed, or the bound on turns, pairs, births, time or
operations used up, their models stop. No handler of these waits for another. The lock of
`Seeding` is waited for, and its run checks deadlock.

**Fairness.** Safety runs need none. `Sessions` assumes WF of each request's own
next step: a thread that has work is scheduled and a fetch that was sent is
answered or rejected; it assumes nothing about users, expiry or erasure, and not
that a request is ever lost. `Answering` assumes WF of the question's next step:
provider calls have a timeout and end in a reply or in `LLMUnavailableError`. In
neither does fairness choose between outcomes: `RequestsEnd` and `QuestionsEnd`
hold whichever way a server or a model answers. `Seeding` assumes four things: the
deployment's seeder is started again while it is down (the compose service runs
before every `up`); a process that can go on does (WF of `Work`); the kernel hands
the lock to each who waits at some time, though others come between (SF of `Lock`);
and a site that is asked again and again gives the page wanted some time (SF of
`Fetch`; without it there is no corpus to speak of). Deaths, skipped entries,
writes that fail and scrapers by hand may happen at any time, and are never made to.

**Mutants.** Each passing property has a mutant in its module, commented
`mutant of`: the definition as a plausible slip would have it (an upsert for an
INSERT, a dropped `revoked = 0`, a retry loop without its bound), under which
TLC must find the property violated.

## 4. The proofs

| theorem | says |
|---|---|
| `VisitorProofs!TypeCorrect` | types of `AnonQuota` |
| `VisitorProofs!OverrunBounded` | `Spec => []OverrunBound`, for any finite set of workers |
| `VisitorProofs!RefinesGate` | `Spec => GateSpec`: initial states map to initial states, every step to a step or a stutter |
| `VisitorProofs!LedgerBalances` | `Spec => []Ledger` of `AnonQuota` |
| `VisitorProofs!PageTyped` | types of `ChatPage`; whatever names a chat names one that was given |
| `VisitorProofs!AnswersInTheirChat` | `PageSpec => []ShownIsSaved`, for any handlers, chats and questions |
| `VisitorProofs!ThreadNotLost` | `PageSpec => []NothingLost` |
| `VisitorProofs!MessagesSavedOnce` | `PageSpec => []SavedOnce` |
| `VisitorProofs!OneQuestionPerChat` | `PageSpec => []OneAskPerChat` |
| `LimitsProofs!TypeCorrect` | types of `RateLimit`, and the range of levels and clocks |
| `LimitsProofs!WindowIsBounded` | `Spec => []WindowBound`, for any rate, burst, number of keys and skew |
| `LimitsProofs!BudgetIsOwn` | `Spec => []OwnBudget` |
| `LimitsProofs!EvictionsNeedCrowds` | `Spec => EvictionNeedsCrowd`, for any size of the table |
| `LimitsProofs!UserTypeCorrect` | types of `UserQuota` |
| `LimitsProofs!UserLedgerBalances` | `UserSpec => []Ledger` of `UserQuota`, through key changes and erasures |
| `LimitsProofs!UserOverrunBounded` | `UserSpec => []UserOverrun`: the lifetime cap is passed by at most one per further worker |
| `LimitsProofs!UserQuotaRefinesGate` | `UserSpec => GateSpec` |
| `StorageProofs!TypeCorrect` | types of `Database`, and the driver contract, however connections are shared |
| `StorageProofs!OwnIsAtomic` | `Spec => []AllOrNothing` |
| `StorageProofs!NeverWedged` | `Spec => []Usable` |
| `StorageProofs!WedgedForever` | `Spec => WedgeIsForever` |
| `StorageProofs!SessionsTyped` | types of `Sessions`; there are never more pairs than the model has numbers for |
| `StorageProofs!LoginsHoldOneToken` | `SessionSpec => []OneLiveToken`, for any finite set of requests |
| `StorageProofs!SessionsDroppedForAReason` | `SessionSpec => DroppedForAReason` |
| `DocumentsProofs!Typed` | types of `Corpus` |
| `DocumentsProofs!RegistryFollowed` | `Spec => []IndexesFollowRegistry`, for any documents, versions and jobs |
| `DocumentsProofs!CorpusWholeUnlessCut` | `SeedingSpec => []WholeUnlessCut`, for any pages and processes |
| `DocumentsProofs!SeedingEndsAsCached` | `SeedingSpec => []SeededIsCached` |
| `AccountsProofs!TypeCorrect` | types, and one account per Google identity |
| `AccountsProofs!FewAdmins` | `Spec => []AdminsBounded` |
| `AccountsProofs!NothingOutlives` | `Spec => []NothingOutlivesAccount` |
| `AccountsProofs!RowStaysOwn` | `Spec => []RowIsOwn` |
| `AccountsProofs!TrailIsForgotten` | `Spec => []TrailForgets` |
| `LexicalProofs!SearchesWork` | `Spec => []SearchWorks`, for any threads, documents and texts |
| `LexicalProofs!CountsAreExact` | `Spec => []CountsExact` |
| `LexicalProofs!ArticlesAreKept` | `Spec => []ArticlesKept`, for every text |
| `LexicalProofs!ChunksKeepBudget` | `Spec => []WithinBudget`, for every text, budget and overlap |
| `AnsweringProofs!Typed` | types, for any corpus, ranking and reply |
| `AnsweringProofs!Cited` | `Spec => []CitedOrHonest` |
| `AnsweringProofs!Scoped` | `Spec => []ScopeKept` |
| `AnsweringProofs!Bounded` | `Spec => []CallsBounded` |
| `AnsweringProofs!Diverse` | `Spec => []CutIsDiverse`, for any sizes and caps |
| `ConversationsProofs!Typed` | types |
| `ConversationsProofs!Ordered` | `Spec => []AnswersFollowQuestions`, for any chats and requests |
| `ConversationsProofs!Accounted` | `Spec => []OrphansComeFromRaces` |
| `ConversationsProofs!RefinesChat` | `Spec => ChatSpec` |

Every safety invariant and every action property of the runs is the statement of one
of them, and so are the three refinements.

They rest on the named assumptions about constants (`AnonAssumption`, `UserAssumption`,
`QuotaGate`'s constants as instantiated, `DatabaseAssumption`, `SessionsAssumption`,
`AccountsAssumption`, `RateAssumption`, `ChunkerAssumption`, `LexicalAssumption`,
`AnsweringAssumption`, `ConversationsAssumption`, `CorpusAssumption`, `SeedingAssumption`,
`ChatPageAssumption`) and on nothing else. Some of what these say is about the models:
that `None` is no tenant, reply, turn, row or chat, that threads, requests, and the
chunks registered at start are finitely many, that no process of `Seeding` is a seeder
and a scraper, and that texts are sequences of lines. `ChunkerAssumption` says
of the settings that the overlap is at least 1 and at most the budget. The bounds on
turns, pairs, deaths, documents and operations are any number; the only bound with a
meaning left in a theorem is that the chats, names and accounts of an execution come
from a given set.

*AnonQuota.* `OverrunBound` counts the counter together with the workers that
passed the check and have not yet charged, which makes it inductive given the
types: Pass moves a worker into the count only below the cap, a charge moves one
unit from the workers to the counter, and there are never more such workers than
there are workers. The refinement uses it at the one place where it matters:
when a charge is taken the counter is below cap + slack (`CheckedBelowCap`). For
`Ledger` the invariant is strengthened (`LedgerInv`): a captured row is never of
a later day than the clock, so a row that is recent has never been swept, and a
sweep can only take rows that are recent no longer.

*UserQuota.* The books are those of `AnonQuota` without days and with two more ways
out: a request may ask on its own key, which is charged nothing, and an erasure
forgets the charges of its user. `Ledger` is inductive once it is known that nobody is
charged before the write and that only requests on the free plan give back
(`NotYetCharged`); every action moves one request of one user, and what the counter
gains is what that request, the answers and the losses of the user gain. The overrun
is counted as above (`UserOverrun`), and is what the refinement needs at a charge.

*Database.* The strengthening says, for a thread that has its connection to
itself, what each program counter implies about connection, pending and durable
writes (`Local`), and that a thread's writes are only ever pending on its own
connection (`Home`). Steps of other threads do not touch any of it
(`OthersStay`), steps of its own keep it (`OwnStep`). `WedgedForever` is an
action property and needs only the types: no step of a thread outside
`transaction()` on Postgres closes a transaction.

*Sessions.* That a login has one valid row at most is not inductive: between the exchange
of a pair and the INSERT of the next it has none, and a second request that exchanged
too would lead to two. The invariant is that the right to continue a login is in one
place, its one valid row or the one request that took it (`OneRight`); `Swap` hands it
to the request, `IssueTokens` back to a row. `DroppedForAReason` is about a step taken
long after its reason was read: a pair once revoked or out of date stays so (`Kept`), so
what was worthless when the server refused it is worthless when the client drops it
(`Worthless`). A refresh that failed keeps out of this, whatever became of its token.

*Accounts.* `AdminsBounded` counts the admins together with the registrations
that found no user and have not yet inserted. A registration joins the latter
only while there is no account at all, and then there is no admin either, so the
count is at most the number of requests; an INSERT turns one of them into an
admin, and nothing else adds to the count (`AdminInv`). The other three are not
inductive. A request goes on under a name it was given earlier, and an erasure
trusts what it did three steps ago, so the invariant (`IInv`) says what these
beliefs are worth later: a request under a name is of the account that has it
now, or crossed (`Current`); a token in date is of the account that has its name, or
of one that is gone, and once the name is registered anew counts as outlived (`Held`),
and so does what a request sets a column by (`Set`); an erasure and any other request
under its name have crossed each other's account (`Alone`); the account an erasure finds at its last
step is the one it was asked to erase, or crossed (`Meant`); of that one the kinds
it has passed are gone (`Emptied`); and no birth number occurs under two names,
nor one from the future (`OneName`, `Past`), so removing rows by name removes all
of an account's. `EraseUser` is where everything is used: the account that goes
is `Meant`, hence `Emptied`, hence nothing outlives it.

*ChatPage.* A handler goes on after an await with what it held before, so for each place in
a handler the invariant says what that is worth against the page and the server as
they are by then. The answer awaited is of the chat on screen, or the turn is in `moved`
(`Awaited`). One sign-in runs at a time, and the thread it closed over is what the page
has but for turns in `overlap` (`OneSignIn`, `Noticed`, `Threads`), so what it imports and
clears is everything else. For `SavedOnce`, messages are told apart by their turns:
nothing was said yet of a turn still to be stored or answered (`Untold`), no message is in
two places, and what the page still holds was not imported, or the import that will
clear it is under way (`Anonymous`, `Once`). One question at a time
(`OneTurn`) rests on the composer, which is off exactly while one is under way
(`Composer`), unless one was asked while a chat was being created.

*RateLimit.* A bucket written when its writer's clock read `ts` holds, at true time
`now`, what `tokens - ts + now` says. Both sides of the limit are facts in which
time cancels out, so that only decisions can disturb them: what was taken since
any charge, together with what is left, is at most the burst and the refill
(`Upper`); since some charge it is at least that (`Lower`), and the level is never
below zero by more than the skew (`Floor`). All of this holds of the last snapshot of
Redis too (`Saved`), which is why going back to it breaks nothing. `Lower` has no case for a bucket
nothing was taken from, as the request that makes a bucket is let through. For
evictions, the table is in the order of last use: each key is followed by keys
that asked since (`Table`), so the first of a full table has all others in its
crowd.

*Lexical.* Between two steps of `add` a chunk has terms and no length (`HasLen`), or
no average (`HasAvg`), and then the writer that will supply it is under way; who is
about to store a sum of 0 took it when there was no length, which `blank` remembers
(`Zeroes`); a `remove` takes the length only of a chunk whose terms it took before (`Popped`).
Two writers that have a chunk in common are in one document (`Own`, `Meeting`),
which is then `mixed`. At rest no writer is under way, and what remains of the
invariant is the property. `CountsExact` needs the books of the counts: df of a term
and what writers have still to add (`Adders`) is the number of chunks that hold it
and what writers have still to take off (`Droppers`). Each step moves one unit
from one side to the other, or the writer was overtaken and the term is `lost`. That
needs to know whether a chunk at hand is indexed (`Knows`), which other writers
cannot change unless they share its document (`Apart`). The one step that is not
a move is `Delete`: it sets to 0 the count that was 0 or less when `Drop` looked. Either
the count is the one looked at, and then it is 0, since each writer with a count to
add has its own chunk in the index (`NotNegative`), and the deletion changes
nothing; or another writer wrote it in between, and the term is `lost`.

*Answering.* What the asker sees is not enough: an escalation that fails delivers the
answer it was meant to better, so whatever is kept for that must be fit to show
as well (`Texts`), and so must the chunks shown to a model, which come from the
registry under the asker's scope (`Shape`). `Costs` says what each pass has spent
at each program counter. `CutIsDiverse` is about one operator, `Pick`, and is proved
for any ranking from what `Firsts` takes: the position of a chunk among those of its
document (`Rank`) is below a number for as many of them as that number says
(`FirstsCount`), which is where the least element of a set of naturals is used.

*Conversations.* No chat is locked. What keeps an answer behind its question is that a
turn belongs to one request and one chat (`Turns`) and that a request writes its own
turn in its own order (`Progress`); for a chat nobody shared, that half a turn is the
last thing in it (`Alone`). Every step writes one message, begins a turn, deletes chats
or is quiet (`StepKinds`), and both the invariant and the refinement are proved
once for each kind. For the refinement, a write appends to what `_history` hands to
the model exactly the pair it completes, and nothing when it is a question.

*Corpus.* The property speaks of documents no job is at work on, so the invariant says
how far each job has come (`Done`). That is true of a job that is alone on its
document, and `Clean` says which are: a job that is not has marked its document
as torn, whoever came first. A step of one job touches no document but its own
(`LocalKeeps`), and a document whose job has not yet done anything still is as the
last one left it (`Untouched`). A crash tears the documents of jobs that were
half-way, and a restart rebuilds the lexical index from the registry, which is all
that a job that had saved its row still had to do.

*Seeding.* A part of a page comes into a file in one way, by a write that has emptied it and
not ended. Either its writer is still at it, or it died, raised or met a scraper, and
the page is in `cut` or `raced` (`ShortCached`). Seeders and boots are past the lock when they
write or read (`Held`), so what one reads while another writes it has from a scraper,
and a part that is put into the corpus is blamed on one (`PagesVerify`). For
`SeededIsCached` the invariant says what a process has done so far, group by group
(`Seeded`): the pages loaded and not yet put are those of the files, and the registry has
those put. Only a scraper can undo this, and marks the seeding as `stirred`.

*Chunker.* The properties are about operators, whatever the index does: what a writer
uploads is a text and its chunks (`Uploaded`). `Pack` and `FlattenSeq` fold over sequences,
and what a fold does to n items is shown by counting to n: a set of naturals has a
least element (`Least`), so a number that fails would have a first one before it
(`Climb`). The same argument shows that the recursive functions have solutions at all
(`FoldDefined`, `FlattenIs`, `PackIs`), without which CHOOSE says nothing about them. On
this rest four facts: the words of a part are those of its lines, in their order
(`WordsIn`, `WordsSorted`); runs that begin at every gap make up the whole part, and
contain no start but their own (`GapsCover`, `RunsCover`); packing neither loses nor adds
a word (`TakenAdds`); and a piece over the budget is one item behind the end of the
piece before (`TakenPacks`). For `ArticlesKept`, a line is in one section, whose
chunks carry the heading it starts with, if it has one (`SectionStarts`, `ChunkOver`). For
`WithinBudget`, an item over the budget is a sentence, and only a line that
passes for a title goes on in the next (`SplitMakes`, `SentenceKeeps`).

Only model-checked:

* liveness (`RequestsEnd`, `QuestionsEnd`, `FullUnlessStuck`), which needs reasoning
  about ENABLED the prover does not have.

The runs of `Database` use Postgres; the theorems hold for both backends.

## 5. What is abstracted, and what is not modelled

* Texts, questions, prompts and titles are tokens; a turn number stands for a
  question and its answer; an ingest is of a version. HTTP status codes are the
  branch taken.
* `remaining` and all routes that only read are left out, except where what they
  read decides a later write.
* An import is a sequence of question and answer pairs, which is what the page
  sends; the route accepts other orders.
* One user's chats, one account name: rows of different users never meet, since
  every statement names the user.
* An audit row of a login under a name nobody ever had is about nobody, and left out of
  `Accounts`; so is `DELETE /admin/tenants`. Each of the four erasures is one step
  there, though `erase_tenant` goes document by document: that is in `Corpus`.
* `Get` of `Conversations` is one step, and two SELECTs in the code
  (`core/conversations.py:71`, `:78`): a message saved in between would show as saved
  before both. A text that gives no chunk (`core/ingestion/chunker.py:72`) is not
  ingested in `Corpus`, whose texts have at least one.
* The page is not reloaded, one account signs in to it, and profile, key and
  account dialogs are left out; which tokens its calls carry is in `Sessions`.
* Several replicas with a lexical index each, a change of embedder (which drops
  the vector collection), broken Postgres connections, a SQLite file that is locked or
  full at the commit. A search that runs beside
  a writer is not a step of `Lexical`: what it may meet is in section 6.
* A word in `Lexical` is one of two terms, a chunk has a length or has none; scores
  and rank fusion are left out. A line of `Chunker` holds at most
  one sentence; one of prose ends it and one that passes for a title does not, so
  a sentence over two lines of prose, and a title that ends in `?` or `!`, are left out.
* In `Seeding` ingesting a document is one step (its inside is in `Corpus`), sites
  are external, throttling is left out, two processes that write one file at
  once leave the whole of one of the two, excerpts of national pages are the
  pages, and the snapshot of the calls has no date. Dry runs write caches as
  `StartScraper` does, and ingest nothing; they are left out.
* Admission checks (PII, Turnstile, Google), headers, cipher, profile, settings
  and the evaluation harness: functions of one request, or offline.
* `Answering` takes the ranking as given; a reranker, which reads the registry
  once more, only narrows it.

## 6. Where the code and its words differ

Seen while modelling, as steps of the models that no run is spent on. The first
five were confirmed by a run of the sentence quoted, or of a property without
the exception it makes, which TLC found violated:

* a DELETE cut between registry and vectors answers 404 when retried, and the
  vectors stay (`Drop`, `Abort`; `docs/SECURITY.md:255` "idempotent");
* a login typed with capitals is audited as typed, and the erasure rewrites only
  rows of the exact username (`Login`, `EraseUser`; `core/security/auth.py:11-12`
  "erase_user rewrites the `actor` of a deleted account's rows");
* an answer that arrives while the visitor signs in is neither imported nor kept
  (`Cleared`; `frontend/web/app/chat/page.tsx:145` "nothing is silently lost");
* an erasure that meets an ingest of the same document leaves a chunk with terms
  and without a length, or raises KeyError with half the chunks removed; from then
  on every search for a word of that chunk raises, until the server restarts
  (`Set`, `PopLen`; `core/retrieval/bm25.py:68`);
* two writers that count one term at once lose one of the two counts (`Increment`,
  `Decrement`), and with a count deleted too early the term is not found; a count that
  another writer raises between the check and the `del` is deleted all the same
  (`Drop`, `Delete`; `core/retrieval/bm25.py:48-49`);
* a `remove` that sums the lengths while another has emptied the index stores an
  average of 0 when a chunk is added before it divides (`SumUp`, `Store`;
  `core/retrieval/bm25.py:50-51`), and searches divide by it until the next average is
  stored; when none is added it divides by 0 chunks, and its erasure ends there
  (`Divide`);
* a page that is not the one wanted is skipped, but cached, and neither a seeder
  nor a scraper without `--force` asks for it again (`Cached`;
  `data/scrapers/eurlex.py:11-12` speaks of ingestion alone); a part of a page whose
  writer died verifies if its head does, and is ingested for the whole (`Dies`); so is
  a part left by a write that raised, which is reported as "fetch failed" and passed
  over (`WriteFails`; `data/scrapers/eurlex.py:336`);
* another page that holds the phrases is taken for the page (`Fetch` of a page that is
  *like* it; a phrase of `data/scrapers/portals.py` may be as short as "aws");
* a container seeds only while there is no registry, and opening the pipeline
  makes one: after a seeding that was killed, the next start serves what there is
  (`Start`; `docker-entrypoint.sh:2` "Seed the corpus on first boot (idempotent");
* a Redis that restarts has forgotten the script, and the limiter lets everything
  through until some process of the app starts (`AskOpen`; a Redis error is meant to
  be passed over, `api/middleware/ratelimit.py:117`, and this one is permanent).

Seen in the code, and outside the models: `--expect-docs 47` counts rows of the
registry, so an excerpt that stands in for a page, or a user's upload, counts
for a missing one (`data/seed.py:122`; `data/seed.py:6` "fail unless full corpus"); a
body cut short raises `IncompleteRead`, which `pull` does not catch, and ends the
seeding; a search beside a writer may raise RuntimeError (the dict it iterates over
changes size) or KeyError, or divide by the average of an index that was empty; a
chunk overlap of 0 would repeat the whole chunk (`[-0:]`,
`core/ingestion/chunker.py:111`); an article whose only line passes for a title has no
chunk (`core/ingestion/chunker.py:72`).

More of what the models show:

* two asks in one chat interleave their messages, so that `_history` hands the model
  a question with another one's answer (`SaveQuestion`, `SaveAnswer`; `ChatSpec`
  excepts such chats; `api/routes/conversations.py:154-155` "Messages
  alternate user then assistant");
* the rollback of one thread takes writes of another with it, whose commit then
  succeeds (`Rollback` on a shared connection; `AllOrNothing` is about others);
* a server error in answer to a refresh makes `init` drop a session whose refresh
  token is still good (`RefreshFails`; `frontend/web/lib/api.ts:92`,
  `frontend/web/app/chat/page.tsx:104`);
* `init` sends two requests at once; when both are refused the loser of the refresh
  makes it clear the pair the winner has just stored (`Forget`;
  `docs/DEVLOG.md:868` "transparent refresh-on-401");
* a bracketed number inside a quoted passage ships as a marker that nothing resolves
  (`Extractive`; `core/generation/citations.py:3`);
* first registrations in parallel all become admin (`CountUsers`;
  `core/security/auth.py:8` "first registered user is "admin", everyone after
  "user"");
* a request that runs across an erasure leaves its chat, document or counter under
  the name, sets columns of the next account's row, and writes audit rows with the
  name after they were rewritten (`Write`, `SetColumn`, `WriteAudit`);
* a login with the name of an erased account, or a refresh with its old token, writes
  the name into the trail again (`LoginNobody`, `Refuse`; `core/security/auth.py:217`,
  `:395`);
* an answer or an error is appended to whatever chat is on screen (`Answered`), a
  chat that was opened and is slow to come replaces one opened after it (`Opened`),
  and a question for which no chat could be created is dropped (`CreateFails`);
* an import whose answer is lost is stored again at the next sign-in (`Import`);
* the caps can be exceeded by one per further worker (`OverrunBound` is tight;
  `core/quota.py:52` "Atomically take one from today's allowance");
* a refund after midnight lowers the counter of the new day, or nothing
  (`RefundRow`; `core/quota.py:90`);
* an erased and registered name starts with a fresh allowance (`EraseCounter`;
  `core/quota.py:136-137` accepts it);
* the automatic title overwrites one the user chose during the call (`AutoTitle`;
  `api/routes/conversations.py:216`);
* an ask in flight saves its turns after the account is erased (`SaveQuestion`;
  `api/routes/account.py:100` "Erase the account and everything attached to it");
* an upload with title and source of another tenant's document takes it over
  (`Save` of `Corpus`; `core/registry.py:8-9`);
* a refresh that has found its user inserts a token after the erasure
  (`IssueTokens`; `core/security/auth.py:316-317`), and an access token outlives
  its account into the next one of that name, reads, writes and deletes it (`Serve`,
  `Act`, `Delete` of `Accounts`; `docs/SECURITY.md:43-45`);
* a Redis that goes back to an older snapshot gives again what was taken since
  (`RedisStarts`; `WindowBound` counts from the snapshot);
* on Postgres a second thread's statement between commit and `autocommit = True`
  leaves the connection in a transaction for good (`WedgeIsForever`);
* an escalation that finds no sources any more replaces the answer it was meant
  to better (`Settle`);
* a reply that is nothing but INSUFFICIENT_SOURCES ships as an empty refusal
  (`Accept`).

## 7. The plan

What is left, in this order.

1. `Fusion`: rank fusion of the two legs and of the parts of a question, as
   functions over bounded inputs against a reference definition, with the reranker's
   second read of the registry; composed with `Answering`.
2. `Accounts` with `DELETE /admin/tenants`, and an abstract specification it
   implements: an account and everything attached to it, gone in one step.
3. `Database` with a server that closes connections.
