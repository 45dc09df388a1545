------------------------------- MODULE Seeding -------------------------------
(***************************************************************************)
(* data/seed.py and data/scrapers: filling the page caches under data/raw  *)
(* and putting what verifies into the corpus.  Processes of three kinds    *)
(* share the caches and the registry: the seeder of a deployment fetches   *)
(* what is missing and seeds, a container that finds no registry seeds     *)
(* what is cached, both under a file lock; a scraper run by hand fetches   *)
(* or refetches pages and ingests them, and does not know the lock.        *)
(*                                                                         *)
(* A page is cached as it came, before it is verified, and a cached page   *)
(* is not fetched again except by a scraper with --force.  Writing a file  *)
(* empties it first: a reader, or the next run if the process dies or the  *)
(* write raises, finds a part of it; the error is taken for a failed fetch *)
(* and the run goes on.  Sites are external: any answer may be the page    *)
(* wanted, another page, or a failure, and another page may hold the       *)
(* phrases that are looked for.  Ingesting one document is one step here   *)
(* (Corpus has the inside); throttling and robots.txt are left out but for *)
(* the refusal, which is one of the failures.                              *)
(***************************************************************************)
EXTENDS Naturals, FiniteSets

CONSTANTS Seeders, Boots, Scrapers,  \* processes, by kind
          Laws, Portals, Calls,      \* SHORTLIST, REGISTRY, the snapshot of calls
          Samples,                   \* bundled excerpts
          Replaces,                  \* SUPERSEDED_BY_EURLEX: laws that replace some samples
          Nobody,
          ByHand,                    \* bound: what a scraper is run for
          MaxDeaths                  \* bound: processes that die

Procs   == Seeders \cup Boots \cup Scrapers
Group   == <<Laws, Portals, Calls>>  \* in the order they are pulled and seeded
Sources == Laws \cup Portals \cup Calls
AllDocs == Sources \cup Samples

ASSUME SeedingAssumption ==
  /\ Replaces \in [DOMAIN Replaces -> Laws] /\ DOMAIN Replaces \subseteq Samples
  /\ Sources \cap Samples = {}
  /\ Nobody \notin Procs /\ (Seeders \cup Boots) \cap Scrapers = {}
  /\ ByHand \subseteq Sources
  /\ MaxDeaths \in Nat

\* What a file or a document holds: the page wanted, another page with its phrases,
\* a part of either that verifies, a part that does not, a page without them, or
\* nothing at all.
Contents    == {"none", "whole", "like", "short", "junk", "wrong"}
Verifies(c) == c \in {"whole", "like", "short"}  \* document_from_html, document_from_calls

VARIABLES cache,     \* files under data/raw
          registry,  \* texts of the corpus by document
          known,     \* whether registry.sqlite3 exists
          lock,      \* holder of .seed.lock
          proc,      \* processes, see Out
          deaths,
          cut,       \* history: pages whose writer died over them, or whose write raised
          raced,     \* history: pages read half written with a scraper involved
          stirred    \* history: seedings under which another process wrote
seedingVars == <<cache, registry, known, lock, proc, deaths, cut, raced, stirred>>

\* pc; what is still to do; the group being loaded; pages in memory; --force
Blank == [s \in {} |-> "none"]
Out == [pc |-> "out", todo |-> {}, group |-> 0, page |-> Blank, force |-> FALSE]
Loading(g) == IF g <= 3 THEN [Out EXCEPT !.pc = "load", !.group = g] ELSE [Out EXCEPT !.pc = "count"]

SeedingInit ==
  /\ cache = [s \in Sources |-> "none"]
  /\ registry = [d \in AllDocs |-> "none"]
  /\ known = FALSE /\ lock = Nobody
  /\ proc = [p \in Procs |-> Out]
  /\ deaths = 0 /\ cut = {} /\ raced = {} /\ stirred = {}

ProcAt(p, pc) == proc[p].pc = pc
Goto(p, r)    == proc' = [proc EXCEPT ![p] = r]
Stir(p)     == stirred' = stirred \cup {q \in (Seeders \cup Boots) \ {p} : proc[q].pc \notin {"out", "lock"}}

\* A page is read while another process writes it.
Writing(q, s) == ProcAt(q, "write") /\ s \in DOMAIN proc[q].page
Torn(p, R) == {s \in R : /\ cache[s] = "short"
                         /\ \E q \in Procs \ {p} : Writing(q, s) /\ {p, q} \cap Scrapers # {}}
------------------------------------------------------------------------------
(* Starting *)

Start(p) ==  \* data.seed, the deployment's with --scrape
  /\ p \in Seeders \cup Boots /\ ProcAt(p, "out")
  /\ p \in Boots => ~known  \* docker-entrypoint.sh
  /\ Goto(p, [Out EXCEPT !.pc = "lock"])
  /\ UNCHANGED <<cache, registry, known, lock, deaths, cut, raced, stirred>>

StartScraper(p) ==  \* main of a scraper, for some of its entries
  /\ p \in Scrapers /\ ProcAt(p, "out")
  /\ \E g \in 1 .. 3, force \in BOOLEAN : \E todo \in SUBSET (Group[g] \cap ByHand) \ {{}} :
       Goto(p, [Out EXCEPT !.pc = "fill", !.todo = todo, !.force = force])
  /\ known' = TRUE
  /\ UNCHANGED <<cache, registry, lock, deaths, cut, raced, stirred>>

LockFree(p) == TRUE  \* mutant of Free: no lock is taken

Free(p) == lock = Nobody

Lock(p) ==
  /\ ProcAt(p, "lock") /\ Free(p)
  /\ lock' = p
  /\ Goto(p, IF p \in Seeders THEN [Out EXCEPT !.pc = "fill", !.todo = Sources]
             ELSE Loading(1))
  /\ UNCHANGED <<cache, registry, known, deaths, cut, raced, stirred>>
------------------------------------------------------------------------------
(* pull and fetch_calls: one entry after the other *)

\* The portals wait for the laws, the calls for both.
Turn(p, s) ==
  /\ ProcAt(p, "fill") /\ s \in proc[p].todo
  /\ \A g \in 1 .. 3 : s \in Group[g] => \A h \in 1 .. g - 1 : proc[p].todo \cap Group[h] = {}

\* With its last entry a scraper is done; the seeder begins to load.
After(p, s) ==
  IF proc[p].todo # {s} THEN [proc[p] EXCEPT !.pc = "fill", !.todo = @ \ {s}, !.page = Blank]
  ELSE IF p \in Scrapers THEN Out ELSE Loading(1)

Missing(p, s) == cache[s] = "none" \/ proc[p].force

\* An entry that needs no fetching: a scraper ingests it if it verifies.
Cached(p, s) ==
  /\ Turn(p, s) /\ ~Missing(p, s)
  /\ Goto(p, IF p \in Scrapers /\ Verifies(cache[s])
             THEN [proc[p] EXCEPT !.pc = "put", !.page = [x \in {s} |-> cache[x]]]
             ELSE After(p, s))
  /\ raced' = raced \cup (IF p \in Scrapers THEN Torn(p, {s}) ELSE {})
  /\ UNCHANGED <<cache, registry, known, lock, deaths, cut, stirred>>

\* The site answered: the file is emptied, and holds a part of the answer; a
\* part of a page may pass for the page, a part of the calls' JSON does not parse.
Fetch(p, s, answer) ==
  /\ Turn(p, s) /\ Missing(p, s)
  /\ \E part \in {"junk"} \cup (IF Verifies(answer) /\ s \notin Calls THEN {"short"} ELSE {}) :
       cache' = [cache EXCEPT ![s] = part]
  /\ Goto(p, [proc[p] EXCEPT !.pc = "write", !.page = [x \in {s} |-> answer]])
  /\ Stir(p)
  /\ UNCHANGED <<registry, known, lock, deaths, cut, raced>>

\* No answer, robots.txt forbids to ask, or the file cannot be opened: the entry is
\* skipped.
Skip(p, s) ==
  /\ Turn(p, s) /\ Missing(p, s)
  /\ Goto(p, After(p, s))
  /\ UNCHANGED <<cache, registry, known, lock, deaths, cut, raced, stirred>>

\* The file is complete; then a scraper ingests the answer if it verifies.
Written(p) ==
  /\ ProcAt(p, "write")
  /\ LET s == CHOOSE x \in Sources : x \in DOMAIN proc[p].page
         a == proc[p].page[s] IN
     /\ cache' = [cache EXCEPT ![s] = a]
     /\ Goto(p, IF p \in Scrapers /\ Verifies(a) THEN [proc[p] EXCEPT !.pc = "put"]
                ELSE After(p, s))
  /\ Stir(p)
  /\ UNCHANGED <<registry, known, lock, deaths, cut, raced>>

\* write_text raises with a part of the answer in the file.  The OSError is caught
\* as one of the fetch: the entry is skipped, and the run goes on.
WriteFails(p) ==
  /\ ProcAt(p, "write")
  /\ LET s == CHOOSE x \in Sources : x \in DOMAIN proc[p].page IN
     /\ cut' = cut \cup {s}
     /\ Goto(p, After(p, s))
  /\ UNCHANGED <<cache, registry, known, lock, deaths, raced, stirred>>

\* A scraper's documents go into the corpus as they come.
PutScraped(p) ==
  /\ p \in Scrapers /\ ProcAt(p, "put")
  /\ LET s == CHOOSE x \in Sources : x \in DOMAIN proc[p].page IN
     /\ registry' = [registry EXCEPT ![s] = proc[p].page[s]]
     /\ Goto(p, After(p, s))
  /\ Stir(p)
  /\ UNCHANGED <<cache, known, lock, deaths, cut, raced>>

------------------------------------------------------------------------------
(* seed *)

\* load_cached_documents: the pages of a group that verify.
Loaded(g) == {s \in Group[g] : Verifies(cache[s])}

ExcerptsByFile(laws) ==  \* mutant of Excerpts: a cached page replaces one, verified or not
  {x \in Samples : x \in DOMAIN Replaces => cache[Replaces[x]] = "none"}

\* Excerpts are left out where the official text is there.
Excerpts(laws) == {x \in Samples : x \in DOMAIN Replaces => Replaces[x] \notin laws}

Load(p) == LET g == proc[p].group
               S == Loaded(g)
               todo == S \cup (IF g = 1 THEN Excerpts(S) ELSE {}) IN
  /\ ProcAt(p, "load")
  /\ Goto(p, IF todo = {} THEN Loading(g + 1)
             ELSE [proc[p] EXCEPT !.pc = "put", !.todo = todo, !.page = [s \in S |-> cache[s]]])
  /\ known' = TRUE  \* Pipeline() opened it
  /\ raced' = raced \cup Torn(p, Group[g])
  /\ UNCHANGED <<cache, registry, lock, deaths, cut, stirred>>

\* The excerpts first.  A document whose text is the one in the registry is skipped,
\* which changes nothing.
PutLoaded(p, d) ==
  /\ p \notin Scrapers /\ ProcAt(p, "put") /\ d \in proc[p].todo
  /\ d \in Samples \/ proc[p].todo \cap Samples = {}
  /\ registry' = [registry EXCEPT ![d] = IF d \in Samples THEN "whole" ELSE proc[p].page[d]]
  /\ Goto(p, IF proc[p].todo = {d} THEN Loading(proc[p].group + 1)
             ELSE [proc[p] EXCEPT !.todo = @ \ {d}])
  /\ Stir(p)
  /\ UNCHANGED <<cache, known, lock, deaths, cut, raced>>

UnlockedAtEnd(p) ==  \* mutant of Unlocked: only a seeding that ends well frees it
  IF lock = p /\ ProcAt(p, "count") THEN Nobody ELSE lock

\* main closes the lock file, whatever happened; --expect-docs only sets the exit code.
Unlocked(p) == IF lock = p THEN Nobody ELSE lock

Finish(p) ==
  /\ ProcAt(p, "count")
  /\ lock' = Unlocked(p)
  /\ stirred' = stirred \ {p}
  /\ Goto(p, Out)
  /\ UNCHANGED <<cache, registry, known, deaths, cut, raced>>

\* Killed, or an exception no handler expects, which a body cut short raises.
Dies(p) ==
  /\ deaths < MaxDeaths /\ ~ProcAt(p, "out")
  /\ deaths' = deaths + 1
  /\ cut' = cut \cup (IF ProcAt(p, "write") THEN DOMAIN proc[p].page ELSE {})
  /\ lock' = Unlocked(p)
  /\ stirred' = stirred \ {p}
  /\ Goto(p, Out)
  /\ UNCHANGED <<cache, registry, known, raced>>

Work(p) ==
  \/ \E s \in Sources : \/ Cached(p, s) \/ Skip(p, s)
                        \/ \E answer \in {"whole", "like", "wrong"} : Fetch(p, s, answer)
  \/ Written(p) \/ PutScraped(p)
  \/ Load(p) \/ Finish(p)
  \/ \E d \in AllDocs : PutLoaded(p, d)

SeedingNext == \E p \in Procs :
  Start(p) \/ StartScraper(p) \/ Lock(p) \/ Work(p) \/ WriteFails(p) \/ Dies(p)

SeedingSpec == SeedingInit /\ [][SeedingNext]_seedingVars

\* A deployment that is not complete is started again; a process that can go on
\* does; a lock that is freed again and again reaches each who waits; and a
\* site that is asked again and again answers with the page at some time.
FairSpec ==
  /\ SeedingSpec
  /\ \A p \in Seeders : WF_seedingVars(Start(p))
  /\ \A p \in Procs : WF_seedingVars(Work(p))
  /\ \A p \in Seeders \cup Boots : SF_seedingVars(Lock(p))
  /\ \A s \in Sources : SF_seedingVars(\E p \in Procs : Fetch(p, s, "whole"))
------------------------------------------------------------------------------
(* Properties *)

\* "A CELEX that resolves to the wrong law is reported and skipped, never
\* ingested" (eurlex.py:11-12) as far as the phrases tell: no text in the corpus is
\* of a page without them, though such a page stays cached and is read by every
\* later run.  And a text in the corpus is a page as it was served, whole, unless
\* a process died while it wrote the file (eurlex.py:277, common.py:85), the write
\* raised, or a scraper, which takes no lock, met another writer or reader of it.
WholeUnlessCut ==
  \A s \in Sources : /\ registry[s] \in {"none", "short", "like", "whole"}
                     /\ registry[s] = "short" => s \in cut \cup raced

\* A seeding under which nobody else wrote ends with the corpus that the caches
\* say: every page that verifies, as it is cached, and an excerpt for each law
\* that does not and for what no law replaces (seed.py:38-56), whatever crashes,
\* failed writes and other runs left behind.
SeededIsCached ==
  \A p \in Procs \ stirred : ProcAt(p, "count") =>
    /\ \A s \in Sources : Verifies(cache[s]) => registry[s] = cache[s]
    /\ \A x \in Samples : \/ x \in DOMAIN Replaces /\ Verifies(cache[Replaces[x]])
                          \/ registry[x] # "none"

\* A deployment started again and again has the whole corpus in the end, failing
\* sites and deaths notwithstanding, unless a page that is not the one wanted, or
\* a part of one, was cached: that is not fetched again (eurlex.py:261-264), and one
\* that holds the phrases is taken for the page.
Full  == \A s \in Sources : registry[s] = "whole"
Stuck == cut # {} \/ \E s \in Sources : cache[s] \in {"like", "wrong"}
FullUnlessStuck == <>Full \/ <>Stuck

==============================================================================
