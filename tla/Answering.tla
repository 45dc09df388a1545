------------------------------ MODULE Answering ------------------------------
(***************************************************************************)
(* One question through the pipeline: Pipeline.query and _answer           *)
(* (core/pipeline.py), the cut to k chunks of HybridRetriever              *)
(* (core/retrieval/hybrid_retriever.py), the registry's tenant gate and    *)
(* answer_question (core/generation/answerer.py).  Questions share nothing *)
(* but the corpus, so one at a time is modelled; documents come, change    *)
(* hands and go at any moment of it.                                       *)
(*                                                                         *)
(* A text is what the answerer looks at: a model's reply is the set of     *)
(* source markers in it, whether it holds INSUFFICIENT_SOURCES and whether *)
(* it is short; a chunk is the set of bracketed numbers it quotes.  How    *)
(* the lexical and the semantic leg rank is left open: a ranking is any    *)
(* sequence of chunk ids, registered or not, of any tenant, since the      *)
(* lexical index is global and both indexes may be stale.  With a reranker *)
(* the ranking has been through get_chunks once, a special case.           *)
(***************************************************************************)
EXTENDS Naturals, Sequences, FiniteSets, Functions

CONSTANTS Docs,
          Size,       \* Size[d]: chunks of document d
          Quotes,     \* Quotes[c]: bracketed numbers in the head of chunk c
          Tenants,
          Scope,      \* the tenants the asker may read
          TopK, DeepK,        \* top_k and escalation_top_k
          Cap, DeepCap,       \* max_per_doc of the two passes: 2 and 6
          Rewrites, Decomposes, Expands,  \* which helper models are configured
          None

Ids     == UNION {{d} \X (1 .. Size[d]) : d \in Docs}
Markers == 1 .. DeepK + 1   \* bound: the last one resolves to no source

VARIABLES reg,      \* reg[d]: the tenant of registered document d, or None
          pc,       \* where the question is, "idle" between questions
          clients,  \* the clients of its plan, for answering and for escalation
          ranked,   \* the ranking retrieval has to cut
          sources,  \* the chunks shown to the model, with the tenant each was read under
          tries,    \* generations tried in this pass
          primary,  \* the answer an escalation wants to better, or None
          outcome,  \* what the asker got for the latest question
          calls     \* model calls made for it
vars == <<reg, pc, clients, ranked, sources, tries, primary, outcome, calls>>

Source == [id : Ids, tenant : Tenants]
\* cites: the sources listed as citations; open: the text has a marker that none of
\* them resolves
Modes   == {"llm", "extractive", "no_sources", "smalltalk"}
Answer  == [mode : Modes, cites : SUBSET Source, open : BOOLEAN,
            insufficient : BOOLEAN, escalated : BOOLEAN]
\* An answer, LLMUnavailableError or any other exception.
Outcome == Answer \cup [mode : {"unavailable", "error"}]
Clients == [answer : {"model", "extractive"}, escalation : {"model", "extractive", "none"}]

ASSUME AnsweringAssumption ==
  /\ Size \in [Docs -> Nat]
  /\ Quotes \in [Ids -> SUBSET Markers]
  /\ Scope \subseteq Tenants /\ None \notin Tenants \cup Answer
  /\ TopK \in Nat \ {0} /\ DeepK \in Nat /\ TopK <= DeepK
  /\ Cap \in Nat \ {0} /\ DeepCap \in Nat \ {0}
  /\ {Rewrites, Decomposes, Expands} \subseteq BOOLEAN

Rankings == UNION {{s \in [1 .. n -> Ids] : \A i, j \in 1 .. n : s[i] = s[j] => i = j} :
                     n \in 0 .. Cardinality(Ids)}

TypeOK ==
  /\ reg \in [Docs -> Tenants \cup {None}]
  /\ pc \in {"idle", "rewrite", "retrieve", "cut", "generate"}
  /\ clients \in Clients
  /\ ranked \in Seq(Ids) /\ IsInjective(ranked)
  /\ sources \in Seq(Source) /\ Len(sources) <= DeepK
  /\ tries \in 0 .. 1
  /\ primary \in Answer \cup {None}
  /\ outcome \in Outcome \cup {None}
  /\ calls \in Nat

Init ==
  /\ reg \in [Docs -> Tenants \cup {None}]
  /\ pc = "idle" /\ clients = [answer |-> "model", escalation |-> "none"]
  /\ ranked = <<>> /\ sources = <<>> /\ tries = 0
  /\ primary = None /\ outcome = None /\ calls = 0

Deep   == primary # None
Client == IF Deep THEN clients.escalation ELSE clients.answer
Bound  == IF Deep THEN DeepK ELSE TopK
PerDoc == IF Deep THEN DeepCap ELSE Cap

------------------------------------------------------------------------------
(* HybridRetriever.retrieve_scored *)

\* Of the ids in ranking s, those with fewer than cap of their document before them.
Within(s, cap) == {i \in DOMAIN s : Cardinality({j \in 1 .. i - 1 : s[j][1] = s[i][1]}) < cap}

\* How many of the positions P come before i.
Rank(i, P) == Cardinality({j \in P : j < i})

\* The elements of s at the first n of the positions P.
Firsts(s, P, n) ==
  LET Q == {i \in P : Rank(i, P) < n}
  IN  [r \in 1 .. Cardinality(Q) |-> s[CHOOSE i \in Q : Rank(i, Q) = r - 1]]

PickByRank(s, k, cap) == Firsts(s, DOMAIN s, k)  \* mutant of Pick: the cap dropped

\* At most cap chunks of a document; then, if that makes fewer than k, the others.
Pick(s, k, cap) ==
  LET picked == Firsts(s, Within(s, cap), k)
  IN  picked \o Firsts(s, DOMAIN s \ Within(s, cap), k - Len(picked))

------------------------------------------------------------------------------
(* answer_question *)

\* _extractive_answer: the first three chunks verbatim, each with its marker.
Quoted(src) == LET shown == 1 .. (IF Len(src) < 3 THEN Len(src) ELSE 3) IN
  shown \cup UNION {Quotes[src[i].id] : i \in shown}

Reading(src, used) == {src[i] : i \in used \cap DOMAIN src}

Extractive(src, lacking) ==
  [mode |-> "extractive", cites |-> Reading(src, Quoted(src)),
   open |-> ~(Quoted(src) \subseteq DOMAIN src), insufficient |-> lacking, escalated |-> FALSE]

\* A reply of the model: lacking when INSUFFICIENT_SOURCES is in it.
Replies == [used : SUBSET Markers, lacking : BOOLEAN, short : BOOLEAN]

AcceptShort(r, src) ==  \* mutant of Accept: "and not used" dropped
  \/ r.used # {} /\ r.used \subseteq DOMAIN src
  \/ r.lacking /\ r.short

\* validate_answer, or an honest refusal.
Accept(r, src) ==
  \/ r.used # {} /\ r.used \subseteq DOMAIN src
  \/ r.lacking /\ r.used = {} /\ r.short

Generated(r, src) ==
  [mode |-> "llm", cites |-> Reading(src, r.used), open |-> ~(r.used \subseteq DOMAIN src),
   insufficient |-> r.lacking, escalated |-> FALSE]

NoSources == [mode |-> "no_sources", cites |-> {}, open |-> FALSE,
              insufficient |-> TRUE, escalated |-> FALSE]

Smalltalk == [mode |-> "smalltalk", cites |-> {}, open |-> FALSE,
              insufficient |-> FALSE, escalated |-> FALSE]

------------------------------------------------------------------------------
(* Pipeline.query *)

\* The question is over with outcome o.
Deliver(o) ==
  /\ pc' = "idle" /\ outcome' = o
  /\ ranked' = <<>> /\ sources' = <<>> /\ tries' = 0
  /\ UNCHANGED <<reg, clients>>

\* The pass in hand ends with answer a: a poor one is escalated, once.
Settle(a) ==
  \/ /\ ~Deep /\ a.insufficient /\ a.mode # "no_sources" /\ clients.escalation # "none"
     /\ primary' = a
     /\ pc' = "retrieve" /\ ranked' = <<>> /\ sources' = <<>> /\ tries' = 0
     /\ UNCHANGED <<reg, clients, outcome>>
  \/ /\ ~Deep /\ ~(a.insufficient /\ a.mode # "no_sources" /\ clients.escalation # "none")
     /\ Deliver(a) /\ UNCHANGED primary
  \/ /\ Deep
     /\ Deliver([a EXCEPT !.escalated = TRUE]) /\ UNCHANGED primary

\* A question arrives, on some plan and with or without turns before it.
Ask ==
  /\ pc = "idle"
  /\ clients' \in Clients
  /\ \/ pc' = "retrieve"
     \/ Rewrites /\ pc' = "rewrite"
  /\ primary' = None /\ outcome' = None /\ calls' = 0
  /\ UNCHANGED <<reg, ranked, sources, tries>>

\* is_smalltalk: answered before anything else.
Greet ==
  /\ pc = "idle"
  /\ outcome' = Smalltalk /\ primary' = None /\ calls' = 0
  /\ UNCHANGED <<reg, pc, clients, ranked, sources, tries>>

\* standalone: a failure leaves the question as it is.
Rewrite ==
  /\ pc = "rewrite"
  /\ pc' = "retrieve" /\ calls' = calls + 1
  /\ UNCHANGED <<reg, clients, ranked, sources, tries, primary, outcome>>

\* The question, and two or three parts of it when the decomposer finds them, are
\* expanded and ranked each; neither helper fails the question.
Retrieve ==
  /\ pc = "retrieve"
  /\ ranked' \in Rankings
  /\ \E n \in IF Decomposes THEN {1, 3, 4} ELSE {1} :
       calls' = calls + (IF Decomposes THEN 1 ELSE 0) + (IF Expands THEN n ELSE 0)
  /\ pc' = "cut"
  /\ UNCHANGED <<reg, clients, sources, tries, primary, outcome>>

ReadAny(ids) ==  \* mutant of Read: the tenant gate is left to the indexes
  LET found == Firsts(ids, {i \in DOMAIN ids : reg[ids[i][1]] # None}, Len(ids))
  IN  [i \in DOMAIN found |-> [id |-> found[i], tenant |-> reg[found[i][1]]]]

\* Registry.get_chunks, scoped to the asker's tenants
Read(ids) ==
  LET found == Firsts(ids, {i \in DOMAIN ids : reg[ids[i][1]] \in Scope}, Len(ids))
  IN  [i \in DOMAIN found |-> [id |-> found[i], tenant |-> reg[found[i][1]]]]

\* The cut, the read, and what needs no model.
Cut ==
  /\ pc = "cut"
  /\ \E picked \in {Pick(ranked, Bound, PerDoc)} : \E src \in {Read(picked)} :
       \/ src = <<>> /\ Settle(NoSources)
       \/ src # <<>> /\ Client = "extractive" /\ Settle(Extractive(src, FALSE))
       \/ /\ src # <<>> /\ Client = "model"
          /\ pc' = "generate" /\ sources' = src /\ ranked' = <<>>
          /\ UNCHANGED <<reg, clients, tries, primary, outcome>>
  /\ UNCHANGED calls

GenerateUntilValid(r) ==  \* mutant of Generate: range(2) becomes a loop
  /\ pc = "generate"
  /\ calls' = IF calls < 20 THEN calls + 1 ELSE calls
  /\ \/ Accept(r, sources) /\ Settle(Generated(r, sources))
     \/ /\ ~Accept(r, sources)
        /\ tries' = 1 - tries
        /\ UNCHANGED <<reg, pc, clients, ranked, sources, primary, outcome>>

GenerateForever(r) ==  \* mutant of Generate: the same loop, its calls not counted
  /\ pc = "generate" /\ calls' = calls
  /\ \/ Accept(r, sources) /\ Settle(Generated(r, sources))
     \/ /\ ~Accept(r, sources)
        /\ tries' = 1 - tries
        /\ UNCHANGED <<reg, pc, clients, ranked, sources, primary, outcome>>

\* One completion: accepted, tried again, or given up for verbatim quotes.
Generate(r) ==
  /\ pc = "generate"
  /\ calls' = calls + 1
  /\ \/ Accept(r, sources) /\ Settle(Generated(r, sources))
     \/ /\ ~Accept(r, sources) /\ tries = 0
        /\ tries' = 1
        /\ UNCHANGED <<reg, pc, clients, ranked, sources, primary, outcome>>
     \/ ~Accept(r, sources) /\ tries = 1 /\ Settle(Extractive(sources, TRUE))

\* LLMUnavailableError: the primary answer stands, if there is one.
Unavailable ==
  /\ pc = "generate" /\ calls' = calls + 1
  /\ Deliver(IF Deep THEN primary ELSE [mode |-> "unavailable"])
  /\ UNCHANGED primary

\* A store that fails, or a programming error, ends the question with a 500.
Break ==
  /\ pc \in {"retrieve", "cut", "generate"}
  /\ Deliver([mode |-> "error"])
  /\ UNCHANGED <<primary, calls>>

------------------------------------------------------------------------------
(* The corpus *)

\* Registry.save and delete_document, as far as a reader can tell
Save(d, t) ==
  /\ reg[d] # t
  /\ reg' = [reg EXCEPT ![d] = t]
  /\ UNCHANGED <<pc, clients, ranked, sources, tries, primary, outcome, calls>>

Step == \/ Rewrite \/ Retrieve \/ Cut \/ Unavailable \/ Break
        \/ \E r \in Replies : Generate(r)

Next == Ask \/ Greet \/ Step \/ \E d \in Docs, t \in Tenants \cup {None} : Save(d, t)

Spec == Init /\ [][Next]_vars

\* A question under way is carried on with.
FairSpec == Spec /\ WF_vars(Step)

------------------------------------------------------------------------------
(* Properties *)

Answered == outcome # None /\ outcome.mode \in Modes

\* Cite or fail: an answer in a model's words cites a source and has no marker
\* without one, or says that the sources do not do and has no marker at all.
CitedOrHonest ==
  Answered /\ outcome.mode = "llm" =>
    ~outcome.open /\ (outcome.cites = {} => outcome.insufficient)

\* Nobody is shown a source of a tenant outside their scope, whatever the indexes
\* still hold and whoever takes documents over meanwhile.
ScopeKept == Answered => \A s \in outcome.cites : s.tenant \in Scope

\* A question costs a bounded number of model calls.
CallsBounded ==
  calls <= (IF Rewrites THEN 1 ELSE 0)
           + 2 * (2 + (IF Decomposes THEN 1 ELSE 0)
                    + (IF Expands THEN IF Decomposes THEN 4 ELSE 1 ELSE 0))

\* The cut takes as many as it may, and over the cap of one document only when no
\* other document has a chunk left that is within it.
CutIsDiverse == pc = "cut" =>
  LET p == Pick(ranked, Bound, PerDoc)
      Picked(d) == Cardinality({i \in DOMAIN p : p[i][1] = d})
      Left(d)   == Cardinality({i \in DOMAIN ranked : ranked[i][1] = d}) - Picked(d)
  IN  /\ IsInjective(p) /\ Range(p) \subseteq Range(ranked)
      /\ Len(p) = IF Len(ranked) < Bound THEN Len(ranked) ELSE Bound
      /\ \A d, e \in Docs : Picked(d) > PerDoc /\ Left(e) > 0 => Picked(e) >= PerDoc

\* Every question ends.
QuestionsEnd == pc # "idle" ~> pc = "idle"
==============================================================================
