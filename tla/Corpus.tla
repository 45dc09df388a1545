------------------------------- MODULE Corpus --------------------------------
(***************************************************************************)
(* The documents of one api process and the three places that hold them:   *)
(* the registry (core/registry.py, the system of record), the vector store *)
(* (core/retrieval/vector_store.py) and the in-memory lexical index        *)
(* (core/retrieval/bm25.py).  core/pipeline.py writes them one after the   *)
(* other, with no transaction around the three, for POST /ingest,          *)
(* DELETE /documents/{id}, DELETE /admin/tenants/{t} and the document step *)
(* of DELETE /account.                                                     *)
(*                                                                         *)
(* A version stands for a text and its hash; it is cut into Sizes[version] *)
(* chunks with the ids doc:1, doc:2, ...  Texts the PII gate or            *)
(* make_document refuses leave no trace and are left out, and so is an     *)
(* ingest that finds its hash in the registry.  The loops over the lexical *)
(* index are one step each.                                                *)
(***************************************************************************)
EXTENDS Integers, FiniteSets

CONSTANTS Workers,  \* requests that can be in flight together
          Docs,     \* document ids: a digest of source_url and title, no tenant in it
          Sizes,    \* Sizes[v]: the number of chunks of version v
          Tenants, Public,
          Faults,   \* whether store calls may fail and the process may die
          None      \* no row

Versions == DOMAIN Sizes

Rows     == [version : Versions, tenant : Tenants]

ASSUME CorpusAssumption ==
  /\ Versions \subseteq Nat /\ Sizes \in [Versions -> Nat \ {0}]
  /\ Public \in Tenants /\ Faults \in BOOLEAN
  /\ None \notin Rows

VARIABLES reg,    \* reg[d]: version and tenant of the registered document, or None
          vec,    \* the points of the vector store
          words,  \* the entries of the lexical index
          up,     \* the process runs
          job,    \* job[w]: the ingest or the erasure of worker w
          torn    \* history: documents whose last change was cut short or overlapped
vars == <<reg, vec, words, up, job, torn>>

Idle      == [pc |-> "idle"]
Ingesting == [pc : {"hashed", "cleared", "upserted", "saved"}, doc : Docs,
              version : Versions, tenant : Tenants, clean : BOOLEAN]
Erasing   == [pc : {"next"}, todo : SUBSET Docs] \cup
             [pc : {"dropped", "wiped"}, doc : Docs, todo : SUBSET Docs, clean : BOOLEAN]

\* An entry replaces the one with the same chunk id: a point's id is a digest
\* of it, and add removes it first.
Put(S, T)   == T \cup {e \in S : \A f \in T : <<f.doc, f.at>> # <<e.doc, e.at>>}
Without(S, d) == {e \in S : e.doc # d}
Of(S, d)    == {e \in S : e.doc = d}

Points(d, v, t) == {[doc |-> d, at |-> i, version |-> v, tenant |-> t] : i \in 1 .. Sizes[v]}
Terms(d, v)     == {[doc |-> d, at |-> i, version |-> v] : i \in 1 .. Sizes[v]}

\* Types, and that both indexes hold at most one entry for a chunk id.
TypeOK ==
  /\ reg \in [Docs -> Rows \cup {None}]
  /\ vec \subseteq [doc : Docs, at : Nat \ {0}, version : Versions, tenant : Tenants]
  /\ words \subseteq [doc : Docs, at : Nat \ {0}, version : Versions]
  /\ \A S \in {vec, words} : \A e, f \in S : e.doc = f.doc /\ e.at = f.at => e = f
  /\ up \in BOOLEAN
  /\ job \in [Workers -> {Idle} \cup Ingesting \cup Erasing]
  /\ torn \subseteq Docs

Busy(d) == {w \in Workers : job[w].pc \notin {"idle", "next"} /\ job[w].doc = d}

Init ==
  /\ reg = [d \in Docs |-> None] /\ vec = {} /\ words = {}
  /\ up = TRUE
  /\ job = [w \in Workers |-> Idle]
  /\ torn = {}

\* Worker w sets to work on d; jobs that meet on a document are not clean.
Begin(w, d, j) ==
  /\ job' = [u \in Workers |-> IF u = w THEN [j EXCEPT !.clean = Busy(d) = {}]
                               ELSE IF u \in Busy(d) THEN [job[u] EXCEPT !.clean = FALSE]
                               ELSE job[u]]
  /\ torn' = IF Busy(d) = {} THEN torn ELSE torn \cup {d}

At(w, pc) == job[w].pc = pc
Go(w, pc) == job' = [job EXCEPT ![w].pc = pc]
Mend(w)   == torn' = IF job[w].clean THEN torn \ {job[w].doc} ELSE torn

------------------------------------------------------------------------------
(* Pipeline.ingest *)

\* The hash is not the registered one: the text is chunked and embedded.
Ingest(w, d, v, t) ==
  /\ up /\ At(w, "idle")
  /\ ~(reg[d] # None /\ reg[d].version = v)
  /\ Begin(w, d, [pc |-> "hashed", doc |-> d, version |-> v, tenant |-> t, clean |-> TRUE])
  /\ UNCHANGED <<reg, vec, words, up>>

ClearNothing(w) ==  \* mutant of Clear: upsert is trusted to replace
  /\ At(w, "hashed")
  /\ Go(w, "cleared")
  /\ UNCHANGED <<reg, vec, words, up, torn>>

Clear(w) ==
  /\ At(w, "hashed")
  /\ vec' = Without(vec, job[w].doc)
  /\ Go(w, "cleared")
  /\ UNCHANGED <<reg, words, up, torn>>

Upsert(w) ==
  /\ At(w, "cleared")
  /\ vec' = Put(vec, Points(job[w].doc, job[w].version, job[w].tenant))
  /\ Go(w, "upserted")
  /\ UNCHANGED <<reg, words, up, torn>>

\* Row and chunks are replaced in one transaction, whoever's the row was.
Save(w) ==
  /\ At(w, "upserted")
  /\ reg' = [reg EXCEPT ![job[w].doc] = [version |-> job[w].version, tenant |-> job[w].tenant]]
  /\ Go(w, "saved")
  /\ Mend(w)
  /\ UNCHANGED <<vec, words, up>>

\* The chunk ids the new version no longer has stay in the index.
Index(w) ==
  /\ At(w, "saved")
  /\ words' = Put(words, Terms(job[w].doc, job[w].version))
  /\ job' = [job EXCEPT ![w] = Idle]
  /\ UNCHANGED <<reg, vec, up, torn>>

------------------------------------------------------------------------------
(* Pipeline.erase_document and erase_tenant *)

Erase(w, D) ==
  /\ up /\ At(w, "idle") /\ D # {}
  /\ job' = [job EXCEPT ![w] = [pc |-> "next", todo |-> D]]
  /\ UNCHANGED <<reg, vec, words, up, torn>>

\* DELETE /documents/{id}: the owner, or an admin, may; the check is over
\* before the erasure starts.
EraseDocument(w, d) == reg[d] # None /\ Erase(w, {d})

\* tenant_doc_ids, then one document after the other.
EraseTenant(w, t) ==
  t # Public /\ Erase(w, {d \in Docs : reg[d] # None /\ reg[d].tenant = t})

\* What becomes of worker w when document d of its erasure is done with.
Proceed(w, d) == LET rest == job[w].todo \ {d} IN
  job' = [job EXCEPT ![w] = IF rest = {} THEN Idle ELSE [pc |-> "next", todo |-> rest]]

\* delete_document deleted nothing: the caller hears that there is no such document.
EraseMissing(w, d) ==
  /\ At(w, "next") /\ d \in job[w].todo /\ reg[d] = None
  /\ Proceed(w, d)
  /\ UNCHANGED <<reg, vec, words, up, torn>>

\* The row goes, and its chunks with it (ON DELETE CASCADE).
Drop(w, d) ==
  /\ At(w, "next") /\ d \in job[w].todo /\ reg[d] # None
  /\ reg' = [reg EXCEPT ![d] = None]
  /\ Begin(w, d, [pc |-> "dropped", doc |-> d, todo |-> job[w].todo, clean |-> TRUE])
  /\ UNCHANGED <<vec, words, up>>

Wipe(w) ==
  /\ At(w, "dropped")
  /\ vec' = Without(vec, job[w].doc)
  /\ Go(w, "wiped")
  /\ Mend(w)
  /\ UNCHANGED <<reg, words, up>>

Unindex(w) ==
  /\ At(w, "wiped")
  /\ words' = Without(words, job[w].doc)
  /\ Proceed(w, job[w].doc)
  /\ UNCHANGED <<reg, vec, up, torn>>

------------------------------------------------------------------------------
(* Failures *)

\* The document a job leaves behind half-changed if it ends now.
Half(w) == IF job[w].pc \in {"cleared", "upserted", "dropped", "wiped"} THEN {job[w].doc} ELSE {}

\* A call to a store raises, before or after it took effect.
Abort(w) ==
  /\ Faults /\ job[w].pc \notin {"idle", "saved"}
  /\ torn' = torn \cup Half(w)
  /\ job' = [job EXCEPT ![w] = Idle]
  /\ UNCHANGED <<reg, vec, words, up>>

Crash ==
  /\ Faults /\ up
  /\ up' = FALSE /\ words' = {}
  /\ torn' = torn \cup UNION {Half(w) : w \in Workers}
  /\ job' = [w \in Workers |-> Idle]
  /\ UNCHANGED <<reg, vec>>

\* _rebuild_bm25 reads the registry; nothing looks at the vector store.
Restart ==
  /\ ~up /\ up' = TRUE
  /\ words' = UNION {Terms(d, reg[d].version) : d \in {e \in Docs : reg[e] # None}}
  /\ UNCHANGED <<reg, vec, job, torn>>

JobStep(w) ==
  \/ \E d \in Docs, v \in Versions, t \in Tenants : Ingest(w, d, v, t)
  \/ Clear(w) \/ Upsert(w) \/ Save(w) \/ Index(w)
  \/ \E d \in Docs : EraseDocument(w, d) \/ EraseMissing(w, d) \/ Drop(w, d)
  \/ \E t \in Tenants : EraseTenant(w, t)
  \/ Wipe(w) \/ Unindex(w) \/ Abort(w)

Next ==
  \/ \E w \in Workers : JobStep(w)
  \/ Crash \/ Restart

Spec == Init /\ [][Next]_vars

------------------------------------------------------------------------------
(* Properties *)

\* A document no job is at work on has exactly the vectors its registry row
\* stands for, under its tenant, and the lexical index has every chunk of it in
\* the registered version; one that is not registered is in neither.  Excepted are
\* documents whose last change was cut short or met another one; the next ingest
\* that runs alone to its Save, or the next such erasure, puts those right.
IndexesFollowRegistry ==
  \A d \in Docs \ torn : Busy(d) = {} =>
    IF reg[d] = None
    THEN Of(vec, d) = {} /\ (up => Of(words, d) = {})
    ELSE /\ Of(vec, d) = Points(d, reg[d].version, reg[d].tenant)
         /\ up => /\ Terms(d, reg[d].version) \subseteq words
                  /\ \A e \in Of(words, d) : e.version # reg[d].version => e.at > Sizes[reg[d].version]
==============================================================================
