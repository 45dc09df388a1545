--------------------------- MODULE DocumentsProofs ----------------------------
(*****************************************************************************)
(* Proofs about the documents: how they come into the corpus from the web    *)
(* (Seeding), and what the stores hold of them from then on (Corpus).        *)
(*****************************************************************************)
EXTENDS Corpus, Seeding, TLAPS

(*****************************************************************************)
(* Corpus: what the two indexes hold of a document follows its registry row, *)
(* for any number of documents, versions and parallel jobs.                  *)
(*                                                                           *)
(* The property says nothing of a document while a job is at work on it, so  *)
(* IInv says how far each job has come (Done).  That holds of jobs that are  *)
(* alone on their document; Clean says which are, and that the others have   *)
(* marked theirs as torn.  A job touches no document but its own: LocalKeeps *)
(* proves a step of one job from what it does to its document, and every step*)
(* but a crash and a restart is such a step, a Begin, or one that touches    *)
(* none.                                                                     *)
(*****************************************************************************)
\* Worker w is at work on its document.
AtWork(w) == job[w].pc \notin {"idle", "next"}

\* What IndexesFollowRegistry says of one document.
Follows(d) ==
  IF reg[d] = None
  THEN Of(vec, d) = {} /\ (up => Of(words, d) = {})
  ELSE /\ Of(vec, d) = Points(d, reg[d].version, reg[d].tenant)
       /\ up => /\ Terms(d, reg[d].version) \subseteq words
                /\ \A e \in Of(words, d) : e.version # reg[d].version => e.at > Sizes[reg[d].version]

\* A clean job is alone on its document; one that is not has marked it.
Clean ==
  /\ \A w, v \in Workers :
       AtWork(w) /\ AtWork(v) /\ job[w].doc = job[v].doc /\ job[w].clean => w = v
  /\ \A w \in Workers : AtWork(w) /\ ~job[w].clean => job[w].doc \in torn

\* What a clean job has done to its document so far.
Done(w) == LET d == job[w].doc IN
  /\ job[w].pc = "cleared" => Of(vec, d) = {}
  /\ job[w].pc \in {"upserted", "saved"} => Of(vec, d) = Points(d, job[w].version, job[w].tenant)
  /\ job[w].pc = "saved" => reg[d] = [version |-> job[w].version, tenant |-> job[w].tenant]
  /\ job[w].pc \in {"dropped", "wiped"} => reg[d] = None
  /\ job[w].pc = "wiped" => Of(vec, d) = {}

\* A document no job has touched yet is as the last one left it.
Untouched ==
  \A d \in Docs \ torn : (\A w \in Busy(d) : At(w, "hashed")) => Follows(d)

IInv ==
  /\ TypeOK
  /\ Clean
  /\ \A w \in Workers : AtWork(w) /\ job[w].clean => Done(w)
  /\ Untouched
  /\ ~up => \A w \in Workers : At(w, "idle")

------------------------------------------------------------------------------
(* The two indexes *)

\* What the two indexes hold of a document.
Same(d) == /\ reg'[d] = reg[d]
           /\ Of(vec', d) = Of(vec, d)
           /\ Of(words', d) = Of(words, d)

\* Two entries for one chunk id are the same entry.
Single(S) == \A e, f \in S : e.doc = f.doc /\ e.at = f.at => e = f

\* Entries of one document.
About(T, d) == \A x \in T : x.doc = d

\* Removing a document from an index leaves the others.
LEMMA WithoutOf ==
  ASSUME NEW S, NEW d
  PROVE  /\ Of(Without(S, d), d) = {}
         /\ \A e : e # d => Of(Without(S, d), e) = Of(S, e)
         /\ Without(S, d) \subseteq S
BY DEF Of, Without

\* Adding entries of one document leaves the others.
LEMMA PutOther ==
  ASSUME NEW S, NEW T, NEW d, About(T, d), NEW e, e # d
  PROVE  Of(Put(S, T), e) = Of(S, e)
<1>1. \A x : x \in Of(Put(S, T), e) <=> x \in Of(S, e)
  BY DEF Of, Put, About
<1> QED BY <1>1

\* Entries added to an index without any of their document are what it then has of it.
LEMMA PutOf ==
  ASSUME NEW S, NEW T, NEW d, About(T, d)
  PROVE  /\ Of(S, d) = {} => Of(Put(S, T), d) = T
         /\ Single(S) /\ Single(T) => Single(Put(S, T))
<1>1. \A x : x \in Put(S, T) <=>
        x \in T \/ (x \in S /\ \A y \in T : <<y.doc, y.at>> # <<x.doc, x.at>>)
  BY DEF Put
<1>2. \A e, x : x \in Of(S, e) <=> x \in S /\ x.doc = e
  BY DEF Of
<1>3. \A e, x : x \in Of(Put(S, T), e) <=> x \in Put(S, T) /\ x.doc = e
  BY DEF Of
<1>4. ASSUME Of(S, d) = {} PROVE Of(Put(S, T), d) = T
  <2>1. \A x : x \in Of(Put(S, T), d) <=> x \in T
    BY <1>1, <1>2, <1>3, <1>4 DEF About
  <2> QED BY <2>1
<1>5. ASSUME Single(S), Single(T) PROVE Single(Put(S, T))
  BY <1>1, <1>5 DEF Single, About
<1> QED BY <1>4, <1>5

\* The points of a version are of its document, one for each chunk.
LEMMA PointsAre ==
  ASSUME NEW d \in Docs, NEW v \in Versions, NEW t \in Tenants
  PROVE  /\ \A x \in Points(d, v, t) : x.doc = d
         /\ Single(Points(d, v, t))
         /\ Points(d, v, t) \subseteq
              [doc : Docs, at : Nat \ {0}, version : Versions, tenant : Tenants]
<1>1. Sizes[v] \in Nat
  BY CorpusAssumption
<1>2. \A i \in 1 .. Sizes[v] : i \in Nat \ {0}
  BY <1>1
<1> QED BY <1>2 DEF Points, Single

\* The terms of a version are of its document, one for each chunk.
LEMMA TermsAre ==
  ASSUME NEW d \in Docs, NEW v \in Versions
  PROVE  /\ \A x \in Terms(d, v) : x.doc = d /\ x.version = v /\ x.at \in 1 .. Sizes[v]
         /\ Single(Terms(d, v))
         /\ Terms(d, v) \subseteq [doc : Docs, at : Nat \ {0}, version : Versions]
         /\ \A i \in 1 .. Sizes[v] : \E x \in Terms(d, v) : x.at = i
<1>1. Sizes[v] \in Nat
  BY CorpusAssumption
<1>2. \A i \in 1 .. Sizes[v] : i \in Nat \ {0}
  BY <1>1
<1>3. \A x \in Terms(d, v) : x.doc = d /\ x.version = v /\ x.at \in 1 .. Sizes[v]
  BY DEF Terms
<1>4. Single(Terms(d, v))
  BY DEF Terms, Single
<1>5. Terms(d, v) \subseteq [doc : Docs, at : Nat \ {0}, version : Versions]
  BY <1>2 DEF Terms
<1>6. \A i \in 1 .. Sizes[v] : \E x \in Terms(d, v) : x.at = i
  <2> TAKE i \in 1 .. Sizes[v]
  <2>1. [doc |-> d, at |-> i, version |-> v] \in Terms(d, v)
    BY DEF Terms
  <2> QED BY <2>1
<1> QED BY <1>3, <1>4, <1>5, <1>6

\* A document the indexes and the registry hold as before follows as before.
LEMMA SameFollows ==
  ASSUME TypeOK, NEW d \in Docs, Same(d), Follows(d), up' => up
  PROVE  Follows(d)'
<1>1. CASE reg[d] = None
  BY <1>1 DEF Same, Follows
<1>2. CASE reg[d] # None
  <2>1. reg[d].version \in Versions
    BY <1>2 DEF TypeOK, Rows
  <2>2. up' => Terms(d, reg[d].version) \subseteq words'
    <3> SUFFICES ASSUME up', NEW x \in Terms(d, reg[d].version) PROVE x \in words'
      OBVIOUS
    <3>1. x \in words /\ x.doc = d
      BY <1>2, <2>1, TermsAre DEF Follows
    <3>2. x \in Of(words', d)
      BY <3>1 DEF Same, Of
    <3> QED BY <3>2 DEF Of
  <2> QED BY <1>2, <2>2 DEF Same, Follows
<1> QED BY <1>1, <1>2

------------------------------------------------------------------------------
(* Steps of the jobs *)

\* A job goes on with its document d, or leaves it.
LEMMA LocalKeeps ==
  ASSUME IInv, TypeOK', NEW w \in Workers, NEW d \in Docs, AtWork(w), d = job[w].doc,
         up' = up,
         \A e \in Docs : e # d => Same(e),
         \A v \in Workers : v # w => job'[v] = job[v],
         AtWork(w)' => job'[w].doc = d /\ job'[w].clean = job[w].clean,
         \/ torn' = torn
         \/ torn' = torn \cup {d}
         \/ job[w].clean /\ torn' = torn \ {d},
         job[w].clean /\ AtWork(w)' => Done(w)',
         job[w].clean /\ d \notin torn' /\ (AtWork(w)' => At(w, "hashed")') => Follows(d)'
  PROVE  IInv'
<1>1. \A v \in Workers : v # w =>
        /\ AtWork(v)' <=> AtWork(v)
        /\ job'[v] = job[v]
  BY DEF AtWork
<1>2. \A v \in Workers : v # w /\ AtWork(v) /\ job[v].doc = d => ~job[v].clean /\ ~job[w].clean
  BY DEF IInv, Clean
<1>3. \A e \in Docs : e # d => (e \in torn' <=> e \in torn)
  OBVIOUS
<1>4. ~job[w].clean => d \in torn'
  BY DEF IInv, Clean
<1>5. Clean'
  <2>1. ASSUME NEW u \in Workers, NEW v \in Workers, AtWork(u)', AtWork(v)',
               job'[u].doc = job'[v].doc, job'[u].clean
        PROVE  u = v
    BY <1>1, <1>2, <2>1 DEF IInv, Clean
  <2>2. ASSUME NEW u \in Workers, AtWork(u)', ~job'[u].clean PROVE job'[u].doc \in torn'
    <3>1. CASE u = w
      BY <1>4, <2>2, <3>1
    <3>2. CASE u # w
      BY <1>1, <1>2, <2>2, <3>2 DEF IInv, Clean
    <3> QED BY <3>1, <3>2
  <2> QED BY <2>1, <2>2 DEF Clean
<1>6. ASSUME NEW v \in Workers, AtWork(v)', job'[v].clean PROVE Done(v)'
  <2>1. CASE v = w
    BY <1>6, <2>1
  <2>2. CASE v # w
    <3>1. job'[v] = job[v] /\ AtWork(v) /\ job[v].doc # d
      BY <1>1, <1>2, <1>6, <2>2
    <3>2. job[v].doc \in Docs
      BY <3>1 DEF IInv, TypeOK, AtWork, Idle, Ingesting, Erasing
    <3>3. Same(job[v].doc)
      BY <3>1, <3>2
    <3>4. Done(v)
      BY <1>6, <3>1 DEF IInv
    <3> QED BY <3>1, <3>3, <3>4 DEF Done, Same
  <2> QED BY <2>1, <2>2
<1>7. ASSUME NEW e \in Docs, e \notin torn', \A v \in Busy(e)' : At(v, "hashed")'
      PROVE  Follows(e)'
  <2>1. CASE e = d
    <3>1. AtWork(w)' => w \in Busy(d)'
      BY DEF AtWork, Busy
    <3> QED BY <1>4, <1>7, <2>1, <3>1
  <2>2. CASE e # d
    <3>1. \A v \in Busy(e) : v \in Workers /\ v # w /\ AtWork(v)
      BY <2>2 DEF Busy, AtWork
    <3>2. \A v \in Busy(e) : v \in Busy(e)' /\ (At(v, "hashed")' <=> At(v, "hashed"))
      BY <1>1, <3>1 DEF Busy, At
    <3>3. Follows(e)
      BY <1>3, <1>7, <2>2, <3>2 DEF IInv, Untouched
    <3> QED BY <2>2, <3>3, SameFollows DEF IInv
  <2> QED BY <2>1, <2>2
<1>8. up'
  BY DEF IInv, AtWork, At
<1> QED BY <1>5, <1>6, <1>7, <1>8 DEF IInv, Untouched

\* A job that sets to work on d leaves no job there alone, and the others as they are.
Overtakes(w, d) ==
  \A v \in Workers : v # w =>
    IF v \in Busy(d) THEN job'[v].pc = job[v].pc /\ job'[v].doc = d /\ job'[v].clean = FALSE
    ELSE job'[v] = job[v]

\* A job sets to work on d.
LEMMA BeginKeeps ==
  ASSUME IInv, TypeOK', NEW w \in Workers, NEW d \in Docs, ~AtWork(w), up, up' = up,
         UNCHANGED <<vec, words>>,
         \A e \in Docs : e # d => reg'[e] = reg[e],
         job'[w].pc \in {"hashed", "dropped"}, job'[w].doc = d,
         job'[w].clean = (Busy(d) = {}),
         job'[w].pc = "hashed" => reg'[d] = reg[d],
         job'[w].pc = "dropped" => reg'[d] = None,
         Overtakes(w, d),
         torn' = IF Busy(d) = {} THEN torn ELSE torn \cup {d}
  PROVE  IInv'
<1>1. \A v \in Workers : v \in Busy(d) <=> AtWork(v) /\ job[v].doc = d
  BY DEF Busy, AtWork
<1>2. \A v \in Workers : v # w =>
        /\ AtWork(v)' <=> AtWork(v)
        /\ AtWork(v) => job'[v].doc = job[v].doc
  BY <1>1 DEF AtWork, Overtakes
<1>3. \A v \in Workers : v # w /\ AtWork(v) /\ job[v].doc = d => ~job'[v].clean /\ ~job'[w].clean
  BY <1>1 DEF Overtakes
<1>4. \A v \in Workers : v # w /\ AtWork(v) /\ job[v].doc # d => job'[v] = job[v]
  BY <1>1 DEF Overtakes
<1>5. AtWork(w)' /\ \A e \in Docs : e # d => (e \in torn' <=> e \in torn) /\ Same(e)
  BY DEF AtWork, Same
<1>6. Clean'
  <2>1. ASSUME NEW u \in Workers, NEW v \in Workers, AtWork(u)', AtWork(v)',
               job'[u].doc = job'[v].doc, job'[u].clean
        PROVE  u = v
    <3>1. CASE job'[u].doc = d
      BY <1>2, <1>3, <2>1, <3>1
    <3>2. CASE job'[u].doc # d
      BY <1>2, <1>4, <2>1, <3>2 DEF IInv, Clean
    <3> QED BY <3>1, <3>2
  <2>2. ASSUME NEW u \in Workers, AtWork(u)', ~job'[u].clean PROVE job'[u].doc \in torn'
    <3>1. CASE u = w
      BY <2>2, <3>1
    <3>2. CASE u # w /\ job[u].doc = d
      BY <1>1, <1>2, <2>2, <3>2
    <3>3. CASE u # w /\ job[u].doc # d
      BY <1>2, <1>4, <2>2, <3>3 DEF IInv, Clean
    <3> QED BY <3>1, <3>2, <3>3
  <2> QED BY <2>1, <2>2 DEF Clean
<1>7. ASSUME NEW v \in Workers, AtWork(v)', job'[v].clean PROVE Done(v)'
  <2>1. CASE v = w
    BY <2>1 DEF Done
  <2>2. CASE v # w
    <3>1. job'[v] = job[v] /\ AtWork(v) /\ job[v].doc # d
      BY <1>2, <1>3, <1>4, <1>7, <2>2
    <3>2. job[v].doc \in Docs
      BY <3>1 DEF IInv, TypeOK, AtWork, Idle, Ingesting, Erasing
    <3>3. Same(job[v].doc)
      BY <1>5, <3>1, <3>2
    <3>4. Done(v)
      BY <1>7, <3>1 DEF IInv
    <3> QED BY <3>1, <3>3, <3>4 DEF Done, Same
  <2> QED BY <2>1, <2>2
<1>8. ASSUME NEW e \in Docs, e \notin torn', \A v \in Busy(e)' : At(v, "hashed")'
      PROVE  Follows(e)'
  <2>1. CASE e = d
    <3>1. w \in Busy(d)'
      BY <1>5 DEF Busy, AtWork
    <3>2. job'[w].pc = "hashed" /\ Busy(d) = {} /\ d \notin torn
      BY <1>8, <2>1, <3>1 DEF At
    <3>3. Same(d) /\ Follows(d)
      BY <3>2 DEF Same, IInv, Untouched
    <3> QED BY <2>1, <3>3, SameFollows DEF IInv
  <2>2. CASE e # d
    <3>1. \A v \in Busy(e) : v \in Workers /\ v # w /\ AtWork(v) /\ job[v].doc # d
      BY <2>2 DEF Busy, AtWork
    <3>2. \A v \in Busy(e) : v \in Busy(e)' /\ (At(v, "hashed")' <=> At(v, "hashed"))
      BY <1>4, <3>1 DEF Busy, At
    <3>3. Follows(e)
      BY <1>5, <1>8, <2>2, <3>2 DEF IInv, Untouched
    <3> QED BY <1>5, <2>2, <3>3, SameFollows DEF IInv
  <2> QED BY <2>1, <2>2
<1> QED BY <1>6, <1>7, <1>8 DEF IInv, Untouched

\* A job that has no document in hand starts, goes on or ends.
LEMMA IdleKeeps ==
  ASSUME IInv, TypeOK', NEW w \in Workers, ~AtWork(w), ~AtWork(w)', up,
         UNCHANGED <<reg, vec, words, up, torn>>,
         \A v \in Workers : v # w => job'[v] = job[v]
  PROVE  IInv'
<1>1. \A v \in Workers : (AtWork(v)' <=> AtWork(v)) /\ (AtWork(v) => job'[v] = job[v])
  BY DEF AtWork
<1>2. Clean'
  BY <1>1 DEF IInv, Clean
<1>3. \A v \in Workers : AtWork(v)' /\ job'[v].clean => Done(v)'
  BY <1>1 DEF IInv, Done
<1>4. ASSUME NEW e \in Docs, e \notin torn', \A v \in Busy(e)' : At(v, "hashed")'
      PROVE  Follows(e)'
  <2>1. \A v \in Busy(e) : v \in Busy(e)' /\ (At(v, "hashed")' <=> At(v, "hashed"))
    BY <1>1 DEF Busy, At, AtWork
  <2>2. Follows(e)
    BY <1>4, <2>1 DEF IInv, Untouched
  <2> QED BY <2>2 DEF Follows
<1> QED BY <1>2, <1>3, <1>4 DEF IInv, Untouched

------------------------------------------------------------------------------
(* The steps of an ingest *)

JobOf == {Idle} \cup Ingesting \cup Erasing
Removing == [pc : {"dropped", "wiped"}, doc : Docs, todo : SUBSET Docs, clean : BOOLEAN]

\* The fields a job has at each point.
LEMMA JobType ==
  ASSUME TypeOK, NEW w \in Workers
  PROVE  /\ job[w].pc \in {"hashed", "cleared", "upserted", "saved"} => job[w] \in Ingesting
         /\ job[w].pc \in {"dropped", "wiped"} => job[w] \in Removing
         /\ job[w].pc = "next" => job[w].todo \in SUBSET Docs
         /\ AtWork(w) => job[w].doc \in Docs
BY DEF TypeOK, Idle, Ingesting, Erasing, Removing, AtWork

\* An ingest that goes on keeps its document, version and tenant.
LEMMA GoIngest ==
  ASSUME TypeOK, NEW w \in Workers, NEW p \in {"cleared", "upserted", "saved"},
         job[w] \in Ingesting, Go(w, p)
  PROVE  /\ job' \in [Workers -> JobOf]
         /\ job'[w].pc = p /\ job'[w].doc = job[w].doc /\ job'[w].clean = job[w].clean
         /\ job'[w].version = job[w].version /\ job'[w].tenant = job[w].tenant
         /\ \A v \in Workers : v # w => job'[v] = job[v]
<1>1. job' = [job EXCEPT ![w] = [job[w] EXCEPT !.pc = p]]
  BY DEF TypeOK, Go
<1>2. [job[w] EXCEPT !.pc = p] \in Ingesting
  BY DEF Ingesting
<1>3. job'[w] = [job[w] EXCEPT !.pc = p] /\ \A v \in Workers : v # w => job'[v] = job[v]
  BY <1>1 DEF TypeOK
<1>4. job' \in [Workers -> JobOf]
  BY <1>1, <1>2 DEF TypeOK, JobOf
<1> QED BY <1>3, <1>4 DEF Ingesting

\* An erasure that goes on keeps its document.
LEMMA GoErase ==
  ASSUME TypeOK, NEW w \in Workers, job[w] \in Removing, Go(w, "wiped")
  PROVE  /\ job' \in [Workers -> JobOf]
         /\ job'[w].pc = "wiped" /\ job'[w].doc = job[w].doc /\ job'[w].clean = job[w].clean
         /\ \A v \in Workers : v # w => job'[v] = job[v]
<1>1. job' = [job EXCEPT ![w] = [job[w] EXCEPT !.pc = "wiped"]]
  BY DEF TypeOK, Go
<1>2. [job[w] EXCEPT !.pc = "wiped"] \in Removing
  BY DEF Removing
<1>3. job'[w] = [job[w] EXCEPT !.pc = "wiped"] /\ \A v \in Workers : v # w => job'[v] = job[v]
  BY <1>1 DEF TypeOK
<1>4. job' \in [Workers -> JobOf]
  BY <1>1, <1>2 DEF TypeOK, JobOf, Removing, Erasing
<1> QED BY <1>3, <1>4 DEF Removing

\* delete_document of the vector store, before the new points.
LEMMA ClearKeeps ==
  ASSUME IInv, NEW w \in Workers, Clear(w)
  PROVE  IInv'
<1>1. TypeOK /\ job[w] \in Ingesting /\ job[w].pc = "hashed" /\ AtWork(w)
  BY JobType DEF IInv, Clear, At, AtWork
<1>2. PICK d \in Docs : d = job[w].doc
  BY <1>1, JobType
<1>3. Go(w, "cleared") /\ vec' = Without(vec, d) /\ UNCHANGED <<reg, words, up, torn>>
  BY <1>2 DEF Clear
<1>4. /\ job' \in [Workers -> JobOf] /\ job'[w].pc = "cleared" /\ job'[w].doc = d
      /\ job'[w].clean = job[w].clean /\ \A v \in Workers : v # w => job'[v] = job[v]
  BY <1>1, <1>2, <1>3, GoIngest
<1>5. Of(vec', d) = {} /\ vec' \subseteq vec /\ \A e \in Docs : e # d => Same(e)
  BY <1>3, WithoutOf DEF Same
<1>6. TypeOK'
  BY <1>1, <1>3, <1>4, <1>5 DEF TypeOK, JobOf
<1>7. Done(w)'
  BY <1>4, <1>5 DEF Done
<1>8. AtWork(w)' /\ ~At(w, "hashed")'
  BY <1>4 DEF AtWork, At
<1> QED BY <1>1, <1>2, <1>3, <1>4, <1>5, <1>6, <1>7, <1>8, LocalKeeps

\* The points of the new version.
LEMMA UpsertKeeps ==
  ASSUME IInv, NEW w \in Workers, Upsert(w)
  PROVE  IInv'
<1>1. TypeOK /\ job[w] \in Ingesting /\ job[w].pc = "cleared" /\ AtWork(w)
  BY JobType DEF IInv, Upsert, At, AtWork
<1>2. PICK d \in Docs, n \in Versions, t \in Tenants :
        d = job[w].doc /\ n = job[w].version /\ t = job[w].tenant
  BY <1>1 DEF Ingesting
<1>3. Go(w, "upserted") /\ vec' = Put(vec, Points(d, n, t)) /\ UNCHANGED <<reg, words, up, torn>>
  BY <1>2 DEF Upsert
<1>4. /\ job' \in [Workers -> JobOf] /\ job'[w].pc = "upserted" /\ job'[w].doc = d
      /\ job'[w].clean = job[w].clean /\ \A v \in Workers : v # w => job'[v] = job[v]
      /\ job'[w].version = n /\ job'[w].tenant = t
  BY <1>1, <1>2, <1>3, GoIngest
<1>5. /\ \A x \in Points(d, n, t) : x.doc = d
      /\ Single(Points(d, n, t))
      /\ Points(d, n, t) \subseteq [doc : Docs, at : Nat \ {0}, version : Versions, tenant : Tenants]
  BY PointsAre
<1>6. /\ \A e : e # d => Of(vec', e) = Of(vec, e)
      /\ vec' \subseteq vec \cup Points(d, n, t)
      /\ Of(vec, d) = {} => Of(vec', d) = Points(d, n, t)
      /\ Single(vec) /\ Single(Points(d, n, t)) => Single(vec')
  <2>1. PICK T : T = Points(d, n, t) /\ vec' = Put(vec, T) /\ About(T, d)
    BY <1>3, <1>5 DEF About
  <2>2. ASSUME NEW e, e # d PROVE Of(vec', e) = Of(vec, e)
    <3>1. Of(Put(vec, T), e) = Of(vec, e)
      BY <2>1, <2>2, PutOther
    <3> QED BY <2>1, <3>1
  <2>3. vec' \subseteq vec \cup T
    BY <2>1 DEF Put
  <2>4. Of(vec, d) = {} => Of(vec', d) = T
    BY <2>1, PutOf
  <2>5. Single(vec) /\ Single(T) => Single(vec')
    BY <2>1, PutOf
  <2> QED BY <2>1, <2>2, <2>3, <2>4, <2>5
<1>7. \A e \in Docs : e # d => Same(e)
  BY <1>3, <1>6 DEF Same
<1>8. TypeOK'
  <2>1. vec' \subseteq [doc : Docs, at : Nat \ {0}, version : Versions, tenant : Tenants]
    BY <1>1, <1>5, <1>6 DEF TypeOK
  <2>2. Single(vec') /\ Single(words')
    BY <1>1, <1>3, <1>5, <1>6 DEF TypeOK, Single
  <2> QED BY <1>1, <1>3, <1>4, <2>1, <2>2 DEF TypeOK, JobOf, Single
<1>9. job[w].clean => Done(w)'
  <2>1. job[w].clean => Of(vec, d) = {}
    BY <1>1, <1>2 DEF IInv, Done
  <2> QED BY <1>4, <1>6, <2>1 DEF Done
<1>10. AtWork(w)' /\ ~At(w, "hashed")'
  BY <1>4 DEF AtWork, At
<1> QED BY <1>1, <1>2, <1>3, <1>4, <1>7, <1>8, <1>9, <1>10, LocalKeeps

\* The row and its chunks: an ingest alone to here has put its document right.
LEMMA SaveKeeps ==
  ASSUME IInv, NEW w \in Workers, Save(w)
  PROVE  IInv'
<1>1. TypeOK /\ job[w] \in Ingesting /\ job[w].pc = "upserted" /\ AtWork(w)
  BY JobType DEF IInv, Save, At, AtWork
<1>2. PICK d \in Docs, n \in Versions, t \in Tenants :
        d = job[w].doc /\ n = job[w].version /\ t = job[w].tenant
  BY <1>1 DEF Ingesting
<1>3. /\ Go(w, "saved") /\ reg' = [reg EXCEPT ![d] = [version |-> n, tenant |-> t]]
      /\ torn' = IF job[w].clean THEN torn \ {d} ELSE torn
      /\ UNCHANGED <<vec, words, up>>
  BY <1>2 DEF Save, Mend
<1>4. /\ job' \in [Workers -> JobOf] /\ job'[w].pc = "saved" /\ job'[w].doc = d
      /\ job'[w].clean = job[w].clean /\ \A v \in Workers : v # w => job'[v] = job[v]
      /\ job'[w].version = n /\ job'[w].tenant = t
  BY <1>1, <1>2, <1>3, GoIngest
<1>5. reg'[d] = [version |-> n, tenant |-> t] /\ \A e \in Docs : e # d => Same(e)
  BY <1>1, <1>3 DEF Same, TypeOK
<1>6. TypeOK'
  <2>1. [version |-> n, tenant |-> t] \in Rows
    BY DEF Rows
  <2>2. reg' \in [Docs -> Rows \cup {None}]
    BY <1>1, <1>3, <2>1 DEF TypeOK
  <2> QED BY <1>1, <1>3, <1>4, <2>2 DEF TypeOK, JobOf
<1>7. job[w].clean => Done(w)'
  <2>1. job[w].clean => Of(vec, d) = Points(d, n, t)
    BY <1>1, <1>2 DEF IInv, Done
  <2> QED BY <1>3, <1>4, <1>5, <2>1 DEF Done
<1>8. AtWork(w)' /\ ~At(w, "hashed")'
  BY <1>4 DEF AtWork, At
<1> QED BY <1>1, <1>2, <1>3, <1>4, <1>5, <1>6, <1>7, <1>8, LocalKeeps

\* The terms of the new version replace those with the same chunk ids.
LEMMA IndexKeeps ==
  ASSUME IInv, NEW w \in Workers, Index(w)
  PROVE  IInv'
<1>1. TypeOK /\ job[w] \in Ingesting /\ job[w].pc = "saved" /\ AtWork(w)
  BY JobType DEF IInv, Index, At, AtWork
<1>2. PICK d \in Docs, n \in Versions, t \in Tenants :
        d = job[w].doc /\ n = job[w].version /\ t = job[w].tenant
  BY <1>1 DEF Ingesting
<1>3. /\ words' = Put(words, Terms(d, n)) /\ job' = [job EXCEPT ![w] = Idle]
      /\ UNCHANGED <<reg, vec, up, torn>>
  BY <1>2 DEF Index
<1>4. /\ job' \in [Workers -> JobOf] /\ job'[w].pc = "idle"
      /\ \A v \in Workers : v # w => job'[v] = job[v]
  BY <1>1, <1>3 DEF TypeOK, JobOf, Idle
<1>5. /\ \A x \in Terms(d, n) : x.doc = d /\ x.version = n /\ x.at \in 1 .. Sizes[n]
      /\ Single(Terms(d, n))
      /\ Terms(d, n) \subseteq [doc : Docs, at : Nat \ {0}, version : Versions]
      /\ \A i \in 1 .. Sizes[n] : \E x \in Terms(d, n) : x.at = i
  BY TermsAre
<1>6. /\ \A e : e # d => Of(words', e) = Of(words, e)
      /\ words' \subseteq words \cup Terms(d, n) /\ Terms(d, n) \subseteq words'
      /\ Single(words) /\ Single(Terms(d, n)) => Single(words')
      /\ \A x \in words' : \/ x \in Terms(d, n)
                           \/ /\ x \in words
                              /\ \A y \in Terms(d, n) : <<y.doc, y.at>> # <<x.doc, x.at>>
  <2>1. PICK T : T = Terms(d, n) /\ words' = Put(words, T) /\ About(T, d)
    BY <1>3, <1>5 DEF About
  <2>2. ASSUME NEW e, e # d PROVE Of(words', e) = Of(words, e)
    <3>1. Of(Put(words, T), e) = Of(words, e)
      BY <2>1, <2>2, PutOther
    <3> QED BY <2>1, <3>1
  <2>3. words' \subseteq words \cup T /\ T \subseteq words'
    BY <2>1 DEF Put
  <2>4. Single(words) /\ Single(T) => Single(words')
    BY <2>1, PutOf
  <2>5. \A x \in words' : x \in T \/ (x \in words /\ \A y \in T : <<y.doc, y.at>> # <<x.doc, x.at>>)
    BY <2>1 DEF Put
  <2> QED BY <2>1, <2>2, <2>3, <2>4, <2>5
<1>7. \A e \in Docs : e # d => Same(e)
  BY <1>3, <1>6 DEF Same
<1>8. TypeOK'
  <2>1. words' \subseteq [doc : Docs, at : Nat \ {0}, version : Versions]
    BY <1>1, <1>5, <1>6 DEF TypeOK
  <2>2. Single(vec') /\ Single(words')
    BY <1>1, <1>3, <1>5, <1>6 DEF TypeOK, Single
  <2> QED BY <1>1, <1>3, <1>4, <2>1, <2>2 DEF TypeOK, JobOf, Single
<1>9. ASSUME job[w].clean PROVE Follows(d)'
  <2>1. reg[d] = [version |-> n, tenant |-> t] /\ Of(vec, d) = Points(d, n, t)
    BY <1>1, <1>2, <1>9 DEF IInv, Done
  <2>2. reg'[d] # None /\ reg'[d].version = n /\ reg'[d].tenant = t
    BY <1>3, <2>1, CorpusAssumption DEF Rows
  <2>3. ASSUME NEW x \in Of(words', d), x.version # n PROVE x.at > Sizes[n]
    <3>1. x \in words' /\ x.doc = d
      BY <2>3 DEF Of
    <3>2. x \in [doc : Docs, at : Nat \ {0}, version : Versions]
      BY <1>8, <3>1 DEF TypeOK
    <3>3. \A y \in Terms(d, n) : y.at # x.at
      BY <1>5, <1>6, <2>3, <3>1
    <3>4. x.at \notin 1 .. Sizes[n]
      BY <1>5, <3>3
    <3>5. Sizes[n] \in Nat
      BY CorpusAssumption
    <3> QED BY <3>2, <3>4, <3>5
  <2> QED BY <1>3, <1>6, <2>1, <2>2, <2>3 DEF Follows
<1>10. ~AtWork(w)'
  BY <1>4 DEF AtWork
<1> QED BY <1>1, <1>2, <1>3, <1>4, <1>7, <1>8, <1>9, <1>10, LocalKeeps

------------------------------------------------------------------------------
(* The steps of an erasure, and failures *)

\* Where a worker is when it is done with a document of its erasure.
LEMMA ProceedType ==
  ASSUME TypeOK, NEW w \in Workers, NEW d, job[w].todo \in SUBSET Docs, Proceed(w, d)
  PROVE  /\ job' \in [Workers -> JobOf] /\ ~AtWork(w)'
         /\ \A v \in Workers : v # w => job'[v] = job[v]
<1> DEFINE j == IF job[w].todo \ {d} = {} THEN Idle ELSE [pc |-> "next", todo |-> job[w].todo \ {d}]
<1>1. j \in JobOf /\ j.pc \in {"idle", "next"}
  BY DEF JobOf, Erasing, Idle
<1>2. job' = [job EXCEPT ![w] = j]
  BY DEF Proceed
<1> HIDE DEF j
<1>3. job' \in [Workers -> JobOf] /\ job'[w] = j /\ \A v \in Workers : v # w => job'[v] = job[v]
  BY <1>1, <1>2 DEF TypeOK, JobOf
<1> QED BY <1>1, <1>3 DEF AtWork

\* What Begin makes of the jobs.
LEMMA BeginType ==
  ASSUME TypeOK, NEW w \in Workers, NEW d \in Docs, NEW j \in Ingesting \cup Removing,
         j.doc = d, Begin(w, d, j)
  PROVE  /\ job' \in [Workers -> JobOf]
         /\ job'[w].pc = j.pc /\ job'[w].doc = d /\ job'[w].clean = (Busy(d) = {})
         /\ Overtakes(w, d)
<1>1. \A b \in BOOLEAN : \A k \in Ingesting \cup Removing :
        /\ [k EXCEPT !.clean = b] \in Ingesting \cup Removing
        /\ [k EXCEPT !.clean = b].pc = k.pc
        /\ [k EXCEPT !.clean = b].doc = k.doc
        /\ [k EXCEPT !.clean = b].clean = b
  BY DEF Ingesting, Removing
<1>2. Ingesting \cup Removing \subseteq JobOf
  BY DEF JobOf, Erasing, Removing
<1>3. \A v \in Busy(d) : v \in Workers /\ job[v] \in Ingesting \cup Removing /\ job[v].doc = d
  BY DEF Busy, TypeOK, Idle, Erasing, Ingesting, Removing
<1>4. (Busy(d) = {}) \in BOOLEAN
  OBVIOUS
<1>5. job' = [u \in Workers |-> IF u = w THEN [j EXCEPT !.clean = Busy(d) = {}]
                                ELSE IF u \in Busy(d) THEN [job[u] EXCEPT !.clean = FALSE]
                                ELSE job[u]]
  BY DEF Begin
<1>6. job' \in [Workers -> JobOf]
  BY <1>1, <1>2, <1>3, <1>4, <1>5 DEF TypeOK, JobOf
<1>7. job'[w].pc = j.pc /\ job'[w].doc = d /\ job'[w].clean = (Busy(d) = {})
  BY <1>1, <1>4, <1>5
<1>8. ASSUME NEW v \in Workers, v # w
      PROVE  IF v \in Busy(d) THEN job'[v].pc = job[v].pc /\ job'[v].doc = d /\ job'[v].clean = FALSE
             ELSE job'[v] = job[v]
  BY <1>1, <1>3, <1>5, <1>8
<1> QED BY <1>6, <1>7, <1>8 DEF Overtakes

\* An ingest begins.
LEMMA IngestKeeps ==
  ASSUME IInv, NEW w \in Workers, NEW d \in Docs, NEW n \in Versions, NEW t \in Tenants,
         Ingest(w, d, n, t)
  PROVE  IInv'
<1>1. TypeOK /\ ~AtWork(w) /\ up
  BY DEF IInv, Ingest, At, AtWork
<1>2. PICK j \in Ingesting : j.pc = "hashed" /\ j.doc = d /\ Begin(w, d, j)
  BY DEF Ingest, Ingesting
<1>3. /\ job' \in [Workers -> JobOf]
      /\ job'[w].pc = "hashed" /\ job'[w].doc = d /\ job'[w].clean = (Busy(d) = {})
      /\ Overtakes(w, d)
  <2>0. j \in Ingesting \cup Removing /\ j.doc = d /\ Begin(w, d, j)
    BY <1>2
  <2>1. job' \in [Workers -> JobOf] /\ job'[w].clean = (Busy(d) = {})
    BY <1>1, <2>0, BeginType
  <2>2. job'[w].pc = j.pc
    BY <1>1, <2>0, BeginType
  <2>3. job'[w].doc = d
    BY <1>1, <2>0, BeginType
  <2>4. Overtakes(w, d)
    BY <1>1, <2>0, BeginType
  <2> QED BY <1>2, <2>1, <2>2, <2>3, <2>4
<1>4. torn' = (IF Busy(d) = {} THEN torn ELSE torn \cup {d}) /\ UNCHANGED <<reg, vec, words, up>>
  BY DEF Ingest, Begin
<1>5. TypeOK'
  BY <1>1, <1>3, <1>4 DEF TypeOK, JobOf
<1> QED BY <1>1, <1>3, <1>4, <1>5, BeginKeeps

\* The row goes first.
LEMMA DropKeeps ==
  ASSUME IInv, NEW w \in Workers, NEW d \in Docs, Drop(w, d)
  PROVE  IInv'
<1>1. TypeOK /\ ~AtWork(w) /\ up
  BY DEF IInv, Drop, At, AtWork
<1>2. job[w].todo \in SUBSET Docs
  BY JobType DEF IInv, Drop, At
<1>3. PICK j \in Removing : j.pc = "dropped" /\ j.doc = d /\ Begin(w, d, j)
  BY <1>2 DEF Drop, Removing
<1>4. /\ job' \in [Workers -> JobOf]
      /\ job'[w].pc = "dropped" /\ job'[w].doc = d /\ job'[w].clean = (Busy(d) = {})
      /\ Overtakes(w, d)
  <2>0. j \in Ingesting \cup Removing /\ j.doc = d /\ Begin(w, d, j)
    BY <1>3
  <2>1. job' \in [Workers -> JobOf] /\ job'[w].clean = (Busy(d) = {})
    BY <1>1, <2>0, BeginType
  <2>2. job'[w].pc = j.pc
    BY <1>1, <1>3, BeginType
  <2>3. job'[w].doc = d
    BY <1>1, <1>3, BeginType
  <2>4. Overtakes(w, d)
    BY <1>1, <1>3, BeginType
  <2> QED BY <1>3, <2>1, <2>2, <2>3, <2>4
<1>5. /\ torn' = (IF Busy(d) = {} THEN torn ELSE torn \cup {d}) /\ UNCHANGED <<vec, words, up>>
      /\ reg' = [reg EXCEPT ![d] = None]
  BY DEF Drop, Begin
<1>6. reg'[d] = None /\ \A e \in Docs : e # d => reg'[e] = reg[e]
  BY <1>1, <1>5 DEF TypeOK
<1>7. TypeOK'
  BY <1>1, <1>4, <1>5 DEF TypeOK, JobOf
<1> QED BY <1>1, <1>4, <1>5, <1>6, <1>7, BeginKeeps

\* Then the points: an erasure alone to here has put its document right.
LEMMA WipeKeeps ==
  ASSUME IInv, NEW w \in Workers, Wipe(w)
  PROVE  IInv'
<1>1. TypeOK /\ job[w] \in Removing /\ job[w].pc = "dropped" /\ AtWork(w)
  BY JobType DEF IInv, Wipe, At, AtWork
<1>2. PICK d \in Docs : d = job[w].doc
  BY <1>1, JobType
<1>3. /\ Go(w, "wiped") /\ vec' = Without(vec, d) /\ UNCHANGED <<reg, words, up>>
      /\ torn' = IF job[w].clean THEN torn \ {d} ELSE torn
  BY <1>2 DEF Wipe, Mend
<1>4. /\ job' \in [Workers -> JobOf] /\ job'[w].pc = "wiped" /\ job'[w].doc = d
      /\ job'[w].clean = job[w].clean /\ \A v \in Workers : v # w => job'[v] = job[v]
  BY <1>1, <1>2, <1>3, GoErase
<1>5. Of(vec', d) = {} /\ vec' \subseteq vec /\ \A e \in Docs : e # d => Same(e)
  BY <1>3, WithoutOf DEF Same
<1>6. TypeOK'
  BY <1>1, <1>3, <1>4, <1>5 DEF TypeOK, JobOf
<1>7. job[w].clean => Done(w)'
  <2>1. job[w].clean => reg[d] = None
    BY <1>1, <1>2 DEF IInv, Done
  <2> QED BY <1>3, <1>4, <1>5, <2>1 DEF Done
<1>8. AtWork(w)' /\ ~At(w, "hashed")'
  BY <1>4 DEF AtWork, At
<1> QED BY <1>1, <1>2, <1>3, <1>4, <1>5, <1>6, <1>7, <1>8, LocalKeeps

\* Then the terms.
LEMMA UnindexKeeps ==
  ASSUME IInv, NEW w \in Workers, Unindex(w)
  PROVE  IInv'
<1>1. TypeOK /\ job[w] \in Removing /\ job[w].pc = "wiped" /\ AtWork(w)
  BY JobType DEF IInv, Unindex, At, AtWork
<1>2. PICK d \in Docs : d = job[w].doc
  BY <1>1, JobType
<1>3. words' = Without(words, d) /\ Proceed(w, d) /\ UNCHANGED <<reg, vec, up, torn>>
  BY <1>2 DEF Unindex
<1>4. /\ job' \in [Workers -> JobOf] /\ ~AtWork(w)'
      /\ \A v \in Workers : v # w => job'[v] = job[v]
  BY <1>1, <1>3, ProceedType DEF Removing
<1>5. Of(words', d) = {} /\ words' \subseteq words /\ \A e \in Docs : e # d => Same(e)
  BY <1>3, WithoutOf DEF Same
<1>6. TypeOK'
  BY <1>1, <1>3, <1>4, <1>5 DEF TypeOK, JobOf
<1>7. job[w].clean => Follows(d)'
  <2>1. job[w].clean => reg[d] = None /\ Of(vec, d) = {}
    BY <1>1, <1>2 DEF IInv, Done
  <2> QED BY <1>3, <1>5, <2>1 DEF Follows
<1> QED BY <1>1, <1>2, <1>3, <1>4, <1>5, <1>6, <1>7, LocalKeeps

\* An erasure begins, or finds no row.
LEMMA OtherErasureKeeps ==
  ASSUME IInv, NEW w \in Workers,
         \/ \E d \in Docs : EraseDocument(w, d) \/ EraseMissing(w, d)
         \/ \E t \in Tenants : EraseTenant(w, t)
  PROVE  IInv'
<1>1. TypeOK
  BY DEF IInv
<1>2. ASSUME NEW D \in SUBSET Docs, Erase(w, D) PROVE IInv'
  <2>1. [pc |-> "next", todo |-> D] \in JobOf
    BY DEF JobOf, Erasing
  <2>2. /\ job' \in [Workers -> JobOf] /\ job'[w].pc = "next"
        /\ \A v \in Workers : v # w => job'[v] = job[v]
    BY <1>1, <1>2, <2>1 DEF Erase, TypeOK, JobOf
  <2>3. TypeOK'
    BY <1>1, <1>2, <2>2 DEF Erase, TypeOK, JobOf
  <2>4. ~AtWork(w) /\ ~AtWork(w)' /\ up /\ UNCHANGED <<reg, vec, words, up, torn>>
    BY <1>2, <2>2 DEF Erase, AtWork, At
  <2> QED BY <2>2, <2>3, <2>4, IdleKeeps
<1>3. ASSUME NEW d \in Docs, EraseMissing(w, d) PROVE IInv'
  <2>1. job[w].todo \in SUBSET Docs
    BY <1>1, <1>3, JobType DEF EraseMissing, At
  <2>2. /\ job' \in [Workers -> JobOf] /\ ~AtWork(w)'
        /\ \A v \in Workers : v # w => job'[v] = job[v]
    BY <1>1, <1>3, <2>1, ProceedType DEF EraseMissing
  <2>3. TypeOK'
    BY <1>1, <1>3, <2>2 DEF EraseMissing, TypeOK, JobOf
  <2>4. ~AtWork(w) /\ ~AtWork(w)' /\ up /\ UNCHANGED <<reg, vec, words, up, torn>>
    BY <1>3, <2>2 DEF EraseMissing, AtWork, At, IInv
  <2> QED BY <2>2, <2>3, <2>4, IdleKeeps
<1>4. \A d \in Docs : EraseDocument(w, d) => IInv'
  BY <1>2 DEF EraseDocument
<1>5. \A t \in Tenants : EraseTenant(w, t) => IInv'
  BY <1>2 DEF EraseTenant
<1> QED BY <1>3, <1>4, <1>5

\* A job that ends early marks what it leaves half done.
LEMMA AbortKeeps ==
  ASSUME IInv, NEW w \in Workers, Abort(w)
  PROVE  IInv'
<1>1. TypeOK /\ up /\ job[w].pc \notin {"idle", "saved"}
  BY DEF IInv, Abort, At
<1>2. /\ job' = [job EXCEPT ![w] = Idle] /\ torn' = torn \cup Half(w)
      /\ UNCHANGED <<reg, vec, words, up>>
  BY DEF Abort
<1>3. /\ job' \in [Workers -> JobOf] /\ ~AtWork(w)'
      /\ \A v \in Workers : v # w => job'[v] = job[v]
  BY <1>1, <1>2 DEF TypeOK, JobOf, Idle, AtWork
<1>4. CASE AtWork(w)
  <2>1. PICK d \in Docs : d = job[w].doc
    BY <1>1, <1>4, JobType
  <2>2. \/ torn' = torn /\ job[w].pc = "hashed"
        \/ torn' = torn \cup {d}
    BY <1>1, <1>2, <1>4, <2>1 DEF Half, AtWork, TypeOK, Idle, Ingesting, Erasing
  <2>3. TypeOK'
    BY <1>1, <1>2, <1>3, <2>2 DEF TypeOK, JobOf
  <2>4. \A e \in Docs : Same(e)
    BY <1>2 DEF Same
  <2>5. ASSUME job[w].clean, d \notin torn' PROVE Follows(d)'
    <3>1. job[w].pc = "hashed" /\ d \notin torn
      BY <2>2, <2>5
    <3>2. \A v \in Busy(d) : v = w
      BY <1>4, <2>1, <2>5 DEF Busy, AtWork, IInv, Clean
    <3>3. Follows(d)
      BY <3>1, <3>2 DEF IInv, Untouched, At
    <3> QED BY <1>2, <3>3 DEF Follows
  <2> QED BY <1>2, <1>3, <1>4, <2>1, <2>2, <2>3, <2>4, <2>5, LocalKeeps
<1>5. CASE ~AtWork(w)
  <2>1. torn' = torn
    BY <1>2, <1>5 DEF Half, AtWork
  <2>2. TypeOK'
    BY <1>1, <1>2, <1>3, <2>1 DEF TypeOK, JobOf
  <2> QED BY <1>1, <1>2, <1>3, <1>5, <2>1, <2>2, IdleKeeps
<1> QED BY <1>4, <1>5

\* So does a crash, of every job.
LEMMA CrashKeeps ==
  ASSUME IInv, Crash
  PROVE  IInv'
<1>1. /\ TypeOK /\ up' = FALSE /\ words' = {} /\ UNCHANGED <<reg, vec>>
      /\ torn' = torn \cup UNION {Half(w) : w \in Workers}
      /\ job' = [w \in Workers |-> Idle]
  BY DEF IInv, Crash
<1>2. \A w \in Workers : Half(w) \subseteq Docs
  BY <1>1, JobType DEF Half, AtWork
<1>3. TypeOK'
  <2>1. torn' \subseteq Docs
    BY <1>1, <1>2 DEF TypeOK
  <2>2. job' \in [Workers -> {Idle} \cup Ingesting \cup Erasing]
    BY <1>1
  <2> QED BY <1>1, <2>1, <2>2 DEF TypeOK
<1>4. \A w \in Workers : ~AtWork(w)' /\ At(w, "idle")'
  BY <1>1 DEF AtWork, At, Idle
<1>5. ASSUME NEW d \in Docs, d \notin torn' PROVE Follows(d)'
  <2>1. d \notin torn /\ \A w \in Workers : d \notin Half(w)
    BY <1>1, <1>5
  <2>2. \A w \in Busy(d) : w \in Workers /\ AtWork(w) /\ job[w].doc = d /\ job[w].clean
    BY <2>1 DEF Busy, AtWork, IInv, Clean
  <2>3. \A w \in Busy(d) : job[w].pc \in {"hashed", "saved"}
    BY <1>1, <2>1, <2>2 DEF Half, AtWork, TypeOK, Idle, Ingesting, Erasing
  <2>4. CASE \A w \in Busy(d) : At(w, "hashed")
    <3>1. Follows(d)
      BY <2>1, <2>4 DEF IInv, Untouched
    <3> QED BY <1>1, <3>1 DEF Follows
  <2>5. CASE \E w \in Busy(d) : job[w].pc = "saved"
    <3>1. PICK w \in Workers : AtWork(w) /\ job[w].clean /\ job[w].doc = d /\ job[w].pc = "saved"
      BY <2>2, <2>5
    <3>2. /\ reg[d] = [version |-> job[w].version, tenant |-> job[w].tenant]
          /\ Of(vec, d) = Points(d, job[w].version, job[w].tenant)
      BY <3>1 DEF IInv, Done
    <3>3. reg[d] # None
      BY <1>1, <3>1, <3>2, JobType, CorpusAssumption DEF Rows, Ingesting
    <3> QED BY <1>1, <3>2, <3>3 DEF Follows
  <2> QED BY <2>3, <2>4, <2>5 DEF At
<1> QED BY <1>3, <1>4, <1>5 DEF IInv, Clean, Untouched

\* _rebuild_bm25 gives every registered document its terms.
LEMMA RestartKeeps ==
  ASSUME IInv, Restart
  PROVE  IInv'
<1>1. /\ TypeOK /\ ~up /\ up' = TRUE /\ UNCHANGED <<reg, vec, job, torn>>
      /\ words' = UNION {Terms(d, reg[d].version) : d \in {e \in Docs : reg[e] # None}}
  BY DEF IInv, Restart
<1>2. \A d \in Docs : reg[d] # None => reg[d].version \in Versions
  BY <1>1 DEF TypeOK, Rows
<1>3. \A d \in Docs : reg[d] # None =>
        /\ \A x \in Terms(d, reg[d].version) : x.doc = d /\ x.version = reg[d].version
        /\ Single(Terms(d, reg[d].version))
        /\ Terms(d, reg[d].version) \subseteq [doc : Docs, at : Nat \ {0}, version : Versions]
  BY <1>2, TermsAre
<1>4. \A x : x \in words' <=> \E d \in Docs : reg[d] # None /\ x \in Terms(d, reg[d].version)
  BY <1>1
<1>5. TypeOK'
  <2>1. words' \subseteq [doc : Docs, at : Nat \ {0}, version : Versions]
    BY <1>3, <1>4
  <2>2. Single(vec') /\ Single(words')
    BY <1>1, <1>3, <1>4 DEF TypeOK, Single
  <2> QED BY <1>1, <2>1, <2>2 DEF TypeOK, Single
<1>6. \A w \in Workers : At(w, "idle") /\ ~AtWork(w)
  BY <1>1 DEF IInv, At, AtWork
<1>7. \A w \in Workers : ~AtWork(w)'
  BY <1>1, <1>6 DEF AtWork
<1>8. ASSUME NEW d \in Docs, d \notin torn PROVE Follows(d)'
  <2>1. Follows(d)
    BY <1>6, <1>8 DEF IInv, Untouched, Busy, AtWork
  <2>2. \A x \in Of(words', d) : reg[d] # None /\ x \in Terms(d, reg[d].version)
    BY <1>3, <1>4 DEF Of
  <2>3. CASE reg[d] = None
    BY <1>1, <2>1, <2>2, <2>3 DEF Follows
  <2>4. CASE reg[d] # None
    <3>1. Terms(d, reg[d].version) \subseteq words'
      BY <1>4, <2>4
    <3>2. \A x \in Of(words', d) : x.version = reg[d].version
      BY <1>3, <2>2
    <3> QED BY <1>1, <2>1, <2>4, <3>1, <3>2 DEF Follows
  <2> QED BY <2>3, <2>4
<1> QED BY <1>1, <1>5, <1>7, <1>8 DEF IInv, Clean, Untouched

------------------------------------------------------------------------------
(* The invariants *)

\* Nothing is registered.
LEMMA InitHolds ==
  ASSUME Init
  PROVE  IInv
<1>1. TypeOK
  BY DEF Init, TypeOK
<1>2. \A w \in Workers : ~AtWork(w)
  BY DEF Init, AtWork, Idle
<1>3. \A d \in Docs : Follows(d)
  BY DEF Init, Follows, Of
<1> QED BY <1>1, <1>2, <1>3 DEF IInv, Clean, Untouched, Init

\* IInv is inductive.
LEMMA StepKeeps ==
  ASSUME IInv, [Next]_vars
  PROVE  IInv'
<1>1. CASE UNCHANGED vars
  <2>1. TypeOK'
    BY <1>1 DEF IInv, TypeOK, vars
  <2>2. \A d : Busy(d)' = Busy(d)
    BY <1>1 DEF Busy, vars
  <2>3. \A w : (AtWork(w)' <=> AtWork(w)) /\ (Done(w)' <=> Done(w)) /\ \A p : At(w, p)' <=> At(w, p)
    BY <1>1 DEF AtWork, Done, At, vars
  <2>4. \A d : Follows(d)' <=> Follows(d)
    BY <1>1 DEF Follows, vars
  <2> QED BY <1>1, <2>1, <2>2, <2>3, <2>4 DEF IInv, Clean, Untouched, vars
<1>2. ASSUME NEW w \in Workers, JobStep(w) PROVE IInv'
  <2>1. CASE \E d \in Docs, v \in Versions, t \in Tenants : Ingest(w, d, v, t)
    BY <2>1, IngestKeeps
  <2>2. CASE Clear(w) \/ Upsert(w) \/ Save(w) \/ Index(w)
    BY <2>2, ClearKeeps, UpsertKeeps, SaveKeeps, IndexKeeps
  <2>3. CASE \/ \E d \in Docs : EraseDocument(w, d) \/ EraseMissing(w, d)
             \/ \E t \in Tenants : EraseTenant(w, t)
    BY <2>3, OtherErasureKeeps
  <2>4. CASE \E d \in Docs : Drop(w, d)
    BY <2>4, DropKeeps
  <2>5. CASE Wipe(w) \/ Unindex(w) \/ Abort(w)
    BY <2>5, WipeKeeps, UnindexKeeps, AbortKeeps
  <2> QED BY <1>2, <2>1, <2>2, <2>3, <2>4, <2>5 DEF JobStep
<1> QED BY <1>1, <1>2, CrashKeeps, RestartKeeps DEF Next

\* The strengthened invariant, for any documents, versions and jobs.
THEOREM Inductive == Spec => []IInv
<1>1. Init => IInv
  BY InitHolds
<1>2. IInv /\ [Next]_vars => IInv'
  BY StepKeeps
<1> QED BY <1>1, <1>2, PTL DEF Spec

\* Types, and one entry for a chunk id in either index.
THEOREM Typed == Spec => []TypeOK
<1>1. IInv => TypeOK
  BY DEF IInv
<1> QED BY <1>1, Inductive, PTL

\* Outside of changes that were cut short or overlapped, retrieval finds a document
\* exactly as the registry has it.
THEOREM RegistryFollowed == Spec => []IndexesFollowRegistry
<1>1. IInv => IndexesFollowRegistry
  BY DEF IInv, Untouched, IndexesFollowRegistry, Follows
<1> QED BY <1>1, Inductive, PTL

------------------------------------------------------------------------------
(*****************************************************************************)
(* Seeding, for any laws, portals, calls and excerpts, and any processes.    *)
(*                                                                           *)
(* A part of a page is in a file because its writer died or failed or a      *)
(* scraper raced it, or else its writer is still at it (ShortCached); no page*)
(* in memory that is put into the corpus is a part for any other reason      *)
(* (PagesVerify), and an answer is a page whole until it is written.  Past   *)
(* the lock a process has it (Held), so that what it has done so far, group by*)
(* group (Seeded), only a scraper can undo, and that marks it as stirred.    *)
(*****************************************************************************)
Pages == UNION {[S -> Contents] : S \in SUBSET Sources}
States == [pc : {"out", "lock", "fill", "write", "load", "put", "count"}, todo : SUBSET AllDocs,
           group : 0 .. 3, page : Pages, force : BOOLEAN]

SeedingTypes ==
  /\ cache \in [Sources -> Contents] /\ registry \in [AllDocs -> Contents]
  /\ proc \in [Procs -> States]

Answers == {"whole", "like", "wrong"}

\* What a process of either kind has in hand where it is.
Placed(p) ==
  /\ ProcAt(p, "write") => \E s \in Sources :
       DOMAIN proc[p].page = {s} /\ proc[p].page[s] \in Answers
  /\ p \in Scrapers => proc[p].pc \notin {"lock", "load", "count"}
  /\ p \in Scrapers /\ ProcAt(p, "put") => \E s \in Sources : DOMAIN proc[p].page = {s}
  /\ p \notin Scrapers /\ ProcAt(p, "put") => proc[p].todo \subseteq DOMAIN proc[p].page \cup Samples
  /\ p \notin Scrapers /\ proc[p].pc \in {"load", "put"} => proc[p].group \in 1 .. 3

\* A process past the lock has it.
Held(p) == p \notin Scrapers /\ proc[p].pc \notin {"out", "lock"} => lock = p

\* Whoever reads a part of a page, it was cut or raced.
Blamed(s)   == s \in cut \cup raced
ShortCached == \A s \in Sources : cache[s] = "short" =>
  Blamed(s) \/ \E q \in Procs : Writing(q, s)
PagesVerify(p) == ProcAt(p, "put") => \A s \in DOMAIN proc[p].page :
  Verifies(proc[p].page[s]) /\ (proc[p].page[s] = "short" => Blamed(s))

\* What the corpus has, of one group or of the excerpts, is what the cache says.
GroupSeeded(g)  == \A s \in Group[g] : Verifies(cache[s]) => registry[s] = cache[s]
ExcerptSeeded(x) == \/ x \in DOMAIN Replaces /\ Verifies(cache[Replaces[x]])
                    \/ registry[x] # "none"

\* How far the seeding of p is, when nobody else has written under it.
Seeded(p) == p \notin Scrapers \cup stirred =>
  /\ proc[p].pc \in {"load", "put"} => \A g \in 1 .. proc[p].group - 1 : GroupSeeded(g)
  /\ ProcAt(p, "count") => \A g \in 1 .. 3 : GroupSeeded(g)
  /\ (proc[p].pc \in {"load", "put"} /\ proc[p].group > 1) \/ ProcAt(p, "count") =>
       \A x \in Samples : ExcerptSeeded(x)
  /\ ProcAt(p, "put") =>
       /\ DOMAIN proc[p].page = Loaded(proc[p].group)
       /\ \A s \in DOMAIN proc[p].page : proc[p].page[s] = cache[s]
       /\ \A s \in Group[proc[p].group] \ proc[p].todo : Verifies(cache[s]) => registry[s] = cache[s]
       /\ proc[p].group = 1 => \A x \in Samples \ proc[p].todo : ExcerptSeeded(x)

SeedingInv ==
  /\ SeedingTypes /\ ShortCached /\ WholeUnlessCut
  /\ \A p \in Procs : Placed(p) /\ Held(p) /\ PagesVerify(p) /\ Seeded(p)

------------------------------------------------------------------------------
(* Groups, pages, and the places a process comes to. *)

LEMMA Groups ==
  /\ Group[1] = Laws /\ Group[2] = Portals /\ Group[3] = Calls
  /\ \A g \in 1 .. 3 : Group[g] \subseteq Sources
  /\ \A s \in Sources : \E g \in 1 .. 3 : s \in Group[g]
<1>1. Group[1] = Laws /\ Group[2] = Portals /\ Group[3] = Calls
  BY DEF Group
<1>2. \A g \in 1 .. 3 : g = 1 \/ g = 2 \/ g = 3
  OBVIOUS
<1>3. 1 \in 1 .. 3 /\ 2 \in 1 .. 3 /\ 3 \in 1 .. 3
  OBVIOUS
<1> QED BY <1>1, <1>2, <1>3 DEF Sources

LEMMA PagesOf ==
  ASSUME NEW S \in SUBSET Sources, NEW f \in [S -> Contents]
  PROVE  f \in Pages
BY DEF Pages

LEMMA PageTyped ==
  ASSUME NEW f \in Pages
  PROVE  /\ DOMAIN f \subseteq Sources
         /\ \A s \in DOMAIN f : f[s] \in Contents
<1>1. PICK S \in SUBSET Sources : f \in [S -> Contents]
  BY DEF Pages
<1> QED BY <1>1

LEMMA OutTyped ==
  /\ Out \in States /\ Out.pc = "out" /\ Out.todo = {} /\ Out.group = 0
  /\ Out.page = Blank /\ Out.force = FALSE /\ Blank \in Pages /\ DOMAIN Blank = {}
<1>1. Blank \in [{} -> Contents] /\ {} \in SUBSET Sources
  BY DEF Blank
<1>2. Blank \in Pages
  BY <1>1, PagesOf
<1> QED BY <1>1, <1>2 DEF Out, States

\* A state changed in its place, its list and its page is a state.
LEMMA StateChanged ==
  ASSUME NEW r \in States, NEW pc \in {"out", "lock", "fill", "write", "load", "put", "count"},
         NEW todo \in SUBSET AllDocs, NEW page \in Pages, NEW force \in BOOLEAN
  PROVE  /\ [r EXCEPT !.pc = pc, !.todo = todo, !.page = page] \in States
         /\ [r EXCEPT !.pc = pc, !.page = page] \in States
         /\ [r EXCEPT !.pc = pc, !.todo = todo, !.force = force] \in States
         /\ [r EXCEPT !.pc = pc, !.todo = todo] \in States
         /\ [r EXCEPT !.todo = todo] \in States
<1> HIDE DEF Pages
<1> QED BY DEF States

LEMMA StateMoved ==
  ASSUME NEW r \in States, NEW pc \in {"out", "lock", "fill", "write", "load", "put", "count"}
  PROVE  [r EXCEPT !.pc = pc] \in States
<1> HIDE DEF Pages
<1> QED BY DEF States

LEMMA LoadingTyped ==
  ASSUME NEW g \in 1 .. 4
  PROVE  /\ Loading(g) \in States
         /\ g \in 1 .. 3 => Loading(g).pc = "load" /\ Loading(g).group = g
         /\ g = 4 => Loading(g).pc = "count"
<1>1. g <= 3 <=> g \in 1 .. 3
  OBVIOUS
<1>2. CASE g \in 1 .. 3
  <2>1. Loading(g) = [pc |-> "load", todo |-> {}, group |-> g, page |-> Blank, force |-> FALSE]
    BY <1>1, <1>2 DEF Loading, Out
  <2>2. g \in 0 .. 3 /\ g # 4
    BY <1>2
  <2> QED BY <1>2, <2>1, <2>2, OutTyped DEF States
<1>3. CASE g = 4
  <2>1. ~(g <= 3)
    BY <1>3
  <2>2. Loading(g) = [pc |-> "count", todo |-> {}, group |-> 0, page |-> Blank, force |-> FALSE]
    BY <2>1 DEF Loading, Out
  <2>3. Blank \in Pages /\ {} \in SUBSET AllDocs
    BY OutTyped
  <2>4. Loading(g) \in States
    BY <2>2, <2>3 DEF States
  <2>5. Loading(g).pc = "count" /\ g \notin 1 .. 3
    BY <1>3, <2>2
  <2> QED BY <2>4, <2>5
<1> QED BY <1>2, <1>3

\* With its last entry a scraper is out and a seeder loads the first group.
LEMMA AfterTyped ==
  ASSUME SeedingTypes, NEW p \in Procs, NEW s
  PROVE  /\ After(p, s) \in States
         /\ \/ After(p, s).pc = "fill"
            \/ p \in Scrapers /\ After(p, s).pc = "out"
            \/ p \notin Scrapers /\ After(p, s).pc = "load" /\ After(p, s).group = 1
<1>1. proc[p] \in States
  BY DEF SeedingTypes
<1>2. CASE proc[p].todo # {s}
  <2>1. After(p, s) = [proc[p] EXCEPT !.pc = "fill", !.todo = @ \ {s}, !.page = Blank]
    BY <1>2 DEF After
  <2>2. proc[p].todo \ {s} \in SUBSET AllDocs
    BY <1>1 DEF States
  <2>3. "fill" \in {"out", "lock", "fill", "write", "load", "put", "count"} /\ Blank \in Pages
    BY OutTyped
  <2>5. [proc[p] EXCEPT !.pc = "fill", !.todo = proc[p].todo \ {s}, !.page = Blank] \in States
    BY <1>1, <2>2, <2>3, StateChanged
  <2>4. After(p, s).pc = "fill"
    BY <1>1, <2>1 DEF States
  <2> QED BY <2>1, <2>4, <2>5
<1>3. CASE proc[p].todo = {s} /\ p \in Scrapers
  BY <1>3, OutTyped DEF After
<1>4. CASE proc[p].todo = {s} /\ p \notin Scrapers
  BY <1>4, LoadingTyped DEF After
<1> QED BY <1>2, <1>3, <1>4

\* A step of p to r leaves the other processes where they are.
LEMMA GotoTyped ==
  ASSUME SeedingTypes, NEW p \in Procs, NEW r \in States, Goto(p, r)
  PROVE  /\ proc' \in [Procs -> States] /\ proc'[p] = r
         /\ \A q \in Procs : q # p => proc'[q] = proc[q]
BY DEF SeedingTypes, Goto

------------------------------------------------------------------------------
(* What a step of p keeps for the others, and what it has to establish for p. *)

\* p leaves the lock to others, and either writes nothing or is noticed.
Fair(p) ==
  /\ cut \subseteq cut' /\ raced \subseteq raced'
  /\ lock' # lock => lock \in {p, Nobody}
  /\ \/ UNCHANGED <<cache, registry>> /\ stirred \ {p} \subseteq stirred'
     \/ Stir(p)

LEMMA OthersKept ==
  ASSUME SeedingInv, NEW p \in Procs, NEW r \in States, Goto(p, r), Fair(p),
         NEW q \in Procs, q # p
  PROVE  Placed(q)' /\ Held(q)' /\ PagesVerify(q)' /\ Seeded(q)'
<1>1. proc'[q] = proc[q]
  BY GotoTyped DEF SeedingInv
<1>2. Placed(q) /\ Held(q) /\ PagesVerify(q) /\ Seeded(q) /\ Nobody # q
  BY SeedingAssumption DEF SeedingInv
<1>3. Placed(q)'
  BY <1>1, <1>2 DEF Placed, ProcAt
<1>4. Held(q)'
  BY <1>1, <1>2 DEF Held, Fair
<1>5. PagesVerify(q)'
  BY <1>1, <1>2 DEF PagesVerify, ProcAt, Blamed, Fair, Verifies
<1>6. Seeded(q)'
  <2> SUFFICES ASSUME q \notin Scrapers, q \notin stirred', proc[q].pc \notin {"out", "lock"}
               PROVE  Seeded(q)'
    BY <1>1 DEF Seeded, ProcAt
  <2>1. q \in Seeders \cup Boots
    BY DEF Procs
  <2>2. UNCHANGED <<cache, registry>> /\ q \notin stirred
    BY <2>1 DEF Fair, Stir
  <2> QED BY <1>1, <1>2, <2>2 DEF Seeded, ProcAt, GroupSeeded, ExcerptSeeded, Loaded
<1> QED BY <1>3, <1>4, <1>5, <1>6

\* A process that is out, waits, fetches or begins to load has nothing to answer for.
LEMMA Landed ==
  ASSUME SeedingTypes, NEW p \in Procs, NEW r \in States, Goto(p, r),
         r.pc \in {"out", "lock", "fill"} \/ (r.pc = "load" /\ r.group = 1),
         p \in Scrapers => r.pc \in {"out", "fill"}
  PROVE  Placed(p)' /\ PagesVerify(p)' /\ Seeded(p)'
<1>1. proc'[p] = r
  BY GotoTyped
<1>2. Placed(p)' /\ PagesVerify(p)'
  BY <1>1 DEF Placed, PagesVerify, ProcAt
<1>3. Seeded(p)'
  <2>1. r.pc = "load" => \A g \in 1 .. r.group - 1 : FALSE
    OBVIOUS
  <2> QED BY <1>1, <2>1 DEF Seeded, ProcAt
<1> QED BY <1>2, <1>3

\* A file's part is accounted for as long as nobody but a writer that lives left it.
LEMMA ShortKept ==
  ASSUME SeedingInv, NEW p \in Procs, NEW r \in States, Goto(p, r), Fair(p), cache' = cache,
         ProcAt(p, "write") => DOMAIN proc[p].page \subseteq cut'
  PROVE  ShortCached'
<1>1. ASSUME NEW s \in Sources, cache[s] = "short"
      PROVE  Blamed(s)' \/ \E q \in Procs : Writing(q, s)'
  <2>1. CASE Blamed(s)
    BY <2>1 DEF Blamed, Fair
  <2>2. ASSUME NEW q \in Procs, Writing(q, s)
        PROVE  Blamed(s)' \/ \E x \in Procs : Writing(x, s)'
    <3>1. CASE q = p
      BY <2>2, <3>1 DEF Writing, Blamed
    <3>2. CASE q # p
      <4>1. proc'[q] = proc[q]
        BY <3>2, GotoTyped DEF SeedingInv
      <4> QED BY <2>2, <4>1 DEF Writing, ProcAt
    <3> QED BY <3>1, <3>2
  <2> QED BY <1>1, <2>1, <2>2 DEF SeedingInv, ShortCached
<1> QED BY <1>1 DEF ShortCached

\* The corpus is not worse for a step that does not write to it.
LEMMA WholeKept ==
  ASSUME WholeUnlessCut, registry' = registry, cut \subseteq cut', raced \subseteq raced'
  PROVE  WholeUnlessCut'
BY DEF WholeUnlessCut

\* What remains to be shown of a step of p that goes to r.
LEMMA Settled ==
  ASSUME SeedingInv, NEW p \in Procs, NEW r \in States, Goto(p, r), Fair(p),
         cache' \in [Sources -> Contents], registry' \in [AllDocs -> Contents],
         ShortCached', WholeUnlessCut', Placed(p)', Held(p)', PagesVerify(p)', Seeded(p)'
  PROVE  SeedingInv'
<1>1. proc' \in [Procs -> States]
  BY GotoTyped DEF SeedingInv
<1>2. ASSUME NEW q \in Procs
      PROVE  Placed(q)' /\ Held(q)' /\ PagesVerify(q)' /\ Seeded(q)'
  <2>1. CASE q = p
    BY <2>1
  <2>2. CASE q # p
    BY <2>2, OthersKept
  <2> QED BY <2>1, <2>2
<1> QED BY <1>1, <1>2 DEF SeedingInv, SeedingTypes

\* A step that writes nothing and has no page in hand afterwards.
LEMMA QuietStep ==
  ASSUME SeedingInv, NEW p \in Procs, NEW r \in States, Goto(p, r), Fair(p),
         UNCHANGED <<cache, registry>>,
         ProcAt(p, "write") => DOMAIN proc[p].page \subseteq cut',
         r.pc \in {"out", "lock", "fill"} \/ (r.pc = "load" /\ r.group = 1),
         p \in Scrapers => r.pc \in {"out", "fill"},
         p \notin Scrapers /\ r.pc \notin {"out", "lock"} => lock' = p
  PROVE  SeedingInv'
<1>1. SeedingTypes /\ WholeUnlessCut
  BY DEF SeedingInv
<1>2. Placed(p)' /\ PagesVerify(p)' /\ Seeded(p)'
  BY <1>1, Landed
<1>3. Held(p)'
  <2>1. proc'[p] = r
    BY <1>1, GotoTyped
  <2> QED BY <2>1 DEF Held
<1>4. ShortCached'
  BY ShortKept
<1>5. WholeUnlessCut'
  BY <1>1, WholeKept DEF Fair
<1>6. cache' \in [Sources -> Contents] /\ registry' \in [AllDocs -> Contents]
  BY <1>1 DEF SeedingTypes
<1> QED BY <1>2, <1>3, <1>4, <1>5, <1>6, Settled

------------------------------------------------------------------------------
(* Starting and ending *)

LEMMA StartKeeps ==
  ASSUME SeedingInv, NEW p \in Procs, Start(p)
  PROVE  SeedingInv'
<1> DEFINE r == [Out EXCEPT !.pc = "lock"]
<1>1. r \in States /\ r.pc = "lock"
  <2>1. "lock" \in {"out", "lock", "fill", "write", "load", "put", "count"}
    OBVIOUS
  <2>2. r \in States
    BY <2>1, OutTyped, StateMoved
  <2> QED BY <2>2, OutTyped DEF States
<1>2. p \notin Scrapers
  BY SeedingAssumption DEF Start
<1>3. Goto(p, r) /\ Fair(p) /\ ~ProcAt(p, "write")
  BY DEF Start, Fair, ProcAt
<1> HIDE DEF r
<1> QED BY <1>1, <1>2, <1>3, QuietStep DEF Start

LEMMA StartScraperKeeps ==
  ASSUME SeedingInv, NEW p \in Procs, StartScraper(p)
  PROVE  SeedingInv'
<1>1. PICK g \in 1 .. 3, force \in BOOLEAN, todo \in SUBSET AllDocs :
        Goto(p, [Out EXCEPT !.pc = "fill", !.todo = todo, !.force = force])
  BY Groups DEF StartScraper, AllDocs
<1> DEFINE r == [Out EXCEPT !.pc = "fill", !.todo = todo, !.force = force]
<1>2. r \in States /\ r.pc = "fill"
  <2>1. "fill" \in {"out", "lock", "fill", "write", "load", "put", "count"}
    OBVIOUS
  <2>2. r \in States
    BY <2>1, OutTyped, StateChanged
  <2> QED BY <2>2, OutTyped DEF States
<1>3. Goto(p, r) /\ Fair(p) /\ ~ProcAt(p, "write") /\ p \in Scrapers
  BY <1>1 DEF StartScraper, Fair, ProcAt
<1> HIDE DEF r
<1> QED BY <1>2, <1>3, QuietStep DEF StartScraper

LEMMA LockKeeps ==
  ASSUME SeedingInv, NEW p \in Procs, Lock(p)
  PROVE  SeedingInv'
<1>1. p \notin Scrapers
  BY DEF SeedingInv, Placed, Lock, ProcAt
<1>2. PICK r \in States : Goto(p, r) /\ (r.pc = "fill" \/ (r.pc = "load" /\ r.group = 1))
  <2>1. CASE p \in Seeders
    <3> DEFINE all == [Out EXCEPT !.pc = "fill", !.todo = Sources]
    <3>1. "fill" \in {"out", "lock", "fill", "write", "load", "put", "count"}
      OBVIOUS
    <3>2. all \in States
      BY <3>1, OutTyped, StateChanged DEF AllDocs
    <3>3. all.pc = "fill"
      BY OutTyped DEF States
    <3>4. Goto(p, all)
      BY <2>1 DEF Lock
    <3> HIDE DEF all
    <3> QED BY <3>2, <3>3, <3>4
  <2>2. CASE p \notin Seeders
    <3>1. Goto(p, Loading(1)) /\ 1 \in 1 .. 4 /\ 1 \in 1 .. 3
      BY <2>2 DEF Lock
    <3> QED BY <3>1, LoadingTyped
  <2> QED BY <2>1, <2>2
<1>3. Fair(p) /\ ~ProcAt(p, "write") /\ lock' = p
  BY DEF Lock, Free, Fair, ProcAt
<1> QED BY <1>1, <1>2, <1>3, QuietStep DEF Lock

LEMMA FinishKeeps ==
  ASSUME SeedingInv, NEW p \in Procs, Finish(p) \/ Dies(p)
  PROVE  SeedingInv'
<1>1. Goto(p, Out) /\ Out \in States /\ Out.pc = "out"
  BY OutTyped DEF Finish, Dies
<1>2. Fair(p) /\ UNCHANGED <<cache, registry>>
  BY DEF Finish, Dies, Fair, Unlocked
<1>3. ProcAt(p, "write") => DOMAIN proc[p].page \subseteq cut'
  BY DEF Finish, Dies, ProcAt
<1> QED BY <1>1, <1>2, <1>3, QuietStep

------------------------------------------------------------------------------
(* Fetching *)

\* The end of an entry, for a step that has written nothing.
LEMMA AfterKeeps ==
  ASSUME SeedingInv, NEW p \in Procs, NEW s, Goto(p, After(p, s)), Fair(p),
         UNCHANGED <<cache, registry, lock>>,
         ProcAt(p, "fill") \/ (ProcAt(p, "write") /\ DOMAIN proc[p].page \subseteq cut')
  PROVE  SeedingInv'
<1> DEFINE r == After(p, s)
<1>1. /\ r \in States
      /\ \/ r.pc = "fill"
         \/ p \in Scrapers /\ r.pc = "out"
         \/ p \notin Scrapers /\ r.pc = "load" /\ r.group = 1
  BY AfterTyped DEF SeedingInv
<1>2. p \notin Scrapers => lock' = p
  BY DEF SeedingInv, Held, ProcAt
<1>3. Goto(p, r) /\ (ProcAt(p, "write") => DOMAIN proc[p].page \subseteq cut')
  BY DEF ProcAt
<1> HIDE DEF r
<1> QED BY <1>1, <1>2, <1>3, QuietStep

LEMMA SkipKeeps ==
  ASSUME SeedingInv, NEW p \in Procs, NEW s \in Sources, Skip(p, s)
  PROVE  SeedingInv'
<1>1. Goto(p, After(p, s)) /\ Fair(p) /\ UNCHANGED <<cache, registry, lock>> /\ ProcAt(p, "fill")
  BY DEF Skip, Turn, Fair
<1> QED BY <1>1, AfterKeeps

LEMMA CachedKeeps ==
  ASSUME SeedingInv, NEW p \in Procs, NEW s \in Sources, Cached(p, s)
  PROVE  SeedingInv'
<1>1. Fair(p) /\ UNCHANGED <<cache, registry, lock>> /\ ProcAt(p, "fill")
  BY DEF Cached, Turn, Fair
<1>2. CASE p \in Scrapers /\ Verifies(cache[s])
  <2> DEFINE page == [x \in {s} |-> cache[x]]
             r    == [proc[p] EXCEPT !.pc = "put", !.page = page]
  <2>1. SeedingTypes /\ WholeUnlessCut /\ proc[p] \in States
    BY DEF SeedingInv, SeedingTypes
  <2>2. page \in Pages
    BY <2>1, PagesOf DEF SeedingTypes
  <2>3. r \in States
    BY <2>1, <2>2, StateChanged
  <2>4. r.pc = "put" /\ r.page = page
    BY <2>1 DEF States
  <2>5. Goto(p, r)
    BY <1>2 DEF Cached
  <2>6. DOMAIN page = {s} /\ page[s] = cache[s]
    OBVIOUS
  <2> HIDE DEF r, page
  <2>7. proc'[p] = r
    BY <2>1, <2>3, <2>5, GotoTyped
  <2>8. Placed(p)' /\ Held(p)' /\ Seeded(p)'
    BY <1>2, <2>4, <2>6, <2>7 DEF Placed, Held, Seeded, ProcAt
  <2>9. PagesVerify(p)'
    <3> SUFFICES Verifies(cache[s]) /\ (cache[s] = "short" => Blamed(s)')
      BY <2>4, <2>6, <2>7 DEF PagesVerify, ProcAt, Verifies, Blamed
    <3>1. CASE Blamed(s)
      BY <1>1, <1>2, <3>1 DEF Blamed, Fair
    <3>2. ASSUME NEW q \in Procs, Writing(q, s), cache[s] = "short"
          PROVE  s \in raced'
      BY <1>1, <1>2, <3>2 DEF Cached, Torn, Writing, ProcAt
    <3> QED BY <1>2, <3>1, <3>2 DEF SeedingInv, ShortCached, Blamed
  <2>10. ShortCached' /\ WholeUnlessCut'
    BY <1>1, <2>1, <2>3, <2>5, ShortKept, WholeKept DEF Fair, ProcAt
  <2> QED BY <1>1, <2>1, <2>3, <2>5, <2>8, <2>9, <2>10, Settled DEF SeedingTypes
<1>3. CASE ~(p \in Scrapers /\ Verifies(cache[s]))
  BY <1>1, <1>3, AfterKeeps DEF Cached
<1> QED BY <1>2, <1>3

\* The file is accounted for by the process that writes it.
LEMMA FetchKeeps ==
  ASSUME SeedingInv, NEW p \in Procs, NEW s \in Sources, NEW answer \in Answers,
         Fetch(p, s, answer)
  PROVE  SeedingInv'
<1> DEFINE page == [x \in {s} |-> answer]
           r    == [proc[p] EXCEPT !.pc = "write", !.page = page]
<1>1. SeedingTypes /\ WholeUnlessCut /\ proc[p] \in States /\ ProcAt(p, "fill")
  BY DEF SeedingInv, SeedingTypes, Fetch, Turn
<1>2. PICK part \in {"junk", "short"} : cache' = [cache EXCEPT ![s] = part]
  BY DEF Fetch
<1>3. page \in Pages /\ DOMAIN page = {s} /\ page[s] = answer
  <2>1. page \in [{s} -> Contents]
    BY DEF Contents, Answers
  <2> QED BY <2>1, PagesOf
<1>4. r \in States
  BY <1>1, <1>3, StateChanged
<1>5. r.pc = "write" /\ r.page = page
  BY <1>1 DEF States
<1>6. Goto(p, r)
  BY DEF Fetch
<1> HIDE DEF r, page
<1>7. proc'[p] = r /\ \A q \in Procs : q # p => proc'[q] = proc[q]
  BY <1>1, <1>4, <1>6, GotoTyped
<1>8. Fair(p)
  BY DEF Fetch, Fair
<1>9. Placed(p)' /\ PagesVerify(p)' /\ Seeded(p)'
  BY <1>3, <1>5, <1>7 DEF Placed, PagesVerify, Seeded, ProcAt
<1>10. Held(p)'
  BY <1>1, <1>7 DEF SeedingInv, Held, Fetch, ProcAt
<1>11. ShortCached'
  <2>1. ASSUME NEW x \in Sources, cache'[x] = "short"
        PROVE  Blamed(x)' \/ \E q \in Procs : Writing(q, x)'
    <3>1. CASE x = s
      <4>1. Writing(p, x)'
        BY <1>3, <1>5, <1>7, <3>1 DEF Writing, ProcAt
      <4> QED BY <4>1
    <3>2. CASE x # s
      <4>1. cache[x] = "short"
        BY <1>1, <1>2, <2>1, <3>2 DEF SeedingTypes
      <4>2. CASE Blamed(x)
        BY <1>8, <4>2 DEF Blamed, Fair
      <4>3. ASSUME NEW q \in Procs, Writing(q, x)
            PROVE  Writing(q, x)'
        BY <1>1, <1>7, <4>3 DEF Writing, ProcAt
      <4> QED BY <4>1, <4>2, <4>3 DEF SeedingInv, ShortCached
    <3> QED BY <3>1, <3>2
  <2> QED BY <2>1 DEF ShortCached
<1>12. WholeUnlessCut'
  BY <1>1, <1>8, WholeKept DEF Fetch, Fair
<1>13. cache' \in [Sources -> Contents] /\ registry' \in [AllDocs -> Contents]
  BY <1>1, <1>2 DEF SeedingTypes, Fetch, Contents
<1> QED BY <1>4, <1>6, <1>8, <1>9, <1>10, <1>11, <1>12, <1>13, Settled

\* The page in hand is of one entry.
LEMMA TheEntry ==
  ASSUME NEW p \in Procs, NEW s \in Sources, DOMAIN proc[p].page = {s}
  PROVE  (CHOOSE x \in Sources : x \in DOMAIN proc[p].page) = s
<1>1. \E x \in Sources : x \in DOMAIN proc[p].page
  BY Zenon
<1> QED BY <1>1

\* What a write that raised leaves in the file is accounted for from now on.
LEMMA WriteFailsKeeps ==
  ASSUME SeedingInv, NEW p \in Procs, WriteFails(p)
  PROVE  SeedingInv'
<1>1. ProcAt(p, "write")
  BY DEF WriteFails
<1>2. PICK s \in Sources : DOMAIN proc[p].page = {s}
  BY <1>1 DEF SeedingInv, Placed
<1>3. /\ cut' = cut \cup {s} /\ Goto(p, After(p, s))
      /\ UNCHANGED <<cache, registry, lock, raced, stirred>>
  BY <1>2, TheEntry DEF WriteFails
<1>4. Fair(p)
  BY <1>3 DEF Fair
<1> QED BY <1>1, <1>2, <1>3, <1>4, AfterKeeps

\* An answer is never a part.
LEMMA WrittenKeeps ==
  ASSUME SeedingInv, NEW p \in Procs, Written(p)
  PROVE  SeedingInv'
<1>1. SeedingTypes /\ WholeUnlessCut /\ proc[p] \in States /\ ProcAt(p, "write")
  BY DEF SeedingInv, SeedingTypes, Written
<1>2. PICK s \in Sources : DOMAIN proc[p].page = {s} /\ proc[p].page[s] \in Answers
  BY <1>1 DEF SeedingInv, Placed
<1> DEFINE a == proc[p].page[s]
<1>3. /\ cache' = [cache EXCEPT ![s] = a]
      /\ Goto(p, IF p \in Scrapers /\ Verifies(a) THEN [proc[p] EXCEPT !.pc = "put"] ELSE After(p, s))
  BY <1>2, TheEntry DEF Written
<1>4. Fair(p) /\ registry' = registry /\ lock' = lock
  BY DEF Written, Fair
<1>5. ASSUME NEW r \in States, Goto(p, r)
      PROVE  ShortCached'
  <2>1. \A q \in Procs : q # p => proc'[q] = proc[q]
    BY <1>1, <1>5, GotoTyped
  <2>2. ASSUME NEW x \in Sources, cache'[x] = "short"
        PROVE  Blamed(x)' \/ \E q \in Procs : Writing(q, x)'
    <3>1. x # s /\ cache[x] = "short"
      BY <1>1, <1>2, <1>3, <2>2 DEF SeedingTypes, Answers
    <3>2. CASE Blamed(x)
      BY <1>4, <3>2 DEF Blamed, Fair
    <3>3. ASSUME NEW q \in Procs, Writing(q, x)
          PROVE  Writing(q, x)'
      BY <1>2, <2>1, <3>1, <3>3 DEF Writing, ProcAt
    <3> QED BY <3>1, <3>2, <3>3 DEF SeedingInv, ShortCached
  <2> QED BY <2>2 DEF ShortCached
<1>6. WholeUnlessCut'
  BY <1>1, <1>4, WholeKept DEF Fair
<1>7. cache' \in [Sources -> Contents] /\ registry' \in [AllDocs -> Contents]
  BY <1>1, <1>2, <1>3, <1>4 DEF SeedingTypes, Contents, Answers
<1>8. CASE p \in Scrapers /\ Verifies(a)
  <2> DEFINE r == [proc[p] EXCEPT !.pc = "put"]
  <2>0. "put" \in {"out", "lock", "fill", "write", "load", "put", "count"}
    OBVIOUS
  <2>1. r \in States
    BY <1>1, <2>0, StateMoved
  <2>2. r.pc = "put" /\ r.page = proc[p].page
    BY <1>1 DEF States
  <2>3. Goto(p, r)
    BY <1>3, <1>8
  <2> HIDE DEF r
  <2>4. proc'[p] = r
    BY <1>1, <2>1, <2>3, GotoTyped
  <2>5. Placed(p)' /\ Held(p)' /\ Seeded(p)'
    BY <1>2, <1>8, <2>2, <2>4 DEF Placed, Held, Seeded, ProcAt
  <2>6. PagesVerify(p)'
    BY <1>2, <1>8, <2>2, <2>4 DEF PagesVerify, Verifies, ProcAt, Answers
  <2> QED BY <1>4, <1>5, <1>6, <1>7, <2>1, <2>3, <2>5, <2>6, Settled
<1>9. CASE ~(p \in Scrapers /\ Verifies(a))
  <2> DEFINE r == After(p, s)
  <2>1. /\ r \in States
        /\ \/ r.pc = "fill"
           \/ p \in Scrapers /\ r.pc = "out"
           \/ p \notin Scrapers /\ r.pc = "load" /\ r.group = 1
    BY <1>1, AfterTyped
  <2>2. Goto(p, r)
    BY <1>3, <1>9
  <2> HIDE DEF r
  <2>3. Placed(p)' /\ PagesVerify(p)' /\ Seeded(p)'
    BY <1>1, <2>1, <2>2, Landed
  <2>4. Held(p)'
    BY <1>1, <1>4, <2>1, <2>2, GotoTyped DEF SeedingInv, Held, ProcAt
  <2> QED BY <1>4, <1>5, <1>6, <1>7, <2>1, <2>2, <2>3, <2>4, Settled
<1> QED BY <1>8, <1>9

\* What a scraper ingests it has verified.
LEMMA PutScrapedKeeps ==
  ASSUME SeedingInv, NEW p \in Procs, PutScraped(p)
  PROVE  SeedingInv'
<1>1. /\ SeedingTypes /\ WholeUnlessCut /\ proc[p] \in States
      /\ p \in Scrapers /\ ProcAt(p, "put")
  BY DEF SeedingInv, SeedingTypes, PutScraped
<1>2. PICK s \in Sources : DOMAIN proc[p].page = {s}
  BY <1>1 DEF SeedingInv, Placed
<1> DEFINE r == After(p, s)
<1>3. registry' = [registry EXCEPT ![s] = proc[p].page[s]] /\ Goto(p, r)
  BY <1>2, TheEntry DEF PutScraped
<1>4. Fair(p) /\ cache' = cache /\ lock' = lock
  BY DEF PutScraped, Fair
<1>5. r \in States /\ r.pc \in {"out", "fill"}
  BY <1>1, AfterTyped
<1> HIDE DEF r
<1>6. Placed(p)' /\ PagesVerify(p)' /\ Seeded(p)'
  BY <1>1, <1>3, <1>5, Landed
<1>7. Held(p)'
  BY <1>1 DEF Held
<1>8. ShortCached'
  BY <1>1, <1>3, <1>4, <1>5, ShortKept DEF ProcAt
<1>9. Verifies(proc[p].page[s]) /\ (proc[p].page[s] = "short" => Blamed(s))
  BY <1>1, <1>2 DEF SeedingInv, PagesVerify
<1>10. WholeUnlessCut'
  BY <1>1, <1>3, <1>4, <1>9 DEF WholeUnlessCut, Fair, Blamed, Verifies, SeedingTypes, AllDocs
<1>11. cache' \in [Sources -> Contents] /\ registry' \in [AllDocs -> Contents]
  BY <1>1, <1>3, <1>4, <1>9 DEF SeedingTypes, Contents, Verifies
<1> QED BY <1>3, <1>4, <1>5, <1>6, <1>7, <1>8, <1>10, <1>11, Settled

------------------------------------------------------------------------------
(* Seeding *)

\* A seeding that is done with group g goes on to the next, or counts.
LEMMA NextGroup ==
  ASSUME SeedingTypes, NEW p \in Procs, p \notin Scrapers, NEW g \in 1 .. 3, Goto(p, Loading(g + 1)),
         p \notin stirred' => /\ \A h \in 1 .. g : GroupSeeded(h)'
                             /\ \A x \in Samples : ExcerptSeeded(x)'
  PROVE  Placed(p)' /\ PagesVerify(p)' /\ Seeded(p)'
<1> DEFINE r == Loading(g + 1)
<1>1. g + 1 \in 1 .. 4 /\ (g + 1 \in 1 .. 3 \/ g + 1 = 4)
  OBVIOUS
<1>2. /\ r \in States
      /\ \/ r.pc = "load" /\ r.group = g + 1 /\ g + 1 \in 1 .. 3
         \/ r.pc = "count" /\ g + 1 = 4
  BY <1>1, LoadingTyped
<1>3. Goto(p, r)
  OBVIOUS
<1> HIDE DEF r
<1>6. proc'[p] = r
  BY <1>2, <1>3, GotoTyped
<1>4. CASE r.pc = "load" /\ r.group = g + 1 /\ g + 1 \in 1 .. 3
  <2>1. Placed(p)' /\ PagesVerify(p)'
    BY <1>4, <1>6 DEF Placed, PagesVerify, ProcAt
  <2>2. g + 1 - 1 = g
    OBVIOUS
  <2>3. Seeded(p)'
    BY <1>4, <1>6, <2>2 DEF Seeded, ProcAt
  <2> QED BY <2>1, <2>3
<1>5. CASE r.pc = "count" /\ g + 1 = 4
  <2>1. Placed(p)' /\ PagesVerify(p)'
    BY <1>5, <1>6 DEF Placed, PagesVerify, ProcAt
  <2>2. g = 3
    BY <1>5
  <2>3. Seeded(p)'
    BY <1>5, <1>6, <2>2 DEF Seeded, ProcAt
  <2> QED BY <2>1, <2>3
<1> QED BY <1>2, <1>4, <1>5

LEMMA LoadKeeps ==
  ASSUME SeedingInv, NEW p \in Procs, Load(p)
  PROVE  SeedingInv'
<1> DEFINE g    == proc[p].group
           S    == Loaded(g)
           todo == S \cup (IF g = 1 THEN Excerpts(S) ELSE {})
           page == [s \in S |-> cache[s]]
           r    == [proc[p] EXCEPT !.pc = "put", !.todo = todo, !.page = page]
<1>1. SeedingTypes /\ WholeUnlessCut /\ proc[p] \in States /\ ProcAt(p, "load")
  BY DEF SeedingInv, SeedingTypes, Load
<1>2. p \notin Scrapers /\ g \in 1 .. 3 /\ lock = p /\ Seeded(p)
  BY <1>1 DEF SeedingInv, Placed, Held, ProcAt
<1>3. S \subseteq Group[g] /\ Group[g] \subseteq Sources
  BY <1>2, Groups DEF Loaded
<1>4. Fair(p) /\ UNCHANGED <<cache, registry, lock, stirred>> /\ raced' = raced \cup Torn(p, Group[g])
  BY DEF Load, Fair
<1>5. cache' \in [Sources -> Contents] /\ registry' \in [AllDocs -> Contents]
  BY <1>1, <1>4 DEF SeedingTypes
<1>6. WholeUnlessCut'
  BY <1>1, <1>4, WholeKept DEF Fair
<1>7. \A x \in DOMAIN Replaces : Replaces[x] \in Group[1]
  BY Groups, SeedingAssumption
<1>8. CASE todo = {}
  <2>1. Goto(p, Loading(g + 1)) /\ g + 1 \in 1 .. 4
    BY <1>2, <1>8 DEF Load
  <2>2. Loading(g + 1) \in States
    BY <2>1, LoadingTyped
  <2>3. GroupSeeded(g)
    BY <1>8 DEF GroupSeeded, Loaded
  <2>4. ASSUME p \notin stirred
        PROVE  (\A h \in 1 .. g : GroupSeeded(h)) /\ \A x \in Samples : ExcerptSeeded(x)
    <3>1. \A h \in 1 .. g - 1 : GroupSeeded(h)
      BY <1>1, <1>2, <2>4 DEF Seeded, ProcAt
    <3>2. \A h \in 1 .. g : h = g \/ h \in 1 .. g - 1
      BY <1>2
    <3>3. g = 1 => Samples = {}
      <4> SUFFICES ASSUME g = 1, NEW x \in Samples
                   PROVE  FALSE
        OBVIOUS
      <4>1. x \in DOMAIN Replaces /\ Replaces[x] \in S
        BY <1>8 DEF Excerpts
      <4> QED BY <1>8, <4>1
    <3>4. g > 1 => \A x \in Samples : ExcerptSeeded(x)
      BY <1>1, <1>2, <2>4 DEF Seeded, ProcAt
    <3>5. g = 1 \/ g > 1
      BY <1>2
    <3> QED BY <2>3, <3>1, <3>2, <3>3, <3>4, <3>5
  <2>5. p \notin stirred' => /\ \A h \in 1 .. g : GroupSeeded(h)'
                            /\ \A x \in Samples : ExcerptSeeded(x)'
    BY <1>4, <2>4 DEF GroupSeeded, ExcerptSeeded
  <2>6. Placed(p)' /\ PagesVerify(p)' /\ Seeded(p)'
    <3> HIDE DEF g
    <3> QED BY <1>1, <1>2, <2>1, <2>5, NextGroup
  <2>7. Held(p)'
    BY <1>2, <1>4 DEF Held
  <2>8. ShortCached'
    BY <1>1, <1>4, <2>1, <2>2, ShortKept DEF ProcAt
  <2> QED BY <1>4, <1>5, <1>6, <2>1, <2>2, <2>6, <2>7, <2>8, Settled
<1>9. CASE todo # {}
  <2>1. Goto(p, r)
    BY <1>9 DEF Load
  <2>2. page \in Pages
    BY <1>1, <1>3, PagesOf DEF SeedingTypes
  <2>3. todo \in SUBSET AllDocs
    BY <1>3 DEF AllDocs, Excerpts
  <2>4. DOMAIN page = S /\ \A s \in S : page[s] = cache[s]
    OBVIOUS
  <2>5. /\ todo \subseteq S \cup Samples /\ S \subseteq todo
        /\ g = 1 => \A x \in Samples \ todo : ExcerptSeeded(x)
    BY <1>7 DEF Excerpts, ExcerptSeeded, Loaded
  <2>6. "put" \in {"out", "lock", "fill", "write", "load", "put", "count"}
    OBVIOUS
  <2> HIDE DEF todo, page
  <2>7. r \in States
    BY <1>1, <2>2, <2>3, <2>6, StateChanged
  <2>8. r.pc = "put" /\ r.todo = todo /\ r.page = page /\ r.group = g
    BY <1>1 DEF States
  <2> HIDE DEF r
  <2>9. proc'[p] = r
    BY <1>1, <2>1, <2>7, GotoTyped
  <2>10. Placed(p)' /\ Held(p)'
    BY <1>2, <1>4, <2>4, <2>5, <2>8, <2>9 DEF Placed, Held, ProcAt
  <2>11. PagesVerify(p)'
    <3>1. ASSUME NEW s \in S
          PROVE  Verifies(cache[s]) /\ (cache[s] = "short" => Blamed(s)')
      <4>1. Verifies(cache[s]) /\ s \in Sources /\ s \in Group[g]
        BY <1>3, <3>1 DEF Loaded
      <4>2. CASE Blamed(s)
        BY <1>4, <4>1, <4>2 DEF Blamed, Fair
      <4>3. ASSUME NEW q \in Procs, Writing(q, s), cache[s] = "short"
            PROVE  s \in raced'
        <5>1. q # p /\ ProcAt(q, "write")
          BY <1>1, <4>3 DEF Writing, ProcAt
        <5>2. q \in Scrapers
          BY <1>2, <5>1 DEF SeedingInv, Held, ProcAt
        <5> QED BY <1>4, <4>1, <4>3, <5>1, <5>2 DEF Torn
      <4> QED BY <4>1, <4>2, <4>3 DEF SeedingInv, ShortCached, Blamed
    <3> QED BY <2>4, <2>8, <2>9, <3>1 DEF PagesVerify, ProcAt, Verifies, Blamed
  <2>12. Seeded(p)'
    <3> SUFFICES ASSUME p \notin stirred
                 PROVE  Seeded(p)'
      BY <1>4 DEF Seeded
    <3>1. /\ \A h \in 1 .. g - 1 : GroupSeeded(h)'
          /\ g > 1 => \A x \in Samples : ExcerptSeeded(x)'
      BY <1>1, <1>2, <1>4 DEF Seeded, ProcAt, GroupSeeded, ExcerptSeeded
    <3>2. S = {s \in Group[g] : Verifies(cache'[s])} /\ \A s \in Group[g] \ todo : ~Verifies(cache'[s])
      BY <1>4, <2>5 DEF Loaded
    <3>3. g = 1 => \A x \in Samples \ todo : ExcerptSeeded(x)'
      BY <1>4, <2>5 DEF ExcerptSeeded
    <3> HIDE DEF g, S
    <3>4. ProcAt(p, "put")' /\ proc'[p].group = g /\ proc'[p].page = page /\ proc'[p].todo = todo
      BY <2>8, <2>9 DEF ProcAt
    <3>5. /\ DOMAIN page = {s \in Group[g] : Verifies(cache'[s])}
          /\ \A s \in DOMAIN page : page[s] = cache'[s]
      BY <1>4, <2>4, <3>2
    <3>6. Loaded(proc[p].group)' = {s \in Group[g] : Verifies(cache'[s])}
      BY <3>4 DEF Loaded
    <3> QED BY <3>1, <3>2, <3>3, <3>4, <3>5, <3>6 DEF Seeded, ProcAt
  <2>13. ShortCached'
    BY <1>1, <1>4, <2>1, <2>7, ShortKept DEF ProcAt
  <2> QED BY <1>4, <1>5, <1>6, <2>1, <2>7, <2>10, <2>11, <2>12, <2>13, Settled
<1> QED BY <1>8, <1>9

LEMMA PutLoadedKeeps ==
  ASSUME SeedingInv, NEW p \in Procs, NEW d \in AllDocs, PutLoaded(p, d)
  PROVE  SeedingInv'
<1> DEFINE g    == proc[p].group
           page == proc[p].page
           todo == proc[p].todo
<1>1. SeedingTypes /\ WholeUnlessCut /\ proc[p] \in States /\ ProcAt(p, "put")
  BY DEF SeedingInv, SeedingTypes, PutLoaded
<1>2. /\ p \notin Scrapers /\ d \in todo /\ g \in 1 .. 3 /\ lock = p
      /\ todo \subseteq DOMAIN page \cup Samples /\ PagesVerify(p) /\ Seeded(p)
  BY <1>1 DEF SeedingInv, Placed, Held, ProcAt, PutLoaded
<1>3. DOMAIN page \subseteq Sources /\ todo \subseteq AllDocs
  BY <1>1, PageTyped DEF States
<1>4. registry' = [registry EXCEPT ![d] = IF d \in Samples THEN "whole" ELSE page[d]]
  BY DEF PutLoaded
<1>5. Fair(p) /\ UNCHANGED <<cache, lock, cut, raced>>
  BY DEF PutLoaded, Fair
<1>6. d \notin Samples => d \in DOMAIN page /\ Verifies(page[d]) /\ (page[d] = "short" => Blamed(d))
  BY <1>1, <1>2 DEF PagesVerify
<1>7. /\ registry' \in [AllDocs -> Contents]
      /\ registry'[d] = (IF d \in Samples THEN "whole" ELSE page[d])
      /\ \A e \in AllDocs : e # d => registry'[e] = registry[e]
  BY <1>1, <1>4, <1>6 DEF SeedingTypes, Verifies, Contents
<1>8. WholeUnlessCut'
  <2>1. ASSUME NEW s \in Sources
        PROVE  registry'[s] \in {"none", "short", "like", "whole"} /\ (registry'[s] = "short" => s \in cut \cup raced)
    <3>1. CASE s = d
      <4>1. d \notin Samples
        BY <3>1, SeedingAssumption
      <4> QED BY <1>6, <1>7, <3>1, <4>1 DEF Verifies, Blamed
    <3>2. CASE s # d
      BY <1>1, <1>7, <3>2 DEF WholeUnlessCut, AllDocs
    <3> QED BY <3>1, <3>2
  <2> QED BY <1>5, <2>1 DEF WholeUnlessCut
<1>9. cache' \in [Sources -> Contents]
  BY <1>1, <1>5 DEF SeedingTypes
\* Whatever was seeded stays so, and d is seeded now.
<1>10. ASSUME p \notin stirred'
       PROVE  /\ p \notin stirred
              /\ d \in Sources => page[d] = cache[d]
              /\ \A s \in Sources : registry[s] = cache[s] => registry'[s] = cache'[s]
              /\ d \in Sources => registry'[d] = cache'[d]
              /\ \A x \in Samples : ExcerptSeeded(x) => ExcerptSeeded(x)'
              /\ d \in Samples => ExcerptSeeded(d)'
  <2>1. p \notin stirred
    BY <1>10 DEF PutLoaded, Stir
  <2>2. d \in Sources => d \notin Samples /\ page[d] = cache[d]
    BY <1>1, <1>2, <1>6, <2>1, SeedingAssumption DEF Seeded
  <2>3. \A s \in Sources : registry[s] = cache[s] => registry'[s] = cache'[s]
    BY <1>5, <1>7, <2>2 DEF AllDocs
  <2>4. d \in Sources => registry'[d] = cache'[d]
    BY <1>5, <1>7, <2>2
  <2>5. d \in Samples => ExcerptSeeded(d)'
    BY <1>7 DEF ExcerptSeeded
  <2>6. \A x \in Samples : ExcerptSeeded(x) => ExcerptSeeded(x)'
    BY <1>5, <1>7, <2>5 DEF ExcerptSeeded, AllDocs
  <2> QED BY <2>1, <2>2, <2>3, <2>4, <2>5, <2>6
<1>11. ASSUME p \notin stirred'
       PROVE  /\ \A h \in 1 .. g - 1 : GroupSeeded(h)'
              /\ g > 1 => \A x \in Samples : ExcerptSeeded(x)'
              /\ \A s \in Group[g] \ (todo \ {d}) : Verifies(cache'[s]) => registry'[s] = cache'[s]
              /\ g = 1 => \A x \in Samples \ (todo \ {d}) : ExcerptSeeded(x)'
              /\ DOMAIN page = {s \in Group[g] : Verifies(cache'[s])}
              /\ \A s \in DOMAIN page : page[s] = cache'[s]
  <2>1. Seeded(p) /\ p \notin Scrapers \cup stirred
    BY <1>2, <1>10, <1>11
  <2>2. ASSUME NEW h \in 1 .. g - 1
        PROVE  GroupSeeded(h)'
    <3>1. GroupSeeded(h) /\ h \in 1 .. 3
      BY <1>1, <1>2, <2>1 DEF Seeded, ProcAt
    <3>2. Group[h] \subseteq Sources
      BY <3>1, Groups
    <3> QED BY <1>5, <1>10, <1>11, <3>1, <3>2 DEF GroupSeeded
  <2>3. g > 1 => \A x \in Samples : ExcerptSeeded(x)'
    BY <1>1, <1>10, <1>11, <2>1 DEF Seeded, ProcAt
  <2>4. ASSUME NEW s \in Group[g] \ (todo \ {d}), Verifies(cache'[s])
        PROVE  registry'[s] = cache'[s]
    <3>1. s \in Sources
      BY <1>2, Groups
    <3>2. CASE s = d
      BY <1>10, <1>11, <3>1, <3>2
    <3>3. CASE s # d
      BY <1>1, <1>5, <1>10, <1>11, <2>1, <2>4, <3>1, <3>3 DEF Seeded
    <3> QED BY <3>2, <3>3
  <2>5. g = 1 => \A x \in Samples \ (todo \ {d}) : ExcerptSeeded(x)'
    BY <1>1, <1>10, <1>11, <2>1 DEF Seeded
  <2>6. /\ DOMAIN page = {s \in Group[g] : Verifies(cache'[s])}
        /\ \A s \in DOMAIN page : page[s] = cache'[s]
    BY <1>1, <1>5, <2>1 DEF Seeded, Loaded
  <2> QED BY <2>2, <2>3, <2>4, <2>5, <2>6
<1>12. CASE todo = {d}
  <2>1. Goto(p, Loading(g + 1)) /\ g + 1 \in 1 .. 4
    BY <1>2, <1>12 DEF PutLoaded
  <2>2. Loading(g + 1) \in States
    BY <2>1, LoadingTyped
  <2>3. p \notin stirred' => /\ \A h \in 1 .. g : GroupSeeded(h)'
                            /\ \A x \in Samples : ExcerptSeeded(x)'
    <3> SUFFICES ASSUME p \notin stirred'
                 PROVE  (\A h \in 1 .. g : GroupSeeded(h)') /\ \A x \in Samples : ExcerptSeeded(x)'
      OBVIOUS
    <3>1. \A s \in Group[g] : Verifies(cache'[s]) => registry'[s] = cache'[s]
      BY <1>11, <1>12
    <3>2. ASSUME NEW h \in 1 .. g
          PROVE  GroupSeeded(h)'
      <4>1. h = g \/ h \in 1 .. g - 1
        BY <1>2
      <4> QED BY <1>11, <3>1, <4>1 DEF GroupSeeded
    <3>3. \A x \in Samples : ExcerptSeeded(x)'
      <4>1. g = 1 \/ g > 1
        BY <1>2
      <4> QED BY <1>11, <1>12, <4>1
    <3> QED BY <3>2, <3>3
  <2>4. Placed(p)' /\ PagesVerify(p)' /\ Seeded(p)'
    <3> HIDE DEF g
    <3> QED BY <1>1, <1>2, <2>1, <2>3, NextGroup
  <2>5. Held(p)'
    BY <1>2, <1>5 DEF Held
  <2>6. ShortCached'
    BY <1>1, <1>5, <2>1, <2>2, ShortKept DEF ProcAt
  <2> QED BY <1>5, <1>7, <1>8, <1>9, <2>1, <2>2, <2>4, <2>5, <2>6, Settled
<1>13. CASE todo # {d}
  <2> DEFINE rest == todo \ {d}
             r    == [proc[p] EXCEPT !.todo = rest]
  <2>1. Goto(p, r)
    BY <1>13 DEF PutLoaded
  <2>2. rest \in SUBSET AllDocs
    BY <1>3
  <2>3. r \in States
    <3>1. /\ "put" \in {"out", "lock", "fill", "write", "load", "put", "count"}
          /\ page \in Pages /\ TRUE \in BOOLEAN
      BY <1>1 DEF States
    <3> HIDE DEF rest
    <3> QED BY <1>1, <2>2, <3>1, StateChanged
  <2>4. r.pc = "put" /\ r.todo = rest /\ r.page = page /\ r.group = g
    BY <1>1 DEF States, ProcAt
  <2> HIDE DEF r
  <2>5. proc'[p] = r
    BY <1>1, <2>1, <2>3, GotoTyped
  <2>6. Placed(p)' /\ Held(p)'
    BY <1>2, <1>5, <2>4, <2>5 DEF Placed, Held, ProcAt
  <2>7. PagesVerify(p)'
    BY <1>1, <1>2, <1>5, <2>4, <2>5 DEF PagesVerify, ProcAt, Blamed, Fair, Verifies
  <2>8. Seeded(p)'
    <3> SUFFICES ASSUME p \notin stirred'
                 PROVE  Seeded(p)'
      BY DEF Seeded
    <3>1. ProcAt(p, "put")' /\ proc'[p].group = g /\ proc'[p].page = page /\ proc'[p].todo = rest
      BY <2>4, <2>5 DEF ProcAt
    <3>2. Loaded(proc[p].group)' = {s \in Group[g] : Verifies(cache'[s])}
      BY <3>1 DEF Loaded
    <3> HIDE DEF g, page
    <3> QED BY <1>11, <3>1, <3>2 DEF Seeded, ProcAt
  <2>9. ShortCached'
    BY <1>1, <1>5, <2>1, <2>3, ShortKept DEF ProcAt
  <2> QED BY <1>5, <1>7, <1>8, <1>9, <2>1, <2>3, <2>6, <2>7, <2>8, <2>9, Settled
<1> QED BY <1>12, <1>13

------------------------------------------------------------------------------
(* The invariant, and what it says of the corpus. *)

LEMMA SeedingInitially ==
  ASSUME SeedingInit
  PROVE  SeedingInv
<1>1. SeedingTypes
  BY OutTyped DEF SeedingInit, SeedingTypes, Contents
<1>2. ShortCached /\ WholeUnlessCut
  BY DEF SeedingInit, ShortCached, WholeUnlessCut, AllDocs
<1>3. ASSUME NEW p \in Procs
      PROVE  Placed(p) /\ Held(p) /\ PagesVerify(p) /\ Seeded(p)
  <2>1. proc[p].pc = "out"
    BY OutTyped DEF SeedingInit
  <2> QED BY <2>1 DEF Placed, Held, PagesVerify, Seeded, ProcAt
<1> QED BY <1>1, <1>2, <1>3 DEF SeedingInv

LEMMA SeedingStays ==
  ASSUME SeedingInv, UNCHANGED seedingVars
  PROVE  SeedingInv'
<1>1. SeedingTypes' /\ WholeUnlessCut'
  BY DEF SeedingInv, SeedingTypes, WholeUnlessCut, seedingVars
<1>2. ShortCached'
  BY DEF SeedingInv, ShortCached, Blamed, Writing, ProcAt, seedingVars
<1>3. ASSUME NEW p \in Procs
      PROVE  Placed(p)' /\ Held(p)' /\ PagesVerify(p)' /\ Seeded(p)'
  <2>1. Placed(p) /\ Held(p) /\ PagesVerify(p) /\ Seeded(p)
    BY DEF SeedingInv
  <2>2. Placed(p)' /\ Held(p)' /\ PagesVerify(p)'
    BY <2>1 DEF Placed, Held, PagesVerify, Blamed, ProcAt, seedingVars
  <2>3. Seeded(p)'
    BY <2>1 DEF Seeded, GroupSeeded, ExcerptSeeded, Loaded, ProcAt, seedingVars
  <2> QED BY <2>2, <2>3
<1> QED BY <1>1, <1>2, <1>3 DEF SeedingInv

\* One step per action of a process.
LEMMA SeedingStep ==
  ASSUME SeedingInv, SeedingNext
  PROVE  SeedingInv'
<1>1. PICK p \in Procs : \/ Start(p) \/ StartScraper(p) \/ Lock(p) \/ Work(p)
                         \/ WriteFails(p) \/ Dies(p)
  BY DEF SeedingNext
<1>2. CASE Start(p) \/ StartScraper(p) \/ Lock(p) \/ WriteFails(p) \/ Dies(p)
  BY <1>2, StartKeeps, StartScraperKeeps, LockKeeps, WriteFailsKeeps, FinishKeeps
<1>3. ASSUME Work(p)
      PROVE  SeedingInv'
  <2>1. CASE Written(p) \/ PutScraped(p) \/ Load(p) \/ Finish(p)
    BY <2>1, WrittenKeeps, PutScrapedKeeps, LoadKeeps, FinishKeeps
  <2>2. ASSUME NEW s \in Sources, Cached(p, s) \/ Skip(p, s)
        PROVE  SeedingInv'
    BY <2>2, CachedKeeps, SkipKeeps
  <2>3. ASSUME NEW s \in Sources, NEW answer \in Answers, Fetch(p, s, answer)
        PROVE  SeedingInv'
    BY <2>3, FetchKeeps
  <2>4. ASSUME NEW d \in AllDocs, PutLoaded(p, d)
        PROVE  SeedingInv'
    BY <2>4, PutLoadedKeeps
  <2> QED BY <1>3, <2>1, <2>2, <2>3, <2>4 DEF Work, Answers
<1> QED BY <1>1, <1>2, <1>3

\* The inductive invariant: where parts of pages are, and how far each seeding has come.
LEMMA SeedingInvariant == SeedingSpec => []SeedingInv
<1>1. SeedingInv /\ [SeedingNext]_seedingVars => SeedingInv'
  BY SeedingStep, SeedingStays
<1> QED BY <1>1, SeedingInitially, PTL DEF SeedingSpec

\* No text in the corpus is of a page without the phrases looked for, and each is a
\* page whole unless a process died over the file, the write raised, or a scraper
\* met it half written (fetch_html, PoliteFetcher.fetch, pull, document_from_html).
THEOREM CorpusWholeUnlessCut == SeedingSpec => []WholeUnlessCut
<1>1. SeedingInv => WholeUnlessCut
  BY DEF SeedingInv
<1> QED BY <1>1, SeedingInvariant, PTL

\* A seeding under which nobody else wrote ends with the corpus that the caches
\* say, whatever crashes and other runs left behind (seed, load_cached_documents).
THEOREM SeedingEndsAsCached == SeedingSpec => []SeededIsCached
<1>1. SeedingInv => SeededIsCached
  <2> SUFFICES ASSUME SeedingInv, NEW p \in Procs \ stirred, ProcAt(p, "count")
               PROVE  /\ \A s \in Sources : Verifies(cache[s]) => registry[s] = cache[s]
                      /\ \A x \in Samples : ExcerptSeeded(x)
    BY DEF SeededIsCached, ExcerptSeeded
  <2>1. p \notin Scrapers /\ Seeded(p)
    BY DEF SeedingInv, Placed, ProcAt
  <2>2. (\A g \in 1 .. 3 : GroupSeeded(g)) /\ \A x \in Samples : ExcerptSeeded(x)
    BY <2>1 DEF Seeded
  <2>3. ASSUME NEW s \in Sources
        PROVE  Verifies(cache[s]) => registry[s] = cache[s]
    <3>1. PICK g \in 1 .. 3 : s \in Group[g]
      BY Groups
    <3> QED BY <2>2, <3>1 DEF GroupSeeded
  <2> QED BY <2>2, <2>3
<1> QED BY <1>1, SeedingInvariant, PTL
==============================================================================
