------------------------------- MODULE Lexical -------------------------------
(***************************************************************************)
(* core/retrieval/bm25.py under the threads of the server: documents are   *)
(* chunked and added (Pipeline.ingest), erased (Pipeline.erase_document)   *)
(* and searched without a lock.  One method of a dict is one step, whether *)
(* it reads or writes; `+= 1` is a read and a write, a count is checked    *)
(* and then deleted, and an average is a test, a sum, a number and a       *)
(* store.  A thread that raises ends, and leaves the index as it is.       *)
(*                                                                         *)
(* Words are told apart by whether their place in the line is odd: two     *)
(* terms.  Lengths matter in that one is there (a chunk has words), sums   *)
(* and the average in that they are not 0.  What the registry and the      *)
(* vectors do is the subject of Corpus.                                    *)
(***************************************************************************)
EXTENDS Integers, Chunker

CONSTANTS Docs, Writers,
          Base,       \* texts the registry may hold at start
          Kept,       \* bound: sets of documents it does hold
          TextsOf,    \* bound: what each writer may bring
          MaxOps      \* bound: how many documents each writer ingests or erases

\* The chunks of these documents.
Ids(kept) == UNION {{<<d, k>> : k \in DOMAIN Chunks(Base[d])} : d \in kept}

ASSUME LexicalAssumption ==
  /\ MaxOps \subseteq [Writers -> Nat]
  /\ DOMAIN Base = Docs /\ DOMAIN TextsOf = Writers
  /\ \A w \in Writers : TextsOf[w] \subseteq Seq(Line)
  /\ IsFiniteSet(Writers) /\ \A kept \in Kept : IsFiniteSet(Ids(kept))

Terms        == {0, 1}
TermsOf(c)   == {t \in Terms : \E w \in Range(c.head \o c.words) : w[2] % 2 = t}
Entries(d, cs) == {[id |-> <<d, k>>, terms |-> TermsOf(cs[k])] : k \in DOMAIN cs}
Upload(text) == [text |-> text, chunks |-> Chunks(text)]
Uploads      == [w \in Writers |-> {Upload(text) : text \in TextsOf[w]}]
None         == [text |-> <<>>, chunks |-> <<>>]

VARIABLES tokens,  \* _doc_tokens: terms by chunk
          lens,    \* _doc_len: chunks that have a length
          df,      \* _df
          avg,     \* _avg_len is not 0
          thread,  \* see Free
          ops,     \* documents each writer may still begin
          lost,    \* history: terms whose count was written over
          mixed,   \* history: documents two writers were in at once
          blank    \* history: a sum found no length
vars == <<tokens, lens, df, avg, thread, ops, lost, mixed, blank>>

\* pc; what is to be done; the chunks still to add or remove and the one at
\* hand; its terms still to count; the count, or the sum, read; the method
\* that takes the average
Free == [pc |-> "free", upload |-> None, doc |-> "none", op |-> "none",
         todo |-> {}, chunk |-> [id |-> <<>>, terms |-> {}], left |-> {}, read |-> 0,
         of |-> "add"]

Holds(t) == {c \in DOMAIN tokens : t \in tokens[c]}

Init ==  \* _rebuild_bm25, in the one thread that starts
  \E kept \in Kept :
    LET ids == Ids(kept)
        terms(c) == TermsOf(Chunks(Base[c[1]])[c[2]]) IN
    /\ tokens = [c \in ids |-> terms(c)]
    /\ lens = ids
    /\ df = [t \in Terms |-> Cardinality({c \in ids : t \in terms(c)})]
    /\ avg = (ids # {})
    /\ thread = [w \in Writers |-> Free]
    /\ ops \in MaxOps /\ lost = {} /\ mixed = {} /\ blank = FALSE

At(w, pc)  == thread[w].pc = pc
Go(w, r)   == thread' = [thread EXCEPT ![w] = r]
Jump(w, pc) == Go(w, [thread[w] EXCEPT !.pc = pc])
Chunk(w)   == thread[w].chunk
Meet(w, d) == mixed' = mixed \cup {x \in {d} : \E v \in Writers \ {w} : thread[v].doc = d}

\* On to the next chunk, or done.
Onward(r) == IF r.todo = {} THEN Free ELSE [r EXCEPT !.pc = "chunk"]

\* On after remove, which may be the first part of add.
Removed(w) == IF thread[w].op = "add" THEN [thread[w] EXCEPT !.pc = "set"] ELSE Onward(thread[w])
------------------------------------------------------------------------------
(* Pipeline *)

Ingest(w, d) ==
  /\ At(w, "free") /\ ops[w] > 0
  /\ ops' = [ops EXCEPT ![w] = @ - 1]
  /\ \E u \in {u \in Uploads[w] : u.chunks # <<>>} :
       Go(w, [Free EXCEPT !.pc = "chunk", !.upload = u, !.doc = d, !.op = "add",
                          !.todo = Entries(d, u.chunks)])
  /\ Meet(w, d)
  /\ UNCHANGED <<tokens, lens, df, avg, lost, blank>>

\* The ids are listed once, and removed one after the other.
Erase(w, d) ==
  /\ At(w, "free") /\ ops[w] > 0
  /\ LET ids == {c \in DOMAIN tokens : c[1] = d} IN
     /\ ids # {}
     /\ Go(w, [Free EXCEPT !.pc = "chunk", !.doc = d, !.op = "remove",
                           !.todo = {[id |-> c, terms |-> {}] : c \in ids}])
  /\ ops' = [ops EXCEPT ![w] = @ - 1]
  /\ Meet(w, d)
  /\ UNCHANGED <<tokens, lens, df, avg, lost, blank>>
------------------------------------------------------------------------------
(* add and remove *)

\* The next chunk, in their order.
Takes(w, c, pc) ==
  /\ At(w, "chunk") /\ c \in thread[w].todo
  /\ \A x \in thread[w].todo : c.id[2] <= x.id[2]
  /\ Go(w, [thread[w] EXCEPT !.pc = pc, !.upload = None, !.chunk = c, !.todo = @ \ {c}])
  /\ UNCHANGED <<tokens, lens, df, avg, ops, lost, mixed, blank>>

BeginTwice(w, c) ==  \* mutant of Begin: a chunk that is there is not removed first
  Takes(w, c, IF thread[w].op = "add" THEN "set" ELSE "pop")

\* add removes the chunk first when it is there.
Begin(w, c) == Takes(w, c, IF thread[w].op = "add" /\ c.id \notin DOMAIN tokens THEN "set" ELSE "pop")

\* Nothing there any more: remove returns, and add goes on.
Pop(w) == LET c == Chunk(w).id IN
  /\ At(w, "pop")
  /\ IF c \in DOMAIN tokens
     THEN /\ tokens' = [x \in DOMAIN tokens \ {c} |-> tokens[x]]
          /\ Go(w, [thread[w] EXCEPT !.pc = "poplen", !.left = tokens[c]])
     ELSE /\ Go(w, Removed(w))
          /\ UNCHANGED tokens
  /\ UNCHANGED <<lens, df, avg, ops, lost, mixed, blank>>

\* pop without a default: a length that is not there raises KeyError.
PopLen(w) == LET c == Chunk(w).id IN
  /\ At(w, "poplen")
  /\ lens' = lens \ {c}
  /\ IF c \in lens THEN Jump(w, "less") ELSE Go(w, Free)
  /\ UNCHANGED <<tokens, df, avg, ops, lost, mixed, blank>>

Set(w) == LET c == Chunk(w) IN
  /\ At(w, "set")
  /\ tokens' = [x \in DOMAIN tokens \cup {c.id} |-> IF x = c.id THEN c.terms ELSE tokens[x]]
  /\ Jump(w, "setlen")
  /\ UNCHANGED <<lens, df, avg, ops, lost, mixed, blank>>

SetLenNot(w) ==  \* mutant of SetLen: no length is kept
  /\ At(w, "setlen")
  /\ Go(w, [thread[w] EXCEPT !.pc = "more", !.left = Chunk(w).terms])
  /\ UNCHANGED <<tokens, lens, df, avg, ops, lost, mixed, blank>>

SetLen(w) ==
  /\ At(w, "setlen")
  /\ lens' = lens \cup {Chunk(w).id}
  /\ Go(w, [thread[w] EXCEPT !.pc = "more", !.left = Chunk(w).terms])
  /\ UNCHANGED <<tokens, df, avg, ops, lost, mixed, blank>>

\* Terms in the order of their first place in the text.
Term(w) == CHOOSE t \in thread[w].left : \A u \in thread[w].left : t <= u

Read(w, pc) ==
  /\ At(w, pc) /\ thread[w].left # {}
  /\ Go(w, [thread[w] EXCEPT !.pc = IF pc = "more" THEN "inc" ELSE "dec", !.read = df[Term(w)]])
  /\ UNCHANGED <<tokens, lens, df, avg, ops, lost, mixed, blank>>

Write(w, n) == LET t == Term(w) IN
  /\ df' = [df EXCEPT ![t] = n]
  /\ lost' = lost \cup {x \in {t} : df[t] # thread[w].read}
  /\ UNCHANGED <<tokens, lens, avg, ops, mixed, blank>>

Counted(w, pc) == Go(w, [thread[w] EXCEPT !.pc = pc, !.left = @ \ {Term(w)}, !.read = 0])

Increment(w) == /\ At(w, "inc") /\ Write(w, thread[w].read + 1) /\ Counted(w, "more")

Decrement(w) == /\ At(w, "dec") /\ Write(w, thread[w].read - 1) /\ Jump(w, "drop")

\* A count of 0 or less is to be deleted.
Drop(w) == LET n == df[Term(w)] IN
  /\ At(w, "drop")
  /\ IF n <= 0 THEN Go(w, [thread[w] EXCEPT !.pc = "del", !.read = n]) ELSE Counted(w, "less")
  /\ UNCHANGED <<tokens, lens, df, avg, ops, lost, mixed, blank>>

\* A count that is not there reads as 0.
Delete(w) == /\ At(w, "del") /\ Write(w, 0) /\ Counted(w, "less")

\* remove divides only if there is a length, add always.
Test(w) ==
  /\ At(w, "less") /\ thread[w].left = {}
  /\ Go(w, IF lens = {} THEN Removed(w)
           ELSE [thread[w] EXCEPT !.pc = "sum"])
  /\ UNCHANGED <<tokens, lens, df, avg, ops, lost, mixed, blank>>

SumUp(w, pc) ==
  /\ At(w, pc) /\ thread[w].left = {}
  /\ Go(w, [thread[w] EXCEPT !.pc = "len", !.read = IF lens = {} THEN 0 ELSE 1,
                             !.of = IF pc = "sum" THEN "remove" ELSE "add"])
  /\ blank' = (blank \/ lens = {})
  /\ UNCHANGED <<tokens, lens, df, avg, ops, lost, mixed>>

\* A division by the number 0 raises.
Divide(w) ==
  /\ At(w, "len")
  /\ Go(w, IF lens = {} THEN Free ELSE [thread[w] EXCEPT !.pc = "store"])
  /\ UNCHANGED <<tokens, lens, df, avg, ops, lost, mixed, blank>>

Store(w) ==
  /\ At(w, "store")
  /\ avg' = (thread[w].read # 0)
  /\ Go(w, IF thread[w].of = "remove" THEN Removed(w) ELSE Onward(thread[w]))
  /\ UNCHANGED <<tokens, lens, df, ops, lost, mixed, blank>>

Next == \E w \in Writers :
  \/ \E d \in Docs : Erase(w, d) \/ Ingest(w, d)
  \/ \E c \in thread[w].todo : Begin(w, c)
  \/ Pop(w) \/ PopLen(w) \/ Set(w) \/ SetLen(w)
  \/ \E pc \in {"more", "less"} : Read(w, pc)
  \/ Increment(w) \/ Decrement(w) \/ Drop(w) \/ Delete(w)
  \/ Test(w) \/ (\E pc \in {"more", "sum"} : SumUp(w, pc)) \/ Divide(w) \/ Store(w)

Spec == Init /\ [][Next]_vars
------------------------------------------------------------------------------
(* Properties *)

Quiet == \A w \in Writers : At(w, "free")

\* Writers of different documents never break the searches that follow: each
\* chunk a search can meet has a length, and the average is not 0, so it neither
\* raises KeyError nor divides by zero (bm25.py:66-68), unless the index ran out
\* of lengths under a thread about to sum them: what that thread stores can be 0
\* (bm25.py:50-51).  A document that one thread erases while another ingests it
\* can be left without a length, and then every search for one of its words
\* fails until the server restarts.
SearchWorks ==
  Quiet => \A c \in DOMAIN tokens : c[1] \in mixed \/ (c \in lens /\ (avg \/ blank))

\* With no writer at work the count of a term is the number of chunks that hold
\* it, so that a search finds them all and weighs them right (bm25.py:58-69),
\* unless two threads counted the term at once, or were in one document at once.
CountsExact ==
  Quiet /\ mixed = {} => \A t \in Terms \ lost : df[t] = Cardinality(Holds(t))

\* The line of the heading a chunk carries, and the one a line of the text is under.
Over(c) == IF c.head = <<>> THEN 0 ELSE c.head[1][1]
Article(text, i) ==
  CHOOSE h \in 0 .. i : /\ h = 0 \/ text[h].kind = "heading"
                       /\ \A j \in h + 1 .. i : text[j].kind # "heading"

\* Headings are hard boundaries (chunker.py:4-8): each word of a text is in a
\* chunk with the heading of its article and in no other, and what is left out is
\* the heading of an article without text and the line that passes for its title,
\* also where that line is all its text.
ArticlesKept ==
  \A w \in Writers :
    LET text == thread[w].upload.text
        cs == Range(thread[w].upload.chunks) IN
    \A i \in DOMAIN text : \A n \in 1 .. text[i].n :
      LET having == {c \in cs : <<i, n>> \in Range(c.head \o c.words)} IN
      /\ \A c \in having : Over(c) = Article(text, i)
      /\ having = {} => /\ text[i].kind # "prose"
                        /\ \A c \in cs : Over(c) # Article(text, i)

\* A chunk is longer than the budget by no more than the overlap, unless it ends
\* with one sentence that is longer still (chunker.py:120-122: inside the window
\* of the reranker).
WithinBudget ==
  \A w \in Writers : \A c \in Range(thread[w].upload.chunks) :
    Len(c.words) > MaxWords + Overlap =>
      \A i \in Overlap + 1 .. Len(c.words) - 1 :
        c.words[i][1] # c.words[i + 1][1] => thread[w].upload.text[c.words[i][1]].kind = "title"
==============================================================================
