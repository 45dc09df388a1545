--------------------------- MODULE LexicalProofs ---------------------------
(***************************************************************************)
(* Proofs about Lexical for any number of threads and documents, whatever  *)
(* the texts: writers of different documents leave an index that can be    *)
(* searched, and whose counts are exact for every term whose count no two  *)
(* of them wrote at once.                                                  *)
(*                                                                         *)
(* Both are claims about the state at rest and not inductive.  Between two *)
(* steps of add a chunk has terms and no length (HasLen), or lengths and   *)
(* no average (HasAvg), and the writer that will supply it must be there;  *)
(* and remove takes away the length of a chunk whose terms it took before  *)
(* (Popped).  A count differs from the chunks that hold the term by what   *)
(* the writers under way have still to add and to take off (Count).  Two   *)
(* writers with a chunk in common are in one document (Own, Meeting),      *)
(* which SearchWorks and CountsExact except.                               *)
(*                                                                         *)
(* What a writer brings is a text and its chunks (Uploaded), so that the   *)
(* claims about chunks are claims about the operators of Chunker, for      *)
(* every text.  They fold over sequences; a number below which nothing     *)
(* fails (Climb) carries each fold from item to item: what FlattenSeq      *)
(* holds (FlattenRange) and in which order (WordsSorted), that the runs of *)
(* a part make up the part (GapsCover), and that packing loses no word and *)
(* keeps to the budget (PackMakes).                                        *)
(***************************************************************************)
EXTENDS Functions, Lexical, FiniteSetTheorems, SequenceTheorems, WellFoundedInduction, TLAPS

Fields == {"pc", "upload", "doc", "op", "todo", "chunk", "left", "read", "of"}

Shape == DOMAIN thread = Writers /\ \A w \in Writers : DOMAIN thread[w] = Fields

Own ==
  \A w \in Writers :
    /\ \A x \in thread[w].todo : x.id[1] = thread[w].doc
    /\ thread[w].pc \notin {"free", "chunk"} => thread[w].chunk.id[1] = thread[w].doc

Meeting ==
  \A w, v \in Writers :
    w # v /\ thread[w].pc # "free" /\ thread[v].pc # "free" /\ thread[w].doc = thread[v].doc
      => thread[w].doc \in mixed

Adding(w, c, pcs) == thread[w].pc \in pcs /\ thread[w].chunk.id = c

HasLen ==
  \A c \in DOMAIN tokens : c \in lens \/ c[1] \in mixed \/ \E w \in Writers : Adding(w, c, {"setlen"})

\* Where a writer is that will still store an average.
Averaging == {"setlen", "more", "inc", "len", "store"}

HasAvg ==
  \A c \in DOMAIN tokens :
    avg \/ blank \/ c[1] \in mixed \/ \E w \in Writers : Adding(w, c, Averaging)

Popped ==
  \A w \in Writers : thread[w].pc = "poplen" =>
    thread[w].chunk.id \notin DOMAIN tokens \/ thread[w].chunk.id[1] \in mixed

Zero(w) == thread[w].pc \in {"len", "store"} /\ thread[w].read = 0

Zeroes == \A w \in Writers : Zero(w) => blank

IInv == Shape /\ Own /\ Meeting /\ HasLen /\ HasAvg /\ Popped /\ Zeroes

\* What a step of one writer within an operation leaves alone.
Within(w) ==
  /\ DOMAIN thread' = Writers
  /\ \A v \in Writers : DOMAIN thread'[v] = Fields
  /\ \A v \in Writers \ {w} : thread'[v] = thread[v]
  /\ thread'[w].pc # "free" =>
       /\ thread'[w].doc = thread[w].doc
       /\ thread'[w].todo \subseteq thread[w].todo
  /\ thread'[w].pc = "free" => thread'[w].todo = {}
  /\ thread[w].pc # "free"
  /\ mixed' = mixed

\* The part of the invariant that is about the threads alone holds after it.
LEMMA WithinKeeps ==
  ASSUME IInv, NEW w \in Writers, Within(w),
         thread'[w].pc \notin {"free", "chunk"} => thread'[w].chunk.id[1] = thread[w].doc
  PROVE  Shape' /\ Own' /\ Meeting'
<1>1. Shape'
  BY DEF Within, Shape
<1>2. Own'
  <2> SUFFICES ASSUME NEW v \in Writers
               PROVE  /\ \A x \in thread'[v].todo : x.id[1] = thread'[v].doc
                      /\ thread'[v].pc \notin {"free", "chunk"} => thread'[v].chunk.id[1] = thread'[v].doc
    BY DEF Own
  <2>1. CASE v = w
    BY <2>1 DEF Within, IInv, Own
  <2>2. CASE v # w
    BY <2>2 DEF Within, IInv, Own
  <2> QED BY <2>1, <2>2
<1>3. Meeting'
  BY DEF Within, IInv, Meeting
<1> QED BY <1>1, <1>2, <1>3

\* A writer goes on with the chunk at hand.
LEMMA JumpKeeps ==
  ASSUME IInv, NEW w \in Writers, NEW r, Go(w, r),
         thread[w].pc \notin {"free", "chunk"}, mixed' = mixed,
         DOMAIN r = Fields, r.doc = thread[w].doc, r.todo = thread[w].todo,
         r.chunk = thread[w].chunk, r.pc # "free"
  PROVE  /\ Shape' /\ Own' /\ Meeting'
         /\ \A v \in Writers \ {w} : thread'[v] = thread[v]
         /\ thread'[w] = r
<1>1. thread' = [thread EXCEPT ![w] = r] /\ DOMAIN thread = Writers
  BY DEF Go, IInv, Shape
<1>2. /\ DOMAIN thread' = Writers
      /\ thread'[w] = r
      /\ \A v \in Writers \ {w} : thread'[v] = thread[v]
  BY <1>1
<1>3. Within(w)
  BY <1>2 DEF Within, IInv, Shape
<1>4. thread'[w].chunk.id[1] = thread[w].doc
  BY <1>2 DEF IInv, Own
<1> QED BY <1>2, <1>3, <1>4, WithinKeeps

LEMMA FreeIs == DOMAIN Free = Fields /\ Free.pc = "free" /\ Free.todo = {} /\ Free.doc = "none"
BY DEF Free, Fields

\* A writer is done with its chunk: it takes the next one or is free.
LEMMA LeaveKeeps ==
  ASSUME IInv, NEW w \in Writers, NEW r, Go(w, r), r = Free \/ r = Onward(thread[w]),
         thread[w].pc # "free", mixed' = mixed
  PROVE  /\ Shape' /\ Own' /\ Meeting'
         /\ \A v \in Writers \ {w} : thread'[v] = thread[v]
         /\ thread'[w].pc \in {"free", "chunk"}
<1>1. thread' = [thread EXCEPT ![w] = r] /\ DOMAIN thread = Writers /\ DOMAIN thread[w] = Fields
  BY DEF Go, IInv, Shape
<1>2. /\ DOMAIN thread' = Writers
      /\ thread'[w] = r
      /\ \A v \in Writers \ {w} : thread'[v] = thread[v]
  BY <1>1
<1>3. CASE r = Free
  <2>1. Within(w)
    BY <1>2, <1>3, FreeIs DEF Within, IInv, Shape
  <2> QED BY <1>2, <1>3, <2>1, FreeIs, WithinKeeps
<1>4. CASE r = [thread[w] EXCEPT !.pc = "chunk"]
  <2>1. /\ DOMAIN r = Fields /\ r.pc = "chunk"
        /\ r.doc = thread[w].doc /\ r.todo = thread[w].todo
    BY <1>1, <1>4 DEF Fields
  <2>2. Within(w)
    BY <1>2, <2>1 DEF Within, IInv, Shape
  <2> QED BY <1>2, <2>1, <2>2, WithinKeeps
<1> QED BY <1>3, <1>4 DEF Onward

\* A writer is done with remove: it sets the chunk, or leaves it.
LEMMA RemovedKeeps ==
  ASSUME IInv, NEW w \in Writers, Go(w, Removed(w)),
         thread[w].pc \notin {"free", "chunk"}, mixed' = mixed
  PROVE  /\ Shape' /\ Own' /\ Meeting'
         /\ \A v \in Writers \ {w} : thread'[v] = thread[v]
         /\ thread'[w].pc \in {"free", "chunk", "set"}
<1>1. CASE thread[w].op = "add"
  <2> DEFINE r == [thread[w] EXCEPT !.pc = "set"]
  <2>1. Go(w, r)
    BY <1>1 DEF Removed
  <2>2. /\ DOMAIN r = Fields /\ r.pc = "set"
        /\ r.doc = thread[w].doc /\ r.todo = thread[w].todo /\ r.chunk = thread[w].chunk
    BY DEF Fields, IInv, Shape
  <2> HIDE DEF r
  <2> QED BY <2>1, <2>2, JumpKeeps
<1>2. CASE thread[w].op # "add"
  <2>1. Go(w, Onward(thread[w]))
    BY <1>2 DEF Removed
  <2> QED BY <2>1, LeaveKeeps
<1> QED BY <1>1, <1>2

\* A free writer begins to work on a document.
LEMMA EnterKeeps ==
  ASSUME IInv, NEW w \in Writers, NEW d, NEW r, Go(w, r), Meet(w, d),
         DOMAIN r = Fields, r.pc = "chunk", r.doc = d, \A x \in r.todo : x.id[1] = d
  PROVE  /\ Shape' /\ Own' /\ Meeting'
         /\ \A v \in Writers \ {w} : thread'[v] = thread[v]
         /\ thread'[w].pc = "chunk"
         /\ mixed \subseteq mixed'
<1>1. thread' = [thread EXCEPT ![w] = r] /\ DOMAIN thread = Writers
  BY DEF Go, IInv, Shape
<1>2. /\ DOMAIN thread' = Writers
      /\ thread'[w] = r
      /\ \A v \in Writers \ {w} : thread'[v] = thread[v]
  BY <1>1
<1>3. Shape'
  BY <1>2 DEF IInv, Shape
<1>4. Own'
  BY <1>2 DEF IInv, Own
<1>5. mixed \subseteq mixed'
  BY DEF Meet
<1>6. \A v \in Writers \ {w} : thread[v].doc = d => d \in mixed'
  BY DEF Meet
<1>7. Meeting'
  BY <1>2, <1>5, <1>6 DEF IInv, Meeting
<1> QED BY <1>2, <1>3, <1>4, <1>5, <1>7

\* Two writers with one chunk at hand are in one document.
LEMMA OneChunk ==
  ASSUME IInv, NEW w \in Writers, NEW v \in Writers, w # v,
         thread[w].pc \notin {"free", "chunk"}, thread[v].pc \notin {"free", "chunk"},
         thread[w].chunk.id = thread[v].chunk.id
  PROVE  thread[w].chunk.id[1] \in mixed
BY DEF IInv, Own, Meeting

LEMMA InitHolds == Init => IInv
<1> SUFFICES ASSUME Init PROVE IInv
  OBVIOUS
<1>1. thread = [w \in Writers |-> Free] /\ DOMAIN tokens = lens /\ avg = (lens # {})
  BY DEF Init
<1>2. \A w \in Writers : thread[w] = Free
  BY <1>1
<1>3. Shape /\ Own /\ Meeting /\ Popped /\ Zeroes
  BY <1>1, <1>2, FreeIs DEF Shape, Own, Meeting, Popped, Zeroes, Zero
<1>4. HasLen
  BY <1>1 DEF HasLen
<1>5. HasAvg
  BY <1>1, Zenon DEF HasAvg
<1> QED BY <1>3, <1>4, <1>5 DEF IInv

\* A step that neither ends a witness nor changes what the index holds.
LEMMA IndexKept ==
  ASSUME IInv, NEW w \in Writers, Shape' /\ Own' /\ Meeting',
         \A v \in Writers \ {w} : thread'[v] = thread[v],
         mixed \subseteq mixed', UNCHANGED <<tokens, lens, avg>>,
         thread[w].pc \notin Averaging \/
           (/\ thread'[w].chunk = thread[w].chunk
            /\ thread[w].pc # "setlen" /\ thread'[w].pc \in Averaging),
         thread'[w].pc # "poplen", blank => blank', Zero(w)' => blank'
  PROVE  IInv'
<1>1. HasLen'
  <2> SUFFICES ASSUME NEW c \in DOMAIN tokens
               PROVE  c \in lens \/ c[1] \in mixed' \/ \E v \in Writers : Adding(v, c, {"setlen"})'
    BY DEF HasLen
  <2>1. CASE \E v \in Writers : Adding(v, c, {"setlen"})
    <3>1. PICK v \in Writers : Adding(v, c, {"setlen"})
      BY <2>1
    <3>2. v # w
      BY <3>1 DEF Adding, Averaging
    <3> QED BY <3>1, <3>2 DEF Adding
  <2> QED BY <2>1 DEF IInv, HasLen
<1>2. HasAvg'
  <2> SUFFICES ASSUME NEW c \in DOMAIN tokens
               PROVE  avg \/ blank' \/ c[1] \in mixed' \/ \E v \in Writers : Adding(v, c, Averaging)'
    BY DEF HasAvg
  <2>1. CASE \E v \in Writers : Adding(v, c, Averaging)
    <3>1. PICK v \in Writers : Adding(v, c, Averaging)
      BY <2>1
    <3>2. Adding(v, c, Averaging)'
      <4>1. CASE v # w
        BY <3>1, <4>1 DEF Adding
      <4>2. CASE v = w
        BY <3>1, <4>2 DEF Adding
      <4> QED BY <4>1, <4>2
    <3> QED BY <3>2
  <2> QED BY <2>1 DEF IInv, HasAvg
<1>3. Popped'
  BY DEF IInv, Popped
<1>4. Zeroes'
  BY DEF IInv, Zeroes, Zero
<1> QED BY <1>1, <1>2, <1>3, <1>4 DEF IInv

\* A step outside the average leaves the sums read.
LEMMA ZeroesKept ==
  ASSUME IInv, NEW w \in Writers, \A v \in Writers \ {w} : thread'[v] = thread[v],
         blank => blank', Zero(w)' => blank'
  PROVE  Zeroes'
BY DEF IInv, Zeroes, Zero

LEMMA PopHolds == ASSUME IInv, NEW w \in Writers, Pop(w) PROVE IInv'
<1> DEFINE c == Chunk(w).id
<1>1. thread[w].pc = "pop" /\ mixed' = mixed /\ UNCHANGED <<lens, avg, blank>> /\ DOMAIN thread[w] = Fields
  BY DEF Pop, At, IInv, Shape
<1>2. CASE c \in DOMAIN tokens
  <2> DEFINE r == [thread[w] EXCEPT !.pc = "poplen", !.left = tokens[c]]
  <2>1. /\ tokens' = [x \in DOMAIN tokens \ {c} |-> tokens[x]]
        /\ Go(w, r)
    BY <1>2 DEF Pop
  <2>2. /\ DOMAIN r = Fields /\ r.pc = "poplen"
        /\ r.doc = thread[w].doc /\ r.todo = thread[w].todo /\ r.chunk = thread[w].chunk
    BY <1>1 DEF Fields
  <2> HIDE DEF r
  <2>3. /\ Shape' /\ Own' /\ Meeting'
        /\ \A v \in Writers \ {w} : thread'[v] = thread[v]
        /\ thread'[w] = r
    BY <1>1, <2>1, <2>2, JumpKeeps
  <2>4. HasLen'
    BY <1>1, <2>1, <2>2, <2>3 DEF IInv, HasLen, Adding
  <2>5. HasAvg'
    BY <1>1, <2>1, <2>2, <2>3 DEF IInv, HasAvg, Averaging, Adding
  <2>6. Popped'
    BY <1>1, <2>1, <2>2, <2>3 DEF IInv, Popped, Chunk
  <2>7. Zeroes'
    BY <1>1, <2>2, <2>3, ZeroesKept DEF Zero
  <2> QED BY <2>3, <2>4, <2>5, <2>6, <2>7 DEF IInv
<1>3. CASE c \notin DOMAIN tokens
  <2>1. tokens' = tokens
    BY <1>3 DEF Pop
  <2>2. Go(w, Removed(w))
    BY <1>3 DEF Pop
  <2>3. /\ Shape' /\ Own' /\ Meeting'
        /\ \A v \in Writers \ {w} : thread'[v] = thread[v]
        /\ thread'[w].pc \in {"free", "chunk", "set"}
    BY <1>1, <2>2, RemovedKeeps
  <2> QED BY <1>1, <2>1, <2>3, IndexKept DEF Averaging, Zero
<1> QED BY <1>2, <1>3

LEMMA PopLenHolds == ASSUME IInv, NEW w \in Writers, PopLen(w) PROVE IInv'
<1> DEFINE c == Chunk(w).id
<1>1. /\ thread[w].pc = "poplen" /\ mixed' = mixed /\ UNCHANGED <<tokens, avg, blank>>
      /\ DOMAIN thread[w] = Fields
      /\ lens' = lens \ {c}
  BY DEF PopLen, At, IInv, Shape
<1>2. /\ Shape' /\ Own' /\ Meeting'
      /\ \A v \in Writers \ {w} : thread'[v] = thread[v]
      /\ thread'[w].pc \in {"free", "chunk", "less"}
  <2>1. CASE c \in lens
    <3> DEFINE r == [thread[w] EXCEPT !.pc = "less"]
    <3>1. Go(w, r)
      BY <2>1 DEF PopLen, Jump
    <3>2. /\ DOMAIN r = Fields /\ r.pc = "less"
          /\ r.doc = thread[w].doc /\ r.todo = thread[w].todo /\ r.chunk = thread[w].chunk
      BY <1>1 DEF Fields
    <3> HIDE DEF r
    <3> QED BY <1>1, <3>1, <3>2, JumpKeeps
  <2>2. CASE c \notin lens
    <3>1. Go(w, Free)
      BY <2>2 DEF PopLen
    <3> QED BY <1>1, <3>1, LeaveKeeps
  <2> QED BY <2>1, <2>2
<1>3. c \notin DOMAIN tokens \/ c[1] \in mixed
  BY <1>1 DEF IInv, Popped, Chunk
<1>4. HasLen'
  <2> SUFFICES ASSUME NEW x \in DOMAIN tokens, x \notin lens', x[1] \notin mixed
               PROVE  \E v \in Writers : Adding(v, x, {"setlen"})'
    BY <1>1 DEF HasLen
  <2>1. x \notin lens
    BY <1>1, <1>3
  <2>2. PICK v \in Writers : Adding(v, x, {"setlen"})
    BY <2>1 DEF IInv, HasLen
  <2>3. v # w
    BY <1>1, <2>2 DEF Averaging, Adding
  <2> QED BY <1>2, <2>2, <2>3 DEF Averaging, Adding
<1>5. HasAvg'
  <2> SUFFICES ASSUME NEW x \in DOMAIN tokens, ~avg, ~blank, x[1] \notin mixed
               PROVE  \E v \in Writers : Adding(v, x, Averaging)'
    BY <1>1 DEF HasAvg, Averaging
  <2>1. PICK v \in Writers : Adding(v, x, Averaging)
    BY DEF IInv, HasAvg
  <2>2. v # w
    BY <1>1, <2>1 DEF Averaging, Adding
  <2> QED BY <1>2, <2>1, <2>2 DEF Averaging, Adding
<1>6. Popped'
  BY <1>1, <1>2 DEF IInv, Popped
<1>7. Zeroes'
  BY <1>1, <1>2, ZeroesKept DEF Zero
<1> QED BY <1>2, <1>4, <1>5, <1>6, <1>7 DEF IInv

LEMMA SetHolds == ASSUME IInv, NEW w \in Writers, Set(w) PROVE IInv'
<1> DEFINE c == Chunk(w).id
           r == [thread[w] EXCEPT !.pc = "setlen"]
<1>1. /\ thread[w].pc = "set" /\ mixed' = mixed /\ UNCHANGED <<lens, avg, blank>>
      /\ DOMAIN thread[w] = Fields
      /\ DOMAIN tokens' = DOMAIN tokens \cup {c}
      /\ Go(w, r)
  BY DEF Set, At, IInv, Shape, Jump
<1>2. /\ DOMAIN r = Fields /\ r.pc = "setlen"
      /\ r.doc = thread[w].doc /\ r.todo = thread[w].todo /\ r.chunk = thread[w].chunk
  BY <1>1 DEF Fields
<1> HIDE DEF r
<1>3. /\ Shape' /\ Own' /\ Meeting'
      /\ \A v \in Writers \ {w} : thread'[v] = thread[v]
      /\ thread'[w] = r
  BY <1>1, <1>2, JumpKeeps
<1>4. thread'[w].pc = "setlen" /\ thread'[w].chunk.id = c
  BY <1>2, <1>3 DEF Chunk
<1>5. HasLen'
  <2> SUFFICES ASSUME NEW x \in DOMAIN tokens', x \notin lens, x[1] \notin mixed, x # c
               PROVE  \E v \in Writers : thread'[v].pc \in {"setlen"} /\ thread'[v].chunk.id = x
    BY <1>1, <1>4 DEF HasLen, Adding
  <2>1. PICK v \in Writers : Adding(v, x, {"setlen"})
    BY <1>1 DEF IInv, HasLen
  <2>2. v # w
    BY <1>1, <2>1 DEF Averaging, Adding
  <2> QED BY <1>3, <2>1, <2>2 DEF Averaging, Adding
<1>6. HasAvg'
  <2> SUFFICES ASSUME NEW x \in DOMAIN tokens', ~avg, ~blank, x[1] \notin mixed, x # c
               PROVE  \E v \in Writers : thread'[v].pc \in Averaging /\ thread'[v].chunk.id = x
    BY <1>1, <1>4 DEF HasAvg, Averaging, Adding
  <2>1. PICK v \in Writers : Adding(v, x, Averaging)
    BY <1>1 DEF IInv, HasAvg
  <2>2. v # w
    BY <1>1, <2>1 DEF Averaging, Adding
  <2> QED BY <1>3, <2>1, <2>2 DEF Averaging, Adding
<1>7. Popped'
  <2> SUFFICES ASSUME NEW v \in Writers, thread'[v].pc = "poplen", thread'[v].chunk.id \in DOMAIN tokens'
               PROVE  thread'[v].chunk.id[1] \in mixed
    BY <1>1 DEF Popped
  <2>1. v # w /\ thread'[v] = thread[v]
    BY <1>2, <1>3
  <2>2. CASE thread[v].chunk.id = c
    BY <1>1, <2>1, <2>2, OneChunk DEF Chunk
  <2>3. CASE thread[v].chunk.id # c
    BY <1>1, <2>1, <2>3 DEF IInv, Popped
  <2> QED BY <2>2, <2>3
<1>8. Zeroes'
  BY <1>1, <1>2, <1>3, ZeroesKept DEF Zero
<1> QED BY <1>3, <1>5, <1>6, <1>7, <1>8 DEF IInv

LEMMA SetLenHolds == ASSUME IInv, NEW w \in Writers, SetLen(w) PROVE IInv'
<1> DEFINE c == Chunk(w).id
           r == [thread[w] EXCEPT !.pc = "more", !.left = Chunk(w).terms]
<1>1. /\ thread[w].pc = "setlen" /\ mixed' = mixed /\ UNCHANGED <<tokens, avg, blank>>
      /\ DOMAIN thread[w] = Fields
      /\ lens' = lens \cup {c}
      /\ Go(w, r)
  BY DEF SetLen, At, IInv, Shape
<1>2. /\ DOMAIN r = Fields /\ r.pc = "more"
      /\ r.doc = thread[w].doc /\ r.todo = thread[w].todo /\ r.chunk = thread[w].chunk
  BY <1>1 DEF Fields
<1> HIDE DEF r
<1>3. /\ Shape' /\ Own' /\ Meeting'
      /\ \A v \in Writers \ {w} : thread'[v] = thread[v]
      /\ thread'[w] = r
  BY <1>1, <1>2, JumpKeeps
<1>4. HasLen'
  <2> SUFFICES ASSUME NEW x \in DOMAIN tokens, x \notin lens', x[1] \notin mixed
               PROVE  \E v \in Writers : Adding(v, x, {"setlen"})'
    BY <1>1 DEF HasLen
  <2>1. x \notin lens /\ x # c
    BY <1>1
  <2>2. PICK v \in Writers : Adding(v, x, {"setlen"})
    BY <2>1 DEF IInv, HasLen
  <2>3. v # w
    BY <2>1, <2>2 DEF Averaging, Adding, Chunk
  <2> QED BY <1>3, <2>2, <2>3 DEF Averaging, Adding
<1>5. HasAvg'
  <2> SUFFICES ASSUME NEW x \in DOMAIN tokens, ~avg, ~blank, x[1] \notin mixed
               PROVE  \E v \in Writers : Adding(v, x, Averaging)'
    BY <1>1 DEF HasAvg, Averaging
  <2>1. PICK v \in Writers : Adding(v, x, Averaging)
    BY DEF IInv, HasAvg
  <2>2. Adding(v, x, Averaging)'
    <3>1. CASE v # w
      BY <1>3, <2>1, <3>1 DEF Averaging, Adding
    <3>2. CASE v = w
      BY <1>2, <1>3, <2>1, <3>2 DEF Averaging, Adding
    <3> QED BY <3>1, <3>2
  <2> QED BY <2>2
<1>6. Popped'
  BY <1>1, <1>2, <1>3 DEF IInv, Popped
<1>7. Zeroes'
  BY <1>1, <1>2, <1>3, ZeroesKept DEF Zero
<1> QED BY <1>3, <1>4, <1>5, <1>6, <1>7 DEF IInv

LEMMA TestHolds == ASSUME IInv, NEW w \in Writers, Test(w) PROVE IInv'
<1>1. /\ thread[w].pc = "less" /\ mixed' = mixed /\ UNCHANGED <<tokens, lens, avg, blank>>
      /\ DOMAIN thread[w] = Fields
  BY DEF Test, At, IInv, Shape
<1>2. /\ Shape' /\ Own' /\ Meeting'
      /\ \A v \in Writers \ {w} : thread'[v] = thread[v]
      /\ thread'[w].pc \in {"free", "chunk", "set", "sum"}
  <2>1. CASE lens = {}
    <3>1. Go(w, Removed(w))
      BY <2>1 DEF Test
    <3> QED BY <1>1, <3>1, RemovedKeeps
  <2>2. CASE lens # {}
    <3> DEFINE r == [thread[w] EXCEPT !.pc = "sum"]
    <3>1. Go(w, r)
      BY <2>2 DEF Test
    <3>2. /\ DOMAIN r = Fields /\ r.pc = "sum"
          /\ r.doc = thread[w].doc /\ r.todo = thread[w].todo /\ r.chunk = thread[w].chunk
      BY <1>1 DEF Fields
    <3> HIDE DEF r
    <3> QED BY <1>1, <3>1, <3>2, JumpKeeps
  <2> QED BY <2>1, <2>2
<1> QED BY <1>1, <1>2, IndexKept DEF Averaging, Zero

\* A sum of 0 is a sum of no lengths.
LEMMA SumHolds == ASSUME IInv, NEW w \in Writers, NEW pc \in {"more", "sum"}, SumUp(w, pc) PROVE IInv'
<1> DEFINE n == IF lens = {} THEN 0 ELSE 1
           m == IF pc = "sum" THEN "remove" ELSE "add"
           r == [thread[w] EXCEPT !.pc = "len", !.read = n, !.of = m]
<1>1. /\ thread[w].pc = pc /\ mixed' = mixed /\ UNCHANGED <<tokens, lens, avg>>
      /\ DOMAIN thread[w] = Fields /\ blank' = (blank \/ lens = {})
      /\ Go(w, r)
  BY DEF SumUp, At, IInv, Shape
<1> HIDE DEF n, m
<1>2. /\ DOMAIN r = Fields /\ r.pc = "len" /\ r.read = n
      /\ r.doc = thread[w].doc /\ r.todo = thread[w].todo /\ r.chunk = thread[w].chunk
  BY <1>1 DEF Fields
<1> HIDE DEF r
<1>3. /\ Shape' /\ Own' /\ Meeting'
      /\ \A v \in Writers \ {w} : thread'[v] = thread[v]
      /\ thread'[w] = r
  BY <1>1, <1>2, JumpKeeps
<1>4. blank => blank'
  BY <1>1
<1>5. Zero(w)' => blank'
  <2>1. CASE lens = {}
    BY <1>1, <2>1
  <2>2. CASE lens # {}
    BY <1>2, <1>3, <2>2 DEF Zero, n
  <2> QED BY <2>1, <2>2
<1> QED BY <1>1, <1>2, <1>3, <1>4, <1>5, IndexKept DEF Averaging

\* Who divides has a length of its own chunk to divide by, unless another writer
\* of the document took it: then nothing is claimed of the chunk.
LEMMA DivideHolds == ASSUME IInv, NEW w \in Writers, Divide(w) PROVE IInv'
<1>1. /\ thread[w].pc = "len" /\ mixed' = mixed /\ UNCHANGED <<tokens, lens, avg, blank>>
      /\ DOMAIN thread[w] = Fields
  BY DEF Divide, At, IInv, Shape
<1>2. CASE lens # {}
  <2> DEFINE r == [thread[w] EXCEPT !.pc = "store"]
  <2>1. Go(w, r)
    BY <1>2 DEF Divide
  <2>2. /\ DOMAIN r = Fields /\ r.pc = "store" /\ r.read = thread[w].read
        /\ r.doc = thread[w].doc /\ r.todo = thread[w].todo /\ r.chunk = thread[w].chunk
    BY <1>1 DEF Fields
  <2> HIDE DEF r
  <2>3. /\ Shape' /\ Own' /\ Meeting'
        /\ \A v \in Writers \ {w} : thread'[v] = thread[v]
        /\ thread'[w] = r
    BY <1>1, <2>1, <2>2, JumpKeeps
  <2>4. Zero(w)' => blank'
    BY <1>1, <2>2, <2>3 DEF IInv, Zeroes, Zero
  <2> QED BY <1>1, <2>2, <2>3, <2>4, IndexKept DEF Averaging
<1>3. CASE lens = {}
  <2>1. Go(w, Free)
    BY <1>3 DEF Divide
  <2>2. /\ Shape' /\ Own' /\ Meeting'
        /\ \A v \in Writers \ {w} : thread'[v] = thread[v]
        /\ thread'[w].pc \in {"free", "chunk"}
    BY <1>1, <2>1, LeaveKeeps
  <2>3. ASSUME NEW c \in DOMAIN tokens, c[1] \notin mixed
        PROVE  \E v \in Writers : Adding(v, c, {"setlen"})'
    <3>1. PICK v \in Writers : Adding(v, c, {"setlen"})
      BY <1>3, <2>3 DEF IInv, HasLen
    <3>2. v # w
      BY <1>1, <3>1 DEF Adding
    <3> QED BY <2>2, <3>1, <3>2 DEF Adding
  <2>4. HasLen'
    BY <1>1, <2>3 DEF HasLen
  <2>5. HasAvg'
    BY <1>1, <2>3 DEF HasAvg, Averaging, Adding
  <2>6. Popped'
    BY <1>1, <2>2 DEF IInv, Popped
  <2>7. Zeroes'
    BY <1>1, <2>2, ZeroesKept DEF Zero
  <2> QED BY <2>2, <2>4, <2>5, <2>6, <2>7 DEF IInv
<1> QED BY <1>2, <1>3

LEMMA StoreHolds == ASSUME IInv, NEW w \in Writers, Store(w) PROVE IInv'
<1>1. /\ thread[w].pc = "store" /\ mixed' = mixed /\ UNCHANGED <<tokens, lens, blank>>
      /\ avg' = (thread[w].read # 0)
  BY DEF Store, At
<1>2. /\ Shape' /\ Own' /\ Meeting'
      /\ \A v \in Writers \ {w} : thread'[v] = thread[v]
      /\ thread'[w].pc \in {"free", "chunk", "set"}
  <2>1. Go(w, Removed(w)) \/ Go(w, Onward(thread[w]))
    BY DEF Store
  <2>2. CASE Go(w, Removed(w))
    BY <1>1, <2>2, RemovedKeeps
  <2>3. CASE Go(w, Onward(thread[w]))
    BY <1>1, <2>3, LeaveKeeps
  <2> QED BY <2>1, <2>2, <2>3
<1>3. avg' \/ blank
  BY <1>1 DEF IInv, Zeroes, Zero
<1>4. HasAvg'
  BY <1>1, <1>3 DEF HasAvg
<1>5. HasLen'
  <2> SUFFICES ASSUME NEW x \in DOMAIN tokens, x \notin lens, x[1] \notin mixed
               PROVE  \E v \in Writers : Adding(v, x, {"setlen"})'
    BY <1>1 DEF HasLen
  <2>1. PICK v \in Writers : Adding(v, x, {"setlen"})
    BY DEF IInv, HasLen
  <2>2. v # w
    BY <1>1, <2>1 DEF Adding
  <2> QED BY <1>2, <2>1, <2>2 DEF Adding
<1>6. Popped'
  BY <1>1, <1>2 DEF IInv, Popped
<1>7. Zeroes'
  BY <1>1, <1>2, ZeroesKept DEF Zero
<1> QED BY <1>2, <1>4, <1>5, <1>6, <1>7 DEF IInv

LEMMA EnterHolds ==
  ASSUME IInv, NEW w \in Writers, NEW d \in Docs, Ingest(w, d) \/ Erase(w, d)
  PROVE  IInv'
<1>1. thread[w].pc = "free" /\ Meet(w, d) /\ UNCHANGED <<tokens, lens, avg, blank>>
  BY DEF Ingest, Erase, At
<1>2. \E r : /\ Go(w, r) /\ DOMAIN r = Fields /\ r.pc = "chunk" /\ r.doc = d
             /\ \A x \in r.todo : x.id[1] = d
  <2>1. CASE Ingest(w, d)
    <3>1. PICK u : Go(w, [Free EXCEPT !.pc = "chunk", !.upload = u, !.doc = d, !.op = "add",
                                      !.todo = Entries(d, u.chunks)])
      BY <2>1 DEF Ingest
    <3> DEFINE r == [Free EXCEPT !.pc = "chunk", !.upload = u, !.doc = d, !.op = "add",
                                 !.todo = Entries(d, u.chunks)]
    <3>2. DOMAIN r = Fields /\ r.pc = "chunk" /\ r.doc = d /\ r.todo = Entries(d, u.chunks)
      BY FreeIs DEF Free, Fields
    <3>3. \A x \in Entries(d, u.chunks) : x.id[1] = d
      BY DEF Entries
    <3> HIDE DEF r
    <3>4. Go(w, r)
      BY <3>1 DEF r
    <3> QED BY <3>2, <3>3, <3>4
  <2>2. CASE Erase(w, d)
    <3> DEFINE ids == {c \in DOMAIN tokens : c[1] = d}
               todo == {[id |-> c, terms |-> {}] : c \in ids}
               r == [Free EXCEPT !.pc = "chunk", !.doc = d, !.op = "remove", !.todo = todo]
    <3>1. Go(w, r)
      BY <2>2 DEF Erase
    <3>2. DOMAIN r = Fields /\ r.pc = "chunk" /\ r.doc = d /\ r.todo = todo
      BY FreeIs DEF Free, Fields
    <3>3. \A x \in todo : x.id[1] = d
      OBVIOUS
    <3> HIDE DEF r, todo
    <3> QED BY <3>1, <3>2, <3>3
  <2> QED BY <2>1, <2>2
<1>3. PICK r : /\ Go(w, r) /\ DOMAIN r = Fields /\ r.pc = "chunk" /\ r.doc = d
               /\ \A x \in r.todo : x.id[1] = d
  BY <1>2
<1>4. /\ Shape' /\ Own' /\ Meeting'
      /\ \A v \in Writers \ {w} : thread'[v] = thread[v]
      /\ thread'[w].pc = "chunk"
      /\ mixed \subseteq mixed'
  BY <1>1, <1>3, EnterKeeps
<1> QED BY <1>1, <1>4, IndexKept DEF Averaging, Zero

LEMMA BeginHolds ==
  ASSUME IInv, NEW w \in Writers, NEW c \in thread[w].todo, Begin(w, c) PROVE IInv'
<1>1. PICK pc \in {"set", "pop"} : Takes(w, c, pc)
  BY DEF Begin
<1> DEFINE r == [thread[w] EXCEPT !.pc = pc, !.upload = None, !.chunk = c, !.todo = @ \ {c}]
<1>2. /\ thread[w].pc = "chunk" /\ mixed' = mixed /\ UNCHANGED <<tokens, lens, avg, blank>>
      /\ DOMAIN thread[w] = Fields /\ DOMAIN thread = Writers
      /\ thread' = [thread EXCEPT ![w] = r]
  BY <1>1 DEF Takes, Go, At, IInv, Shape
<1>3. /\ DOMAIN r = Fields /\ r.pc = pc /\ r.doc = thread[w].doc
      /\ r.todo \subseteq thread[w].todo /\ r.chunk = c
  BY <1>2 DEF Fields
<1> HIDE DEF r
<1>4. /\ DOMAIN thread' = Writers
      /\ thread'[w] = r
      /\ \A v \in Writers \ {w} : thread'[v] = thread[v]
  BY <1>2
<1>5. Within(w)
  BY <1>2, <1>3, <1>4 DEF Within, IInv, Shape
<1>6. c.id[1] = thread[w].doc
  BY DEF IInv, Own
<1>7. Shape' /\ Own' /\ Meeting'
  BY <1>3, <1>4, <1>5, <1>6, WithinKeeps
<1> QED BY <1>2, <1>3, <1>4, <1>7, IndexKept DEF Averaging, Zero

\* Reading and writing counts moves the program counter among these.
Taking == {"less", "dec", "drop", "del"}

LEMMA CountHolds ==
  ASSUME IInv, NEW w \in Writers,
         (\E pc \in {"more", "less"} : Read(w, pc)) \/ Increment(w) \/ Decrement(w) \/ Drop(w) \/ Delete(w)
  PROVE  IInv'
<1>1. mixed' = mixed /\ UNCHANGED <<tokens, lens, avg, blank>>
  BY DEF Read, Increment, Decrement, Drop, Delete, Write
<1>2. DOMAIN thread[w] = Fields
  BY DEF IInv, Shape
<1>3. PICK r : /\ Go(w, r) /\ DOMAIN r = Fields /\ r.doc = thread[w].doc
               /\ r.todo = thread[w].todo /\ r.chunk = thread[w].chunk
               /\ \/ thread[w].pc \in {"more", "inc"} /\ r.pc \in {"more", "inc"}
                  \/ thread[w].pc \in Taking /\ r.pc \in Taking
  <2>1. CASE \E pc \in {"more", "less"} : Read(w, pc)
    <3>1. PICK pc \in {"more", "less"} : Read(w, pc)
      BY <2>1
    <3> DEFINE r == [thread[w] EXCEPT !.pc = IF pc = "more" THEN "inc" ELSE "dec", !.read = df[Term(w)]]
    <3>2. Go(w, r) /\ thread[w].pc = pc
      BY <3>1 DEF Read, At
    <3>3. /\ DOMAIN r = Fields /\ r.doc = thread[w].doc /\ r.todo = thread[w].todo
          /\ r.chunk = thread[w].chunk /\ r.pc = IF pc = "more" THEN "inc" ELSE "dec"
      BY <1>2 DEF Fields
    <3> HIDE DEF r
    <3> QED BY <3>2, <3>3 DEF Taking
  <2>2. ASSUME NEW pc \in {"more", "less"}, Counted(w, pc),
               \/ thread[w].pc = "inc" /\ pc = "more"
               \/ thread[w].pc \in {"drop", "del"} /\ pc = "less"
        PROVE  \E r : /\ Go(w, r) /\ DOMAIN r = Fields /\ r.doc = thread[w].doc
                      /\ r.todo = thread[w].todo /\ r.chunk = thread[w].chunk
                      /\ \/ thread[w].pc \in {"more", "inc"} /\ r.pc \in {"more", "inc"}
                         \/ thread[w].pc \in Taking /\ r.pc \in Taking
    <3> DEFINE r == [thread[w] EXCEPT !.pc = pc, !.left = @ \ {Term(w)}, !.read = 0]
    <3>1. Go(w, r)
      BY <2>2 DEF Counted
    <3>2. /\ DOMAIN r = Fields /\ r.doc = thread[w].doc /\ r.todo = thread[w].todo
          /\ r.chunk = thread[w].chunk /\ r.pc = pc
      BY <1>2 DEF Fields
    <3> HIDE DEF r
    <3> QED BY <2>2, <3>1, <3>2 DEF Taking
  <2>3. CASE Increment(w)
    BY <2>2, <2>3 DEF Increment, At
  <2>4. CASE Drop(w)
    <3> DEFINE n == df[Term(w)]
               r == [thread[w] EXCEPT !.pc = "del", !.read = n]
    <3>1. (Go(w, r) \/ Counted(w, "less")) /\ thread[w].pc = "drop"
      BY <2>4 DEF Drop, At
    <3> HIDE DEF n
    <3>2. /\ DOMAIN r = Fields /\ r.doc = thread[w].doc /\ r.todo = thread[w].todo
          /\ r.chunk = thread[w].chunk /\ r.pc = "del"
      BY <1>2 DEF Fields
    <3> HIDE DEF r
    <3> QED BY <2>2, <3>1, <3>2 DEF Taking
  <2>6. CASE Delete(w)
    BY <2>2, <2>6 DEF Delete, At
  <2>5. CASE Decrement(w)
    <3> DEFINE r == [thread[w] EXCEPT !.pc = "drop"]
    <3>1. Go(w, r) /\ thread[w].pc = "dec"
      BY <2>5 DEF Decrement, Jump, At
    <3>2. /\ DOMAIN r = Fields /\ r.doc = thread[w].doc /\ r.todo = thread[w].todo
          /\ r.chunk = thread[w].chunk /\ r.pc = "drop"
      BY <1>2 DEF Fields
    <3> HIDE DEF r
    <3> QED BY <3>1, <3>2 DEF Taking
  <2> QED BY <2>1, <2>3, <2>4, <2>5, <2>6
<1>4. /\ Shape' /\ Own' /\ Meeting'
      /\ \A v \in Writers \ {w} : thread'[v] = thread[v]
      /\ thread'[w] = r
  BY <1>1, <1>3, JumpKeeps DEF Taking
<1> QED
  <2>1. ~Zero(w)'
    BY <1>3, <1>4 DEF Taking, Zero
  <2>2. thread[w].pc \notin Averaging \/
          (/\ thread'[w].chunk = thread[w].chunk
           /\ thread[w].pc # "setlen" /\ thread'[w].pc \in Averaging)
    BY <1>3, <1>4 DEF Taking, Averaging
  <2>3. thread'[w].pc # "poplen"
    BY <1>3, <1>4 DEF Taking
  <2> QED BY <1>1, <1>4, <2>1, <2>2, <2>3, IndexKept

LEMMA NextHolds == IInv /\ [Next]_vars => IInv'
<1> SUFFICES ASSUME IInv, [Next]_vars PROVE IInv'
  OBVIOUS
<1>1. CASE Next
  <2>1. PICK w \in Writers :
          \/ \E d \in Docs : Erase(w, d) \/ Ingest(w, d)
          \/ \E c \in thread[w].todo : Begin(w, c)
          \/ Pop(w) \/ PopLen(w) \/ Set(w) \/ SetLen(w)
          \/ \E pc \in {"more", "less"} : Read(w, pc)
          \/ Increment(w) \/ Decrement(w) \/ Drop(w) \/ Delete(w)
          \/ Test(w) \/ (\E pc \in {"more", "sum"} : SumUp(w, pc)) \/ Divide(w) \/ Store(w)
    BY <1>1 DEF Next
  <2>2. CASE \E d \in Docs : Erase(w, d) \/ Ingest(w, d)
    BY <2>2, EnterHolds
  <2>3. CASE \E c \in thread[w].todo : Begin(w, c)
    BY <2>3, BeginHolds
  <2>4. CASE Pop(w)
    BY <2>4, PopHolds
  <2>5. CASE PopLen(w)
    BY <2>5, PopLenHolds
  <2>6. CASE Set(w)
    BY <2>6, SetHolds
  <2>7. CASE SetLen(w)
    BY <2>7, SetLenHolds
  <2>8. CASE Test(w) \/ (\E pc \in {"more", "sum"} : SumUp(w, pc)) \/ Divide(w) \/ Store(w)
    BY <2>8, TestHolds, SumHolds, DivideHolds, StoreHolds
  <2>9. CASE (\E pc \in {"more", "less"} : Read(w, pc)) \/ Increment(w) \/ Decrement(w) \/ Drop(w) \/ Delete(w)
    BY <2>9, CountHolds
  <2> QED BY <2>1, <2>2, <2>3, <2>4, <2>5, <2>6, <2>7, <2>8, <2>9
<1>2. CASE UNCHANGED vars
  BY <1>2 DEF vars, IInv, Shape, Own, Meeting, HasLen, HasAvg, Popped, Zeroes, Zero, Adding
<1> QED BY <1>1, <1>2

------------------------------------------------------------------------------
(* Counts.  What df lacks of the chunks that hold a term is what writers of  *)
(* new chunks have still to add (Adds), and what it has too much is what     *)
(* those of removed ones have still to take off (Drops).                     *)

Adds(w) ==
  IF thread[w].pc = "setlen" THEN thread[w].chunk.terms
  ELSE IF thread[w].pc \in {"more", "inc"} THEN thread[w].left ELSE {}

Drops(w) ==
  IF thread[w].pc \in {"poplen", "less", "dec"} THEN thread[w].left
  ELSE IF thread[w].pc \in {"drop", "del"} THEN thread[w].left \ {Term(w)} ELSE {}

Adders(t)   == {w \in Writers : t \in Adds(w)}
Droppers(t) == {w \in Writers : t \in Drops(w)}

Count(t) == df[t] + Cardinality(Adders(t)) = Cardinality(Holds(t)) + Cardinality(Droppers(t))

\* What a writer knows of the chunk at hand.
Knows(w) ==
  /\ thread[w].pc \in {"set", "poplen", "less", "dec", "drop", "del", "sum"} => thread[w].chunk.id \notin DOMAIN tokens
  /\ thread[w].pc \in {"len", "store"} /\ thread[w].of = "remove" => thread[w].chunk.id \notin DOMAIN tokens
  /\ thread[w].pc \in {"setlen", "more", "inc"} =>
       thread[w].chunk.id \in DOMAIN tokens /\ tokens[thread[w].chunk.id] = thread[w].chunk.terms
  /\ thread[w].pc \in {"more", "inc"} => thread[w].left \subseteq thread[w].chunk.terms
  /\ thread[w].pc = "poplen" => thread[w].chunk.id \in lens

ThreadTypes(w) ==
  /\ thread[w].left \subseteq Terms /\ thread[w].read \in Int
  /\ thread[w].chunk.terms \subseteq Terms
  /\ \A x \in thread[w].todo : x.terms \subseteq Terms
  /\ thread[w].pc \in {"inc", "dec", "drop", "del"} => thread[w].left # {}
  /\ thread[w].pc = "del" => thread[w].read <= 0

Types ==
  /\ df \in [Terms -> Int]
  /\ IsFiniteSet(DOMAIN tokens) /\ \A c \in DOMAIN tokens : tokens[c] \subseteq Terms
  /\ \A w \in Writers : ThreadTypes(w)

Knowing  == \A w \in Writers : Knows(w)
Counting == \A t \in Terms \ lost : Count(t)

CInv == Types /\ (mixed = {} => Knowing /\ Counting)

Bit(b) == IF b THEN 1 ELSE 0

LEMMA TermIsLeft ==
  ASSUME NEW w \in Writers, thread[w].left \subseteq Terms, thread[w].left # {}
  PROVE  Term(w) \in thread[w].left
<1>1. \E t \in thread[w].left : \A u \in thread[w].left : t <= u
  BY DEF Terms
<1> QED BY <1>1 DEF Term

\* Writers that are at work are at different chunks.
LEMMA Apart ==
  ASSUME IInv, mixed = {}, NEW w \in Writers, NEW v \in Writers, w # v,
         thread[w].pc \notin {"free", "chunk"}, thread[v].pc \notin {"free", "chunk"}
  PROVE  thread[w].chunk.id # thread[v].chunk.id
BY OneChunk

\* A set of writers after one of them moved in, or out.
LEMMA MoveCounts ==
  ASSUME NEW S \in SUBSET Writers, NEW T \in SUBSET Writers, NEW w \in Writers,
         \A v \in Writers \ {w} : v \in S <=> v \in T
  PROVE  /\ Cardinality(S) \in Int /\ Cardinality(T) \in Int
         /\ Cardinality(T) = Cardinality(S) + Bit(w \in T) - Bit(w \in S)
<1>1. IsFiniteSet(S) /\ IsFiniteSet(T)
  BY LexicalAssumption, FS_Subset
<1>2. Cardinality(S) \in Int /\ Cardinality(T) \in Int
  BY <1>1, FS_CardinalityType
<1>3. CASE w \in S /\ w \in T
  <2>1. S = T
    BY <1>3
  <2> QED BY <1>2, <1>3, <2>1 DEF Bit
<1>4. CASE w \notin S /\ w \notin T
  <2>1. S = T
    BY <1>4
  <2> QED BY <1>2, <1>4, <2>1 DEF Bit
<1>5. CASE w \in S /\ w \notin T
  <2>1. T = S \ {w}
    BY <1>5
  <2>2. Cardinality(T) = Cardinality(S) - 1
    BY <1>1, <1>5, <2>1, FS_RemoveElement
  <2> QED BY <1>2, <1>5, <2>2 DEF Bit
<1>6. CASE w \notin S /\ w \in T
  <2>1. T = S \cup {w}
    BY <1>6
  <2>2. Cardinality(T) = Cardinality(S) + 1
    BY <1>1, <1>6, <2>1, FS_AddElement
  <2> QED BY <1>2, <1>6, <2>2 DEF Bit
<1> QED BY <1>2, <1>3, <1>4, <1>5, <1>6

LEMMA AddersMove ==
  ASSUME NEW w \in Writers, \A v \in Writers \ {w} : thread'[v] = thread[v], NEW t
  PROVE  /\ Cardinality(Adders(t)) \in Int /\ Cardinality(Adders(t)') \in Int
         /\ Cardinality(Adders(t)') = Cardinality(Adders(t)) + Bit(t \in Adds(w)') - Bit(t \in Adds(w))
<1> DEFINE S == Adders(t)
           T == Adders(t)'
<1>1. S \in SUBSET Writers /\ T \in SUBSET Writers
  BY DEF Adders
<1>2. \A v \in Writers \ {w} : v \in S <=> v \in T
  BY DEF Adders, Adds
<1>3. (w \in S <=> t \in Adds(w)) /\ (w \in T <=> t \in Adds(w)')
  BY DEF Adders
<1> HIDE DEF S, T
<1>4. Cardinality(S) \in Int
  BY <1>1, <1>2, MoveCounts
<1>5. Cardinality(T) \in Int
  BY <1>1, <1>2, MoveCounts
<1>6. Cardinality(T) = Cardinality(S) + Bit(w \in T) - Bit(w \in S)
  BY <1>1, <1>2, MoveCounts
<1>7. Bit(w \in S) = Bit(t \in Adds(w)) /\ Bit(w \in T) = Bit(t \in Adds(w)')
  BY <1>3 DEF Bit
<1> QED BY <1>4, <1>5, <1>6, <1>7 DEF S, T

LEMMA DroppersMove ==
  ASSUME NEW w \in Writers, \A v \in Writers \ {w} : thread'[v] = thread[v], NEW t
  PROVE  /\ Cardinality(Droppers(t)) \in Int /\ Cardinality(Droppers(t)') \in Int
         /\ Cardinality(Droppers(t)') = Cardinality(Droppers(t)) + Bit(t \in Drops(w)') - Bit(t \in Drops(w))
<1> DEFINE S == Droppers(t)
           T == Droppers(t)'
<1>1. S \in SUBSET Writers /\ T \in SUBSET Writers
  BY DEF Droppers
<1>2. \A v \in Writers \ {w} : v \in S <=> v \in T
  <2> SUFFICES ASSUME NEW v \in Writers \ {w} PROVE v \in S <=> v \in T
    OBVIOUS
  <2>1. thread'[v] = thread[v]
    OBVIOUS
  <2>2. Term(v)' = Term(v)
    BY <2>1 DEF Term
  <2>3. Drops(v)' = Drops(v)
    BY <2>1, <2>2 DEF Drops
  <2> QED BY <2>3 DEF Droppers
<1>3. (w \in S <=> t \in Drops(w)) /\ (w \in T <=> t \in Drops(w)')
  BY DEF Droppers
<1> HIDE DEF S, T
<1>4. Cardinality(S) \in Int
  BY <1>1, <1>2, MoveCounts
<1>5. Cardinality(T) \in Int
  BY <1>1, <1>2, MoveCounts
<1>6. Cardinality(T) = Cardinality(S) + Bit(w \in T) - Bit(w \in S)
  BY <1>1, <1>2, MoveCounts
<1>7. Bit(w \in S) = Bit(t \in Drops(w)) /\ Bit(w \in T) = Bit(t \in Drops(w)')
  BY <1>3 DEF Bit
<1> QED BY <1>4, <1>5, <1>6, <1>7 DEF S, T

\* The books of a term after a step that changes its count by n, the number of
\* chunks that hold it by h, and what one writer has still to do.
LEMMA CountMoves ==
  ASSUME Types, NEW w \in Writers, \A v \in Writers \ {w} : thread'[v] = thread[v],
         NEW t \in Terms, Count(t), NEW n \in Int, NEW h \in Int,
         df'[t] = df[t] + n, Cardinality(Holds(t)') = Cardinality(Holds(t)) + h,
         n + Bit(t \in Adds(w)') - Bit(t \in Adds(w)) = h + Bit(t \in Drops(w)') - Bit(t \in Drops(w))
  PROVE  Count(t)'
<1>1. /\ Cardinality(Adders(t)) \in Int /\ Cardinality(Adders(t)') \in Int
      /\ Cardinality(Adders(t)') = Cardinality(Adders(t)) + Bit(t \in Adds(w)') - Bit(t \in Adds(w))
  BY AddersMove
<1>2. /\ Cardinality(Droppers(t)) \in Int /\ Cardinality(Droppers(t)') \in Int
      /\ Cardinality(Droppers(t)') = Cardinality(Droppers(t)) + Bit(t \in Drops(w)') - Bit(t \in Drops(w))
  BY DroppersMove
<1>3. Cardinality(Holds(t)) \in Int /\ df[t] \in Int
  <2>1. IsFiniteSet(Holds(t))
    BY FS_Subset DEF Types, Holds
  <2> QED BY <2>1, FS_CardinalityType DEF Types
<1>4. /\ Bit(t \in Adds(w)') \in Int /\ Bit(t \in Adds(w)) \in Int
      /\ Bit(t \in Drops(w)') \in Int /\ Bit(t \in Drops(w)) \in Int
  BY DEF Bit
<1> QED BY <1>1, <1>2, <1>3, <1>4 DEF Count

LEMMA InitCounts == Init => CInv
<1> SUFFICES ASSUME Init PROVE CInv
  OBVIOUS
<1>1. PICK kept \in Kept :
        /\ tokens = [c \in Ids(kept) |-> TermsOf(Chunks(Base[c[1]])[c[2]])]
        /\ df = [t \in Terms |-> Cardinality({c \in Ids(kept) : t \in TermsOf(Chunks(Base[c[1]])[c[2]])})]
        /\ thread = [w \in Writers |-> Free]
  BY DEF Init
<1>2. IsFiniteSet(Ids(kept)) /\ DOMAIN tokens = Ids(kept)
  BY <1>1, LexicalAssumption
<1>3. \A c \in DOMAIN tokens : tokens[c] \subseteq Terms
  BY <1>1, <1>2 DEF TermsOf
<1>4. \A t \in Terms : df[t] = Cardinality(Holds(t)) /\ Cardinality(Holds(t)) \in Nat
  <2> SUFFICES ASSUME NEW t \in Terms
               PROVE  df[t] = Cardinality(Holds(t)) /\ Cardinality(Holds(t)) \in Nat
    OBVIOUS
  <2>1. Holds(t) = {c \in Ids(kept) : t \in TermsOf(Chunks(Base[c[1]])[c[2]])}
    BY <1>1, <1>2 DEF Holds
  <2>2. IsFiniteSet(Holds(t))
    BY <1>2, FS_Subset DEF Holds
  <2> QED BY <1>1, <2>1, <2>2, FS_CardinalityType
<1>5. \A w \in Writers : thread[w] = Free
  BY <1>1
<1>6. \A w \in Writers : ThreadTypes(w) /\ Knows(w) /\ Adds(w) = {} /\ Drops(w) = {}
  BY <1>5 DEF ThreadTypes, Knows, Adds, Drops, Free
<1>7. df \in [Terms -> Int]
  <2>1. df = [t \in Terms |-> df[t]]
    BY <1>1
  <2>2. \A t \in Terms : df[t] \in Int
    BY <1>4
  <2> QED BY <2>1, <2>2
<1>8. Counting
  <2> SUFFICES ASSUME NEW t \in Terms PROVE Count(t)
    BY DEF Counting
  <2>1. Adders(t) = {} /\ Droppers(t) = {}
    BY <1>6 DEF Adders, Droppers
  <2> QED BY <1>4, <2>1, FS_EmptySet DEF Count
<1> QED BY <1>2, <1>3, <1>6, <1>7, <1>8 DEF CInv, Types, Knowing

\* The types after a step of one writer.
LEMMA TypesKept ==
  ASSUME Types, NEW w \in Writers, \A v \in Writers \ {w} : thread'[v] = thread[v],
         ThreadTypes(w)', df' \in [Terms -> Int], IsFiniteSet(DOMAIN tokens'),
         \A c \in DOMAIN tokens' : tokens'[c] \subseteq Terms
  PROVE  Types'
BY DEF Types, ThreadTypes

SameCounts == \A t \in Terms \ lost' : df'[t] = df[t]

\* A step that moves no term from one part of the books to another.
LEMMA BooksStay ==
  ASSUME CInv, NEW w \in Writers, \A v \in Writers \ {w} : thread'[v] = thread[v],
         tokens' = tokens, mixed \subseteq mixed', lost \subseteq lost',
         df' \in [Terms -> Int], mixed' = {} => SameCounts, mixed' = {} => Knowing',
         ThreadTypes(w)', Adds(w)' = Adds(w), Drops(w)' = Drops(w)
  PROVE  CInv'
<1>1. Types'
  BY TypesKept DEF CInv, Types
<1>2. ASSUME mixed' = {} PROVE Counting'
  <2> SUFFICES ASSUME NEW t \in Terms, t \notin lost' PROVE Count(t)'
    BY DEF Counting
  <2>1. mixed = {} /\ t \notin lost
    BY <1>2
  <2>2. Count(t)
    BY <2>1 DEF CInv, Counting
  <2>3. df'[t] = df[t] + 0
    BY <1>2 DEF SameCounts, CInv, Types
  <2>4. Cardinality(Holds(t)') = Cardinality(Holds(t)) + 0
    <3>1. Holds(t)' = Holds(t)
      BY DEF Holds
    <3>2. Cardinality(Holds(t)) \in Int
      <4>1. IsFiniteSet(Holds(t))
        BY FS_Subset DEF CInv, Types, Holds
      <4> QED BY <4>1, FS_CardinalityType
    <3> QED BY <3>1, <3>2
  <2>5. /\ Bit(t \in Adds(w)') = Bit(t \in Adds(w)) /\ Bit(t \in Adds(w)) \in Int
        /\ Bit(t \in Drops(w)') = Bit(t \in Drops(w)) /\ Bit(t \in Drops(w)) \in Int
    BY DEF Bit
  <2>6. 0 + Bit(t \in Adds(w)') - Bit(t \in Adds(w)) = 0 + Bit(t \in Drops(w)') - Bit(t \in Drops(w))
    BY <2>5
  <2>7. Types
    BY DEF CInv
  <2> QED BY <2>2, <2>3, <2>4, <2>6, <2>7, CountMoves
<1> QED BY <1>1, <1>2 DEF CInv

\* What the others know does not depend on a step at another chunk.
LEMMA OthersKnow ==
  ASSUME CInv, NEW w \in Writers, \A v \in Writers \ {w} : thread'[v] = thread[v],
         mixed \subseteq mixed', UNCHANGED <<tokens, lens>>, mixed' = {} => Knows(w)'
  PROVE  mixed' = {} => Knowing'
BY DEF CInv, Knowing, Knows

\* A writer that leaves its chunk, or ends, has nothing to do for it.
LEMMA LeavesNothing ==
  ASSUME IInv, CInv, NEW w \in Writers, NEW r, Go(w, r), r = Free \/ r = Onward(thread[w])
  PROVE  ThreadTypes(w)' /\ Knows(w)' /\ Adds(w)' = {} /\ Drops(w)' = {}
<1>1. thread'[w] = r
  BY DEF Go, IInv, Shape
<1>2. CASE r = Free
  BY <1>1, <1>2 DEF Free, ThreadTypes, Knows, Adds, Drops
<1>3. CASE r = [thread[w] EXCEPT !.pc = "chunk"]
  <2>1. DOMAIN thread[w] = Fields
    BY DEF IInv, Shape
  <2>2. /\ r.pc = "chunk" /\ r.left = thread[w].left /\ r.read = thread[w].read
        /\ r.chunk = thread[w].chunk /\ r.todo = thread[w].todo
    BY <1>3, <2>1 DEF Fields
  <2> QED BY <1>1, <2>2 DEF CInv, Types, ThreadTypes, Knows, Adds, Drops
<1> QED BY <1>2, <1>3 DEF Onward

LEMMA RemovedNothing ==
  ASSUME IInv, CInv, NEW w \in Writers, Go(w, Removed(w)), tokens' = tokens,
         mixed' = {} => thread[w].chunk.id \notin DOMAIN tokens
  PROVE  ThreadTypes(w)' /\ (mixed' = {} => Knows(w)') /\ Adds(w)' = {} /\ Drops(w)' = {}
<1>1. CASE thread[w].op = "add"
  <2> DEFINE r == [thread[w] EXCEPT !.pc = "set"]
  <2>1. thread' = [thread EXCEPT ![w] = r] /\ DOMAIN thread = Writers /\ DOMAIN thread[w] = Fields
    BY <1>1 DEF Removed, Go, IInv, Shape
  <2>2. /\ r.pc = "set" /\ r.left = thread[w].left /\ r.read = thread[w].read
        /\ r.chunk = thread[w].chunk /\ r.todo = thread[w].todo
    BY <2>1 DEF Fields
  <2> HIDE DEF r
  <2>3. thread'[w] = r
    BY <2>1
  <2>4. ThreadTypes(w)'
    BY <2>2, <2>3 DEF CInv, Types, ThreadTypes
  <2> QED BY <2>2, <2>3, <2>4 DEF Knows, Adds, Drops
<1>2. CASE thread[w].op # "add"
  <2>1. Go(w, Onward(thread[w]))
    BY <1>2 DEF Removed
  <2> QED BY <2>1, LeavesNothing
<1> QED BY <1>1, <1>2

LEMMA EnterCounts ==
  ASSUME IInv, CInv, NEW w \in Writers, NEW d \in Docs, Ingest(w, d) \/ Erase(w, d)
  PROVE  CInv'
<1>1. /\ thread[w].pc = "free" /\ Meet(w, d) /\ UNCHANGED <<tokens, lens, df, lost>>
      /\ DOMAIN thread = Writers
  BY DEF Ingest, Erase, At, IInv, Shape
<1>2. \E r : /\ thread' = [thread EXCEPT ![w] = r] /\ r.pc = "chunk"
             /\ r.left = {} /\ r.read = 0 /\ r.chunk.terms = {}
             /\ \A x \in r.todo : x.terms \subseteq Terms
  <2>1. CASE Ingest(w, d)
    <3>1. PICK u : Go(w, [Free EXCEPT !.pc = "chunk", !.upload = u, !.doc = d, !.op = "add",
                                      !.todo = Entries(d, u.chunks)])
      BY <2>1 DEF Ingest
    <3> DEFINE r == [Free EXCEPT !.pc = "chunk", !.upload = u, !.doc = d, !.op = "add",
                                 !.todo = Entries(d, u.chunks)]
    <3>2. /\ r.pc = "chunk" /\ r.left = {} /\ r.read = 0 /\ r.chunk.terms = {}
          /\ r.todo = Entries(d, u.chunks)
      BY DEF Free
    <3>3. \A x \in Entries(d, u.chunks) : x.terms \subseteq Terms
      BY DEF Entries, TermsOf
    <3> HIDE DEF r
    <3>4. thread' = [thread EXCEPT ![w] = r]
      BY <3>1 DEF r, Go
    <3> QED BY <3>2, <3>3, <3>4
  <2>2. CASE Erase(w, d)
    <3> DEFINE ids == {c \in DOMAIN tokens : c[1] = d}
               todo == {[id |-> c, terms |-> {}] : c \in ids}
               r == [Free EXCEPT !.pc = "chunk", !.doc = d, !.op = "remove", !.todo = todo]
    <3>1. thread' = [thread EXCEPT ![w] = r]
      BY <2>2 DEF Erase, Go
    <3>2. /\ r.pc = "chunk" /\ r.left = {} /\ r.read = 0 /\ r.chunk.terms = {} /\ r.todo = todo
      BY DEF Free
    <3>3. \A x \in todo : x.terms \subseteq Terms
      OBVIOUS
    <3> HIDE DEF r, todo
    <3> QED BY <3>1, <3>2, <3>3
  <2> QED BY <2>1, <2>2
<1>3. PICK r : /\ thread' = [thread EXCEPT ![w] = r] /\ r.pc = "chunk"
               /\ r.left = {} /\ r.read = 0 /\ r.chunk.terms = {}
               /\ \A x \in r.todo : x.terms \subseteq Terms
  BY <1>2
<1>4. thread'[w] = r /\ \A v \in Writers \ {w} : thread'[v] = thread[v]
  BY <1>1, <1>3
<1>5. ThreadTypes(w)' /\ Knows(w)' /\ Adds(w)' = {} /\ Drops(w)' = {}
  BY <1>3, <1>4 DEF ThreadTypes, Knows, Adds, Drops
<1>6. Adds(w) = {} /\ Drops(w) = {}
  BY <1>1 DEF Adds, Drops
<1>7. mixed \subseteq mixed'
  BY <1>1 DEF Meet
<1>8. mixed' = {} => Knowing'
  BY <1>1, <1>4, <1>5, <1>7, OthersKnow
<1>9. df' \in [Terms -> Int] /\ SameCounts
  BY <1>1 DEF CInv, Types, SameCounts
<1> QED BY <1>1, <1>4, <1>5, <1>6, <1>7, <1>8, <1>9, BooksStay

LEMMA BeginCounts ==
  ASSUME IInv, CInv, NEW w \in Writers, NEW c \in thread[w].todo, Begin(w, c) PROVE CInv'
<1>1. PICK pc \in {"set", "pop"} : Takes(w, c, pc) /\ (pc = "set" => c.id \notin DOMAIN tokens)
  BY DEF Begin
<1> DEFINE r == [thread[w] EXCEPT !.pc = pc, !.upload = None, !.chunk = c, !.todo = @ \ {c}]
<1>2. /\ thread[w].pc = "chunk" /\ mixed' = mixed /\ UNCHANGED <<tokens, lens, df, lost>>
      /\ DOMAIN thread[w] = Fields /\ DOMAIN thread = Writers
      /\ thread' = [thread EXCEPT ![w] = r]
  BY <1>1 DEF Takes, Go, At, IInv, Shape
<1>3. /\ r.pc = pc /\ r.left = thread[w].left /\ r.read = thread[w].read
      /\ r.todo \subseteq thread[w].todo /\ r.chunk = c
  BY <1>2 DEF Fields
<1> HIDE DEF r
<1>4. thread'[w] = r /\ \A v \in Writers \ {w} : thread'[v] = thread[v]
  BY <1>2
<1>5. ThreadTypes(w)'
  BY <1>1, <1>3, <1>4 DEF CInv, Types, ThreadTypes
<1>6. Knows(w)'
  BY <1>1, <1>2, <1>3, <1>4 DEF Knows
<1>7. Adds(w)' = {} /\ Drops(w)' = {} /\ Adds(w) = {} /\ Drops(w) = {}
  BY <1>1, <1>2, <1>3, <1>4 DEF Adds, Drops
<1>8. mixed' = {} => Knowing'
  BY <1>2, <1>4, <1>6, OthersKnow
<1>9. df' \in [Terms -> Int] /\ SameCounts
  BY <1>2 DEF CInv, Types, SameCounts
<1> QED BY <1>2, <1>4, <1>5, <1>7, <1>8, <1>9, BooksStay

LEMMA HoldsFinite ==
  ASSUME Types, NEW t
  PROVE  IsFiniteSet(Holds(t)) /\ Cardinality(Holds(t)) \in Int
<1>1. IsFiniteSet(Holds(t))
  BY FS_Subset DEF Types, Holds
<1> QED BY <1>1, FS_CardinalityType

\* The terms of a chunk that is removed are to be taken off the counts.
LEMMA PopCounts == ASSUME IInv, CInv, NEW w \in Writers, Pop(w) PROVE CInv'
<1> DEFINE c == thread[w].chunk.id
<1>1. /\ thread[w].pc = "pop" /\ mixed' = mixed /\ UNCHANGED <<lens, df, lost>>
      /\ DOMAIN thread[w] = Fields
  BY DEF Pop, At, IInv, Shape
<1>2. Adds(w) = {} /\ Drops(w) = {}
  BY <1>1 DEF Adds, Drops
<1>3. df' \in [Terms -> Int] /\ SameCounts
  BY <1>1 DEF CInv, Types, SameCounts
<1>4. CASE c \in DOMAIN tokens
  <2> DEFINE r == [thread[w] EXCEPT !.pc = "poplen", !.left = tokens[c]]
  <2>1. /\ tokens' = [x \in DOMAIN tokens \ {c} |-> tokens[x]]
        /\ Go(w, r)
    BY <1>4 DEF Pop, Chunk
  <2>2. /\ DOMAIN r = Fields /\ r.pc = "poplen" /\ r.left = tokens[c] /\ r.read = thread[w].read
        /\ r.doc = thread[w].doc /\ r.todo = thread[w].todo /\ r.chunk = thread[w].chunk
    BY <1>1 DEF Fields
  <2> HIDE DEF r
  <2>3. thread'[w] = r /\ \A v \in Writers \ {w} : thread'[v] = thread[v]
    BY <1>1, <2>1, <2>2, JumpKeeps
  <2>4. DOMAIN tokens' = DOMAIN tokens \ {c} /\ \A x \in DOMAIN tokens' : tokens'[x] = tokens[x]
    BY <2>1
  <2>5. Types'
    <3>1. ThreadTypes(w)'
      BY <1>4, <2>2, <2>3 DEF CInv, Types, ThreadTypes
    <3>2. IsFiniteSet(DOMAIN tokens')
      BY <2>4, FS_RemoveElement DEF CInv, Types
    <3>3. \A x \in DOMAIN tokens' : tokens'[x] \subseteq Terms
      BY <2>4 DEF CInv, Types
    <3>4. Types
      BY DEF CInv
    <3> QED BY <1>3, <2>3, <3>1, <3>2, <3>3, <3>4, TypesKept
  <2>6. Adds(w)' = {} /\ Drops(w)' = tokens[c]
    BY <2>2, <2>3 DEF Adds, Drops
  <2>7. ASSUME mixed' = {} PROVE Knowing'
    <3>1. mixed = {}
      BY <1>1, <2>7
    <3>2. c \in lens
      <4>1. SUFFICES ASSUME c \notin lens PROVE FALSE
        OBVIOUS
      <4>2. PICK v \in Writers : Adding(v, c, {"setlen"})
        BY <1>4, <3>1, <4>1 DEF IInv, HasLen
      <4>3. v # w /\ thread[v].pc = "setlen" /\ thread[v].chunk.id = c
        BY <1>1, <4>2 DEF Adding
      <4> QED BY <1>1, <3>1, <4>3, Apart
    <3>3. Knows(w)'
      BY <1>1, <2>2, <2>3, <2>4, <3>2 DEF Knows
    <3>4. ASSUME NEW v \in Writers, v # w PROVE Knows(v)'
      <4>1. thread'[v] = thread[v] /\ Knows(v)
        BY <2>3, <3>1, <3>4 DEF CInv, Knowing
      <4>2. thread[v].pc \notin {"free", "chunk"} => thread[v].chunk.id # c
        BY <1>1, <3>1, <3>4, Apart
      <4> QED BY <1>1, <2>4, <4>1, <4>2 DEF Knows
    <3> QED BY <3>3, <3>4 DEF Knowing
  <2>8. ASSUME mixed' = {} PROVE Counting'
    <3> SUFFICES ASSUME NEW t \in Terms, t \notin lost PROVE Count(t)'
      BY <1>1 DEF Counting
    <3>1. Count(t) /\ Types
      BY <1>1, <2>8 DEF CInv, Counting
    <3> DEFINE h == -Bit(t \in tokens[c])
    <3>2. h \in Int /\ df[t] \in Int
      BY <3>1 DEF Bit, Types
    <3>3. df'[t] = df[t] + 0
      BY <1>1, <3>2
    <3>4. Cardinality(Holds(t)') = Cardinality(Holds(t)) + h
      <4>1. IsFiniteSet(Holds(t)) /\ Cardinality(Holds(t)) \in Int
        BY <3>1, HoldsFinite
      <4>2. CASE t \in tokens[c]
        <5>1. Holds(t)' = Holds(t) \ {c} /\ c \in Holds(t)
          BY <1>4, <2>4, <4>2 DEF Holds
        <5> HIDE DEF c
        <5>2. Cardinality(Holds(t) \ {c}) = Cardinality(Holds(t)) - 1
          BY <4>1, <5>1, FS_RemoveElement
        <5> QED BY <4>1, <4>2, <5>1, <5>2 DEF Bit
      <4>3. CASE t \notin tokens[c]
        <5>1. Holds(t)' = Holds(t)
          BY <1>4, <2>4, <4>3 DEF Holds
        <5> QED BY <4>1, <4>3, <5>1 DEF Bit
      <4> QED BY <4>2, <4>3
    <3>5. 0 + Bit(t \in Adds(w)') - Bit(t \in Adds(w)) = h + Bit(t \in Drops(w)') - Bit(t \in Drops(w))
      BY <1>2, <2>6 DEF Bit
    <3> HIDE DEF h
    <3> QED BY <2>3, <3>1, <3>2, <3>3, <3>4, <3>5, CountMoves
  <2> QED BY <2>5, <2>7, <2>8 DEF CInv
<1>5. CASE c \notin DOMAIN tokens
  <2>1. tokens' = tokens
    BY <1>5 DEF Pop, Chunk
  <2>2. Go(w, Removed(w))
    BY <1>5 DEF Pop, Chunk
  <2>3. \A v \in Writers \ {w} : thread'[v] = thread[v]
    BY <1>1, <2>2, RemovedKeeps
  <2>4. ThreadTypes(w)' /\ (mixed' = {} => Knows(w)') /\ Adds(w)' = {} /\ Drops(w)' = {}
    BY <1>5, <2>1, <2>2, RemovedNothing
  <2>5. mixed' = {} => Knowing'
    BY <1>1, <2>1, <2>3, <2>4, OthersKnow
  <2> QED BY <1>1, <1>2, <1>3, <2>1, <2>3, <2>4, <2>5, BooksStay
<1> QED BY <1>4, <1>5

LEMMA PopLenCounts == ASSUME IInv, CInv, NEW w \in Writers, PopLen(w) PROVE CInv'
<1> DEFINE c == thread[w].chunk.id
<1>1. /\ thread[w].pc = "poplen" /\ mixed' = mixed /\ UNCHANGED <<tokens, df, lost>>
      /\ DOMAIN thread[w] = Fields /\ lens' = lens \ {c}
  BY DEF PopLen, At, IInv, Shape, Chunk
<1>2. df' \in [Terms -> Int] /\ SameCounts
  BY <1>1 DEF CInv, Types, SameCounts
<1>3. CASE c \in lens
  <2> DEFINE r == [thread[w] EXCEPT !.pc = "less"]
  <2>1. Go(w, r)
    BY <1>3 DEF PopLen, Jump, Chunk
  <2>2. /\ DOMAIN r = Fields /\ r.pc = "less" /\ r.left = thread[w].left /\ r.read = thread[w].read
        /\ r.doc = thread[w].doc /\ r.todo = thread[w].todo /\ r.chunk = thread[w].chunk
    BY <1>1 DEF Fields
  <2> HIDE DEF r
  <2>3. thread'[w] = r /\ \A v \in Writers \ {w} : thread'[v] = thread[v]
    BY <1>1, <2>1, <2>2, JumpKeeps
  <2>4. ThreadTypes(w)'
    BY <2>2, <2>3 DEF CInv, Types, ThreadTypes
  <2>5. Adds(w)' = Adds(w) /\ Drops(w)' = Drops(w)
    BY <1>1, <2>2, <2>3 DEF Adds, Drops
  <2>6. ASSUME mixed' = {} PROVE Knowing'
    <3>1. mixed = {}
      BY <1>1, <2>6
    <3>2. Knows(w)'
      BY <1>1, <2>2, <2>3, <3>1 DEF CInv, Knowing, Knows
    <3>3. ASSUME NEW v \in Writers, v # w PROVE Knows(v)'
      <4>1. thread'[v] = thread[v] /\ Knows(v)
        BY <2>3, <3>1, <3>3 DEF CInv, Knowing
      <4>2. thread[v].pc \notin {"free", "chunk"} => thread[v].chunk.id # c
        BY <1>1, <3>1, <3>3, Apart
      <4> QED BY <1>1, <4>1, <4>2 DEF Knows
    <3> QED BY <3>2, <3>3 DEF Knowing
  <2> QED BY <1>1, <1>2, <2>3, <2>4, <2>5, <2>6, BooksStay
<1>4. CASE c \notin lens  \* KeyError, which only a document two writers are in meets
  <2>1. Go(w, Free)
    BY <1>4 DEF PopLen, Chunk
  <2>2. \A v \in Writers \ {w} : thread'[v] = thread[v]
    BY <1>1, <2>1, LeaveKeeps
  <2>3. ThreadTypes(w)'
    BY <2>1, LeavesNothing
  <2>4. mixed' # {}
    BY <1>1, <1>4 DEF CInv, Knowing, Knows
  <2>5. Types'
    BY <1>1, <1>2, <2>2, <2>3, TypesKept DEF CInv, Types
  <2> QED BY <2>4, <2>5 DEF CInv
<1> QED BY <1>3, <1>4

\* The terms of a chunk that is added are to be counted.
LEMMA SetCounts == ASSUME IInv, CInv, NEW w \in Writers, Set(w) PROVE CInv'
<1> DEFINE c == thread[w].chunk.id
           terms == thread[w].chunk.terms
           r == [thread[w] EXCEPT !.pc = "setlen"]
<1>1. /\ thread[w].pc = "set" /\ mixed' = mixed /\ UNCHANGED <<lens, df, lost>>
      /\ DOMAIN thread[w] = Fields
      /\ tokens' = [x \in DOMAIN tokens \cup {c} |-> IF x = c THEN terms ELSE tokens[x]]
      /\ Go(w, r)
  BY DEF Set, At, IInv, Shape, Jump, Chunk
<1>2. /\ DOMAIN r = Fields /\ r.pc = "setlen" /\ r.left = thread[w].left /\ r.read = thread[w].read
      /\ r.doc = thread[w].doc /\ r.todo = thread[w].todo /\ r.chunk = thread[w].chunk
  BY <1>1 DEF Fields
<1> HIDE DEF r
<1>3. thread'[w] = r /\ \A v \in Writers \ {w} : thread'[v] = thread[v]
  BY <1>1, <1>2, JumpKeeps
<1>4. /\ DOMAIN tokens' = DOMAIN tokens \cup {c} /\ tokens'[c] = terms
      /\ \A x \in DOMAIN tokens : x # c => tokens'[x] = tokens[x]
  BY <1>1
<1>5. Adds(w) = {} /\ Drops(w) = {} /\ Adds(w)' = terms /\ Drops(w)' = {}
  BY <1>1, <1>2, <1>3 DEF Adds, Drops
<1>6. Types'
  <2>1. ThreadTypes(w)'
    BY <1>2, <1>3 DEF CInv, Types, ThreadTypes
  <2>2. IsFiniteSet(DOMAIN tokens')
    BY <1>4, FS_AddElement DEF CInv, Types
  <2>3. \A x \in DOMAIN tokens' : tokens'[x] \subseteq Terms
    BY <1>4 DEF CInv, Types, ThreadTypes
  <2>4. Types /\ df' \in [Terms -> Int]
    BY <1>1 DEF CInv, Types
  <2> QED BY <1>3, <2>1, <2>2, <2>3, <2>4, TypesKept
<1>7. ASSUME mixed' = {} PROVE Knowing'
  <2>1. mixed = {}
    BY <1>1, <1>7
  <2>2. Knows(w)'
    BY <1>2, <1>3, <1>4 DEF Knows
  <2>3. ASSUME NEW v \in Writers, v # w PROVE Knows(v)'
    <3>1. thread'[v] = thread[v] /\ Knows(v)
      BY <1>3, <2>1, <2>3 DEF CInv, Knowing
    <3>2. thread[v].pc \notin {"free", "chunk"} => thread[v].chunk.id # c
      BY <1>1, <2>1, <2>3, Apart
    <3> QED BY <1>1, <1>4, <3>1, <3>2 DEF Knows
  <2> QED BY <2>2, <2>3 DEF Knowing
<1>8. ASSUME mixed' = {} PROVE Counting'
  <2> SUFFICES ASSUME NEW t \in Terms, t \notin lost PROVE Count(t)'
    BY <1>1 DEF Counting
  <2>1. Count(t) /\ Types /\ c \notin DOMAIN tokens
    BY <1>1, <1>8 DEF CInv, Counting, Knowing, Knows
  <2> DEFINE h == Bit(t \in terms)
  <2>2. h \in Int /\ df[t] \in Int
    BY <2>1 DEF Bit, Types
  <2>3. df'[t] = df[t] + 0
    BY <1>1, <2>2
  <2>4. Cardinality(Holds(t)') = Cardinality(Holds(t)) + h
    <3>1. IsFiniteSet(Holds(t)) /\ Cardinality(Holds(t)) \in Int
      BY <2>1, HoldsFinite
    <3>2. CASE t \in terms
      <4>1. Holds(t)' = Holds(t) \cup {c} /\ c \notin Holds(t)
        BY <1>4, <2>1, <3>2 DEF Holds
      <4> HIDE DEF c
      <4>2. Cardinality(Holds(t) \cup {c}) = Cardinality(Holds(t)) + 1
        BY <3>1, <4>1, FS_AddElement
      <4> QED BY <3>1, <3>2, <4>1, <4>2 DEF Bit
    <3>3. CASE t \notin terms
      <4>1. Holds(t)' = Holds(t)
        BY <1>4, <2>1, <3>3 DEF Holds
      <4> QED BY <3>1, <3>3, <4>1 DEF Bit
    <3> QED BY <3>2, <3>3
  <2>5. 0 + Bit(t \in Adds(w)') - Bit(t \in Adds(w)) = h + Bit(t \in Drops(w)') - Bit(t \in Drops(w))
    BY <1>5 DEF Bit
  <2> HIDE DEF h
  <2> QED BY <1>3, <2>1, <2>2, <2>3, <2>4, <2>5, CountMoves
<1> QED BY <1>6, <1>7, <1>8 DEF CInv

LEMMA SetLenCounts == ASSUME IInv, CInv, NEW w \in Writers, SetLen(w) PROVE CInv'
<1> DEFINE r == [thread[w] EXCEPT !.pc = "more", !.left = thread[w].chunk.terms]
<1>1. /\ thread[w].pc = "setlen" /\ mixed' = mixed /\ UNCHANGED <<tokens, df, lost>>
      /\ DOMAIN thread[w] = Fields /\ lens \subseteq lens'
      /\ Go(w, r)
  BY DEF SetLen, At, IInv, Shape, Chunk
<1>2. /\ DOMAIN r = Fields /\ r.pc = "more" /\ r.left = thread[w].chunk.terms /\ r.read = thread[w].read
      /\ r.doc = thread[w].doc /\ r.todo = thread[w].todo /\ r.chunk = thread[w].chunk
  BY <1>1 DEF Fields
<1> HIDE DEF r
<1>3. thread'[w] = r /\ \A v \in Writers \ {w} : thread'[v] = thread[v]
  BY <1>1, <1>2, JumpKeeps
<1>4. ThreadTypes(w)'
  BY <1>2, <1>3 DEF CInv, Types, ThreadTypes
<1>5. Adds(w)' = Adds(w) /\ Drops(w)' = Drops(w)
  BY <1>1, <1>2, <1>3 DEF Adds, Drops
<1>6. ASSUME mixed' = {} PROVE Knowing'
  <2>1. Knows(w)'
    BY <1>1, <1>2, <1>3, <1>6 DEF CInv, Knowing, Knows
  <2>2. ASSUME NEW v \in Writers, v # w PROVE Knows(v)'
    BY <1>1, <1>3, <1>6, <2>2 DEF CInv, Knowing, Knows
  <2> QED BY <2>1, <2>2 DEF Knowing
<1>7. df' \in [Terms -> Int] /\ SameCounts
  BY <1>1 DEF CInv, Types, SameCounts
<1> QED BY <1>1, <1>3, <1>4, <1>5, <1>6, <1>7, BooksStay

LEMMA ReadCounts ==
  ASSUME IInv, CInv, NEW w \in Writers, NEW pc \in {"more", "less"}, Read(w, pc) PROVE CInv'
<1> DEFINE r == [thread[w] EXCEPT !.pc = IF pc = "more" THEN "inc" ELSE "dec", !.read = df[Term(w)]]
<1>1. /\ thread[w].pc = pc /\ thread[w].left # {}
      /\ mixed' = mixed /\ UNCHANGED <<tokens, lens, df, lost>>
      /\ DOMAIN thread[w] = Fields
      /\ Go(w, r)
  BY DEF Read, At, IInv, Shape
<1>2. /\ DOMAIN r = Fields /\ r.pc = (IF pc = "more" THEN "inc" ELSE "dec")
      /\ r.left = thread[w].left /\ r.read = df[Term(w)]
      /\ r.doc = thread[w].doc /\ r.todo = thread[w].todo /\ r.chunk = thread[w].chunk
  BY <1>1 DEF Fields
<1> HIDE DEF r
<1>3. thread'[w] = r /\ \A v \in Writers \ {w} : thread'[v] = thread[v]
  BY <1>1, <1>2, JumpKeeps
<1>4. ThreadTypes(w)'
  <2>1. Term(w) \in Terms
    BY <1>1, TermIsLeft DEF CInv, Types, ThreadTypes
  <2>2. df[Term(w)] \in Int
    BY <2>1 DEF CInv, Types
  <2> QED BY <1>1, <1>2, <1>3, <2>2 DEF CInv, Types, ThreadTypes
<1>5. Adds(w)' = Adds(w) /\ Drops(w)' = Drops(w)
  BY <1>1, <1>2, <1>3 DEF Adds, Drops
<1>6. mixed' = {} => Knows(w)'
  BY <1>1, <1>2, <1>3 DEF CInv, Knowing, Knows
<1>7. mixed' = {} => Knowing'
  BY <1>1, <1>3, <1>6, OthersKnow
<1>8. df' \in [Terms -> Int] /\ SameCounts
  BY <1>1 DEF CInv, Types, SameCounts
<1> QED BY <1>1, <1>3, <1>4, <1>5, <1>7, <1>8, BooksStay

\* Who has still to count a term has put in a chunk that holds it, each another
\* one, so that a count of 0 or less is never due to a count yet to come.
LEMMA NotNegative ==
  ASSUME IInv, CInv, mixed = {}, NEW t \in Terms, t \notin lost
  PROVE  df[t] >= 0
<1> DEFINE S == Adders(t)
           T == Holds(t)
           f == [v \in S |-> thread[v].chunk.id]
<1>1. IsFiniteSet(T) /\ Cardinality(T) \in Int
  BY HoldsFinite DEF CInv
<1>2. \A v \in S : v \in Writers /\ thread[v].pc \in {"setlen", "more", "inc"} /\ thread[v].chunk.id \in T
  <2> SUFFICES ASSUME NEW v \in S
               PROVE  v \in Writers /\ thread[v].pc \in {"setlen", "more", "inc"} /\ thread[v].chunk.id \in T
    OBVIOUS
  <2>1. v \in Writers /\ t \in Adds(v)
    BY DEF Adders
  <2>2. thread[v].pc \in {"setlen", "more", "inc"}
    BY <2>1 DEF Adds
  <2>3. Knows(v)
    BY <2>1 DEF CInv, Knowing
  <2>4. t \in thread[v].chunk.terms
    BY <2>1, <2>2, <2>3 DEF Adds, Knows
  <2> QED BY <2>1, <2>2, <2>3, <2>4 DEF Knows, Holds
<1>3. f \in Injection(S, T)
  <2>1. ASSUME NEW v \in S, NEW u \in S, v # u PROVE f[v] # f[u]
    BY <1>2, <2>1, Apart
  <2>2. f \in [S -> T]
    BY <1>2
  <2> QED BY <2>1, <2>2 DEF Injection, IsInjective
<1> HIDE DEF S, T, f
<1>4. Cardinality(S) <= Cardinality(T)
  BY <1>1, <1>3, FS_Injection
<1>5. Cardinality(Adders(t)) \in Int /\ Cardinality(Droppers(t)) \in Nat
  <2>1. IsFiniteSet(Adders(t)) /\ IsFiniteSet(Droppers(t))
    BY LexicalAssumption, FS_Subset DEF Adders, Droppers
  <2> QED BY <2>1, FS_CardinalityType
<1>6. Count(t) /\ df[t] \in Int
  BY DEF CInv, Counting, Types
<1> QED BY <1>1, <1>4, <1>5, <1>6 DEF Count, S, T

LEMMA IncrementCounts == ASSUME IInv, CInv, NEW w \in Writers, Increment(w) PROVE CInv'
<1> DEFINE k == Term(w)
           r == [thread[w] EXCEPT !.pc = "more", !.left = @ \ {k}, !.read = 0]
<1>1. /\ thread[w].pc = "inc" /\ mixed' = mixed /\ UNCHANGED <<tokens, lens>>
      /\ df' = [df EXCEPT ![k] = thread[w].read + 1]
      /\ lost' = lost \cup {x \in {k} : df[k] # thread[w].read}
      /\ DOMAIN thread[w] = Fields
      /\ Go(w, r)
  BY DEF Increment, Write, Counted, At, IInv, Shape
<1>2. /\ DOMAIN r = Fields /\ r.pc = "more" /\ r.left = thread[w].left \ {k} /\ r.read = 0
      /\ r.doc = thread[w].doc /\ r.todo = thread[w].todo /\ r.chunk = thread[w].chunk
  BY <1>1 DEF Fields
<1>3. k \in thread[w].left /\ k \in Terms /\ thread[w].read \in Int /\ Types /\ df \in [Terms -> Int]
  BY <1>1, TermIsLeft DEF CInv, Types, ThreadTypes
<1> HIDE DEF r, k
<1>4. thread'[w] = r /\ \A v \in Writers \ {w} : thread'[v] = thread[v]
  BY <1>1, <1>2, JumpKeeps
<1>5. df' \in [Terms -> Int] /\ df'[k] = thread[w].read + 1 /\ \A t \in Terms : t # k => df'[t] = df[t]
  BY <1>1, <1>3
<1>6. ThreadTypes(w)'
  BY <1>2, <1>3, <1>4 DEF Types, ThreadTypes
<1>7. Types'
  <2>1. IsFiniteSet(DOMAIN tokens') /\ \A x \in DOMAIN tokens' : tokens'[x] \subseteq Terms
    BY <1>1, <1>3 DEF Types
  <2> QED BY <1>3, <1>4, <1>5, <1>6, <2>1, TypesKept
<1>8. Adds(w) = thread[w].left /\ Adds(w)' = thread[w].left \ {k} /\ Drops(w) = {} /\ Drops(w)' = {}
  BY <1>1, <1>2, <1>4 DEF Adds, Drops
<1>9. mixed' = {} => Knowing'
  <2>1. mixed' = {} => Knows(w)'
    BY <1>1, <1>2, <1>4 DEF CInv, Knowing, Knows
  <2> QED BY <1>1, <1>4, <2>1, OthersKnow
<1>10. ASSUME mixed' = {} PROVE Counting'
  <2> SUFFICES ASSUME NEW t \in Terms, t \notin lost' PROVE Count(t)'
    BY DEF Counting
  <2>1. Count(t) /\ Holds(t)' = Holds(t)
    BY <1>1, <1>10 DEF CInv, Counting, Holds
  <2> DEFINE n == Bit(t = k)
  <2>2. n \in Int /\ df[t] \in Int
    BY <1>3 DEF Bit
  <2>3. df'[t] = df[t] + n
    BY <1>1, <1>3, <1>5, <2>2 DEF Bit
  <2>4. Cardinality(Holds(t)') = Cardinality(Holds(t)) + 0
    BY <1>3, <2>1, HoldsFinite
  <2>5. n + Bit(t \in Adds(w)') - Bit(t \in Adds(w)) = 0 + Bit(t \in Drops(w)') - Bit(t \in Drops(w))
    BY <1>3, <1>8 DEF Bit
  <2> HIDE DEF n
  <2>6. Types /\ Count(t)
    BY <1>3, <2>1
  <2> QED BY <1>4, <2>2, <2>3, <2>4, <2>5, <2>6, CountMoves
<1> QED BY <1>7, <1>9, <1>10 DEF CInv

LEMMA DecrementCounts == ASSUME IInv, CInv, NEW w \in Writers, Decrement(w) PROVE CInv'
<1> DEFINE k == Term(w)
           r == [thread[w] EXCEPT !.pc = "drop"]
<1>1. /\ thread[w].pc = "dec" /\ mixed' = mixed /\ UNCHANGED <<tokens, lens>>
      /\ df' = [df EXCEPT ![k] = thread[w].read - 1]
      /\ lost' = lost \cup {x \in {k} : df[k] # thread[w].read}
      /\ DOMAIN thread[w] = Fields
      /\ Go(w, r)
  BY DEF Decrement, Write, Jump, At, IInv, Shape
<1>2. /\ DOMAIN r = Fields /\ r.pc = "drop" /\ r.left = thread[w].left /\ r.read = thread[w].read
      /\ r.doc = thread[w].doc /\ r.todo = thread[w].todo /\ r.chunk = thread[w].chunk
  BY <1>1 DEF Fields
<1>3. /\ k \in thread[w].left /\ k \in Terms /\ thread[w].read \in Int /\ thread[w].left # {}
      /\ Types /\ df \in [Terms -> Int]
  BY <1>1, TermIsLeft DEF CInv, Types, ThreadTypes
<1> HIDE DEF r
<1>4. thread'[w] = r /\ \A v \in Writers \ {w} : thread'[v] = thread[v]
  BY <1>1, <1>2, JumpKeeps
<1>5. Term(w)' = k
  BY <1>2, <1>4 DEF Term
<1> HIDE DEF k
<1>6. df' \in [Terms -> Int] /\ df'[k] = thread[w].read - 1 /\ \A t \in Terms : t # k => df'[t] = df[t]
  BY <1>1, <1>3
<1>7. ThreadTypes(w)'
  BY <1>2, <1>3, <1>4 DEF Types, ThreadTypes
<1>8. Types'
  <2>1. IsFiniteSet(DOMAIN tokens') /\ \A x \in DOMAIN tokens' : tokens'[x] \subseteq Terms
    BY <1>1, <1>3 DEF Types
  <2> QED BY <1>3, <1>4, <1>6, <1>7, <2>1, TypesKept
<1>9. Drops(w) = thread[w].left /\ Drops(w)' = thread[w].left \ {k} /\ Adds(w) = {} /\ Adds(w)' = {}
  BY <1>1, <1>2, <1>4, <1>5 DEF Adds, Drops
<1>10. mixed' = {} => Knowing'
  <2>1. mixed' = {} => Knows(w)'
    BY <1>1, <1>2, <1>4 DEF CInv, Knowing, Knows
  <2> QED BY <1>1, <1>4, <2>1, OthersKnow
<1>11. ASSUME mixed' = {} PROVE Counting'
  <2> SUFFICES ASSUME NEW t \in Terms, t \notin lost' PROVE Count(t)'
    BY DEF Counting
  <2>1. Count(t) /\ Holds(t)' = Holds(t)
    BY <1>1, <1>11 DEF CInv, Counting, Holds
  <2> DEFINE n == -Bit(t = k)
  <2>2. n \in Int /\ df[t] \in Int
    BY <1>3 DEF Bit
  <2>3. df'[t] = df[t] + n
    BY <1>1, <1>3, <1>6, <2>2 DEF Bit
  <2>4. Cardinality(Holds(t)') = Cardinality(Holds(t)) + 0
    BY <1>3, <2>1, HoldsFinite
  <2>5. n + Bit(t \in Adds(w)') - Bit(t \in Adds(w)) = 0 + Bit(t \in Drops(w)') - Bit(t \in Drops(w))
    BY <1>3, <1>9 DEF Bit
  <2> HIDE DEF n
  <2>6. Types /\ Count(t)
    BY <1>3, <2>1
  <2> QED BY <1>4, <2>2, <2>3, <2>4, <2>5, <2>6, CountMoves
<1> QED BY <1>8, <1>10, <1>11 DEF CInv

LEMMA DropCounts == ASSUME IInv, CInv, NEW w \in Writers, Drop(w) PROVE CInv'
<1> DEFINE k == Term(w)
           n == df[k]
<1>1. /\ thread[w].pc = "drop" /\ mixed' = mixed /\ UNCHANGED <<tokens, lens, df, lost>>
      /\ DOMAIN thread[w] = Fields
  BY DEF Drop, At, IInv, Shape
<1>2. k \in thread[w].left /\ k \in Terms /\ n \in Int /\ Types
  BY <1>1, TermIsLeft DEF CInv, Types, ThreadTypes
<1>3. Drops(w) = thread[w].left \ {k} /\ Adds(w) = {}
  BY <1>1 DEF Adds, Drops
<1>4. /\ \A v \in Writers \ {w} : thread'[v] = thread[v]
      /\ ThreadTypes(w)' /\ (mixed' = {} => Knows(w)')
      /\ Adds(w)' = Adds(w) /\ Drops(w)' = Drops(w)
  <2>1. CASE n <= 0
    <3> DEFINE r == [thread[w] EXCEPT !.pc = "del", !.read = n]
    <3>1. Go(w, r)
      BY <2>1 DEF Drop
    <3> HIDE DEF n
    <3>2. /\ DOMAIN r = Fields /\ r.pc = "del" /\ r.left = thread[w].left /\ r.read = n
          /\ r.doc = thread[w].doc /\ r.todo = thread[w].todo /\ r.chunk = thread[w].chunk
      BY <1>1 DEF Fields
    <3> HIDE DEF r
    <3>3. thread'[w] = r /\ \A v \in Writers \ {w} : thread'[v] = thread[v]
      BY <1>1, <3>1, <3>2, JumpKeeps
    <3>4. Term(w)' = k
      BY <3>2, <3>3 DEF Term
    <3> HIDE DEF k
    <3>5. ThreadTypes(w)'
      BY <1>2, <2>1, <3>2, <3>3 DEF Types, ThreadTypes
    <3>6. mixed' = {} => Knows(w)'
      BY <1>1, <3>2, <3>3 DEF CInv, Knowing, Knows
    <3>7. Adds(w)' = Adds(w) /\ Drops(w)' = Drops(w)
      BY <1>3, <3>2, <3>3, <3>4 DEF Adds, Drops
    <3> QED BY <3>3, <3>5, <3>6, <3>7
  <2>2. CASE ~(n <= 0)
    <3> DEFINE r == [thread[w] EXCEPT !.pc = "less", !.left = @ \ {k}, !.read = 0]
    <3>1. Go(w, r)
      BY <2>2 DEF Drop, Counted
    <3> HIDE DEF k
    <3>2. /\ DOMAIN r = Fields /\ r.pc = "less" /\ r.left = thread[w].left \ {k} /\ r.read = 0
          /\ r.doc = thread[w].doc /\ r.todo = thread[w].todo /\ r.chunk = thread[w].chunk
      BY <1>1 DEF Fields
    <3> HIDE DEF r
    <3>3. thread'[w] = r /\ \A v \in Writers \ {w} : thread'[v] = thread[v]
      BY <1>1, <3>1, <3>2, JumpKeeps
    <3>4. ThreadTypes(w)'
      BY <1>2, <3>2, <3>3 DEF Types, ThreadTypes
    <3>5. mixed' = {} => Knows(w)'
      BY <1>1, <3>2, <3>3 DEF CInv, Knowing, Knows
    <3>6. Adds(w)' = Adds(w) /\ Drops(w)' = Drops(w)
      BY <1>3, <3>2, <3>3 DEF Adds, Drops
    <3> QED BY <3>3, <3>4, <3>5, <3>6
  <2> QED BY <2>1, <2>2
<1>5. mixed' = {} => Knowing'
  BY <1>1, <1>4, OthersKnow
<1>6. df' \in [Terms -> Int] /\ SameCounts
  BY <1>1 DEF CInv, Types, SameCounts
<1> QED BY <1>1, <1>4, <1>5, <1>6, BooksStay

\* What is deleted was 0, or another thread has counted since.
LEMMA DeleteCounts == ASSUME IInv, CInv, NEW w \in Writers, Delete(w) PROVE CInv'
<1> DEFINE k == Term(w)
           r == [thread[w] EXCEPT !.pc = "less", !.left = @ \ {k}, !.read = 0]
<1>1. /\ thread[w].pc = "del" /\ mixed' = mixed /\ UNCHANGED <<tokens, lens>>
      /\ df' = [df EXCEPT ![k] = 0]
      /\ lost' = lost \cup {x \in {k} : df[k] # thread[w].read}
      /\ DOMAIN thread[w] = Fields
      /\ Go(w, r)
  BY DEF Delete, Write, Counted, At, IInv, Shape
<1>2. /\ DOMAIN r = Fields /\ r.pc = "less" /\ r.left = thread[w].left \ {k} /\ r.read = 0
      /\ r.doc = thread[w].doc /\ r.todo = thread[w].todo /\ r.chunk = thread[w].chunk
  BY <1>1 DEF Fields
<1>3. /\ k \in Terms /\ df \in [Terms -> Int] /\ Types
      /\ thread[w].read \in Int /\ thread[w].read <= 0
  BY <1>1, TermIsLeft DEF CInv, Types, ThreadTypes
<1>4. Drops(w) = thread[w].left \ {k} /\ Adds(w) = {}
  BY <1>1 DEF Adds, Drops
<1> HIDE DEF r, k
<1>5. thread'[w] = r /\ \A v \in Writers \ {w} : thread'[v] = thread[v]
  BY <1>1, <1>2, JumpKeeps
<1>6. ThreadTypes(w)'
  BY <1>2, <1>3, <1>5 DEF Types, ThreadTypes
<1>7. Adds(w)' = Adds(w) /\ Drops(w)' = Drops(w)
  BY <1>2, <1>4, <1>5 DEF Adds, Drops
<1>8. mixed' = {} => Knowing'
  <2>1. mixed' = {} => Knows(w)'
    BY <1>1, <1>2, <1>5 DEF CInv, Knowing, Knows
  <2> QED BY <1>1, <1>5, <2>1, OthersKnow
<1>9. df' \in [Terms -> Int]
  BY <1>1, <1>3
<1>10. ASSUME mixed' = {} PROVE SameCounts
  <2> SUFFICES ASSUME NEW t \in Terms, t \notin lost' PROVE df'[t] = df[t]
    BY DEF SameCounts
  <2>1. t \notin lost /\ (t = k => df[t] = thread[w].read)
    BY <1>1
  <2>2. df[t] >= 0 /\ df[t] \in Int
    BY <1>1, <1>3, <1>10, <2>1, NotNegative
  <2> QED BY <1>1, <1>3, <2>1, <2>2
<1> QED BY <1>1, <1>5, <1>6, <1>7, <1>8, <1>9, <1>10, BooksStay

LEMMA TestCounts == ASSUME IInv, CInv, NEW w \in Writers, Test(w) PROVE CInv'
<1>1. /\ thread[w].pc = "less" /\ thread[w].left = {}
      /\ mixed' = mixed /\ UNCHANGED <<tokens, lens, df, lost>>
      /\ DOMAIN thread[w] = Fields
  BY DEF Test, At, IInv, Shape
<1>2. Adds(w) = {} /\ Drops(w) = {}
  BY <1>1 DEF Adds, Drops
<1>3. mixed' = {} => thread[w].chunk.id \notin DOMAIN tokens
  BY <1>1 DEF CInv, Knowing, Knows
<1>4. /\ \A v \in Writers \ {w} : thread'[v] = thread[v]
      /\ ThreadTypes(w)' /\ (mixed' = {} => Knows(w)') /\ Adds(w)' = {} /\ Drops(w)' = {}
  <2>1. CASE lens = {}
    <3>1. Go(w, Removed(w))
      BY <2>1 DEF Test
    <3> QED BY <1>1, <1>3, <3>1, RemovedKeeps, RemovedNothing
  <2>2. CASE lens # {}
    <3> DEFINE r == [thread[w] EXCEPT !.pc = "sum"]
    <3>1. Go(w, r)
      BY <2>2 DEF Test
    <3>2. /\ DOMAIN r = Fields /\ r.pc = "sum" /\ r.left = thread[w].left /\ r.read = thread[w].read
          /\ r.doc = thread[w].doc /\ r.todo = thread[w].todo /\ r.chunk = thread[w].chunk
      BY <1>1 DEF Fields
    <3> HIDE DEF r
    <3>3. thread'[w] = r /\ \A v \in Writers \ {w} : thread'[v] = thread[v]
      BY <1>1, <3>1, <3>2, JumpKeeps
    <3>4. ThreadTypes(w)'
      BY <3>2, <3>3 DEF CInv, Types, ThreadTypes
    <3>5. mixed' = {} => Knows(w)'
      BY <1>1, <1>3, <3>2, <3>3 DEF Knows
    <3>6. Adds(w)' = {} /\ Drops(w)' = {}
      BY <3>2, <3>3 DEF Adds, Drops
    <3> QED BY <3>3, <3>4, <3>5, <3>6
  <2> QED BY <2>1, <2>2
<1>5. mixed' = {} => Knowing'
  BY <1>1, <1>4, OthersKnow
<1>6. df' \in [Terms -> Int] /\ SameCounts
  BY <1>1 DEF CInv, Types, SameCounts
<1> QED BY <1>1, <1>2, <1>4, <1>5, <1>6, BooksStay

LEMMA SumCounts ==
  ASSUME IInv, CInv, NEW w \in Writers, NEW pc \in {"more", "sum"}, SumUp(w, pc) PROVE CInv'
<1> DEFINE n == IF lens = {} THEN 0 ELSE 1
           m == IF pc = "sum" THEN "remove" ELSE "add"
           r == [thread[w] EXCEPT !.pc = "len", !.read = n, !.of = m]
<1>1. /\ thread[w].pc = pc /\ thread[w].left = {}
      /\ mixed' = mixed /\ UNCHANGED <<tokens, lens, df, lost>>
      /\ DOMAIN thread[w] = Fields
      /\ Go(w, r)
  BY DEF SumUp, At, IInv, Shape
<1>2. Adds(w) = {} /\ Drops(w) = {} /\ n \in Int
  BY <1>1 DEF Adds, Drops
<1> HIDE DEF n
<1>3. /\ DOMAIN r = Fields /\ r.pc = "len" /\ r.left = thread[w].left /\ r.read = n
      /\ r.doc = thread[w].doc /\ r.todo = thread[w].todo /\ r.chunk = thread[w].chunk
      /\ r.of = m
  BY <1>1 DEF Fields
<1> HIDE DEF r
<1>4. thread'[w] = r /\ \A v \in Writers \ {w} : thread'[v] = thread[v]
  BY <1>1, <1>3, JumpKeeps
<1>5. ThreadTypes(w)'
  BY <1>2, <1>3, <1>4 DEF CInv, Types, ThreadTypes
<1>6. Adds(w)' = {} /\ Drops(w)' = {}
  BY <1>3, <1>4 DEF Adds, Drops
<1>7. mixed' = {} => Knows(w)'
  BY <1>1, <1>3, <1>4 DEF CInv, Knowing, Knows
<1>8. mixed' = {} => Knowing'
  BY <1>1, <1>4, <1>7, OthersKnow
<1>9. df' \in [Terms -> Int] /\ SameCounts
  BY <1>1 DEF CInv, Types, SameCounts
<1> QED BY <1>1, <1>2, <1>4, <1>5, <1>6, <1>8, <1>9, BooksStay

LEMMA DivideCounts == ASSUME IInv, CInv, NEW w \in Writers, Divide(w) PROVE CInv'
<1>1. /\ thread[w].pc = "len" /\ mixed' = mixed /\ UNCHANGED <<tokens, lens, df, lost>>
      /\ DOMAIN thread[w] = Fields
  BY DEF Divide, At, IInv, Shape
<1>2. Adds(w) = {} /\ Drops(w) = {}
  BY <1>1 DEF Adds, Drops
<1>3. /\ \A v \in Writers \ {w} : thread'[v] = thread[v]
      /\ ThreadTypes(w)' /\ (mixed' = {} => Knows(w)') /\ Adds(w)' = {} /\ Drops(w)' = {}
  <2>1. CASE lens = {}
    <3>1. Go(w, Free)
      BY <2>1 DEF Divide
    <3> QED BY <1>1, <3>1, LeaveKeeps, LeavesNothing
  <2>2. CASE lens # {}
    <3> DEFINE r == [thread[w] EXCEPT !.pc = "store"]
    <3>1. Go(w, r)
      BY <2>2 DEF Divide
    <3>2. /\ DOMAIN r = Fields /\ r.pc = "store" /\ r.left = thread[w].left /\ r.read = thread[w].read
          /\ r.doc = thread[w].doc /\ r.todo = thread[w].todo /\ r.chunk = thread[w].chunk
          /\ r.of = thread[w].of
      BY <1>1 DEF Fields
    <3> HIDE DEF r
    <3>3. thread'[w] = r /\ \A v \in Writers \ {w} : thread'[v] = thread[v]
      BY <1>1, <3>1, <3>2, JumpKeeps
    <3>4. ThreadTypes(w)'
      BY <3>2, <3>3 DEF CInv, Types, ThreadTypes
    <3>5. mixed' = {} => Knows(w)'
      BY <1>1, <3>2, <3>3 DEF CInv, Knowing, Knows
    <3>6. Adds(w)' = {} /\ Drops(w)' = {}
      BY <3>2, <3>3 DEF Adds, Drops
    <3> QED BY <3>3, <3>4, <3>5, <3>6
  <2> QED BY <2>1, <2>2
<1>4. mixed' = {} => Knowing'
  BY <1>1, <1>3, OthersKnow
<1>5. df' \in [Terms -> Int] /\ SameCounts
  BY <1>1 DEF CInv, Types, SameCounts
<1> QED BY <1>1, <1>2, <1>3, <1>4, <1>5, BooksStay

LEMMA StoreCounts == ASSUME IInv, CInv, NEW w \in Writers, Store(w) PROVE CInv'
<1>1. /\ thread[w].pc = "store" /\ mixed' = mixed /\ UNCHANGED <<tokens, lens, df, lost>>
  BY DEF Store, At
<1>2. Adds(w) = {} /\ Drops(w) = {}
  BY <1>1 DEF Adds, Drops
<1>3. /\ \A v \in Writers \ {w} : thread'[v] = thread[v]
      /\ ThreadTypes(w)' /\ (mixed' = {} => Knows(w)') /\ Adds(w)' = {} /\ Drops(w)' = {}
  <2>1. CASE thread[w].of = "remove"
    <3>1. Go(w, Removed(w))
      BY <2>1 DEF Store
    <3>2. mixed' = {} => thread[w].chunk.id \notin DOMAIN tokens
      BY <1>1, <2>1 DEF CInv, Knowing, Knows
    <3> QED BY <1>1, <3>1, <3>2, RemovedKeeps, RemovedNothing
  <2>2. CASE thread[w].of # "remove"
    <3>1. Go(w, Onward(thread[w]))
      BY <2>2 DEF Store
    <3> QED BY <1>1, <3>1, LeaveKeeps, LeavesNothing
  <2> QED BY <2>1, <2>2
<1>4. mixed' = {} => Knowing'
  BY <1>1, <1>3, OthersKnow
<1>5. df' \in [Terms -> Int] /\ SameCounts
  BY <1>1 DEF CInv, Types, SameCounts
<1> QED BY <1>1, <1>2, <1>3, <1>4, <1>5, BooksStay

LEMMA NextCounts == IInv /\ CInv /\ [Next]_vars => CInv'
<1> SUFFICES ASSUME IInv, CInv, [Next]_vars PROVE CInv'
  OBVIOUS
<1>1. CASE Next
  <2>1. PICK w \in Writers :
          \/ \E d \in Docs : Erase(w, d) \/ Ingest(w, d)
          \/ \E c \in thread[w].todo : Begin(w, c)
          \/ Pop(w) \/ PopLen(w) \/ Set(w) \/ SetLen(w)
          \/ \E pc \in {"more", "less"} : Read(w, pc)
          \/ Increment(w) \/ Decrement(w) \/ Drop(w) \/ Delete(w)
          \/ Test(w) \/ (\E pc \in {"more", "sum"} : SumUp(w, pc)) \/ Divide(w) \/ Store(w)
    BY <1>1 DEF Next
  <2>2. CASE \E d \in Docs : Erase(w, d) \/ Ingest(w, d)
    BY <2>2, EnterCounts
  <2>3. CASE \E c \in thread[w].todo : Begin(w, c)
    BY <2>3, BeginCounts
  <2>4. CASE Pop(w) \/ PopLen(w)
    BY <2>4, PopCounts, PopLenCounts
  <2>5. CASE Set(w) \/ SetLen(w)
    BY <2>5, SetCounts, SetLenCounts
  <2>6. CASE \E pc \in {"more", "less"} : Read(w, pc)
    BY <2>6, ReadCounts
  <2>7. CASE Test(w) \/ (\E pc \in {"more", "sum"} : SumUp(w, pc)) \/ Divide(w) \/ Store(w)
    BY <2>7, TestCounts, SumCounts, DivideCounts, StoreCounts
  <2>8. CASE Increment(w) \/ Decrement(w) \/ Drop(w) \/ Delete(w)
    BY <2>8, IncrementCounts, DecrementCounts, DropCounts, DeleteCounts
  <2> QED BY <2>1, <2>2, <2>3, <2>4, <2>5, <2>6, <2>7, <2>8
<1>2. CASE UNCHANGED vars
  <2>1. UNCHANGED <<tokens, lens, df, thread, lost, mixed>>
    BY <1>2 DEF vars
  <2>2. Types'
    BY <2>1 DEF CInv, Types, ThreadTypes
  <2>3. \A w \in Writers : Knows(w)' = Knows(w) /\ Adds(w)' = Adds(w) /\ Drops(w)' = Drops(w)
    BY <2>1 DEF Knows, Adds, Drops, Term
  <2>4. \A t \in Terms : Adders(t)' = Adders(t) /\ Droppers(t)' = Droppers(t) /\ Holds(t)' = Holds(t)
    BY <2>1, <2>3 DEF Adders, Droppers, Holds
  <2>5. Knowing' = Knowing /\ Counting' = Counting
    BY <2>1, <2>3, <2>4 DEF Knowing, Counting, Count
  <2> QED BY <2>1, <2>2, <2>5 DEF CInv
<1> QED BY <1>1, <1>2

\* Threads that write different documents leave an index in which a search meets
\* no chunk without a length and no average of 0 (bm25.py:66-68).
THEOREM SearchesWork == Spec => []SearchWorks
<1>1. IInv => SearchWorks
  BY DEF IInv, HasLen, HasAvg, Averaging, Adding, SearchWorks, Quiet, At
<1> QED BY <1>1, InitHolds, NextHolds, PTL DEF Spec

\* Threads that meet neither in a document nor in the count of a term leave an
\* index that counts, for each term, the chunks that hold it (bm25.py:58-69).
THEOREM CountsAreExact == Spec => []CountsExact
<1>1. CInv => CountsExact
  <2> SUFFICES ASSUME CInv, Quiet, mixed = {}, NEW t \in Terms, t \notin lost
               PROVE  df[t] = Cardinality(Holds(t))
    BY DEF CountsExact
  <2>1. Count(t) /\ Types
    BY DEF CInv, Counting
  <2>2. \A w \in Writers : Adds(w) = {} /\ Drops(w) = {}
    BY DEF Quiet, At, Adds, Drops
  <2>3. Adders(t) = {} /\ Droppers(t) = {}
    BY <2>2 DEF Adders, Droppers
  <2>4. df[t] \in Int /\ Cardinality(Holds(t)) \in Int
    BY <2>1, HoldsFinite DEF Types
  <2> QED BY <2>1, <2>3, <2>4, FS_EmptySet DEF Count
<1> QED BY <1>1, InitHolds, NextHolds, InitCounts, NextCounts, PTL DEF Spec

------------------------------------------------------------------------------
(* Induction over the naturals, for sets *)

\* A set of naturals has a least element.
LEMMA Least ==
  ASSUME NEW T \in SUBSET Nat, T # {}
  PROVE  \E m \in T : \A n \in T : m <= n
<1>1. PICK m \in T : \A n \in T : ~(<<n, m>> \in OpToRel(<, Nat))
  BY WFMin, NatLessThanWellFounded, Zenon
<1>2. \A n \in T : ~(n < m)
  BY <1>1, Zenon DEF OpToRel
<1> QED BY <1>2

\* What is true of 0, and of each number if of the one before, is true up to n.
LEMMA Climb ==
  ASSUME NEW n \in Nat, NEW S, 0 \in S, \A k \in 1 .. n : k - 1 \in S => k \in S
  PROVE  \A k \in 0 .. n : k \in S
<1> SUFFICES ASSUME {k \in 0 .. n : k \notin S} # {} PROVE FALSE
  OBVIOUS
<1>1. PICK m \in {k \in 0 .. n : k \notin S} : \A k \in {k \in 0 .. n : k \notin S} : m <= k
  <2>1. {k \in 0 .. n : k \notin S} \in SUBSET Nat
    OBVIOUS
  <2> QED BY <2>1, Least
<1>2. m \in 1 .. n /\ m - 1 \in 0 .. n /\ m \notin S
  BY <1>1
<1>3. m - 1 \in S
  BY <1>1, <1>2
<1> QED BY <1>2, <1>3

\* Recursion over 0 .. n has a solution.
Recurs(f, D, d0, n, step) ==
  f \in [0 .. n -> D] /\ f[0] = d0 /\ \A k \in 1 .. n : f[k] = step[k][f[k - 1]]

LEMMA FoldDefined ==
  ASSUME NEW D, NEW d0 \in D, NEW n \in Nat, NEW step \in [1 .. n -> [D -> D]]
  PROVE  \E f : Recurs(f, D, d0, n, step)
<1> DEFINE Solves(f, m) == /\ f \in [0 .. m -> D] /\ f[0] = d0
                           /\ \A k \in 1 .. m : f[k] = step[k][f[k - 1]]
           S == {m \in 0 .. n : \E f : Solves(f, m)}
<1>1. 0 \in S
  <2>1. Solves([k \in 0 .. 0 |-> d0], 0)
    OBVIOUS
  <2> HIDE DEF Solves
  <2> QED BY <2>1
<1>2. ASSUME NEW m \in 1 .. n, m - 1 \in S PROVE m \in S
  <2>1. PICK f : Solves(f, m - 1)
    BY <1>2
  <2> DEFINE e == step[m][f[m - 1]]
             g == [k \in 0 .. m |-> IF k = m THEN e ELSE f[k]]
  <2>2. f \in [0 .. m - 1 -> D] /\ f[0] = d0 /\ \A k \in 1 .. m - 1 : f[k] = step[k][f[k - 1]]
    BY <2>1
  <2>3. f[m - 1] \in D /\ e \in D
    BY <2>2
  <2>4. e = step[m][f[m - 1]]
    OBVIOUS
  <2> HIDE DEF e
  <2>5. g \in [0 .. m -> D] /\ g[0] = d0
    BY <2>2, <2>3
  <2>6. ASSUME NEW k \in 1 .. m PROVE g[k] = step[k][g[k - 1]]
    <3>1. g[k - 1] = f[k - 1]
      OBVIOUS
    <3>2. CASE k = m
      <4>1. g[k] = e
        BY <3>2
      <4> HIDE DEF g
      <4> QED BY <2>4, <3>1, <3>2, <4>1
    <3>3. CASE k # m
      <4>1. k \in 1 .. m - 1 /\ g[k] = f[k]
        BY <3>3
      <4> HIDE DEF g
      <4> QED BY <2>2, <3>1, <4>1
    <3> QED BY <3>2, <3>3
  <2>7. Solves(g, m)
    BY <2>5, <2>6
  <2> HIDE DEF g, Solves
  <2> QED BY <2>7
<1>3. n \in S
  <2> HIDE DEF S
  <2>1. \A k \in 0 .. n : k \in S
    BY <1>1, <1>2, Climb
  <2> QED BY <2>1
<1> QED BY <1>3 DEF Recurs

------------------------------------------------------------------------------
(* Concatenation *)

\* FlattenSeq puts the sequences behind each other, one after the other.
Concats(f, W, ss) ==
  /\ f \in [0 .. Len(ss) -> Seq(W)]
  /\ f[0] = <<>> /\ \A k \in 1 .. Len(ss) : f[k] = f[k - 1] \o ss[k]
  /\ FlattenSeq(ss) = f[Len(ss)]

LEMMA FlattenIs ==
  ASSUME NEW W, NEW ss \in Seq(Seq(W))
  PROVE  \E f : Concats(f, W, ss)
<1> DEFINE n == Len(ss)
           step == [k \in 1 .. n |-> [x \in Seq(W) |-> x \o ss[k]]]
<1>1. n \in Nat /\ \A k \in 1 .. n : ss[k] \in Seq(W)
  OBVIOUS
<1>2. step \in [1 .. n -> [Seq(W) -> Seq(W)]] /\ <<>> \in Seq(W)
  BY <1>1
<1>2a. PICK f : Recurs(f, Seq(W), <<>>, n, step)
  <2> HIDE DEF step, n
  <2> QED BY <1>1, <1>2, FoldDefined
<1>3. f \in [0 .. n -> Seq(W)] /\ f[0] = <<>> /\ \A k \in 1 .. n : f[k] = step[k][f[k - 1]]
  BY <1>2a DEF Recurs
<1>4. ASSUME NEW k \in 1 .. n PROVE f[k - 1] \in Seq(W) /\ f[k] = f[k - 1] \o ss[k]
  <2>1. f[k - 1] \in Seq(W)
    <3> HIDE DEF n
    <3>1. k - 1 \in 0 .. n
      BY <1>1
    <3> QED BY <1>3, <3>1
  <2> QED BY <1>1, <1>3, <2>1
<1>5. n # 0 => f[1] = ss[1]
  <2> SUFFICES ASSUME n # 0 PROVE f[1] = ss[1]
    OBVIOUS
  <2>1. 1 \in 1 .. n
    BY <1>1
  <2> HIDE DEF n
  <2>2. f[1] = f[1 - 1] \o ss[1]
    BY <1>4, <2>1
  <2>3. <<>> \o ss[1] = ss[1]
    BY <1>1, <2>1, ConcatEmptySeq
  <2>4. f[1 - 1] = <<>>
    BY <1>3
  <2> QED BY <2>2, <2>3, <2>4
<1>6. n = 0 => FlattenSeq(ss) = f[n]
  BY <1>1, <1>3 DEF FlattenSeq
<1>7. ASSUME n # 0 PROVE FlattenSeq(ss) = f[n]
  <2> DEFINE h == CHOOSE h : h = [i \in 1 .. n |-> IF i = 1 THEN ss[i] ELSE h[i - 1] \o ss[i]]
             g == [i \in 1 .. n |-> f[i]]
  <2>1. FlattenSeq(ss) = h[n]
    BY <1>7, Zenon DEF FlattenSeq
  <2>2. g = [i \in 1 .. n |-> IF i = 1 THEN ss[i] ELSE g[i - 1] \o ss[i]]
    <3>1. ASSUME NEW i \in 1 .. n PROVE f[i] = IF i = 1 THEN ss[i] ELSE g[i - 1] \o ss[i]
      <4>1. CASE i = 1
        BY <1>5, <1>7, <4>1
      <4>2. CASE i # 1
        <5>1. i - 1 \in 1 .. n
          BY <1>1, <4>2
        <5> QED BY <1>4, <4>2, <5>1
      <4> QED BY <4>1, <4>2
    <3> QED BY <3>1
  <2>3. h = [i \in 1 .. n |-> IF i = 1 THEN ss[i] ELSE h[i - 1] \o ss[i]]
    <3> HIDE DEF g
    <3> QED BY <2>2, Zenon
  <2> HIDE DEF h
  <2> DEFINE S == {k \in 0 .. n : k = 0 \/ h[k] = f[k]}
  <2>4. 0 \in S
    BY <1>1
  <2>5. ASSUME NEW k \in 1 .. n, k - 1 \in S PROVE k \in S
    <3>1. h[k] = IF k = 1 THEN ss[k] ELSE h[k - 1] \o ss[k]
      BY <2>3
    <3>2. h[k] = f[k]
      <4>1. CASE k = 1
        BY <1>5, <1>7, <3>1, <4>1
      <4>2. CASE k # 1
        <5>1. h[k - 1] = f[k - 1]
          BY <2>5, <4>2
        <5> QED BY <1>4, <3>1, <4>2, <5>1
      <4> QED BY <4>1, <4>2
    <3> QED BY <3>2
  <2>6. h[n] = f[n]
    <3>1. n \in 0 .. n
      BY <1>1
    <3> HIDE DEF S
    <3>2. n \in S
      BY <1>1, <2>4, <2>5, <3>1, Climb
    <3> QED BY <1>7, <3>2 DEF S
  <2> QED BY <1>3, <1>4, <2>1, <2>6
<1>8. FlattenSeq(ss) = f[n]
  BY <1>1, <1>6, <1>7
<1>9. Concats(f, W, ss)
  BY <1>3, <1>4, <1>8 DEF Concats
<1> QED BY <1>9

\* What is in a sequence of sequences put behind each other is in one of them.
LEMMA FlattenRange ==
  ASSUME NEW W, NEW ss \in Seq(Seq(W))
  PROVE  /\ FlattenSeq(ss) \in Seq(W)
         /\ Range(FlattenSeq(ss)) = UNION {Range(ss[k]) : k \in DOMAIN ss}
<1> DEFINE n == Len(ss)
<1>1. n \in Nat /\ DOMAIN ss = 1 .. n /\ \A k \in 1 .. n : ss[k] \in Seq(W)
  OBVIOUS
<1>a. PICK f : Concats(f, W, ss)
  BY FlattenIs
<1>2. /\ f \in [0 .. n -> Seq(W)]
      /\ f[0] = <<>> /\ \A k \in 1 .. n : f[k] = f[k - 1] \o ss[k]
      /\ FlattenSeq(ss) = f[n]
  BY <1>a DEF Concats
<1> DEFINE S == {m \in 0 .. n : Range(f[m]) = UNION {Range(ss[k]) : k \in 1 .. m}}
<1> HIDE DEF n
<1>3. 0 \in S
  BY <1>1, <1>2 DEF Range
<1>4. ASSUME NEW m \in 1 .. n, m - 1 \in S PROVE m \in S
  <2>1. m - 1 \in 0 .. n
    BY <1>1
  <2>2. f[m - 1] \in Seq(W) /\ ss[m] \in Seq(W) /\ f[m] = f[m - 1] \o ss[m]
    BY <1>1, <1>2, <2>1
  <2>3. Range(f[m]) = Range(f[m - 1]) \cup Range(ss[m])
    BY <2>2, RangeConcatenation
  <2>4. Range(f[m - 1]) = UNION {Range(ss[k]) : k \in 1 .. m - 1}
    BY <1>4
  <2>5. 1 .. m = (1 .. m - 1) \cup {m}
    BY <1>1
  <2>6. UNION {Range(ss[k]) : k \in 1 .. m} = (UNION {Range(ss[k]) : k \in 1 .. m - 1}) \cup Range(ss[m])
    BY <2>5
  <2> QED BY <2>3, <2>4, <2>6
<1>5. n \in S
  <2>1. n \in 0 .. n
    BY <1>1
  <2> HIDE DEF S
  <2> QED BY <1>1, <1>3, <1>4, <2>1, Climb
<1>6. f[n] \in Seq(W)
  BY <1>1, <1>2
<1> QED BY <1>1, <1>2, <1>5, <1>6

------------------------------------------------------------------------------
(* The words of a part of a text *)

Word == Nat \X Nat

LineWords(text, part) ==
  [i \in DOMAIN text |-> [j \in 1 .. (IF i \in part THEN text[i].n ELSE 0) |-> <<i, j>>]]

LEMMA LineIs ==
  ASSUME NEW text \in Seq(Line)
  PROVE  /\ Len(text) \in Nat /\ DOMAIN text = 1 .. Len(text)
         /\ \A i \in DOMAIN text : /\ i \in Nat /\ text[i] \in Line /\ text[i].n \in Nat
                                   /\ text[i].kind \in {"heading", "title", "prose", "blank"}
                                   /\ text[i].kind = "blank" <=> text[i].n = 0
<1>1. /\ Len(text) \in Nat /\ DOMAIN text = 1 .. Len(text)
      /\ \A i \in DOMAIN text : i \in Nat /\ text[i] \in Line
  OBVIOUS
<1>2. \A x \in Line : /\ x.n \in Nat /\ x.kind \in {"heading", "title", "prose", "blank"}
                      /\ x.kind = "blank" <=> x.n = 0
  BY DEF Line
<1> QED BY <1>1, <1>2

LEMMA LineWordsType ==
  ASSUME NEW text \in Seq(Line), NEW part
  PROVE  /\ LineWords(text, part) \in Seq(Seq(Word))
         /\ DOMAIN LineWords(text, part) = DOMAIN text
         /\ Len(LineWords(text, part)) = Len(text)
         /\ WordsOf(text, part) = FlattenSeq(LineWords(text, part))
<1> DEFINE m(i) == IF i \in part THEN text[i].n ELSE 0
<1>1. ASSUME NEW i \in DOMAIN text PROVE [j \in 1 .. m(i) |-> <<i, j>>] \in Seq(Word)
  <2>1. m(i) \in Nat /\ i \in Nat
    BY LineIs
  <2> HIDE DEF m
  <2> QED BY <2>1 DEF Word
<1>2. WordsOf(text, part) = FlattenSeq(LineWords(text, part))
  BY DEF WordsOf, LineWords
<1>3. Len(text) \in Nat /\ DOMAIN text = 1 .. Len(text)
  BY LineIs
<1>4. LineWords(text, part) = [i \in 1 .. Len(text) |-> [j \in 1 .. m(i) |-> <<i, j>>]]
  BY <1>3 DEF LineWords
<1> HIDE DEF m
<1> QED BY <1>1, <1>2, <1>3, <1>4

\* They are the words of its lines.
LEMMA WordsIn ==
  ASSUME NEW text \in Seq(Line), NEW part
  PROVE  /\ WordsOf(text, part) \in Seq(Word)
         /\ Range(WordsOf(text, part)) =
              UNION {{<<i, j>> : j \in 1 .. text[i].n} : i \in DOMAIN text \cap part}
<1> DEFINE lw == LineWords(text, part)
<1>1. lw \in Seq(Seq(Word)) /\ DOMAIN lw = DOMAIN text /\ WordsOf(text, part) = FlattenSeq(lw)
  BY LineWordsType
<1>2. ASSUME NEW i \in DOMAIN text
      PROVE  Range(lw[i]) = IF i \in part THEN {<<i, j>> : j \in 1 .. text[i].n} ELSE {}
  <2>1. lw[i] = [j \in 1 .. (IF i \in part THEN text[i].n ELSE 0) |-> <<i, j>>]
    BY DEF LineWords
  <2>2. Range(lw[i]) = {<<i, j>> : j \in 1 .. (IF i \in part THEN text[i].n ELSE 0)}
    BY <2>1 DEF Range
  <2> QED BY <2>2
<1> HIDE DEF lw
<1>3. FlattenSeq(lw) \in Seq(Word) /\ Range(FlattenSeq(lw)) = UNION {Range(lw[k]) : k \in DOMAIN lw}
  BY <1>1, FlattenRange
<1> DEFINE Of(i) == {<<i, j>> : j \in 1 .. text[i].n}
<1>4. \A i \in DOMAIN text : Range(lw[i]) = IF i \in part THEN Of(i) ELSE {}
  BY <1>2
<1> HIDE DEF Of
<1>5. UNION {Range(lw[k]) : k \in DOMAIN text} = UNION {Of(i) : i \in DOMAIN text \cap part}
  BY <1>4
<1> QED BY <1>1, <1>3, <1>5 DEF Of

\* They are in the order of the lines.
LEMMA WordsSorted ==
  ASSUME NEW text \in Seq(Line), NEW part
  PROVE  \A p, q \in DOMAIN WordsOf(text, part) :
           p <= q => WordsOf(text, part)[p][1] <= WordsOf(text, part)[q][1]
<1> DEFINE lw == LineWords(text, part)
           n  == Len(text)
<1>1. /\ lw \in Seq(Seq(Word)) /\ DOMAIN lw = 1 .. n /\ Len(lw) = n /\ n \in Nat
      /\ WordsOf(text, part) = FlattenSeq(lw)
  BY LineWordsType, LineIs
<1>a. PICK f : Concats(f, Word, lw)
  BY <1>1, FlattenIs
<1>2. /\ f \in [0 .. n -> Seq(Word)]
      /\ f[0] = <<>> /\ \A k \in 1 .. n : f[k] = f[k - 1] \o lw[k]
      /\ FlattenSeq(lw) = f[n]
  BY <1>1, <1>a DEF Concats
<1>3. ASSUME NEW k \in 1 .. n
      PROVE  lw[k] \in Seq(Word) /\ \A j \in 1 .. Len(lw[k]) : lw[k][j][1] = k
  <2>1. k \in DOMAIN text
    BY LineIs
  <2>2. lw[k] = [j \in 1 .. (IF k \in part THEN text[k].n ELSE 0) |-> <<k, j>>]
    BY <2>1 DEF LineWords
  <2> DEFINE len == IF k \in part THEN text[k].n ELSE 0
  <2>3. len \in Nat /\ lw[k] \in Seq(Word)
    BY <1>1, <2>1, LineIs
  <2> HIDE DEF len, lw
  <2>4. lw[k] = [j \in 1 .. len |-> <<k, j>>]
    BY <2>2 DEF len
  <2> QED BY <2>3, <2>4
<1> DEFINE Sorted(m) == /\ \A p \in 1 .. Len(f[m]) : f[m][p][1] \in 1 .. m
                        /\ \A p, q \in 1 .. Len(f[m]) : p <= q => f[m][p][1] <= f[m][q][1]
           S == {m \in 0 .. n : Sorted(m)}
<1> HIDE DEF n, lw
<1>4. 0 \in S
  BY <1>1, <1>2
<1>5. ASSUME NEW m \in 1 .. n, m - 1 \in S PROVE m \in S
  <2>1. m - 1 \in 0 .. n /\ m \in 0 .. n /\ m \in Nat
    BY <1>1
  <2>2. f[m - 1] \in Seq(Word) /\ lw[m] \in Seq(Word) /\ f[m] = f[m - 1] \o lw[m]
    BY <1>2, <1>3, <2>1
  <2> DEFINE a == f[m - 1]
             b == lw[m]
  <2>3. /\ Len(a) \in Nat /\ Len(b) \in Nat /\ Len(f[m]) = Len(a) + Len(b)
        /\ \A i \in 1 .. Len(a) + Len(b) : f[m][i] = IF i <= Len(a) THEN a[i] ELSE b[i - Len(a)]
    <3>1. a \in Seq(Word) /\ b \in Seq(Word) /\ f[m] = a \o b
      BY <2>2
    <3> HIDE DEF a, b
    <3> QED BY <3>1, ConcatProperties, LenProperties
  <2>4. /\ \A p \in 1 .. Len(a) : a[p][1] \in 1 .. m - 1
        /\ \A p, q \in 1 .. Len(a) : p <= q => a[p][1] <= a[q][1]
    BY <1>5
  <2>5. \A j \in 1 .. Len(b) : b[j][1] = m
    BY <1>3
  <2> HIDE DEF a, b
  <2>6. ASSUME NEW p \in 1 .. Len(f[m])
        PROVE  /\ p <= Len(a) => p \in 1 .. Len(a) /\ f[m][p][1] = a[p][1] /\ f[m][p][1] \in 1 .. m - 1
               /\ p > Len(a) => f[m][p][1] = m
    <3>1. CASE p <= Len(a)
      BY <2>3, <2>4, <3>1
    <3>2. CASE p > Len(a)
      <4>1. p - Len(a) \in 1 .. Len(b) /\ f[m][p] = b[p - Len(a)]
        BY <2>3, <3>2
      <4> QED BY <2>5, <3>2, <4>1
    <3> QED BY <2>3, <3>1, <3>2
  <2>7. \A p \in 1 .. Len(f[m]) : f[m][p][1] \in 1 .. m
    BY <2>1, <2>3, <2>6
  <2>8. ASSUME NEW p \in 1 .. Len(f[m]), NEW q \in 1 .. Len(f[m]), p <= q
        PROVE  f[m][p][1] <= f[m][q][1]
    <3>1. CASE q <= Len(a)
      BY <2>3, <2>4, <2>6, <2>8, <3>1
    <3>2. CASE q > Len(a)
      <4>1. f[m][q][1] = m /\ f[m][p][1] \in 1 .. m
        BY <2>6, <2>7, <3>2
      <4> QED BY <2>1, <4>1
    <3> QED BY <2>3, <3>1, <3>2
  <2> QED BY <2>1, <2>7, <2>8
<1>6. n \in S
  <2>1. n \in 0 .. n
    BY <1>1
  <2> HIDE DEF S
  <2> QED BY <1>1, <1>4, <1>5, <2>1, Climb
<1>7. f[n] \in Seq(Word) /\ DOMAIN f[n] = 1 .. Len(f[n])
  BY <1>1, <1>2
<1> QED BY <1>1, <1>2, <1>6, <1>7

------------------------------------------------------------------------------
(* Runs *)

LEMMA RunsAre ==
  ASSUME NEW text \in Seq(Line), NEW part, NEW starts
  PROVE  /\ Runs(text, part, starts) \in Seq(SUBSET part)
         /\ Range(Runs(text, part, starts)) = {Run(part, starts, a) : a \in starts \cap DOMAIN text}
<1> DEFINE one(a) == IF a \in starts THEN << Run(part, starts, a) >> ELSE <<>>
           ss == [a \in DOMAIN text |-> one(a)]
<1>1. Len(text) \in Nat /\ DOMAIN text = 1 .. Len(text)
  BY LineIs
<1>2. ASSUME NEW a \in DOMAIN text
      PROVE  /\ one(a) \in Seq(SUBSET part)
             /\ Range(one(a)) = IF a \in starts THEN {Run(part, starts, a)} ELSE {}
  <2>1. Run(part, starts, a) \in SUBSET part
    BY DEF Run
  <2>2. CASE a \in starts
    <3> DEFINE r == Run(part, starts, a)
    <3>1. one(a) = << r >>
      BY <2>2
    <3> HIDE DEF r, one
    <3>2. << r >> \in Seq(SUBSET part) /\ Range(<< r >>) = {r}
      BY <2>1 DEF Range, r
    <3> QED BY <2>2, <3>1, <3>2 DEF r
  <2>3. CASE a \notin starts
    BY <2>3 DEF Range
  <2> QED BY <2>2, <2>3
<1> HIDE DEF one
<1>3. ss \in Seq(Seq(SUBSET part)) /\ DOMAIN ss = DOMAIN text
  BY <1>1, <1>2
<1>4. Runs(text, part, starts) = FlattenSeq(ss)
  BY DEF Runs, one
<1>5. \A a \in DOMAIN text : ss[a] = one(a)
  OBVIOUS
<1> HIDE DEF ss
<1>6. /\ FlattenSeq(ss) \in Seq(SUBSET part)
      /\ Range(FlattenSeq(ss)) = UNION {Range(ss[a]) : a \in DOMAIN ss}
  BY <1>3, FlattenRange
<1>7. UNION {Range(ss[a]) : a \in DOMAIN ss} = {Run(part, starts, a) : a \in starts \cap DOMAIN text}
  <2>1. \A a \in DOMAIN text : Range(ss[a]) = IF a \in starts THEN {Run(part, starts, a)} ELSE {}
    BY <1>2, <1>5
  <2> QED BY <1>3, <2>1
<1> QED BY <1>4, <1>6, <1>7

\* A line after a start is in the run of the last start before it.
LEMMA RunCovers ==
  ASSUME NEW part \in SUBSET Nat, NEW starts \in SUBSET Nat, NEW x \in part,
         NEW s \in starts, s <= x
  PROVE  \E a \in starts : a <= x /\ x \in Run(part, starts, a)
<1> DEFINE T == {x - a : a \in {b \in starts : b <= x}}
<1>1. T \in SUBSET Nat /\ T # {}
  <2>1. x \in Nat /\ \A b \in starts : b \in Nat
    OBVIOUS
  <2>2. \A b \in starts : b <= x => x - b \in Nat
    BY <2>1
  <2>3. x - s \in T
    OBVIOUS
  <2> QED BY <2>2, <2>3
<1>2. PICK m \in T : \A n \in T : m <= n
  <2> HIDE DEF T
  <2> QED BY <1>1, Least
<1>3. PICK a \in starts : a <= x /\ m = x - a
  BY <1>2
<1>4. \A j \in a + 1 .. x : j \notin starts
  <2> SUFFICES ASSUME NEW j \in a + 1 .. x, j \in starts PROVE FALSE
    OBVIOUS
  <2>1. x - j \in T
    OBVIOUS
  <2>2. m <= x - j
    BY <1>2, <2>1
  <2> QED BY <1>3, <2>2
<1> QED BY <1>3, <1>4 DEF Run

\* When each gap begins a run, the runs cover all, and no run has a start inside it.
LEMMA GapsCover ==
  ASSUME NEW part \in SUBSET Nat, NEW starts \in SUBSET part,
         \A i \in part : i - 1 \notin part => i \in starts
  PROVE  /\ \A x \in part : \E a \in starts : a <= x /\ x \in Run(part, starts, a)
         /\ \A a \in starts : \A x, y \in Run(part, starts, a) :
              x < y => x + 1 \in part /\ x + 1 \notin starts
<1>1. ASSUME NEW x \in part PROVE \E a \in starts : a <= x /\ x \in Run(part, starts, a)
  <2>1. PICK s \in part : \A n \in part : s <= n
    BY Least
  <2>2. s - 1 \notin part
    BY <2>1
  <2>3. s \in starts /\ s <= x
    BY <2>1, <2>2
  <2> QED BY <2>3, RunCovers
<1>2. ASSUME NEW a \in starts, NEW x \in Run(part, starts, a), NEW y \in Run(part, starts, a), x < y
      PROVE  x + 1 \in part /\ x + 1 \notin starts
  <2>1. /\ a \in Nat /\ x \in part /\ y \in part /\ a <= x
        /\ \A j \in a + 1 .. y : j \notin starts
    BY DEF Run
  <2>2. x \in Nat /\ y \in Nat /\ \A z \in part : z \in Nat
    BY <2>1
  <2> DEFINE T == {z \in part : x < z}
  <2>3. T \in SUBSET Nat /\ y \in T
    BY <1>2, <2>1, <2>2
  <2>4. PICK l \in T : \A z \in T : l <= z
    <3> HIDE DEF T
    <3> QED BY <2>3, Least
  <2>5. l \in part /\ l \in Nat /\ x < l /\ l <= y
    BY <2>2, <2>3, <2>4
  <2>6. l \in a + 1 .. y
    BY <2>1, <2>2, <2>5
  <2>7. l - 1 \in part
    BY <2>1, <2>5, <2>6
  <2>8. ~(x < l - 1)
    BY <2>2, <2>4, <2>5, <2>7
  <2>9. l = x + 1
    BY <2>2, <2>5, <2>8
  <2> QED BY <2>1, <2>5, <2>6, <2>9
<1> QED BY <1>1, <1>2

------------------------------------------------------------------------------
(* Packing *)

LEMMA AppendRange ==
  ASSUME NEW W, NEW s \in Seq(W), NEW e \in W
  PROVE  Append(s, e) \in Seq(W) /\ Range(Append(s, e)) = Range(s) \cup {e}
<1>1. <<e>> \in Seq(W) /\ Range(<<e>>) = {e}
  BY DEF Range
<1>2. Append(s, e) = s \o <<e>>
  BY AppendIsConcat
<1>3. Append(s, e) \in Seq(W)
  OBVIOUS
<1>4. Range(s \o <<e>>) = Range(s) \cup Range(<<e>>)
  <2> DEFINE t == <<e>>
  <2>1. t \in Seq(W)
    BY <1>1
  <2> HIDE DEF t
  <2>2. Range(s \o t) = Range(s) \cup Range(t)
    BY <2>1, RangeConcatenation
  <2> QED BY <2>2 DEF t
<1> QED BY <1>1, <1>2, <1>3, <1>4

LEMMA LastWordsAre ==
  ASSUME NEW W, NEW s \in Seq(W), NEW n \in Nat
  PROVE  /\ LastWords(s, n) \in Seq(W) /\ Len(LastWords(s, n)) <= n
         /\ Range(LastWords(s, n)) \subseteq Range(s)
<1> DEFINE m == IF Len(s) > n THEN Len(s) - n + 1 ELSE 1
           t == SubSeq(s, m, Len(s))
<1>1. Len(s) \in Nat /\ m \in Nat /\ m >= 1 /\ Len(s) - m + 1 <= n
  OBVIOUS
<1>2. DOMAIN s = 1 .. Len(s) /\ \A i \in m .. Len(s) : i \in 1 .. Len(s) /\ s[i] \in W
  BY <1>1
<1> HIDE DEF m
<1>3. /\ t \in Seq(W) /\ Len(t) = IF m <= Len(s) THEN Len(s) - m + 1 ELSE 0
      /\ \A i \in 1 .. Len(s) - m + 1 : t[i] = s[m + i - 1]
  BY <1>1, <1>2, SubSeqProperties
<1> HIDE DEF t
<1>4. Len(t) <= n
  BY <1>1, <1>3
<1>5. ASSUME NEW i \in DOMAIN t PROVE t[i] \in Range(s)
  <2>1. i \in 1 .. Len(s) - m + 1
    BY <1>1, <1>3
  <2>2. m + i - 1 \in DOMAIN s /\ t[i] = s[m + i - 1]
    BY <1>1, <1>2, <1>3, <2>1
  <2> QED BY <2>2 DEF Range
<1>6. Range(t) \subseteq Range(s)
  BY <1>5 DEF Range
<1>7. LastWords(s, n) = t
  BY DEF LastWords, t, m
<1> QED BY <1>3, <1>4, <1>6, <1>7

PackState(W) == [out : Seq(Seq(W)), cur : Seq(W)]
NoneTaken    == [out |-> <<>>, cur |-> <<>>]
Made(p)      == Range(p.out) \cup {p.cur}

\* What taking an item makes of the pieces.
Makes(W, p, x, keep) ==
  \/ /\ Fits(p.cur, x)
     /\ Made(Taken(p, x, keep)) = Range(p.out) \cup {p.cur \o x}
  \/ \E tail \in Seq(W) :
       /\ Len(tail) <= keep /\ Range(tail) \subseteq Range(p.cur)
       /\ Made(Taken(p, x, keep)) = Made(p) \cup {tail \o x}

LEMMA TakenMakes ==
  ASSUME NEW W, NEW p \in PackState(W), NEW x \in Seq(W), NEW keep \in Nat
  PROVE  Taken(p, x, keep) \in PackState(W) /\ Makes(W, p, x, keep)
<1>1. p.out \in Seq(Seq(W)) /\ p.cur \in Seq(W)
  BY DEF PackState
<1>3. CASE Fits(p.cur, x)
  <2>1. Taken(p, x, keep) = [out |-> p.out, cur |-> p.cur \o x]
    BY <1>3 DEF Taken
  <2>2. p.cur \o x \in Seq(W)
    BY <1>1, ConcatProperties
  <2> QED BY <1>1, <1>3, <2>1, <2>2 DEF PackState, Made, Makes
<1>4. CASE ~Fits(p.cur, x)
  <2> DEFINE tail == LastWords(p.cur, keep)
             o    == Append(p.out, p.cur)
  <2>1. Taken(p, x, keep) = [out |-> o, cur |-> tail \o x]
    BY <1>4 DEF Taken
  <2>2. tail \in Seq(W) /\ Len(tail) <= keep /\ Range(tail) \subseteq Range(p.cur)
    BY <1>1, LastWordsAre
  <2>3. o \in Seq(Seq(W)) /\ Range(o) = Range(p.out) \cup {p.cur}
    BY <1>1, AppendRange
  <2> HIDE DEF tail, o
  <2>4. tail \o x \in Seq(W)
    BY <2>2, ConcatProperties
  <2>5. Taken(p, x, keep) \in PackState(W)
    BY <2>1, <2>3, <2>4 DEF PackState
  <2>6. Made(Taken(p, x, keep)) = Made(p) \cup {tail \o x}
    BY <2>1, <2>3 DEF Made
  <2> QED BY <2>2, <2>5, <2>6 DEF Makes
<1> QED BY <1>3, <1>4

\* Pack takes the items in turn.
Packs(f, W, items, keep) ==
  /\ f \in [0 .. Len(items) -> PackState(W)]
  /\ f[0] = NoneTaken /\ \A k \in 1 .. Len(items) : f[k] = Taken(f[k - 1], items[k], keep)
  /\ Pack(items, keep) = WithRest(f[Len(items)])

LEMMA PackIs ==
  ASSUME NEW W, NEW items \in Seq(Seq(W)), NEW keep \in Nat
  PROVE  \E f : Packs(f, W, items, keep)
<1> DEFINE n == Len(items)
           D == PackState(W)
           step == [k \in 1 .. n |-> [p \in D |-> Taken(p, items[k], keep)]]
<1>1. n \in Nat /\ (\A k \in 1 .. n : items[k] \in Seq(W)) /\ NoneTaken \in D
  BY DEF NoneTaken, PackState
<1>2. step \in [1 .. n -> [D -> D]]
  BY <1>1, TakenMakes
<1>3. PICK f : Recurs(f, D, NoneTaken, n, step)
  <2> HIDE DEF step, n, D
  <2> QED BY <1>1, <1>2, FoldDefined
<1>4. f \in [0 .. n -> D] /\ f[0] = NoneTaken /\ \A k \in 1 .. n : f[k] = step[k][f[k - 1]]
  BY <1>3 DEF Recurs
<1>5. ASSUME NEW k \in 1 .. n PROVE f[k - 1] \in D /\ f[k] = Taken(f[k - 1], items[k], keep)
  <2>1. f[k - 1] \in D
    <3> HIDE DEF n, D
    <3>1. k - 1 \in 0 .. n
      BY <1>1
    <3> QED BY <1>4, <3>1
  <2> QED BY <1>4, <2>1
<1> DEFINE h == CHOOSE h : h = [k \in 0 .. n |-> IF k = 0 THEN [out |-> <<>>, cur |-> <<>>]
                                                 ELSE Taken(h[k - 1], items[k], keep)]
<1>6. Pack(items, keep) = WithRest(h[n])
  BY Zenon DEF Pack
<1>7. f = [k \in 0 .. n |-> IF k = 0 THEN [out |-> <<>>, cur |-> <<>>]
                            ELSE Taken(f[k - 1], items[k], keep)]
  <2>1. \A k \in 0 .. n : f[k] = IF k = 0 THEN [out |-> <<>>, cur |-> <<>>]
                                 ELSE Taken(f[k - 1], items[k], keep)
    BY <1>1, <1>4, <1>5 DEF NoneTaken
  <2> HIDE DEF n, D
  <2> QED BY <1>4, <2>1
<1>8. h = [k \in 0 .. n |-> IF k = 0 THEN [out |-> <<>>, cur |-> <<>>]
                            ELSE Taken(h[k - 1], items[k], keep)]
  BY <1>7, Zenon
<1> HIDE DEF h
<1> DEFINE S == {k \in 0 .. n : h[k] = f[k]}
<1>9. 0 \in S
  BY <1>1, <1>4, <1>8 DEF NoneTaken
<1>10. ASSUME NEW k \in 1 .. n, k - 1 \in S PROVE k \in S
  <2>1. k \in 0 .. n /\ k # 0
    BY <1>1
  <2>2. h[k - 1] = f[k - 1]
    BY <1>10
  <2> HIDE DEF n, D
  <2>3. h[k] = IF k = 0 THEN [out |-> <<>>, cur |-> <<>>] ELSE Taken(h[k - 1], items[k], keep)
    BY <1>8, <2>1
  <2>4. h[k] = Taken(f[k - 1], items[k], keep)
    BY <2>1, <2>2, <2>3
  <2> QED BY <1>5, <2>1, <2>4
<1>11. n \in S
  <2>1. n \in 0 .. n
    BY <1>1
  <2> HIDE DEF S
  <2> QED BY <1>1, <1>9, <1>10, <2>1, Climb
<1>12. Packs(f, W, items, keep)
  BY <1>4, <1>5, <1>6, <1>11 DEF Packs
<1> QED BY <1>12

AllIn(pieces) == UNION {Range(c) : c \in pieces}

\* Taking an item adds its words and no others.
LEMMA TakenAdds ==
  ASSUME NEW W, NEW p \in PackState(W), NEW x \in Seq(W), NEW keep \in Nat
  PROVE  AllIn(Made(Taken(p, x, keep))) = AllIn(Made(p)) \cup Range(x)
<1>1. p.out \in Seq(Seq(W)) /\ p.cur \in Seq(W)
  BY DEF PackState
<1>2. AllIn(Made(p)) = AllIn(Range(p.out)) \cup Range(p.cur)
  BY DEF AllIn, Made
<1>3. CASE Made(Taken(p, x, keep)) = Range(p.out) \cup {p.cur \o x}
  <2>1. Range(p.cur \o x) = Range(p.cur) \cup Range(x)
    BY <1>1, RangeConcatenation
  <2>2. AllIn(Range(p.out) \cup {p.cur \o x}) = AllIn(Range(p.out)) \cup Range(p.cur \o x)
    BY DEF AllIn
  <2> QED BY <1>2, <1>3, <2>1, <2>2
<1>4. ASSUME NEW tail \in Seq(W), Range(tail) \subseteq Range(p.cur),
             Made(Taken(p, x, keep)) = Made(p) \cup {tail \o x}
      PROVE  AllIn(Made(Taken(p, x, keep))) = AllIn(Made(p)) \cup Range(x)
  <2>1. Range(tail \o x) = Range(tail) \cup Range(x)
    BY <1>1, RangeConcatenation
  <2>2. AllIn(Made(p) \cup {tail \o x}) = AllIn(Made(p)) \cup Range(tail \o x)
    BY DEF AllIn
  <2> QED BY <1>2, <1>4, <2>1, <2>2
<1>5. Makes(W, p, x, keep)
  BY TakenMakes
<1> QED BY <1>3, <1>4, <1>5 DEF Makes

\* A piece is within the budget, or an item behind the end of another piece.
Packed(c, W, items, keep) ==
  \/ Len(c) <= MaxWords
  \/ \E k \in DOMAIN items, tail \in Seq(W) : Len(tail) <= keep /\ c = tail \o items[k]

LEMMA TakenPacks ==
  ASSUME NEW W, NEW items \in Seq(Seq(W)), NEW keep \in Nat,
         NEW p \in PackState(W), NEW k \in DOMAIN items,
         \A c \in Made(p) : Packed(c, W, items, keep)
  PROVE  \A c \in Made(Taken(p, items[k], keep)) : Packed(c, W, items, keep)
<1>0. PICK x : x = items[k]
  OBVIOUS
<1> SUFFICES \A c \in Made(Taken(p, x, keep)) : Packed(c, W, items, keep)
  BY <1>0
<1>1. p.out \in Seq(Seq(W)) /\ p.cur \in Seq(W) /\ x \in Seq(W)
  BY <1>0 DEF PackState
<1>2. Range(p.out) \subseteq Made(p)
  BY DEF Made
<1>3. ASSUME NEW tail \in Seq(W), Len(tail) <= keep PROVE Packed(tail \o x, W, items, keep)
  BY <1>0, <1>3 DEF Packed
<1>4. CASE Fits(p.cur, x) /\ Made(Taken(p, x, keep)) = Range(p.out) \cup {p.cur \o x}
  <2>1. CASE p.cur = <<>>
    <3>1. p.cur \in Seq(W) /\ Len(p.cur) <= keep
      BY <1>1, <2>1
    <3>2. Packed(p.cur \o x, W, items, keep)
      BY <3>1, <1>3
    <3> QED BY <1>2, <1>4, <3>2
  <2>2. CASE Len(p.cur) + Len(x) <= MaxWords
    <3>1. Len(p.cur \o x) = Len(p.cur) + Len(x)
      BY <1>1, ConcatProperties
    <3>2. Packed(p.cur \o x, W, items, keep)
      BY <2>2, <3>1 DEF Packed
    <3> QED BY <1>2, <1>4, <3>2
  <2> QED BY <1>4, <2>1, <2>2 DEF Fits
<1>5. ASSUME NEW tail \in Seq(W), Len(tail) <= keep,
             Made(Taken(p, x, keep)) = Made(p) \cup {tail \o x}
      PROVE  \A c \in Made(Taken(p, x, keep)) : Packed(c, W, items, keep)
  BY <1>3, <1>5
<1>6. \/ Fits(p.cur, x) /\ Made(Taken(p, x, keep)) = Range(p.out) \cup {p.cur \o x}
      \/ \E tail \in Seq(W) : Len(tail) <= keep /\ Made(Taken(p, x, keep)) = Made(p) \cup {tail \o x}
  <2>1. Makes(W, p, x, keep)
    BY <1>1, TakenMakes
  <2> QED BY <2>1 DEF Makes
<1> QED BY <1>4, <1>5, <1>6

\* The pieces hold the words of the items, and keep to the budget.
LEMMA PackMakes ==
  ASSUME NEW W, NEW items \in Seq(Seq(W)), NEW keep \in Nat
  PROVE  /\ Pack(items, keep) \in Seq(Seq(W))
         /\ AllIn(Range(Pack(items, keep))) = AllIn(Range(items))
         /\ \A c \in Range(Pack(items, keep)) : Packed(c, W, items, keep)
<1> DEFINE n == Len(items)
<1>1. n \in Nat /\ DOMAIN items = 1 .. n /\ (\A k \in 1 .. n : items[k] \in Seq(W))
  OBVIOUS
<1>2. PICK f : Packs(f, W, items, keep)
  BY PackIs
<1>3. /\ f \in [0 .. n -> PackState(W)]
      /\ f[0] = NoneTaken /\ \A k \in 1 .. n : f[k] = Taken(f[k - 1], items[k], keep)
      /\ Pack(items, keep) = WithRest(f[n])
  BY <1>2 DEF Packs
<1> DEFINE So(m) == /\ AllIn(Made(f[m])) = UNION {Range(items[k]) : k \in 1 .. m}
                    /\ \A c \in Made(f[m]) : Packed(c, W, items, keep)
           S == {m \in 0 .. n : So(m)}
<1> HIDE DEF n
<1>4. 0 \in S
  <2>1. Made(NoneTaken) = {<<>>}
    BY DEF Made, NoneTaken, Range
  <2>2. AllIn({<<>>}) = {}
    BY DEF AllIn, Range
  <2>3. Packed(<<>>, W, items, keep)
    <3>1. Len(<<>>) = 0 /\ MaxWords \in Nat
      BY ChunkerAssumption
    <3> QED BY <3>1 DEF Packed
  <2>4. 0 \in 0 .. n /\ 1 .. 0 = {}
    BY <1>1
  <2>5. UNION {Range(items[k]) : k \in 1 .. 0} = {}
    BY <2>4
  <2>6. So(0)
    BY <1>3, <2>1, <2>2, <2>3, <2>5
  <2> QED BY <2>4, <2>6
<1>5. ASSUME NEW m \in 1 .. n, m - 1 \in S PROVE m \in S
  <2>1. m - 1 \in 0 .. n /\ m \in DOMAIN items /\ items[m] \in Seq(W)
    BY <1>1
  <2>2. f[m - 1] \in PackState(W) /\ f[m] = Taken(f[m - 1], items[m], keep)
    BY <1>3, <2>1
  <2>3. So(m - 1)
    BY <1>5
  <2>4. AllIn(Made(f[m])) = AllIn(Made(f[m - 1])) \cup Range(items[m])
    BY <2>1, <2>2, TakenAdds
  <2>5. \A c \in Made(f[m]) : Packed(c, W, items, keep)
    BY <2>1, <2>2, <2>3, TakenPacks
  <2>6. 1 .. m = (1 .. m - 1) \cup {m}
    BY <1>1
  <2>7. UNION {Range(items[k]) : k \in 1 .. m} = (UNION {Range(items[k]) : k \in 1 .. m - 1}) \cup Range(items[m])
    BY <2>6
  <2>8. So(m)
    BY <2>3, <2>4, <2>5, <2>7
  <2> QED BY <2>8
<1>6. n \in 0 .. n /\ So(n)
  <2>1. n \in 0 .. n
    BY <1>1
  <2> HIDE DEF S
  <2>2. n \in S
    BY <1>1, <1>4, <1>5, <2>1, Climb
  <2> QED BY <2>1, <2>2 DEF S
<1>7. f[n].out \in Seq(Seq(W)) /\ f[n].cur \in Seq(W)
  BY <1>3, <1>6 DEF PackState
<1> DEFINE r == WithRest(f[n])
<1>8. /\ r \in Seq(Seq(W)) /\ Range(r) \subseteq Made(f[n])
      /\ Made(f[n]) \subseteq Range(r) \cup {<<>>}
  <2>1. CASE f[n].cur = <<>>
    BY <1>7, <2>1 DEF WithRest, Made
  <2>2. CASE f[n].cur # <<>>
    <3>1. r = Append(f[n].out, f[n].cur)
      BY <2>2 DEF WithRest
    <3>2. Append(f[n].out, f[n].cur) \in Seq(Seq(W)) /\ Range(Append(f[n].out, f[n].cur)) = Made(f[n])
      BY <1>7, AppendRange DEF Made
    <3> QED BY <3>1, <3>2
  <2> QED BY <2>1, <2>2
<1> HIDE DEF r
<1>9. AllIn(Range(r)) = AllIn(Made(f[n]))
  <2>1. Range(<<>>) = {}
    BY DEF Range
  <2> QED BY <1>8, <2>1 DEF AllIn
<1>10. AllIn(Range(items)) = UNION {Range(items[k]) : k \in 1 .. n}
  <2>1. Range(items) = {items[k] : k \in 1 .. n}
    BY <1>1 DEF Range
  <2> QED BY <2>1 DEF AllIn
<1> QED BY <1>3, <1>6, <1>8, <1>9, <1>10 DEF r

------------------------------------------------------------------------------
(* Paragraphs and sentences *)

\* The words of a part are those of the parts it is made of.
LEMMA CoverWords ==
  ASSUME NEW text \in Seq(Line), NEW parts
  PROVE  UNION {Range(WordsOf(text, c)) : c \in parts} = Range(WordsOf(text, UNION parts))
<1> DEFINE Of(i) == {<<i, j>> : j \in 1 .. text[i].n}
<1>1. \A c : Range(WordsOf(text, c)) = UNION {Of(i) : i \in DOMAIN text \cap c}
  BY WordsIn
<1> HIDE DEF Of
<1>2. UNION {UNION {Of(i) : i \in DOMAIN text \cap c} : c \in parts} = UNION {Of(i) : i \in DOMAIN text \cap UNION parts}
  <2>1. ASSUME NEW c \in parts, NEW i \in DOMAIN text \cap c PROVE i \in DOMAIN text \cap UNION parts
    OBVIOUS
  <2>2. ASSUME NEW i \in DOMAIN text \cap UNION parts PROVE \E c \in parts : i \in DOMAIN text \cap c
    OBVIOUS
  <2> QED BY <2>1, <2>2
<1> QED BY <1>1, <1>2

\* The words of a sequence of parts.
LEMMA PartWords ==
  ASSUME NEW text \in Seq(Line), NEW D, NEW s \in Seq(SUBSET D)
  PROVE  /\ [k \in DOMAIN s |-> WordsOf(text, s[k])] \in Seq(Seq(Word))
         /\ AllIn(Range([k \in DOMAIN s |-> WordsOf(text, s[k])])) = Range(WordsOf(text, UNION Range(s)))
<1> DEFINE n == Len(s)
           ws == [k \in 1 .. n |-> WordsOf(text, s[k])]
<1>1. n \in Nat /\ DOMAIN s = 1 .. n
  OBVIOUS
<1>2. ws \in Seq(Seq(Word))
  <2>1. \A k \in 1 .. n : WordsOf(text, s[k]) \in Seq(Word)
    BY WordsIn
  <2> HIDE DEF n
  <2> QED BY <1>1, <2>1
<1>3. Range(s) = {s[k] : k \in 1 .. n}
  BY <1>1 DEF Range
<1>4. Range(ws) = {WordsOf(text, s[k]) : k \in 1 .. n}
  <2> HIDE DEF n
  <2> QED BY DEF Range
<1> HIDE DEF n
<1>5. AllIn(Range(ws)) = UNION {Range(WordsOf(text, c)) : c \in Range(s)}
  <2>1. AllIn(Range(ws)) = UNION {Range(WordsOf(text, s[k])) : k \in 1 .. n}
    BY <1>4 DEF AllIn
  <2> QED BY <1>3, <2>1
<1>6. AllIn(Range(ws)) = Range(WordsOf(text, UNION Range(s)))
  BY <1>5, CoverWords
<1> QED BY <1>1, <1>2, <1>6

\* When each gap begins a run, the runs are the whole part.
LEMMA RunsCover ==
  ASSUME NEW text \in Seq(Line), NEW part \in SUBSET DOMAIN text, NEW starts \in SUBSET part,
         \A i \in part : i - 1 \notin part => i \in starts
  PROVE  /\ UNION Range(Runs(text, part, starts)) = part
         /\ \A r \in Range(Runs(text, part, starts)) : \A x, y \in r :
              x < y => x + 1 \in part /\ x + 1 \notin starts
<1>1. part \in SUBSET Nat /\ starts \cap DOMAIN text = starts
  BY LineIs
<1>2. Range(Runs(text, part, starts)) = {Run(part, starts, a) : a \in starts}
  BY <1>1, RunsAre
<1>3. \A a \in starts : Run(part, starts, a) \subseteq part
  BY DEF Run
<1>4. /\ \A x \in part : \E a \in starts : a <= x /\ x \in Run(part, starts, a)
      /\ \A a \in starts : \A x, y \in Run(part, starts, a) :
           x < y => x + 1 \in part /\ x + 1 \notin starts
  BY <1>1, GapsCover
<1> QED BY <1>2, <1>3, <1>4

\* The words of one sentence: no line of prose but the last.
OneSentence(text, part, c) ==
  \E s \in SUBSET part :
    c = WordsOf(text, s) /\ \A x, y \in s : x < y => text[x].kind # "prose"

LEMMA SplitMakes ==
  ASSUME NEW text \in Seq(Line), NEW para \in SUBSET DOMAIN text
  PROVE  /\ SplitLong(text, para) \in Seq(Seq(Word))
         /\ AllIn(Range(SplitLong(text, para))) = Range(WordsOf(text, para))
         /\ \A c \in Range(SplitLong(text, para)) : Len(c) <= MaxWords \/ OneSentence(text, para, c)
<1>1. CASE Len(WordsOf(text, para)) <= MaxWords
  <2> DEFINE w == WordsOf(text, para)
  <2>1. SplitLong(text, para) = << w >>
    BY <1>1 DEF SplitLong
  <2>2. w \in Seq(Word) /\ Len(w) <= MaxWords
    BY <1>1, WordsIn
  <2> HIDE DEF w
  <2>3. << w >> \in Seq(Seq(Word)) /\ Range(<< w >>) = {w}
    BY <2>2 DEF Range
  <2>4. AllIn({w}) = Range(w)
    BY DEF AllIn
  <2> QED BY <2>1, <2>2, <2>3, <2>4 DEF w
<1>2. CASE ~(Len(WordsOf(text, para)) <= MaxWords)
  <2> DEFINE s == Sentences(text, para)
             ws == [k \in DOMAIN s |-> WordsOf(text, s[k])]
             starts == {i \in para : i - 1 \notin para \/ text[i - 1].kind = "prose"}
  <2>1. SplitLong(text, para) = Pack(ws, 0)
    BY <1>2 DEF SplitLong
  <2>2. s = Runs(text, para, starts)
    BY DEF Sentences
  <2>3. starts \in SUBSET para /\ \A i \in para : i - 1 \notin para => i \in starts
    OBVIOUS
  <2>4. \A x : x + 1 \notin starts /\ x + 1 \in para /\ x \in Nat => text[x].kind # "prose"
    OBVIOUS
  <2> HIDE DEF starts, s
  <2>5. s \in Seq(SUBSET para) /\ UNION Range(s) = para
    BY <2>2, <2>3, RunsAre, RunsCover
  <2>6. \A r \in Range(s) : \A x, y \in r : x < y => text[x].kind # "prose"
    <3>1. \A r \in Range(s) : \A x, y \in r : x < y => x + 1 \in para /\ x + 1 \notin starts
      BY <2>2, <2>3, RunsCover
    <3>2. \A r \in Range(s) : \A x \in r : x \in Nat
      BY <2>5, LineIs
    <3> QED BY <2>4, <3>1, <3>2
  <2>7. ws \in Seq(Seq(Word)) /\ AllIn(Range(ws)) = Range(WordsOf(text, para))
    BY <2>5, PartWords
  <2>8. \A k \in DOMAIN ws : OneSentence(text, para, ws[k])
    <3> SUFFICES ASSUME NEW k \in DOMAIN s PROVE OneSentence(text, para, WordsOf(text, s[k]))
      OBVIOUS
    <3>1. s[k] \in SUBSET para /\ s[k] \in Range(s)
      BY <2>5 DEF Range
    <3> QED BY <2>6, <3>1 DEF OneSentence
  <2> HIDE DEF ws
  <2>9. /\ Pack(ws, 0) \in Seq(Seq(Word))
        /\ AllIn(Range(Pack(ws, 0))) = Range(WordsOf(text, para))
        /\ \A c \in Range(Pack(ws, 0)) : Packed(c, Word, ws, 0)
    BY <2>7, PackMakes
  <2>10. ASSUME NEW c \in Range(Pack(ws, 0)) PROVE Len(c) <= MaxWords \/ OneSentence(text, para, c)
    <3> SUFFICES ASSUME NEW k \in DOMAIN ws, NEW tail \in Seq(Word), Len(tail) <= 0, c = tail \o ws[k]
                 PROVE  OneSentence(text, para, c)
      BY <2>9 DEF Packed
    <3>1. tail = <<>>
      BY EmptySeq
    <3>2. ws[k] \in Seq(Word)
      BY <2>7
    <3>3. c = ws[k]
      BY <3>1, <3>2, ConcatEmptySeq
    <3> QED BY <2>8, <3>3
  <2> QED BY <2>1, <2>9, <2>10
<1> QED BY <1>1, <1>2

\* A chunk over the budget ends with one sentence, behind the overlap.
Ends(text, part, c) ==
  Len(c) > MaxWords + Overlap =>
    \E tail \in Seq(Word), item \in Seq(Word) :
      Len(tail) <= Overlap /\ c = tail \o item /\ OneSentence(text, part, item)

LEMMA PiecesMake ==
  ASSUME NEW text \in Seq(Line), NEW sec \in SUBSET DOMAIN text
  PROVE  /\ Pieces(text, sec) \in Seq(Seq(Word))
         /\ AllIn(Range(Pieces(text, sec))) = Range(WordsOf(text, Body(text, sec)))
         /\ \A c \in Range(Pieces(text, sec)) : Ends(text, Body(text, sec), c)
<1> DEFINE body == Body(text, sec)
           paras == Paragraphs(text, sec)
           starts == {i \in body : i - 1 \notin body}
           n == Len(paras)
           ss == [k \in 1 .. n |-> SplitLong(text, paras[k])]
           items == FlattenSeq(ss)
<1>1. body \in SUBSET DOMAIN text
  BY DEF Body
<1>2. paras = Runs(text, body, starts)
  BY DEF Paragraphs
<1>3. starts \in SUBSET body /\ \A i \in body : i - 1 \notin body => i \in starts
  OBVIOUS
<1> HIDE DEF starts, body, paras
<1>4. paras \in Seq(SUBSET body) /\ UNION Range(paras) = body
  BY <1>1, <1>2, <1>3, RunsAre, RunsCover
<1>5. n \in Nat /\ DOMAIN paras = 1 .. n /\ \A k \in 1 .. n : paras[k] \in SUBSET body
  BY <1>4
<1>6. Pieces(text, sec) = Pack(items, Overlap)
  BY <1>5 DEF Pieces, paras
<1> HIDE DEF n
<1>7. ASSUME NEW k \in 1 .. n
      PROVE  /\ ss[k] \in Seq(Seq(Word))
             /\ AllIn(Range(ss[k])) = Range(WordsOf(text, paras[k]))
             /\ \A c \in Range(ss[k]) : Len(c) <= MaxWords \/ OneSentence(text, body, c)
  <2>1. paras[k] \in SUBSET DOMAIN text /\ paras[k] \in SUBSET body
    BY <1>1, <1>5
  <2>2. /\ SplitLong(text, paras[k]) \in Seq(Seq(Word))
        /\ AllIn(Range(SplitLong(text, paras[k]))) = Range(WordsOf(text, paras[k]))
        /\ \A c \in Range(SplitLong(text, paras[k])) : Len(c) <= MaxWords \/ OneSentence(text, paras[k], c)
    BY <2>1, SplitMakes
  <2>3. \A c : OneSentence(text, paras[k], c) => OneSentence(text, body, c)
    BY <2>1 DEF OneSentence
  <2> QED BY <2>2, <2>3
<1>8. ss \in Seq(Seq(Seq(Word))) /\ DOMAIN ss = 1 .. n
  BY <1>5, <1>7
<1> HIDE DEF ss
<1>9. items \in Seq(Seq(Word)) /\ Range(items) = UNION {Range(ss[k]) : k \in 1 .. n}
  BY <1>8, FlattenRange
<1> HIDE DEF items
<1>10. AllIn(Range(items)) = Range(WordsOf(text, body))
  <2>1. AllIn(Range(items)) = UNION {AllIn(Range(ss[k])) : k \in 1 .. n}
    <3> DEFINE R(k) == Range(ss[k])
    <3>1. Range(items) = UNION {R(k) : k \in 1 .. n}
      BY <1>9
    <3> HIDE DEF R
    <3>2. AllIn(Range(items)) = UNION {AllIn(R(k)) : k \in 1 .. n}
      BY <3>1 DEF AllIn
    <3> QED BY <3>2 DEF R
  <2>2. UNION {AllIn(Range(ss[k])) : k \in 1 .. n} = UNION {Range(WordsOf(text, paras[k])) : k \in 1 .. n}
    BY <1>7
  <2>3. Range(paras) = {paras[k] : k \in 1 .. n}
    BY <1>5 DEF Range
  <2>4. UNION {Range(WordsOf(text, paras[k])) : k \in 1 .. n} = UNION {Range(WordsOf(text, c)) : c \in Range(paras)}
    BY <2>3
  <2>5. UNION {Range(WordsOf(text, c)) : c \in Range(paras)} = Range(WordsOf(text, body))
    BY <1>4, CoverWords
  <2> QED BY <2>1, <2>2, <2>4, <2>5
<1>11. Overlap \in Nat /\ MaxWords \in Nat
  BY ChunkerAssumption
<1>12. /\ Pack(items, Overlap) \in Seq(Seq(Word))
       /\ AllIn(Range(Pack(items, Overlap))) = Range(WordsOf(text, body))
       /\ \A c \in Range(Pack(items, Overlap)) : Packed(c, Word, items, Overlap)
  BY <1>9, <1>10, <1>11, PackMakes
<1>13. \A k \in DOMAIN items : Len(items[k]) <= MaxWords \/ OneSentence(text, body, items[k])
  <2>1. \A c \in Range(items) : Len(c) <= MaxWords \/ OneSentence(text, body, c)
    BY <1>7, <1>9
  <2> QED BY <2>1 DEF Range
<1>14. ASSUME NEW c, Packed(c, Word, items, Overlap) PROVE Ends(text, body, c)
  <2> SUFFICES ASSUME Len(c) > MaxWords + Overlap
               PROVE  \E tail \in Seq(Word), item \in Seq(Word) :
                        Len(tail) <= Overlap /\ c = tail \o item /\ OneSentence(text, body, item)
    BY DEF Ends
  <2>1. CASE Len(c) <= MaxWords
    <3> QED BY <1>11, <2>1
  <2>2. ASSUME NEW k \in DOMAIN items, NEW tail \in Seq(Word), Len(tail) <= Overlap, c = tail \o items[k]
        PROVE  OneSentence(text, body, items[k]) /\ items[k] \in Seq(Word)
    <3>1. items[k] \in Seq(Word)
      BY <1>9
    <3>2. Len(c) = Len(tail) + Len(items[k])
      BY <2>2, <3>1, ConcatProperties
    <3>3. Len(tail) \in Nat /\ Len(items[k]) \in Nat
      BY <3>1
    <3>4. ~(Len(items[k]) <= MaxWords)
      BY <1>11, <2>2, <3>2, <3>3
    <3> QED BY <1>13, <3>1, <3>4
  <2> QED BY <1>14, <2>1, <2>2 DEF Packed
<1> QED BY <1>6, <1>12, <1>14 DEF body

\* A word of a part is one of its lines.
LEMMA WordLine ==
  ASSUME NEW text \in Seq(Line), NEW part, NEW w
  PROVE  w \in Range(WordsOf(text, part))
           <=> \E i \in DOMAIN text : i \in part /\ \E j \in 1 .. text[i].n : w = <<i, j>>
<1>1. Range(WordsOf(text, part)) = UNION {{<<i, j>> : j \in 1 .. text[i].n} : i \in DOMAIN text \cap part}
  BY WordsIn
<1> QED BY <1>1

\* Inside one sentence only lines that pass for titles end.
LEMMA SentenceKeeps ==
  ASSUME NEW text \in Seq(Line), NEW sec \in SUBSET DOMAIN text, NEW c,
         Ends(text, Body(text, sec), c), Len(c) > MaxWords + Overlap
  PROVE  \A i \in Overlap + 1 .. Len(c) - 1 : c[i][1] # c[i + 1][1] => text[c[i][1]].kind = "title"
<1>1. PICK tail \in Seq(Word), item \in Seq(Word) :
        Len(tail) <= Overlap /\ c = tail \o item /\ OneSentence(text, Body(text, sec), item)
  BY DEF Ends
<1>2. PICK s \in SUBSET Body(text, sec) :
        item = WordsOf(text, s) /\ \A x, y \in s : x < y => text[x].kind # "prose"
  BY <1>1 DEF OneSentence
<1>3. Overlap \in Nat /\ Len(tail) \in Nat /\ Len(item) \in Nat /\ DOMAIN item = 1 .. Len(item)
  BY <1>1, ChunkerAssumption
<1>4. /\ Len(c) = Len(tail) + Len(item)
      /\ \A i \in 1 .. Len(tail) + Len(item) : c[i] = IF i <= Len(tail) THEN tail[i] ELSE item[i - Len(tail)]
  BY <1>1, ConcatProperties
<1>5. ASSUME NEW i \in Overlap + 1 .. Len(c) - 1, c[i][1] # c[i + 1][1]
      PROVE  text[c[i][1]].kind = "title"
  <2> DEFINE p == i - Len(tail)
  <2>1. p \in DOMAIN item /\ p + 1 \in DOMAIN item /\ p <= p + 1 /\ p + 1 = i + 1 - Len(tail)
    BY <1>1, <1>3, <1>4
  <2>2. c[i] = item[p] /\ c[i + 1] = item[p + 1]
    BY <1>1, <1>3, <1>4, <2>1
  <2> HIDE DEF p
  <2>3. item[p][1] <= item[p + 1][1]
    BY <1>2, <2>1, WordsSorted
  <2>4. ASSUME NEW q \in DOMAIN item PROVE item[q][1] \in s /\ item[q][1] \in DOMAIN text
    <3>1. item[q] \in Range(item)
      BY DEF Range
    <3>2. PICK x \in DOMAIN text : x \in s /\ \E j \in 1 .. text[x].n : item[q] = <<x, j>>
      BY <1>2, <3>1, WordLine
    <3> QED BY <3>2
  <2> DEFINE x == item[p][1]
             y == item[p + 1][1]
  <2>5. x \in s /\ y \in s /\ x \in DOMAIN text /\ y \in DOMAIN text /\ x <= y /\ x # y
    BY <1>5, <2>1, <2>2, <2>3, <2>4
  <2> HIDE DEF x, y
  <2>6. x < y
    BY <2>5, LineIs
  <2>7. text[x].kind # "prose"
    BY <1>2, <2>5, <2>6
  <2>8. text[x].kind # "blank" /\ text[x].kind # "heading"
    BY <1>2, <2>5 DEF Body, HeadLines, Headings
  <2>9. text[x].kind \in {"heading", "title", "prose", "blank"}
    BY <2>5, LineIs
  <2> QED BY <2>2, <2>7, <2>8, <2>9 DEF x
<1> QED BY <1>5

------------------------------------------------------------------------------
(* Sections and chunks *)

Starts(text) == {i \in DOMAIN text : i = 1} \cup Headings(text)

LEMMA SectionsAre ==
  ASSUME NEW text \in Seq(Line)
  PROVE  /\ Sections(text) \in Seq(SUBSET DOMAIN text)
         /\ Range(Sections(text)) = {Run(DOMAIN text, Starts(text), a) : a \in Starts(text)}
         /\ UNION Range(Sections(text)) = DOMAIN text
<1>1. Sections(text) = Runs(text, DOMAIN text, Starts(text))
  BY DEF Sections, Starts
<1>2. Starts(text) \in SUBSET DOMAIN text
  BY DEF Starts, Headings
<1>3. \A i \in DOMAIN text : i - 1 \notin DOMAIN text => i \in Starts(text)
  <2>1. \A i \in DOMAIN text : i - 1 \notin DOMAIN text => i = 1
    BY LineIs
  <2> QED BY <2>1 DEF Starts
<1>4. Starts(text) \cap DOMAIN text = Starts(text)
  BY <1>2
<1>5. UNION Range(Runs(text, DOMAIN text, Starts(text))) = DOMAIN text
  BY <1>2, <1>3, RunsCover
<1>6. /\ Runs(text, DOMAIN text, Starts(text)) \in Seq(SUBSET DOMAIN text)
      /\ Range(Runs(text, DOMAIN text, Starts(text))) = {Run(DOMAIN text, Starts(text), a) : a \in Starts(text)}
  BY <1>4, RunsAre
<1> QED BY <1>1, <1>5, <1>6

ChunkOf(text, sec, p) == [head |-> WordsOf(text, HeadLines(text, sec)), words |-> p]

\* A chunk is a piece of one section under its heading.
LEMMA ChunksAre ==
  ASSUME NEW text \in Seq(Line)
  PROVE  Range(Chunks(text)) =
           UNION {{ChunkOf(text, sec, p) : p \in Range(Pieces(text, sec))} : sec \in Range(Sections(text))}
<1> DEFINE D == [head : Seq(Word), words : Seq(Word)]
           secs == Sections(text)
           n == Len(secs)
           cs == [k \in 1 .. n |-> SectionChunks(text, secs[k])]
<1>1. n \in Nat /\ DOMAIN secs = 1 .. n /\ \A k \in 1 .. n : secs[k] \in SUBSET DOMAIN text
  <2>1. secs \in Seq(SUBSET DOMAIN text)
    BY SectionsAre
  <2> QED BY <2>1
<1>2. Chunks(text) = FlattenSeq(cs)
  BY <1>1 DEF Chunks
<1> HIDE DEF n, secs
<1>3. ASSUME NEW sec \in SUBSET DOMAIN text
      PROVE  /\ SectionChunks(text, sec) \in Seq(D)
             /\ Range(SectionChunks(text, sec)) = {ChunkOf(text, sec, p) : p \in Range(Pieces(text, sec))}
  <2> DEFINE ps == Pieces(text, sec)
             m == Len(ps)
             of(p) == ChunkOf(text, sec, p)
  <2>1. m \in Nat /\ DOMAIN ps = 1 .. m /\ \A k \in 1 .. m : ps[k] \in Seq(Word)
    <3>1. ps \in Seq(Seq(Word))
      BY PiecesMake
    <3> QED BY <3>1
  <2>2. SectionChunks(text, sec) = [k \in 1 .. m |-> of(ps[k])]
    BY <2>1 DEF SectionChunks, ChunkOf
  <2>3. \A p \in Seq(Word) : of(p) \in D
    BY WordsIn DEF ChunkOf
  <2> HIDE DEF m, ps, of, D
  <2>4. [k \in 1 .. m |-> of(ps[k])] \in Seq(D)
    BY <2>1, <2>3
  <2>5. Range([k \in 1 .. m |-> of(ps[k])]) = {of(p) : p \in Range(ps)}
    BY <2>1 DEF Range
  <2> QED BY <2>2, <2>4, <2>5 DEF ps, of
<1> HIDE DEF D
<1>4. cs \in Seq(Seq(D)) /\ DOMAIN cs = 1 .. n
  BY <1>1, <1>3
<1>5. \A k \in 1 .. n : Range(cs[k]) = {ChunkOf(text, secs[k], p) : p \in Range(Pieces(text, secs[k]))}
  BY <1>1, <1>3
<1> HIDE DEF cs
<1>6. Range(FlattenSeq(cs)) = UNION {Range(cs[k]) : k \in 1 .. n}
  BY <1>4, FlattenRange
<1> DEFINE Of(sec) == {ChunkOf(text, sec, p) : p \in Range(Pieces(text, sec))}
<1>7. \A k \in 1 .. n : Range(cs[k]) = Of(secs[k])
  BY <1>5
<1> HIDE DEF Of
<1>8. Range(secs) = {secs[k] : k \in 1 .. n}
  BY <1>1 DEF Range
<1>9. UNION {Range(cs[k]) : k \in 1 .. n} = UNION {Of(sec) : sec \in Range(secs)}
  BY <1>7, <1>8
<1> QED BY <1>2, <1>6, <1>9 DEF Of, secs

\* WithinBudget, of one text.
BudgetIn(text, cs) ==
  \A c \in cs :
    Len(c.words) > MaxWords + Overlap =>
      \A i \in Overlap + 1 .. Len(c.words) - 1 :
        c.words[i][1] # c.words[i + 1][1] => text[c.words[i][1]].kind = "title"

LEMMA BudgetHolds == ASSUME NEW text \in Seq(Line) PROVE BudgetIn(text, Range(Chunks(text)))
<1> SUFFICES ASSUME NEW c \in Range(Chunks(text)), Len(c.words) > MaxWords + Overlap
             PROVE  \A i \in Overlap + 1 .. Len(c.words) - 1 :
                      c.words[i][1] # c.words[i + 1][1] => text[c.words[i][1]].kind = "title"
  BY DEF BudgetIn
<1>1. PICK sec \in Range(Sections(text)) : \E p \in Range(Pieces(text, sec)) : c = ChunkOf(text, sec, p)
  BY ChunksAre
<1>2. sec \in SUBSET DOMAIN text
  BY SectionsAre
<1>3. c.words \in Range(Pieces(text, sec))
  BY <1>1 DEF ChunkOf
<1>4. Ends(text, Body(text, sec), c.words)
  BY <1>2, <1>3, PiecesMake
<1> QED BY <1>2, <1>4, SentenceKeeps

Section(text, a) == Run(DOMAIN text, Starts(text), a)

\* The heading of the section that starts at this line.
HeadingOf(text, a) == IF a \in Headings(text) THEN a ELSE 0

LEMMA SectionStarts ==
  ASSUME NEW text \in Seq(Line), NEW a \in Starts(text)
  PROVE  /\ Section(text, a) \in SUBSET DOMAIN text /\ a \in Section(text, a)
         /\ \A i \in Section(text, a) : a <= i /\ (i \in Headings(text) => i = a)
         /\ \A i \in Section(text, a) : Article(text, i) = HeadingOf(text, a)
<1> DEFINE sec == Section(text, a)
<1>1. a \in DOMAIN text /\ a \in Nat /\ a >= 1 /\ (a \notin Headings(text) => a = 1)
  <2>1. a \in DOMAIN text /\ (a \notin Headings(text) => a = 1)
    BY DEF Starts, Headings
  <2> QED BY <2>1, LineIs
<1>2. \A i : i \in sec <=> i \in DOMAIN text /\ a <= i /\ \A j \in a + 1 .. i : j \notin Starts(text)
  BY DEF Section, Run
<1>3. \A i \in DOMAIN text : i \in Nat /\ i >= 1 /\ \A j \in 1 .. i : j \in DOMAIN text
  BY LineIs
<1> HIDE DEF sec
<1>4. a \in sec
  BY <1>1, <1>2
<1>5. ASSUME NEW i \in sec
      PROVE  /\ i \in Nat /\ a <= i
             /\ \A j \in a + 1 .. i : j \notin Headings(text)
             /\ i \in Headings(text) => i = a
  <2>1. i \in DOMAIN text /\ a <= i /\ \A j \in a + 1 .. i : j \notin Headings(text)
    BY <1>2 DEF Starts
  <2> QED BY <1>1, <1>3, <2>1
<1>6. ASSUME NEW i \in sec PROVE Article(text, i) = HeadingOf(text, a)
  <2> DEFINE h0 == HeadingOf(text, a)
             Fit(h) == /\ h = 0 \/ text[h].kind = "heading"
                       /\ \A j \in h + 1 .. i : text[j].kind # "heading"
  <2>1. i \in Nat /\ a <= i /\ i \in DOMAIN text /\ \A j \in 1 .. i : j \in DOMAIN text
    BY <1>2, <1>3, <1>5
  <2>2. \A j \in 1 .. i : j \in Headings(text) <=> text[j].kind = "heading"
    BY <2>1 DEF Headings
  <2>3. \A j \in a + 1 .. i : text[j].kind # "heading"
    BY <1>1, <1>5, <2>1, <2>2
  <2>4. a \in 1 .. i
    BY <1>1, <2>1
  <2>5. h0 \in 0 .. i /\ Fit(h0)
    <3>1. CASE a \in Headings(text)
      BY <1>1, <2>1, <2>2, <2>3, <2>4, <3>1 DEF HeadingOf
    <3>2. CASE a \notin Headings(text)
      <4>1. h0 = 0 /\ a = 1 /\ text[1].kind # "heading"
        BY <1>1, <2>2, <2>4, <3>2 DEF HeadingOf
      <4>2. \A j \in 1 .. i : text[j].kind # "heading"
        BY <2>1, <2>3, <4>1
      <4> QED BY <2>1, <4>1, <4>2
    <3> QED BY <3>1, <3>2
  <2>6. ASSUME NEW h \in 0 .. i, Fit(h) PROVE h = h0
    <3>1. CASE a \in Headings(text)
      <4>1. text[a].kind = "heading" /\ h0 = a
        BY <2>2, <2>4, <3>1 DEF HeadingOf
      <4>2. ~(h < a)
        BY <2>4, <2>6, <4>1
      <4>3. ~(h > a)
        BY <1>1, <2>1, <2>3, <2>6
      <4> QED BY <1>1, <2>1, <4>1, <4>2, <4>3
    <3>2. CASE a \notin Headings(text)
      <4>1. h0 = 0 /\ a = 1 /\ text[1].kind # "heading"
        BY <1>1, <2>2, <2>4, <3>2 DEF HeadingOf
      <4>2. \A j \in 1 .. i : text[j].kind # "heading"
        BY <2>1, <2>3, <4>1
      <4> QED BY <2>1, <2>6, <4>1, <4>2
    <3> QED BY <3>1, <3>2
  <2>7. Article(text, i) = CHOOSE h \in 0 .. i : Fit(h)
    BY DEF Article
  <2> HIDE DEF Fit, h0
  <2> QED BY <2>5, <2>6, <2>7 DEF h0
<1> QED BY <1>2, <1>4, <1>5, <1>6 DEF sec

\* The chunks of a section carry its heading.
LEMMA ChunkOver ==
  ASSUME NEW text \in Seq(Line), NEW a \in Starts(text), NEW sec, NEW p,
         sec = Section(text, a)
  PROVE  Over(ChunkOf(text, sec, p)) = HeadingOf(text, a)
<1> DEFINE head == WordsOf(text, HeadLines(text, sec))
<1>1. Over(ChunkOf(text, sec, p)) = IF head = <<>> THEN 0 ELSE head[1][1]
  BY DEF Over, ChunkOf
<1>2. /\ sec \in SUBSET DOMAIN text /\ a \in sec
      /\ \A i \in sec : a <= i /\ (i \in Headings(text) => i = a)
  BY SectionStarts
<1>3. head \in Seq(Word)
  BY WordsIn
<1>4. ASSUME NEW q \in DOMAIN head
      PROVE  head[q][1] \in HeadLines(text, sec) /\ head[q][1] \in sec
  <2>1. head[q] \in Range(head)
    BY DEF Range
  <2>2. PICK i \in DOMAIN text : i \in HeadLines(text, sec) /\ \E j \in 1 .. text[i].n : head[q] = <<i, j>>
    BY <2>1, WordLine
  <2>3. HeadLines(text, sec) \subseteq sec
    BY DEF HeadLines
  <2> QED BY <2>2, <2>3
<1>5. CASE a \notin Headings(text)
  <2>1. HeadLines(text, sec) = {}
    BY <1>2, <1>5 DEF HeadLines
  <2> HIDE DEF head
  <2>2. DOMAIN head = {}
    BY <1>4, <2>1
  <2>3. head = <<>>
    BY <1>3, <2>2
  <2> QED BY <1>1, <1>5, <2>3 DEF HeadingOf
<1>6. CASE a \in Headings(text)
  <2>1. a \in DOMAIN text /\ a \in HeadLines(text, sec) /\ a \in Nat
    BY <1>2, <1>6, LineIs DEF HeadLines
  <2>2. 1 \in 1 .. text[a].n
    <3>1. text[a].kind = "heading" /\ text[a].n \in Nat /\ (text[a].kind = "blank" <=> text[a].n = 0)
      BY <1>6, <2>1, LineIs DEF Headings
    <3> QED BY <3>1
  <2>3. <<a, 1>> \in Range(head)
    BY <2>1, <2>2, WordLine
  <2>4. PICK q \in DOMAIN head : head[q] = <<a, 1>>
    BY <2>3 DEF Range
  <2>5. 1 \in DOMAIN head /\ 1 <= q /\ head # <<>>
    <3> HIDE DEF head
    <3> QED BY <1>3, <2>4
  <2>6. head[1][1] <= a
    <3>1. head[1][1] <= head[q][1]
      BY <2>4, <2>5, WordsSorted
    <3> QED BY <2>4, <3>1
  <2>7. head[1][1] \in sec
    BY <1>4, <2>5
  <2> HIDE DEF head
  <2>8. head[1][1] = a
    <3>1. head[1][1] \in Nat /\ a <= head[1][1]
      BY <1>2, <2>7, LineIs
    <3> QED BY <2>1, <2>6, <3>1
  <2> QED BY <1>1, <1>6, <2>5, <2>8 DEF HeadingOf
<1> QED BY <1>5, <1>6

\* ArticlesKept, of one text.
ArticlesIn(text, cs) ==
  \A i \in DOMAIN text : \A n \in 1 .. text[i].n :
    LET having == {c \in cs : <<i, n>> \in Range(c.head \o c.words)} IN
    /\ \A c \in having : Over(c) = Article(text, i)
    /\ having = {} => /\ text[i].kind # "prose"
                      /\ \A c \in cs : Over(c) # Article(text, i)

LEMMA ArticlesHold == ASSUME NEW text \in Seq(Line) PROVE ArticlesIn(text, Range(Chunks(text)))
<1> DEFINE cs == Range(Chunks(text))
<1>1. ASSUME NEW a \in Starts(text)
      PROVE  /\ Section(text, a) \in SUBSET DOMAIN text
             /\ \A i \in Section(text, a) : Article(text, i) = HeadingOf(text, a)
             /\ \A p : Over(ChunkOf(text, Section(text, a), p)) = HeadingOf(text, a)
  BY SectionStarts, ChunkOver
<1>2. /\ \A i \in DOMAIN text : \E a \in Starts(text) : i \in Section(text, a)
      /\ \A sec \in Range(Sections(text)) : \E a \in Starts(text) : sec = Section(text, a)
      /\ \A a \in Starts(text) : Section(text, a) \in Range(Sections(text))
  <2>1. /\ Range(Sections(text)) = {Section(text, a) : a \in Starts(text)}
        /\ UNION Range(Sections(text)) = DOMAIN text
    BY SectionsAre DEF Section
  <2> QED BY <2>1
<1>3. \A a, b \in Starts(text) : HeadingOf(text, a) = HeadingOf(text, b) => a = b
  <2>1. \A a \in Starts(text) : a >= 1 /\ a \in Nat /\ (a \notin Headings(text) => a = 1)
    BY LineIs DEF Starts, Headings
  <2> QED BY <2>1 DEF HeadingOf
<1>4. \A c : c \in cs <=> \E a \in Starts(text) : \E p \in Range(Pieces(text, Section(text, a))) : c = ChunkOf(text, Section(text, a), p)
  <2>1. cs = UNION {{ChunkOf(text, sec, p) : p \in Range(Pieces(text, sec))} : sec \in Range(Sections(text))}
    BY ChunksAre
  <2> QED BY <1>2, <2>1
<1> HIDE DEF cs
<1>5. ASSUME NEW a \in Starts(text), NEW p \in Range(Pieces(text, Section(text, a))), NEW w
      PROVE  w \in Range(ChunkOf(text, Section(text, a), p).head \o ChunkOf(text, Section(text, a), p).words)
               <=> w \in Range(WordsOf(text, HeadLines(text, Section(text, a)))) \/ w \in Range(p)
  <2>1. WordsOf(text, HeadLines(text, Section(text, a))) \in Seq(Word)
    BY WordsIn
  <2>2. p \in Seq(Word)
    <3>1. Pieces(text, Section(text, a)) \in Seq(Seq(Word))
      BY <1>1, PiecesMake
    <3> QED BY <3>1 DEF Range
  <2>3. Range(WordsOf(text, HeadLines(text, Section(text, a))) \o p) = Range(WordsOf(text, HeadLines(text, Section(text, a)))) \cup Range(p)
    BY <2>1, <2>2, RangeConcatenation
  <2> QED BY <2>3 DEF ChunkOf
<1>6. ASSUME NEW a \in Starts(text)
      PROVE  AllIn(Range(Pieces(text, Section(text, a)))) = Range(WordsOf(text, Body(text, Section(text, a))))
  BY <1>1, PiecesMake
<1>7. \A s : HeadLines(text, s) \subseteq s /\ Body(text, s) \subseteq s
  BY DEF HeadLines, Body
<1> SUFFICES ASSUME NEW i \in DOMAIN text, NEW n \in 1 .. text[i].n
             PROVE  LET having == {c \in cs : <<i, n>> \in Range(c.head \o c.words)} IN
                    /\ \A c \in having : Over(c) = Article(text, i)
                    /\ having = {} => /\ text[i].kind # "prose"
                                      /\ \A c \in cs : Over(c) # Article(text, i)
  BY DEF ArticlesIn, cs
<1>8. \A part : <<i, n>> \in Range(WordsOf(text, part)) <=> i \in part
  BY WordLine
<1>9. ASSUME NEW c \in cs, <<i, n>> \in Range(c.head \o c.words)
      PROVE  Over(c) = Article(text, i)
  <2>1. PICK a \in Starts(text) : \E p \in Range(Pieces(text, Section(text, a))) : c = ChunkOf(text, Section(text, a), p)
    BY <1>4
  <2>2. PICK p \in Range(Pieces(text, Section(text, a))) : c = ChunkOf(text, Section(text, a), p)
    BY <2>1
  <2>3. CASE <<i, n>> \in Range(WordsOf(text, HeadLines(text, Section(text, a))))
    BY <1>1, <1>7, <1>8, <2>2, <2>3
  <2>4. CASE <<i, n>> \in Range(p)
    <3>1. <<i, n>> \in AllIn(Range(Pieces(text, Section(text, a))))
      BY <2>4 DEF AllIn
    <3>2. i \in Section(text, a)
      BY <1>6, <1>7, <1>8, <3>1
    <3> QED BY <1>1, <2>2, <3>2
  <2> QED BY <1>5, <1>9, <2>2, <2>3, <2>4
<1>10. ASSUME \A c \in cs : <<i, n>> \notin Range(c.head \o c.words)
       PROVE  text[i].kind # "prose" /\ \A c \in cs : Over(c) # Article(text, i)
  <2>1. PICK a \in Starts(text) : i \in Section(text, a)
    BY <1>2
  <2>2. \A p \in Range(Pieces(text, Section(text, a))) :
          /\ <<i, n>> \notin Range(WordsOf(text, HeadLines(text, Section(text, a))))
          /\ <<i, n>> \notin Range(p)
    BY <1>4, <1>5, <1>10
  <2>3. i \notin Body(text, Section(text, a))
    BY <1>6, <1>8, <2>2 DEF AllIn
  <2>4. text[i].kind # "blank"
    <3>1. text[i].n \in Nat /\ text[i].n # 0
      BY LineIs
    <3> QED BY <3>1, LineIs
  <2>5. i \in HeadLines(text, Section(text, a))
    BY <2>1, <2>3, <2>4 DEF Body
  <2>6. text[i].kind # "prose"
    BY <2>5 DEF HeadLines, Headings
  <2>7. ASSUME NEW c \in cs, Over(c) = Article(text, i) PROVE FALSE
    <3>1. PICK b \in Starts(text) : \E p \in Range(Pieces(text, Section(text, b))) : c = ChunkOf(text, Section(text, b), p)
      BY <1>4
    <3>2. HeadingOf(text, b) = HeadingOf(text, a)
      BY <1>1, <2>1, <2>7, <3>1
    <3>3. b = a
      BY <1>3, <3>2
    <3> QED BY <1>8, <2>2, <2>5, <3>1, <3>3
  <2> QED BY <2>6, <2>7
<1> QED BY <1>9, <1>10

------------------------------------------------------------------------------
(* What a writer uploads *)

ATextOf(w, u) == u = None \/ \E text \in TextsOf[w] : u = Upload(text)

Uploaded == \A w \in Writers : ATextOf(w, thread[w].upload)

LEMMA GoesOn ==
  ASSUME IInv, Uploaded, NEW w \in Writers, NEW r, Go(w, r), ATextOf(w, r.upload)
  PROVE  Uploaded'
<1>1. thread' = [thread EXCEPT ![w] = r] /\ DOMAIN thread = Writers
  BY DEF Go, IInv, Shape
<1>2. thread'[w] = r /\ \A v \in Writers \ {w} : thread'[v] = thread[v]
  BY <1>1
<1> SUFFICES ASSUME NEW v \in Writers PROVE ATextOf(v, thread'[v].upload)
  BY DEF Uploaded, ATextOf
<1> QED BY <1>2 DEF Uploaded

\* A writer goes on with its text, or has none.
LEMMA GoesOnWith ==
  ASSUME IInv, Uploaded, NEW w \in Writers, NEW r, Go(w, r),
         r.upload = thread[w].upload \/ r.upload = None
  PROVE  Uploaded'
<1>1. ATextOf(w, r.upload)
  BY DEF Uploaded, ATextOf
<1> QED BY <1>1, GoesOn

LEMMA UploadedKept == IInv /\ Uploaded /\ [Next]_vars => Uploaded'
<1> SUFFICES ASSUME IInv, Uploaded, [Next]_vars PROVE Uploaded'
  OBVIOUS
<1>1. CASE Next
  <2>1. PICK w \in Writers :
          \/ \E d \in Docs : Erase(w, d) \/ Ingest(w, d)
          \/ \E c \in thread[w].todo : Begin(w, c)
          \/ Pop(w) \/ PopLen(w) \/ Set(w) \/ SetLen(w)
          \/ \E pc \in {"more", "less"} : Read(w, pc)
          \/ Increment(w) \/ Decrement(w) \/ Drop(w) \/ Delete(w)
          \/ Test(w) \/ (\E pc \in {"more", "sum"} : SumUp(w, pc)) \/ Divide(w) \/ Store(w)
    BY <1>1 DEF Next
  <2>2. DOMAIN thread[w] = Fields
    BY DEF IInv, Shape
  <2>3. Free.upload = None
    BY DEF Free
  <2>4. \A pc : [thread[w] EXCEPT !.pc = pc].upload = thread[w].upload
    BY <2>2 DEF Fields
  <2>5. Onward(thread[w]).upload \in {None, thread[w].upload}
    BY <2>3, <2>4 DEF Onward
  <2>6. Removed(w).upload \in {None, thread[w].upload}
    BY <2>4, <2>5 DEF Removed
  <2>7. ASSUME NEW d \in Docs, Erase(w, d) PROVE Uploaded'
    <3> DEFINE todo == {[id |-> c, terms |-> {}] : c \in {c \in DOMAIN tokens : c[1] = d}}
               r == [Free EXCEPT !.pc = "chunk", !.doc = d, !.op = "remove", !.todo = todo]
    <3>1. Go(w, r)
      BY <2>7 DEF Erase
    <3> HIDE DEF todo
    <3>2. r.upload = None
      BY DEF Free
    <3> HIDE DEF r
    <3> QED BY <3>1, <3>2, GoesOnWith
  <2>8. ASSUME NEW d \in Docs, Ingest(w, d) PROVE Uploaded'
    <3>1. PICK u \in Uploads[w] :
            Go(w, [Free EXCEPT !.pc = "chunk", !.upload = u, !.doc = d, !.op = "add",
                               !.todo = Entries(d, u.chunks)])
      BY <2>8 DEF Ingest
    <3> DEFINE todo == Entries(d, u.chunks)
               r == [Free EXCEPT !.pc = "chunk", !.upload = u, !.doc = d, !.op = "add", !.todo = todo]
    <3>2. Go(w, r)
      BY <3>1
    <3> HIDE DEF todo
    <3>3. r.upload = u
      BY DEF Free
    <3>4. ATextOf(w, u)
      BY DEF Uploads, ATextOf
    <3> HIDE DEF r
    <3> QED BY <3>2, <3>3, <3>4, GoesOn
  <2>9. ASSUME NEW c \in thread[w].todo, Begin(w, c) PROVE Uploaded'
    <3> DEFINE pc == IF thread[w].op = "add" /\ c.id \notin DOMAIN tokens THEN "set" ELSE "pop"
               r == [thread[w] EXCEPT !.pc = pc, !.upload = None, !.chunk = c, !.todo = @ \ {c}]
    <3>1. Go(w, r)
      BY <2>9 DEF Begin, Takes
    <3> HIDE DEF pc
    <3>2. r.upload = None
      BY <2>2 DEF Fields
    <3> HIDE DEF r
    <3> QED BY <3>1, <3>2, GoesOnWith
  <2>10. CASE Pop(w)
    <3>1. CASE Chunk(w).id \in DOMAIN tokens
      <4> DEFINE r == [thread[w] EXCEPT !.pc = "poplen", !.left = tokens[Chunk(w).id]]
      <4>1. Go(w, r) /\ r.upload = thread[w].upload
        BY <2>2, <2>10, <3>1 DEF Pop, Fields
      <4> HIDE DEF r
      <4> QED BY <4>1, GoesOnWith
    <3>2. CASE Chunk(w).id \notin DOMAIN tokens
      <4>1. Go(w, Removed(w))
        BY <2>10, <3>2 DEF Pop
      <4> QED BY <2>6, <4>1, GoesOnWith
    <3> QED BY <3>1, <3>2
  <2>11. CASE PopLen(w)
    <3>1. Go(w, [thread[w] EXCEPT !.pc = "less"]) \/ Go(w, Free)
      BY <2>11 DEF PopLen, Jump
    <3> QED BY <2>3, <2>4, <3>1, GoesOnWith
  <2>12. CASE Set(w)
    <3>1. Go(w, [thread[w] EXCEPT !.pc = "setlen"])
      BY <2>12 DEF Set, Jump
    <3> QED BY <2>4, <3>1, GoesOnWith
  <2>13. CASE SetLen(w)
    <3> DEFINE r == [thread[w] EXCEPT !.pc = "more", !.left = Chunk(w).terms]
    <3>1. Go(w, r) /\ r.upload = thread[w].upload
      BY <2>2, <2>13 DEF SetLen, Fields
    <3> HIDE DEF r
    <3> QED BY <3>1, GoesOnWith
  <2>14. ASSUME NEW pc \in {"more", "less"}, Read(w, pc) PROVE Uploaded'
    <3> DEFINE r == [thread[w] EXCEPT !.pc = IF pc = "more" THEN "inc" ELSE "dec", !.read = df[Term(w)]]
    <3>1. Go(w, r) /\ r.upload = thread[w].upload
      BY <2>2, <2>14 DEF Read, Fields
    <3> HIDE DEF r
    <3> QED BY <3>1, GoesOnWith
  <2>15. CASE Test(w) \/ Divide(w)
    <3>1. \/ Go(w, Removed(w)) \/ Go(w, Free)
          \/ Go(w, [thread[w] EXCEPT !.pc = "sum"]) \/ Go(w, [thread[w] EXCEPT !.pc = "store"])
      BY <2>15 DEF Test, Divide
    <3> QED BY <2>3, <2>4, <2>6, <3>1, GoesOnWith
  <2>16. ASSUME NEW pc \in {"more", "sum"}, SumUp(w, pc) PROVE Uploaded'
    <3> DEFINE n == IF lens = {} THEN 0 ELSE 1
               m == IF pc = "sum" THEN "remove" ELSE "add"
               r == [thread[w] EXCEPT !.pc = "len", !.read = n, !.of = m]
    <3>1. Go(w, r) /\ r.upload = thread[w].upload
      BY <2>2, <2>16 DEF SumUp, Fields
    <3> HIDE DEF r
    <3> QED BY <3>1, GoesOnWith
  <2>17. CASE Store(w)
    <3>1. Go(w, Removed(w)) \/ Go(w, Onward(thread[w]))
      BY <2>17 DEF Store
    <3> QED BY <2>5, <2>6, <3>1, GoesOnWith
  <2>18. ASSUME NEW pc, Counted(w, pc) PROVE Uploaded'
    <3> DEFINE r == [thread[w] EXCEPT !.pc = pc, !.left = @ \ {Term(w)}, !.read = 0]
    <3>1. Go(w, r) /\ r.upload = thread[w].upload
      BY <2>2, <2>18 DEF Counted, Fields
    <3> HIDE DEF r
    <3> QED BY <3>1, GoesOnWith
  <2>19. CASE Increment(w) \/ Delete(w)
    BY <2>18, <2>19 DEF Increment, Delete
  <2>20. CASE Drop(w)
    <3> DEFINE n == df[Term(w)]
               r == [thread[w] EXCEPT !.pc = "del", !.read = n]
    <3>1. Go(w, r) \/ Counted(w, "less")
      BY <2>20 DEF Drop
    <3>2. r.upload = thread[w].upload
      BY <2>2 DEF Fields
    <3> HIDE DEF r
    <3> QED BY <2>18, <3>1, <3>2, GoesOnWith
  <2>21. CASE Decrement(w)
    <3>1. Go(w, [thread[w] EXCEPT !.pc = "drop"])
      BY <2>21 DEF Decrement, Jump
    <3> QED BY <2>4, <3>1, GoesOnWith
  <2> QED BY <2>1, <2>7, <2>8, <2>9, <2>10, <2>11, <2>12, <2>13, <2>14, <2>15, <2>19, <2>21,
         <2>16, <2>17, <2>20
<1>2. CASE UNCHANGED vars
  BY <1>2 DEF vars, Uploaded, ATextOf
<1> QED BY <1>1, <1>2

LEMMA InitUploaded == Init => Uploaded
<1> SUFFICES ASSUME Init, NEW w \in Writers PROVE ATextOf(w, thread[w].upload)
  BY DEF Uploaded
<1>1. thread = [v \in Writers |-> Free]
  BY DEF Init
<1> QED BY <1>1 DEF ATextOf, Free

\* The text of a writer is one of lines, and its chunks are the chunker's.
LEMMA UploadIs ==
  ASSUME Uploaded, NEW w \in Writers
  PROVE  \/ /\ DOMAIN thread[w].upload.text = {}
            /\ Range(thread[w].upload.chunks) = {}
         \/ /\ thread[w].upload.text \in Seq(Line)
            /\ thread[w].upload.chunks = Chunks(thread[w].upload.text)
<1>1. ATextOf(w, thread[w].upload)
  BY DEF Uploaded
<1>2. CASE thread[w].upload = None
  BY <1>2 DEF None, Range
<1>3. ASSUME NEW text \in TextsOf[w], thread[w].upload = Upload(text)
      PROVE  /\ thread[w].upload.text \in Seq(Line)
             /\ thread[w].upload.chunks = Chunks(thread[w].upload.text)
  <2>1. text \in Seq(Line)
    BY LexicalAssumption
  <2> QED BY <1>3, <2>1 DEF Upload
<1> QED BY <1>1, <1>2, <1>3 DEF ATextOf

\* Whatever the text, each word of it is in a chunk under the heading of its
\* article and in no other, and what is left out is the heading of an article
\* without text and what passes for its title (chunker.py:4-8, 120-142).
THEOREM ArticlesAreKept == Spec => []ArticlesKept
<1>1. Uploaded => ArticlesKept
  <2> SUFFICES ASSUME Uploaded, NEW w \in Writers
               PROVE  ArticlesIn(thread[w].upload.text, Range(thread[w].upload.chunks))
    BY DEF ArticlesKept, ArticlesIn
  <2>1. CASE DOMAIN thread[w].upload.text = {}
    BY <2>1 DEF ArticlesIn
  <2> QED BY <2>1, UploadIs, ArticlesHold
<1> QED BY <1>1, InitHolds, NextHolds, InitUploaded, UploadedKept, PTL DEF Spec

\* Whatever the text, a chunk is over its budget by more than the overlap only
\* where it ends with one long sentence (chunker.py:103-122).
THEOREM ChunksKeepBudget == Spec => []WithinBudget
<1>1. Uploaded => WithinBudget
  <2> SUFFICES ASSUME Uploaded, NEW w \in Writers
               PROVE  BudgetIn(thread[w].upload.text, Range(thread[w].upload.chunks))
    BY DEF WithinBudget, BudgetIn
  <2>1. CASE Range(thread[w].upload.chunks) = {}
    BY <2>1 DEF BudgetIn
  <2> QED BY <2>1, UploadIs, BudgetHolds
<1> QED BY <1>1, InitHolds, NextHolds, InitUploaded, UploadedKept, PTL DEF Spec
==============================================================================
