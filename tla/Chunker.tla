------------------------------- MODULE Chunker -------------------------------
(***************************************************************************)
(* core/ingestion/chunker.py: a text is cut at article headings, an        *)
(* article into paragraphs, a long paragraph into sentences, and what      *)
(* results is packed into chunks of about MaxWords words, each beginning   *)
(* with the last Overlap words of the one before.                          *)
(*                                                                         *)
(* A line is what the code asks of it: whether it is a heading ("Article   *)
(* N"), could pass for the title of an article, or is blank, and how many  *)
(* words it has.  A line that could pass for a title does not end a        *)
(* sentence, prose does.  Word j of line i is the pair <<i, j>>; a part of *)
(* a text is the set of the numbers of its lines.                          *)
(***************************************************************************)
EXTENDS Naturals, SequencesExt

CONSTANTS MaxWords, Overlap

ASSUME ChunkerAssumption ==
  /\ MaxWords \in Nat \ {0}
  /\ Overlap \in 1 .. MaxWords  \* [-0:] would be the whole chunk

Line == [kind : {"heading", "title", "prose"}, n : Nat \ {0}] \cup [kind : {"blank"}, n : {0}]

WordsOf(text, part) ==
  FlattenSeq([i \in DOMAIN text |-> [j \in 1 .. (IF i \in part THEN text[i].n ELSE 0) |-> <<i, j>>]])

\* From each line of starts to the next, in their order.
Run(part, starts, a) == {i \in part : a <= i /\ \A j \in a + 1 .. i : j \notin starts}
Runs(text, part, starts) ==
  FlattenSeq([a \in DOMAIN text |-> IF a \in starts THEN << Run(part, starts, a) >> ELSE <<>>])

FitsLoosely(cur, x) ==  \* mutant of Fits: an item is added before it is counted
  Len(cur) <= MaxWords

Fits(cur, x) == cur = <<>> \/ Len(cur) + Len(x) <= MaxWords

RestLost(p) == p.out  \* mutant of WithRest: what is left at the end is forgotten

WithRest(p) == IF p.cur = <<>> THEN p.out ELSE Append(p.out, p.cur)

\* Items are put together while they fit; the last words of one go on to the next.
LastWords(s, n) == SubSeq(s, IF Len(s) > n THEN Len(s) - n + 1 ELSE 1, Len(s))
Taken(p, x, keep) ==
  IF Fits(p.cur, x) THEN [out |-> p.out, cur |-> p.cur \o x]
  ELSE [out |-> Append(p.out, p.cur), cur |-> LastWords(p.cur, keep) \o x]
Pack(items, keep) ==
  LET packed[k \in 0 .. Len(items)] ==
        IF k = 0 THEN [out |-> <<>>, cur |-> <<>>] ELSE Taken(packed[k - 1], items[k], keep)
  IN WithRest(packed[Len(items)])

\* A heading begins a section, and takes the line after it if that could be a title.
Headings(text) == {i \in DOMAIN text : text[i].kind = "heading"}
Sections(text) == Runs(text, DOMAIN text, {i \in DOMAIN text : i = 1} \cup Headings(text))
HeadLines(text, sec) ==
  {i \in sec : \/ i \in Headings(text)
               \/ /\ text[i].kind = "title"
                  /\ \E h \in sec \cap Headings(text) : \A j \in h + 1 .. i - 1 : text[j].kind = "blank"}
Body(text, sec) == {i \in sec \ HeadLines(text, sec) : text[i].kind # "blank"}

\* Blank lines part paragraphs; only one that is too long is taken apart.
Paragraphs(text, sec) ==
  Runs(text, Body(text, sec), {i \in Body(text, sec) : i - 1 \notin Body(text, sec)})
Sentences(text, para) ==
  Runs(text, para, {i \in para : i - 1 \notin para \/ text[i - 1].kind = "prose"})
SplitLong(text, para) ==
  IF Len(WordsOf(text, para)) <= MaxWords THEN << WordsOf(text, para) >>
  ELSE LET s == Sentences(text, para) IN Pack([k \in DOMAIN s |-> WordsOf(text, s[k])], 0)

Pieces(text, sec) ==
  LET paras == Paragraphs(text, sec)
  IN Pack(FlattenSeq([k \in DOMAIN paras |-> SplitLong(text, paras[k])]), Overlap)
SectionChunks(text, sec) ==
  LET pieces == Pieces(text, sec)
  IN [k \in DOMAIN pieces |-> [head |-> WordsOf(text, HeadLines(text, sec)), words |-> pieces[k]]]

Chunks(text) ==
  LET secs == Sections(text) IN FlattenSeq([k \in DOMAIN secs |-> SectionChunks(text, secs[k])])
==============================================================================
