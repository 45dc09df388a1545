\* Two documents, and two writers of three at work; every text of up to four lines.
SPECIFICATION Spec
CONSTANTS
  d1 = d1
  d2 = d2
  w1 = w1
  w2 = w2
  w3 = w3
  Docs = {d1, d2}
  Writers = {w1, w2, w3}
  MaxWords = 3
  Overlap = 1
  MaxLines = 4
  Kept <- KeptDocs
  Base <- BaseTexts
  TextsOf <- SomeTexts
  MaxOps <- FewOps
INVARIANTS SearchWorks CountsExact ArticlesKept WithinBudget
CHECK_DEADLOCK FALSE
