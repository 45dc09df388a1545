\* Documents change hands and go while a question is answered.
SPECIFICATION FairSpec
CONSTANTS
  d1 = d1
  d2 = d2
  Docs = {d1, d2}
  Size <- TwoAndOne
  Quotes <- Footnote
  Tenants = {public, other}
  Scope = {public}
  TopK = 2
  DeepK = 2
  Cap = 1
  DeepCap = 2
  Rewrites = TRUE
  Decomposes = TRUE
  Expands = TRUE
  None = None
INVARIANTS CitedOrHonest ScopeKept CallsBounded CutIsDiverse
PROPERTIES QuestionsEnd
