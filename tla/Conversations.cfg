\* Two parallel requests on two chats, with deletions and an erasure.
SPECIFICATION Spec
CONSTANTS
  Convs = {c1, c2}
  Workers = {w1, w2}
  MaxTurns = 3
  None = None
SYMMETRY Symmetry
INVARIANTS AnswersFollowQuestions OrphansComeFromRaces
PROPERTIES ChatSpec
CHECK_DEADLOCK FALSE
