\* Two handlers, two chats, two questions, one account.
SPECIFICATION PageSpec
CONSTANTS
  Tasks = {h1, h2}
  Chats = {c1, c2}
  MaxTurns = 2
  None = None
SYMMETRY Symmetry
INVARIANTS ShownIsSaved NothingLost SavedOnce OneAskPerChat
