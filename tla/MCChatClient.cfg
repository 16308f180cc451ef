\* "Only one connection at a time", of useChatStream: two of them write into
\* one buffer.
SPECIFICATION Spec
CONSTANTS
  Chats = {"a", "b"}
  Landing = {"a"}
  Fresh = "c"
  Answers = 1
  Beginnings <- MCBeginnings
  Deltas = 1
  MaxMoves = 3
INVARIANT AnswerGrowsInOrder
CHECK_DEADLOCK FALSE
