SPECIFICATION Spec
CONSTANTS
  Chats = {c1, c2}
  Agents = {a1, a2}
  Workers = {w1, w2}
  Requests = {q1}
  NoChat = NoChat
  Pipelines = {"launch"}
  MaxLinks = 2
  MaxRuns = 2
  MaxChanges = 1
SYMMETRY Symmetry
INVARIANTS TypeOK EachOverwriteAddsOneAgent EachOverwriteSplitsOnce
CONSTRAINT FewOverwrites
CHECK_DEADLOCK FALSE
