\* Two processes, five commands and edits, and two documents that ask for one key.
CONSTANTS
  Procs = {p1, p2}
  Docs = {d1, d2}
  Base <- SameBase
  MaxCommands = 5
  None = None
  Torn = Torn
SPECIFICATION Spec
SYMMETRY Symmetry
\* The bound on commands stops the model where the program would go on.
CHECK_DEADLOCK FALSE
INVARIANTS TypeOK NoHalfWrittenList RankingsAndMarksStand TheRecordExplainsTheBib KeysStand
