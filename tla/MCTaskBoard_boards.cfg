\* Three calls about one task, one board.
SPECIFICATION BoardSpec
CONSTANTS
  Requests = {r1, r2, r3}
  Tasks = {t1}
  Viewers = {ann}
  Columns = {"TODO", "DONE"}
SYMMETRY Symmetry
CHECK_DEADLOCK FALSE
INVARIANTS
  BoardTypeOK
  BoardsConverge
