SPECIFICATION Spec
CONSTANTS
  Paths = {p1, p2}
  Contents = {x, y}
  Absent = Absent
  Ita = Ita
  NoRef = NoRef
  Backends = {"git", "jj"}
  MaxOperations = 1
  MaxEdits = 0
  CommandsIgnore = FALSE
INVARIANT IndexIsRestored
CHECK_DEADLOCK FALSE
