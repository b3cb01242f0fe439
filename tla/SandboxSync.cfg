SPECIFICATION Spec
CONSTANTS
  Paths = {p1, p2}
  Contents = {x, y}
  Absent = Absent
  Ita = Ita
  NoRef = NoRef
  Backends = {"git", "jj"}
  MaxOperations = 2
  MaxEdits = 1
  CommandsIgnore = FALSE
INVARIANTS
  TypeOK
  CommandSeesWorkingCopy
  PullMirrors
  SectionsEnd
  NoIntentLeft
PROPERTIES
  ConflictsAreKept
  OverwritesOnlyWhatWasSeen
CHECK_DEADLOCK FALSE
