SPECIFICATION Spec
CONSTANTS
  Savers = {s1, s2}
  Readers = {reader1}
  Values = {v1, v2}
  Nothing = Nothing
  Partial = Partial
  MaxFiles = 3
  MaxCrashes = 1
  Users = {u1, u2}
  Tokens = {t1, t2}
  NoToken = NoToken
  Absent = Absent
  MaxLogins = 2
  Linters = {l1, l2}
  Others = {o1}
  Parts = {a, b}
  Runs = {r1, r2}
  Commits = {c1}
  MaxSignals = 1
  MaxKills = 1
INVARIANTS TempsAreRemoved LastLoginIsRead DocsTokenFitsLogin ServedBundleIsWhole PatchIsRemoved UploadIsAsSaid
PROPERTY SavesAreAtomic
SYMMETRY Symmetry
CHECK_DEADLOCK FALSE
