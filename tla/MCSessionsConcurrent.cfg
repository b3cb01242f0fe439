CONSTANTS
  p1 = p1
  p2 = p2
  r1 = r1
  r2 = r2
  d1 = d1
  d2 = d2
  main = main
  cfg = cfg
  None = None
  NotLoaded = NotLoaded
  LoadFailed = LoadFailed
  Procs = {p1, p2}
  Runs = {r1, r2}
  Branches = {main}
  Detached = {}
  Ancestor <- NoAncestor
  Configs = {cfg}
  DefaultConfig = cfg
  Commands = {"start", "attach", "exec", "execReset", "push", "stop", "reset", "list"}
  Faults = {"crash", "expire"}

SPECIFICATION Spec

INVARIANTS
  TypeOK
  TokenScope
  StorageLockIsShort
  CheckThenCreateAtomic
PROPERTIES
  LiveRunStaysRecorded
  SessionProgressKept

SYMMETRY Symmetric
