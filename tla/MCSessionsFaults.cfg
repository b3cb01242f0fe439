CONSTANTS
  p1 = p1
  p2 = p2
  r1 = r1
  r2 = r2
  d1 = d1
  d2 = d2
  main = main
  cfg = cfg
  None = None
  NotLoaded = NotLoaded
  LoadFailed = LoadFailed
  Procs = {p1}
  Runs = {r1, r2}
  Branches = {d1, d2}
  Detached = {d1, d2}
  Ancestor <- OneAncestor
  Configs = {cfg}
  DefaultConfig = cfg
  Commands = {"start", "attach", "exec", "execReset", "execId", "push", "pushId", "stop", "stopId", "stopAll", "reset", "list"}
  Faults = {"lock", "load", "save", "api", "timeout"}

SPECIFICATION Spec

INVARIANTS
  TokenScope
  StorageLockIsShort

SYMMETRY Symmetric
