CONSTANTS
  p1 = p1
  p2 = p2
  r1 = r1
  r2 = r2
  d1 = d1
  d2 = d2
  main = main
  cfg = cfg
  None = None
  NotLoaded = NotLoaded
  LoadFailed = LoadFailed
  Procs = {p1, p2}
  Runs = {r1}
  Branches = {main}
  Detached = {}
  Ancestor <- NoAncestor
  Configs = {cfg}
  DefaultConfig = cfg
  Commands = {"exec", "execReset", "push", "stop"}
  Faults = {"expire"}

SPECIFICATION FairSpec

PROPERTY CommandsFinish
