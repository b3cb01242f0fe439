SPECIFICATION Spec
CONSTANTS
  Procs = {p1, p2}
  Tunnels <- MCTunnelSet
  RunOf <- MCRunOf
  Ports = {port1, port2}
  None = None
  MaxCommands = 3
  MaxMasters = 2
  MaxFaults = 1
  MaxForeign = 1
INVARIANTS EveryTunnelIsTracked StoppedMeansClosed
PROPERTIES ReopenKeepsPort OtherTunnelsAreLeftAlone
SYMMETRY MCSymmetry
CHECK_DEADLOCK FALSE
