----------------------------- MODULE MCTunnels -----------------------------
(* Background processes of two sandboxes on one machine. *)
EXTENDS Tunnels, TLC

MCTunnelSet == {"web", "other"}
MCRunOf == [t \in MCTunnelSet |-> IF t = "other" THEN "r2" ELSE "r1"]
MCSymmetry == Permutations(Procs) \cup Permutations(Ports)
=============================================================================
