------------------------- MODULE MCSandboxSessions --------------------------
(***************************************************************************)
(* Instances of SandboxSessions for TLC: two rwx processes at most, two    *)
(* runs, one branch or two detached positions of which d1 is an ancestor   *)
(* of d2, and one sandbox definition.                                      *)
(***************************************************************************)
EXTENDS SandboxSessions, TLC

CONSTANTS p1, p2, r1, r2, d1, d2, main, cfg

NoAncestor == {}
OneAncestor == {<<d1, d2>>}

Symmetric == Permutations(Runs) \cup Permutations(Procs)

=============================================================================
