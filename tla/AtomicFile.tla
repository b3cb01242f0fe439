---------------------------- MODULE AtomicFile ----------------------------
(***************************************************************************)
(* What sandboxes.json promises its readers, who take no lock: a value is  *)
(* replaced as a whole, and a reader is given one that some save wrote.    *)
(* A power loss may bring back an earlier value, never a part of one.      *)
(***************************************************************************)
CONSTANTS Readers, Values, Nothing

VARIABLES value, written, seen

Init == value = Nothing /\ written = {Nothing} /\ seen = [r \in Readers |-> Nothing]

Write(v) == value' = v /\ written' = written \cup {v} /\ UNCHANGED seen
Read(r) == seen' = [seen EXCEPT ![r] = value] /\ UNCHANGED <<value, written>>
PowerLoss == value' \in written /\ seen' = [r \in Readers |-> Nothing] /\ UNCHANGED written

Next == (\E v \in Values : Write(v)) \/ (\E r \in Readers : Read(r)) \/ PowerLoss
Spec == Init /\ [][Next]_<<value, written, seen>>
=============================================================================
