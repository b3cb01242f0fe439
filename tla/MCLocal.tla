------------------------------ MODULE MCLocal ------------------------------
(***************************************************************************)
(* The local files that several rwx processes share: the storage file of   *)
(* sandboxes, the tokens, the extracted language server and the patches of *)
(* runs.  The four have no state in common, so that a behaviour of one of  *)
(* them, chosen at the start, is all there is to check.                    *)
(***************************************************************************)
EXTENDS StorageFile, ConfigFiles, LspBundle, RunPatch, TLC

VARIABLE component

vars == <<sfVars, cfVars, lbVars, rpVars, component>>

Init ==
  /\ component \in {"storage", "tokens", "bundle", "patches"}
  /\ StorageFileInit /\ ConfigFilesInit /\ LspBundleInit /\ RunPatchInit
  /\ component # "tokens" => old = Absent

StorageSteps == component = "storage" /\ StorageFileNext /\ UNCHANGED <<cfVars, lbVars, rpVars, component>>
TokenSteps == component = "tokens" /\ ConfigFilesNext /\ UNCHANGED <<sfVars, lbVars, rpVars, component>>
BundleSteps == component = "bundle" /\ LspBundleNext /\ UNCHANGED <<sfVars, cfVars, rpVars, component>>
PatchSteps == component = "patches" /\ RunPatchNext /\ UNCHANGED <<sfVars, cfVars, lbVars, component>>

Next == StorageSteps \/ TokenSteps \/ BundleSteps \/ PatchSteps

Spec == Init /\ [][Next]_vars

Symmetry == Permutations(Runs) \cup Permutations(Users)
=============================================================================
