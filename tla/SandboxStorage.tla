--------------------------- MODULE SandboxStorage ---------------------------
(***************************************************************************)
(* The contents of .rwx/sandboxes/sandboxes.json and the operations of the *)
(* type SandboxStorage (internal/cli/sandbox_storage.go) on an in-memory   *)
(* copy of it.  The Go map from session key to session is a total function *)
(* here, with NoSession at the keys that are absent.  Operations whose     *)
(* result depends on Go's map iteration order return the SET of results.   *)
(***************************************************************************)

CONSTANTS
  Branches,       \* what GetCurrentBranch returns: branches, detached positions
  Detached,       \* the members of Branches of the form "detached@<sha>"
  Ancestor,       \* <<a, d>> when a's commit is an ancestor of d's, d checked out
  Configs,        \* absolute paths of sandbox definitions
  Runs,           \* run IDs
  None            \* no run, no token, nobody

ASSUME DetachedAssumption == Detached \subseteq Branches
ASSUME AncestorAssumption == Ancestor \subseteq Detached \X Detached
ASSUME NoneAssumption == None \notin Runs

(* SessionKey: one session per branch and definition. *)
Keys == Branches \X Configs
BranchOf(k) == k[1]
ConfigOf(k) == k[2]

(***************************************************************************)
(* A session.  tok is the run the stored scoped token gives access to, or  *)
(* None; used stands for ExecCount >= 1 and nag for ResetNagShown.  URL,   *)
(* hash and times of the Go struct never steer the storage operations.     *)
(***************************************************************************)
Session == [run : Runs \cup {None}, tok : Runs \cup {None}, used : BOOLEAN, nag : BOOLEAN]
NewSession(r, t) == [run |-> r, tok |-> t, used |-> FALSE, nag |-> FALSE]
NoSession == NewSession(None, None)

Storage == [Keys -> Session]
EmptyStorage == [k \in Keys |-> NoSession]

Has(m, k) == m[k].run # None
RunsIn(m) == {m[k].run : k \in Keys} \ {None}

SetSession(m, k, s) == [m EXCEPT ![k] = s]
(* Faulty: the entry is emptied instead of removed from the map. *)
EmptySessions(m, K) == [k \in Keys |-> IF k \in K THEN None ELSE m[k]]
DeleteSessions(m, K) == [k \in Keys |-> IF k \in K THEN NoSession ELSE m[k]]

(* FindByRunID, DeleteSessionByRunID: the keys either may stop at. *)
KeysOfRun(m, r) == {k \in Keys : Has(m, k) /\ m[k].run = r}

(* GetSessionsForBranch: <<key, session>> of every definition of a branch. *)
SessionsForBranch(m, b) ==
  {<<k, m[k]>> : k \in {j \in Keys : BranchOf(j) = b /\ Has(m, j)}}

(* Keys of sessions recorded at an earlier commit of the position b. *)
AncestorKeys(m, b) ==
  {k \in Keys : Has(m, k) /\ <<BranchOf(k), b>> \in Ancestor}

Rekeyed(m, a, k) == SetSession(DeleteSessions(m, {a}), k, m[a])

(***************************************************************************)
(* GetSession, then on a miss GetSessionByAncestry: the results, each the  *)
(* storage afterwards with the session found (NoSession when none is).     *)
(***************************************************************************)
Lookup(m, k) ==
  LET near == {a \in AncestorKeys(m, BranchOf(k)) : ConfigOf(a) = ConfigOf(k)}
  IN  IF Has(m, k) \/ near = {}
        THEN {<<m, m[k]>>}
        ELSE {<<Rekeyed(m, a, k), m[a]>> : a \in near}

(***************************************************************************)
(* GetSessionsForBranch, then on a miss GetSessionsForBranchByAncestry:    *)
(* every ancestor's session moves to the current position.  Two ancestors  *)
(* with one definition move to ONE key: both are returned, and the storage *)
(* keeps the one the iteration meets last.                                 *)
(***************************************************************************)
LookupBranch(m, b) ==
  LET near  == AncestorKeys(m, b)
      now(a) == <<b, ConfigOf(a)>>
      last  == {f \in [Configs -> near] :
                  \A c \in Configs : (\E a \in near : ConfigOf(a) = c) => ConfigOf(f[c]) = c}
      moved(f) == [k \in Keys |->
                     IF BranchOf(k) = b /\ (\E a \in near : ConfigOf(a) = ConfigOf(k))
                       THEN m[f[ConfigOf(k)]]
                     ELSE IF k \in near THEN NoSession ELSE m[k]]
  IN  IF SessionsForBranch(m, b) # {} \/ near = {}
        THEN {<<m, SessionsForBranch(m, b)>>}
        ELSE {<<moved(f), {<<now(a), m[a]>> : a \in near}>> : f \in last}

=============================================================================
