---------------------------- MODULE BaseCommit ----------------------------
(***************************************************************************)
(* The commit a run or a sandbox starts from, and the base of the patch    *)
(* sent with it: GetCommit of internal/git/client.go and of                *)
(* internal/jj/client.go (vcs.New chooses between them).  The base must be *)
(* one the service can fetch.  InitiateRun asks for the commit, may write  *)
(* to its definition, and asks again when it makes the patch; the          *)
(* repository may move in between, and jj replaces @ when it finds files   *)
(* changed.                                                                *)
(***************************************************************************)
EXTENDS Naturals, Sequences, FiniteSets

CONSTANTS MaxCommits, MaxTips   \* bounds: commits, branches of the remote

VARIABLES
  parents,   \* of every commit; commits are numbered in the order they are made
  head,      \* HEAD, or jj's @
  tips,      \* branches of the configured remote, as fetched
  setting,   \* backend, remote configured, on a branch, order in which git lists boundaries
  dirty,     \* jj: files changed since @ was written
  phase,     \* of InitiateRun: "idle", "told", "patched"
  sha,       \* commit the run is to check out; 0: none
  base,      \* commit the patch applies to; 0: no patch
  start,     \* HEAD when sha was asked for, and whether it shared history with the remote
  then,      \* the same when the patch was made
  moved,     \* since: HEAD or the remote changed otherwise than by new commits on top
  dropped    \* since: a branch of the remote was deleted or pushed by force

baseVars == <<parents, head, tips, setting, dirty, phase, sha, base, start, then, moved, dropped>>
request == <<phase, sha, base, start, then>>

Commits == DOMAIN parents
Unasked == [head |-> 0, shared |-> FALSE]

BaseCommitInit ==
  /\ parents = <<{}, {1}>> /\ head = 2 /\ tips \in {{}, {1}, {2}}
  /\ setting \in [backend : {"git", "jj"}, remote : BOOLEAN, branch : BOOLEAN, newestFirst : BOOLEAN]
  /\ ~setting.remote => tips = {}
  /\ setting.backend = "jj" \/ ~setting.remote => setting.newestFirst   \* of no matter
  /\ dirty = FALSE /\ phase = "idle" /\ sha = 0 /\ base = 0
  /\ start = Unasked /\ then = Unasked /\ moved = FALSE /\ dropped = FALSE

-----------------------------------------------------------------------------
(* GetCommit *)

Ancestors(cs) ==
  LET of[c \in Commits] == {c} \cup UNION {of[p] : p \in parents[c]}
  IN  UNION {of[c] : c \in cs}
Shared == Ancestors({head}) \cap Ancestors(tips)
Newest(cs) == CHOOSE c \in cs : \A d \in cs : d <= c
Oldest(cs) == CHOOSE c \in cs : \A d \in cs : c <= d

(* git rev-list HEAD --not --remotes --boundary: parents of commits that are on no
   remote branch; the first is taken, and git does not promise which it is. *)
Unpushed == Ancestors({head}) \ Ancestors(tips)
Boundary == (UNION {parents[c] : c \in Unpushed}) \ Unpushed

(* jj: the heads of what @ and the remote's bookmarks have in common. *)
SharedHeads == {c \in Shared : \A d \in Shared \ {c} : c \notin Ancestors({d})}

(* Without a remote, or with nothing in common with it: an error on a branch (0), else
   HEAD itself. *)
NoBase == IF setting.branch THEN 0 ELSE head
(* Faulty: without looking at the remote. *)
HeadCommit == head
GetCommit ==
  IF ~setting.remote THEN NoBase
  ELSE IF setting.backend = "jj" THEN IF SharedHeads = {} THEN NoBase ELSE Newest(SharedHeads)
  ELSE IF Unpushed = {} THEN head
  ELSE IF Boundary = {} THEN NoBase
  ELSE IF setting.newestFirst THEN Newest(Boundary) ELSE Oldest(Boundary)

-----------------------------------------------------------------------------
NewCommit(ps) == Len(parents) < MaxCommits /\ parents' = Append(parents, ps)
Made == Len(parents) + 1

(* jj's GetHeadCommit: files that changed since go into a new @ in place of the old one. *)
Snapshot ==
  \/ dirty /\ NewCommit(parents[head]) /\ head' = Made /\ dirty' = FALSE
  \/ ~dirty /\ UNCHANGED <<parents, head, dirty>>

(* Only jj's fallbacks answer with @ as it is now; the rest reads it as it was written. *)
AnswersAt == setting.backend = "jj" /\ Shared = {} /\ ~setting.branch

(* InitiateRun, as far as the base goes.  A first error leaves the run without a commit
   and a patch, but it is sent. *)
AskCommit ==
  /\ phase = "idle" /\ phase' = "told"
  /\ IF AnswersAt THEN Snapshot ELSE UNCHANGED <<parents, head, dirty>>
  /\ sha' = IF AnswersAt THEN head' ELSE GetCommit
  /\ start' = [head |-> head', shared |-> Shared # {}]
  /\ UNCHANGED <<tips, setting, base, then, moved, dropped>>

(* Files change: the user edits, or the run writes the init parameters of the trigger into
   its own definition between the two questions. *)
Edit ==
  /\ setting.backend = "jj" /\ dirty' = TRUE
  /\ UNCHANGED <<parents, head, tips, setting, request, moved, dropped>>
RewriteDefinition == phase = "told" /\ Edit

(* The base is read first; jj then takes its snapshot, against which it is compared.  A
   second error, or nothing to answer, leaves the run without a patch. *)
GeneratePatch ==
  /\ phase = "told" /\ sha # 0 /\ phase' = "patched"
  /\ IF setting.backend = "jj" /\ GetCommit # 0 THEN Snapshot ELSE UNCHANGED <<parents, head, dirty>>
  /\ base' = IF AnswersAt THEN head' ELSE GetCommit
  /\ then' = [head |-> IF AnswersAt THEN head' ELSE head, shared |-> Shared # {}]
  /\ UNCHANGED <<tips, setting, sha, start, moved, dropped>>

(* The run is sent, with a patch or without, or it is not. *)
SendRun ==
  /\ phase # "idle"
  /\ phase' = "idle" /\ sha' = 0 /\ base' = 0 /\ start' = Unasked /\ then' = Unasked
  /\ moved' = FALSE /\ dropped' = FALSE
  /\ UNCHANGED <<parents, head, tips, setting, dirty>>

-----------------------------------------------------------------------------
(* The user and others.  A command of the user's jj takes a snapshot first. *)

Adds == UNCHANGED <<setting, request, moved, dropped>>
(* A bound: once while a run is prepared. *)
Moves == ~moved /\ moved' = (phase # "idle") /\ UNCHANGED <<setting, request, dropped>>

AnyCommand ==
  /\ dirty /\ Snapshot /\ UNCHANGED tips
  /\ IF head \in Ancestors(tips) THEN Moves ELSE Adds

Commit == ~dirty /\ NewCommit({head}) /\ head' = Made /\ Adds /\ UNCHANGED <<tips, dirty>>
Merge ==
  /\ ~dirty /\ \E c \in Commits \ {head} : NewCommit({head, c})
  /\ head' = Made /\ Moves /\ UNCHANGED <<tips, dirty>>
Orphan == ~dirty /\ NewCommit({}) /\ head' = Made /\ Moves /\ UNCHANGED <<tips, dirty>>
CheckOut == ~dirty /\ \E c \in Commits \ {head} : head' = c /\ Moves /\ UNCHANGED <<parents, tips, dirty>>

(* The user pushes HEAD as a new branch or forwards another to it. *)
PushHead ==
  /\ setting.remote /\ head \notin tips
  /\ \E old \in {{}} \cup {{t} : t \in tips \cap Ancestors({head})} : tips' = (tips \ old) \cup {head}
  /\ Cardinality(tips') <= MaxTips /\ Moves /\ UNCHANGED <<parents, head, dirty>>
(* Others push a commit on top of commits of the remote, and it is fetched. *)
FetchNew ==
  /\ setting.remote
  /\ \E ps \in SUBSET tips \ {{}}, old \in SUBSET tips :
       old \subseteq ps /\ NewCommit(ps) /\ tips' = (tips \ old) \cup {Made}
  /\ Cardinality(tips') <= MaxTips /\ Adds /\ UNCHANGED <<head, dirty>>
(* A branch of the remote is deleted and pruned, or forced elsewhere and fetched. *)
FetchForced ==
  /\ \E t \in tips : \E new \in {{}} \cup {{c} : c \in Commits \ {t}} : tips' = (tips \ {t}) \cup new
  /\ ~moved /\ moved' = (phase # "idle") /\ dropped' = (phase # "idle")
  /\ UNCHANGED <<parents, head, dirty, setting, request>>

BaseCommitNext ==
  \/ AskCommit \/ RewriteDefinition \/ GeneratePatch \/ SendRun
  \/ Edit \/ AnyCommand \/ Commit \/ Merge \/ Orphan \/ CheckOut \/ PushHead \/ FetchNew \/ FetchForced

BaseCommitSpec == BaseCommitInit /\ [][BaseCommitNext]_baseVars

-----------------------------------------------------------------------------
(***************************************************************************)
(* Each answer is in the history of the working copy it was given for,     *)
(* and where that has anything in common with the remote there is one, a   *)
(* commit the remote holds for as long as no branch is dropped.  Both are  *)
(* the same commit even when the user commits, files change or others'     *)
(* commits are fetched in between, and under jj the run's is a closest     *)
(* one.  Without common history the patch applies to HEAD at its own time, *)
(* which need not be the run's commit: the run's own write to its          *)
(* definition makes jj replace @.                                          *)
(***************************************************************************)
Suits(c, at) ==
  /\ c # 0 => c \in Ancestors({at.head})
  /\ at.shared => c # 0 /\ (~dropped => c \in Ancestors(tips))
BaseIsShared ==
  /\ phase # "idle" => Suits(sha, start)
  /\ phase = "patched" => Suits(base, then)
  /\ phase = "patched" /\ ~moved => base = IF start.shared THEN sha ELSE then.head
  /\ phase = "told" /\ ~moved /\ start.shared /\ setting.backend = "jj" => sha \in SharedHeads
=============================================================================
