---------------------------- MODULE SandboxSync -----------------------------
(***************************************************************************)
(* How an operation on a sandbox synchronises two working copies           *)
(* (internal/cli/service_sandbox.go, internal/git, internal/jj): the push  *)
(* of HEAD and of the dirty changes, the baseline refs/rwx-sync, the       *)
(* command, and the pull of what the command changed.  A tree gives every  *)
(* path its content; a patch gives every path it changes the content       *)
(* before and after.  The user edits, stages and commits meanwhile.        *)
(***************************************************************************)
EXTENDS Integers, FiniteSets

CONSTANTS
  Paths, Contents,
  Absent,            \* no file, or no entry in the index
  Ita,               \* an index entry of git add -N
  NoRef,             \* refs/rwx-sync does not exist
  Backends,          \* "git", "jj"
  MaxOperations,     \* operations one behaviour has
  MaxEdits,          \* steps of the user beside them
  CommandsIgnore     \* commands may make git ignore a path

ASSUME DistinctAssumption ==
  /\ Contents # {} /\ Absent \notin Contents /\ Ita \notin Contents /\ Absent # Ita
  /\ Backends \subseteq {"git", "jj"}
  /\ MaxOperations \in Nat /\ MaxEdits \in Nat /\ CommandsIgnore \in BOOLEAN
  /\ (CommandsIgnore => MaxOperations = 1)   \* .gitignore travels with the next push

VARIABLES
  backend,
  local,     \* the user's repository
  remote,    \* the sandbox's
  op,        \* the operation in progress
  open,      \* between the sandbox's sync markers: output is not logged
  ghost,     \* what the properties remember
  count      \* operations begun and steps of the user

vars == <<backend, local, remote, op, open, ghost, count>>

Trees == [Paths -> Contents \cup {Absent}]
Indexes == [Paths -> Contents \cup {Absent, Ita}]
Patches == UNION {[D -> [old : Contents \cup {Absent}, new : Contents \cup {Absent}]] : D \in SUBSET Paths}

Diff(a, b) == [p \in {q \in Paths : a[q] # b[q]} |-> [old |-> a[p], new |-> b[p]]]
Fits(patch, tree) == \A p \in DOMAIN patch : tree[p] = patch[p].old
Patched(patch, tree) == [p \in Paths |-> IF p \in DOMAIN patch THEN patch[p].new ELSE tree[p]]
NoPatch == Diff([p \in Paths |-> Absent], [p \in Paths |-> Absent])

(* git ls-files --others --exclude-standard *)
Others(index, work, ignored) == {p \in Paths \ ignored : index[p] = Absent /\ work[p] # Absent}
(* Faulty: the entries of add -N are committed. *)
CachedWithIntent(index) == index
(* An entry of add -N is in no tree, but makes its file visible to git diff. *)
Cached(index) == [p \in Paths |-> IF index[p] = Ita THEN Absent ELSE index[p]]
Visible(index, work) == [p \in Paths |-> IF index[p] = Absent THEN Absent ELSE work[p]]
IntendToAdd(index, added) == [p \in Paths |-> IF p \in added THEN Ita ELSE index[p]]

Idle(result) ==
  [pc |-> "idle", result |-> result, new |-> FALSE, head |-> [p \in Paths |-> Absent],
   added |-> {}, files |-> {}, newFiles |-> {}, staged |-> NoPatch, unstaged |-> NoPatch,
   patch |-> NoPatch, kept |-> FALSE]
Forgotten == [start |-> [p \in Paths |-> Absent], moved |-> FALSE, touched |-> {}, index |-> local.index]

Pushing == {"commit", "checkout", "lfs", "clean", "name", "diff", "remove", "staged", "unstaged",
            "snapshot"}
Labels == Pushing \cup {"idle", "head", "command", "list", "pull", "land", "reject"}

TypeOK ==
  /\ backend \in Backends
  /\ local \in [head : Trees, index : Indexes, work : Trees, rej : SUBSET Paths, saved : SUBSET Paths]
  /\ remote \in [up : BOOLEAN, index : Trees, head : Trees, work : Trees,
                 ref : Trees \cup {NoRef}, ignored : SUBSET Paths]
  /\ op \in [pc : Labels, result : {"", "ok", "failed", "conflict", "killed"}, new : BOOLEAN, head : Trees,
             added : SUBSET Paths, files : SUBSET Paths, newFiles : SUBSET Paths,
             staged : Patches, unstaged : Patches, patch : Patches, kept : BOOLEAN]
  /\ open \in BOOLEAN
  /\ ghost \in [start : Trees, moved : BOOLEAN, touched : SUBSET Paths, index : Indexes]
  /\ count \in [operations : 0 .. MaxOperations, edits : 0 .. MaxEdits]

(* A repository with one tracked path and any work in progress. *)
Init ==
  LET tracked == CHOOSE p \in Paths : TRUE
      content == CHOOSE c \in Contents : TRUE
      head == [p \in Paths |-> IF p = tracked THEN content ELSE Absent]
  IN  /\ backend \in Backends
      /\ \E work \in Trees : \E index \in {head, work, [p \in Paths |-> Absent]} :
            local = [head |-> head, index |-> index, work |-> work, rej |-> {}, saved |-> {}]
      /\ remote = [up |-> FALSE, index |-> head, head |-> head, work |-> head, ref |-> NoRef, ignored |-> {}]
      /\ op = Idle("")
      /\ open = FALSE
      /\ ghost = [start |-> head, moved |-> FALSE, touched |-> {}, index |-> local.index]
      /\ count = [operations |-> 0, edits |-> 0]

-----------------------------------------------------------------------------
(* The user, beside or between operations. *)

UserStep(l, p) ==
  /\ count.edits < MaxEdits
  /\ local' = l
  /\ ghost' = [ghost EXCEPT !.moved = @ \/ op.pc \in Pushing, !.touched = @ \cup p]
  /\ count' = [count EXCEPT !.edits = @ + 1]
  /\ UNCHANGED <<backend, remote, op, open>>

Edit == \E p \in Paths, c \in Contents \cup {Absent} :
  c # local.work[p] /\ UserStep([local EXCEPT !.work[p] = c], {p})

Stage == \E p \in Paths :
  backend = "git" /\ local.index[p] # local.work[p] /\ UserStep([local EXCEPT !.index[p] = local.work[p]], {})

(* git rm --cached *)
Untrack == \E p \in Paths :
  backend = "git" /\ local.index[p] # Absent /\ UserStep([local EXCEPT !.index[p] = Absent], {})

Commit ==
  backend = "git" /\ local.head # Cached(local.index) /\ UserStep([local EXCEPT !.head = Cached(local.index)], {})

-----------------------------------------------------------------------------
(* One operation.  Where the code returns early it ends the sync section. *)

Continue(l) ==
  op' = [op EXCEPT !.pc = l] /\ UNCHANGED <<backend, local, remote, open, ghost, count>>

Stops(result) ==
  /\ op' = Idle(result)
  /\ open' = FALSE
  /\ UNCHANGED <<backend, local, remote, ghost, count>>

(***************************************************************************)
(* A new sandbox: its clone at the base commit of the run, with the patch  *)
(* sent with the run or what its setup tasks did.  isNewSandbox is set     *)
(* only when the operation itself starts the sandbox.                      *)
(***************************************************************************)
Create ==
  /\ op.pc = "idle" /\ ~remote.up
  /\ \E p \in Paths, c \in Contents \cup {Absent} :
        remote' = [remote EXCEPT !.up = TRUE, !.work = [remote.head EXCEPT ![p] = c]]
  /\ UNCHANGED <<backend, local, op, open, ghost, count>>

Begin ==
  /\ op.pc = "idle" /\ remote.up /\ count.operations < MaxOperations
  /\ \E new \in BOOLEAN :
        /\ new => count.operations = 0
        /\ op' = [Idle("") EXCEPT !.pc = "head", !.new = new]
  /\ ghost' = Forgotten
  /\ count' = [count EXCEPT !.operations = @ + 1]
  /\ UNCHANGED <<backend, local, remote, open>>

(* Under jj the working copy is the commit. *)
GetHeadCommit == IF backend = "jj" THEN local.work ELSE local.head

ResolveHead ==
  /\ op.pc = "head"
  /\ op' = [op EXCEPT !.pc = "commit", !.head = GetHeadCommit]
  /\ UNCHANGED <<backend, local, remote, open, ghost, count>>

(* The sandbox has the commit, fetches it from origin or gets it by a push. *)
EnsureCommit == op.pc = "commit" /\ (Continue("checkout") \/ Stops("failed"))

(* git checkout -f: tracked paths get the head's content, the rest stay. *)
CheckedOut(r, head) ==
  [r EXCEPT !.head = head, !.index = head,
            !.work = [p \in Paths |-> IF head[p] # Absent \/ r.index[p] # Absent
                                      THEN head[p] ELSE r.work[p]]]

Checkout ==
  /\ op.pc = "checkout"
  /\ \/ /\ remote' = CheckedOut(remote, op.head)
        /\ open' = TRUE
        /\ op' = [op EXCEPT !.pc = "lfs"]
        /\ UNCHANGED <<backend, local, ghost, count>>
     \/ Stops("failed")

VerifyLFS == op.pc = "lfs" /\ (Continue("clean") \/ Stops("failed"))

(* git clean -fd *)
Cleaned(r) ==
  [r EXCEPT !.work = [p \in Paths |-> IF r.index[p] = Absent THEN Absent ELSE r.work[p]]]

(* Faulty: every operation keeps what an earlier one left. *)
KeepsAll == TRUE
KeepsUntracked == op.new

Clean ==
  /\ op.pc = "clean"
  /\ \/ /\ remote' = IF KeepsUntracked THEN remote ELSE Cleaned(remote)
        /\ open' = FALSE
        /\ op' = [op EXCEPT !.pc = IF backend = "jj" THEN "remove" ELSE "name"]
        /\ UNCHANGED <<backend, local, ghost, count>>
     \/ ~KeepsUntracked /\ Stops("failed")

-----------------------------------------------------------------------------
(***************************************************************************)
(* GenerateDirtyPatches: untracked files are added with git add -N, the    *)
(* changes listed and diffed, and the index reset at those paths.  A       *)
(* locked index makes the addition fail, and the push goes on without the  *)
(* untracked files.                                                        *)
(***************************************************************************)
StagedOf(l) == Diff(l.head, Cached(l.index))
UnstagedOf(l) == Diff(Cached(l.index), Visible(l.index, l.work))
Creates(patch) == {p \in DOMAIN patch : patch[p].old = Absent}

NameFiles ==
  /\ op.pc = "name"
  /\ \E added \in {Others(local.index, local.work, {}), {}} :
       LET l == [local EXCEPT !.index = IntendToAdd(@, added)]
           staged == StagedOf(l)
           unstaged == UnstagedOf(l)
       IN  /\ local' = l
           /\ op' = [op EXCEPT !.pc = "diff", !.added = added,
                       !.files = DOMAIN staged \cup DOMAIN unstaged,
                       !.newFiles = Creates(staged) \cup Creates(unstaged)]
           /\ ghost' = [ghost EXCEPT !.moved = @ \/ added # Others(local.index, local.work, {})]
  /\ UNCHANGED <<backend, remote, open, count>>

(* git reset HEAD -- <added>, deferred: also when a diff fails. *)
Restored == [p \in Paths |-> IF p \in op.added THEN local.head[p] ELSE local.index[p]]

(* Faulty: the entries of add -N stay. *)
DiffFilesOnly ==
  /\ op.pc = "diff"
  /\ op' = [op EXCEPT !.pc = "remove", !.staged = StagedOf(local), !.unstaged = UnstagedOf(local)]
  /\ UNCHANGED <<backend, local, remote, open, ghost, count>>

(* The second alternative: a diff fails, or a changed file is in LFS. *)
DiffFiles ==
  /\ op.pc = "diff"
  /\ local' = [local EXCEPT !.index = Restored]
  /\ \/ op' = [op EXCEPT !.pc = "remove", !.staged = StagedOf(local), !.unstaged = UnstagedOf(local)]
     \/ op' = Idle("failed")
  /\ UNCHANGED <<backend, remote, open, ghost, count>>

(* newFilePathsForDirtyPatches *)
NewPaths == IF op.newFiles # {} THEN op.newFiles ELSE Creates(op.staged) \cup Creates(op.unstaged)

(* git clean -fdx on the paths the patches create. *)
RemovePreApplied ==
  /\ op.pc = "remove"
  /\ \/ /\ remote' = [remote EXCEPT !.work =
             [p \in Paths |-> IF p \in NewPaths /\ remote.index[p] = Absent THEN Absent ELSE @[p]]]
        /\ op' = [op EXCEPT !.pc = "staged"]
        /\ UNCHANGED <<backend, local, open, ghost, count>>
     \/ Stops("failed")

(* git apply --index *)
ApplyStaged ==
  /\ op.pc = "staged"
  /\ \/ /\ Fits(op.staged, remote.index) /\ Fits(op.staged, remote.work)
        /\ remote' = [remote EXCEPT !.index = Patched(op.staged, @), !.work = Patched(op.staged, @)]
        /\ op' = [op EXCEPT !.pc = "unstaged"]
        /\ UNCHANGED <<backend, local, open, ghost, count>>
     \/ Stops("failed")

ApplyUnstaged ==
  /\ op.pc = "unstaged"
  /\ \/ /\ Fits(op.unstaged, remote.work)
        /\ remote' = [remote EXCEPT !.work = Patched(op.unstaged, @)]
        /\ op' = [op EXCEPT !.pc = "snapshot"]
        /\ UNCHANGED <<backend, local, open, ghost, count>>
     \/ Stops("failed")

(* Faulty: the dirty changes are not in the baseline. *)
BaselineOfHead == remote.head
(* What add -A, or update-index on the local dirty paths, leaves to commit. *)
Baseline ==
  IF op.new THEN [p \in Paths |-> IF p \in op.files THEN remote.work[p] ELSE remote.index[p]]
  ELSE remote.work

(* The old baseline is deleted first; the index is put back afterwards. *)
Snapshot ==
  /\ op.pc = "snapshot"
  /\ \/ /\ remote' = [remote EXCEPT !.ref = Baseline]
        /\ op' = [op EXCEPT !.pc = "command"]
        /\ ghost' = [ghost EXCEPT !.start = remote.work, !.touched = {}]
     \/ /\ remote' = [remote EXCEPT !.ref = NoRef]
        /\ op' = Idle("failed")
        /\ UNCHANGED ghost
  /\ UNCHANGED <<backend, local, open, count>>

-----------------------------------------------------------------------------
(* The command changes files; rwx sandbox push has none and ends here. *)
Command ==
  /\ op.pc = "command"
  /\ \/ /\ \E work \in Trees, ignored \in IF CommandsIgnore THEN SUBSET Paths ELSE {{}} :
             remote' = [remote EXCEPT !.work = work, !.ignored = ignored]
        /\ op' = [op EXCEPT !.pc = "list"]
        /\ open' = TRUE
        /\ UNCHANGED <<backend, local, ghost, count>>
     \/ Stops("failed")
     \/ Stops("")

(* Faulty: an early return without the end marker. *)
ListUntrackedUnmarked ==
  /\ op.pc = "list"
  /\ \/ /\ op' = [op EXCEPT !.pc = "pull", !.added = Others(remote.index, remote.work, remote.ignored)]
        /\ UNCHANGED <<backend, local, remote, open, ghost, count>>
     \/ op' = Idle("failed") /\ UNCHANGED <<backend, local, remote, open, ghost, count>>

(* git ls-files --others and git add -N in the sandbox. *)
ListUntracked ==
  /\ op.pc = "list"
  /\ \/ /\ op' = [op EXCEPT !.pc = "pull", !.added = Others(remote.index, remote.work, remote.ignored)]
        /\ UNCHANGED <<backend, local, remote, open, ghost, count>>
     \/ Stops("failed")

(***************************************************************************)
(* git diff refs/rwx-sync: a path that is not in the index counts as       *)
(* deleted.  The reset of the sandbox's index follows; the next operation  *)
(* resets it in any case.                                                  *)
(***************************************************************************)
PullDiff ==
  LET seen == Visible(IntendToAdd(remote.index, op.added), remote.work)
      patch == Diff(remote.ref, seen)
  IN  /\ op.pc = "pull"
      /\ \/ /\ patch # NoPatch
            /\ op' = [op EXCEPT !.pc = "land", !.patch = patch]
            /\ open' = FALSE
            /\ UNCHANGED <<backend, local, remote, ghost, count>>
         \/ patch = NoPatch /\ Stops("ok")
         \/ Stops("failed")

(***************************************************************************)
(* saveRejectedPatch: the file it leaves and whether it answers the file's *)
(* path.  Without a .rwx directory nothing is touched; a write that fails  *)
(* has truncated the patch of an earlier conflict and leaves a part.       *)
(***************************************************************************)
Unsaved == {[kept |-> FALSE, saved |-> s] : s \in {local.saved} \cup SUBSET DOMAIN op.patch}
(* Faulty: the path is answered whether or not the file was written. *)
AnswersPath == {[o EXCEPT !.kept = TRUE] : o \in Unsaved}
SaveRejectedPatch == Unsaved \cup {[kept |-> TRUE, saved |-> DOMAIN op.patch]}

(* git apply is all or nothing; a failure saves the patch and tries --reject. *)
Land ==
  /\ op.pc = "land"
  /\ \/ /\ Fits(op.patch, local.work)
        /\ local' = [local EXCEPT !.work = Patched(op.patch, @)]
        /\ op' = Idle("ok")
     \/ /\ ~Fits(op.patch, local.work)
        /\ \E o \in SaveRejectedPatch :
             /\ local' = [local EXCEPT !.saved = o.saved]
             /\ op' = [op EXCEPT !.pc = "reject", !.kept = o.kept]
  /\ UNCHANGED <<backend, remote, open, ghost, count>>

(* Faulty: what does not fit is overwritten. *)
AnyFits == DOMAIN op.patch
Fitting == {p \in DOMAIN op.patch : local.work[p] = op.patch[p].old}

(* .rej files are written for changes to files that exist on both sides. *)
Reject ==
  LET unfit == DOMAIN op.patch \ Fitting
      rej == {p \in unfit : Absent \notin {op.patch[p].old, op.patch[p].new, local.work[p]}}
  IN  /\ op.pc = "reject"
      /\ local' = [local EXCEPT !.work = [p \in Paths |-> IF p \in Fitting THEN op.patch[p].new ELSE @[p]],
                                !.rej = @ \cup rej,
                                !.saved = IF unfit = {} /\ op.kept THEN {} ELSE @]
      /\ op' = IF unfit = {} THEN Idle("ok") ELSE [Idle("conflict") EXCEPT !.kept = op.kept]
      /\ UNCHANGED <<backend, remote, open, ghost, count>>

(* The process is killed; its connection closes. *)
Crash == op.pc # "idle" /\ Stops("killed")

User == Edit \/ Stage \/ Untrack \/ Commit
Push == ResolveHead \/ EnsureCommit \/ Checkout \/ VerifyLFS \/ Clean \/ NameFiles \/ DiffFiles
        \/ RemovePreApplied \/ ApplyStaged \/ ApplyUnstaged \/ Snapshot
Pull == ListUntracked \/ PullDiff \/ Land \/ Reject
Next == User \/ Create \/ Begin \/ Push \/ Command \/ Pull \/ Crash

Spec == Init /\ [][Next]_vars

-----------------------------------------------------------------------------
(***************************************************************************)
(* A command starts from what the user has: when nothing moved during the  *)
(* push, every file of the working copy is in the sandbox as it is, staged *)
(* or not, and nothing an earlier operation left is there.  A sandbox the  *)
(* operation has just started may have files of its setup beside.          *)
(***************************************************************************)
CommandSeesWorkingCopy ==
  op.pc = "command" /\ ~ghost.moved =>
    \A p \in Paths \ ghost.touched :
      \/ remote.work[p] = local.work[p]
      \/ op.new /\ local.work[p] = Absent /\ remote.index[p] = Absent

(***************************************************************************)
(* A pull that reports success leaves in the working copy what is in the   *)
(* sandbox, except where the user has edited since the command started.    *)
(***************************************************************************)
PullMirrors ==
  op.result = "ok" /\ ~ghost.moved => \A p \in Paths \ ghost.touched : local.work[p] = remote.work[p]

(***************************************************************************)
(* A pull overwrites or deletes only contents the command started from:    *)
(* what the user did since is left alone, also where it undoes a change.   *)
(***************************************************************************)
OverwritesOnlyWhatWasSeen ==
  [][(op.pc \in {"land", "reject"} /\ ~ghost.moved /\ count' = count) =>
       \A p \in Paths : local'.work[p] # local.work[p] /\ local.work[p] # Absent
                          => local.work[p] = ghost.start[p]]_vars

(***************************************************************************)
(* A pull that does not fit is honest about what it has kept.  When its    *)
(* error names a saved patch, every change of the sandbox has landed or is *)
(* in a .rej file or in that patch.  When it names none (no .rwx           *)
(* directory, a failed write) only what one side has no file for can be    *)
(* missing here: the sandbox alone still has it, until its next push.      *)
(* (That the command deleted a file only the sandbox had is nothing to     *)
(* land.)                                                                  *)
(***************************************************************************)
ConflictsAreKept ==
  [][(op.pc = "reject" /\ op'.result = "conflict" /\ ~ghost.moved) =>
       \A p \in Paths :
         remote.work[p] # ghost.start[p] /\ {remote.work[p], remote.ref[p]} # {Absent} =>
           \/ local'.work[p] = remote.work[p] \/ p \in local'.rej
           \/ op'.kept /\ p \in local'.saved
           \/ ~op'.kept /\ Absent \in {remote.work[p], remote.ref[p], local.work[p]}]_vars

(***************************************************************************)
(* The sandbox logs the command's output and that of the next operation:   *)
(* every way out of a push or a pull ends the section it has begun.        *)
(***************************************************************************)
SectionsEnd == op.pc \in {"idle", "head", "commit", "name", "diff", "command"} => ~open

(***************************************************************************)
(* The index is the user's: an operation that ends leaves it as it was,    *)
(* also when it fails ("a cleanup function to undo the add", git/client).  *)
(***************************************************************************)
IndexIsRestored ==
  op.pc = "idle" /\ op.result # "killed" /\ count.edits = 0 => local.index = ghost.index

(***************************************************************************)
(* The weaker promise that holds: no entry of add -N stays in the index of *)
(* the user, whether the operation succeeds, fails or finds LFS files.     *)
(***************************************************************************)
NoIntentLeft ==
  op.pc = "idle" /\ op.result # "killed" /\ (\A p \in Paths : ghost.index[p] # Ita)
    => \A p \in Paths : local.index[p] # Ita

(***************************************************************************)
(* A file a pull deletes is one the command has deleted: the untracked     *)
(* files of the sandbox are in the diff ("Include untracked files in the   *)
(* diff by adding them with intent-to-add", service_sandbox.go).           *)
(***************************************************************************)
DeletesOnlyWhatIsGone ==
  [][op.pc \in {"land", "reject"} =>
       \A p \in Paths : local.work[p] # Absent /\ local'.work[p] = Absent
                          => remote.work[p] = Absent \/ count' # count]_vars
=============================================================================
