------------------------- MODULE SandboxSyncProofs --------------------------
(***************************************************************************)
(* The synchronisation of a sandbox, for any paths and contents, any       *)
(* number of operations and any steps of the user between theirs.          *)
(***************************************************************************)
EXTENDS SandboxSync, TLAPS

(* Output is hidden while the sandbox is prepared or read out. *)
OpenOK == open => op.pc \in {"lfs", "clean", "list", "pull"}

(* Entries of add -N are among those the running operation takes back. *)
IntentOK ==
  (\A p \in Paths : ghost.index[p] # Ita) =>
    IF op.pc = "diff" THEN \A p \in Paths : local.index[p] = Ita => p \in op.added
    ELSE op.result # "killed" => \A p \in Paths : local.index[p] # Ita

(* What holds of every operation whatever the user does. *)
OperationOK ==
  /\ op.pc # "idle" => op.result = "" /\ remote.up
  /\ op.result = "ok" => remote.up
  /\ op.pc \in {"command", "list", "pull", "land", "reject"} => remote.ref \in Trees
  /\ ~CommandsIgnore => remote.ignored = {}
  /\ op.pc \in {"name", "diff"} => backend = "git"
  /\ op.pc \in {"head", "commit", "checkout", "lfs", "clean", "name"} =>
       op.staged = NoPatch /\ op.unstaged = NoPatch /\ op.files = {} /\ op.newFiles = {}

(* The sandbox's files after the checkout; an old sandbox has been cleaned. *)
AtHead ==
  /\ remote.index = op.head
  /\ \A p \in Paths : op.head[p] # Absent => remote.work[p] = op.head[p]
CleanedOK ==
  /\ op.pc \in {"lfs", "clean", "name", "diff", "remove"} => AtHead
  /\ op.pc \in {"name", "diff", "remove"} /\ ~op.new => remote.work = op.head

(* What was asked of the user's repository still holds of it while nothing moves. *)
HeadOK ==
  op.pc \in Pushing /\ ~ghost.moved => op.head = GetHeadCommit
DiffOK ==
  op.pc = "diff" /\ ~ghost.moved =>
    /\ \A p \in Paths : local.index[p] = Absent => local.work[p] = Absent
    /\ op.files = DOMAIN StagedOf(local) \cup DOMAIN UnstagedOf(local)

(* The patches lead from the head over a tree c to the working copy; with each one
   applied the sandbox's index and files come closer to it. *)
Leads(c) ==
  /\ op.staged = Diff(op.head, c) /\ op.unstaged = Diff(c, local.work)
  /\ op.files = DOMAIN op.staged \cup DOMAIN op.unstaged
Applied(c) ==
  CASE op.pc = "remove" -> TRUE
    [] op.pc = "staged" -> AtHead /\ (~op.new => remote.work = op.head)
    [] op.pc = "unstaged" ->
         /\ remote.index = c
         /\ \A p \in Paths :
              IF p \in DOMAIN op.staged THEN remote.work[p] = c[p]
              ELSE op.head[p] # Absent \/ ~op.new => remote.work[p] = op.head[p]
    [] op.pc = "snapshot" ->
         /\ remote.index = c
         /\ \A p \in Paths : \/ remote.work[p] = local.work[p]
                             \/ op.new /\ local.work[p] = Absent /\ c[p] = Absent /\ p \notin op.files
PatchesOK ==
  op.pc \in {"remove", "staged", "unstaged", "snapshot"} /\ ~ghost.moved =>
    \E c \in Trees : Leads(c) /\ Applied(c)

(* From the snapshot on: the baseline is what the user had, and where it has a file
   the command started from that. *)
StartedOK ==
  op.pc \in {"command", "list", "pull", "land", "reject"} /\ ~ghost.moved =>
    /\ \A p \in Paths \ ghost.touched : local.work[p] = remote.ref[p]
    /\ \A p \in Paths : remote.ref[p] # Absent => remote.ref[p] = ghost.start[p]
    /\ op.pc = "command" =>
         \A p \in Paths \ ghost.touched :
           \/ remote.work[p] = local.work[p]
           \/ op.new /\ local.work[p] = Absent /\ remote.index[p] = Absent

(* The pull's patch leads from the baseline to what git sees of the sandbox. *)
PulledOK ==
  /\ op.pc = "pull" => op.added = Others(remote.index, remote.work, remote.ignored)
  /\ op.pc \in {"land", "reject"} =>
       \E seen \in Trees : op.patch = Diff(remote.ref, seen) /\ (remote.ignored = {} => seen = remote.work)
  /\ op.pc = "reject" /\ op.kept => local.saved = DOMAIN op.patch

MirrorOK ==
  op.result = "ok" /\ ~ghost.moved /\ ~CommandsIgnore => \A p \in Paths \ ghost.touched : local.work[p] = remote.work[p]

IInv ==
  /\ TypeOK /\ OpenOK /\ IntentOK /\ OperationOK /\ CleanedOK /\ HeadOK /\ DiffOK /\ PatchesOK
  /\ StartedOK /\ PulledOK /\ MirrorOK

-----------------------------------------------------------------------------
(* Trees, indexes and patches. *)

LEMMA DiffFacts ==
  ASSUME NEW a \in Trees, NEW b \in Trees
  PROVE  /\ Diff(a, b) \in Patches
         /\ DOMAIN Diff(a, b) = {p \in Paths : a[p] # b[p]}
         /\ \A p \in DOMAIN Diff(a, b) : Diff(a, b)[p].old = a[p] /\ Diff(a, b)[p].new = b[p]
<1> DEFINE D == {p \in Paths : a[p] # b[p]}
<1>1. DOMAIN Diff(a, b) = D
  BY DEF Diff
<1>2. ASSUME NEW p \in D
      PROVE  /\ Diff(a, b)[p] = [old |-> a[p], new |-> b[p]]
             /\ Diff(a, b)[p] \in [old : Contents \cup {Absent}, new : Contents \cup {Absent}]
  BY DEF Diff, Trees
<1>3. Diff(a, b) = [p \in D |-> Diff(a, b)[p]]
  BY DEF Diff
<1>4. Diff(a, b) \in [D -> [old : Contents \cup {Absent}, new : Contents \cup {Absent}]] /\ D \in SUBSET Paths
  BY <1>2, <1>3
<1>5. Diff(a, b) \in Patches
  BY <1>4 DEF Patches
<1>. QED
  BY <1>1, <1>2, <1>5

(* A patch leads where it was made to lead. *)
LEMMA PatchedFacts ==
  ASSUME NEW a \in Trees, NEW b \in Trees, NEW t \in Trees
  PROVE  /\ Patched(Diff(a, b), t) \in Trees
         /\ \A p \in Paths : Patched(Diff(a, b), t)[p] = IF a[p] # b[p] THEN b[p] ELSE t[p]
         /\ Patched(Diff(a, b), a) = b
<1>1. \A p \in Paths : (p \in DOMAIN Diff(a, b) <=> a[p] # b[p]) /\ (a[p] # b[p] => Diff(a, b)[p].new = b[p])
  <2>1. PICK d : d = Diff(a, b)
    OBVIOUS
  <2>2. DOMAIN d = {p \in Paths : a[p] # b[p]} /\ \A p \in DOMAIN d : d[p].new = b[p]
    BY <2>1, DiffFacts, ZenonT(30)
  <2>3. \A p \in Paths : (p \in DOMAIN d <=> a[p] # b[p]) /\ (a[p] # b[p] => d[p].new = b[p])
    BY <2>2
  <2>. QED
    BY <2>1, <2>3
<1>2. ASSUME NEW p \in Paths PROVE Patched(Diff(a, b), t)[p] = IF a[p] # b[p] THEN b[p] ELSE t[p]
  BY <1>1 DEF Patched
<1>3. ASSUME NEW p \in Paths PROVE Patched(Diff(a, b), a)[p] = b[p]
  BY <1>1 DEF Patched
<1>4. Patched(Diff(a, b), t) \in Trees
  <2>1. Patched(Diff(a, b), t) = [p \in Paths |-> IF a[p] # b[p] THEN b[p] ELSE t[p]]
    BY <1>1 DEF Patched
  <2>. QED
    BY <2>1 DEF Trees
<1>5. Patched(Diff(a, b), a) = b
  <2>1. Patched(Diff(a, b), a) = [p \in Paths |-> b[p]]
    BY <1>1 DEF Patched
  <2>. QED
    BY <2>1 DEF Trees
<1>. QED
  BY <1>2, <1>4, <1>5

LEMMA NoPatchFacts ==
  /\ NoPatch \in Patches /\ DOMAIN NoPatch = {} /\ Creates(NoPatch) = {}
  /\ \A a \in Trees : Diff(a, a) = NoPatch
<1>1. [p \in Paths |-> Absent] \in Trees
  BY DEF Trees
<1>2. NoPatch \in Patches /\ DOMAIN NoPatch = {}
  BY <1>1, DiffFacts DEF NoPatch
<1>3. ASSUME NEW a \in Trees PROVE Diff(a, a) = NoPatch
  <2>1. Diff(a, a) = [p \in {} |-> [old |-> a[p], new |-> a[p]]]
    BY DEF Diff
  <2>2. NoPatch = [p \in {} |-> [old |-> [q \in Paths |-> Absent][p], new |-> [q \in Paths |-> Absent][p]]]
    BY DEF NoPatch, Diff
  <2>. QED
    BY <2>1, <2>2
<1>. QED
  BY <1>2, <1>3 DEF Creates

LEMMA IndexFacts ==
  ASSUME NEW i \in Indexes, NEW w \in Trees
  PROVE  /\ Cached(i) \in Trees /\ Visible(i, w) \in Trees
         /\ \A s \in SUBSET Paths : IntendToAdd(i, s) \in Indexes
         /\ (\A p \in Paths : i[p] = Absent => w[p] = Absent) => Visible(i, w) = w
<1>1. Cached(i) \in Trees
  BY DEF Cached, Indexes, Trees
<1>2. Visible(i, w) \in Trees
  BY DEF Visible, Trees
<1>3. ASSUME NEW s \in SUBSET Paths PROVE IntendToAdd(i, s) \in Indexes
  BY DEF IntendToAdd, Indexes
<1>4. ASSUME \A p \in Paths : i[p] = Absent => w[p] = Absent PROVE Visible(i, w) = w
  <2>1. Visible(i, w) = [p \in Paths |-> w[p]]
    BY <1>4 DEF Visible
  <2>. QED
    BY <2>1 DEF Trees
<1>. QED
  BY <1>1, <1>2, <1>3, <1>4

LEMMA TreesAreIndexes == Trees \subseteq Indexes
  BY DEF Trees, Indexes

(* With the untracked files added, git sees every file that is not ignored. *)
LEMMA OthersAdded ==
  ASSUME NEW i \in Indexes, NEW w \in Trees, NEW j, j = IntendToAdd(i, Others(i, w, {}))
  PROVE  \A p \in Paths : j[p] = Absent => w[p] = Absent
  BY DistinctAssumption DEF IntendToAdd, Others

-----------------------------------------------------------------------------
Locals == [head : Trees, index : Indexes, work : Trees, rej : SUBSET Paths, saved : SUBSET Paths]
Remotes == [up : BOOLEAN, index : Trees, head : Trees, work : Trees, ref : Trees \cup {NoRef}, ignored : SUBSET Paths]
Ops == [pc : Labels, result : {"", "ok", "failed", "conflict", "killed"}, new : BOOLEAN, head : Trees,
        added : SUBSET Paths, files : SUBSET Paths, newFiles : SUBSET Paths,
        staged : Patches, unstaged : Patches, patch : Patches, kept : BOOLEAN]
Ghosts == [start : Trees, moved : BOOLEAN, touched : SUBSET Paths, index : Indexes]
Counts == [operations : 0 .. MaxOperations, edits : 0 .. MaxEdits]

LEMMA Typed ==
  TypeOK <=> /\ backend \in Backends /\ local \in Locals /\ remote \in Remotes /\ op \in Ops
             /\ open \in BOOLEAN /\ ghost \in Ghosts /\ count \in Counts
  BY DEF TypeOK, Locals, Remotes, Ops, Ghosts, Counts

LEMMA Fields ==
  ASSUME TypeOK
  PROVE  /\ local.head \in Trees /\ local.index \in Indexes /\ local.work \in Trees /\ local.saved \in SUBSET Paths
         /\ local.rej \in SUBSET Paths
         /\ remote.index \in Trees /\ remote.head \in Trees /\ remote.work \in Trees
         /\ remote.ref \in Trees \cup {NoRef} /\ remote.ignored \in SUBSET Paths /\ remote.up \in BOOLEAN
         /\ op.pc \in Labels /\ op.new \in BOOLEAN /\ op.head \in Trees
         /\ op.added \in SUBSET Paths /\ op.files \in SUBSET Paths /\ op.newFiles \in SUBSET Paths
         /\ op.staged \in Patches /\ op.unstaged \in Patches /\ op.patch \in Patches
         /\ ghost.start \in Trees /\ ghost.moved \in BOOLEAN /\ ghost.touched \in SUBSET Paths
         /\ ghost.index \in Indexes
  BY Typed DEF Locals, Remotes, Ops, Ghosts

LEMMA IdleFacts ==
  ASSUME NEW r \in {"", "ok", "failed", "conflict", "killed"}
  PROVE  Idle(r) \in Ops /\ Idle(r).pc = "idle" /\ Idle(r).result = r
<1>1. [p \in Paths |-> Absent] \in Trees /\ NoPatch \in Patches
  BY NoPatchFacts DEF Trees
<1>2. "idle" \in Labels
  BY DEF Labels
<1>. QED
  BY <1>1, <1>2 DEF Idle, Ops

LEMMA InitIInv == Init => IInv
<1>. SUFFICES ASSUME Init PROVE IInv
  OBVIOUS
<1>1. PICK head : /\ head = [p \in Paths |-> IF p = (CHOOSE q \in Paths : TRUE) THEN CHOOSE c \in Contents : TRUE ELSE Absent]
                  /\ \E work \in Trees : \E index \in {head, work, [p \in Paths |-> Absent]} :
                       local = [head |-> head, index |-> index, work |-> work, rej |-> {}, saved |-> {}]
                  /\ remote = [up |-> FALSE, index |-> head, head |-> head, work |-> head, ref |-> NoRef, ignored |-> {}]
                  /\ ghost = [start |-> head, moved |-> FALSE, touched |-> {}, index |-> local.index]
  BY DEF Init
<1>2. head \in Trees /\ [p \in Paths |-> Absent] \in Trees
  <2>1. (CHOOSE c \in Contents : TRUE) \in Contents
    BY DistinctAssumption
  <2>. QED
    BY <1>1, <2>1 DEF Trees
<1>3. local \in Locals /\ local.index \in Trees
  <2>1. PICK work \in Trees, index \in Trees :
          local = [head |-> head, index |-> index, work |-> work, rej |-> {}, saved |-> {}]
    BY <1>1, <1>2
  <2>. QED
    BY <1>2, <2>1, TreesAreIndexes DEF Locals
<1>4. ghost \in Ghosts /\ remote \in Remotes /\ ghost.index = local.index /\ remote.ignored = {}
  BY <1>1, <1>2, <1>3, TreesAreIndexes DEF Ghosts, Remotes
<1>5. count \in Counts
  <2>1. 0 \in 0 .. MaxOperations /\ 0 \in 0 .. MaxEdits
    BY DistinctAssumption
  <2>. QED
    BY <2>1 DEF Init, Counts
<1>6. op \in Ops /\ op.pc = "idle" /\ op.result = ""
  BY IdleFacts DEF Init
<1>7. TypeOK
  BY <1>3, <1>4, <1>5, <1>6, Typed DEF Init
<1>. QED
  BY <1>4, <1>6, <1>7 DEF Init, IInv, OpenOK, IntentOK, OperationOK, CleanedOK, HeadOK, DiffOK, PatchesOK, StartedOK,
     PulledOK, MirrorOK, Pushing

-----------------------------------------------------------------------------
(* The user. *)
LEMMA UserInv ==
  ASSUME IInv, NEW l \in Locals, NEW s \in SUBSET Paths, UserStep(l, s), l.saved = local.saved,
         \A p \in Paths \ s : l.work[p] = local.work[p],
         \A p \in Paths : l.index[p] = Ita => local.index[p] = Ita
  PROVE  IInv'
<1>1. local' = l /\ UNCHANGED <<backend, remote, op, open>>
  BY DEF UserStep
<1>2. ghost' \in Ghosts /\ ghost'.start = ghost.start /\ ghost'.index = ghost.index
      /\ ghost'.moved = (ghost.moved \/ op.pc \in Pushing) /\ ghost'.touched = ghost.touched \cup s
  BY Typed DEF UserStep, IInv, Ghosts
<1>3. count' \in Counts
  BY Typed, DistinctAssumption DEF UserStep, IInv, Counts
<1>4. TypeOK'
  BY <1>1, <1>2, <1>3 DEF IInv, TypeOK, Locals, Ghosts, Counts
<1>5. OpenOK' /\ OperationOK' /\ CleanedOK'
  BY <1>1 DEF IInv, OpenOK, OperationOK, CleanedOK, AtHead
<1>6. IntentOK'
  BY <1>1, <1>2 DEF IInv, IntentOK
<1>7. HeadOK' /\ DiffOK' /\ PatchesOK'
  BY <1>1, <1>2 DEF HeadOK, DiffOK, PatchesOK, Pushing
<1>8. StartedOK'
  <2>1. \A p \in Paths \ ghost'.touched : p \in Paths \ ghost.touched /\ local'.work[p] = local.work[p]
    BY <1>1, <1>2
  <2>2. op' = op /\ remote' = remote /\ ghost'.start = ghost.start /\ (~ghost'.moved => ~ghost.moved)
    BY <1>1, <1>2
  <2>. QED
    BY <2>1, <2>2 DEF IInv, StartedOK
<1>9. PulledOK'
  BY <1>1 DEF IInv, PulledOK
<1>10. MirrorOK'
  BY <1>1, <1>2 DEF IInv, MirrorOK
<1>. QED
  BY <1>4, <1>5, <1>6, <1>7, <1>8, <1>9, <1>10 DEF IInv

LEMMA UserSteps == ASSUME IInv, User PROVE IInv'
<1>0. local \in Locals /\ local.work \in Trees /\ local.index \in Indexes /\ local.head \in Trees
  BY Typed, Fields DEF IInv
<1>1. CASE Edit
  <2>1. PICK p \in Paths, c \in Contents \cup {Absent} : UserStep([local EXCEPT !.work[p] = c], {p})
    BY <1>1 DEF Edit
  <2>2. PICK l : l = [local EXCEPT !.work = [local.work EXCEPT ![p] = c]]
    OBVIOUS
  <2>3. [local.work EXCEPT ![p] = c] \in Trees
    BY <1>0 DEF Trees
  <2>4. l \in Locals /\ l.saved = local.saved /\ l.index = local.index /\ l.work = [local.work EXCEPT ![p] = c]
    BY <1>0, <2>2, <2>3 DEF Locals
  <2>5. \A q \in Paths \ {p} : l.work[q] = local.work[q]
    BY <1>0, <2>4 DEF Trees
  <2>. QED
    BY <2>1, <2>2, <2>4, <2>5, UserInv
<1>2. CASE Stage \/ Untrack
  <2>1. PICK p \in Paths, c \in Contents \cup {Absent} : UserStep([local EXCEPT !.index[p] = c], {})
    <3>1. local.work \in [Paths -> Contents \cup {Absent}]
      BY <1>0 DEF Trees
    <3>. QED
      BY <1>2, <3>1 DEF Stage, Untrack
  <2>2. PICK l : l = [local EXCEPT !.index = [local.index EXCEPT ![p] = c]]
    OBVIOUS
  <2>3. [local.index EXCEPT ![p] = c] \in Indexes
    BY <1>0 DEF Indexes
  <2>4. l \in Locals /\ l.saved = local.saved /\ l.work = local.work /\ l.index = [local.index EXCEPT ![p] = c]
    BY <1>0, <2>2, <2>3 DEF Locals
  <2>5. \A q \in Paths : l.index[q] = Ita => local.index[q] = Ita
    BY <1>0, <2>4, DistinctAssumption DEF Indexes
  <2>. QED
    BY <2>1, <2>2, <2>4, <2>5, UserInv
<1>3. CASE Commit
  <2>1. PICK l : l = [local EXCEPT !.head = Cached(local.index)]
    OBVIOUS
  <2>2. UserStep(l, {})
    BY <1>3, <2>1 DEF Commit
  <2>3. l \in Locals /\ l.saved = local.saved /\ l.work = local.work /\ l.index = local.index
    BY <1>0, <2>1, IndexFacts DEF Locals
  <2>. QED
    BY <2>2, <2>3, UserInv
<1>. QED
  BY <1>1, <1>2, <1>3 DEF User

-----------------------------------------------------------------------------
(* Operations. *)

LEMMA Going ==
  ASSUME TypeOK, NEW l \in Labels, op' = [op EXCEPT !.pc = l]
  PROVE  /\ op' \in Ops /\ op'.pc = l /\ op'.result = op.result /\ op'.new = op.new /\ op'.head = op.head
         /\ op'.added = op.added /\ op'.files = op.files /\ op'.newFiles = op.newFiles
         /\ op'.staged = op.staged /\ op'.unstaged = op.unstaged /\ op'.patch = op.patch
  BY Typed DEF Ops

(* An operation that is over leaves little to be said of it. *)
LEMMA OverInv ==
  ASSUME TypeOK', OpenOK', op'.pc = "idle", IntentOK', ~CommandsIgnore => remote'.ignored = {},
         op'.result = "ok" => remote'.up, MirrorOK'
  PROVE  IInv'
  BY DEF IInv, OperationOK, CleanedOK, HeadOK, DiffOK, PatchesOK, StartedOK, PulledOK, Pushing

LEMMA StopsInv ==
  ASSUME IInv, NEW r \in {"", "ok", "failed", "killed"}, Stops(r), op.pc # "idle", op.pc = "diff" => r = "killed",
         r = "ok" /\ ~ghost.moved /\ ~CommandsIgnore => \A p \in Paths \ ghost.touched : local.work[p] = remote.work[p]
  PROVE  IInv'
<1>1. op' = Idle(r) /\ open' = FALSE /\ UNCHANGED <<backend, local, remote, ghost, count>>
  BY DEF Stops
<1>2. op' \in Ops /\ op'.pc = "idle" /\ op'.result = r
  BY <1>1, IdleFacts
<1>3. TypeOK'
  BY <1>1, <1>2 DEF IInv, TypeOK, Ops
<1>4. OpenOK'
  BY <1>1 DEF OpenOK
<1>5. IntentOK'
  BY <1>1, <1>2 DEF IInv, IntentOK, OperationOK
<1>6. MirrorOK'
  BY <1>1, <1>2 DEF MirrorOK
<1>. QED
  BY <1>1, <1>2, <1>3, <1>4, <1>5, <1>6, OverInv DEF IInv, OperationOK

LEMMA CreateInv == ASSUME IInv, Create PROVE IInv'
<1>1. op.pc = "idle" /\ ~remote.up /\ UNCHANGED <<backend, local, op, open, ghost, count>>
  BY DEF Create
<1>2. PICK p \in Paths, c \in Contents \cup {Absent} :
        remote' = [remote EXCEPT !.up = TRUE, !.work = [remote.head EXCEPT ![p] = c]]
  BY DEF Create
<1>3. [remote.head EXCEPT ![p] = c] \in Trees
  BY Fields DEF IInv, Trees
<1>4. remote' \in Remotes /\ remote'.ignored = remote.ignored
  BY <1>2, <1>3, Typed DEF IInv, Remotes
<1>5. TypeOK'
  BY <1>1, <1>4 DEF IInv, TypeOK, Remotes
<1>6. OpenOK' /\ IntentOK' /\ op'.result # "ok"
  BY <1>1 DEF IInv, OpenOK, IntentOK, OperationOK
<1>. QED
  BY <1>1, <1>4, <1>5, <1>6, OverInv DEF IInv, OperationOK, MirrorOK

LEMMA BeginInv == ASSUME IInv, Begin PROVE IInv'
<1>1. op.pc = "idle" /\ remote.up /\ count.operations < MaxOperations
      /\ count' = [count EXCEPT !.operations = @ + 1] /\ ghost' = Forgotten
      /\ UNCHANGED <<backend, local, remote, open>>
  BY DEF Begin
<1>2. PICK new \in BOOLEAN : op' = [Idle("") EXCEPT !.pc = "head", !.new = new]
  BY DEF Begin
<1>3. op' \in Ops /\ op'.pc = "head" /\ op'.result = "" /\ op'.staged = NoPatch /\ op'.unstaged = NoPatch
      /\ op'.files = {} /\ op'.newFiles = {}
  <2>1. Idle("") \in Ops /\ "head" \in Labels
    BY IdleFacts DEF Labels
  <2>2. Idle("").result = "" /\ Idle("").staged = NoPatch /\ Idle("").unstaged = NoPatch
        /\ Idle("").files = {} /\ Idle("").newFiles = {}
    BY DEF Idle
  <2>. QED
    BY <1>2, <2>1, <2>2 DEF Ops
<1>4. ghost' \in Ghosts /\ ghost'.index = local.index
  <2>1. [p \in Paths |-> Absent] \in Trees
    BY DEF Trees
  <2>. QED
    BY <1>1, <2>1, Fields DEF Forgotten, Ghosts, IInv
<1>5. count' \in Counts
  BY <1>1, Typed, DistinctAssumption DEF IInv, Counts
<1>6. TypeOK'
  BY <1>1, <1>3, <1>4, <1>5 DEF IInv, TypeOK, Ops, Ghosts, Counts
<1>7. OpenOK' /\ IntentOK' /\ OperationOK'
  BY <1>1, <1>3, <1>4 DEF IInv, OpenOK, IntentOK, OperationOK
<1>8. CleanedOK' /\ HeadOK' /\ DiffOK' /\ PatchesOK' /\ StartedOK' /\ PulledOK' /\ MirrorOK'
  BY <1>3 DEF CleanedOK, HeadOK, DiffOK, PatchesOK, StartedOK, PulledOK, MirrorOK, Pushing
<1>. QED
  BY <1>6, <1>7, <1>8 DEF IInv

LEMMA ResolveHeadInv == ASSUME IInv, ResolveHead PROVE IInv'
<1>1. op.pc = "head" /\ op' = [op EXCEPT !.pc = "commit", !.head = GetHeadCommit]
      /\ UNCHANGED <<backend, local, remote, open, ghost, count>>
  BY DEF ResolveHead
<1>2. GetHeadCommit \in Trees /\ GetHeadCommit' = GetHeadCommit
  BY <1>1, Fields DEF IInv, GetHeadCommit
<1>3. op' \in Ops /\ op'.pc = "commit" /\ op'.head = GetHeadCommit /\ op'.result = op.result
      /\ op'.staged = op.staged /\ op'.unstaged = op.unstaged /\ op'.files = op.files /\ op'.newFiles = op.newFiles
  <2>1. "commit" \in Labels /\ op \in Ops
    BY Typed DEF IInv, Labels, Pushing
  <2>. QED
    BY <1>1, <1>2, <2>1 DEF Ops
<1>4. TypeOK'
  BY <1>1, <1>3 DEF IInv, TypeOK, Ops
<1>5. OpenOK' /\ IntentOK' /\ OperationOK'
  BY <1>1, <1>3 DEF IInv, OpenOK, IntentOK, OperationOK
<1>6. CleanedOK' /\ DiffOK' /\ PatchesOK' /\ StartedOK' /\ PulledOK' /\ MirrorOK'
  BY <1>1, <1>3 DEF CleanedOK, DiffOK, PatchesOK, StartedOK, PulledOK, MirrorOK, IInv, OperationOK
<1>7. HeadOK'
  BY <1>2, <1>3 DEF HeadOK
<1>. QED
  BY <1>4, <1>5, <1>6, <1>7 DEF IInv

(* Steps that only go on. *)
LEMMA EnsureCommitInv == ASSUME IInv, EnsureCommit PROVE IInv'
<1>1. CASE Stops("failed")
  BY <1>1, StopsInv DEF EnsureCommit
<1>2. CASE Continue("checkout")
  <2>1. op.pc = "commit" /\ op' = [op EXCEPT !.pc = "checkout"] /\ "checkout" \in Labels
        /\ UNCHANGED <<backend, local, remote, open, ghost, count>>
    BY <1>2 DEF EnsureCommit, Continue, Labels, Pushing
  <2>2. /\ op' \in Ops /\ op'.pc = "checkout" /\ op'.result = op.result /\ op'.new = op.new /\ op'.head = op.head
        /\ op'.added = op.added /\ op'.files = op.files /\ op'.newFiles = op.newFiles
        /\ op'.staged = op.staged /\ op'.unstaged = op.unstaged /\ op'.patch = op.patch
    BY <2>1, Going DEF IInv
  <2>3. TypeOK'
    BY <2>1, <2>2 DEF IInv, TypeOK, Ops
  <2>4. OpenOK' /\ IntentOK' /\ OperationOK'
    BY <2>1, <2>2 DEF IInv, OpenOK, IntentOK, OperationOK
  <2>5. GetHeadCommit' = GetHeadCommit
    BY <2>1 DEF GetHeadCommit
  <2>6. CleanedOK' /\ HeadOK' /\ DiffOK' /\ PatchesOK' /\ StartedOK' /\ PulledOK' /\ MirrorOK'
    BY <2>1, <2>2, <2>5 DEF CleanedOK, HeadOK, DiffOK, PatchesOK, StartedOK, PulledOK, MirrorOK, IInv, OperationOK, Pushing
  <2>. QED
    BY <2>3, <2>4, <2>6 DEF IInv
<1>. QED
  BY <1>1, <1>2 DEF EnsureCommit

LEMMA VerifyLFSInv == ASSUME IInv, VerifyLFS PROVE IInv'
<1>1. CASE Stops("failed")
  BY <1>1, StopsInv DEF VerifyLFS
<1>2. CASE Continue("clean")
  <2>1. op.pc = "lfs" /\ op' = [op EXCEPT !.pc = "clean"] /\ "clean" \in Labels
        /\ UNCHANGED <<backend, local, remote, open, ghost, count>>
    BY <1>2 DEF VerifyLFS, Continue, Labels, Pushing
  <2>2. /\ op' \in Ops /\ op'.pc = "clean" /\ op'.result = op.result /\ op'.new = op.new /\ op'.head = op.head
        /\ op'.added = op.added /\ op'.files = op.files /\ op'.newFiles = op.newFiles
        /\ op'.staged = op.staged /\ op'.unstaged = op.unstaged /\ op'.patch = op.patch
    BY <2>1, Going DEF IInv
  <2>3. TypeOK'
    BY <2>1, <2>2 DEF IInv, TypeOK, Ops
  <2>4. OpenOK' /\ IntentOK' /\ OperationOK'
    BY <2>1, <2>2 DEF IInv, OpenOK, IntentOK, OperationOK
  <2>5. GetHeadCommit' = GetHeadCommit
    BY <2>1 DEF GetHeadCommit
  <2>6. AtHead /\ (~ghost.moved => op.head = GetHeadCommit)
    BY <2>1 DEF IInv, CleanedOK, HeadOK, Pushing
  <2>7. CleanedOK'
    BY <2>1, <2>2, <2>6 DEF CleanedOK, AtHead
  <2>8. HeadOK' /\ DiffOK' /\ PatchesOK' /\ StartedOK' /\ PulledOK' /\ MirrorOK'
    BY <2>1, <2>2, <2>5, <2>6 DEF HeadOK, DiffOK, PatchesOK, StartedOK, PulledOK, MirrorOK, IInv, OperationOK
  <2>. QED
    BY <2>3, <2>4, <2>7, <2>8 DEF IInv
<1>. QED
  BY <1>1, <1>2 DEF VerifyLFS

LEMMA CheckoutInv == ASSUME IInv, Checkout PROVE IInv'
<1>1. CASE Stops("failed")
  BY <1>1, StopsInv DEF Checkout
<1>2. CASE ~Stops("failed")
  <2>1. op.pc = "checkout" /\ op' = [op EXCEPT !.pc = "lfs"] /\ "lfs" \in Labels /\ open' = TRUE
        /\ remote' = CheckedOut(remote, op.head) /\ UNCHANGED <<backend, local, ghost, count>>
    BY <1>2 DEF Checkout, Labels, Pushing
  <2>2. /\ op' \in Ops /\ op'.pc = "lfs" /\ op'.result = op.result /\ op'.new = op.new /\ op'.head = op.head
        /\ op'.added = op.added /\ op'.files = op.files /\ op'.newFiles = op.newFiles
        /\ op'.staged = op.staged /\ op'.unstaged = op.unstaged /\ op'.patch = op.patch
    BY <2>1, Going DEF IInv
  <2>3. PICK work : work = [p \in Paths |-> IF op.head[p] # Absent \/ remote.index[p] # Absent
                                            THEN op.head[p] ELSE remote.work[p]]
    OBVIOUS
  <2>4. remote' = [remote EXCEPT !.head = op.head, !.index = op.head, !.work = work]
    BY <2>1, <2>3 DEF CheckedOut
  <2>5. op.head \in Trees /\ remote.work \in Trees /\ remote \in Remotes
    BY Fields, Typed DEF IInv
  <2>6. work \in Trees /\ \A p \in Paths : op.head[p] # Absent => work[p] = op.head[p]
    BY <2>3, <2>5 DEF Trees
  <2>7. remote' \in Remotes /\ remote'.index = op.head /\ remote'.work = work /\ remote'.up = remote.up
        /\ remote'.ref = remote.ref /\ remote'.ignored = remote.ignored
    BY <2>4, <2>5, <2>6 DEF Remotes
  <2>8. TypeOK'
    BY <2>1, <2>2, <2>7 DEF IInv, TypeOK, Ops, Remotes
  <2>9. OpenOK' /\ IntentOK' /\ OperationOK'
    BY <2>1, <2>2, <2>7 DEF IInv, OpenOK, IntentOK, OperationOK
  <2>10. CleanedOK'
    BY <2>2, <2>6, <2>7 DEF CleanedOK, AtHead
  <2>11. ~ghost.moved => op.head = GetHeadCommit /\ GetHeadCommit' = GetHeadCommit
    BY <2>1 DEF IInv, HeadOK, Pushing, GetHeadCommit
  <2>12. HeadOK' /\ DiffOK' /\ PatchesOK' /\ StartedOK' /\ PulledOK' /\ MirrorOK'
    BY <2>1, <2>2, <2>11 DEF HeadOK, DiffOK, PatchesOK, StartedOK, PulledOK, MirrorOK, IInv, OperationOK
  <2>. QED
    BY <2>8, <2>9, <2>10, <2>12 DEF IInv
<1>. QED
  BY <1>1, <1>2

LEMMA CleanInv == ASSUME IInv, Clean PROVE IInv'
<1>1. CASE Stops("failed")
  BY <1>1, StopsInv DEF Clean
<1>2. CASE ~Stops("failed")
  <2>1. PICK l \in {"remove", "name"} : l = IF backend = "jj" THEN "remove" ELSE "name"
    OBVIOUS
  <2>2. op.pc = "clean" /\ op' = [op EXCEPT !.pc = l] /\ l \in Labels /\ open' = FALSE
        /\ remote' = (IF op.new THEN remote ELSE Cleaned(remote)) /\ UNCHANGED <<backend, local, ghost, count>>
    BY <1>2, <2>1 DEF Clean, Labels, Pushing, KeepsUntracked
  <2>3. /\ op' \in Ops /\ op'.pc = l /\ op'.result = op.result /\ op'.new = op.new /\ op'.head = op.head
        /\ op'.added = op.added /\ op'.files = op.files /\ op'.newFiles = op.newFiles
        /\ op'.staged = op.staged /\ op'.unstaged = op.unstaged /\ op'.patch = op.patch
    BY <2>2, Going DEF IInv
  <2>4. remote \in Remotes /\ remote.work \in Trees /\ remote.index \in Trees /\ op.head \in Trees /\ AtHead
        /\ local.work \in Trees
    BY <2>2, Fields, Typed DEF IInv, CleanedOK
  <2>5. /\ remote' \in Remotes /\ remote'.index = remote.index /\ remote'.up = remote.up
        /\ remote'.ref = remote.ref /\ remote'.ignored = remote.ignored
        /\ op.new => remote'.work = remote.work
        /\ ~op.new => remote'.work = op.head
    <3>1. CASE op.new
      BY <2>2, <2>4, <3>1
    <3>2. CASE ~op.new
      <4>1. PICK work : work = [p \in Paths |-> IF remote.index[p] = Absent THEN Absent ELSE remote.work[p]]
        OBVIOUS
      <4>2. remote' = [remote EXCEPT !.work = work]
        BY <2>2, <3>2, <4>1 DEF Cleaned
      <4>3. work \in Trees
        BY <2>4, <4>1 DEF Trees
      <4>4. work = op.head
        <5>1. \A p \in Paths : work[p] = op.head[p]
          BY <2>4, <4>1 DEF AtHead
        <5>2. work = [p \in Paths |-> op.head[p]]
          BY <4>1, <5>1
        <5>. QED
          BY <2>4, <5>2 DEF Trees
      <4>. QED
        BY <2>4, <3>2, <4>2, <4>3, <4>4 DEF Remotes
    <3>. QED
      BY <3>1, <3>2
  <2>6. TypeOK'
    BY <2>2, <2>3, <2>5 DEF IInv, TypeOK, Ops, Remotes
  <2>7. OpenOK' /\ IntentOK'
    BY <2>2, <2>3 DEF IInv, OpenOK, IntentOK
  <2>8. backend = "git" \/ l # "name"
    BY <2>1, DistinctAssumption DEF IInv, TypeOK
  <2>9. OperationOK'
    BY <2>2, <2>3, <2>5, <2>8 DEF IInv, OperationOK
  <2>10. CleanedOK'
    BY <2>3, <2>4, <2>5 DEF CleanedOK, AtHead
  <2>11. ~ghost.moved => op.head = GetHeadCommit /\ GetHeadCommit' = GetHeadCommit
    BY <2>2 DEF IInv, HeadOK, Pushing, GetHeadCommit
  <2>12. HeadOK' /\ DiffOK' /\ StartedOK' /\ PulledOK' /\ MirrorOK'
    BY <2>2, <2>3, <2>11 DEF HeadOK, DiffOK, StartedOK, PulledOK, MirrorOK, IInv, OperationOK
  <2>13. PatchesOK'
    <3>1. SUFFICES ASSUME l = "remove", ~ghost.moved
                   PROVE  (Leads(op.head) /\ Applied(op.head))'
      BY <2>2, <2>3, <2>4 DEF PatchesOK
    <3>2. op.head = local.work
      BY <2>1, <2>11, <3>1 DEF GetHeadCommit
    <3>3. op.staged = NoPatch /\ op.unstaged = NoPatch /\ op.files = {}
      BY <2>2 DEF IInv, OperationOK
    <3>4. Diff(op.head, op.head) = NoPatch /\ DOMAIN NoPatch = {}
      BY <2>4, NoPatchFacts
    <3>5. Leads(op.head)'
      BY <2>2, <2>3, <3>2, <3>3, <3>4 DEF Leads
    <3>6. Applied(op.head)'
      BY <2>3, <3>1 DEF Applied
    <3>. QED
      BY <3>5, <3>6
  <2>. QED
    BY <2>6, <2>7, <2>9, <2>10, <2>12, <2>13 DEF IInv
<1>. QED
  BY <1>1, <1>2

LEMMA CreatesIn ==
  ASSUME NEW a \in Trees, NEW b \in Trees
  PROVE  DOMAIN Diff(a, b) \in SUBSET Paths /\ Creates(Diff(a, b)) \in SUBSET Paths
<1>1. PICK d : d = Diff(a, b)
  OBVIOUS
<1>2. DOMAIN d = {p \in Paths : a[p] # b[p]}
  BY <1>1, DiffFacts
<1>. QED
  BY <1>1, <1>2 DEF Creates

LEMMA NameFilesInv == ASSUME IInv, NameFiles PROVE IInv'
<1>1. op.pc = "name" /\ UNCHANGED <<backend, remote, open, count>>
  BY DEF NameFiles
<1>2. PICK added \in {Others(local.index, local.work, {}), {}} :
        LET l == [local EXCEPT !.index = IntendToAdd(@, added)]
            staged == StagedOf(l)
            unstaged == UnstagedOf(l)
        IN  /\ local' = l
            /\ op' = [op EXCEPT !.pc = "diff", !.added = added,
                        !.files = DOMAIN staged \cup DOMAIN unstaged,
                        !.newFiles = Creates(staged) \cup Creates(unstaged)]
            /\ ghost' = [ghost EXCEPT !.moved = @ \/ added # Others(local.index, local.work, {})]
  BY DEF NameFiles
<1>3. PICK l : l = [local EXCEPT !.index = IntendToAdd(local.index, added)]
  OBVIOUS
<1>4. /\ local' = l
      /\ op' = [op EXCEPT !.pc = "diff", !.added = added,
                  !.files = DOMAIN StagedOf(l) \cup DOMAIN UnstagedOf(l),
                  !.newFiles = Creates(StagedOf(l)) \cup Creates(UnstagedOf(l))]
      /\ ghost' = [ghost EXCEPT !.moved = @ \/ added # Others(local.index, local.work, {})]
  BY <1>2, <1>3
<1>5. local.index \in Indexes /\ local.work \in Trees /\ local.head \in Trees /\ local \in Locals
      /\ added \in SUBSET Paths
  BY <1>2, Fields, Typed DEF IInv, Others
<1>6. l \in Locals /\ l.index = IntendToAdd(local.index, added) /\ l.work = local.work /\ l.head = local.head
      /\ l.saved = local.saved /\ l.index \in Indexes
  BY <1>3, <1>5, IndexFacts DEF Locals
<1>7. /\ DOMAIN StagedOf(l) \in SUBSET Paths /\ Creates(StagedOf(l)) \in SUBSET Paths
      /\ DOMAIN UnstagedOf(l) \in SUBSET Paths /\ Creates(UnstagedOf(l)) \in SUBSET Paths
  BY <1>5, <1>6, IndexFacts, CreatesIn DEF StagedOf, UnstagedOf
<1>8. op' \in Ops /\ op'.pc = "diff" /\ op'.result = op.result /\ op'.new = op.new /\ op'.head = op.head
      /\ op'.added = added /\ op'.files = DOMAIN StagedOf(l) \cup DOMAIN UnstagedOf(l)
  <2>1. "diff" \in Labels /\ op \in Ops
    BY Typed DEF IInv, Labels, Pushing
  <2>2. PICK files, newFiles : /\ files = DOMAIN StagedOf(l) \cup DOMAIN UnstagedOf(l)
                               /\ newFiles = Creates(StagedOf(l)) \cup Creates(UnstagedOf(l))
    OBVIOUS
  <2>3. op' = [op EXCEPT !.pc = "diff", !.added = added, !.files = files, !.newFiles = newFiles]
    BY <1>4, <2>2
  <2>4. files \in SUBSET Paths /\ newFiles \in SUBSET Paths
    BY <1>7, <2>2
  <2>. QED
    BY <1>5, <2>1, <2>2, <2>3, <2>4 DEF Ops
<1>9. /\ ghost' \in Ghosts /\ ghost'.index = ghost.index /\ ghost'.start = ghost.start /\ ghost'.touched = ghost.touched
      /\ ~ghost'.moved => ~ghost.moved /\ added = Others(local.index, local.work, {})
  BY <1>4, Typed DEF IInv, Ghosts
<1>10. TypeOK'
  BY <1>1, <1>4, <1>6, <1>8, <1>9 DEF IInv, TypeOK, Ops, Ghosts, Locals
<1>11. OpenOK'
  BY <1>1, <1>8 DEF IInv, OpenOK
<1>12. IntentOK'
  <2>1. SUFFICES ASSUME \A p \in Paths : ghost.index[p] # Ita, NEW p \in Paths, l.index[p] = Ita PROVE p \in added
    BY <1>4, <1>8, <1>9 DEF IntentOK
  <2>2. local.index[p] # Ita
    BY <1>1, <2>1 DEF IInv, IntentOK, OperationOK
  <2>. QED
    BY <1>6, <2>1, <2>2 DEF IntendToAdd
<1>13. OperationOK'
  BY <1>1, <1>8 DEF IInv, OperationOK
<1>14. CleanedOK'
  BY <1>1, <1>8 DEF IInv, CleanedOK, AtHead
<1>15. HeadOK'
  BY <1>1, <1>4, <1>6, <1>8, <1>9 DEF IInv, HeadOK, Pushing, GetHeadCommit
<1>16. DiffOK'
  <2>1. SUFFICES ASSUME ~ghost'.moved PROVE \A p \in Paths : l.index[p] = Absent => l.work[p] = Absent
    BY <1>4, <1>8 DEF DiffOK
  <2>. QED
    BY <1>5, <1>6, <1>9, <2>1, OthersAdded
<1>17. PatchesOK' /\ StartedOK' /\ PulledOK' /\ MirrorOK'
  BY <1>1, <1>8 DEF PatchesOK, StartedOK, PulledOK, MirrorOK, IInv, OperationOK
<1>. QED
  BY <1>10, <1>11, <1>12, <1>13, <1>14, <1>15, <1>16, <1>17 DEF IInv

LEMMA DiffFilesInv == ASSUME IInv, DiffFiles PROVE IInv'
<1>1. op.pc = "diff" /\ local' = [local EXCEPT !.index = Restored] /\ UNCHANGED <<backend, remote, open, ghost, count>>
  BY DEF DiffFiles
<1>2. local \in Locals /\ local.index \in Indexes /\ local.work \in Trees /\ local.head \in Trees /\ op \in Ops
  BY Fields, Typed DEF IInv
<1>3. Restored \in Indexes /\ (IntentOK /\ (\A p \in Paths : ghost.index[p] # Ita) => \A p \in Paths : Restored[p] # Ita)
  <2>1. Restored \in Indexes
    BY <1>2 DEF Restored, Indexes, Trees
  <2>2. ASSUME IntentOK, \A p \in Paths : ghost.index[p] # Ita, NEW p \in Paths PROVE Restored[p] # Ita
    <3>1. local.index[p] = Ita => p \in op.added
      BY <1>1, <2>2 DEF IntentOK
    <3>2. local.head[p] # Ita
      BY <1>2, DistinctAssumption DEF Trees
    <3>. QED
      BY <3>1, <3>2 DEF Restored
  <2>. QED
    BY <2>1, <2>2
<1>4. local' \in Locals /\ local'.index = Restored /\ local'.head = local.head /\ local'.work = local.work
  BY <1>1, <1>2, <1>3 DEF Locals
<1>5. CASE op' = Idle("failed")
  <2>1. op' \in Ops /\ op'.pc = "idle" /\ op'.result = "failed"
    BY <1>5, IdleFacts
  <2>2. TypeOK'
    BY <1>1, <1>4, <2>1 DEF IInv, TypeOK, Ops, Locals
  <2>3. OpenOK' /\ IntentOK'
    BY <1>1, <1>3, <1>4, <2>1 DEF IInv, OpenOK, IntentOK
  <2>4. MirrorOK'
    BY <2>1 DEF MirrorOK
  <2>. QED
    BY <1>1, <2>1, <2>2, <2>3, <2>4, OverInv DEF IInv, OperationOK
<1>6. CASE op' = [op EXCEPT !.pc = "remove", !.staged = StagedOf(local), !.unstaged = UnstagedOf(local)]
  <2>1. Cached(local.index) \in Trees /\ Visible(local.index, local.work) \in Trees
    BY <1>2, IndexFacts
  <2>2. StagedOf(local) \in Patches /\ UnstagedOf(local) \in Patches
    BY <1>2, <2>1, DiffFacts DEF StagedOf, UnstagedOf
  <2>3. op' \in Ops /\ op'.pc = "remove" /\ op'.result = op.result /\ op'.new = op.new /\ op'.head = op.head
        /\ op'.files = op.files /\ op'.staged = StagedOf(local) /\ op'.unstaged = UnstagedOf(local)
    <3>1. "remove" \in Labels
      BY DEF Labels, Pushing
    <3>. QED
      BY <1>2, <1>6, <2>2, <3>1 DEF Ops
  <2>4. TypeOK'
    BY <1>1, <1>4, <2>3 DEF IInv, TypeOK, Ops, Locals
  <2>5. OpenOK' /\ IntentOK' /\ OperationOK'
    BY <1>1, <1>3, <1>4, <2>3 DEF IInv, OpenOK, IntentOK, OperationOK
  <2>6. CleanedOK'
    BY <1>1, <2>3 DEF IInv, CleanedOK, AtHead
  <2>7. HeadOK'
    BY <1>1, <1>4, <2>3 DEF IInv, HeadOK, Pushing, GetHeadCommit
  <2>8. DiffOK' /\ StartedOK' /\ PulledOK' /\ MirrorOK'
    BY <1>1, <2>3 DEF DiffOK, StartedOK, PulledOK, MirrorOK, IInv, OperationOK
  <2>9. PatchesOK'
    <3>1. SUFFICES ASSUME ~ghost.moved, NEW c \in Trees, c = Cached(local.index) PROVE (Leads(c) /\ Applied(c))'
      BY <1>1, <2>1 DEF PatchesOK
    <3>2. op.head = local.head
      BY <1>1, <3>1, DistinctAssumption DEF IInv, HeadOK, OperationOK, GetHeadCommit, Pushing
    <3>3. Visible(local.index, local.work) = local.work
      BY <1>1, <1>2, <3>1, IndexFacts DEF IInv, DiffOK
    <3>4. op.files = DOMAIN StagedOf(local) \cup DOMAIN UnstagedOf(local)
      BY <1>1, <3>1 DEF IInv, DiffOK
    <3>5. StagedOf(local) = Diff(op.head, c) /\ UnstagedOf(local) = Diff(c, local.work)
      BY <3>1, <3>2, <3>3 DEF StagedOf, UnstagedOf
    <3>6. Leads(c)'
      BY <1>4, <2>3, <3>4, <3>5 DEF Leads
    <3>7. Applied(c)'
      BY <2>3 DEF Applied
    <3>. QED
      BY <3>6, <3>7
  <2>. QED
    BY <2>4, <2>5, <2>6, <2>7, <2>8, <2>9 DEF IInv
<1>. QED
  BY <1>5, <1>6 DEF DiffFiles

(* The steps that apply the patches change nothing but the sandbox's index and files. *)
LEMMA ApplyingInv ==
  ASSUME IInv, op.pc \in {"remove", "staged", "unstaged"}, NEW l \in {"staged", "unstaged", "snapshot"},
         op' = [op EXCEPT !.pc = l], NEW i \in Trees, NEW w \in Trees,
         remote' = [remote EXCEPT !.index = i, !.work = w], UNCHANGED <<backend, local, open, ghost, count>>,
         \A c \in Trees : ~ghost.moved /\ Leads(c) /\ Applied(c) => Applied(c)'
  PROVE  IInv'
<1>1. l \in Labels
  BY DEF Labels, Pushing
<1>2. /\ op' \in Ops /\ op'.pc = l /\ op'.result = op.result /\ op'.new = op.new /\ op'.head = op.head
      /\ op'.added = op.added /\ op'.files = op.files /\ op'.newFiles = op.newFiles
      /\ op'.staged = op.staged /\ op'.unstaged = op.unstaged /\ op'.patch = op.patch
  BY <1>1, Going DEF IInv
<1>3. remote' \in Remotes /\ remote'.up = remote.up /\ remote'.ref = remote.ref /\ remote'.ignored = remote.ignored
  BY Typed DEF IInv, Remotes
<1>4. TypeOK'
  BY <1>2, <1>3 DEF IInv, TypeOK, Ops, Remotes
<1>5. OpenOK' /\ IntentOK' /\ OperationOK'
  BY <1>2, <1>3 DEF IInv, OpenOK, IntentOK, OperationOK
<1>6. HeadOK'
  BY <1>2 DEF IInv, HeadOK, Pushing, GetHeadCommit
<1>7. CleanedOK' /\ DiffOK' /\ StartedOK' /\ PulledOK' /\ MirrorOK'
  BY <1>2 DEF CleanedOK, DiffOK, StartedOK, PulledOK, MirrorOK, IInv, OperationOK
<1>8. PatchesOK'
  <2>1. SUFFICES ASSUME ~ghost.moved PROVE \E c \in Trees : Leads(c)' /\ Applied(c)'
    BY DEF PatchesOK
  <2>2. PICK c \in Trees : Leads(c) /\ Applied(c)
    BY <2>1 DEF IInv, PatchesOK
  <2>3. Leads(c)'
    BY <1>2, <2>2 DEF Leads
  <2>. QED
    BY <2>1, <2>2, <2>3
<1>. QED
  BY <1>4, <1>5, <1>6, <1>7, <1>8 DEF IInv

LEMMA RemovePreAppliedInv == ASSUME IInv, RemovePreApplied PROVE IInv'
<1>1. CASE Stops("failed")
  BY <1>1, StopsInv DEF RemovePreApplied
<1>2. CASE ~Stops("failed")
  <2>1. PICK w : w = [p \in Paths |-> IF p \in NewPaths /\ remote.index[p] = Absent THEN Absent ELSE remote.work[p]]
    OBVIOUS
  <2>2. op.pc = "remove" /\ remote' = [remote EXCEPT !.work = w] /\ op' = [op EXCEPT !.pc = "staged"]
        /\ UNCHANGED <<backend, local, open, ghost, count>>
    BY <1>2, <2>1 DEF RemovePreApplied
  <2>3. remote.work \in Trees /\ remote.index \in Trees /\ remote \in Remotes /\ op \in Ops
    BY Fields, Typed DEF IInv
  <2>4. w \in Trees
    BY <2>1, <2>3 DEF Trees
  <2>5. remote' = [remote EXCEPT !.index = remote.index, !.work = w]
    BY <2>2, <2>3 DEF Remotes
  <2>6. remote'.index = remote.index /\ remote'.work = w /\ op'.pc = "staged" /\ op'.head = op.head /\ op'.new = op.new
    BY <2>2, <2>3, <2>4 DEF Remotes, Ops
  <2>7. AtHead /\ (~op.new => remote.work = op.head)
    BY <2>2 DEF IInv, CleanedOK
  <2>8. AtHead'
    BY <2>1, <2>6, <2>7 DEF AtHead
  <2>9. ~op.new => w = op.head
    <3>1. SUFFICES ASSUME ~op.new PROVE w = op.head
      OBVIOUS
    <3>2. \A p \in Paths : w[p] = remote.work[p]
      BY <2>1, <2>7, <3>1 DEF AtHead
    <3>3. w = [p \in Paths |-> remote.work[p]]
      BY <2>1, <3>2
    <3>. QED
      BY <2>3, <2>7, <3>1, <3>3 DEF Trees
  <2>10. \A c : Applied(c)'
    BY <2>6, <2>8, <2>9 DEF Applied
  <2>. QED
    BY <2>2, <2>3, <2>4, <2>5, <2>10, ApplyingInv
<1>. QED
  BY <1>1, <1>2

LEMMA PatchedTyped ==
  ASSUME NEW d \in Patches, NEW t \in Trees
  PROVE  Patched(d, t) \in Trees
<1>1. PICK D \in SUBSET Paths : d \in [D -> [old : Contents \cup {Absent}, new : Contents \cup {Absent}]]
  BY DEF Patches
<1>2. \A p \in DOMAIN d : d[p].new \in Contents \cup {Absent}
  BY <1>1
<1>. QED
  BY <1>2 DEF Patched, Trees

LEMMA ApplyStagedInv == ASSUME IInv, ApplyStaged PROVE IInv'
<1>1. CASE Stops("failed")
  BY <1>1, StopsInv DEF ApplyStaged
<1>2. CASE ~Stops("failed")
  <2>1. op.pc = "staged" /\ op' = [op EXCEPT !.pc = "unstaged"]
        /\ remote' = [remote EXCEPT !.index = Patched(op.staged, remote.index), !.work = Patched(op.staged, remote.work)]
        /\ UNCHANGED <<backend, local, open, ghost, count>>
    BY <1>2 DEF ApplyStaged
  <2>2. remote.work \in Trees /\ remote.index \in Trees /\ remote \in Remotes /\ op \in Ops /\ op.staged \in Patches
        /\ op.head \in Trees
    BY Fields, Typed DEF IInv
  <2>3. Patched(op.staged, remote.index) \in Trees /\ Patched(op.staged, remote.work) \in Trees
    BY <2>2, PatchedTyped
  <2>4. remote'.index = Patched(op.staged, remote.index) /\ remote'.work = Patched(op.staged, remote.work)
        /\ op'.pc = "unstaged" /\ op'.head = op.head /\ op'.new = op.new /\ op'.staged = op.staged
    BY <2>1, <2>2, <2>3 DEF Remotes, Ops
  <2>5. ASSUME NEW c \in Trees, Leads(c), Applied(c) PROVE Applied(c)'
    <3>1. op.staged = Diff(op.head, c) /\ AtHead /\ (~op.new => remote.work = op.head)
      BY <2>1, <2>5 DEF Leads, Applied
    <3>2. remote'.index = c
      BY <2>2, <2>4, <3>1, PatchedFacts DEF AtHead
    <3>3. \A p \in Paths : remote'.work[p] = IF op.head[p] # c[p] THEN c[p] ELSE remote.work[p]
      BY <2>2, <2>4, <3>1, PatchedFacts
    <3>4. \A p \in Paths : p \in DOMAIN op.staged <=> op.head[p] # c[p]
      <4>1. PICK d : d = Diff(op.head, c)
        OBVIOUS
      <4>2. DOMAIN d = {p \in Paths : op.head[p] # c[p]}
        BY <2>2, <4>1, DiffFacts
      <4>. QED
        BY <3>1, <4>1, <4>2
    <3>5. \A p \in Paths : IF p \in DOMAIN op.staged THEN remote'.work[p] = c[p]
                           ELSE op.head[p] # Absent \/ ~op.new => remote'.work[p] = op.head[p]
      BY <3>1, <3>3, <3>4 DEF AtHead
    <3>. QED
      BY <2>4, <3>2, <3>5 DEF Applied
  <2>. QED
    BY <2>1, <2>3, <2>5, ApplyingInv
<1>. QED
  BY <1>1, <1>2

LEMMA ApplyUnstagedInv == ASSUME IInv, ApplyUnstaged PROVE IInv'
<1>1. CASE Stops("failed")
  BY <1>1, StopsInv DEF ApplyUnstaged
<1>2. CASE ~Stops("failed")
  <2>1. op.pc = "unstaged" /\ op' = [op EXCEPT !.pc = "snapshot"]
        /\ remote' = [remote EXCEPT !.work = Patched(op.unstaged, remote.work)]
        /\ UNCHANGED <<backend, local, open, ghost, count>>
    BY <1>2 DEF ApplyUnstaged
  <2>2. remote.work \in Trees /\ remote.index \in Trees /\ remote \in Remotes /\ op \in Ops /\ op.unstaged \in Patches
        /\ op.head \in Trees /\ local.work \in Trees
    BY Fields, Typed DEF IInv
  <2>3. Patched(op.unstaged, remote.work) \in Trees
    BY <2>2, PatchedTyped
  <2>4. remote' = [remote EXCEPT !.index = remote.index, !.work = Patched(op.unstaged, remote.work)]
    BY <2>1, <2>2 DEF Remotes
  <2>5. remote'.index = remote.index /\ remote'.work = Patched(op.unstaged, remote.work)
        /\ op'.pc = "snapshot" /\ op'.head = op.head /\ op'.new = op.new /\ op'.files = op.files
    BY <2>1, <2>2, <2>3 DEF Remotes, Ops
  <2>6. ASSUME NEW c \in Trees, Leads(c), Applied(c) PROVE Applied(c)'
    <3>1. /\ op.staged = Diff(op.head, c) /\ op.unstaged = Diff(c, local.work)
          /\ op.files = DOMAIN op.staged \cup DOMAIN op.unstaged
          /\ remote.index = c
          /\ \A p \in Paths : IF p \in DOMAIN op.staged THEN remote.work[p] = c[p]
                              ELSE op.head[p] # Absent \/ ~op.new => remote.work[p] = op.head[p]
      BY <2>1, <2>6 DEF Leads, Applied
    <3>2. \A p \in Paths : remote'.work[p] = IF c[p] # local.work[p] THEN local.work[p] ELSE remote.work[p]
      BY <2>2, <2>5, <3>1, PatchedFacts
    <3>3. \A p \in Paths : /\ p \in DOMAIN op.staged <=> op.head[p] # c[p]
                           /\ p \in DOMAIN op.unstaged <=> c[p] # local.work[p]
      <4>1. PICK d, e : d = Diff(op.head, c) /\ e = Diff(c, local.work)
        OBVIOUS
      <4>2. DOMAIN d = {p \in Paths : op.head[p] # c[p]} /\ DOMAIN e = {p \in Paths : c[p] # local.work[p]}
        BY <2>2, <4>1, DiffFacts
      <4>. QED
        BY <3>1, <4>1, <4>2
    <3>4. \A p \in Paths : \/ remote'.work[p] = local.work[p]
                           \/ op.new /\ local.work[p] = Absent /\ c[p] = Absent /\ p \notin op.files
      BY <3>1, <3>2, <3>3
    <3>. QED
      BY <2>1, <2>5, <3>1, <3>4 DEF Applied
  <2>. QED
    BY <2>1, <2>2, <2>3, <2>4, <2>6, ApplyingInv
<1>. QED
  BY <1>1, <1>2

LEMMA SnapshotInv == ASSUME IInv, Snapshot PROVE IInv'
<1>1. op.pc = "snapshot" /\ UNCHANGED <<backend, local, open, count>>
  BY DEF Snapshot
<1>2. remote \in Remotes /\ remote.work \in Trees /\ remote.index \in Trees /\ op \in Ops /\ ghost \in Ghosts
      /\ local.work \in Trees
  BY Fields, Typed DEF IInv
<1>3. CASE remote' = [remote EXCEPT !.ref = NoRef] /\ op' = Idle("failed") /\ UNCHANGED ghost
  <2>1. op' \in Ops /\ op'.pc = "idle" /\ op'.result = "failed"
    BY <1>3, IdleFacts
  <2>2. remote' \in Remotes /\ remote'.ignored = remote.ignored
    BY <1>2, <1>3 DEF Remotes
  <2>3. TypeOK'
    BY <1>1, <1>3, <2>1, <2>2 DEF IInv, TypeOK, Ops, Remotes
  <2>4. OpenOK' /\ IntentOK' /\ MirrorOK'
    BY <1>1, <1>3, <2>1 DEF IInv, OpenOK, IntentOK, MirrorOK, OperationOK
  <2>. QED
    BY <2>1, <2>2, <2>3, <2>4, OverInv DEF IInv, OperationOK
<1>4. CASE /\ remote' = [remote EXCEPT !.ref = Baseline] /\ op' = [op EXCEPT !.pc = "command"]
           /\ ghost' = [ghost EXCEPT !.start = remote.work, !.touched = {}]
  <2>1. Baseline \in Trees
    BY <1>2 DEF Baseline, Trees
  <2>2. /\ op' \in Ops /\ op'.pc = "command" /\ op'.result = op.result /\ op'.new = op.new /\ op'.head = op.head
        /\ op'.added = op.added /\ op'.files = op.files /\ op'.newFiles = op.newFiles
        /\ op'.staged = op.staged /\ op'.unstaged = op.unstaged /\ op'.patch = op.patch
    <3>1. "command" \in Labels
      BY DEF Labels
    <3>. QED
      BY <1>4, <3>1, Going DEF IInv
  <2>3. remote' \in Remotes /\ remote'.ref = Baseline /\ remote'.work = remote.work /\ remote'.index = remote.index
        /\ remote'.up = remote.up /\ remote'.ignored = remote.ignored
    BY <1>2, <1>4, <2>1 DEF Remotes
  <2>4. ghost' \in Ghosts /\ ghost'.start = remote.work /\ ghost'.touched = {} /\ ghost'.moved = ghost.moved
        /\ ghost'.index = ghost.index
    BY <1>2, <1>4 DEF Ghosts
  <2>5. TypeOK'
    BY <1>1, <2>2, <2>3, <2>4 DEF IInv, TypeOK, Ops, Remotes, Ghosts
  <2>6. OpenOK' /\ IntentOK' /\ OperationOK'
    BY <1>1, <2>1, <2>2, <2>3, <2>4 DEF IInv, OpenOK, IntentOK, OperationOK
  <2>7. CleanedOK' /\ HeadOK' /\ DiffOK' /\ PatchesOK' /\ PulledOK' /\ MirrorOK'
    BY <1>1, <2>2 DEF CleanedOK, HeadOK, DiffOK, PatchesOK, PulledOK, MirrorOK, IInv, OperationOK, Pushing
  <2>8. StartedOK'
    <3>1. SUFFICES ASSUME ~ghost.moved
                   PROVE  /\ \A p \in Paths : local.work[p] = Baseline[p]
                          /\ \A p \in Paths : Baseline[p] # Absent => Baseline[p] = remote.work[p]
                          /\ \A p \in Paths : \/ remote.work[p] = local.work[p]
                                              \/ op.new /\ local.work[p] = Absent /\ remote.index[p] = Absent
      BY <1>1, <2>2, <2>3, <2>4 DEF StartedOK
    <3>2. PICK c \in Trees : Leads(c) /\ Applied(c)
      BY <1>1, <3>1 DEF IInv, PatchesOK
    <3>3. /\ op.unstaged = Diff(c, local.work) /\ op.files = DOMAIN op.staged \cup DOMAIN op.unstaged
          /\ remote.index = c
          /\ \A p \in Paths : \/ remote.work[p] = local.work[p]
                              \/ op.new /\ local.work[p] = Absent /\ c[p] = Absent /\ p \notin op.files
      BY <1>1, <3>2 DEF Leads, Applied
    <3>4. \A p \in Paths : c[p] # local.work[p] => p \in op.files
      <4>1. PICK d : d = Diff(c, local.work)
        OBVIOUS
      <4>2. DOMAIN d = {p \in Paths : c[p] # local.work[p]}
        BY <1>2, <4>1, DiffFacts
      <4>. QED
        BY <3>3, <4>1, <4>2
    <3>5. ASSUME NEW p \in Paths
          PROVE  local.work[p] = Baseline[p] /\ (Baseline[p] # Absent => Baseline[p] = remote.work[p])
      <4>1. Baseline[p] = IF op.new /\ p \notin op.files THEN remote.index[p] ELSE remote.work[p]
        BY DEF Baseline
      <4>. QED
        BY <3>3, <3>4, <4>1
    <3>. QED
      BY <3>3, <3>5
  <2>. QED
    BY <2>5, <2>6, <2>7, <2>8 DEF IInv
<1>. QED
  BY <1>3, <1>4 DEF Snapshot

LEMMA CommandInv == ASSUME IInv, Command PROVE IInv'
<1>1. CASE Stops("failed") \/ Stops("")
  BY <1>1, StopsInv DEF Command
<1>2. CASE ~(Stops("failed") \/ Stops(""))
  <2>1. op.pc = "command" /\ op' = [op EXCEPT !.pc = "list"] /\ open' = TRUE /\ UNCHANGED <<backend, local, ghost, count>>
    BY <1>2 DEF Command
  <2>2. PICK work \in Trees, ignored \in IF CommandsIgnore THEN SUBSET Paths ELSE {{}} :
          remote' = [remote EXCEPT !.work = work, !.ignored = ignored]
    BY <1>2 DEF Command
  <2>3. /\ op' \in Ops /\ op'.pc = "list" /\ op'.result = op.result /\ op'.new = op.new /\ op'.head = op.head
        /\ op'.added = op.added /\ op'.files = op.files /\ op'.newFiles = op.newFiles
        /\ op'.staged = op.staged /\ op'.unstaged = op.unstaged /\ op'.patch = op.patch
    <3>1. "list" \in Labels
      BY DEF Labels
    <3>. QED
      BY <2>1, <3>1, Going DEF IInv
  <2>4. remote' \in Remotes /\ remote'.ref = remote.ref /\ remote'.up = remote.up /\ remote'.ignored = ignored
        /\ ignored \in SUBSET Paths
    <3>1. ignored \in SUBSET Paths
      BY <2>2, DistinctAssumption
    <3>2. remote \in Remotes
      BY Typed DEF IInv
    <3>. QED
      BY <2>2, <3>1, <3>2 DEF Remotes
  <2>5. TypeOK'
    BY <2>1, <2>3, <2>4 DEF IInv, TypeOK, Ops, Remotes
  <2>6. OpenOK' /\ IntentOK'
    BY <2>1, <2>3 DEF IInv, OpenOK, IntentOK
  <2>7. OperationOK'
    <3>1. ~CommandsIgnore => ignored = {}
      BY <2>2
    <3>. QED
      BY <2>1, <2>3, <2>4, <3>1 DEF IInv, OperationOK
  <2>8. CleanedOK' /\ HeadOK' /\ DiffOK' /\ PatchesOK' /\ PulledOK' /\ MirrorOK'
    BY <2>1, <2>3 DEF CleanedOK, HeadOK, DiffOK, PatchesOK, PulledOK, MirrorOK, IInv, OperationOK, Pushing
  <2>9. StartedOK'
    BY <2>1, <2>3, <2>4 DEF IInv, StartedOK
  <2>. QED
    BY <2>5, <2>6, <2>7, <2>8, <2>9 DEF IInv
<1>. QED
  BY <1>1, <1>2

LEMMA ListUntrackedInv == ASSUME IInv, ListUntracked PROVE IInv'
<1>1. CASE Stops("failed")
  BY <1>1, StopsInv DEF ListUntracked
<1>2. CASE ~Stops("failed")
  <2>1. PICK added : added = Others(remote.index, remote.work, remote.ignored)
    OBVIOUS
  <2>2. op.pc = "list" /\ op' = [op EXCEPT !.pc = "pull", !.added = added]
        /\ UNCHANGED <<backend, local, remote, open, ghost, count>>
    BY <1>2, <2>1 DEF ListUntracked
  <2>3. op' \in Ops /\ op'.pc = "pull" /\ op'.result = op.result /\ op'.new = op.new /\ op'.added = added
    <3>1. "pull" \in Labels /\ op \in Ops /\ added \in SUBSET Paths
      BY <2>1, Typed DEF IInv, Labels, Others
    <3>. QED
      BY <2>2, <3>1 DEF Ops
  <2>4. TypeOK'
    BY <2>2, <2>3 DEF IInv, TypeOK, Ops
  <2>5. OpenOK' /\ IntentOK' /\ OperationOK'
    BY <2>2, <2>3 DEF IInv, OpenOK, IntentOK, OperationOK
  <2>6. CleanedOK' /\ HeadOK' /\ DiffOK' /\ PatchesOK' /\ MirrorOK'
    BY <2>2, <2>3 DEF CleanedOK, HeadOK, DiffOK, PatchesOK, MirrorOK, IInv, OperationOK, Pushing
  <2>7. StartedOK' /\ PulledOK'
    BY <2>1, <2>2, <2>3 DEF IInv, StartedOK, PulledOK
  <2>. QED
    BY <2>4, <2>5, <2>6, <2>7 DEF IInv
<1>. QED
  BY <1>1, <1>2

LEMMA PullDiffInv == ASSUME IInv, PullDiff PROVE IInv'
<1>1. PICK seen : seen = Visible(IntendToAdd(remote.index, op.added), remote.work)
  OBVIOUS
<1>2. PICK patch : patch = Diff(remote.ref, seen)
  OBVIOUS
<1>3. op.pc = "pull"
  BY DEF PullDiff
<1>4. \/ /\ op' = [op EXCEPT !.pc = "land", !.patch = patch]
         /\ open' = FALSE
         /\ UNCHANGED <<backend, local, remote, ghost, count>>
      \/ patch = NoPatch /\ Stops("ok")
      \/ Stops("failed")
  BY <1>1, <1>2 DEF PullDiff
<1>5. remote.index \in Trees /\ remote.work \in Trees /\ op.added \in SUBSET Paths /\ remote.ref \in Trees
  BY <1>3, Fields DEF IInv, OperationOK
<1>6. remote.index \in Indexes
  BY <1>5, TreesAreIndexes
<1>7. seen \in Trees
  BY <1>1, <1>5, <1>6, IndexFacts
<1>8. remote.ignored = {} => seen = remote.work
  <2>1. SUFFICES ASSUME remote.ignored = {} PROVE seen = remote.work
    OBVIOUS
  <2>2. op.added = Others(remote.index, remote.work, {})
    BY <1>3, <2>1 DEF IInv, PulledOK
  <2>3. PICK j \in Indexes : j = IntendToAdd(remote.index, op.added)
    BY <1>5, <1>6, IndexFacts
  <2>4. \A p \in Paths : j[p] = Absent => remote.work[p] = Absent
    BY <1>5, <1>6, <2>2, <2>3, OthersAdded
  <2>. QED
    BY <1>1, <1>5, <2>3, <2>4, IndexFacts
<1>9. CASE Stops("failed")
  BY <1>3, <1>9, StopsInv
<1>10. CASE patch = NoPatch /\ Stops("ok")
  <2>1. ASSUME ~ghost.moved, ~CommandsIgnore, NEW p \in Paths \ ghost.touched PROVE local.work[p] = remote.work[p]
    <3>1. seen = remote.work
      BY <1>8, <2>1 DEF IInv, OperationOK
    <3>2. DOMAIN patch = {q \in Paths : remote.ref[q] # seen[q]} /\ DOMAIN patch = {}
      <4>1. DOMAIN patch = {q \in Paths : remote.ref[q] # seen[q]}
        BY <1>2, <1>5, <1>7, DiffFacts
      <4>2. DOMAIN patch = {}
        BY <1>10, NoPatchFacts
      <4>. QED
        BY <4>1, <4>2
    <3>3. remote.ref[p] = remote.work[p]
      BY <3>1, <3>2
    <3>. QED
      BY <1>3, <2>1, <3>3 DEF IInv, StartedOK
  <2>. QED
    BY <1>3, <1>10, <2>1, StopsInv
<1>11. CASE /\ op' = [op EXCEPT !.pc = "land", !.patch = patch]
            /\ open' = FALSE
            /\ UNCHANGED <<backend, local, remote, ghost, count>>
  <2>1. op' \in Ops /\ op'.pc = "land" /\ op'.result = op.result /\ op'.new = op.new /\ op'.patch = patch
    <3>1. "land" \in Labels /\ op \in Ops /\ patch \in Patches
      BY <1>2, <1>5, <1>7, DiffFacts, Typed DEF IInv, Labels
    <3>. QED
      BY <1>11, <3>1 DEF Ops
  <2>2. TypeOK'
    BY <1>11, <2>1 DEF IInv, TypeOK, Ops
  <2>3. OpenOK' /\ IntentOK' /\ OperationOK'
    BY <1>3, <1>11, <2>1 DEF IInv, OpenOK, IntentOK, OperationOK
  <2>4. CleanedOK' /\ HeadOK' /\ DiffOK' /\ PatchesOK' /\ MirrorOK'
    BY <1>3, <2>1 DEF CleanedOK, HeadOK, DiffOK, PatchesOK, MirrorOK, IInv, OperationOK, Pushing
  <2>5. StartedOK'
    BY <1>3, <1>11, <2>1 DEF IInv, StartedOK
  <2>6. PulledOK'
    BY <1>2, <1>7, <1>8, <1>11, <2>1 DEF PulledOK
  <2>. QED
    BY <2>2, <2>3, <2>4, <2>5, <2>6 DEF IInv
<1>. QED
  BY <1>4, <1>9, <1>10, <1>11

(* What the pull's patch says of a path. *)
LEMMA LandFacts ==
  ASSUME IInv, op.pc \in {"land", "reject"}
  PROVE  /\ op.patch \in Patches /\ DOMAIN op.patch \subseteq Paths
         /\ \A p \in DOMAIN op.patch : op.patch[p].old = remote.ref[p]
         /\ remote.ignored = {} =>
              \A p \in Paths : /\ p \in DOMAIN op.patch => op.patch[p].new = remote.work[p]
                               /\ p \notin DOMAIN op.patch => remote.ref[p] = remote.work[p]
<1>1. PICK seen \in Trees : op.patch = Diff(remote.ref, seen) /\ (remote.ignored = {} => seen = remote.work)
  BY DEF IInv, PulledOK
<1>2. remote.ref \in Trees
  BY DEF IInv, OperationOK
<1>3. PICK ref \in Trees : ref = remote.ref
  BY <1>2
<1>4. PICK d : d = Diff(ref, seen)
  OBVIOUS
<1>5. d \in Patches /\ DOMAIN d = {p \in Paths : ref[p] # seen[p]}
  BY <1>4, DiffFacts
<1>6. \A p \in DOMAIN d : d[p].old = ref[p] /\ d[p].new = seen[p]
  BY <1>4, DiffFacts
<1>7. op.patch = d
  BY <1>1, <1>3, <1>4
<1>8. d \in Patches /\ DOMAIN d \subseteq Paths /\ \A p \in DOMAIN d : d[p].old = ref[p]
  BY <1>5, <1>6
<1>9. \A p \in Paths : (p \in DOMAIN d => d[p].new = seen[p]) /\ (p \notin DOMAIN d => ref[p] = seen[p])
  BY <1>5, <1>6
<1>. QED
  BY <1>1, <1>3, <1>7, <1>8, <1>9

(* Saving answers a path only of a whole patch. *)
LEMMA SaveFacts ==
  ASSUME IInv, op.pc = "land"
  PROVE  \A o \in SaveRejectedPatch :
           o.kept \in BOOLEAN /\ o.saved \in SUBSET Paths /\ (o.kept => o.saved = DOMAIN op.patch)
<1>1. local.saved \in SUBSET Paths
  BY Fields DEF IInv
<1>2. DOMAIN op.patch \subseteq Paths
  BY LandFacts
<1>3. ASSUME NEW o \in Unsaved PROVE o.kept = FALSE /\ o.saved \in SUBSET Paths
  <2>1. PICK s \in {local.saved} \cup SUBSET DOMAIN op.patch : o = [kept |-> FALSE, saved |-> s]
    BY DEF Unsaved
  <2>. QED
    BY <1>1, <1>2, <2>1
<1>4. ASSUME NEW o \in {[kept |-> TRUE, saved |-> DOMAIN op.patch]}
      PROVE  o.kept = TRUE /\ o.saved = DOMAIN op.patch
  OBVIOUS
<1>5. ASSUME NEW o \in SaveRejectedPatch
      PROVE  o.kept \in BOOLEAN /\ o.saved \in SUBSET Paths /\ (o.kept => o.saved = DOMAIN op.patch)
  <2>1. o \in Unsaved \/ o \in {[kept |-> TRUE, saved |-> DOMAIN op.patch]}
    BY <1>5 DEF SaveRejectedPatch
  <2>2. CASE o \in Unsaved
    BY <1>3, <2>2
  <2>3. CASE o \in {[kept |-> TRUE, saved |-> DOMAIN op.patch]}
    BY <1>2, <1>4, <2>3
  <2>. QED
    BY <2>1, <2>2, <2>3
<1>. QED
  BY <1>5

LEMMA LandInv == ASSUME IInv, Land PROVE IInv'
<1>1. op.pc = "land" /\ UNCHANGED <<backend, remote, open, ghost, count>>
  BY DEF Land
<1>2. local \in Locals /\ local.work \in Trees /\ op.patch \in Patches /\ DOMAIN op.patch \in SUBSET Paths
  BY <1>1, Fields, Typed, LandFacts DEF IInv
<1>3. CASE Fits(op.patch, local.work)
  <2>1. local' = [local EXCEPT !.work = Patched(op.patch, local.work)] /\ op' = Idle("ok")
    BY <1>3 DEF Land
  <2>2. Patched(op.patch, local.work) \in Trees
    BY <1>2, PatchedTyped
  <2>3. local' \in Locals /\ local'.index = local.index /\ local'.work = Patched(op.patch, local.work)
    BY <1>2, <2>1, <2>2 DEF Locals
  <2>4. op' \in Ops /\ op'.pc = "idle" /\ op'.result = "ok"
    BY <2>1, IdleFacts
  <2>5. TypeOK'
    BY <1>1, <2>3, <2>4 DEF IInv, TypeOK, Ops, Locals
  <2>6. OpenOK' /\ IntentOK'
    BY <1>1, <2>3, <2>4 DEF IInv, OpenOK, IntentOK, OperationOK
  <2>7. MirrorOK'
    <3>1. SUFFICES ASSUME ~ghost.moved, ~CommandsIgnore, NEW p \in Paths \ ghost.touched
                   PROVE  local'.work[p] = remote.work[p]
      BY <1>1 DEF MirrorOK
    <3>2. local'.work[p] = IF p \in DOMAIN op.patch THEN op.patch[p].new ELSE local.work[p]
      BY <2>3 DEF Patched
    <3>3. local.work[p] = remote.ref[p]
      BY <1>1, <3>1 DEF IInv, StartedOK
    <3>4. remote.ignored = {}
      BY <3>1 DEF IInv, OperationOK
    <3>. QED
      BY <1>1, <3>2, <3>3, <3>4, LandFacts
  <2>. QED
    BY <1>1, <2>4, <2>5, <2>6, <2>7, OverInv DEF IInv, OperationOK
<1>4. CASE ~Fits(op.patch, local.work)
  <2>0. PICK kept \in BOOLEAN, saved \in SUBSET Paths :
          /\ local' = [local EXCEPT !.saved = saved] /\ op' = [op EXCEPT !.pc = "reject", !.kept = kept]
          /\ kept => saved = DOMAIN op.patch
    <3>1. PICK o \in SaveRejectedPatch :
            local' = [local EXCEPT !.saved = o.saved] /\ op' = [op EXCEPT !.pc = "reject", !.kept = o.kept]
      BY <1>4 DEF Land
    <3>2. o.kept \in BOOLEAN /\ o.saved \in SUBSET Paths /\ (o.kept => o.saved = DOMAIN op.patch)
      BY <1>1, SaveFacts
    <3>. QED
      BY <3>1, <3>2
  <2>1. local' = [local EXCEPT !.saved = saved] /\ op' = [op EXCEPT !.pc = "reject", !.kept = kept]
    BY <2>0
  <2>2. local' \in Locals /\ local'.index = local.index /\ local'.work = local.work /\ local'.saved = saved
    BY <1>2, <2>1 DEF Locals
  <2>3. op' \in Ops /\ op'.pc = "reject" /\ op'.result = op.result /\ op'.patch = op.patch /\ op'.kept = kept
    <3>1. "reject" \in Labels
      BY DEF Labels
    <3>2. op \in Ops
      BY Typed DEF IInv
    <3>. QED
      BY <2>0, <3>1, <3>2 DEF Ops
  <2>4. TypeOK'
    BY <1>1, <2>2, <2>3 DEF IInv, TypeOK, Ops, Locals
  <2>5. OpenOK' /\ IntentOK' /\ OperationOK'
    BY <1>1, <2>2, <2>3 DEF IInv, OpenOK, IntentOK, OperationOK
  <2>6. CleanedOK' /\ HeadOK' /\ DiffOK' /\ PatchesOK' /\ MirrorOK'
    BY <1>1, <2>3 DEF CleanedOK, HeadOK, DiffOK, PatchesOK, MirrorOK, IInv, OperationOK, Pushing
  <2>7. StartedOK'
    BY <1>1, <2>2, <2>3 DEF IInv, StartedOK
  <2>8. PulledOK'
    BY <1>1, <2>0, <2>2, <2>3 DEF IInv, PulledOK
  <2>. QED
    BY <2>4, <2>5, <2>6, <2>7, <2>8 DEF IInv
<1>. QED
  BY <1>3, <1>4

(* What rejecting leaves: the patch where it fits, the user's files elsewhere. *)
LEMMA RejectFacts ==
  ASSUME IInv, Reject
  PROVE  /\ op.pc = "reject" /\ UNCHANGED <<backend, remote, open, ghost, count>>
         /\ local' \in Locals /\ local'.index = local.index
         /\ \A p \in Paths : local'.work[p] = IF p \in Fitting THEN op.patch[p].new ELSE local.work[p]
         /\ \/ DOMAIN op.patch \subseteq Fitting /\ op' = Idle("ok")
            \/ /\ local'.saved = local.saved /\ op' = [Idle("conflict") EXCEPT !.kept = op.kept]
               /\ \A p \in DOMAIN op.patch \ Fitting :
                    p \in local'.rej \/ Absent \in {op.patch[p].old, op.patch[p].new, local.work[p]}
<1> DEFINE unfit == DOMAIN op.patch \ Fitting
           rej == {p \in unfit : Absent \notin {op.patch[p].old, op.patch[p].new, local.work[p]}}
           work == [p \in Paths |-> IF p \in Fitting THEN op.patch[p].new ELSE local.work[p]]
           saved == IF unfit = {} /\ op.kept THEN {} ELSE local.saved
           over == IF unfit = {} THEN Idle("ok") ELSE [Idle("conflict") EXCEPT !.kept = op.kept]
<1>1. op.pc = "reject" /\ UNCHANGED <<backend, remote, open, ghost, count>>
  BY DEF Reject
<1>2. local' = [local EXCEPT !.work = work, !.rej = local.rej \cup rej, !.saved = saved]
      /\ op' = over
  BY DEF Reject
<1>3. local \in Locals /\ local.work \in Trees /\ local.rej \in SUBSET Paths /\ local.saved \in SUBSET Paths
  BY Fields, Typed DEF IInv
<1>4. unfit \subseteq Paths /\ rej \subseteq Paths
  BY <1>1, LandFacts
<1>5. work \in Trees
  <2>1. PICK D \in SUBSET Paths : op.patch \in [D -> [old : Contents \cup {Absent}, new : Contents \cup {Absent}]]
    BY <1>1, LandFacts DEF Patches
  <2>2. \A p \in Fitting : op.patch[p].new \in Contents \cup {Absent}
    BY <2>1 DEF Fitting
  <2>. QED
    BY <1>3, <2>2 DEF Trees
<1>6. \A p \in Paths : work[p] = IF p \in Fitting THEN op.patch[p].new ELSE local.work[p]
  OBVIOUS
<1>7. saved \in SUBSET Paths
  BY <1>3
<1>8. unfit = {} => DOMAIN op.patch \subseteq Fitting
  OBVIOUS
<1>9. /\ unfit = {} => over = Idle("ok")
      /\ unfit # {} => saved = local.saved /\ over = [Idle("conflict") EXCEPT !.kept = op.kept]
  OBVIOUS
<1>11. \A p \in DOMAIN op.patch \ Fitting : p \in rej \/ Absent \in {op.patch[p].old, op.patch[p].new, local.work[p]}
  OBVIOUS
<1> HIDE DEF unfit, rej, work, saved, over
<1>10. local' \in Locals /\ local'.index = local.index /\ local'.work = work /\ local'.saved = saved
       /\ local'.rej = local.rej \cup rej
  BY <1>2, <1>3, <1>4, <1>5, <1>7 DEF Locals
<1>. QED
  BY <1>1, <1>2, <1>6, <1>8, <1>9, <1>10, <1>11

LEMMA RejectInv == ASSUME IInv, Reject PROVE IInv'
<1>1. /\ op.pc = "reject" /\ UNCHANGED <<backend, remote, open, ghost, count>>
      /\ local' \in Locals /\ local'.index = local.index
      /\ \A p \in Paths : local'.work[p] = IF p \in Fitting THEN op.patch[p].new ELSE local.work[p]
      /\ \/ DOMAIN op.patch \subseteq Fitting /\ op' = Idle("ok")
         \/ op' = [Idle("conflict") EXCEPT !.kept = op.kept]
  BY RejectFacts
<1>2. PICK r \in {"ok", "conflict"} :
        /\ op' = Idle(r) \/ op' = [Idle(r) EXCEPT !.kept = op.kept]
        /\ r = "ok" => DOMAIN op.patch \subseteq Fitting
  BY <1>1
<1>3. op' \in Ops /\ op'.pc = "idle" /\ op'.result = r
  <2>1. Idle(r) \in Ops /\ Idle(r).pc = "idle" /\ Idle(r).result = r /\ op.kept \in BOOLEAN
    <3>1. op.kept \in BOOLEAN
      BY Typed DEF IInv, Ops
    <3>. QED
      BY <3>1, IdleFacts
  <2>2. CASE op' = Idle(r)
    BY <2>1, <2>2
  <2>3. CASE op' = [Idle(r) EXCEPT !.kept = op.kept]
    BY <2>1, <2>3 DEF Ops
  <2>. QED
    BY <1>2, <2>2, <2>3
<1>4. TypeOK'
  BY <1>1, <1>3 DEF IInv, TypeOK, Ops, Locals
<1>5. OpenOK' /\ IntentOK'
  BY <1>1, <1>3 DEF IInv, OpenOK, IntentOK, OperationOK
<1>6. MirrorOK'
  <2>1. SUFFICES ASSUME r = "ok", ~ghost.moved, ~CommandsIgnore, NEW p \in Paths \ ghost.touched
                 PROVE  local'.work[p] = remote.work[p]
    BY <1>1, <1>3 DEF MirrorOK
  <2>2. local'.work[p] = IF p \in DOMAIN op.patch THEN op.patch[p].new ELSE local.work[p]
    BY <1>1, <1>2, <2>1 DEF Fitting
  <2>3. local.work[p] = remote.ref[p]
    BY <1>1, <2>1 DEF IInv, StartedOK
  <2>4. remote.ignored = {}
    BY <2>1 DEF IInv, OperationOK
  <2>. QED
    BY <1>1, <2>2, <2>3, <2>4, LandFacts
<1>. QED
  BY <1>1, <1>3, <1>4, <1>5, <1>6, OverInv DEF IInv, OperationOK

LEMMA NextIInv == IInv /\ [Next]_vars => IInv'
<1>. SUFFICES ASSUME IInv, [Next]_vars PROVE IInv'
  OBVIOUS
<1>1. CASE User \/ Create \/ Begin \/ Command
  BY <1>1, UserSteps, CreateInv, BeginInv, CommandInv
<1>2. CASE Push
  BY <1>2, ResolveHeadInv, EnsureCommitInv, CheckoutInv, VerifyLFSInv, CleanInv, NameFilesInv, DiffFilesInv,
     RemovePreAppliedInv, ApplyStagedInv, ApplyUnstagedInv, SnapshotInv DEF Push
<1>3. CASE Pull
  BY <1>3, ListUntrackedInv, PullDiffInv, LandInv, RejectInv DEF Pull
<1>4. CASE Crash
  BY <1>4, StopsInv DEF Crash
<1>5. CASE UNCHANGED vars
  <2>1. UNCHANGED <<backend, local, remote, op, open, ghost, count>>
    BY <1>5 DEF vars
  <2>2. TypeOK'
    BY <2>1 DEF IInv, TypeOK
  <2>5. OpenOK' /\ IntentOK' /\ OperationOK'
    BY <2>1 DEF IInv, OpenOK, IntentOK, OperationOK
  <2>6. CleanedOK'
    BY <2>1 DEF IInv, CleanedOK, AtHead
  <2>3. HeadOK' /\ DiffOK' /\ StartedOK' /\ PulledOK' /\ MirrorOK'
    BY <2>1 DEF IInv, HeadOK, DiffOK, StartedOK, PulledOK, MirrorOK, GetHeadCommit
  <2>4. PatchesOK'
    <3>1. \A c : Leads(c)' = Leads(c) /\ Applied(c)' = Applied(c)
      BY <2>1 DEF Leads, Applied, AtHead
    <3>. QED
      BY <2>1, <3>1 DEF IInv, PatchesOK
  <2>. QED
    BY <2>2, <2>3, <2>4, <2>5, <2>6 DEF IInv
<1>. QED
  BY <1>1, <1>2, <1>3, <1>4, <1>5 DEF Next

LEMMA AlwaysIInv == Spec => []IInv
  BY InitIInv, NextIInv, PTL DEF Spec

-----------------------------------------------------------------------------
(* Both repositories, the operation and what the properties remember have their types. *)
THEOREM SyncTyped == Spec => []TypeOK
<1>1. IInv => TypeOK
  BY DEF IInv
<1>. QED
  BY <1>1, AlwaysIInv, PTL

(* Every way out of a push or a pull ends the section of hidden output. *)
THEOREM SectionsAreEnded == Spec => []SectionsEnd
<1>1. IInv => SectionsEnd
  BY DEF IInv, OpenOK, SectionsEnd
<1>. QED
  BY <1>1, AlwaysIInv, PTL

(* GenerateDirtyPatches takes its entries of add -N back whether it succeeds or not. *)
THEOREM IntentsAreUndone == Spec => []NoIntentLeft
<1>1. IInv => NoIntentLeft
  BY DEF IInv, IntentOK, NoIntentLeft
<1>. QED
  BY <1>1, AlwaysIInv, PTL

(* A command starts from the user's working copy, in an old sandbox and in a new one. *)
THEOREM CommandsSeeTheWorkingCopy == Spec => []CommandSeesWorkingCopy
<1>1. IInv => CommandSeesWorkingCopy
  BY DEF IInv, StartedOK, CommandSeesWorkingCopy
<1>. QED
  BY <1>1, AlwaysIInv, PTL

(***************************************************************************)
(* A pull that reports success leaves what is in the sandbox, unless a     *)
(* command made git ignore files there: git diff takes those for deleted.  *)
(***************************************************************************)
THEOREM PullsMirror == ~CommandsIgnore => (Spec => []PullMirrors)
<1>1. ~CommandsIgnore => (IInv => PullMirrors)
  BY DEF IInv, MirrorOK, PullMirrors
<1>2. CASE CommandsIgnore
  BY <1>2
<1>3. CASE ~CommandsIgnore
  <2>1. IInv => PullMirrors
    BY <1>1, <1>3
  <2>. QED
    BY <2>1, AlwaysIInv, PTL
<1>. QED
  BY <1>2, <1>3

(* Landing and rejecting overwrite only what the command started from. *)
THEOREM PullsOverwriteWhatWasSeen == Spec => OverwritesOnlyWhatWasSeen
<1>1. ASSUME IInv, [Next]_vars
      PROVE  (op.pc \in {"land", "reject"} /\ ~ghost.moved /\ count' = count) =>
               \A p \in Paths : local'.work[p] # local.work[p] /\ local.work[p] # Absent
                                  => local.work[p] = ghost.start[p]
  <2>1. SUFFICES ASSUME op.pc \in {"land", "reject"}, ~ghost.moved, count' = count, NEW p \in Paths,
                        local'.work[p] # local.work[p], local.work[p] # Absent
                 PROVE  local.work[p] = ghost.start[p]
    OBVIOUS
  <2>2. Land \/ Reject
    <3>1. ~User
      <4>1. \A n \in 0 .. MaxEdits : n + 1 # n
        BY DistinctAssumption
      <4>2. count \in Counts
        BY <1>1, Typed DEF IInv
      <4>3. \A l, s : ~UserStep(l, s)
        BY <2>1, <4>1, <4>2 DEF UserStep, Counts
      <4>. QED
        BY <4>3 DEF User, Edit, Stage, Untrack, Commit
    <3>. QED
      BY <1>1, <2>1, <3>1 DEF Next, Create, Begin, Push, Command, Pull, Crash, Stops, vars, ResolveHead, EnsureCommit,
         Checkout, VerifyLFS, Clean, NameFiles, DiffFiles, RemovePreApplied, ApplyStaged, ApplyUnstaged, Snapshot,
         ListUntracked, PullDiff
  <2>3. p \in DOMAIN op.patch /\ local.work[p] = op.patch[p].old
    <3>1. CASE Land
      <4>1. local \in Locals /\ local.work \in Trees /\ op.patch \in Patches
        BY <1>1, <2>1, Fields, Typed, LandFacts DEF IInv
      <4>2. CASE Fits(op.patch, local.work)
        <5>1. Patched(op.patch, local.work) \in Trees
          BY <4>1, PatchedTyped
        <5>2. local'.work = Patched(op.patch, local.work)
          BY <3>1, <4>1, <4>2, <5>1 DEF Land, Locals
        <5>. QED
          BY <2>1, <4>2, <5>2 DEF Patched, Fits
      <4>3. CASE ~Fits(op.patch, local.work)
        BY <2>1, <3>1, <4>1, <4>3 DEF Land, Locals
      <4>. QED
        BY <4>2, <4>3
    <3>2. CASE Reject
      BY <1>1, <2>1, <3>2, RejectFacts DEF Fitting
    <3>. QED
      BY <2>2, <3>1, <3>2
  <2>4. local.work[p] = remote.ref[p]
    BY <1>1, <2>1, <2>3, LandFacts
  <2>. QED
    BY <1>1, <2>1, <2>4 DEF IInv, StartedOK
<1>. QED
  BY <1>1, AlwaysIInv, PTL DEF Spec, OverwritesOnlyWhatWasSeen

(***************************************************************************)
(* A pull that does not fit keeps what does not land, or says that it has  *)
(* not, unless git has come to ignore it.                                  *)
(***************************************************************************)
THEOREM ConflictsAreNotLost == ~CommandsIgnore => (Spec => ConflictsAreKept)
<1> DEFINE Kept(p) ==
      \/ local'.work[p] = remote.work[p] \/ p \in local'.rej
      \/ op'.kept /\ p \in local'.saved
      \/ ~op'.kept /\ Absent \in {remote.work[p], remote.ref[p], local.work[p]}
<1>1. ASSUME ~CommandsIgnore, IInv, [Next]_vars
      PROVE  (op.pc = "reject" /\ op'.result = "conflict" /\ ~ghost.moved) =>
               \A p \in Paths :
                 remote.work[p] # ghost.start[p] /\ {remote.work[p], remote.ref[p]} # {Absent} => Kept(p)
  <2>1. SUFFICES ASSUME op.pc = "reject", op'.result = "conflict", ~ghost.moved, NEW p \in Paths,
                        remote.work[p] # ghost.start[p], {remote.work[p], remote.ref[p]} # {Absent}
                 PROVE  Kept(p)
    OBVIOUS
  <2>2. Reject
    <3>1. ~User
      <4>1. op.result = ""
        BY <1>1, <2>1 DEF IInv, OperationOK
      <4>2. \A l, s : ~UserStep(l, s)
        BY <2>1, <4>1 DEF UserStep
      <4>. QED
        BY <4>2 DEF User, Edit, Stage, Untrack, Commit
    <3>2. ~Crash /\ op' # op
      BY <1>1, <2>1, IdleFacts DEF Crash, Stops, IInv, OperationOK
    <3>. QED
      BY <1>1, <2>1, <3>1, <3>2 DEF Next, Create, Begin, Push, Command, Pull, vars, ResolveHead, EnsureCommit,
         Checkout, VerifyLFS, Clean, NameFiles, DiffFiles, RemovePreApplied, ApplyStaged, ApplyUnstaged, Snapshot,
         ListUntracked, PullDiff, Land
  <2>3. /\ local'.saved = local.saved /\ op'.kept = op.kept
        /\ \A q \in DOMAIN op.patch \ Fitting :
             q \in local'.rej \/ Absent \in {op.patch[q].old, op.patch[q].new, local.work[q]}
        /\ \A q \in Paths : local'.work[q] = IF q \in Fitting THEN op.patch[q].new ELSE local.work[q]
    <3>1. op' # Idle("ok")
      BY <2>1, IdleFacts
    <3>2. [Idle("conflict") EXCEPT !.kept = op.kept].kept = op.kept
      BY DEF Idle
    <3>. QED
      BY <1>1, <2>2, <3>1, <3>2, RejectFacts
  <2>4. op.kept \in BOOLEAN /\ (op.kept => local.saved = DOMAIN op.patch)
    BY <1>1, <2>1, Typed DEF IInv, PulledOK, Ops
  <2>5. remote.ref[p] # remote.work[p] /\ remote.ignored = {}
    <3>1. remote.ignored = {}
      BY <1>1 DEF IInv, OperationOK
    <3>2. remote.ref[p] # Absent => remote.ref[p] = ghost.start[p]
      BY <1>1, <2>1 DEF IInv, StartedOK
    <3>. QED
      BY <2>1, <3>1, <3>2
  <2>6. p \in DOMAIN op.patch /\ op.patch[p].old = remote.ref[p] /\ op.patch[p].new = remote.work[p]
    BY <1>1, <2>1, <2>5, LandFacts
  <2>7. CASE p \in Fitting
    <3>1. local'.work[p] = op.patch[p].new
      BY <2>3, <2>7
    <3>2. local'.work[p] = remote.work[p]
      BY <2>6, <3>1
    <3>. QED
      BY <3>2
  <2>8. CASE p \notin Fitting /\ op.kept
    <3>1. p \in local'.saved /\ op'.kept
      BY <2>3, <2>4, <2>6, <2>8
    <3>. QED
      BY <3>1
  <2>9. CASE p \notin Fitting /\ ~op.kept
    <3>1. ~op'.kept
      BY <2>3, <2>9
    <3>2. p \in local'.rej \/ Absent \in {op.patch[p].old, op.patch[p].new, local.work[p]}
      BY <2>3, <2>6, <2>9
    <3>3. p \in local'.rej \/ Absent \in {remote.work[p], remote.ref[p], local.work[p]}
      BY <2>6, <3>2
    <3>. QED
      BY <3>1, <3>3
  <2>. QED
    BY <2>4, <2>7, <2>8, <2>9
<1> HIDE DEF Kept
<1>2. CASE CommandsIgnore
  BY <1>2
<1>3. CASE ~CommandsIgnore
  <2>1. IInv /\ [Next]_vars =>
          ((op.pc = "reject" /\ op'.result = "conflict" /\ ~ghost.moved) =>
             \A p \in Paths :
               remote.work[p] # ghost.start[p] /\ {remote.work[p], remote.ref[p]} # {Absent} => Kept(p))
    BY <1>1, <1>3
  <2>. QED
    BY <2>1, AlwaysIInv, PTL DEF Spec, ConflictsAreKept, Kept
<1>. QED
  BY <1>2, <1>3
=============================================================================
