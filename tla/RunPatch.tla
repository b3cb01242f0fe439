------------------------------ MODULE RunPatch ------------------------------
(***************************************************************************)
(* The patch of uncommitted changes that rwx run uploads (InitiateRun and  *)
(* removePathsOnSignal, internal/cli/service_run.go): it is written to     *)
(* .patches/<base commit> in the .rwx directory, read back with the rest   *)
(* of the directory, uploaded, and the whole of .patches is removed when   *)
(* the command ends or a signal arrives.  Runs in one project share the    *)
(* directory; without a .rwx directory a run makes one of its own.         *)
(***************************************************************************)
EXTENDS Naturals, FiniteSets

CONSTANTS
  Runs,       \* commands
  Commits,    \* base commits on the remote
  MaxSignals, \* bound: signals that can be handled
  MaxKills    \* bound: signals that cannot

ASSUME CommitsAssumption == Commits # {}

VARIABLES
  patch,      \* of a directory and a commit: does the file exist, whose bytes are in it
  dirs,       \* the .patches directories that exist
  run,        \* the main goroutine: step, choices, results
  handler,    \* the goroutine of removePathsOnSignal
  signals, kills

rpVars == <<patch, dirs, run, handler, signals, kills>>

Shared == "rwx"
Dirs == {Shared} \cup Runs
NoPatch == [exists |-> FALSE, of |-> {}]
NoRun == [at |-> "rest", dir |-> Shared, commit |-> CHOOSE c \in Commits : TRUE, dirty |-> FALSE,
         wanted |-> FALSE, usable |-> FALSE, utf8 |-> TRUE, linked |-> FALSE, sent |-> FALSE,
         error |-> FALSE, upload |-> {}, alone |-> TRUE, raced |-> FALSE]

RunPatchTypeOK ==
  /\ patch \in [Dirs -> [Commits -> [exists : BOOLEAN, of : SUBSET Runs]]]
  /\ dirs \subseteq Dirs
  /\ \A r \in Runs :
       /\ run[r].at \in {"rest", "generate", "mkdir", "open", "fill", "read", "upload", "sent", "stop", "remove", "ended"}
       /\ run[r].dir \in {Shared, r} /\ run[r].commit \in Commits
       /\ \A f \in {"dirty", "wanted", "usable", "utf8", "linked", "sent", "error", "alone", "raced"} : run[r][f] \in BOOLEAN
       /\ run[r].upload \subseteq SUBSET Runs
  /\ handler \in [Runs -> {"off", "armed", "caught", "raise"}]
  /\ signals \in 0 .. MaxSignals /\ kills \in 0 .. MaxKills

RunPatchInit ==
  /\ patch = [d \in Dirs |-> [c \in Commits |-> NoPatch]]
  /\ dirs = {}
  /\ run = [r \in Runs |-> NoRun]
  /\ handler = [r \in Runs |-> "off"]
  /\ signals = 0 /\ kills = 0

Going(r) == run[r].at \notin {"rest", "ended"}
RunAt(r, step) == run[r].at = step
Set(r, rec) == run' = [run EXCEPT ![r] = rec]
Ended(r, raced) == [NoRun EXCEPT !.at = "ended", !.utf8 = run[r].utf8, !.raced = raced]
Clear(d) == [patch EXCEPT ![d] = [c \in Commits |-> NoPatch]]

(* os.RemoveAll of a .patches directory: files open in it lose their name. *)
RemoveAll(r, rec) ==
  LET d == run[r].dir
      unlink(k) == IF Going(k) /\ run[k].dir = d THEN [run[k] EXCEPT !.linked = FALSE] ELSE run[k]
  IN  /\ patch' = Clear(d) /\ dirs' = dirs \ {d}
      /\ run' = [k \in Runs |-> IF k = r THEN [rec EXCEPT !.linked = FALSE] ELSE unlink(k)]

-----------------------------------------------------------------------------
(***************************************************************************)
(* From the checks of the repository to the registered handler.  usable:   *)
(* a version control system is installed, a repository is there and shares *)
(* a commit with its remote, else an error message says so.  wanted:       *)
(* neither RWX_DISABLE_GIT_PATCH nor a git init parameter is given.        *)
(***************************************************************************)
BeginRun(r) ==
  /\ RunAt(r, "rest")
  /\ \E d \in {Shared, r}, c \in Commits, dirty, wanted, usable, utf8 \in BOOLEAN :
       /\ dirty \/ utf8
       /\ LET alone == patch[d] = [x \in Commits |-> NoPatch] /\ \A k \in Runs : Going(k) => run[k].dir # d
              me == [NoRun EXCEPT !.at = "generate", !.dir = d, !.commit = c, !.dirty = dirty, !.wanted = wanted,
                                 !.usable = usable, !.utf8 = utf8, !.error = ~usable, !.alone = alone]
          IN  run' = [k \in Runs |-> IF k = r THEN me
                                     ELSE IF Going(k) /\ run[k].dir = d THEN [run[k] EXCEPT !.alone = FALSE] ELSE run[k]]
  /\ handler' = [handler EXCEPT ![r] = "armed"]
  /\ UNCHANGED <<patch, dirs, signals, kills>>

Warn(r) == [run[r] EXCEPT !.at = "read", !.error = TRUE]

(* GeneratePatchFile: nothing to patch, a command of git fails, changes to LFS files end the run.
   Faulty: a failure is not reported to the server. *)
GenerateQuietly(r) ==
  /\ RunAt(r, "generate")
  /\ \/ ~(run[r].usable /\ run[r].wanted /\ run[r].dirty) /\ Set(r, [run[r] EXCEPT !.at = "read"])
     \/ run[r].usable /\ run[r].wanted /\ Set(r, [run[r] EXCEPT !.at = "read"])
     \/ run[r].usable /\ run[r].wanted /\ run[r].dirty /\ Set(r, [run[r] EXCEPT !.at = "mkdir"])
  /\ UNCHANGED <<patch, dirs, handler, signals, kills>>
Generate(r) ==
  /\ RunAt(r, "generate")
  /\ \/ ~(run[r].usable /\ run[r].wanted /\ run[r].dirty) /\ Set(r, [run[r] EXCEPT !.at = "read"])
     \/ run[r].usable /\ run[r].wanted /\ Set(r, Warn(r))
     \/ run[r].usable /\ run[r].wanted /\ run[r].dirty /\ Set(r, [run[r] EXCEPT !.at = "mkdir"])
     \/ Set(r, [run[r] EXCEPT !.at = "stop"])
  /\ UNCHANGED <<patch, dirs, handler, signals, kills>>

(* PatchResult.WriteFile: the directory, the file, its contents. *)
MakeDir(r) ==
  /\ RunAt(r, "mkdir")
  /\ \/ dirs' = dirs \cup {run[r].dir} /\ Set(r, [run[r] EXCEPT !.at = "open"])
     \/ Set(r, Warn(r)) /\ UNCHANGED dirs
  /\ UNCHANGED <<patch, handler, signals, kills>>
OpenFile(r) ==
  /\ RunAt(r, "open")
  /\ \/ /\ run[r].dir \in dirs
        /\ patch' = [patch EXCEPT ![run[r].dir][run[r].commit] = [exists |-> TRUE, of |-> {}]]
        /\ Set(r, [run[r] EXCEPT !.at = "fill", !.linked = TRUE])
     \/ Set(r, Warn(r)) /\ UNCHANGED patch
  /\ UNCHANGED <<dirs, handler, signals, kills>>
FillFile(r) ==
  /\ RunAt(r, "fill")
  /\ \/ /\ Set(r, [run[r] EXCEPT !.at = "read", !.sent = TRUE, !.linked = FALSE])
        /\ IF run[r].linked
             THEN patch' = [patch EXCEPT ![run[r].dir][run[r].commit].of = @ \cup {r}]
             ELSE UNCHANGED patch
     \/ Set(r, [Warn(r) EXCEPT !.linked = FALSE]) /\ UNCHANGED patch
  /\ UNCHANGED <<dirs, handler, signals, kills>>

(***************************************************************************)
(* The directory is read, again after the run definition was given a base  *)
(* or package versions; a patch that is not valid UTF-8 is left out, with  *)
(* a warning.  Too large a directory or a file that vanishes while it is   *)
(* read ends the run, but the second reading takes such a file for a       *)
(* directory that is not there and uploads nothing of it.                  *)
(***************************************************************************)
PatchesRead(r) ==
  {patch[run[r].dir][c].of : c \in {x \in Commits : patch[run[r].dir][x].exists
                                     /\ \A k \in patch[run[r].dir][x].of : run[k].utf8}}
FilesMayVanish(r) == ~run[r].alone \/ handler[r] \in {"caught", "raise"}
ReadDirectory(r) ==
  /\ RunAt(r, "read") \/ RunAt(r, "upload")
  /\ \/ Set(r, [run[r] EXCEPT !.at = "upload", !.upload = PatchesRead(r)])
     \/ RunAt(r, "upload") /\ FilesMayVanish(r) /\ Set(r, [run[r] EXCEPT !.upload = {}])
     \/ Set(r, [run[r] EXCEPT !.at = "stop"])
  /\ UNCHANGED <<patch, dirs, handler, signals, kills>>

(* InitiateRun of the server; a deferred run is polled for until it is created. *)
Upload(r) ==
  /\ RunAt(r, "upload")
  /\ \/ Set(r, [run[r] EXCEPT !.at = "sent"])
     \/ Set(r, [run[r] EXCEPT !.at = "stop"])
  /\ UNCHANGED <<patch, dirs, handler, signals, kills>>
AwaitDeferred(r) ==
  /\ RunAt(r, "sent")
  /\ Set(r, [run[r] EXCEPT !.at = "stop"])
  /\ UNCHANGED <<patch, dirs, handler, signals, kills>>

(* The deferred calls, the last one first: the handler stops, the files are removed. *)
StopHandler(r) ==
  /\ RunAt(r, "stop")
  /\ Set(r, [run[r] EXCEPT !.at = "remove"])
  /\ handler' = [handler EXCEPT ![r] = IF @ = "armed" THEN "off" ELSE @]
  /\ UNCHANGED <<patch, dirs, signals, kills>>
RemovePatches(r) ==
  /\ RunAt(r, "remove")
  /\ RemoveAll(r, Ended(r, run[r].raced))
  /\ handler' = [handler EXCEPT ![r] = "off"]
  /\ UNCHANGED <<signals, kills>>

-----------------------------------------------------------------------------
(* SIGINT or SIGTERM: to the handler, or, when it is off, at once the end. *)
Signal(r) ==
  /\ Going(r) /\ signals < MaxSignals /\ signals' = signals + 1
  /\ IF handler[r] = "armed"
       THEN handler' = [handler EXCEPT ![r] = "caught"] /\ UNCHANGED run
       ELSE /\ handler[r] = "off" /\ UNCHANGED handler
            /\ Set(r, Ended(r, TRUE))
  /\ UNCHANGED <<patch, dirs, kills>>

(* The handler removes the files while the main goroutine goes on, then raises the signal again.
   Faulty: it only raises it. *)
OnlyRaise(r) ==
  /\ Going(r) /\ handler[r] = "caught" /\ handler' = [handler EXCEPT ![r] = "raise"]
  /\ UNCHANGED <<patch, dirs, run, signals, kills>>
HandleSignal(r) ==
  /\ Going(r) /\ handler[r] = "caught"
  /\ RemoveAll(r, [run[r] EXCEPT !.raced = run[r].at \in {"generate", "mkdir", "open", "fill"}])
  /\ handler' = [handler EXCEPT ![r] = "raise"]
  /\ UNCHANGED <<signals, kills>>
Raise(r) ==
  /\ Going(r) /\ handler[r] = "raise"
  /\ handler' = [handler EXCEPT ![r] = "off"]
  /\ Set(r, Ended(r, run[r].raced))
  /\ UNCHANGED <<patch, dirs, signals, kills>>

Kill(r) ==
  /\ Going(r) /\ kills < MaxKills /\ kills' = kills + 1
  /\ Set(r, Ended(r, TRUE))
  /\ handler' = [handler EXCEPT ![r] = "off"]
  /\ UNCHANGED <<patch, dirs, signals>>

RunPatchNext ==
  \E r \in Runs :
    \/ BeginRun(r) \/ Generate(r) \/ MakeDir(r) \/ OpenFile(r) \/ FillFile(r) \/ ReadDirectory(r) \/ Upload(r)
    \/ AwaitDeferred(r) \/ StopHandler(r) \/ RemovePatches(r) \/ Signal(r) \/ HandleSignal(r) \/ Raise(r) \/ Kill(r)

RunPatchSpec == RunPatchInit /\ [][RunPatchNext]_rpVars

-----------------------------------------------------------------------------
Bytes(r) == \E d \in Dirs, c \in Commits : r \in patch[d][c].of

(***************************************************************************)
(* No copy of the user's changes stays behind a run that ended, by itself  *)
(* or by a signal, unless the signal came while the patch was still being  *)
(* made or after the handler had stopped, or could not be handled.         *)
(***************************************************************************)
PatchIsRemoved == \A r \in Runs : RunAt(r, "ended") /\ ~run[r].raced => ~Bytes(r)

(***************************************************************************)
(* What a run says of its patch is what it uploads: its own patch, whole,  *)
(* when it says it sent one, and none, or an error message to the server,  *)
(* when it says nothing.  It needs the .patches directory to itself, found *)
(* empty, no signal before the end of the upload, and changes that are     *)
(* valid UTF-8.  Wanted changes that are not sent are always an error.     *)
(***************************************************************************)
UploadIsAsSaid ==
  \A r \in Runs : RunAt(r, "sent") =>
    /\ run[r].alone /\ run[r].utf8 /\ handler[r] = "armed" =>
         IF run[r].sent THEN run[r].upload = {{r}} ELSE run[r].error \/ run[r].upload = {}
    /\ run[r].dirty /\ run[r].wanted /\ ~run[r].sent => run[r].error
=============================================================================
