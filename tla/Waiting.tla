------------------------------ MODULE Waiting ------------------------------
(***************************************************************************)
(* The commands that wait for RWX Cloud: run, dispatch, results and debug  *)
(* (cmd/rwx, service_wait.go, service_deferred.go, service_dispatch.go,    *)
(* service_debug.go), image build, push and pull (service_image_*.go), and *)
(* login (service_login.go).  Each polls until the service has gone on;    *)
(* only the polls of images have a deadline.  Where the service waits for  *)
(* a person or is stuck, `hung` holds from the start.  Browser, output and *)
(* spinners are left out, and so is what a poll that says "not yet" does:  *)
(* it changes nothing.                                                     *)
(***************************************************************************)
EXTENDS Naturals

CONSTANTS Tags   \* tags given to a pulled image

ASSUME TagsAssumption == Tags \in Nat

VARIABLES
  command,   \* its kind and options
  step,      \* the call it is at
  outcome,   \* "" while it goes on; then "ok", "failed", "error", "timeout", "panic"
  clock,     \* of the context with a deadline: "unset", "running", "over"
  run,       \* the run; for images the task that builds the image
  push,      \* the push: "none", "in_progress", "succeeded", "failed"
  grant,     \* the login's code: "none", "pending", "authorized", "consumed", "expired"
  got,       \* what the command has on this machine: "image", "token"
  tagged,    \* tags set
  hung       \* the service does not go on

waitVars == <<command, step, outcome, clock, run, push, grant, got, tagged, hung>>
service == <<run, push, grant>>
effects == <<clock, got, tagged>>

Commands ==
  {c \in [kind : {"run", "dispatch", "results", "debug", "build", "push", "pull", "login"},
          wait : BOOLEAN, debug : BOOLEAN, pull : BOOLEAN, push : BOOLEAN] :
     /\ c.wait => c.kind \in {"run", "dispatch", "results", "push"}
     /\ c.debug => c.kind \in {"run", "dispatch"}
     /\ c.pull => c.kind = "build"
     /\ c.push => c.pull}

Started == {"running", "breakpoint", "failing", "succeeded", "failed"}
Completed == {"succeeded", "failed"}

FirstStep(c) ==
  CASE c.kind = "results" -> "status" [] c.kind = "debug" -> "debug"
    [] c.kind = "pull" -> "whoami" [] c.kind = "push" -> "pushTask" [] OTHER -> "start"

WaitingInit ==
  /\ command \in Commands /\ step = FirstStep(command) /\ outcome = ""
  /\ run \in IF step \in {"start", "whoami"} THEN {"none"} ELSE {"running", "failed"}
  /\ clock = IF step = "pushTask" THEN "running" ELSE "unset"
  /\ push = "none" /\ grant = "none" /\ got = {} /\ tagged = 0
  /\ hung \in BOOLEAN

Ends(result) == step' = "end" /\ outcome' = result
GoesTo(next) == step' = next /\ outcome' = IF next = "end" THEN "ok" ELSE outcome

(* What follows once the run exists. *)
AfterStart ==
  CASE command.kind = "build" -> "open" [] command.debug -> "debug"
    [] command.wait /\ ~command.debug -> "status" [] OTHER -> "end"

(* Any call may fail, an answer may be one the command cannot use (a poll that is
   not completed and gives no backoff, an unknown status), a prompt may be refused. *)
CallFails == step # "end" /\ Ends("error") /\ UNCHANGED <<command, effects, service, hung>>

-----------------------------------------------------------------------------
(* Runs *)

(* InitiateRun creates the run or is told that it will begin shortly. *)
StartRun ==
  /\ step = "start" /\ command.kind \in {"run", "build"}
  /\ \/ run' = "running" /\ GoesTo(AfterStart)
     \/ run' = "pending" /\ GoesTo("deferred")
  /\ UNCHANGED <<command, effects, push, grant, hung>>

StartDispatch ==
  /\ step = "start" /\ command.kind = "dispatch"
  /\ run' = "pending" /\ GoesTo("dispatch")
  /\ UNCHANGED <<command, effects, push, grant, hung>>

(* awaitDeferredRun and GetDispatch, until there is a run or there never will be one. *)
AwaitRun ==
  /\ step \in {"deferred", "dispatch"}
  /\ \/ run \in Started /\ GoesTo(AfterStart)
     \/ run = "refused" /\ Ends("error")
  /\ UNCHANGED <<command, effects, service, hung>>

(* With --fail-fast a run with failures is reported as completed.  Faulty result:
   being completed is taken for success. *)
StatusOf(r) == IF r = "failing" THEN "failed" ELSE r
AnyResult(status) == "ok"
ResultOf(status) == IF status = "succeeded" THEN "ok" ELSE "failed"
GetRunStatus ==
  /\ step = "status"
  /\ \/ run \in Completed \cup {"failing"} /\ Ends(ResultOf(StatusOf(run)))
     \/ ~command.wait /\ run \notin Completed /\ Ends("ok")
  /\ UNCHANGED <<command, effects, service, hung>>

(* run --debug and dispatch --debug ask until there is a breakpoint or the run is
   over, which is no error; rwx debug asks once. *)
DebugTask ==
  /\ step = "debug"
  /\ \/ run = "breakpoint" /\ GoesTo("session")
     \/ run \in Completed /\ Ends(IF command.kind = "debug" THEN "error" ELSE "ok")
     \/ run \in {"running", "failing"} /\ command.kind = "debug" /\ Ends("error")
  /\ UNCHANGED <<command, effects, service, hung>>

(* The person leaves the session. *)
LeaveSession ==
  /\ step = "session" /\ Ends("ok")
  /\ UNCHANGED <<command, effects, service, hung>>

-----------------------------------------------------------------------------
(* Images *)

OpenBuild ==
  /\ step = "open" /\ GoesTo("task") /\ clock' = "running"
  /\ UNCHANGED <<command, got, tagged, service, hung>>

(* The task's status; an answer under way when the time is over still counts. *)
TaskStatus ==
  /\ step \in {"task", "pushTask"}
  /\ \/ run = "succeeded" /\ GoesTo(IF step = "task" THEN "whoami" ELSE "startPush")
     \/ run = "failed" /\ Ends("failed")
  /\ UNCHANGED <<command, effects, service, hung>>

(* The push's wait for the task does not look whether the answer has a backoff. *)
NoBackoff ==
  /\ step = "pushTask" /\ run \in {"running", "breakpoint"} /\ Ends("panic")
  /\ UNCHANGED <<command, effects, service, hung>>

(* The context is over: looked at before every poll, and by Docker.  Faulty: by
   Docker only. *)
OnlyDockerTimesOut ==
  /\ step \in {"pull", "tag"} /\ clock = "over" /\ Ends("timeout")
  /\ UNCHANGED <<command, effects, service, hung>>
TimesOut ==
  /\ step \in {"task", "pushTask", "pull", "tag"} /\ clock = "over" /\ Ends("timeout")
  /\ UNCHANGED <<command, effects, service, hung>>

Whoami ==
  /\ step = "whoami"
  /\ GoesTo(IF command.pull \/ command.kind = "pull" THEN "pull" ELSE "end")
  /\ clock' = IF command.kind = "pull" THEN "running" ELSE clock
  /\ UNCHANGED <<command, got, tagged, service, hung>>

Pull ==
  /\ step = "pull" /\ GoesTo("tag") /\ got' = got \cup {"image"}
  /\ UNCHANGED <<command, clock, tagged, service, hung>>

(* The tags one by one, then the push, with a time of its own for the task. *)
Tag ==
  /\ step = "tag"
  /\ IF tagged < Tags
       THEN tagged' = tagged + 1 /\ UNCHANGED <<step, outcome, clock>>
       ELSE /\ GoesTo(IF command.push THEN "pushTask" ELSE "end")
            /\ clock' = IF command.push THEN "running" ELSE clock
            /\ UNCHANGED tagged
  /\ UNCHANGED <<command, got, service, hung>>

(* A build always waits for its push. *)
StartImagePush ==
  /\ step = "startPush" /\ push' = "in_progress"
  /\ GoesTo(IF command.wait \/ command.kind = "build" THEN "pushStatus" ELSE "end")
  /\ UNCHANGED <<command, effects, run, grant, hung>>

ImagePushStatus ==
  /\ step = "pushStatus" /\ push \in {"succeeded", "failed"} /\ Ends(ResultOf(push))
  /\ UNCHANGED <<command, effects, service, hung>>

-----------------------------------------------------------------------------
(* Login *)

ObtainAuthCode ==
  /\ step = "start" /\ command.kind = "login"
  /\ grant' = "pending" /\ GoesTo("token")
  /\ UNCHANGED <<command, effects, run, push, hung>>

(* The token is handed out once. *)
AcquireToken ==
  /\ step = "token"
  /\ \/ /\ grant = "authorized" /\ grant' = "consumed"
        /\ got' = got \cup {"token"} /\ Ends("ok")
     \/ /\ grant \in {"consumed", "expired"} /\ Ends("error")
        /\ UNCHANGED <<grant, got>>
  /\ UNCHANGED <<command, clock, tagged, run, push, hung>>

-----------------------------------------------------------------------------
(* The service, the network and the clock *)

(* An answer that is lost under way is asked for again by the retries of GET. *)
AnswerIsLost ==
  /\ step = "token" /\ grant = "authorized" /\ grant' = "consumed"
  /\ UNCHANGED <<command, step, outcome, effects, run, push, hung>>

RunMoves ==
  /\ ~hung
  /\ \/ run = "pending" /\ run' \in {"running", "refused"}
     \/ run = "running" /\ run' \in {"breakpoint", "failing", "succeeded", "failed"}
     \/ run = "breakpoint" /\ run' \in {"succeeded", "failed"}
     \/ run = "failing" /\ run' = "failed"
  /\ UNCHANGED <<command, step, outcome, effects, push, grant, hung>>

PushMoves ==
  /\ ~hung /\ push = "in_progress" /\ push' \in {"succeeded", "failed"}
  /\ UNCHANGED <<command, step, outcome, effects, run, grant, hung>>

GrantMoves ==
  /\ ~hung /\ grant = "pending" /\ grant' \in {"authorized", "consumed", "expired"}
  /\ UNCHANGED <<command, step, outcome, effects, run, push, hung>>

TimePasses ==
  /\ clock = "running" /\ clock' = "over"
  /\ UNCHANGED <<command, step, outcome, got, tagged, service, hung>>

(* What happens as long as calls are answered; the person's and Docker's steps are not in it. *)
Client ==
  \/ StartRun \/ StartDispatch \/ AwaitRun \/ GetRunStatus \/ DebugTask
  \/ OpenBuild \/ TaskStatus \/ TimesOut \/ Whoami \/ StartImagePush \/ ImagePushStatus
  \/ ObtainAuthCode \/ AcquireToken
Cloud == RunMoves \/ PushMoves \/ GrantMoves
WaitingNext ==
  \/ Client \/ CallFails \/ LeaveSession \/ NoBackoff \/ Pull \/ Tag
  \/ AnswerIsLost \/ Cloud \/ TimePasses

WaitingSpec == WaitingInit /\ [][WaitingNext]_waitVars

-----------------------------------------------------------------------------
(***************************************************************************)
(* A command that reports success has what it was to wait for: its run or  *)
(* its push succeeded, the image is here with every tag, the token is      *)
(* stored; nothing is pushed from a task that has not succeeded, and no    *)
(* failure is reported of what succeeded.                                  *)
(***************************************************************************)
SuccessIsEarned ==
  /\ outcome = "ok" =>
       /\ command.kind \in {"run", "dispatch"} => run \in Started
       /\ command.kind = "build" \/ (command.wait /\ ~command.debug) => run = "succeeded"
       /\ command.pull \/ command.kind = "pull" => "image" \in got /\ tagged = Tags
       /\ command.kind = "push" \/ command.push => push # "none"
       /\ command.push \/ (command.kind = "push" /\ command.wait) => push = "succeeded"
       /\ command.kind = "login" => "token" \in got
  /\ push # "none" => run = "succeeded"
  /\ outcome = "failed" => "failed" \in {StatusOf(run), push}

(***************************************************************************)
(* A command goes on waiting for good only while the service is stuck, and *)
(* then only in the waits that have no deadline: for a deferred run, a     *)
(* dispatch, a run's result, a breakpoint, a push, a login.                *)
(***************************************************************************)
WaitsEnd ==
  <>[](\/ step \in {"end", "session"}
       \/ hung /\ step \in {"deferred", "dispatch", "status", "debug", "pushStatus", "token"})
=============================================================================
