--------------------------- MODULE ServicesProofs ---------------------------
(***************************************************************************)
(* The commands without shared local state, for any number of files, tags, *)
(* tool caches, parameters, versions, artifacts and commits.               *)
(***************************************************************************)
EXTENDS LintCheck, Waiting, Artifacts, RetryChoice, RunDefinition, BaseCommit, FiniteSetTheorems,
        SequenceTheorems, WellFoundedInduction, TLAPS

-----------------------------------------------------------------------------
(* Lint.  The requests go through the files in order, and only the path with
   an answer for every one of them leads to the writing of edits. *)
CheckStates == [at : {"ask", "send", "wait", "exit", "end", "write", "done"},
                what : {"initialize", "diagnostic", "codeAction", "shutdown"},
                file : Nat, id : Nat, failed : BOOLEAN]
Diagnosed(c) ==
  /\ c.what = "diagnostic" => c.file \in Documents /\ 1 .. c.file - 1 \subseteq diagnosed
  /\ c.what = "codeAction" => c.file \in Documents /\ 1 .. c.file \subseteq diagnosed
  /\ c.what = "shutdown" /\ ~c.failed => diagnosed = Documents
Passes(c) ==
  /\ c.failed \/ c.at \in {"exit", "end", "write", "done"} => c.what = "shutdown"
  /\ c.at = "write" => ~c.failed
LintInv ==
  /\ check \in CheckStates /\ diagnosed \subseteq Documents
  /\ Diagnosed(check) /\ Passes(check)
  /\ written # {} => check.at \in {"write", "done"} /\ ~check.failed

LEMMA LintInit == LintCheckInit => LintInv
<1>. SUFFICES ASSUME LintCheckInit PROVE LintInv
  OBVIOUS
<1>1. PICK c : c = check
  OBVIOUS
<1>2. c \in CheckStates /\ c.at = "ask" /\ c.what = "initialize" /\ ~c.failed
  BY <1>1 DEF LintCheckInit, CheckStates
<1>3. Diagnosed(c) /\ Passes(c)
  BY <1>2 DEF Diagnosed, Passes
<1>4. written = {} /\ diagnosed = {}
  BY DEF LintCheckInit
<1>. QED
  BY <1>1, <1>2, <1>3, <1>4 DEF LintInv

LEMMA AskFacts ==
  ASSUME LintInv, NEW what \in {"diagnostic", "codeAction", "shutdown"}, NEW file \in Nat,
         NEW c, c = Ask(what, file)
  PROVE  c \in CheckStates /\ c.at = "ask" /\ c.what = what /\ c.file = file /\ c.failed = check.failed
  BY DEF Ask, LintInv, CheckStates

LEMMA AfterFacts ==
  ASSUME LintInv, NEW file \in 0 .. YamlFiles, NEW c, c = After(file)
  PROVE  /\ c \in CheckStates /\ c.at = "ask" /\ c.failed = check.failed
         /\ IF file < YamlFiles THEN c.what = "diagnostic" /\ c.file = file + 1 ELSE c.what = "shutdown"
<1>. USE YamlFilesAssumption
<1>1. CASE file < YamlFiles
  BY <1>1, AskFacts DEF After
<1>2. CASE ~(file < YamlFiles)
  BY <1>2, AskFacts DEF After
<1>. QED
  BY <1>1, <1>2

LEMMA FailedFacts ==
  ASSUME LintInv, NEW c, c = Failed
  PROVE  /\ c \in CheckStates /\ c.what = "shutdown" /\ c.at # "write"
         /\ check.what = "shutdown" => c.failed = check.failed
         /\ check.what # "shutdown" => c.failed
<1>1. CASE check.what = "shutdown"
  BY <1>1 DEF Failed, LintInv, CheckStates
<1>2. CASE check.what # "shutdown"
  <2>1. PICK d : d = Ask("shutdown", 1)
    OBVIOUS
  <2>2. d \in CheckStates /\ d.at = "ask" /\ d.what = "shutdown" /\ c = [d EXCEPT !.failed = TRUE]
    BY <1>2, <2>1, AskFacts DEF Failed
  <2>. QED
    BY <1>2, <2>2 DEF CheckStates
<1>. QED
  BY <1>1, <1>2

LEMMA Covered ==
  ASSUME NEW n \in Documents, NEW seen \in SUBSET Documents, 1 .. n \subseteq seen
  PROVE  IF n < YamlFiles THEN n + 1 \in Documents /\ 1 .. (n + 1) - 1 \subseteq seen ELSE seen = Documents
<1>. USE YamlFilesAssumption DEF Documents
<1>1. CASE n < YamlFiles
  BY <1>1
<1>2. CASE ~(n < YamlFiles)
  <2>1. n = YamlFiles
    BY <1>2
  <2>. QED
    BY <1>2, <2>1
<1>. QED
  BY <1>1, <1>2

LEMMA LintNext == LintInv /\ [LintCheckNext]_lcVars => LintInv'
<1>. SUFFICES ASSUME LintInv, [LintCheckNext]_lcVars PROVE LintInv'
  OBVIOUS
<1>. USE YamlFilesAssumption DEF Documents
<1>1. ASSUME UNCHANGED <<written, diagnosed>>, written = {},
             NEW c \in CheckStates, check' = c, Diagnosed(c), Passes(c)
      PROVE  LintInv'
  BY <1>1 DEF LintInv, Diagnosed, Passes
<1>2. CASE Failed = check' /\ UNCHANGED <<written, diagnosed>> /\ written = {}
  <2>1. PICK c : c = Failed
    OBVIOUS
  <2>2. c \in CheckStates /\ Diagnosed(c) /\ Passes(c)
    BY <2>1, FailedFacts DEF LintInv, Diagnosed, Passes
  <2>. QED
    BY <1>1, <1>2, <2>1, <2>2
<1>3. ASSUME NEW a \in {"send", "wait", "exit", "end"}, NEW i \in Nat,
             check' = [check EXCEPT !.at = a, !.id = i],
             a \in {"exit", "end"} => check.what = "shutdown",
             UNCHANGED <<written, diagnosed>>, written = {}
      PROVE  LintInv'
  <2>1. PICK c : c = check'
    OBVIOUS
  <2>2. /\ c \in CheckStates /\ c.at = a /\ c.what = check.what /\ c.file = check.file
        /\ c.failed = check.failed
    BY <1>3, <2>1 DEF LintInv, CheckStates
  <2>3. Diagnosed(c) /\ Passes(c)
    BY <1>3, <2>2 DEF LintInv, Diagnosed, Passes
  <2>. QED
    BY <1>1, <1>3, <2>1, <2>2, <2>3
<1>4. check.id \in Nat /\ check = [check EXCEPT !.id = check.id]
  BY DEF LintInv, CheckStates
<1>5. CASE Register
  <2>1. check' = [check EXCEPT !.at = "send", !.id = check.id + 1] /\ check.id + 1 \in Nat
    BY <1>4, <1>5 DEF Register
  <2>2. written = {} /\ UNCHANGED <<written, diagnosed>>
    BY <1>5 DEF Register, LintInv, results
  <2>. QED
    BY <1>3, <2>1, <2>2
<1>6. CASE Send
  <2>1. UNCHANGED <<written, diagnosed>> /\ written = {}
    BY <1>6 DEF Send, LintInv, results
  <2>2. [check EXCEPT !.at = "wait"] = [check EXCEPT !.at = "wait", !.id = check.id]
    BY DEF LintInv, CheckStates
  <2>3. check' = [check EXCEPT !.at = "wait", !.id = check.id] \/ check' = Failed
    BY <1>6, <2>2 DEF Send
  <2>. QED
    BY <1>2, <1>3, <1>4, <2>1, <2>3
<1>7. CASE ReceiveClosed \/ GiveUp
  BY <1>2, <1>7 DEF ReceiveClosed, GiveUp, LintInv, results
<1>8. CASE SendExit
  <2>1. [check EXCEPT !.at = "end"] = [check EXCEPT !.at = "end", !.id = check.id]
    BY DEF LintInv, CheckStates
  <2>2. check.what = "shutdown" /\ written = {} /\ UNCHANGED <<written, diagnosed>>
    BY <1>8 DEF SendExit, LintInv, Passes, results
  <2>. QED
    BY <1>3, <1>4, <1>8, <2>1, <2>2 DEF SendExit
<1>9. CASE ReceiveAnswer
  <2>1. written = {} /\ written' = {} /\ check.at = "wait"
    BY <1>9 DEF LintInv, ReceiveAnswer, results
  <2>2. CASE check' = Failed /\ UNCHANGED results
    BY <1>2, <2>1, <2>2 DEF results
  <2>3. CASE check.what = "initialize" /\ check' = After(0) /\ UNCHANGED results
    <3>1. PICK c : c = After(0)
      OBVIOUS
    <3>2. /\ c \in CheckStates /\ c.at = "ask" /\ ~c.failed
          /\ IF 0 < YamlFiles THEN c.what = "diagnostic" /\ c.file = 1 ELSE c.what = "shutdown"
      BY <2>3, <3>1, AfterFacts DEF LintInv, Passes, CheckStates
    <3>3. Diagnosed(c)
      <4>1. CASE 0 < YamlFiles
        BY <3>2, <4>1 DEF Diagnosed
      <4>2. CASE YamlFiles = 0
        <5>1. c.what = "shutdown" /\ Documents = {} /\ diagnosed = {}
          BY <3>2, <4>2 DEF LintInv
        <5>. QED
          BY <5>1 DEF Diagnosed
      <4>. QED
        BY <4>1, <4>2
    <3>4. Passes(c)
      BY <3>2 DEF Passes
    <3>. QED
      BY <1>1, <2>1, <2>3, <3>1, <3>2, <3>3, <3>4 DEF results
  <2>4. CASE /\ check.what = "diagnostic" /\ check' \in {NextFile, Ask("codeAction", check.file)}
             /\ diagnosed' = diagnosed \cup {check.file}
    <3>1. check.file \in Documents /\ 1 .. check.file \subseteq diagnosed' /\ diagnosed' \subseteq Documents
      <4>1. PICK n : n = check.file
        OBVIOUS
      <4>2. n \in Documents /\ 1 .. n - 1 \subseteq diagnosed /\ diagnosed \subseteq Documents
        BY <2>4, <4>1 DEF LintInv, Diagnosed
      <4>3. \A i \in 1 .. n : i \in diagnosed \cup {n}
        BY <4>2
      <4>. QED
        BY <2>4, <4>1, <4>2, <4>3
    <3>2. CASE check' = Ask("codeAction", check.file)
      <4>1. PICK c : c = check'
        OBVIOUS
      <4>2. c \in CheckStates /\ c.at = "ask" /\ c.what = "codeAction" /\ c.file = check.file /\ ~c.failed
        BY <2>4, <3>1, <3>2, <4>1, AskFacts DEF LintInv, Passes, CheckStates
      <4>. QED
        BY <2>1, <3>1, <4>1, <4>2 DEF LintInv, Diagnosed, Passes
    <3>3. CASE check' = NextFile
      <4>1. PICK c : c = check'
        OBVIOUS
      <4>2. /\ c \in CheckStates /\ c.at = "ask" /\ ~c.failed
            /\ IF check.file < YamlFiles THEN c.what = "diagnostic" /\ c.file = check.file + 1
               ELSE c.what = "shutdown"
        BY <2>4, <3>1, <3>3, <4>1, AfterFacts DEF NextFile, LintInv, Passes, CheckStates
      <4>3. PICK n \in Documents, seen \in SUBSET Documents : n = check.file /\ seen = diagnosed'
        BY <3>1
      <4>4. IF n < YamlFiles THEN n + 1 \in Documents /\ 1 .. (n + 1) - 1 \subseteq seen ELSE seen = Documents
        BY <3>1, <4>3, Covered
      <4>5. Diagnosed(c)'
        BY <4>1, <4>2, <4>3, <4>4 DEF Diagnosed
      <4>6. Passes(c)
        BY <4>2 DEF Passes
      <4>. QED
        BY <2>1, <3>1, <4>1, <4>2, <4>5, <4>6 DEF LintInv, Passes, Diagnosed
    <3>. QED
      BY <2>4, <3>2, <3>3
  <2>5. CASE check.what = "codeAction" /\ check' = NextFile /\ diagnosed' = diagnosed
    <3>1. PICK c : c = check'
      OBVIOUS
    <3>2. check.file \in Documents /\ 1 .. check.file \subseteq diagnosed
      BY <2>5 DEF LintInv, Diagnosed
    <3>3. /\ c \in CheckStates /\ c.at = "ask" /\ ~c.failed
          /\ IF check.file < YamlFiles THEN c.what = "diagnostic" /\ c.file = check.file + 1
             ELSE c.what = "shutdown"
      BY <2>5, <3>1, <3>2, AfterFacts DEF NextFile, LintInv, Passes, CheckStates
    <3>4. PICK n \in Documents, seen \in SUBSET Documents : n = check.file /\ seen = diagnosed
      BY <3>2 DEF LintInv
    <3>5. IF n < YamlFiles THEN n + 1 \in Documents /\ 1 .. (n + 1) - 1 \subseteq seen ELSE seen = Documents
      BY <3>2, <3>4, Covered
    <3>6. Diagnosed(c)
      BY <3>3, <3>4, <3>5 DEF Diagnosed
    <3>7. Passes(c)
      BY <3>3 DEF Passes
    <3>. QED
      BY <1>1, <2>1, <2>5, <3>1, <3>3, <3>6, <3>7
  <2>6. CASE check.what = "shutdown" /\ check' = [check EXCEPT !.at = "exit"] /\ UNCHANGED results
    <3>1. [check EXCEPT !.at = "exit"] = [check EXCEPT !.at = "exit", !.id = check.id]
      BY DEF LintInv, CheckStates
    <3>. QED
      BY <1>3, <1>4, <2>1, <2>6, <3>1 DEF results
  <2>. QED
    BY <1>9, <2>2, <2>3, <2>4, <2>5, <2>6 DEF ReceiveAnswer
<1>10. CASE AwaitServer
  <2>1. PICK c : c = check'
    OBVIOUS
  <2>2. /\ c \in CheckStates /\ c.what = "shutdown" /\ c.failed = check.failed
        /\ IF c.failed THEN c.at = "done" ELSE c.at = "write"
    BY <1>10, <2>1 DEF AwaitServer, LintInv, CheckStates, Passes
  <2>3. written = {} /\ UNCHANGED <<written, diagnosed>>
    BY <1>10 DEF AwaitServer, LintInv, results
  <2>4. Diagnosed(c) /\ Passes(c)
    BY <1>10, <2>2 DEF AwaitServer, LintInv, Passes, Diagnosed
  <2>. QED
    BY <1>1, <2>1, <2>2, <2>3, <2>4
<1>11. CASE WriteFix
  <2>1. PICK c : c = check'
    OBVIOUS
  <2>2. /\ c \in CheckStates /\ c.what = "shutdown" /\ ~c.failed /\ c.at \in {"write", "done"}
        /\ diagnosed' = diagnosed /\ diagnosed = Documents
    BY <1>11, <2>1 DEF WriteFix, LintInv, CheckStates, Passes, Diagnosed
  <2>. QED
    BY <2>1, <2>2 DEF LintInv, Passes, Diagnosed
<1>12. CASE \/ LoopTop \/ Deliver \/ ReadFails \/ (\E i \in Ids : Answer(i)) \/ ServerEnds \/ Clock
            \/ UNCHANGED lcVars
  <2>1. UNCHANGED <<check, written, diagnosed>>
    BY <1>12 DEF LoopTop, Deliver, ReadFails, Answer, ServerEnds, Clock, CheckTimeout, ShutdownTimeout, lcVars,
                 results
  <2>. QED
    BY <2>1 DEF LintInv, Diagnosed, Passes
<1>. QED
  BY <1>5, <1>6, <1>7, <1>8, <1>9, <1>10, <1>11, <1>12 DEF LintCheckNext, Main

(* An edit is written only after the language server has answered for every file,
   whatever it answers, in whatever order, and whenever it dies. *)
THEOREM FixesAreComplete == LintCheckSpec => []FixesNeedAllAnswers
<1>1. LintInv => FixesNeedAllAnswers
  BY DEF LintInv, Diagnosed, Passes, FixesNeedAllAnswers
<1>. QED
  BY <1>1, LintInit, LintNext, PTL DEF LintCheckSpec

-----------------------------------------------------------------------------
(* The waits.  Each step belongs to some commands, and what a command reports at
   the end has been so since the step that saw it: a run that has begun does not
   go back, a task that succeeded stays so. *)
RunPushes == command.kind = "push" \/ command.push
WaitTyped ==
  /\ command \in Commands /\ got \subseteq {"image", "token"} /\ tagged \in 0 .. Tags
  /\ outcome \in {"", "ok", "failed", "error", "timeout", "panic"}
  /\ outcome = "" <=> step # "end"
  /\ step \in {"start", "deferred", "dispatch", "status", "debug", "session", "open", "task", "whoami", "pull",
               "tag", "pushTask", "startPush", "pushStatus", "token", "end"}
StepFits ==
  /\ step = "start" => command.kind \in {"run", "build", "dispatch", "login"}
  /\ step = "deferred" => command.kind \in {"run", "build"}
  /\ step = "dispatch" => command.kind = "dispatch"
  /\ step = "status" => command.kind \in {"run", "dispatch", "results"} /\ ~command.debug
  /\ step \in {"debug", "session"} => command.kind = "debug" \/ command.debug
  /\ step \in {"open", "task"} => command.kind = "build"
  /\ step \in {"whoami", "pull", "tag"} => command.kind = "pull" \/ (command.kind = "build" /\ run = "succeeded")
  /\ step \in {"pull", "tag"} => command.pull \/ command.kind = "pull"
  /\ step \in {"pushTask", "startPush", "pushStatus"} => RunPushes
  /\ step = "token" => command.kind = "login"
SeenSoFar ==
  /\ step = "start" => push = "none"
  /\ step \in {"status", "debug", "session"} /\ command.kind \in {"run", "dispatch"} => run \in Started
  /\ step = "tag" => "image" \in got
  /\ step \in {"pushTask", "startPush", "pushStatus"} /\ command.push =>
        command.kind = "build" /\ run = "succeeded" /\ "image" \in got /\ tagged = Tags
  /\ step \in {"startPush", "pushStatus"} => run = "succeeded"
  /\ step = "pushStatus" => push # "none"
WaitInv == WaitTyped /\ StepFits /\ SeenSoFar /\ SuccessIsEarned

LEMMA WaitInit == WaitingInit => WaitInv
<1>. SUFFICES ASSUME WaitingInit PROVE WaitInv
  OBVIOUS
<1>1. /\ command \in Commands /\ outcome = "" /\ push = "none" /\ got = {} /\ tagged = 0
      /\ step = FirstStep(command)
  BY DEF WaitingInit
<1>2. \/ step = "status" /\ command.kind = "results"
      \/ step = "debug" /\ command.kind = "debug"
      \/ step = "whoami" /\ command.kind = "pull"
      \/ step = "pushTask" /\ command.kind = "push"
      \/ step = "start" /\ command.kind \in {"run", "build", "dispatch", "login"}
  BY <1>1 DEF FirstStep, Commands
<1>6. step \in {"status", "debug", "whoami", "pushTask", "start"}
  BY <1>2
<1>8. tagged = 0
  BY <1>1
<1>7. tagged \in 0 .. Tags
  BY <1>8, TagsAssumption
<1>3. WaitTyped
  BY <1>1, <1>6, <1>7 DEF WaitTyped
<1>4. StepFits
  BY <1>1, <1>2 DEF StepFits, RunPushes, Commands
<1>5. SeenSoFar /\ SuccessIsEarned
  BY <1>1, <1>2 DEF SeenSoFar, SuccessIsEarned, Commands
<1>. QED
  BY <1>3, <1>4, <1>5 DEF WaitInv

LEMMA AfterStartFacts ==
  ASSUME WaitTyped, NEW next, next = AfterStart
  PROVE  \/ next = "open" /\ command.kind = "build"
         \/ next = "debug" /\ command.debug /\ command.kind # "build"
         \/ next = "status" /\ command.wait /\ ~command.debug /\ command.kind # "build"
         \/ next = "end" /\ ~command.wait /\ ~command.debug /\ command.kind # "build"
<1>. command.kind = "build" => ~command.debug /\ ~command.wait
  BY DEF WaitTyped, Commands
<1>1. CASE command.kind = "build"
  BY <1>1 DEF AfterStart
<1>2. CASE command.kind # "build" /\ command.debug
  BY <1>2 DEF AfterStart
<1>3. CASE command.kind # "build" /\ ~command.debug /\ command.wait
  BY <1>3 DEF AfterStart
<1>4. CASE command.kind # "build" /\ ~command.debug /\ ~command.wait
  BY <1>4 DEF AfterStart
<1>. QED
  BY <1>1, <1>2, <1>3, <1>4

LEMMA TagCounts ==
  ASSUME WaitTyped
  PROVE  IF tagged < Tags THEN tagged + 1 \in 0 .. Tags ELSE tagged = Tags
<1>1. tagged \in 0 .. Tags
  BY DEF WaitTyped
<1>. QED
  BY <1>1, TagsAssumption

LEMMA WaitNext == WaitInv /\ [WaitingNext]_waitVars => WaitInv'
<1>. SUFFICES ASSUME WaitInv, [WaitingNext]_waitVars PROVE WaitInv'
  OBVIOUS
<1>. USE DEF WaitInv, WaitTyped, StepFits, SeenSoFar, SuccessIsEarned, RunPushes, Started, Completed, Ends, GoesTo,
             service, effects
<1>. SUFFICES WaitTyped' /\ StepFits' /\ SeenSoFar' /\ SuccessIsEarned'
  OBVIOUS
<1>1. CASE CallFails
  BY <1>1 DEF CallFails
<1>2. CASE StartRun
  <2>1. PICK next : next = AfterStart
    OBVIOUS
  <2>2. CASE run' = "running" /\ GoesTo(next)
    BY <1>2, <2>1, <2>2, AfterStartFacts DEF StartRun, Commands
  <2>3. CASE run' = "pending" /\ GoesTo("deferred")
    BY <1>2, <2>3 DEF StartRun
  <2>. QED
    BY <1>2, <2>1, <2>2, <2>3 DEF StartRun
<1>3. CASE StartDispatch
  BY <1>3 DEF StartDispatch
<1>4. CASE AwaitRun
  <2>1. PICK next : next = AfterStart
    OBVIOUS
  <2>2. CASE run \in Started /\ GoesTo(next)
    <3>1. command.kind \in {"run", "build", "dispatch"} /\ UNCHANGED <<command, clock, got, tagged, run, push, grant, hung>>
      BY <1>4 DEF AwaitRun
    <3>2. StepFits'
      BY <2>1, <2>2, <3>1, AfterStartFacts DEF Commands
    <3>6. step' = next /\ next \in {"open", "debug", "status", "end"}
      BY <2>1, <2>2, AfterStartFacts
    <3>7. outcome' = (IF next = "end" THEN "ok" ELSE "")
      BY <1>4, <2>2 DEF AwaitRun
    <3>3. WaitTyped'
      BY <3>1, <3>6, <3>7
    <3>4. SeenSoFar'
      BY <2>1, <2>2, <3>1, AfterStartFacts DEF Commands
    <3>5. SuccessIsEarned'
      BY <2>1, <2>2, <3>1, AfterStartFacts DEF Commands
    <3>. QED
      BY <3>2, <3>3, <3>4, <3>5
  <2>3. CASE run = "refused" /\ Ends("error")
    BY <1>4, <2>3 DEF AwaitRun
  <2>. QED
    BY <1>4, <2>1, <2>2, <2>3 DEF AwaitRun
<1>5. CASE GetRunStatus
  BY <1>5 DEF GetRunStatus, ResultOf, StatusOf, Commands
<1>6. CASE DebugTask
  BY <1>6 DEF DebugTask, Commands
<1>7. CASE LeaveSession
  BY <1>7 DEF LeaveSession, Commands
<1>8. CASE OpenBuild
  BY <1>8 DEF OpenBuild
<1>9. CASE TaskStatus
  BY <1>9 DEF TaskStatus, StatusOf, Commands
<1>10. CASE NoBackoff \/ TimesOut
  BY <1>10 DEF NoBackoff, TimesOut
<1>11. CASE Whoami
  BY <1>11 DEF Whoami, Commands
<1>12. CASE Pull
  BY <1>12 DEF Pull
<1>13. CASE Tag
  <2>1. CASE tagged < Tags
    <3>1. tagged' \in 0 .. Tags
      BY <1>13, <2>1, TagCounts DEF Tag
    <3>2. step = "tag" /\ UNCHANGED <<command, step, outcome, clock, got, run, push, grant, hung>>
      BY <1>13, <2>1 DEF Tag
    <3>. QED
      BY <3>1, <3>2
  <2>2. CASE ~(tagged < Tags)
    <3>1. tagged = Tags
      BY <2>2, TagCounts
    <3>2. /\ step = "tag" /\ UNCHANGED <<command, got, tagged, run, push, grant, hung>>
          /\ IF command.push THEN step' = "pushTask" /\ outcome' = outcome ELSE step' = "end" /\ outcome' = "ok"
      BY <1>13, <2>2 DEF Tag, Commands
    <3>3. command.push => command.kind = "build"
      BY DEF Commands
    <3>4. WaitTyped' /\ StepFits'
      BY <3>2, <3>3
    <3>5. SeenSoFar'
      BY <3>1, <3>2, <3>3
    <3>6. SuccessIsEarned'
      BY <3>1, <3>2, <3>3 DEF Commands
    <3>. QED
      BY <3>4, <3>5, <3>6
  <2>. QED
    BY <2>1, <2>2
<1>14. CASE StartImagePush
  BY <1>14 DEF StartImagePush, Commands
<1>15. CASE ImagePushStatus
  BY <1>15 DEF ImagePushStatus, ResultOf, StatusOf, Commands
<1>16. CASE ObtainAuthCode
  BY <1>16 DEF ObtainAuthCode
<1>17. CASE AcquireToken
  BY <1>17 DEF AcquireToken, Commands
<1>18. CASE AnswerIsLost \/ PushMoves \/ GrantMoves \/ TimePasses
  <2>1. WaitTyped'
    BY <1>18 DEF AnswerIsLost, PushMoves, GrantMoves, TimePasses
  <2>2. StepFits'
    BY <1>18 DEF AnswerIsLost, PushMoves, GrantMoves, TimePasses
  <2>3. SeenSoFar'
    BY <1>18 DEF AnswerIsLost, PushMoves, GrantMoves, TimePasses
  <2>4. SuccessIsEarned'
    BY <1>18, ZenonT(30) DEF AnswerIsLost, PushMoves, GrantMoves, TimePasses
  <2>. QED
    BY <2>1, <2>2, <2>3, <2>4
<1>19. CASE RunMoves
  <2>1. WaitTyped'
    BY <1>19 DEF RunMoves, StatusOf
  <2>2. StepFits'
    BY <1>19 DEF RunMoves, StatusOf
  <2>3. SeenSoFar'
    BY <1>19 DEF RunMoves, StatusOf
  <2>4. SuccessIsEarned'
    BY <1>19 DEF RunMoves, StatusOf
  <2>. QED
    BY <2>1, <2>2, <2>3, <2>4
<1>20. CASE UNCHANGED waitVars
  <2>1. WaitTyped'
    BY <1>20 DEF waitVars
  <2>2. StepFits'
    BY <1>20 DEF waitVars
  <2>3. SeenSoFar'
    BY <1>20 DEF waitVars
  <2>4. SuccessIsEarned'
    BY <1>20 DEF waitVars
  <2>. QED
    BY <2>1, <2>2, <2>3, <2>4
<1>. QED
  BY <1>1, <1>2, <1>3, <1>4, <1>5, <1>6, <1>7, <1>8, <1>9, <1>10, <1>11, <1>12, <1>13, <1>14, <1>15, <1>16, <1>17,
     <1>18, <1>19, <1>20 DEF WaitingNext, Client, Cloud

(* What every command that waits reports is so, whatever the service does, and
   however long it takes: no success before the run, the push, the image or the
   token is there, and no failure of what succeeded. *)
THEOREM ResultsAreEarned == WaitingSpec => []SuccessIsEarned
<1>1. WaitInv => SuccessIsEarned
  BY DEF WaitInv
<1>. QED
  BY <1>1, WaitInit, WaitNext, PTL DEF WaitingSpec

-----------------------------------------------------------------------------
(* Retries.  What is about to be requested is a selection from what is known, and
   a second request is only on its way for the person who left the choice open. *)
Actions == {"full", NoToolCache}
Wishes == [action : {"", "full", NoToolCache}, caches : SUBSET Caches, debug : {"", "before"},
           interactive : BOOLEAN]
Choices == [action : Actions, caches : SUBSET Caches, debug : {"", "before"}]
WasOffered(r, o) ==
  /\ o.retryable /\ r.action \in o.actions /\ r.caches \subseteq o.caches
  /\ (r.caches # {}) <=> r.action = NoToolCache
  /\ r.debug = wish.debug /\ r.debug \in {""} \cup o.debug
  /\ wish.action \in {"", r.action}
  /\ wish.caches \in {{}, r.caches}
RetryInv ==
  /\ wish \in Wishes /\ offer \in Offers /\ known \in Offers
  /\ requests \in Seq([request : Choices, from : Offers])
  /\ choice \in {"options", "select", "request", "end"} /\ answer \in {"", "ok", "refused", "error"}
  /\ choice = "request" => chosen \in Choices /\ WasOffered(chosen, known)
  /\ \A i \in 1 .. Len(requests) : WasOffered(requests[i].request, requests[i].from)
  /\ Len(requests) <= 1 \/ (Len(requests) = 2 /\ wish.interactive /\ Bare)
  /\ choice = "options" => Len(requests) = 0
  /\ choice \in {"select", "request"} => Len(requests) = 0 \/ (Len(requests) = 1 /\ wish.interactive /\ Bare)
  /\ answer = "ok" => choice = "end" /\ Accepted

(* A selection fits what it was made from and the flags. *)
LEMMA SelectionFits ==
  ASSUME wish \in Wishes, NEW o \in Offers, NEW r \in Selections(o)
  PROVE  r \in Choices /\ WasOffered(r, o)
<1>1. /\ o.retryable \in BOOLEAN /\ o.actions \subseteq Actions /\ o.caches \subseteq Caches
      /\ o.debug \subseteq {"before"}
  BY DEF Offers, Actions
<1>2. PICK a \in ActionsOf(o) : \E cs \in CachesOf(a, o), d \in DebugOf(o) :
        o.retryable /\ r = [action |-> a, caches |-> cs, debug |-> d]
  <2>1. o.retryable
    BY DEF Selections
  <2>2. r \in UNION {{[action |-> a, caches |-> cs, debug |-> d] : cs \in CachesOf(a, o), d \in DebugOf(o)} :
                     a \in ActionsOf(o)}
    BY <2>1 DEF Selections
  <2>. QED
    BY <2>1, <2>2
<1>8. PICK cs \in CachesOf(a, o), d \in DebugOf(o) : o.retryable /\ r = [action |-> a, caches |-> cs, debug |-> d]
  BY <1>2
<1>3. a \in o.actions /\ wish.action \in {"", a}
  BY <1>2 DEF ActionsOf, Picked, Wishes
<1>4. d = wish.debug /\ d \in {""} \cup o.debug
  BY <1>8 DEF DebugOf
<1>5. cs \subseteq o.caches /\ wish.caches \in {{}, cs} /\ (cs # {} <=> a = NoToolCache)
  <2>1. CASE a # NoToolCache
    BY <1>8, <2>1 DEF CachesOf
  <2>2. CASE a = NoToolCache /\ wish.caches # {}
    BY <1>8, <2>2 DEF CachesOf
  <2>3. CASE a = NoToolCache /\ wish.caches = {} /\ Cardinality(o.caches) = 1
    <3>1. cs = o.caches
      BY <1>8, <2>3 DEF CachesOf
    <3>2. o.caches # {}
      BY <2>3, FS_EmptySet
    <3>. QED
      BY <2>3, <3>1, <3>2
  <2>4. CASE a = NoToolCache /\ wish.caches = {} /\ Cardinality(o.caches) # 1
    BY <1>8, <2>4 DEF CachesOf
  <2>. QED
    BY <2>1, <2>2, <2>3, <2>4
<1>6. r.action = a /\ r.caches = cs /\ r.debug = d
  BY <1>8
<1>7. r \in Choices
  BY <1>1, <1>8, <1>3, <1>4, <1>5 DEF Choices
<1>. QED
  BY <1>8, <1>3, <1>4, <1>5, <1>6, <1>7 DEF WasOffered

LEMMA RetryInitInv == RetryInit => RetryInv
<1>. SUFFICES ASSUME RetryInit PROVE RetryInv
  OBVIOUS
<1>1. wish \in Wishes /\ offer \in Offers /\ choice = "options" /\ answer = "" /\ requests = <<>>
  BY DEF RetryInit, Wishes
<1>2. known \in Offers
  BY DEF RetryInit, Nothing, Offers
<1>3. requests \in Seq([request : Choices, from : Offers]) /\ Len(requests) = 0
  BY <1>1, EmptySeq
<1>4. \A i \in 1 .. Len(requests) : FALSE
  BY <1>3
<1>5. Len(requests) <= 1
  BY <1>3
<1>. QED
  BY <1>1, <1>2, <1>3, <1>4, <1>5, Zenon DEF RetryInv

LEMMA RetryNextInv == RetryInv /\ [RetryNext]_retryVars => RetryInv'
<1>. SUFFICES ASSUME RetryInv, [RetryNext]_retryVars PROVE RetryInv'
  OBVIOUS
<1>1. CASE GetRetryOptions
  BY <1>1 DEF GetRetryOptions, RetryInv, WasOffered, Bare, Accepted
<1>2. CASE SelectRetryRequest
  <2>1. /\ choice = "select" /\ UNCHANGED <<wish, offer, known, requests>>
        /\ \/ chosen' \in Selections(known) /\ choice' = "request" /\ answer' = answer
           \/ choice' = "end" /\ answer' = "error"
    BY <1>2 DEF SelectRetryRequest, Finishes
  <2>2. choice' = "request" => chosen' \in Choices /\ WasOffered(chosen', known)
    BY <2>1, SelectionFits DEF RetryInv
  <2>3. answer' # "ok"
    BY <2>1 DEF RetryInv
  <2>. QED
    BY <2>1, <2>2, <2>3 DEF RetryInv, WasOffered, Bare
<1>3. CASE RequestRetry
  <2>1. /\ choice = "request" /\ UNCHANGED <<wish, offer, chosen>>
        /\ requests' = Append(requests, [request |-> chosen, from |-> known])
        /\ Len(requests) = 0 \/ (Len(requests) = 1 /\ wish.interactive /\ Bare)
    BY <1>3 DEF RequestRetry, RetryInv
  <2>2. PICK entry \in [request : Choices, from : Offers] :
          entry.request = chosen /\ entry.from = known /\ requests' = Append(requests, entry)
    <3>1. [request |-> chosen, from |-> known] \in [request : Choices, from : Offers]
      BY <2>1 DEF RetryInv
    <3>. QED
      BY <2>1, <3>1
  <2>3. /\ requests' \in Seq([request : Choices, from : Offers]) /\ Len(requests') = Len(requests) + 1
        /\ \A i \in 1 .. Len(requests) : requests'[i] = requests[i]
        /\ requests'[Len(requests) + 1] = entry
    <3>1. PICK S : S = [request : Choices, from : Offers]
      OBVIOUS
    <3>2. requests \in Seq(S) /\ entry \in S
      BY <2>2, <3>1 DEF RetryInv
    <3>. QED
      BY <2>2, <3>1, <3>2, AppendProperties
  <2>4. \A i \in 1 .. Len(requests') : WasOffered(requests'[i].request, requests'[i].from)
    <3>. SUFFICES ASSUME NEW i \in 1 .. Len(requests') PROVE WasOffered(requests'[i].request, requests'[i].from)
      OBVIOUS
    <3>1. Len(requests) \in Nat
      BY <2>1
    <3>2. CASE i \in 1 .. Len(requests)
      BY <2>3, <3>2 DEF RetryInv
    <3>3. CASE i = Len(requests) + 1
      BY <2>1, <2>2, <2>3, <3>3 DEF RetryInv
    <3>. QED
      BY <2>3, <3>1, <3>2, <3>3
  <2>5. \/ choice' = "end" /\ answer' = "ok" /\ known' = known /\ Accepted
        \/ choice' = "end" /\ answer' = "refused" /\ known' = known
        \/ /\ choice' = "select" /\ known' = offer /\ answer' = answer
           /\ wish.interactive /\ Bare /\ requests = <<>>
    BY <1>3 DEF RequestRetry, Finishes
  <2>6. answer' = "ok" => choice' = "end" /\ Accepted'
    BY <2>1, <2>5 DEF RetryInv, Accepted
  <2>7. Len(requests') <= 1 \/ (Len(requests') = 2 /\ wish.interactive /\ Bare)
    BY <2>1, <2>3
  <2>8. choice' = "select" => Len(requests') = 1 /\ wish.interactive /\ Bare
    BY <2>1, <2>3, <2>5
  <2>9. /\ wish \in Wishes /\ offer' \in Offers /\ known' \in Offers /\ choice' \in {"select", "end"}
        /\ answer' \in {"", "ok", "refused", "error"}
    BY <2>1, <2>5 DEF RetryInv
  <2>10. (\A i \in 1 .. Len(requests) : WasOffered(requests[i].request, requests[i].from))'
    BY <2>1, <2>4 DEF WasOffered
  <2>11. Bare' = Bare /\ wish' = wish
    BY <2>1 DEF Bare
  <2>. QED
    BY <2>3, <2>6, <2>7, <2>8, <2>9, <2>10, <2>11 DEF RetryInv
<1>4. CASE RetryCallFails
  BY <1>4 DEF RetryCallFails, Finishes, RetryInv, WasOffered, Bare
<1>5. CASE OfferChanges
  BY <1>5 DEF OfferChanges, RetryInv, WasOffered, Bare
<1>6. CASE UNCHANGED retryVars
  BY <1>6, ZenonT(30) DEF retryVars, RetryInv, WasOffered, Bare, Accepted
<1>. QED
  BY <1>1, <1>2, <1>3, <1>4, <1>5, <1>6 DEF RetryNext

(* Every retry that is requested was on offer when it was chosen and respects the
   flags, and there are at most two, whatever the service offers meanwhile. *)
THEOREM RetriesAreOffered == RetrySpec => []RetryAsksForWhatIsOffered
<1>1. RetryInv => RetryAsksForWhatIsOffered
  <2>. SUFFICES ASSUME RetryInv PROVE RetryAsksForWhatIsOffered
    OBVIOUS
  <2>1. DOMAIN requests = 1 .. Len(requests)
    BY LenProperties DEF RetryInv
  <2>2. ASSUME NEW i \in DOMAIN requests, NEW r, NEW o, r = requests[i].request, o = requests[i].from
        PROVE  /\ o.retryable /\ r.action \in o.actions /\ r.caches \subseteq o.caches
               /\ (r.caches # {}) = (r.action = NoToolCache)
               /\ r.debug = wish.debug /\ r.debug \in {""} \cup o.debug
               /\ wish.action \in {"", r.action}
               /\ wish.caches \in {{}, r.caches}
    BY <2>1, <2>2 DEF RetryInv, WasOffered
  <2>. QED
    BY <2>2 DEF RetryInv, RetryAsksForWhatIsOffered
<1>. QED
  BY <1>1, RetryInitInv, RetryNextInv, PTL DEF RetrySpec

-----------------------------------------------------------------------------
(* Induction over the natural numbers, as the existence of a least element. *)
Less == OpToRel(<, Nat)

LEMMA LessIsWellFounded == IsWellFoundedOn(Less, Nat)
  BY NatLessThanWellFounded DEF Less

LEMMA LessMeans == \A m, n \in Nat : <<m, n>> \in Less <=> m < n
  BY DEF Less, OpToRel

LEMMA Least ==
  ASSUME NEW T, T \subseteq Nat, T # {}
  PROVE  \E m \in T : \A n \in T : m <= n
<1>1. PICK m \in T : \A n \in T : ~(<<n, m>> \in Less)
  BY LessIsWellFounded, WFMin, Zenon
<1>2. \A n \in T : ~(n < m)
  BY <1>1, LessMeans, Zenon
<1>. QED
  BY <1>2

LEMMA Greatest ==
  ASSUME NEW T, T \subseteq Nat, T # {}, NEW bound \in Nat, \A n \in T : n <= bound
  PROVE  \E m \in T : \A n \in T : n <= m
<1>1. PICK U : U = {k \in Nat : \A n \in T : n <= k}
  OBVIOUS
<1>2. U \subseteq Nat /\ U # {}
  BY <1>1
<1>3. PICK m \in U : \A k \in U : m <= k
  BY <1>2, Least
<1>4. m \in T
  <2>1. SUFFICES ASSUME m \notin T PROVE FALSE
    OBVIOUS
  <2>2. m \in Nat /\ \A n \in T : n <= m - 1 /\ m - 1 \in Nat
    BY <1>1, <1>3, <2>1
  <2>3. m - 1 \in U
    BY <1>1, <2>2
  <2>. QED
    BY <1>2, <1>3, <2>2, <2>3
<1>. QED
  BY <1>1, <1>3, <1>4

-----------------------------------------------------------------------------
(* Run definitions.  A reference that was resolved stays as it is when it is
   resolved again: the newest version of its major version is that of the newest. *)
RefSet == [name : {"", "old", "new", "unknown"}, version : Nat]
DocSet == [kind : {"run", "noBase", "list"}, base : {"none", "deprecated", "set"}, config : RefSet,
           call : RefSet, on : Ons]
Released(d) == d.call.version <= index /\ d.config.version <= index

LEMMA LatestFacts ==
  ASSUME index \in Nat, NEW v \in Nat, NEW w, w = LatestMinor(v), w # 0
  PROVE  w \in 1 .. index /\ Major(w) = Major(v) /\ LatestMinor(w) = w
<1>1. PICK same : same = {u \in 1 .. index : Major(u) = Major(v)}
  OBVIOUS
<1>2. w = CHOOSE u \in same : \A t \in same : t <= u
  BY <1>1 DEF LatestMinor
<1>3. same # {}
  BY <1>1 DEF LatestMinor
<1>4. \E u \in same : \A t \in same : t <= u
  <2>1. same \subseteq Nat /\ \A n \in same : n <= index
    BY <1>1
  <2>. QED
    BY <1>3, <2>1, Greatest
<1>5. w \in same
  BY <1>2, <1>4
<1>6. same = {u \in 1 .. index : Major(u) = Major(w)}
  BY <1>1, <1>5
<1>7. LatestMinor(w) = CHOOSE u \in same : \A t \in same : t <= u
  BY <1>3, <1>6 DEF LatestMinor
<1>. QED
  BY <1>1, <1>2, <1>5, <1>7

LEMMA NewestIsLatest ==
  ASSUME index \in Nat, index # 0
  PROVE  LatestMinor(index) = index
<1>1. PICK same : same = {u \in 1 .. index : Major(u) = Major(index)}
  OBVIOUS
<1>2. index \in same /\ \A t \in same : t <= index
  BY <1>1
<1>3. LatestMinor(index) = CHOOSE u \in same : \A t \in same : t <= u
  BY <1>1, <1>2 DEF LatestMinor
<1>4. \A u \in same : (\A t \in same : t <= u) => u = index
  BY <1>1, <1>2
<1>. QED
  BY <1>2, <1>3, <1>4

LEMMA RefTyped ==
  ASSUME NEW name \in {"old", "new", "unknown"}, NEW v \in Nat, NEW ref, ref = [name |-> name, version |-> v]
  PROVE  ref \in RefSet /\ ref.name = name /\ ref.version = v
  BY DEF RefSet

LEMMA NoRefTyped == NoRef \in RefSet /\ NoRef.name = "" /\ NoRef.version = 0
  BY DEF NoRef, RefSet

LEMMA SameIsKept == ASSUME NEW ref \in RefSet PROVE Kept(ref, ref)
<1>5. PICK v \in Nat : v = ref.version
  BY DEF RefSet
<1>1. ref.version >= ref.version
  BY <1>5
<1>2. CASE task \in {"run", "resolve"}
  BY <1>2 DEF Kept
<1>3. CASE task = "update"
  BY <1>3 DEF Kept
<1>4. CASE task \notin {"run", "resolve", "update"}
  BY <1>1, <1>4 DEF Kept
<1>. QED
  BY <1>2, <1>3, <1>4

LEMMA ResolvedFacts ==
  ASSUME index \in Nat, NEW ref \in RefSet, ref.version <= index, NEW r, r = ResolvedRef(ref)
  PROVE  r \in RefSet /\ r.version <= index /\ ResolvedRef(r) = r /\ Kept(ref, r)
<1>1. CASE ~NeedsResolution(ref, Updates) \/ ref.name = "unknown" \/ Pick(ref.version) = 0
  <2>1. r = ref
    BY <1>1 DEF ResolvedRef
  <2>. QED
    BY <2>1, SameIsKept
<1>2. CASE NeedsResolution(ref, Updates) /\ ref.name # "unknown" /\ Pick(ref.version) # 0
  <2>1. PICK v \in Nat : v = ref.version
    BY DEF RefSet
  <2>2. PICK w : w = Pick(v)
    OBVIOUS
  <2>3. r = [name |-> "new", version |-> w] /\ w # 0
    BY <1>2, <2>1, <2>2 DEF ResolvedRef
  <2>4. w \in 1 .. index /\ Pick(w) = w /\ (task = "update" /\ v # 0 => Major(w) = Major(v))
    <3>1. CASE task = "update" /\ v # 0
      BY <2>2, <2>3, <3>1, LatestFacts DEF Pick
    <3>2. CASE ~(task = "update" /\ v # 0)
      BY <2>2, <2>3, <3>2, NewestIsLatest DEF Pick
    <3>. QED
      BY <3>1, <3>2
  <2>8. w \in Nat
    BY <2>4
  <2>5. r.name = "new" /\ r.version = w /\ r \in RefSet
    BY <2>3, <2>8, RefTyped
  <2>6. ResolvedRef(r) = r
    BY <2>3, <2>4, <2>5 DEF ResolvedRef
  <2>7. Kept(ref, r)
    <3>1. CASE task \in {"run", "resolve"}
      BY <1>2, <2>1, <3>1 DEF Kept, NeedsResolution, Updates
    <3>2. CASE task = "update"
      BY <2>1, <2>4, <2>5, <3>2 DEF Kept
    <3>3. CASE task \notin {"run", "resolve", "update"}
      <4>1. w = index
        BY <2>2, <3>3 DEF Pick
      <4>2. r.version >= ref.version
        BY <2>1, <2>5, <4>1
      <4>. QED
        BY <3>3, <4>2 DEF Kept
    <3>. QED
      BY <3>1, <3>2, <3>3
  <2>. QED
    BY <2>4, <2>5, <2>6, <2>7
<1>. QED
  BY <1>1, <1>2

LEMMA PackagesFacts ==
  ASSUME index \in Nat, NEW d \in DocSet, Released(d), NEW r, r = ResolvedPackages(d)
  PROVE  /\ r \in DocSet /\ Released(r) /\ r.kind = d.kind /\ r.base = d.base /\ r.on = d.on
         /\ ResolvedPackages(r) = r
         /\ Kept(d.call, r.call) /\ Kept(d.config, r.config)
<1>1. PICK call \in RefSet, config \in RefSet : call = d.call /\ config = d.config
  BY DEF DocSet
<1>2. PICK call2 : call2 = ResolvedRef(call)
  OBVIOUS
<1>3. call2 \in RefSet /\ call2.version <= index /\ ResolvedRef(call2) = call2 /\ Kept(call, call2)
  BY <1>1, <1>2, ResolvedFacts DEF Released
<1>4. PICK config2 : config2 = (IF d.kind = "list" THEN config ELSE ResolvedRef(config))
  OBVIOUS
<1>5. /\ config2 \in RefSet /\ config2.version <= index /\ Kept(config, config2)
      /\ d.kind # "list" => ResolvedRef(config2) = config2
  <2>1. CASE d.kind = "list"
    BY <1>1, <1>4, <2>1, SameIsKept DEF Released
  <2>2. CASE d.kind # "list"
    BY <1>1, <1>4, <2>2, ResolvedFacts DEF Released
  <2>. QED
    BY <2>1, <2>2
<1>6. r = [d EXCEPT !.call = call2, !.config = config2]
  BY <1>1, <1>2, <1>4 DEF ResolvedPackages
<1>7. /\ r \in DocSet /\ r.kind = d.kind /\ r.base = d.base /\ r.on = d.on
      /\ r.call = call2 /\ r.config = config2
  BY <1>3, <1>5, <1>6 DEF DocSet
<1>8. ResolvedPackages(r) = [r EXCEPT !.call = call2, !.config = config2]
  BY <1>3, <1>5, <1>7 DEF ResolvedPackages
<1>9. [r EXCEPT !.call = call2, !.config = config2] = r
  BY <1>7 DEF DocSet
<1>. QED
  BY <1>1, <1>3, <1>5, <1>7, <1>8, <1>9 DEF Released

(* What the CLI trigger names stays named, and naming it again changes nothing. *)
LEMMA CliFacts ==
  ASSUME NEW on, NEW on2, on2.cli = ResolvedCli(on), on2.triggers = on.triggers, on2.own = on.own,
         on2.others = on.others, on.cli \in [Params -> {"none", "sha", "other"}]
  PROVE  /\ on2.cli \in [Params -> {"none", "sha", "other"}]
         /\ ResolvedCli(on2) = on2.cli
         /\ \A p \in Params : on.cli[p] # "none" => on2.cli[p] = on.cli[p]
         /\ ShaParams(on2) \subseteq GitParams(on)
<1>1. on2.cli \in [Params -> {"none", "sha", "other"}]
  BY DEF ResolvedCli
<1>2. \A p \in Params : on2.cli[p] = IF ShaParams(on) = {} /\ p \in GitParams(on) /\ on.cli[p] = "none" THEN "sha"
                                     ELSE on.cli[p]
  BY DEF ResolvedCli
<1>3. CASE ShaParams(on) # {}
  <2>1. on2.cli = on.cli
    BY <1>1, <1>2, <1>3
  <2>2. ShaParams(on2) = ShaParams(on)
    BY <2>1 DEF ShaParams
  <2>3. ResolvedCli(on2) = on2.cli
    BY <1>1, <1>3, <2>2 DEF ResolvedCli
  <2>. QED
    BY <1>1, <1>3, <2>1, <2>2, <2>3 DEF GitParams
<1>4. CASE ShaParams(on) = {}
  <2>1. ShaParams(on2) \subseteq GitParams(on)
    BY <1>2, <1>4 DEF ShaParams
  <2>2. GitParams(on) = on.triggers \cup CloneParams(on)
    BY <1>4 DEF GitParams
  <2>3. CASE ShaParams(on2) # {}
    <3>1. ResolvedCli(on2) = on2.cli
      BY <1>1, <2>3 DEF ResolvedCli
    <3>. QED
      BY <1>1, <1>2, <2>1, <3>1
  <2>4. CASE ShaParams(on2) = {}
    <3>1. GitParams(on2) = GitParams(on)
      BY <2>2, <2>4 DEF GitParams, CloneParams
    <3>2. \A p \in Params : p \in GitParams(on) => on2.cli[p] # "none"
      BY <1>2, <1>4
    <3>3. ResolvedCli(on2) = on2.cli
      BY <1>1, <3>1, <3>2 DEF ResolvedCli
    <3>. QED
      BY <1>1, <1>2, <2>1, <3>3
  <2>. QED
    BY <2>3, <2>4
<1>. QED
  BY <1>3, <1>4

DefTyped ==
  /\ definition \in DocSet /\ doc \in DocSet /\ before \in DocSet /\ index \in Nat
  /\ Released(definition) /\ Released(doc)
  /\ task \in {"", "run", "resolve", "update", "updateMajor"}
  /\ point \in {"idle", "base", "writeBase", "packages", "writePackages", "finish", "done"}
  /\ task = "" <=> point = "idle"
CliSettled ==
  task = "run" =>
    /\ ResolvedCli(definition.on) = definition.on.cli
    /\ \A p \in Params : before.on.cli[p] # "none" => definition.on.cli[p] = before.on.cli[p]
    /\ patched => explicit \cap ShaParams(definition.on) = {}
(* As long as the user did not interfere. *)
Undisturbed ==
  ~touched /\ task # "" =>
    /\ task = "run" => uploaded = definition
    /\ point \in {"base", "writeBase", "packages", "writePackages"} => definition.call = before.call
    /\ point \in {"base", "writeBase"} => definition.base = before.base /\ definition.config = before.config
    /\ point = "writeBase" => definition.base # "set"
    /\ point \in {"packages", "writePackages"} /\ before.base = "set" => definition.config = before.config
    /\ point = "writePackages" => doc = definition
    /\ /\ task \in {"run", "resolve"} /\ point \in {"packages", "writePackages", "finish", "done"}
       /\ ~unbased
       => ~NeedsBase(definition)
    /\ point \in {"finish", "done"} =>
         /\ ResolvedPackages(definition) = definition
         /\ Kept(before.call, definition.call)
         /\ before.base = "set" => Kept(before.config, definition.config)
DefInv ==
  /\ DefTyped /\ CliSettled /\ Undisturbed
  /\ point = "writePackages" => doc.on = definition.on

LEMMA DefInitInv == RunDefinitionInit => DefInv
<1>. SUFFICES ASSUME RunDefinitionInit PROVE DefInv
  OBVIOUS
<1>1. definition \in Definitions /\ task = "" /\ point = "idle" /\ doc = definition /\ before = definition
  BY DEF RunDefinitionInit
<1>2. index = MaxVersion - 1
  BY DEF RunDefinitionInit
<1>9. MaxVersion \in Nat /\ index \in Nat /\ index = MaxVersion - 1
  BY <1>2, MaxVersionAssumption
<1>10. PICK i \in Nat : i = index
  BY <1>9
<1>11. 0 <= i
  OBVIOUS
<1>3. NoRef \in RefSet /\ NoRef.version <= index
  BY <1>10, <1>11, NoRefTyped, Zenon
<1>4. ASSUME NEW ref \in Refs PROVE ref \in RefSet /\ ref.version <= index
  <2>1. CASE ref = NoRef
    BY <1>3, <2>1
  <2>2. CASE ref = [name |-> "unknown", version |-> 0]
    BY <1>9, <2>2, RefTyped
  <2>3. CASE ref \in [name : {"old", "new"}, version : 0 .. MaxVersion - 1]
    <3>1. PICK v \in 0 .. MaxVersion - 1 : v = ref.version /\ ref.name \in {"old", "new"}
      BY <2>3
    <3>2. ref = [name |-> ref.name, version |-> v]
      BY <2>3, <3>1
    <3>. QED
      BY <1>9, <3>1, <3>2, RefTyped
  <2>. QED
    BY <2>1, <2>2, <2>3 DEF Refs
<1>6. NoOn \in Ons
  BY DEF NoOn, Ons
<1>5. ASSUME NEW ref \in {NoRef} \cup [name : {"new"}, version : 0 .. MaxVersion - 1]
      PROVE  ref \in RefSet /\ ref.version <= index
  BY <1>3, <1>4 DEF Refs
<1>7. PICK d : d = definition
  OBVIOUS
<1>8. CASE d \in [kind : {"run", "noBase", "list"}, base : {"none", "deprecated", "set"},
                  config : {NoRef} \cup [name : {"new"}, version : 0 .. MaxVersion - 1], call : Refs, on : {NoOn}]
  <2>1. /\ d.call \in Refs /\ d.config \in {NoRef} \cup [name : {"new"}, version : 0 .. MaxVersion - 1]
        /\ d.on = NoOn
    BY <1>8
  <2>2. d.call \in RefSet /\ d.call.version <= index /\ d.config \in RefSet /\ d.config.version <= index
    BY <1>4, <1>5, <2>1
  <2>3. d \in DocSet
    BY <1>6, <1>8, <2>1, <2>2 DEF DocSet
  <2>. QED
    BY <1>1, <1>7, <1>10, <2>2, <2>3 DEF DefInv, DefTyped, Released, CliSettled, Undisturbed
<1>12. CASE d \in [kind : {"noBase"}, base : {"none"}, config : {NoRef}, call : {NoRef}, on : Ons]
  <2>1. d \in DocSet /\ d.call = NoRef /\ d.config = NoRef
    BY <1>3, <1>12 DEF DocSet
  <2>. QED
    BY <1>1, <1>3, <1>7, <1>10, <2>1 DEF DefInv, DefTyped, Released, CliSettled, Undisturbed
<1>. QED
  BY <1>1, <1>7, <1>8, <1>12 DEF Definitions

(* The resolution depends on the index and the command only. *)
LEMMA SameResolution ==
  ASSUME task' = task, index' = index
  PROVE  /\ ResolvedPackages(definition)' = ResolvedPackages(definition')
         /\ Kept(before.call, definition.call)' <=> Kept(before'.call, definition'.call)
         /\ Kept(before.config, definition.config)' <=> Kept(before'.config, definition'.config)
         /\ NeedsBase(definition)' <=> NeedsBase(definition')
  BY DEF NeedsBase, InsertsBase, UpdatesBase, ResolvedPackages, ResolvedRef, NeedsResolution, Pick, LatestMinor, Updates, Kept

LEMMA BeginsInv ==
  ASSUME DefInv, ResolveCliParams \/ BeginResolve \/ BeginUpdate
  PROVE  DefInv'
<1>1. CASE ResolveCliParams
  <2>1. PICK on \in Ons : on = definition.on
    BY DEF DefInv, DefTyped, DocSet
  <2>2. PICK on2 : on2 = [on EXCEPT !.cli = ResolvedCli(on)]
    OBVIOUS
  <2>3. /\ on2 \in Ons /\ on2.cli = ResolvedCli(on) /\ on2.triggers = on.triggers /\ on2.own = on.own
        /\ on2.others = on.others
    <3>1. ResolvedCli(on) \in [Params -> {"none", "sha", "other"}]
      BY DEF ResolvedCli, Ons
    <3>. QED
      BY <2>2, <3>1 DEF Ons
  <2>4. /\ ResolvedCli(on2) = on2.cli
        /\ \A p \in Params : on.cli[p] # "none" => on2.cli[p] = on.cli[p]
        /\ ShaParams(on2) \subseteq GitParams(on)
    <3>1. on.cli \in [Params -> {"none", "sha", "other"}]
      BY DEF Ons
    <3>. QED
      BY <2>3, <3>1, CliFacts
  <2>5. definition' = [definition EXCEPT !.on = on2]
    BY <1>1, <2>1, <2>2 DEF ResolveCliParams, DefInv, DefTyped, DocSet, Ons
  <2>6. /\ definition' \in DocSet /\ definition'.on = on2 /\ definition'.call = definition.call
        /\ definition'.config = definition.config /\ definition'.base = definition.base
    BY <2>3, <2>5 DEF DefInv, DefTyped, DocSet
  <2>7. /\ task' = "run" /\ point' = "base" /\ before' = definition /\ uploaded' = definition'
        /\ UNCHANGED <<doc, index, explicit>> /\ patched' = (explicit \cap GitParams(on) = {})
    BY <1>1, <2>1 DEF ResolveCliParams
  <2>8. DefTyped'
    BY <2>6, <2>7 DEF DefInv, DefTyped, Released
  <2>9. CliSettled'
    BY <2>1, <2>4, <2>6, <2>7 DEF CliSettled
  <2>10. Undisturbed'
    BY <2>6, <2>7 DEF Undisturbed
  <2>. QED
    BY <2>7, <2>8, <2>9, <2>10 DEF DefInv
<1>2. CASE BeginResolve \/ BeginUpdate
  <2>1. /\ task' \in {"resolve", "update", "updateMajor"} /\ before' = definition
        /\ point' = IF task' = "resolve" THEN "base" ELSE "packages"
        /\ UNCHANGED <<definition, doc, index, explicit, patched, uploaded>>
    BY <1>2 DEF BeginResolve, BeginUpdate, Begin
  <2>. QED
    BY <2>1 DEF DefInv, DefTyped, Released, CliSettled, Undisturbed
<1>. QED
  BY <1>1, <1>2

LEMMA BasePassInv ==
  ASSUME DefInv, SkipBase \/ NeedBase \/ WriteBase
  PROVE  DefInv'
<1>1. CASE SkipBase \/ NeedBase
  <2>1. /\ point = "base" /\ point' \in {"packages", "writeBase"}
        /\ point' = "writeBase" => definition.base # "set"
        /\ point' = "packages" => ~NeedsBase(definition)
        /\ UNCHANGED <<task, definition, doc, index, explicit, patched, uploaded, before, touched, unbased>>
    BY <1>1 DEF SkipBase, NeedBase, At, NeedsBase, InsertsBase, UpdatesBase, history
  <2>2. DefTyped' /\ CliSettled'
    BY <2>1 DEF DefInv, DefTyped, Released, CliSettled
  <2>3. point' = "packages" => ~NeedsBase(definition)'
    BY <2>1, SameResolution
  <2>4. Undisturbed'
    BY <2>1, <2>3 DEF DefInv, Undisturbed
  <2>. QED
    BY <2>1, <2>2, <2>4 DEF DefInv
<1>2. CASE WriteBase
  <2>1. /\ point = "writeBase" /\ point' = "packages"
        /\ UNCHANGED <<task, doc, index, explicit, patched, before, touched>>
    BY <1>2 DEF WriteBase, At
  <2>2. CASE unbased' = TRUE /\ UNCHANGED <<definition, uploaded>>
    BY <2>1, <2>2 DEF DefInv, DefTyped, Released, CliSettled, Undisturbed
  <2>3. CASE /\ definition' = [definition EXCEPT !.base = "set", !.config = DefaultBase]
             /\ uploaded' = IF task = "run" THEN definition' ELSE uploaded
    <3>1. DefaultBase \in RefSet /\ DefaultBase.version <= index
      <4>1. PICK v \in Nat : v = index
        BY DEF DefInv, DefTyped
      <4>2. DefaultBase = [name |-> "new", version |-> v]
        BY <4>1 DEF DefaultBase
      <4>3. DefaultBase \in RefSet /\ DefaultBase.version = v
        BY <4>2, RefTyped
      <4>. QED
        BY <4>1, <4>3
    <3>2. /\ definition' \in DocSet /\ definition'.on = definition.on /\ definition'.call = definition.call
          /\ definition'.config = DefaultBase
      BY <2>3, <3>1 DEF DefInv, DefTyped, DocSet
    <3>3. DefTyped'
      BY <2>1, <3>1, <3>2 DEF DefInv, DefTyped, Released
    <3>4. CliSettled'
      BY <2>1, <3>2 DEF DefInv, CliSettled
    <3>5. ~NeedsBase(definition)'
      BY <2>3 DEF DefInv, DefTyped, DocSet, NeedsBase, InsertsBase, UpdatesBase
    <3>6. Undisturbed'
      BY <2>1, <2>3, <3>2, <3>5 DEF DefInv, DefTyped, Undisturbed
    <3>. QED
      BY <2>1, <3>3, <3>4, <3>6 DEF DefInv
  <2>. QED
    BY <1>2, <2>2, <2>3 DEF WriteBase
<1>. QED
  BY <1>1, <1>2

LEMMA PackagesInv ==
  ASSUME DefInv, ParsePackages \/ WritePackages
  PROVE  DefInv'
<1>1. CASE ParsePackages
  <2>1. /\ point = "packages" /\ point' \in {"writePackages", "finish"} /\ doc' = definition
        /\ UNCHANGED <<task, definition, index, explicit, patched, uploaded, before, touched, unbased>>
        /\ point' = "finish" => /\ ~NeedsResolution(definition.call, Updates)
                                /\ ~NeedsResolution(definition.config, Updates)
    BY <1>1 DEF ParsePackages, At, history
  <2>2. DefTyped' /\ CliSettled'
    BY <2>1 DEF DefInv, DefTyped, Released, CliSettled
  <2>3. point' = "finish" => ResolvedPackages(definition) = definition
    BY <2>1 DEF ResolvedPackages, ResolvedRef, DefInv, DefTyped, DocSet
  <2>4. Kept(definition.call, definition.call) /\ Kept(definition.config, definition.config)
    BY SameIsKept DEF DefInv, DefTyped, DocSet
  <2>5. Undisturbed'
    BY <2>1, <2>3, <2>4, SameResolution DEF DefInv, Undisturbed
  <2>. QED
    BY <2>1, <2>2, <2>5 DEF DefInv
<1>2. CASE WritePackages
  <2>1. /\ point = "writePackages" /\ point' = "finish"
        /\ UNCHANGED <<task, doc, index, explicit, patched, before, touched, unbased>>
    BY <1>2 DEF WritePackages, At, history
  <2>2. PICK r : r = ResolvedPackages(doc)
    OBVIOUS
  <2>3. /\ definition' = IF r = doc THEN definition ELSE r
        /\ uploaded' = IF task = "run" /\ r # doc THEN definition' ELSE uploaded
    BY <1>2, <2>2 DEF WritePackages
  <2>4. /\ r \in DocSet /\ Released(r) /\ r.on = doc.on /\ ResolvedPackages(r) = r
        /\ r.kind = doc.kind /\ r.base = doc.base
        /\ Kept(doc.call, r.call) /\ Kept(doc.config, r.config)
    BY <2>2, PackagesFacts DEF DefInv, DefTyped
  <2>5. DefTyped'
    BY <2>1, <2>3, <2>4 DEF DefInv, DefTyped, Released
  <2>6. definition'.on = definition.on
    BY <2>1, <2>3, <2>4 DEF DefInv
  <2>7. CliSettled'
    BY <2>1, <2>6 DEF DefInv, CliSettled
  <2>8. Undisturbed'
    <3>1. CASE ~touched /\ task # ""
      <4>1. /\ doc = definition /\ definition.call = before.call
            /\ before.base = "set" => definition.config = before.config
            /\ task = "run" => uploaded = definition
            /\ task \in {"run", "resolve"} /\ ~unbased => ~NeedsBase(definition)
        BY <2>1, <3>1 DEF DefInv, Undisturbed
      <4>2. definition' = r
        BY <2>3, <4>1
      <4>3. ResolvedPackages(definition)' = definition' /\ Kept(before.call, definition.call)'
        BY <2>1, <2>4, <4>1, <4>2, SameResolution
      <4>4. before.base = "set" => Kept(before.config, definition.config)'
        BY <2>1, <2>4, <4>1, <4>2, SameResolution
      <4>5. task = "run" => uploaded' = definition'
        BY <2>3, <4>1
      <4>6. NeedsBase(definition)' <=> NeedsBase(definition)
        BY <2>1, <2>4, <4>1, <4>2 DEF NeedsBase, InsertsBase, UpdatesBase
      <4>. QED
        BY <2>1, <4>1, <4>3, <4>4, <4>5, <4>6 DEF Undisturbed
    <3>2. CASE ~(~touched /\ task # "")
      BY <2>1, <3>2 DEF Undisturbed
    <3>. QED
      BY <3>1, <3>2
  <2>. QED
    BY <2>1, <2>5, <2>7, <2>8 DEF DefInv
<1>. QED
  BY <1>1, <1>2

LEMMA EndsInv ==
  ASSUME DefInv, Finished \/ Leave \/ CommandFails
  PROVE  DefInv'
<1>1. CASE Finished
  <2>1. /\ point = "finish" /\ point' = "done"
        /\ UNCHANGED <<task, definition, doc, index, explicit, patched, uploaded, before, touched, unbased>>
    BY <1>1 DEF Finished, At, history
  <2>. QED
    BY <2>1, SameResolution DEF DefInv, DefTyped, Released, CliSettled, Undisturbed
<1>2. CASE Leave \/ CommandFails
  <2>1. task' = "" /\ point' = "idle" /\ UNCHANGED <<definition, index>> /\ doc' = definition /\ before' = definition
    BY <1>2 DEF Leave, CommandFails, Stops
  <2>. QED
    BY <2>1 DEF DefInv, DefTyped, Released, CliSettled, Undisturbed
<1>. QED
  BY <1>1, <1>2

LEMMA OthersInv ==
  ASSUME DefInv, UserEdits \/ Release
  PROVE  DefInv'
<1>1. CASE UserEdits
  <2>1. PICK ref \in {NoRef, [name |-> "new", version |-> 0]} : definition' = [definition EXCEPT !.call = ref]
    BY <1>1 DEF UserEdits
  <2>2. ref \in RefSet /\ ref.version = 0
    <3>1. CASE ref = NoRef
      BY <3>1, NoRefTyped
    <3>2. CASE ref = [name |-> "new", version |-> 0]
      BY <3>2, RefTyped
    <3>. QED
      BY <2>1, <3>1, <3>2
  <2>3. /\ definition' \in DocSet /\ definition'.call = ref /\ definition'.config = definition.config
        /\ definition'.on = definition.on
    BY <2>1, <2>2 DEF DefInv, DefTyped, DocSet
  <2>4. touched' /\ UNCHANGED <<task, point, doc, index, explicit, patched, uploaded, before>>
    BY <1>1 DEF UserEdits
  <2>6. ref.version <= index
    <3>1. PICK i \in Nat : i = index
      BY DEF DefInv, DefTyped
    <3>2. 0 <= i
      OBVIOUS
    <3>. QED
      BY <2>2, <3>1, <3>2, Zenon
  <2>7. Released(definition)' /\ Released(doc)'
    BY <2>3, <2>4, <2>6 DEF DefInv, DefTyped, Released
  <2>5. DefTyped'
    BY <2>3, <2>4, <2>7 DEF DefInv, DefTyped
  <2>. QED
    BY <2>3, <2>4, <2>5 DEF DefInv, CliSettled, Undisturbed
<1>2. CASE Release
  <2>1. /\ task = "" /\ index' = index + 1
        /\ UNCHANGED <<definition, task, point, doc, explicit, patched, uploaded, before, touched, unbased>>
    BY <1>2 DEF Release, history
  <2>2. Released(definition)' /\ Released(doc)' /\ index' \in Nat
    <3>1. PICK i \in Nat : i = index
      BY DEF DefInv, DefTyped
    <3>2. \A v \in Nat : v <= i => v <= i + 1
      OBVIOUS
    <3>3. /\ definition.call.version \in Nat /\ definition.config.version \in Nat
          /\ doc.call.version \in Nat /\ doc.config.version \in Nat
      BY DEF DefInv, DefTyped, DocSet, RefSet
    <3>8. index' = i + 1
      BY <2>1, <3>1, Zenon
    <3>4. index' = i + 1 /\ index' \in Nat
      BY <3>8
    <3>5. Released(definition) /\ Released(doc)
      BY DEF DefInv, DefTyped
    <3>6. definition.call.version <= i + 1 /\ definition.config.version <= i + 1
      BY <3>1, <3>2, <3>3, <3>5, Zenon DEF Released
    <3>7. doc.call.version <= i + 1 /\ doc.config.version <= i + 1
      BY <3>1, <3>2, <3>3, <3>5, Zenon DEF Released
    <3>. QED
      BY <2>1, <3>4, <3>6, <3>7, Zenon DEF Released
  <2>. QED
    BY <2>1, <2>2 DEF DefInv, DefTyped, CliSettled, Undisturbed
<1>. QED
  BY <1>1, <1>2

LEMMA DefNextInv == DefInv /\ [RunDefinitionNext]_defVars => DefInv'
<1>. SUFFICES ASSUME DefInv, [RunDefinitionNext]_defVars PROVE DefInv'
  OBVIOUS
<1>1. CASE UNCHANGED defVars
  BY <1>1, SameResolution, ZenonT(30) DEF defVars, history, DefInv, DefTyped, Released, CliSettled, Undisturbed
<1>. QED
  BY <1>1, BeginsInv, BasePassInv, PackagesInv, EndsInv, OthersInv DEF RunDefinitionNext

(* run, resolve and update leave a definition they would not change again, keep the
   versions they are to keep, and send what the file holds, for any definition and
   any number of released versions, unless the user wrote the file meanwhile. *)
THEOREM DefinitionsSettle == RunDefinitionSpec => []DefinitionSettles
<1>1. DefInv => DefinitionSettles
  BY DEF DefInv, DefTyped, CliSettled, Undisturbed, DefinitionSettles
<1>. QED
  BY <1>1, DefInitInv, DefNextInv, PTL DEF RunDefinitionSpec

-----------------------------------------------------------------------------
(* The directories of artifacts.  A name is taken at most by as many artifacts as
   there are, so that one of the suffixes is free. *)
Parts == Nat \cup {"artifact"} \cup UNION {{k[i] : i \in 1 .. Len(k)} : k \in Keys}
Name == Seq(Parts)

LEMMA KeysAreNames == Keys \subseteq Name
<1>. SUFFICES ASSUME NEW k \in Keys PROVE k \in Name
  OBVIOUS
<1>1. Len(k) \in Nat /\ k = [i \in 1 .. Len(k) |-> k[i]]
  BY ArtifactsAssumption
<1>2. \A i \in 1 .. Len(k) : k[i] \in Parts
  BY DEF Parts
<1>3. PICK n \in Nat : n = Len(k)
  BY <1>1
<1>4. k \in [1 .. n -> Parts]
  BY <1>1, <1>2, <1>3
<1>. QED
  BY <1>4, SeqDef DEF Name

LEMMA AppendIsInjective ==
  ASSUME NEW S, NEW s \in Seq(S), NEW t \in Seq(S), NEW x \in S, NEW y \in S, Append(s, x) = Append(t, y)
  PROVE  s = t /\ x = y
<1>1. /\ Len(Append(s, x)) = Len(s) + 1 /\ Len(Append(t, y)) = Len(t) + 1
      /\ \A i \in 1 .. Len(s) : Append(s, x)[i] = s[i]
      /\ \A i \in 1 .. Len(t) : Append(t, y)[i] = t[i]
      /\ Append(s, x)[Len(s) + 1] = x /\ Append(t, y)[Len(t) + 1] = y
  BY AppendProperties
<1>2. Len(s) \in Nat /\ Len(t) \in Nat
  BY LenProperties
<1>3. Len(s) = Len(t)
  BY <1>1, <1>2
<1>4. s = t
  BY <1>1, <1>3, SeqEqual
<1>. QED
  BY <1>1, <1>4

LEMMA BaseNames ==
  ASSUME NEW keys \in Seq(Keys), NEW i \in 1 .. Len(keys)
  PROVE  BaseName(keys, i) \in Name /\ BaseName(keys, i) \in Reserved(keys)
<1>1. Len(keys) \in Nat /\ DOMAIN keys = 1 .. Len(keys) /\ keys[i] \in Name
  BY LenProperties, ElementOfSeq, KeysAreNames
<1>2. i \in Nat
  BY <1>1
<1>3. <<"artifact", i>> \in Seq(Parts)
  BY <1>2 DEF Parts
<1>. QED
  BY <1>1, <1>3 DEF BaseName, Reserved, Name

(* The names given to the first n artifacts. *)
Given(keys, n, s) ==
  /\ s \in Seq(Name) /\ Len(s) = n
  /\ \A j \in 1 .. n :
       \/ s[j] = BaseName(keys, j)
       \/ s[j] \notin Reserved(keys) /\ \E m \in Nat : s[j] = Append(BaseName(keys, j), m)
  /\ \A j, k \in 1 .. n : s[j] = s[k] => j = k
  /\ \A j \in 1 .. n : (\A l \in 1 .. j - 1 : BaseName(keys, l) # BaseName(keys, j)) => s[j] = BaseName(keys, j)

Among(s, n) == {s[k] : k \in 1 .. n}

LEMMA ASuffixIsFree ==
  ASSUME NEW keys \in Seq(Keys), Len(keys) <= MaxArtifacts, NEW n \in 0 .. Len(keys), NEW s, Given(keys, n, s),
         NEW stem \in Name, NEW taken, taken = Among(s, n) \cup Reserved(keys)
  PROVE  \E m \in 2 .. MaxArtifacts + 2 : Append(stem, m) \notin taken
<1>. USE ArtifactsAssumption
<1>. SUFFICES ASSUME \A m \in 2 .. MaxArtifacts + 2 : Append(stem, m) \in taken PROVE FALSE
  OBVIOUS
<1>. DEFINE Takes(k, m) == BaseName(keys, k) = Append(stem, m) \/ (k <= n /\ s[k] = Append(stem, m))
            h == [m \in 2 .. MaxArtifacts + 2 |-> CHOOSE k \in 1 .. Len(keys) : Takes(k, m)]
<1>1. Len(keys) \in Nat /\ DOMAIN keys = 1 .. Len(keys)
  BY LenProperties
<1>2. ASSUME NEW m \in 2 .. MaxArtifacts + 2 PROVE \E k \in 1 .. Len(keys) : Takes(k, m)
  <2>1. CASE Append(stem, m) \in Reserved(keys)
    BY <1>1, <2>1 DEF Reserved
  <2>2. CASE Append(stem, m) \in Among(s, n)
    <3>1. PICK k \in 1 .. n : Append(stem, m) = s[k]
      BY <2>2 DEF Among
    <3>2. k \in 1 .. Len(keys) /\ k <= n
      BY <1>1
    <3>. QED
      BY <3>1, <3>2
  <2>. QED
    BY <2>1, <2>2
<1>3. \A m \in 2 .. MaxArtifacts + 2 : h[m] \in 1 .. Len(keys) /\ Takes(h[m], m)
  BY <1>2
<1>4. h \in [2 .. MaxArtifacts + 2 -> 1 .. Len(keys)]
  BY <1>3
<1>. HIDE DEF h
<1>5. PICK x, y \in 2 .. MaxArtifacts + 2 : x # y /\ h[x] = h[y]
  <2>1. PICK M \in Nat : M = MaxArtifacts
    BY ArtifactsAssumption
  <2>2. PICK L \in Nat : L = Len(keys)
    BY <1>1
  <2>10. PICK N \in Nat : N = M + 2
    OBVIOUS
  <2>3. PICK A, B : A = 2 .. N /\ B = 1 .. L
    OBVIOUS
  <2>4. N \in Int /\ 2 \in Int /\ L \in Int /\ 1 \in Int /\ ~(2 > N) /\ N - 2 + 1 = M + 1 /\ L <= M
    BY <2>1, <2>2, <2>10
  <2>11. IsFiniteSet(2 .. N) /\ Cardinality(2 .. N) = IF 2 > N THEN 0 ELSE N - 2 + 1
    BY <2>4, FS_Interval, Zenon
  <2>5. IsFiniteSet(A) /\ Cardinality(A) = M + 1
    BY <2>3, <2>4, <2>11
  <2>12. IsFiniteSet(1 .. L) /\ Cardinality(1 .. L) = IF 1 > L THEN 0 ELSE L - 1 + 1
    BY <2>4, FS_Interval, Zenon
  <2>6. IsFiniteSet(B) /\ Cardinality(B) = IF 1 > L THEN 0 ELSE L - 1 + 1
    BY <2>3, <2>12
  <2>7. Cardinality(B) < Cardinality(A)
    BY <2>4, <2>5, <2>6
  <2>8. h \in [A -> B]
    BY <1>4, <2>1, <2>2, <2>3, <2>10
  <2>9. \E x, y \in A : x # y /\ h[x] = h[y]
    BY <2>5, <2>6, <2>7, <2>8, FS_PigeonHole
  <2>. QED
    BY <2>1, <2>3, <2>9, <2>10
<1>6. PICK k \in 1 .. Len(keys) : k = h[x] /\ Takes(k, x) /\ Takes(k, y)
  BY <1>3, <1>5
<1>7. PICK S : S = Parts
  OBVIOUS
<1>8. stem \in Seq(S) /\ x \in S /\ y \in S /\ BaseName(keys, k) \in Seq(S) /\ \A m \in Nat : m \in S
  <2>1. stem \in Seq(S) /\ BaseName(keys, k) \in Seq(S)
    BY <1>7, BaseNames DEF Name
  <2>2. Nat \subseteq S
    BY <1>7, Zenon DEF Parts
  <2>3. x \in Nat /\ y \in Nat
    BY ArtifactsAssumption
  <2>. QED
    BY <2>1, <2>2, <2>3
<1>9. Append(stem, x) # Append(stem, y)
  BY <1>5, <1>8, AppendIsInjective
<1>10. ASSUME NEW z \in S, NEW m \in Nat PROVE Append(Append(stem, z), m) # Append(stem, x) /\ Append(Append(stem, z), m) # Append(stem, y)
  <2>1. Append(stem, z) \in Seq(S) /\ Len(Append(stem, z)) = Len(stem) + 1 /\ Len(stem) \in Nat
    BY <1>8, AppendProperties, LenProperties
  <2>2. Append(stem, z) # stem
    BY <2>1
  <2>. QED
    BY <1>8, <2>1, <2>2, AppendIsInjective, SMTT(20)
<1>11. k <= n => \/ s[k] = BaseName(keys, k)
                 \/ \E m \in Nat : s[k] = Append(BaseName(keys, k), m)
  BY <1>1 DEF Given
<1>12. CASE BaseName(keys, k) = Append(stem, x)
  BY <1>6, <1>8, <1>9, <1>10, <1>11, <1>12
<1>13. CASE k <= n /\ s[k] = Append(stem, x)
  BY <1>6, <1>8, <1>9, <1>10, <1>11, <1>13
<1>. QED
  BY <1>6, <1>12, <1>13

LEMMA FreeFacts ==
  ASSUME NEW keys \in Seq(Keys), Len(keys) <= MaxArtifacts, NEW n \in 0 .. Len(keys), NEW s, Given(keys, n, s),
         NEW stem \in Name, NEW w, w = FreeName(keys, stem, Among(s, n))
  PROVE  /\ \E m \in Nat : w = Append(stem, m)
         /\ w \notin Reserved(keys) /\ \A k \in 1 .. n : s[k] # w
<1>1. PICK taken : taken = Among(s, n) \cup Reserved(keys)
  OBVIOUS
<1>2. PICK M \in Nat : M = MaxArtifacts
  BY ArtifactsAssumption
<1>3. PICK T : T = {m \in 2 .. M + 2 : Append(stem, m) \notin taken}
  OBVIOUS
<1>4. T \subseteq Nat /\ T # {}
  <2>1. \E m \in 2 .. MaxArtifacts + 2 : Append(stem, m) \notin taken
    BY <1>1, ASuffixIsFree
  <2>. QED
    BY <1>2, <1>3, <2>1
<1>5. PICK m \in T : \A l \in T : m <= l
  BY <1>4, Least
<1>6. \A k \in 2 .. m - 1 : Append(stem, k) \in taken
  <2>1. SUFFICES ASSUME NEW k \in 2 .. m - 1, Append(stem, k) \notin taken PROVE FALSE
    OBVIOUS
  <2>2. m \in 2 .. M + 2
    BY <1>3
  <2>3. k \in 2 .. M + 2 /\ ~(m <= k)
    BY <2>2
  <2>. QED
    BY <1>3, <1>5, <2>1, <2>3
<1>7. m \in 2 .. MaxArtifacts + 2 /\ Append(stem, m) \notin taken
  BY <1>2, <1>3
<1>8. PICK r : r = SuffixOf(stem, taken)
  OBVIOUS
<1>9. r \in 2 .. MaxArtifacts + 2 /\ Append(stem, r) \notin taken
  BY <1>6, <1>7, <1>8, Zenon DEF SuffixOf
<1>10. w = Append(stem, r)
  BY <1>1, <1>8 DEF FreeName
<1>11. r \in Nat
  BY <1>2, <1>9
<1>. QED
  BY <1>1, <1>9, <1>10, <1>11 DEF Among

LEMMA GivenStep ==
  ASSUME NEW keys \in Seq(Keys), Len(keys) <= MaxArtifacts, NEW i \in 1 .. Len(keys), NEW s, Given(keys, i - 1, s),
         NEW t, t = WithNext(keys, s, i)
  PROVE  Given(keys, i, t)
<1>1. Len(keys) \in Nat
  BY LenProperties
<1>2. i \in Nat /\ i - 1 \in 0 .. Len(keys)
  BY <1>1
<1>3. PICK n \in 0 .. Len(keys) : n = i - 1
  BY <1>2
<1>4. i = n + 1 /\ n \in Nat /\ Given(keys, n, s)
  BY <1>1, <1>2, <1>3
<1>5. PICK stem : stem = BaseName(keys, i)
  OBVIOUS
<1>6. stem \in Name /\ stem \in Reserved(keys)
  BY <1>5, BaseNames
<1>7. PICK given : given = Among(s, n)
  OBVIOUS
<1>8. PICK x : x = IF stem \in given THEN FreeName(keys, stem, given) ELSE stem
  OBVIOUS
<1>9. t = Append(s, x)
  BY <1>3, <1>5, <1>7, <1>8, Zenon DEF WithNext, Among
<1>10. stem \in given => /\ \E m \in Nat : x = Append(stem, m)
                         /\ x \notin Reserved(keys) /\ \A k \in 1 .. n : s[k] # x
  <2>1. SUFFICES ASSUME stem \in given PROVE /\ \E m \in Nat : x = Append(stem, m)
                                             /\ x \notin Reserved(keys) /\ \A k \in 1 .. n : s[k] # x
    OBVIOUS
  <2>2. x = FreeName(keys, stem, Among(s, n))
    BY <1>7, <1>8, <2>1
  <2>. QED
    BY <1>4, <1>6, <2>2, FreeFacts
<1>11. stem \notin given => x = stem /\ \A k \in 1 .. n : s[k] # x
  BY <1>7, <1>8 DEF Among
<1>12. x \in Name
  <2>1. CASE stem \in given
    <3>1. PICK m \in Nat : x = Append(stem, m)
      BY <1>10, <2>1
    <3>2. m \in Parts
      BY Zenon DEF Parts
    <3>. QED
      BY <1>6, <3>1, <3>2, AppendProperties DEF Name
  <2>2. CASE stem \notin given
    BY <1>6, <1>11, <2>2
  <2>. QED
    BY <2>1, <2>2
<1>13. s \in Seq(Name) /\ Len(s) = n
  BY <1>4 DEF Given
<1>14. t \in Seq(Name) /\ Len(t) = i /\ (\A j \in 1 .. n : t[j] = s[j]) /\ t[i] = x
  <2>1. /\ Append(s, x) \in Seq(Name) /\ Len(Append(s, x)) = Len(s) + 1
        /\ (\A j \in 1 .. Len(s) : Append(s, x)[j] = s[j]) /\ Append(s, x)[Len(s) + 1] = x
    BY <1>12, <1>13, AppendProperties
  <2>. QED
    BY <1>4, <1>9, <1>13, <2>1, Zenon
<1>15. \A j \in 1 .. i : j \in 1 .. n \/ j = i
  BY <1>4
<1>16. ASSUME NEW j \in 1 .. i
       PROVE  \/ t[j] = BaseName(keys, j)
              \/ t[j] \notin Reserved(keys) /\ \E m \in Nat : t[j] = Append(BaseName(keys, j), m)
  <2>1. CASE j \in 1 .. n
    <3>1. \/ s[j] = BaseName(keys, j)
          \/ s[j] \notin Reserved(keys) /\ \E m \in Nat : s[j] = Append(BaseName(keys, j), m)
      BY <1>4, <2>1, Zenon DEF Given
    <3>2. t[j] = s[j]
      BY <1>14, <2>1
    <3>. QED
      BY <3>1, <3>2, Zenon
  <2>2. CASE j = i
    BY <1>5, <1>10, <1>11, <1>14, <2>2, Zenon
  <2>. QED
    BY <1>15, <2>1, <2>2
<1>17. ASSUME NEW j \in 1 .. i, NEW k \in 1 .. i, t[j] = t[k] PROVE j = k
  <2>1. CASE j \in 1 .. n /\ k \in 1 .. n
    BY <1>4, <1>14, <1>17, <2>1 DEF Given
  <2>2. CASE j = i /\ k = i
    BY <2>2
  <2>3. \A l \in 1 .. n : s[l] # x
    BY <1>10, <1>11
  <2>4. CASE j \in 1 .. n /\ k = i
    BY <1>14, <1>17, <2>3, <2>4
  <2>5. CASE j = i /\ k \in 1 .. n
    BY <1>14, <1>17, <2>3, <2>5
  <2>. QED
    BY <1>15, <2>1, <2>2, <2>4, <2>5
<1>18. ASSUME NEW j \in 1 .. i, \A l \in 1 .. j - 1 : BaseName(keys, l) # BaseName(keys, j)
       PROVE  t[j] = BaseName(keys, j)
  <2>1. CASE j \in 1 .. n
    BY <1>4, <1>14, <1>18, <2>1 DEF Given
  <2>2. CASE j = i
    <3>1. stem \notin given
      <4>1. SUFFICES ASSUME NEW k \in 1 .. n, s[k] = stem PROVE FALSE
        BY <1>7 DEF Among
      <4>2. s[k] = BaseName(keys, k)
        BY <1>4, <1>6, <4>1 DEF Given
      <4>3. k \in 1 .. j - 1
        BY <1>4, <2>2
      <4>. QED
        BY <1>5, <1>18, <2>2, <4>1, <4>2, <4>3
    <3>. QED
      BY <1>5, <1>11, <1>14, <2>2, <3>1
  <2>. QED
    BY <1>15, <2>1, <2>2
<1>. QED
  BY <1>14, <1>16, <1>17, <1>18 DEF Given

(* What the recursive function of OutputDirs is, up to n. *)
NamesTo(keys, n, g) == g = [i \in 0 .. n |-> IF i = 0 THEN <<>> ELSE WithNext(keys, g[i - 1], i)]

LEMMA NamesExist ==
  ASSUME NEW keys, NEW n \in Nat
  PROVE  \E g : NamesTo(keys, n, g)
<1>1. PICK T : T = {k \in Nat : ~\E g : NamesTo(keys, k, g)}
  OBVIOUS
<1>2. SUFFICES T = {}
  BY <1>1
<1>3. SUFFICES ASSUME T # {} PROVE FALSE
  OBVIOUS
<1>4. T \subseteq Nat
  BY <1>1
<1>5. PICK m \in T : \A k \in T : m <= k
  BY <1>3, <1>4, Least
<1>6. m \in Nat /\ ~\E g : NamesTo(keys, m, g)
  BY <1>1
<1>7. CASE m = 0
  <2>1. PICK g : g = [i \in 0 .. m |-> <<>>]
    OBVIOUS
  <2>2. \A i \in 0 .. m : i = 0
    BY <1>7
  <2>3. g = [i \in 0 .. m |-> IF i = 0 THEN <<>> ELSE WithNext(keys, g[i - 1], i)]
    BY <2>1, <2>2
  <2>. QED
    BY <1>6, <2>3 DEF NamesTo
<1>8. CASE m # 0
  <2>1. m - 1 \in Nat /\ ~(m <= m - 1)
    BY <1>6, <1>8
  <2>2. m - 1 \notin T
    BY <1>5, <2>1
  <2>3. PICK g : NamesTo(keys, m - 1, g)
    BY <1>1, <2>1, <2>2
  <2>4. PICK last : last = WithNext(keys, g[m - 1], m)
    OBVIOUS
  <2>5. PICK h : h = [i \in 0 .. m |-> IF i = m THEN last ELSE g[i]]
    OBVIOUS
  <2>6. ASSUME NEW i \in 0 .. m
        PROVE  h[i] = IF i = 0 THEN <<>> ELSE WithNext(keys, h[i - 1], i)
    <3>1. i # 0 => i - 1 \in 0 .. m /\ i - 1 # m
      BY <1>6
    <3>2. i # 0 => h[i - 1] = g[i - 1]
      BY <2>5, <3>1
    <3>3. CASE i = m
      BY <1>8, <2>4, <2>5, <3>2, <3>3
    <3>4. CASE i # m
      <4>1. i \in 0 .. m - 1
        BY <1>6, <3>4
      <4>2. g[i] = IF i = 0 THEN <<>> ELSE WithNext(keys, g[i - 1], i)
        BY <2>3, <4>1, Zenon DEF NamesTo
      <4>3. h[i] = g[i]
        BY <2>5, <3>4
      <4>. QED
        BY <3>2, <4>2, <4>3
    <3>. QED
      BY <3>3, <3>4
  <2>7. h = [i \in 0 .. m |-> IF i = 0 THEN <<>> ELSE WithNext(keys, h[i - 1], i)]
    BY <2>5, <2>6, Zenon
  <2>. QED
    BY <1>6, <2>7 DEF NamesTo
<1>. QED
  BY <1>7, <1>8

LEMMA NamesAreGiven ==
  ASSUME NEW keys \in Seq(Keys), Len(keys) <= MaxArtifacts, NEW g, NamesTo(keys, Len(keys), g),
         NEW n \in 0 .. Len(keys)
  PROVE  Given(keys, n, g[n])
<1>1. PICK L \in Nat : L = Len(keys)
  BY LenProperties
<1>2. PICK T : T = {k \in 0 .. L : ~Given(keys, k, g[k])}
  OBVIOUS
<1>3. SUFFICES ASSUME T # {} PROVE FALSE
  BY <1>1, <1>2
<1>4. T \subseteq Nat
  BY <1>2
<1>5. PICK m \in T : \A k \in T : m <= k
  BY <1>3, <1>4, Least
<1>6. m \in 0 .. L /\ ~Given(keys, m, g[m])
  BY <1>2
<1>7. g[m] = IF m = 0 THEN <<>> ELSE WithNext(keys, g[m - 1], m)
  BY <1>1, <1>6, Zenon DEF NamesTo
<1>8. CASE m = 0
  <2>1. g[m] = <<>> /\ g[m] \in Seq(Name) /\ Len(g[m]) = 0 /\ \A j \in 1 .. m : FALSE
    BY <1>7, <1>8
  <2>. QED
    BY <1>6, <1>8, <2>1 DEF Given
<1>9. CASE m # 0
  <2>1. m \in 1 .. L /\ m - 1 \in 0 .. L /\ ~(m <= m - 1)
    BY <1>6, <1>9
  <2>2. Given(keys, m - 1, g[m - 1])
    BY <1>2, <1>5, <2>1
  <2>. QED
    BY <1>1, <1>6, <1>7, <1>9, <2>1, <2>2, GivenStep
<1>. QED
  BY <1>8, <1>9

LEMMA DirsAreGiven ==
  ASSUME NEW keys \in Seq(Keys), Len(keys) <= MaxArtifacts
  PROVE  Given(keys, Len(keys), OutputDirs(keys))
<1>1. Len(keys) \in Nat /\ Len(keys) \in 0 .. Len(keys)
  BY LenProperties
<1>2. PICK f : NamesTo(keys, Len(keys), f)
  BY <1>1, NamesExist
<1>3. f = [i \in 0 .. Len(keys) |-> IF i = 0 THEN <<>> ELSE WithNext(keys, f[i - 1], i)]
  BY <1>2 DEF NamesTo
<1>4. \E g : NamesTo(keys, Len(keys), g) /\ OutputDirs(keys) = g[Len(keys)]
  BY <1>3, Zenon DEF OutputDirs, NamesTo
<1>. QED
  BY <1>1, <1>4, NamesAreGiven

-----------------------------------------------------------------------------
(* Downloads.  Files appear only after the join, which everything passed. *)
ArtInv ==
  /\ wanted.keys \in Batches
  /\ dirs # <<>> => dirs = OutputDirs(wanted.keys)
  /\ fetched \subseteq Items /\ lost \subseteq Items /\ files \subseteq Items
  /\ at \in {"request", "dirs", "fetch"} => files = {}
  /\ at = "write" => fetched = Items
  /\ files # {} => fetched = Items
  /\ ended = "" <=> at # "end"
  /\ ended = "ok" => files = Items
  /\ ended = "not_found" => stored = "missing" \/ waiting = "over"

LEMMA ArtInitInv == ArtifactsInit => ArtInv
  BY DEF ArtifactsInit, ArtInv, Items

LEMMA NoItems == DOMAIN <<>> = {}
<1>1. PICK e : e = <<>>
  OBVIOUS
<1>2. e \in Seq({}) /\ Len(e) = 0
  BY <1>1, EmptySeq, Zenon
<1>3. DOMAIN e = 1 .. 0
  BY <1>2, LenProperties, Zenon
<1>4. 1 .. 0 = {}
  OBVIOUS
<1>. QED
  BY <1>1, <1>3, <1>4

LEMMA ItemsAreLeft ==
  ASSUME wanted.keys \in Batches, files \subseteq Items, files # Items
  PROVE  \E i \in Items \ files : \A k \in Items \ files : i <= k
<1>1. PICK M \in Nat : M = MaxArtifacts
  BY ArtifactsAssumption
<1>2. PICK n \in 0 .. M : wanted.keys \in [1 .. n -> Keys]
  BY <1>1 DEF Batches
<1>3. Items = 1 .. n
  BY <1>2 DEF Items
<1>4. Items \subseteq Nat
  BY <1>3
<1>5. PICK T : T = Items \ files
  OBVIOUS
<1>6. T \subseteq Nat /\ T # {}
  BY <1>4, <1>5, Zenon
<1>. QED
  BY <1>5, <1>6, Least

LEMMA ArtNextInv == ArtInv /\ [ArtifactsNext]_artifactVars => ArtInv'
<1>. SUFFICES ASSUME ArtInv, [ArtifactsNext]_artifactVars PROVE ArtInv'
  OBVIOUS
<1>. USE DEF ArtInv, EndAs, MoveTo, remote, gotten, Items
<1>1. CASE Request
  <2>1. DOMAIN <<>> = {}
    BY NoItems
  <2>. QED
    BY <1>1, <2>1 DEF Request
<1>2. CASE PrepareDirs
  BY <1>2 DEF PrepareDirs
<1>3. CASE \E i \in Items : Fetch(i)
  BY <1>3 DEF Fetch
<1>4. CASE Join
  BY <1>4 DEF Join
<1>5. CASE WriteArtifact
  <2>1. PICK next : next = CHOOSE i \in Items \ files : \A k \in Items \ files : i <= k
    OBVIOUS
  <2>2. next \in Items
    <3>1. \E i \in Items \ files : \A k \in Items \ files : i <= k
      BY <1>5, ItemsAreLeft DEF WriteArtifact
    <3>. QED
      BY <2>1, <3>1, Zenon
  <2>. QED
    BY <1>5, <2>1, <2>2 DEF WriteArtifact
<1>6. CASE Finish
  BY <1>6 DEF Finish
<1>7. CASE EventsArrive \/ WaitIsOver
  BY <1>7 DEF EventsArrive, WaitIsOver
<1>8. CASE UNCHANGED artifactVars
  BY <1>8 DEF artifactVars
<1>. QED
  BY <1>1, <1>2, <1>3, <1>4, <1>5, <1>6, <1>7, <1>8 DEF ArtifactsNext

(* Nothing is written before every download has succeeded, and no two artifacts
   are written to the same directory, for any number of artifacts with any names:
   one of the suffixes tried is always free. *)
THEOREM DownloadsStayApart == ArtifactsSpec => []DownloadsAreWhole
<1>1. ArtInv => DownloadsAreWhole
  <2>. SUFFICES ASSUME ArtInv PROVE DownloadsAreWhole
    OBVIOUS
  <2>1. PICK keys : keys = wanted.keys
    OBVIOUS
  <2>2. keys \in Seq(Keys) /\ Len(keys) <= MaxArtifacts /\ Items = 1 .. Len(keys)
    <3>1. PICK n \in 0 .. MaxArtifacts : keys \in [1 .. n -> Keys]
      BY <2>1 DEF ArtInv, Batches
    <3>2. PICK M \in Nat : M = MaxArtifacts
      BY ArtifactsAssumption
    <3>3. n \in Nat /\ n <= MaxArtifacts
      BY <3>2
    <3>4. keys \in Seq(Keys)
      BY <3>1, <3>3, SeqDef
    <3>5. DOMAIN keys = 1 .. n /\ DOMAIN keys = 1 .. Len(keys) /\ Len(keys) \in Nat
      BY <3>1, <3>4, LenProperties
    <3>6. n = Len(keys)
      BY <3>3, <3>5
    <3>. QED
      BY <2>1, <3>3, <3>4, <3>5, <3>6 DEF Items
  <2>3. dirs # <<>> => Given(keys, Len(keys), dirs)
    BY <2>1, <2>2, DirsAreGiven DEF ArtInv
  <2>4. dirs # <<>> => \A i, k \in Items :
          /\ dirs[i] = dirs[k] => i = k
          /\ (\A j \in 1 .. i - 1 : BaseName(wanted.keys, j) # BaseName(wanted.keys, i))
               => dirs[i] = BaseName(wanted.keys, i)
    BY <2>1, <2>2, <2>3 DEF Given
  <2>. QED
    BY <2>4 DEF ArtInv, DownloadsAreWhole
<1>. QED
  BY <1>1, ArtInitInv, ArtNextInv, PTL DEF ArtifactsSpec

-----------------------------------------------------------------------------
(* Ancestors.  Commits only have older parents, so that the recursive function
   exists, and it gives the least set that holds the commits and their parents. *)
Ordered(ps) == ps \in Seq(SUBSET Nat) /\ \A c \in 1 .. Len(ps) : ps[c] \subseteq 1 .. c - 1
ClosedIn(ps, A) == \A c \in A : ps[c] \subseteq A
AncestorsTo(ps, n, g) == g = [c \in 1 .. n |-> {c} \cup UNION {g[p] : p \in ps[c]}]
AncestorsOf(ps) ==
  LET of[c \in DOMAIN ps] == {c} \cup UNION {of[p] : p \in ps[c]} IN of
AncestorsIn(ps, cs) == UNION {AncestorsOf(ps)[c] : c \in cs}

LEMMA AncestorsExist ==
  ASSUME NEW ps, Ordered(ps), NEW n \in 0 .. Len(ps)
  PROVE  \E g : AncestorsTo(ps, n, g)
<1>1. PICK L \in Nat : L = Len(ps)
  BY LenProperties DEF Ordered
<1>2. PICK T : T = {k \in 0 .. L : ~\E g : AncestorsTo(ps, k, g)}
  OBVIOUS
<1>3. SUFFICES ASSUME T # {} PROVE FALSE
  BY <1>1, <1>2
<1>4. T \subseteq Nat
  BY <1>2
<1>5. PICK m \in T : \A k \in T : m <= k
  BY <1>3, <1>4, Least
<1>6. m \in 0 .. L /\ ~\E g : AncestorsTo(ps, m, g)
  BY <1>2
<1>7. CASE m = 0
  <2>1. PICK g : g = [c \in 1 .. m |-> {}]
    OBVIOUS
  <2>2. 1 .. m = {}
    BY <1>7
  <2>3. g = [c \in 1 .. m |-> {c} \cup UNION {g[p] : p \in ps[c]}]
    BY <2>1, <2>2
  <2>. QED
    BY <1>6, <2>3 DEF AncestorsTo
<1>8. CASE m # 0
  <2>1. m - 1 \in 0 .. L /\ ~(m <= m - 1) /\ m \in 1 .. L
    BY <1>6, <1>8
  <2>2. m - 1 \notin T
    BY <1>5, <2>1
  <2>3. PICK g : AncestorsTo(ps, m - 1, g)
    BY <1>2, <2>1, <2>2
  <2>4. PICK last : last = {m} \cup UNION {g[p] : p \in ps[m]}
    OBVIOUS
  <2>5. PICK h : h = [c \in 1 .. m |-> IF c = m THEN last ELSE g[c]]
    OBVIOUS
  <2>6. ASSUME NEW c \in 1 .. m
        PROVE  h[c] = {c} \cup UNION {h[p] : p \in ps[c]}
    <3>1. \A p \in ps[c] : p \in 1 .. m /\ p # m
      <4>1. ps[c] \subseteq 1 .. c - 1
        BY <1>1, <2>1 DEF Ordered
      <4>2. c <= m /\ m \in Nat /\ c \in Nat
        BY <2>1
      <4>. QED
        BY <4>1, <4>2
    <3>2. \A p \in ps[c] : h[p] = g[p]
      BY <2>5, <3>1
    <3>3. UNION {h[p] : p \in ps[c]} = UNION {g[p] : p \in ps[c]}
      BY <3>2
    <3>4. CASE c = m
      BY <2>4, <2>5, <3>3, <3>4
    <3>5. CASE c # m
      <4>1. c \in 1 .. m - 1
        BY <2>1, <3>5
      <4>2. g[c] = {c} \cup UNION {g[p] : p \in ps[c]}
        BY <2>3, <4>1, Zenon DEF AncestorsTo
      <4>3. h[c] = g[c]
        BY <2>5, <3>5
      <4>. QED
        BY <3>3, <4>2, <4>3
    <3>. QED
      BY <3>4, <3>5
  <2>7. h = [c \in 1 .. m |-> {c} \cup UNION {h[p] : p \in ps[c]}]
    BY <2>5, <2>6, Zenon
  <2>. QED
    BY <1>6, <2>7 DEF AncestorsTo
<1>. QED
  BY <1>7, <1>8

(* One commit: its ancestors are older, closed, and in every closed set it is in. *)
LEMMA AncestorsOfOne ==
  ASSUME NEW ps, Ordered(ps), NEW f, AncestorsTo(ps, Len(ps), f), NEW c \in 1 .. Len(ps)
  PROVE  /\ c \in f[c] /\ f[c] \subseteq 1 .. c /\ ClosedIn(ps, f[c])
         /\ \A A : c \in A /\ ClosedIn(ps, A) => f[c] \subseteq A
<1>. DEFINE Fine(k) == /\ k \in f[k] /\ f[k] \subseteq 1 .. k /\ ClosedIn(ps, f[k])
                       /\ \A A : k \in A /\ ClosedIn(ps, A) => f[k] \subseteq A
<1>1. PICK L \in Nat : L = Len(ps)
  BY LenProperties DEF Ordered
<1>2. PICK T : T = {k \in 1 .. L : ~Fine(k)}
  OBVIOUS
<1>3. SUFFICES ASSUME T # {} PROVE FALSE
  BY <1>1, <1>2
<1>4. T \subseteq Nat
  BY <1>2
<1>5. PICK m \in T : \A k \in T : m <= k
  BY <1>3, <1>4, Least
<1>6. m \in 1 .. L /\ ~Fine(m)
  BY <1>2
<1>7. f[m] = {m} \cup UNION {f[p] : p \in ps[m]}
  BY <1>1, <1>6, Zenon DEF AncestorsTo
<1>8. ASSUME NEW p \in ps[m] PROVE p \in 1 .. m - 1 /\ Fine(p)
  <2>1. p \in 1 .. m - 1
    BY <1>1, <1>6 DEF Ordered
  <2>2. p \in 1 .. L /\ ~(m <= p)
    BY <1>6, <2>1
  <2>. QED
    BY <1>2, <1>5, <2>1, <2>2
<1>9. m \in f[m]
  BY <1>7
<1>10. f[m] \subseteq 1 .. m
  <2>1. SUFFICES ASSUME NEW p \in ps[m], NEW d \in f[p] PROVE d \in 1 .. m
    BY <1>6, <1>7
  <2>2. p \in 1 .. m - 1 /\ d \in 1 .. p
    BY <1>8, <2>1
  <2>. QED
    BY <1>6, <2>2
<1>11. ClosedIn(ps, f[m])
  <2>1. SUFFICES ASSUME NEW d \in f[m] PROVE ps[d] \subseteq f[m]
    BY DEF ClosedIn
  <2>2. CASE d = m
    BY <1>7, <1>8, <2>2
  <2>3. ASSUME NEW p \in ps[m], d \in f[p] PROVE ps[d] \subseteq f[m]
    <3>1. ps[d] \subseteq f[p]
      BY <1>8, <2>3 DEF ClosedIn
    <3>. QED
      BY <1>7, <3>1
  <2>. QED
    BY <1>7, <2>2, <2>3
<1>12. ASSUME NEW A, m \in A, ClosedIn(ps, A) PROVE f[m] \subseteq A
  <2>1. ps[m] \subseteq A
    BY <1>12 DEF ClosedIn
  <2>2. \A p \in ps[m] : f[p] \subseteq A
    BY <1>8, <1>12, <2>1
  <2>. QED
    BY <1>7, <1>12, <2>2
<1>. QED
  BY <1>6, <1>9, <1>10, <1>11, <1>12

LEMMA AncestorsFacts ==
  ASSUME NEW ps, Ordered(ps), NEW cs \in SUBSET (1 .. Len(ps)), NEW ancestors, ancestors = AncestorsIn(ps, cs)
  PROVE  /\ cs \subseteq ancestors /\ ancestors \subseteq 1 .. Len(ps) /\ ClosedIn(ps, ancestors)
         /\ \A A : cs \subseteq A /\ ClosedIn(ps, A) => ancestors \subseteq A
         /\ \A d : cs = {d} => \A c \in ancestors : c <= d
<1>1. Len(ps) \in Nat /\ DOMAIN ps = 1 .. Len(ps) /\ Len(ps) \in 0 .. Len(ps)
  BY LenProperties DEF Ordered
<1>2. PICK f : AncestorsTo(ps, Len(ps), f)
  BY <1>1, AncestorsExist
<1>3. f = [c \in DOMAIN ps |-> {c} \cup UNION {f[p] : p \in ps[c]}]
  BY <1>1, <1>2 DEF AncestorsTo
<1>4. AncestorsOf(ps) = [c \in DOMAIN ps |-> {c} \cup UNION {AncestorsOf(ps)[p] : p \in ps[c]}]
  BY <1>3, Zenon DEF AncestorsOf
<1>5. PICK g : AncestorsTo(ps, Len(ps), g) /\ ancestors = UNION {g[c] : c \in cs}
  <2>. DEFINE g == AncestorsOf(ps)
  <2>1. g = [c \in DOMAIN ps |-> {c} \cup UNION {g[p] : p \in ps[c]}]
    BY <1>4
  <2>2. ancestors = UNION {g[c] : c \in cs}
    BY DEF AncestorsIn
  <2>. HIDE DEF g
  <2>3. AncestorsTo(ps, Len(ps), g)
    BY <1>1, <2>1, Zenon DEF AncestorsTo
  <2>. QED
    BY <2>2, <2>3
<1>6. \A c \in cs : /\ c \in g[c] /\ g[c] \subseteq 1 .. c /\ ClosedIn(ps, g[c])
                    /\ \A A : c \in A /\ ClosedIn(ps, A) => g[c] \subseteq A
  BY <1>5, AncestorsOfOne
<1>7. cs \subseteq ancestors
  BY <1>5, <1>6
<1>8. ancestors \subseteq 1 .. Len(ps)
  <2>1. SUFFICES ASSUME NEW c \in cs, NEW d \in g[c] PROVE d \in 1 .. Len(ps)
    BY <1>5
  <2>2. c \in 1 .. Len(ps) /\ d \in 1 .. c
    BY <1>6
  <2>. QED
    BY <1>1, <2>2
<1>9. ClosedIn(ps, ancestors)
  <2>1. SUFFICES ASSUME NEW c \in cs, NEW d \in g[c] PROVE ps[d] \subseteq ancestors
    BY <1>5 DEF ClosedIn
  <2>2. ps[d] \subseteq g[c]
    BY <1>6 DEF ClosedIn
  <2>. QED
    BY <1>5, <2>2
<1>10. \A A : cs \subseteq A /\ ClosedIn(ps, A) => ancestors \subseteq A
  BY <1>5, <1>6
<1>11. ASSUME NEW d, cs = {d}, NEW c \in ancestors PROVE c <= d
  <2>1. d \in 1 .. Len(ps) /\ c \in 1 .. d
    BY <1>5, <1>6, <1>11
  <2>. QED
    BY <1>1, <2>1
<1>. QED
  BY <1>7, <1>8, <1>9, <1>10, <1>11

LEMMA AncestorsStep ==
  ASSUME NEW ps, Ordered(ps), NEW d \in 1 .. Len(ps)
  PROVE  AncestorsIn(ps, {d}) = {d} \cup AncestorsIn(ps, ps[d])
<1>1. Len(ps) \in Nat /\ DOMAIN ps = 1 .. Len(ps) /\ Len(ps) \in 0 .. Len(ps)
  BY LenProperties DEF Ordered
<1>2. PICK f : AncestorsTo(ps, Len(ps), f)
  BY <1>1, AncestorsExist
<1>3. f = [c \in DOMAIN ps |-> {c} \cup UNION {f[p] : p \in ps[c]}]
  BY <1>1, <1>2 DEF AncestorsTo
<1>4. AncestorsOf(ps) = [c \in DOMAIN ps |-> {c} \cup UNION {AncestorsOf(ps)[p] : p \in ps[c]}]
  BY <1>3, Zenon DEF AncestorsOf
<1>5. AncestorsOf(ps)[d] = {d} \cup UNION {AncestorsOf(ps)[p] : p \in ps[d]}
  BY <1>1, <1>4, Zenon
<1>6. AncestorsIn(ps, {d}) = AncestorsOf(ps)[d]
  BY DEF AncestorsIn
<1>. QED
  BY <1>5, <1>6 DEF AncestorsIn

LEMMA SameAncestors ==
  ASSUME NEW ps, NEW qs, Ordered(ps), Ordered(qs), NEW cs, cs \in SUBSET (1 .. Len(ps)), cs \in SUBSET (1 .. Len(qs)),
         \A A \in SUBSET (1 .. Len(ps)) : ClosedIn(qs, A) <=> ClosedIn(ps, A)
  PROVE  AncestorsIn(qs, cs) = AncestorsIn(ps, cs)
<1>1. PICK a : a = AncestorsIn(ps, cs)
  OBVIOUS
<1>2. PICK b : b = AncestorsIn(qs, cs)
  OBVIOUS
<1>3. cs \subseteq a /\ a \subseteq 1 .. Len(ps) /\ ClosedIn(ps, a)
      /\ \A A : cs \subseteq A /\ ClosedIn(ps, A) => a \subseteq A
  BY <1>1, AncestorsFacts
<1>4. cs \subseteq b /\ ClosedIn(qs, b) /\ \A A : cs \subseteq A /\ ClosedIn(qs, A) => b \subseteq A
  BY <1>2, AncestorsFacts
<1>5. b \subseteq a
  BY <1>3, <1>4
<1>6. a \subseteq b
  BY <1>3, <1>4, <1>5
<1>. QED
  BY <1>1, <1>2, <1>5, <1>6

LEMMA OlderAncestors ==
  ASSUME NEW ps, Ordered(ps), NEW more \in SUBSET (1 .. Len(ps)), NEW cs \in SUBSET (1 .. Len(ps)),
         NEW qs, qs = Append(ps, more)
  PROVE  /\ Ordered(qs) /\ Len(qs) = Len(ps) + 1 /\ qs[Len(ps) + 1] = more
         /\ AncestorsIn(qs, cs) = AncestorsIn(ps, cs)
         /\ \A A \in SUBSET (1 .. Len(ps)) : ClosedIn(qs, A) <=> ClosedIn(ps, A)
<1>1. Len(ps) \in Nat /\ ps \in Seq(SUBSET Nat)
  BY LenProperties DEF Ordered
<1>2. more \in SUBSET Nat
  BY <1>1
<1>3. /\ qs \in Seq(SUBSET Nat) /\ Len(qs) = Len(ps) + 1 /\ qs[Len(ps) + 1] = more
      /\ \A c \in 1 .. Len(ps) : qs[c] = ps[c]
  BY <1>1, <1>2, AppendProperties
<1>4. Ordered(qs)
  <2>1. SUFFICES ASSUME NEW c \in 1 .. Len(qs) PROVE qs[c] \subseteq 1 .. c - 1
    BY <1>3 DEF Ordered
  <2>2. CASE c \in 1 .. Len(ps)
    BY <1>3, <2>2 DEF Ordered
  <2>3. CASE c \notin 1 .. Len(ps)
    <3>1. c = Len(ps) + 1 /\ c - 1 = Len(ps)
      BY <1>1, <1>3, <2>3
    <3>. QED
      BY <1>3, <3>1
  <2>. QED
    BY <2>2, <2>3
<1>5. \A A \in SUBSET (1 .. Len(ps)) : ClosedIn(qs, A) <=> ClosedIn(ps, A)
  BY <1>3 DEF ClosedIn
<1>6. 1 .. Len(ps) \subseteq 1 .. Len(qs)
  BY <1>1, <1>3
<1>7. cs \in SUBSET (1 .. Len(qs))
  BY <1>6
<1>8. AncestorsIn(qs, cs) = AncestorsIn(ps, cs)
  BY <1>4, <1>5, <1>7, SameAncestors, Zenon
<1>. QED
  BY <1>3, <1>4, <1>5, <1>8

-----------------------------------------------------------------------------
(* The base commit.  What was answered stays in the history and on the remote, whose
   branches only go forward unless one is dropped; while nothing moves, new commits on
   top of HEAD or of the remote leave the choice as it was. *)
BaseTyped ==
  /\ Ordered(parents) /\ head \in Commits /\ tips \in SUBSET Commits
  /\ setting.backend \in {"git", "jj"} /\ (~setting.remote => tips = {})
  /\ dirty => setting.backend = "jj"
  /\ phase \in {"idle", "told", "patched"}
Told == start.head \in Commits /\ Suits(sha, start)
Unmoved ==
  /\ start.shared <=> Shared # {}
  /\ start.shared => sha = GetCommit
  /\ ~start.shared /\ sha # 0 => ~setting.branch
Patched ==
  /\ then.head \in Commits /\ Suits(base, then)
  /\ ~moved => base = IF start.shared THEN sha ELSE then.head
BaseInv ==
  /\ BaseTyped
  /\ phase # "idle" => Told
  /\ phase = "told" /\ ~moved => Unmoved
  /\ phase = "patched" => Patched

LEMMA AncestorsAre ==
  Ancestors(tips) = AncestorsIn(parents, tips) /\ \A c : Ancestors({c}) = AncestorsIn(parents, {c})
  BY DEF Ancestors, AncestorsIn, AncestorsOf, Commits

LEMMA CommitsAre == Ordered(parents) => Commits = 1 .. Len(parents) /\ Len(parents) \in Nat
  BY LenProperties DEF Ordered, Commits

LEMMA SharedHeadsFacts ==
  ASSUME BaseTyped
  PROVE  /\ SharedHeads \subseteq Shared
         /\ Shared # {} => SharedHeads # {}
         /\ SharedHeads # {} => Newest(SharedHeads) \in SharedHeads
<1>1. Commits = 1 .. Len(parents) /\ Len(parents) \in Nat /\ Ordered(parents) /\ head \in Commits /\ tips \subseteq Commits
  BY CommitsAre DEF BaseTyped
<1>2. Shared \subseteq 1 .. Len(parents)
  <2>1. {head} \in SUBSET (1 .. Len(parents))
    BY <1>1
  <2>2. AncestorsIn(parents, {head}) \subseteq 1 .. Len(parents)
    BY <1>1, <2>1, AncestorsFacts
  <2>. QED
    BY <2>2, AncestorsAre DEF Shared
<1>3. PICK S : S = Shared
  OBVIOUS
<1>4. S \subseteq Nat /\ \A c \in S : c <= Len(parents)
  BY <1>1, <1>2, <1>3
<1>5. SharedHeads \subseteq Shared
  BY DEF SharedHeads
<1>6. Shared # {} => SharedHeads # {}
  <2>1. SUFFICES ASSUME S # {} PROVE SharedHeads # {}
    BY <1>3
  <2>2. PICK c \in S : \A d \in S : d <= c
    BY <1>1, <1>4, <2>1, Greatest
  <2>3. ASSUME NEW d \in S \ {c} PROVE c \notin Ancestors({d})
    <3>1. d \in 1 .. Len(parents) /\ {d} \in SUBSET (1 .. Len(parents))
      BY <1>2, <1>3
    <3>2. \A e \in AncestorsIn(parents, {d}) : e <= d
      BY <1>1, <3>1, AncestorsFacts
    <3>3. c \in Nat /\ d \in Nat /\ d <= c /\ d # c
      BY <1>4, <2>2
    <3>4. ~(c <= d)
      BY <3>3
    <3>. QED
      BY <3>2, <3>4, AncestorsAre
  <2>4. c \in SharedHeads
    BY <1>3, <2>3 DEF SharedHeads
  <2>. QED
    BY <2>4
<1>7. SharedHeads # {} => Newest(SharedHeads) \in SharedHeads
  <2>1. SUFFICES ASSUME SharedHeads # {} PROVE Newest(SharedHeads) \in SharedHeads
    OBVIOUS
  <2>2. PICK H : H = SharedHeads
    OBVIOUS
  <2>3. H \subseteq Nat /\ H # {} /\ \A c \in H : c <= Len(parents)
    BY <1>3, <1>4, <1>5, <2>1, <2>2
  <2>4. \E c \in H : \A d \in H : d <= c
    BY <1>1, <2>3, Greatest
  <2>5. Newest(H) \in H
    BY <2>4 DEF Newest
  <2>. QED
    BY <2>2, <2>5
<1>. QED
  BY <1>5, <1>6, <1>7

(* Where the choice goes. *)
LEMMA GetCommitFacts ==
  ASSUME BaseTyped, NEW c, c = GetCommit
  PROVE  /\ c # 0 => c \in Ancestors({head})
         /\ Shared # {} => c # 0 /\ c \in Ancestors(tips)
         /\ Shared # {} /\ setting.backend = "jj" => c \in SharedHeads
         /\ Shared = {} => c = NoBase
         /\ Unpushed = {} <=> head \in Ancestors(tips)
<1>1. Commits = 1 .. Len(parents) /\ Len(parents) \in Nat /\ Ordered(parents) /\ head \in Commits /\ tips \subseteq Commits
  BY CommitsAre DEF BaseTyped
<1>2. PICK mine : mine = Ancestors({head})
  OBVIOUS
<1>3. PICK theirs : theirs = Ancestors(tips)
  OBVIOUS
<1>4. /\ head \in mine /\ mine \subseteq 1 .. Len(parents) /\ ClosedIn(parents, mine)
      /\ \A A : head \in A /\ ClosedIn(parents, A) => mine \subseteq A
  <2>1. {head} \in SUBSET (1 .. Len(parents)) /\ mine = AncestorsIn(parents, {head})
    BY <1>1, <1>2, AncestorsAre
  <2>2. /\ {head} \subseteq mine /\ mine \subseteq 1 .. Len(parents) /\ ClosedIn(parents, mine)
        /\ \A A : {head} \subseteq A /\ ClosedIn(parents, A) => mine \subseteq A
    BY <1>1, <2>1, AncestorsFacts
  <2>. QED
    BY <2>2
<1>5. ClosedIn(parents, theirs) /\ theirs \subseteq 1 .. Len(parents) /\ (tips = {} => theirs = {})
  <2>1. tips \in SUBSET (1 .. Len(parents)) /\ theirs = AncestorsIn(parents, tips)
    BY <1>1, <1>3, AncestorsAre
  <2>2. tips = {} => theirs = {}
    BY <2>1 DEF AncestorsIn
  <2>. QED
    BY <1>1, <2>1, <2>2, AncestorsFacts
<1>6. NoBase # 0 => NoBase = head
  BY DEF NoBase
<1>7. Shared = mine \cap theirs /\ Unpushed = mine \ theirs
  BY <1>2, <1>3 DEF Shared, Unpushed
<1>8. Unpushed = {} <=> head \in theirs
  <2>1. head \in theirs => mine \subseteq theirs
    BY <1>4, <1>5
  <2>. QED
    BY <1>4, <1>7, <2>1
<1>9. 0 \notin theirs
  BY <1>1, <1>5
<1>10. Boundary \subseteq mine /\ Boundary \subseteq theirs
  <2>1. Boundary = (UNION {parents[d] : d \in mine \ theirs}) \ (mine \ theirs)
    BY <1>7 DEF Boundary
  <2>2. \A d \in mine : parents[d] \subseteq mine
    BY <1>4 DEF ClosedIn
  <2>. QED
    BY <2>1, <2>2
<1>11. CASE ~setting.remote
  <2>1. Shared = {} /\ c = NoBase
    BY <1>5, <1>7, <1>11 DEF GetCommit, BaseTyped
  <2>. QED
    BY <1>2, <1>3, <1>4, <1>6, <1>8, <2>1
<1>12. CASE setting.remote /\ setting.backend = "jj"
  <2>1. c = IF SharedHeads = {} THEN NoBase ELSE Newest(SharedHeads)
    BY <1>12 DEF GetCommit
  <2>2. /\ Shared # {} => c \in SharedHeads /\ c \in mine /\ c \in theirs
        /\ Shared = {} => c = NoBase
    BY <1>7, <2>1, SharedHeadsFacts
  <2>. QED
    BY <1>2, <1>3, <1>4, <1>6, <1>8, <1>9, <2>2
<1>13. CASE setting.remote /\ setting.backend = "git"
  <2>1. c = IF Unpushed = {} THEN head ELSE IF Boundary = {} THEN NoBase
            ELSE IF setting.newestFirst THEN Newest(Boundary) ELSE Oldest(Boundary)
    BY <1>13 DEF GetCommit
  <2>2. setting.backend # "jj"
    BY <1>13
  <2>3. CASE Unpushed = {}
    <3>1. c = head /\ head \in mine /\ head \in theirs
      BY <1>4, <1>8, <2>1, <2>3
    <3>. QED
      BY <1>2, <1>3, <1>7, <1>8, <1>9, <2>2, <3>1
  <2>4. CASE Unpushed # {} /\ Boundary = {}
    <3>1. c = NoBase
      BY <2>1, <2>4
    <3>2. head \in Unpushed
      BY <1>4, <1>7, <1>8, <2>4
    <3>3. ClosedIn(parents, Unpushed)
      BY <2>4 DEF Boundary, ClosedIn
    <3>4. mine \subseteq Unpushed
      BY <1>4, <3>2, <3>3
    <3>5. Shared = {}
      BY <1>7, <3>4
    <3>. QED
      BY <1>2, <1>3, <1>4, <1>6, <1>8, <3>1, <3>5
  <2>5. CASE Unpushed # {} /\ Boundary # {}
    <3>1. PICK B : B = Boundary
      OBVIOUS
    <3>2. B \subseteq Nat /\ B # {} /\ \A d \in B : d <= Len(parents)
      BY <1>1, <1>4, <1>10, <2>5, <3>1
    <3>3. \E d \in B : \A e \in B : e <= d
      BY <1>1, <3>2, Greatest
    <3>4. \E d \in B : \A e \in B : d <= e
      BY <3>2, Least
    <3>5. Newest(B) \in B /\ Oldest(B) \in B
      BY <3>3, <3>4 DEF Newest, Oldest
    <3>6. c \in Boundary
      BY <2>1, <2>5, <3>1, <3>5
    <3>7. c \in mine /\ c \in theirs /\ Shared # {}
      BY <1>7, <1>10, <3>6
    <3>. QED
      BY <1>2, <1>3, <1>8, <1>9, <2>2, <3>7
  <2>. QED
    BY <2>3, <2>4, <2>5
<1>. QED
  BY <1>11, <1>12, <1>13 DEF BaseTyped

(* Which choice it is while the histories grow: shared history alone decides under jj. *)
LEMMA SameAnswerOfJj ==
  ASSUME BaseTyped, setting.backend = "jj", UNCHANGED setting, Shared' = Shared, Shared # {},
         \A c \in Commits : Ancestors({c})' = Ancestors({c})
  PROVE  GetCommit' = GetCommit
<1>1. Shared \subseteq Commits
  <2>1. Ordered(parents) /\ {head} \in SUBSET (1 .. Len(parents)) /\ Commits = 1 .. Len(parents)
    BY CommitsAre DEF BaseTyped
  <2>2. AncestorsIn(parents, {head}) \subseteq Commits
    BY <2>1, AncestorsFacts
  <2>. QED
    BY <2>2, AncestorsAre DEF Shared
<1>2. SharedHeads' = SharedHeads
  BY <1>1 DEF SharedHeads
<1>3. SharedHeads # {}
  BY SharedHeadsFacts
<1>4. GetCommit' = IF ~setting.remote THEN NoBase' ELSE Newest(SharedHeads)
  BY <1>2, <1>3 DEF GetCommit, Newest
<1>5. GetCommit = IF ~setting.remote THEN NoBase ELSE Newest(SharedHeads)
  BY <1>3 DEF GetCommit
<1>6. setting.remote
  BY DEF Shared, Ancestors, BaseTyped
<1>. QED
  BY <1>4, <1>5, <1>6

LEMMA BaseInit == BaseCommitInit => BaseInv
<1>. SUFFICES ASSUME BaseCommitInit PROVE BaseInv
  OBVIOUS
<1>1. parents = <<{}, {1}>>
  BY DEF BaseCommitInit
<1>2. parents \in Seq(SUBSET Nat) /\ Len(parents) = 2 /\ parents[1] = {} /\ parents[2] = {1} /\ DOMAIN parents = 1 .. 2
  BY <1>1
<1>3. Ordered(parents)
  BY <1>2 DEF Ordered
<1>4. head \in Commits /\ tips \in SUBSET Commits
  BY <1>2 DEF BaseCommitInit, Commits
<1>. QED
  BY <1>3, <1>4 DEF BaseCommitInit, BaseInv, BaseTyped

LEMMA NewCommitFacts ==
  ASSUME BaseTyped, NEW ps \in SUBSET Commits, NewCommit(ps)
  PROVE  /\ Ordered(parents)' /\ Commits' = Commits \cup {Made} /\ Made \notin Commits
         /\ \A cs \in SUBSET Commits : AncestorsIn(parents', cs) = AncestorsIn(parents, cs)
         /\ \A c \in Commits : c \in Commits' /\ Ancestors({c})' = Ancestors({c})
         /\ parents'[Made] = ps
         /\ \A A \in SUBSET Commits : ClosedIn(parents', A) <=> ClosedIn(parents, A)
<1>1. Commits = 1 .. Len(parents) /\ Len(parents) \in Nat /\ Ordered(parents)
  BY CommitsAre DEF BaseTyped
<1>2. PICK qs : qs = parents' /\ qs = Append(parents, ps)
  BY DEF NewCommit
<1>3. /\ Ordered(qs) /\ Len(qs) = Len(parents) + 1 /\ qs[Len(parents) + 1] = ps
      /\ \A cs \in SUBSET (1 .. Len(parents)) : AncestorsIn(qs, cs) = AncestorsIn(parents, cs)
      /\ \A A \in SUBSET (1 .. Len(parents)) : ClosedIn(qs, A) <=> ClosedIn(parents, A)
  <2>1. ps \in SUBSET (1 .. Len(parents)) /\ {} \in SUBSET (1 .. Len(parents)) /\ qs = Append(parents, ps)
    BY <1>1, <1>2
  <2>2. /\ Ordered(qs) /\ Len(qs) = Len(parents) + 1 /\ qs[Len(parents) + 1] = ps
        /\ \A A \in SUBSET (1 .. Len(parents)) : ClosedIn(qs, A) <=> ClosedIn(parents, A)
    BY <1>1, <2>1, OlderAncestors, Zenon
  <2>3. ASSUME NEW cs \in SUBSET (1 .. Len(parents)) PROVE AncestorsIn(qs, cs) = AncestorsIn(parents, cs)
    BY <1>1, <2>1, OlderAncestors, Zenon
  <2>. QED
    BY <2>2, <2>3
<1>4. DOMAIN qs = 1 .. Len(qs)
  BY <1>3, LenProperties DEF Ordered
<1>5. Ordered(parents)'
  BY <1>2, <1>3 DEF Ordered
<1>6. Commits' = DOMAIN qs
  BY <1>2 DEF Commits
<1>7. Commits' = Commits \cup {Made} /\ Made \notin Commits
  BY <1>1, <1>3, <1>4, <1>6 DEF Made
<1>8. ASSUME NEW c \in Commits PROVE c \in Commits' /\ Ancestors({c})' = Ancestors({c})
  <2>1. AncestorsIn(qs, {c}) = AncestorsIn(parents, {c})
    BY <1>1, <1>3
  <2>2. Ancestors({c})' = AncestorsIn(qs, {c})
    BY <1>2 DEF Ancestors, AncestorsIn, AncestorsOf, Commits
  <2>. QED
    BY <1>7, <2>1, <2>2, AncestorsAre
<1>. QED
  BY <1>1, <1>2, <1>3, <1>5, <1>7, <1>8 DEF Made

(* What was said when the repository was as it was. *)
LEMMA RepositoryInv ==
  ASSUME BaseInv, UNCHANGED <<setting, phase, sha, base, start, then>>, BaseTyped',
         \A c \in Commits : c \in Commits' /\ Ancestors({c})' = Ancestors({c}),
         phase # "idle" /\ ~dropped' => ~dropped /\ Ancestors(tips) \subseteq Ancestors(tips)',
         phase # "idle" /\ ~moved' => ~moved,
         phase = "told" /\ ~moved' => Unmoved'
  PROVE  BaseInv'
<1>1. phase # "idle" => Told'
  <2>1. SUFFICES ASSUME phase # "idle" PROVE Told'
    OBVIOUS
  <2>2. start.head \in Commits /\ Suits(sha, start)
    BY <2>1 DEF BaseInv, Told
  <2>3. start'.head \in Commits' /\ Ancestors({start.head})' = Ancestors({start.head})
    BY <2>2
  <2>4. Suits(sha, start)'
    BY <2>1, <2>2, <2>3 DEF Suits
  <2>. QED
    BY <2>3, <2>4 DEF Told
<1>2. phase = "patched" => Patched'
  <2>1. SUFFICES ASSUME phase = "patched" PROVE Patched'
    OBVIOUS
  <2>2. then.head \in Commits /\ Suits(base, then) /\ (~moved => base = IF start.shared THEN sha ELSE then.head)
    BY <2>1 DEF BaseInv, Patched
  <2>3. then'.head \in Commits' /\ Ancestors({then.head})' = Ancestors({then.head})
    BY <2>2
  <2>4. Suits(base, then)'
    BY <2>1, <2>2, <2>3 DEF Suits
  <2>. QED
    BY <2>1, <2>2, <2>3, <2>4 DEF Patched
<1>. QED
  BY <1>1, <1>2 DEF BaseInv

(* A new HEAD on top of some commits. *)
LEMMA NewHeadFacts ==
  ASSUME BaseTyped, NEW ps \in SUBSET Commits, NewCommit(ps), head' = Made,
         UNCHANGED <<tips, setting>>, phase' \in {"idle", "told", "patched"}, dirty' => dirty
  PROVE  /\ BaseTyped'
         /\ \A c \in Commits : c \in Commits' /\ Ancestors({c})' = Ancestors({c})
         /\ Ancestors(tips)' = Ancestors(tips) /\ Made \notin Ancestors(tips)
         /\ Ancestors({head})' = {Made} \cup AncestorsIn(parents, ps)
<1>1. Commits = 1 .. Len(parents) /\ Ordered(parents) /\ tips \in SUBSET Commits
  BY CommitsAre DEF BaseTyped
<1>2. PICK qs : qs = parents'
  OBVIOUS
<1>3. /\ Ordered(qs) /\ Commits' = Commits \cup {Made} /\ Made \notin Commits
      /\ \A cs \in SUBSET Commits : AncestorsIn(qs, cs) = AncestorsIn(parents, cs)
      /\ \A c \in Commits : c \in Commits' /\ Ancestors({c})' = Ancestors({c})
      /\ qs[Made] = ps
  BY <1>2, NewCommitFacts DEF Ordered
<1>4. BaseTyped'
  BY <1>2, <1>3 DEF BaseTyped, Ordered
<1>5. Ancestors(tips)' = AncestorsIn(qs, tips)
  BY <1>2 DEF Ancestors, AncestorsIn, AncestorsOf, Commits
<1>6. Ancestors(tips)' = Ancestors(tips)
  BY <1>1, <1>3, <1>5, AncestorsAre
<1>7. Ancestors(tips) \subseteq Commits
  BY <1>1, AncestorsFacts, AncestorsAre
<1>8. Commits' = 1 .. Len(qs)
  BY <1>2, <1>3, LenProperties DEF Ordered, Commits
<1>9. AncestorsIn(qs, {Made}) = {Made} \cup AncestorsIn(qs, qs[Made])
  BY <1>3, <1>8, AncestorsStep
<1>10. Ancestors({head})' = AncestorsIn(qs, {Made})
  BY <1>2 DEF Ancestors, AncestorsIn, AncestorsOf, Commits
<1>11. AncestorsIn(qs, qs[Made]) = AncestorsIn(parents, ps)
  BY <1>3
<1>. QED
  BY <1>3, <1>4, <1>6, <1>7, <1>9, <1>10, <1>11

(* A commit on top of HEAD: what is shared stays, and the boundary is the same or HEAD. *)
LEMMA CommitKeeps ==
  ASSUME BaseTyped, Commit
  PROVE  Shared' = Shared /\ (Shared # {} => GetCommit' = GetCommit)
<1>1. NewCommit({head}) /\ head' = Made /\ UNCHANGED <<tips, setting, phase, dirty>> /\ {head} \in SUBSET Commits
  BY DEF Commit, Adds, request, BaseTyped
<1>2. PICK mine, theirs : mine = Ancestors({head}) /\ theirs = Ancestors(tips)
  OBVIOUS
<1>3. /\ \A c \in Commits : c \in Commits' /\ Ancestors({c})' = Ancestors({c})
      /\ Ancestors(tips)' = theirs /\ Made \notin theirs /\ Ancestors({head})' = {Made} \cup mine
  BY <1>1, <1>2, NewHeadFacts, AncestorsAre DEF BaseTyped
<1>4. Shared' = Shared /\ Shared = mine \cap theirs
  BY <1>2, <1>3 DEF Shared
<1>5. ASSUME Shared # {}, setting.backend = "git" PROVE GetCommit' = GetCommit
  <2>1. Commits = 1 .. Len(parents) /\ Ordered(parents) /\ mine \subseteq Commits /\ head \in mine /\ setting.remote
    <3>1. Commits = 1 .. Len(parents) /\ Ordered(parents) /\ {head} \in SUBSET Commits /\ mine = AncestorsIn(parents, {head})
      BY <1>1, <1>2, CommitsAre, AncestorsAre DEF BaseTyped
    <3>2. {head} \subseteq mine /\ mine \subseteq Commits
      BY <3>1, AncestorsFacts
    <3>3. setting.remote
      BY <1>5 DEF Shared, Ancestors, BaseTyped
    <3>. QED
      BY <3>1, <3>2, <3>3
  <2>2. PICK qs : qs = parents'
    OBVIOUS
  <2>3. qs[Made] = {head} /\ Made \notin Commits /\ \A c \in Commits : qs[c] = parents[c]
    <3>1. parents \in Seq(SUBSET Nat) /\ {head} \in SUBSET Nat /\ qs = Append(parents, {head})
      BY <1>1, <2>1, <2>2 DEF NewCommit, Ordered
    <3>2. qs[Len(parents) + 1] = {head} /\ \A c \in 1 .. Len(parents) : qs[c] = parents[c]
      BY <3>1, AppendProperties
    <3>. QED
      BY <1>1, <2>1, <3>2, NewCommitFacts DEF Made
  <2>4. Unpushed = mine \ theirs /\ Unpushed' = {Made} \cup (mine \ theirs)
    BY <1>2, <1>3 DEF Unpushed
  <2>5. \A c \in mine : Made \notin parents[c] /\ parents[c] \subseteq Commits
    BY <2>1, <2>3 DEF Ordered
  <2>6. Boundary = (UNION {parents[c] : c \in mine \ theirs}) \ (mine \ theirs)
    BY <2>4 DEF Boundary
  <2>7. Boundary' = (UNION {qs[c] : c \in {Made} \cup (mine \ theirs)}) \ ({Made} \cup (mine \ theirs))
    BY <2>2, <2>4 DEF Boundary
  <2>8. UNION {qs[c] : c \in {Made} \cup (mine \ theirs)} = {head} \cup UNION {parents[c] : c \in mine \ theirs}
    BY <2>1, <2>3
  <2>9. head # Made
    BY <2>1, <2>3
  <2>10. CASE head \in theirs
    <3>1. mine \ theirs = {}
      BY <1>2, <2>4, <2>10, GetCommitFacts
    <3>2. Unpushed = {} /\ Unpushed' # {} /\ Boundary' = {head}
      BY <2>4, <2>7, <2>8, <2>9, <3>1
    <3>3. head \in Nat
      BY <2>1
    <3>4. Newest({head}) = head /\ Oldest({head}) = head
      BY <3>3 DEF Newest, Oldest
    <3>5. GetCommit = head
      BY <1>5, <2>1, <3>2 DEF GetCommit
    <3>6. GetCommit' = IF setting.newestFirst THEN Newest({head}) ELSE Oldest({head})
      BY <1>1, <1>5, <2>1, <3>2 DEF GetCommit, Newest, Oldest
    <3>. QED
      BY <3>4, <3>5, <3>6
  <2>11. CASE head \notin theirs
    <3>1. head \in mine \ theirs
      BY <2>1, <2>11
    <3>2. Boundary' = Boundary /\ Unpushed # {} /\ Unpushed' # {}
      BY <2>4, <2>5, <2>6, <2>7, <2>8, <3>1
    <3>3. Boundary # {}
      <4>1. SUFFICES ASSUME Boundary = {} PROVE FALSE
        OBVIOUS
      <4>2. ClosedIn(parents, mine \ theirs)
        BY <2>6, <4>1 DEF ClosedIn
      <4>3. mine \subseteq mine \ theirs
        <5>1. {head} \in SUBSET (1 .. Len(parents)) /\ mine = AncestorsIn(parents, {head}) /\ {head} \subseteq mine \ theirs
          BY <1>2, <2>1, <3>1, AncestorsAre
        <5>. QED
          BY <2>1, <4>2, <5>1, AncestorsFacts
      <4>. QED
        BY <1>4, <1>5, <4>3
    <3>4. GetCommit = IF setting.newestFirst THEN Newest(Boundary) ELSE Oldest(Boundary)
      BY <1>5, <2>1, <3>2, <3>3 DEF GetCommit
    <3>5. GetCommit' = IF setting.newestFirst THEN Newest(Boundary) ELSE Oldest(Boundary)
      BY <1>1, <1>5, <2>1, <3>2, <3>3 DEF GetCommit, Newest, Oldest
    <3>. QED
      BY <3>4, <3>5
  <2>. QED
    BY <2>10, <2>11
<1>. QED
  BY <1>1, <1>3, <1>4, <1>5, SameAnswerOfJj DEF BaseTyped

LEMMA SnapshotFacts ==
  ASSUME BaseTyped, Snapshot \/ UNCHANGED <<parents, head, dirty>>, UNCHANGED <<tips, setting>>,
         phase' \in {"idle", "told", "patched"}
  PROVE  /\ BaseTyped'
         /\ \A c \in Commits : c \in Commits' /\ Ancestors({c})' = Ancestors({c})
         /\ Ancestors(tips)' = Ancestors(tips) /\ head' \in Ancestors({head})'
         /\ head \notin Ancestors(tips) => Shared' = Shared
<1>1. Commits = 1 .. Len(parents) /\ Ordered(parents) /\ head \in Commits /\ {head} \in SUBSET Commits
  BY CommitsAre DEF BaseTyped
<1>2. CASE UNCHANGED <<parents, head, dirty>>
  <2>1. Commits' = Commits /\ Ancestors(tips)' = Ancestors(tips) /\ Ancestors({head})' = Ancestors({head})
        /\ \A c \in Commits : Ancestors({c})' = Ancestors({c})
    BY <1>2 DEF Ancestors, Commits
  <2>2. BaseTyped'
    BY <1>2, <2>1 DEF BaseTyped, Ordered
  <2>3. {head} \subseteq AncestorsIn(parents, {head})
    BY <1>1, AncestorsFacts
  <2>4. head' \in Ancestors({head})'
    BY <1>2, <2>1, <2>3, AncestorsAre
  <2>5. Shared' = Shared
    BY <2>1 DEF Shared
  <2>. QED
    BY <2>1, <2>2, <2>4, <2>5
<1>3. CASE dirty /\ NewCommit(parents[head]) /\ head' = Made /\ dirty' = FALSE
  <2>1. parents[head] \in SUBSET Commits
    BY <1>1 DEF Ordered
  <2>2. /\ BaseTyped' /\ \A c \in Commits : c \in Commits' /\ Ancestors({c})' = Ancestors({c})
        /\ Ancestors(tips)' = Ancestors(tips) /\ Made \notin Ancestors(tips)
        /\ Ancestors({head})' = {Made} \cup AncestorsIn(parents, parents[head])
    BY <1>3, <2>1, NewHeadFacts
  <2>3. Ancestors({head}) = {head} \cup AncestorsIn(parents, parents[head])
    BY <1>1, AncestorsStep, AncestorsAre
  <2>4. head \notin Ancestors(tips) => Shared' = Shared
    BY <2>2, <2>3 DEF Shared
  <2>. QED
    BY <1>3, <2>2, <2>4
<1>. QED
  BY <1>2, <1>3 DEF Snapshot

LEMMA StillUnmoved ==
  ASSUME Unmoved, UNCHANGED <<setting, sha, start>>, Shared' = Shared, Shared # {} => GetCommit' = GetCommit
  PROVE  Unmoved'
  BY DEF Unmoved

LEMMA CommitInv == ASSUME BaseInv, Commit PROVE BaseInv'
<1>1. NewCommit({head}) /\ head' = Made /\ UNCHANGED <<tips, setting, dirty, phase, sha, base, start, then, moved, dropped>>
  BY DEF Commit, Adds, request
<1>2. BaseTyped /\ {head} \in SUBSET Commits
  BY DEF BaseInv, BaseTyped
<1>3. /\ BaseTyped' /\ \A c \in Commits : c \in Commits' /\ Ancestors({c})' = Ancestors({c})
      /\ Ancestors(tips)' = Ancestors(tips)
  BY <1>1, <1>2, NewHeadFacts DEF BaseTyped
<1>4. phase = "told" /\ ~moved' => Unmoved'
  BY <1>1, <1>2, CommitKeeps, StillUnmoved DEF BaseInv
<1>. QED
  BY <1>1, <1>3, <1>4, RepositoryInv

LEMMA HistoriesInv == ASSUME BaseInv, Merge \/ Orphan PROVE BaseInv'
<1>1. PICK ps \in SUBSET Commits : NewCommit(ps)
  BY DEF Merge, Orphan, BaseInv, BaseTyped
<1>2. head' = Made /\ UNCHANGED <<tips, setting, dirty, phase, sha, base, start, then, dropped>>
      /\ (phase # "idle" => moved')
  BY DEF Merge, Orphan, Moves, request
<1>3. BaseTyped
  BY DEF BaseInv
<1>4. /\ BaseTyped' /\ \A c \in Commits : c \in Commits' /\ Ancestors({c})' = Ancestors({c})
      /\ Ancestors(tips)' = Ancestors(tips)
  BY <1>1, <1>2, <1>3, NewHeadFacts DEF BaseTyped
<1>. QED
  BY <1>2, <1>4, RepositoryInv

LEMMA AnyCommandInv == ASSUME BaseInv, AnyCommand PROVE BaseInv'
<1>1. /\ dirty /\ Snapshot /\ UNCHANGED <<tips, setting, phase, sha, base, start, then, dropped>>
      /\ (IF head \in Ancestors(tips) THEN phase # "idle" => moved' ELSE UNCHANGED moved)
  BY DEF AnyCommand, Moves, Adds, request
<1>2. BaseTyped /\ setting.backend = "jj" /\ phase' \in {"idle", "told", "patched"}
  BY <1>1 DEF BaseInv, BaseTyped
<1>3. /\ BaseTyped' /\ \A c \in Commits : c \in Commits' /\ Ancestors({c})' = Ancestors({c})
      /\ Ancestors(tips)' = Ancestors(tips) /\ (head \notin Ancestors(tips) => Shared' = Shared)
  BY <1>1, <1>2, SnapshotFacts
<1>4. ASSUME phase = "told", ~moved' PROVE Unmoved'
  <2>1. head \notin Ancestors(tips) /\ ~moved /\ Shared' = Shared
    BY <1>1, <1>3, <1>4
  <2>2. Shared # {} => GetCommit' = GetCommit
    BY <1>1, <1>2, <1>3, <2>1, SameAnswerOfJj
  <2>. QED
    BY <1>1, <1>4, <2>1, <2>2, StillUnmoved DEF BaseInv
<1>5. phase # "idle" /\ ~moved' => ~moved
  BY <1>1
<1>. QED
  BY <1>1, <1>3, <1>4, <1>5, RepositoryInv

LEMMA CheckOutInv == ASSUME BaseInv, CheckOut PROVE BaseInv'
<1>1. UNCHANGED <<parents, tips, setting, dirty, phase, sha, base, start, then, dropped>>
      /\ (phase # "idle" => moved') /\ head' \in Commits
  BY DEF CheckOut, Moves, request
<1>2. Commits' = Commits
  BY <1>1 DEF Commits
<1>3. BaseTyped'
  BY <1>1, <1>2 DEF BaseInv, BaseTyped, Ordered
<1>4. \A c \in Commits : c \in Commits' /\ Ancestors({c})' = Ancestors({c})
  BY <1>1, <1>2 DEF Ancestors
<1>5. Ancestors(tips)' = Ancestors(tips)
  BY <1>1, <1>2 DEF Ancestors
<1>. QED
  BY <1>1, <1>3, <1>4, <1>5, RepositoryInv

LEMMA PushInv == ASSUME BaseInv, PushHead PROVE BaseInv'
<1>1. PICK old : old \in SUBSET Ancestors({head}) /\ tips' = (tips \ old) \cup {head}
  BY DEF PushHead
<1>2. UNCHANGED <<parents, head, setting, dirty, phase, sha, base, start, then, dropped>> /\ setting.remote
      /\ (phase # "idle" => moved')
  BY DEF PushHead, Moves, request
<1>3. Commits' = Commits
  BY <1>2 DEF Commits
<1>4. BaseTyped'
  BY <1>1, <1>2, <1>3 DEF BaseInv, BaseTyped, Ordered
<1>5. \A c \in Commits : c \in Commits' /\ Ancestors({c})' = Ancestors({c})
  BY <1>2, <1>3 DEF Ancestors
<1>6. Ancestors(tips) \subseteq Ancestors(tips)'
  <2>1. Commits = 1 .. Len(parents) /\ Ordered(parents) /\ head \in Commits /\ tips \in SUBSET Commits
    BY CommitsAre DEF BaseInv, BaseTyped
  <2>2. PICK new : new = tips' /\ new \in SUBSET Commits
    BY <1>1, <2>1
  <2>3. PICK b : b = AncestorsIn(parents, new)
    OBVIOUS
  <2>4. new \subseteq b /\ ClosedIn(parents, b)
    BY <2>1, <2>2, <2>3, AncestorsFacts
  <2>5. head \in b
    BY <1>1, <2>2, <2>4
  <2>6. AncestorsIn(parents, {head}) \subseteq b
    <3>1. {head} \in SUBSET (1 .. Len(parents)) /\ {head} \subseteq b
      BY <2>1, <2>5
    <3>. QED
      BY <2>1, <2>4, <3>1, AncestorsFacts
  <2>7. tips \subseteq b
    BY <1>1, <2>2, <2>4, <2>6, AncestorsAre
  <2>8. AncestorsIn(parents, tips) \subseteq b
    BY <2>1, <2>4, <2>7, AncestorsFacts
  <2>9. Ancestors(tips)' = b
    BY <1>2, <2>2, <2>3 DEF Ancestors, AncestorsIn, AncestorsOf, Commits
  <2>. QED
    BY <2>8, <2>9, AncestorsAre
<1>. QED
  BY <1>2, <1>4, <1>5, <1>6, RepositoryInv

(* Others' new commit is no ancestor of HEAD: the remote has it besides what it had. *)
LEMMA FetchInv == ASSUME BaseInv, FetchNew PROVE BaseInv'
<1>1. PICK ps \in SUBSET tips, old \in SUBSET tips : old \subseteq ps /\ NewCommit(ps) /\ tips' = (tips \ old) \cup {Made}
  BY DEF FetchNew
<1>2. UNCHANGED <<head, setting, dirty, phase, sha, base, start, then, moved, dropped>> /\ setting.remote
  BY DEF FetchNew, Adds, request
<1>3. BaseTyped /\ ps \in SUBSET Commits /\ tips \in SUBSET Commits /\ head \in Commits /\ {head} \in SUBSET Commits
  BY DEF BaseInv, BaseTyped
<1>4. PICK qs, new : qs = parents' /\ new = tips'
  OBVIOUS
<1>5. /\ Ordered(qs) /\ Commits' = Commits \cup {Made} /\ Made \notin Commits /\ qs[Made] = ps
      /\ \A A \in SUBSET Commits : ClosedIn(qs, A) <=> ClosedIn(parents, A)
      /\ AncestorsIn(qs, tips) = AncestorsIn(parents, tips)
      /\ \A c \in Commits : c \in Commits' /\ Ancestors({c})' = Ancestors({c})
  BY <1>1, <1>3, <1>4, NewCommitFacts DEF Ordered
<1>6. BaseTyped'
  BY <1>1, <1>2, <1>3, NewCommitFacts DEF BaseTyped
<1>7. Commits' = 1 .. Len(qs) /\ Commits = 1 .. Len(parents) /\ Ordered(parents)
  BY <1>3, <1>4, <1>5, CommitsAre, LenProperties DEF Ordered, Commits, BaseTyped
<1>8. new \in SUBSET (1 .. Len(qs)) /\ tips \in SUBSET (1 .. Len(qs))
  BY <1>1, <1>3, <1>4, <1>5, <1>7
<1>9. PICK b : b = AncestorsIn(qs, new)
  OBVIOUS
<1>10. new \subseteq b /\ ClosedIn(qs, b) /\ \A A : new \subseteq A /\ ClosedIn(qs, A) => b \subseteq A
  BY <1>5, <1>8, <1>9, AncestorsFacts
<1>11. Made \in b
  BY <1>1, <1>4, <1>10
<1>12. ps \subseteq b
  BY <1>5, <1>10, <1>11 DEF ClosedIn
<1>13. tips \subseteq b
  BY <1>1, <1>4, <1>10, <1>12
<1>14. PICK a : a = AncestorsIn(parents, tips)
  OBVIOUS
<1>15. a \subseteq b
  BY <1>5, <1>8, <1>10, <1>13, <1>14, AncestorsFacts
<1>16. tips \subseteq a /\ a \subseteq Commits /\ ClosedIn(parents, a)
  BY <1>3, <1>7, <1>14, AncestorsFacts
<1>17. ClosedIn(qs, a)
  BY <1>5, <1>16
<1>18. ClosedIn(qs, a \cup {Made})
  BY <1>1, <1>5, <1>16, <1>17 DEF ClosedIn
<1>19. new \subseteq a \cup {Made}
  BY <1>1, <1>4, <1>16
<1>20. b = a \cup {Made}
  BY <1>10, <1>11, <1>15, <1>18, <1>19
<1>21. Ancestors(tips)' = Ancestors(tips) \cup {Made}
  <2>1. Ancestors(tips)' = b
    BY <1>4, <1>9 DEF Ancestors, AncestorsIn, AncestorsOf, Commits
  <2>. QED
    BY <1>14, <1>20, <2>1, AncestorsAre
<1>22. PICK mine : mine = Ancestors({head})
  OBVIOUS
<1>23. Ancestors({head})' = mine /\ mine \subseteq Commits
  <2>1. Ancestors({head})' = mine
    BY <1>2, <1>3, <1>5, <1>22
  <2>2. AncestorsIn(parents, {head}) \subseteq Commits
    BY <1>3, <1>7, AncestorsFacts
  <2>. QED
    BY <1>22, <2>1, <2>2, AncestorsAre
<1>24. Shared' = Shared /\ Unpushed' = Unpushed
  BY <1>5, <1>21, <1>22, <1>23 DEF Shared, Unpushed
<1>25. \A c \in Commits : qs[c] = parents[c]
  <2>1. parents \in Seq(SUBSET Nat) /\ ps \in SUBSET Nat /\ qs = Append(parents, ps)
    BY <1>1, <1>3, <1>4, <1>7 DEF NewCommit, Ordered
  <2>. QED
    BY <1>7, <2>1, AppendProperties
<1>26. Boundary' = Boundary
  <2>1. \A c \in Unpushed : qs[c] = parents[c]
    BY <1>22, <1>23, <1>25 DEF Unpushed
  <2>2. UNION {qs[c] : c \in Unpushed} = UNION {parents[c] : c \in Unpushed}
    BY <2>1
  <2>. QED
    BY <1>4, <1>24, <2>2 DEF Boundary
<1>27. setting.backend = "git" => GetCommit' = GetCommit
  <2>1. SUFFICES ASSUME setting.backend = "git" PROVE GetCommit' = GetCommit
    OBVIOUS
  <2>2. setting.backend # "jj"
    BY <2>1
  <2>3. NoBase' = NoBase
    BY <1>2 DEF NoBase
  <2>. QED
    BY <1>2, <1>24, <1>26, <2>2, <2>3 DEF GetCommit, Newest, Oldest
<1>28. Shared # {} => GetCommit' = GetCommit
  BY <1>2, <1>3, <1>5, <1>24, <1>27, SameAnswerOfJj DEF BaseTyped
<1>29. phase = "told" /\ ~moved' => Unmoved'
  BY <1>2, <1>24, <1>28, StillUnmoved DEF BaseInv
<1>. QED
  BY <1>2, <1>5, <1>6, <1>21, <1>29, RepositoryInv

LEMMA ForcedInv == ASSUME BaseInv, FetchForced PROVE BaseInv'
<1>1. UNCHANGED <<parents, head, setting, dirty, phase, sha, base, start, then>>
      /\ (phase # "idle" => moved' /\ dropped')
  BY DEF FetchForced, request
<1>2. tips' \in SUBSET Commits
  <2>1. PICK t \in tips, new \in SUBSET Commits : tips' = (tips \ {t}) \cup new
    BY DEF FetchForced
  <2>. QED
    BY <2>1 DEF BaseInv, BaseTyped
<1>3. setting.remote
  BY DEF FetchForced, BaseInv, BaseTyped
<1>4. Commits' = Commits
  BY <1>1 DEF Commits
<1>5. BaseTyped'
  BY <1>1, <1>2, <1>3, <1>4 DEF BaseInv, BaseTyped, Ordered
<1>6. \A c \in Commits : c \in Commits' /\ Ancestors({c})' = Ancestors({c})
  BY <1>1, <1>4 DEF Ancestors
<1>. QED
  BY <1>1, <1>5, <1>6, RepositoryInv

LEMMA SameRepository ==
  ASSUME UNCHANGED <<parents, head, tips, setting>>
  PROVE  /\ Commits' = Commits /\ GetCommit' = GetCommit /\ Shared' = Shared
         /\ Ancestors(tips)' = Ancestors(tips) /\ \A c : Ancestors({c})' = Ancestors({c})
<1>1. Commits' = Commits /\ Ancestors(tips)' = Ancestors(tips) /\ \A c : Ancestors({c})' = Ancestors({c})
  BY DEF Ancestors, Commits
<1>2. Shared' = Shared /\ Unpushed' = Unpushed
  BY <1>1 DEF Shared, Unpushed
<1>3. SharedHeads' = SharedHeads /\ Boundary' = Boundary /\ NoBase' = NoBase
  BY <1>1, <1>2 DEF SharedHeads, Boundary, NoBase
<1>4. GetCommit' = GetCommit
  BY <1>2, <1>3 DEF GetCommit, Newest, Oldest
<1>. QED
  BY <1>1, <1>2, <1>4

LEMMA QuietInv ==
  ASSUME BaseInv, UNCHANGED <<parents, head, tips, setting, phase, sha, base, start, then, moved, dropped>>,
         dirty' => setting.backend = "jj"
  PROVE  BaseInv'
<1>1. /\ Commits' = Commits /\ GetCommit' = GetCommit /\ Shared' = Shared
      /\ Ancestors(tips)' = Ancestors(tips) /\ \A c : Ancestors({c})' = Ancestors({c})
  BY SameRepository
<1>2. BaseTyped'
  BY <1>1 DEF BaseInv, BaseTyped, Ordered
<1>3. phase = "told" /\ ~moved' => Unmoved'
  BY <1>1, StillUnmoved DEF BaseInv
<1>. QED
  BY <1>1, <1>2, <1>3, RepositoryInv

(* The first answer. *)
LEMMA AskInv == ASSUME BaseInv, AskCommit PROVE BaseInv'
<1>1. /\ UNCHANGED <<tips, setting, moved, dropped>> /\ phase' = "told"
      /\ sha' = (IF AnswersAt THEN head' ELSE GetCommit)
      /\ start'.head = head' /\ (start'.shared <=> Shared # {})
      /\ (Snapshot \/ UNCHANGED <<parents, head, dirty>>)
      /\ (~AnswersAt => UNCHANGED <<parents, head, dirty>>)
  BY DEF AskCommit
<1>2. BaseTyped
  BY DEF BaseInv
<1>3. /\ BaseTyped' /\ Ancestors(tips)' = Ancestors(tips) /\ head' \in Ancestors({head})'
      /\ (head \notin Ancestors(tips) => Shared' = Shared)
  BY <1>1, <1>2, SnapshotFacts
<1>4. CASE AnswersAt
  <2>1. head \notin Ancestors(tips)
    <3>1. {head} \in SUBSET (1 .. Len(parents)) /\ Ordered(parents)
      BY <1>2, CommitsAre DEF BaseTyped
    <3>2. {head} \subseteq AncestorsIn(parents, {head})
      BY <3>1, AncestorsFacts
    <3>. QED
      BY <1>4, <3>2, AncestorsAre DEF AnswersAt, Shared
  <2>2. Shared' = {} /\ ~setting.branch /\ sha' = head' /\ ~start'.shared
    BY <1>1, <1>3, <1>4, <2>1 DEF AnswersAt
  <2>3. Suits(sha, start)'
    BY <1>1, <1>3, <2>2 DEF Suits
  <2>4. Told'
    BY <1>1, <1>3, <2>3 DEF Told, BaseTyped
  <2>5. Unmoved'
    BY <1>1, <2>2 DEF Unmoved
  <2>. QED
    BY <1>1, <1>3, <2>4, <2>5 DEF BaseInv
<1>5. CASE ~AnswersAt
  <2>1. UNCHANGED <<parents, head, tips, setting>> /\ sha' = GetCommit
    BY <1>1, <1>5
  <2>2. /\ GetCommit' = GetCommit /\ Shared' = Shared /\ \A c : Ancestors({c})' = Ancestors({c})
    BY <2>1, SameRepository
  <2>3. Suits(sha, start)'
    <3>1. sha' # 0 => sha' \in Ancestors({head})
      BY <1>2, <2>1, GetCommitFacts
    <3>2. Shared # {} => sha' # 0 /\ sha' \in Ancestors(tips)
      BY <1>2, <2>1, GetCommitFacts
    <3>3. Ancestors({start.head})' = Ancestors({head})
      BY <1>1, <2>1, <2>2
    <3>. QED
      BY <1>1, <1>3, <3>1, <3>2, <3>3 DEF Suits
  <2>4. Told'
    BY <1>1, <1>3, <2>3 DEF Told, BaseTyped
  <2>5. sha' # 0 /\ ~start'.shared => ~setting.branch
    BY <1>1, <1>2, <2>1, GetCommitFacts DEF NoBase
  <2>6. Unmoved'
    BY <1>1, <2>1, <2>2, <2>5 DEF Unmoved
  <2>. QED
    BY <1>1, <1>3, <2>4, <2>6 DEF BaseInv
<1>. QED
  BY <1>4, <1>5

(* The second answer, read before jj's snapshot unless it is the snapshot. *)
LEMMA PatchInv == ASSUME BaseInv, GeneratePatch PROVE BaseInv'
<1>1. /\ UNCHANGED <<tips, setting, sha, start, moved, dropped>> /\ phase = "told" /\ phase' = "patched" /\ sha # 0
      /\ base' = (IF AnswersAt THEN head' ELSE GetCommit)
      /\ then'.head = (IF AnswersAt THEN head' ELSE head) /\ (then'.shared <=> Shared # {})
      /\ (Snapshot \/ UNCHANGED <<parents, head, dirty>>)
  BY DEF GeneratePatch
<1>2. BaseTyped /\ Told /\ (~moved => Unmoved)
  BY <1>1 DEF BaseInv
<1>3. /\ BaseTyped' /\ Ancestors(tips)' = Ancestors(tips) /\ head' \in Ancestors({head})'
      /\ \A c \in Commits : c \in Commits' /\ Ancestors({c})' = Ancestors({c})
  BY <1>1, <1>2, SnapshotFacts
<1>4. Told'
  <2>1. start.head \in Commits /\ Suits(sha, start)
    BY <1>2 DEF Told
  <2>2. start'.head \in Commits' /\ Ancestors({start.head})' = Ancestors({start.head})
    BY <1>1, <1>3, <2>1
  <2>3. Suits(sha, start)'
    BY <1>1, <1>3, <2>1, <2>2 DEF Suits
  <2>. QED
    BY <2>2, <2>3 DEF Told
<1>5. CASE AnswersAt
  <2>1. base' = head' /\ then'.head = head' /\ ~then'.shared /\ Shared = {}
    BY <1>1, <1>5 DEF AnswersAt
  <2>2. Suits(base, then)' /\ then'.head \in Commits'
    BY <1>3, <2>1 DEF Suits, BaseTyped
  <2>3. ~moved' => ~start'.shared
    BY <1>1, <1>2, <2>1 DEF Unmoved
  <2>4. Patched'
    BY <2>1, <2>2, <2>3 DEF Patched
  <2>. QED
    BY <1>1, <1>3, <1>4, <2>4 DEF BaseInv
<1>6. CASE ~AnswersAt
  <2>1. base' = GetCommit /\ then'.head = head /\ head \in Commits
    BY <1>1, <1>2, <1>6 DEF BaseTyped
  <2>2. PICK c : c = GetCommit
    OBVIOUS
  <2>3. /\ c # 0 => c \in Ancestors({head})
        /\ Shared # {} => c # 0 /\ c \in Ancestors(tips)
        /\ Shared = {} => c = NoBase
    BY <1>2, <2>2, GetCommitFacts
  <2>4. then'.head \in Commits' /\ Ancestors({then.head})' = Ancestors({head})
    BY <1>3, <2>1
  <2>5. Suits(base, then)'
    BY <1>1, <1>3, <2>1, <2>2, <2>3, <2>4 DEF Suits
  <2>6. ASSUME ~moved PROVE c = IF start.shared THEN sha ELSE head
    <3>1. CASE start.shared
      BY <1>2, <2>2, <2>6, <3>1 DEF Unmoved
    <3>2. CASE ~start.shared
      BY <1>1, <1>2, <2>3, <2>6, <3>2 DEF Unmoved, NoBase
    <3>. QED
      BY <3>1, <3>2
  <2>7. Patched'
    BY <1>1, <2>1, <2>2, <2>4, <2>5, <2>6 DEF Patched
  <2>. QED
    BY <1>1, <1>3, <1>4, <2>7 DEF BaseInv
<1>. QED
  BY <1>5, <1>6

LEMMA SendInv == ASSUME BaseInv, SendRun PROVE BaseInv'
<1>1. UNCHANGED <<parents, head, tips, setting, dirty>> /\ phase' = "idle"
  BY DEF SendRun
<1>2. Commits' = Commits
  BY <1>1 DEF Commits
<1>3. BaseTyped'
  BY <1>1, <1>2 DEF BaseInv, BaseTyped, Ordered
<1>. QED
  BY <1>1, <1>3 DEF BaseInv

LEMMA EditInv == ASSUME BaseInv, Edit PROVE BaseInv'
<1>1. /\ UNCHANGED <<parents, head, tips, setting, phase, sha, base, start, then, moved, dropped>>
      /\ setting.backend = "jj"
  BY DEF Edit, request
<1>. QED
  BY <1>1, QuietInv

LEMMA BaseNextInv == BaseInv /\ [BaseCommitNext]_baseVars => BaseInv'
<1>. SUFFICES ASSUME BaseInv, [BaseCommitNext]_baseVars PROVE BaseInv'
  OBVIOUS
<1>1. CASE UNCHANGED baseVars
  <2>1. /\ UNCHANGED <<parents, head, tips, setting, phase, sha, base, start, then, moved, dropped>>
        /\ UNCHANGED dirty
    BY <1>1 DEF baseVars
  <2>2. dirty' => setting.backend = "jj"
    BY <2>1 DEF BaseInv, BaseTyped
  <2>. QED
    BY <2>1, <2>2, QuietInv
<1>2. CASE AskCommit \/ RewriteDefinition \/ GeneratePatch \/ SendRun \/ Edit
  BY <1>2, AskInv, EditInv, PatchInv, SendInv DEF RewriteDefinition
<1>3. CASE AnyCommand \/ Commit \/ Merge \/ Orphan \/ CheckOut \/ PushHead \/ FetchNew \/ FetchForced
  BY <1>3, AnyCommandInv, CommitInv, HistoriesInv, CheckOutInv, PushInv, FetchInv, ForcedInv
<1>. QED
  BY <1>1, <1>2, <1>3 DEF BaseCommitNext

(* Each answer of GetCommit is in the history of the working copy it was given for and,
   where that has anything in common with the remote, one the remote holds until a branch
   is dropped; the patch applies to the run's commit although the user commits, files
   change or others' commits are fetched between the two answers: for any history with
   any number of commits and remote branches. *)
THEOREM BasesAreShared == BaseCommitSpec => []BaseIsShared
<1>1. BaseInv => BaseIsShared
  <2>. SUFFICES ASSUME BaseInv PROVE BaseIsShared
    OBVIOUS
  <2>1. BaseTyped /\ (phase = "patched" \/ phase = "told" => Told)
    BY DEF BaseInv
  <2>2. phase = "told" /\ ~moved /\ start.shared /\ setting.backend = "jj" => sha \in SharedHeads
    BY <2>1, GetCommitFacts DEF BaseInv, Unmoved
  <2>. QED
    BY <2>1, <2>2 DEF BaseInv, BaseTyped, BaseIsShared, Told, Patched
<1>. QED
  BY <1>1, BaseInit, BaseNextInv, PTL DEF BaseCommitSpec

=============================================================================
