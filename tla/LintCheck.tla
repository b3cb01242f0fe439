----------------------------- MODULE LintCheck -----------------------------
(***************************************************************************)
(* rwx lint (Check, internal/lsp/check.go) talking to the language server  *)
(* over JSON-RPC (internal/lsp/jsonrpc.go): the check sends one request    *)
(* after the other and waits for each under a deadline; a second goroutine *)
(* reads the server's messages and hands answers to the channel that is    *)
(* registered for their id.  The server may answer late, never, or die.    *)
(* Messages that are not answers are dropped by the reader and left out.   *)
(***************************************************************************)
EXTENDS Naturals, Sequences

CONSTANTS YamlFiles   \* number of files checked

ASSUME YamlFilesAssumption == YamlFiles \in Nat

Requests == 2 * YamlFiles + 2
Ids == 1 .. Requests
Documents == 1 .. YamlFiles

VARIABLES
  check,      \* the main goroutine: step, current file, last id, whether it failed
  deadline,   \* of the check and of the shutdown: "unset", "running", "over"
  loop,       \* the reader: "top", "reading", "stopped"
  pending,    \* ids with a registered channel
  channel,    \* of an id: what its channel holds, "" nothing, "answer", "closed"
  server,     \* "up", "down"
  asked,      \* ids sent to the server and not answered
  wire,       \* answers the server has written and nobody has read
  fixes,      \* files with edits to write
  written,    \* files rewritten with their edits
  diagnosed   \* files whose diagnostics were received

lcVars == <<check, deadline, loop, pending, channel, server, asked, wire, fixes, written, diagnosed>>
connection == <<loop, pending, channel, server, asked, wire>>
results == <<fixes, written, diagnosed>>

LintCheckTypeOK ==
  /\ check \in [at : {"ask", "send", "wait", "exit", "end", "write", "done"},
                what : {"initialize", "diagnostic", "codeAction", "shutdown"},
                file : Documents \cup {1}, id : 0 .. Requests, failed : BOOLEAN]
  /\ deadline \in [check : {"running", "over"}, shutdown : {"unset", "running", "over"}]
  /\ loop \in {"top", "reading", "stopped"}
  /\ pending \subseteq Ids /\ asked \subseteq Ids
  /\ channel \in [Ids -> {"", "answer", "closed"}]
  /\ server \in {"up", "down"}
  /\ wire \in Seq(Ids)
  /\ fixes \subseteq Documents /\ written \subseteq Documents /\ diagnosed \subseteq Documents

LintCheckInit ==
  /\ check = [at |-> "ask", what |-> "initialize", file |-> 1, id |-> 0, failed |-> FALSE]
  /\ deadline = [check |-> "running", shutdown |-> "unset"]
  /\ loop = "top" /\ pending = {} /\ channel = [i \in Ids |-> ""]
  /\ server = "up" /\ asked = {} /\ wire = <<>>
  /\ fixes = {} /\ written = {} /\ diagnosed = {}

Over == IF check.what = "shutdown" THEN deadline.shutdown = "over" ELSE deadline.check = "over"

(* Where the protocol goes after the request that has just ended. *)
Ask(what, file) == [check EXCEPT !.at = "ask", !.what = what, !.file = file]
After(file) == IF file < YamlFiles THEN Ask("diagnostic", file + 1) ELSE Ask("shutdown", 1)
NextFile == After(check.file)
Failed ==
  IF check.what = "shutdown" THEN [check EXCEPT !.at = "exit"]
  ELSE [Ask("shutdown", 1) EXCEPT !.failed = TRUE]

-----------------------------------------------------------------------------
(* request: the channel is registered, then the message is written. *)

Register ==
  /\ check.at = "ask"
  /\ check' = [check EXCEPT !.at = "send", !.id = @ + 1]
  /\ pending' = pending \cup {check.id + 1}
  /\ deadline' = IF check.what = "shutdown" THEN [deadline EXCEPT !.shutdown = "running"] ELSE deadline
  /\ UNCHANGED <<loop, channel, server, asked, wire, results>>

Send ==
  /\ check.at = "send"
  /\ \/ check' = [check EXCEPT !.at = "wait"] /\ asked' = asked \cup {check.id} /\ UNCHANGED pending
     \/ server = "down" /\ check' = Failed /\ pending' = pending \ {check.id} /\ UNCHANGED asked
  /\ UNCHANGED <<deadline, loop, channel, server, wire, results>>

(***************************************************************************)
(* The answer: a result or an error.  Diagnostics may call for code        *)
(* actions under --fix, and code actions may hold edits.                   *)
(***************************************************************************)
ReceiveAnswer ==
  /\ check.at = "wait" /\ channel[check.id] = "answer"
  /\ \/ check' = Failed /\ UNCHANGED results
     \/ check.what = "initialize" /\ check' = After(0) /\ UNCHANGED results
     \/ /\ check.what = "diagnostic"
        /\ check' \in {NextFile, Ask("codeAction", check.file)}
        /\ diagnosed' = diagnosed \cup {check.file}
        /\ UNCHANGED <<fixes, written>>
     \/ /\ check.what = "codeAction"
        /\ check' = NextFile
        /\ fixes' \in {fixes, fixes \cup {check.file}}
        /\ UNCHANGED <<written, diagnosed>>
     \/ check.what = "shutdown" /\ check' = [check EXCEPT !.at = "exit"] /\ UNCHANGED results
  /\ UNCHANGED <<deadline, connection>>

ReceiveClosed ==
  /\ check.at = "wait" /\ channel[check.id] = "closed"
  /\ check' = Failed
  /\ UNCHANGED <<deadline, connection, results>>

(* ctx.Done: the channel is abandoned.  Faulty: only the answer is waited for. *)
NeverGiveUp == FALSE /\ UNCHANGED lcVars
GiveUp ==
  /\ check.at = "wait" /\ Over
  /\ check' = Failed
  /\ pending' = pending \ {check.id}
  /\ UNCHANGED <<deadline, loop, channel, server, asked, wire, results>>

(* shutdownServer after its request: exit, then the end of the process or a kill;
   a check that failed ends here.  Faulty: it goes on to write its edits. *)
SendExit ==
  /\ check.at = "exit"
  /\ check' = [check EXCEPT !.at = "end"]
  /\ UNCHANGED <<deadline, connection, results>>
AwaitServerAndGoOn ==
  /\ check.at = "end"
  /\ server = "down" \/ deadline.shutdown = "over"
  /\ server' = "down"
  /\ check' = [check EXCEPT !.at = "write"]
  /\ UNCHANGED <<deadline, loop, pending, channel, asked, wire, results>>
AwaitServer ==
  /\ check.at = "end"
  /\ server = "down" \/ deadline.shutdown = "over"
  /\ server' = "down"
  /\ check' = [check EXCEPT !.at = IF check.failed THEN "done" ELSE "write"]
  /\ UNCHANGED <<deadline, loop, pending, channel, asked, wire, results>>

(* The edits, file by file; an error ends the check with the files before it rewritten. *)
WriteFix ==
  /\ check.at = "write"
  /\ \/ \E f \in fixes \ written :
          /\ \A g \in fixes \ written : f <= g
          /\ written' = written \cup {f}
          /\ UNCHANGED check
     \/ check' = [check EXCEPT !.at = "done"] /\ UNCHANGED written
  /\ UNCHANGED <<deadline, connection, fixes, diagnosed>>

-----------------------------------------------------------------------------
(* readLoop *)

(* A context that is over ends the loop with the channels left as they are. *)
LoopTop ==
  /\ loop = "top"
  /\ loop' = IF deadline.check = "over" THEN "stopped" ELSE "reading"
  /\ UNCHANGED <<check, deadline, pending, channel, server, asked, wire, results>>

Deliver ==
  /\ loop = "reading" /\ wire # <<>>
  /\ wire' = Tail(wire) /\ loop' = "top"
  /\ IF Head(wire) \in pending
       THEN channel' = [channel EXCEPT ![Head(wire)] = "answer"] /\ pending' = pending \ {Head(wire)}
       ELSE UNCHANGED <<channel, pending>>
  /\ UNCHANGED <<check, deadline, server, asked, results>>

ReadFails ==
  /\ loop = "reading" /\ wire = <<>> /\ server = "down"
  /\ loop' = "stopped"
  /\ channel' = [i \in Ids |-> IF i \in pending THEN "closed" ELSE channel[i]]
  /\ pending' = {}
  /\ UNCHANGED <<check, deadline, server, asked, wire, results>>

-----------------------------------------------------------------------------
(* The server and the clock.  When the check's time is over the server is killed. *)

Answer(i) ==
  /\ server = "up" /\ i \in asked
  /\ asked' = asked \ {i} /\ wire' = Append(wire, i)
  /\ UNCHANGED <<check, deadline, loop, pending, channel, server, results>>

ServerEnds ==
  /\ server = "up" /\ server' = "down"
  /\ UNCHANGED <<check, deadline, loop, pending, channel, asked, wire, results>>

CheckTimeout ==
  /\ deadline.check = "running" /\ deadline' = [deadline EXCEPT !.check = "over"]
  /\ server' = "down"
  /\ UNCHANGED <<check, loop, pending, channel, asked, wire, results>>

ShutdownTimeout ==
  /\ deadline.shutdown = "running" /\ deadline' = [deadline EXCEPT !.shutdown = "over"]
  /\ UNCHANGED <<check, connection, results>>

Main ==
  \/ Register \/ Send \/ ReceiveAnswer \/ ReceiveClosed \/ GiveUp \/ SendExit \/ AwaitServer \/ WriteFix
Clock == CheckTimeout \/ ShutdownTimeout
LintCheckNext ==
  \/ Main \/ LoopTop \/ Deliver \/ ReadFails
  \/ (\E i \in Ids : Answer(i)) \/ ServerEnds \/ Clock

LintCheckSpec == LintCheckInit /\ [][LintCheckNext]_lcVars

-----------------------------------------------------------------------------
(***************************************************************************)
(* A check that does not get through every file changes none: edits are    *)
(* written only after the last answer.                                     *)
(***************************************************************************)
FixesNeedAllAnswers == written # {} => diagnosed = Documents /\ ~check.failed

(***************************************************************************)
(* Lint ends though the server may never answer and the reader may stop    *)
(* without telling the request that waits: the deadlines cover both.       *)
(***************************************************************************)
LintEnds == <>(check.at = "done")
=============================================================================
