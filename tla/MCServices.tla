----------------------------- MODULE MCServices -----------------------------
(***************************************************************************)
(* The commands without shared local state: lint, the waits for the        *)
(* service, artifact downloads, retries, the rewriting of run definitions  *)
(* and the choice of a base commit.  They have no state in common, so that *)
(* a behaviour of one of them, chosen at the start, is all there is to     *)
(* check; the others stay where they began.                                *)
(***************************************************************************)
EXTENDS LintCheck, Waiting, Artifacts, RetryChoice, RunDefinition, BaseCommit

VARIABLE component

vars == <<lcVars, waitVars, artifactVars, retryVars, defVars, baseVars, component>>

Init ==
  /\ component \in {"lint", "waiting", "artifacts", "retry", "definition", "base"}
  /\ LintCheckInit
  /\ WaitingInit /\ (component # "waiting" => command.kind = "login" /\ ~hung)
  /\ ArtifactsInit /\ (component # "artifacts" => wanted.keys = <<>>)
  /\ RetryInit /\ (component # "retry" => Bare /\ ~wish.interactive /\ offer = Nothing)
  /\ RunDefinitionInit
  /\ component # "definition" =>
       definition = [kind |-> "list", base |-> "none", config |-> NoRef, call |-> NoRef, on |-> NoOn]
  /\ BaseCommitInit
  /\ component # "base" => ~setting.remote /\ setting.backend = "jj" /\ ~setting.branch

Lint(A) ==
  component = "lint" /\ A /\ UNCHANGED <<waitVars, artifactVars, retryVars, defVars, baseVars, component>>
Wait(A) ==
  component = "waiting" /\ A /\ UNCHANGED <<lcVars, artifactVars, retryVars, defVars, baseVars, component>>

LintSteps == Lint(LintCheckNext)
WaitSteps == Wait(WaitingNext)
ArtifactSteps ==
  component = "artifacts" /\ ArtifactsNext /\ UNCHANGED <<lcVars, waitVars, retryVars, defVars, baseVars, component>>
RetrySteps ==
  component = "retry" /\ RetryNext /\ UNCHANGED <<lcVars, waitVars, artifactVars, defVars, baseVars, component>>
DefinitionSteps ==
  component = "definition" /\ RunDefinitionNext
  /\ UNCHANGED <<lcVars, waitVars, artifactVars, retryVars, baseVars, component>>
BaseSteps ==
  component = "base" /\ BaseCommitNext /\ UNCHANGED <<lcVars, waitVars, artifactVars, retryVars, defVars, component>>

Next == LintSteps \/ WaitSteps \/ ArtifactSteps \/ RetrySteps \/ DefinitionSteps \/ BaseSteps

(* The goroutine of the check runs and its timers fire; calls are answered, time
   passes, and the service goes on unless it is stuck. *)
Fairness ==
  /\ WF_vars(Lint(Main)) /\ WF_vars(Lint(CheckTimeout)) /\ WF_vars(Lint(ShutdownTimeout))
  /\ WF_vars(Wait(Client)) /\ WF_vars(Wait(Cloud)) /\ WF_vars(Wait(TimePasses))

Spec == Init /\ [][Next]_vars /\ Fairness

(* Lint ends whatever the language server does: its requests are given up when the
   deadline of the check or of the shutdown is over. *)
LintTerminates == component = "lint" => LintEnds

(* A command waits for good only for a service that is stuck, and only in the polls
   the code gives no deadline. *)
CommandsTerminate == component = "waiting" => WaitsEnd

Names == {<<"a">>, <<"a", 2>>, <<>>, <<"artifact", 1>>}
=============================================================================
