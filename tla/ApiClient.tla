----------------------------- MODULE ApiClient ------------------------------
(***************************************************************************)
(* One call of the API client from the request to the value or error its   *)
(* caller gets: the transports with their retries (internal/api/client.go, *)
(* runs.go, internal/retry), the headers they set, and the reading of the  *)
(* answer.  The server is external: an answer of 2xx means the operation   *)
(* took place, a 4xx or a 503 with Retry-After that it did not, and a lost *)
(* answer or another 5xx says nothing.                                     *)
(***************************************************************************)
EXTENDS ApiEndpoints

CONSTANTS
  MaxPages,        \* pages the server's list of vaults has
  LogsBudget,      \* maxRetryDuration of DownloadLogs, in seconds
  SlowestAnswer,   \* seconds an attempt of DownloadLogs may take
  LoggedIn         \* values of "an access token is configured"

ASSUME BudgetAssumption == LogsBudget \in Nat /\ SlowestAnswer \in Nat
ASSUME PagesAssumption == MaxPages \in Nat \ {0}
ASSUME LoggedInAssumption == LoggedIn \subseteq BOOLEAN

VARIABLES
  pc,       \* idle, send, handle or done
  call,     \* the method called, what it was given, and its progress
  answer,   \* the last answer
  applied,  \* how often the server carried the operation out
  outcome   \* what the caller gets: ok or the class of the error

vars == <<pc, call, answer, applied, outcome>>

MaxRetries == 4              \* attempt >= 4 in Client.RoundTrip
MaxFailures == 5             \* retry.NewBackoff
BackoffCap == 5              \* seconds, DownloadLogs

(* No answer at all: an error of the transport, by retry.IsTransient. *)
Transient == 0
Fatal == 1
Lost == {Transient, Fatal}
Answers == [status : Statuses \cup Lost, retryAfter : BOOLEAN, readable : BOOLEAN]
NoAnswer == [status |-> Fatal, retryAfter |-> FALSE, readable |-> FALSE]

Call == [name : DOMAIN Endpoints, login : BOOLEAN, scoped : BOOLEAN,
         header : {"none", "access", "scoped"},
         requests : 0 .. MaxFailures, page : 1 .. MaxPages,
         elapsed : Nat, pause : 1 .. BackoffCap]
E == Endpoints[call.name]

Outcomes == {"", "ok", "unauthenticated", "notFound", "gone", "badRequest", "serverError",
             "ambiguousTask", "ambiguousPath", "network", "plain"}

TypeOK ==
  /\ pc \in {"idle", "send", "handle", "done"}
  /\ call \in Call
  /\ answer \in Answers
  /\ applied \in Nat
  /\ outcome \in Outcomes

Fresh(n, login, scoped) ==
  [name |-> n, login |-> login, scoped |-> scoped, header |-> "none",
   requests |-> 0, page |-> 1, elapsed |-> 0, pause |-> 1]

Init ==
  /\ pc = "idle"
  /\ \E n \in DOMAIN Endpoints, l \in LoggedIn, s \in BOOLEAN :
        (s => n \in Scoped) /\ call = Fresh(n, l, s)
  /\ answer = NoAnswer
  /\ applied = 0
  /\ outcome = ""

(***************************************************************************)
(* The Authorization header: the method sets a scoped token it was given,  *)
(* the transport of NewClient then the access token, if there is one.      *)
(* Downloads and the documentation do not use that transport.              *)
(***************************************************************************)
Authorization ==
  IF E.via \in {"logs", "direct"} THEN "none"
  ELSE IF call.login THEN "access"
  ELSE IF call.scoped THEN "scoped" ELSE "none"

Writes == E.method # "GET" /\ E.via # "logs"

(* What the server may have done by the time it gives the answer a. *)
Effects(a) ==
  IF a.status \in Success THEN {1}
  ELSE IF a.status \in Lost \/ a.status = 500 \/ (a.status = 503 /\ ~a.retryAfter) THEN {0, 1}
  ELSE {0}

Possible(a) == (a.retryAfter => a.status \in {429, 503}) /\ (a.readable => a.status \notin Lost)

Begin == pc = "idle" /\ pc' = "send" /\ UNCHANGED <<call, answer, applied, outcome>>

(* A request and its answer.  Only logs watch the clock. *)
Exchange ==
  /\ pc = "send"
  /\ \E a \in Answers, took \in IF E.via = "logs" THEN 0 .. SlowestAnswer ELSE {0} :
       /\ Possible(a)
       /\ answer' = a
       /\ call' = [call EXCEPT !.requests = @ + 1, !.header = Authorization, !.elapsed = @ + took]
       /\ \E n \in Effects(a) : applied' = IF Writes THEN applied + n ELSE applied
  /\ pc' = "handle"
  /\ UNCHANGED outcome

-----------------------------------------------------------------------------
(* Reading the answer. *)

Meaning ==
  IF answer.status \in Lost THEN "plain"
  ELSE IF answer.status \in E.ok THEN (IF answer.readable \/ E.empty THEN "ok" ELSE "plain")
  ELSE IF E.reads = "all" /\ ~answer.readable
    THEN (IF answer.status = 404 THEN "notFound" ELSE "plain")
  ELSE IF answer.status \in DOMAIN E.special /\ E.reads = "silent" /\ answer.readable
    THEN "plain"
  ELSE IF answer.status \in DOMAIN E.special /\ (E.reads # "special" \/ answer.readable)
    THEN E.special[answer.status]
  ELSE IF E.others = "classified" THEN Classify(answer.status) ELSE "plain"

End(o) ==
  /\ pc' = "done"
  /\ outcome' = o
  /\ UNCHANGED <<call, answer, applied>>

Again(c) ==
  /\ pc' = "send"
  /\ call' = c
  /\ UNCHANGED <<answer, applied, outcome>>

(* Faulty: also when the server does not say it rejected the operation. *)
RetriesAny503 == answer.status = 503 /\ call.requests <= MaxRetries
(* Faulty: one attempt more. *)
RetriesOnceMore == answer.status = 503 /\ answer.retryAfter /\ call.requests <= MaxRetries + 1
RetriesUnavailable ==
  answer.status = 503 /\ answer.retryAfter /\ call.requests <= MaxRetries

(* Faulty: the other transports' reading of a 401. *)
UnreadUnauthorized == Meaning
(* Client.RoundTrip turns a 401 into an error before the method sees it. *)
SharedMeaning == IF answer.status = 401 THEN "unauthenticated" ELSE Meaning

(* ListVaults asks for the next page while the answer names one. *)
HasNextPage == call.name = "ListVaults" /\ Meaning = "ok" /\ call.page < MaxPages
(* Faulty: the cursor of the answer is ignored. *)
CursorIgnored == [call EXCEPT !.requests = 0]
NextPage == [call EXCEPT !.page = @ + 1, !.requests = 0]

HandleShared ==
  /\ pc = "handle" /\ E.via = "shared"
  /\ \/ RetriesUnavailable /\ Again(call)
     \/ ~RetriesUnavailable /\ HasNextPage /\ Again(NextPage)
     \/ ~RetriesUnavailable /\ ~HasNextPage /\ End(SharedMeaning)

(* Faulty: whatever the method. *)
RetriesAnyLost == answer.status = Transient /\ call.requests < MaxFailures
(* retry.RoundTripper: transient failures of reads only. *)
RetriesLost == E.method = "GET" /\ answer.status = Transient /\ call.requests < MaxFailures

(* Telemetry's POST: retry.RoundTripper, then Client.RoundTrip; failures are ignored. *)
HandleTelemetry ==
  /\ pc = "handle" /\ E.via = "telemetry"
  /\ \/ (RetriesLost \/ RetriesUnavailable) /\ Again(call)
     \/ ~RetriesLost /\ ~RetriesUnavailable /\ End(SharedMeaning)

(***************************************************************************)
(* listRunsOnce: transient transport errors, an unreadable 200, 429 and    *)
(* 5xx are worth another attempt, up to MaxFailures in all.                *)
(***************************************************************************)
RunsRetryable ==
  \/ answer.status \in {Transient, 429, 500, 503}
  \/ answer.status = 200 /\ ~answer.readable

HandleRuns ==
  /\ pc = "handle" /\ E.via = "runs"
  /\ IF RunsRetryable /\ call.requests < MaxFailures THEN Again(call) ELSE End(Meaning)

HandleDirect == pc = "handle" /\ E.via = "direct" /\ End(Meaning)

(* Faulty: the pause doubles without a limit. *)
DoublePause == 2 * call.pause
NextPause == IF 2 * call.pause > BackoffCap THEN BackoffCap ELSE 2 * call.pause

(* DownloadLogs: errors and 5xx until the budget is spent; a 4xx ends it. *)
HandleLogs ==
  LET fails == answer.status \in Lost \cup {500, 503}
  IN  /\ pc = "handle" /\ E.via = "logs"
      /\ IF fails /\ call.elapsed < LogsBudget
           THEN Again([call EXCEPT !.elapsed = @ + call.pause, !.pause = NextPause, !.requests = 0])
           ELSE End(Meaning)

Next == Begin \/ Exchange \/ HandleShared \/ HandleTelemetry \/ HandleRuns \/ HandleDirect \/ HandleLogs

Spec == Init /\ [][Next]_vars /\ WF_vars(Next)

-----------------------------------------------------------------------------
(***************************************************************************)
(* However often a call is retried, the server carries a write out at most *)
(* once, and exactly once when the caller is told of success: a retry      *)
(* follows only an answer that says the operation was rejected.            *)
(***************************************************************************)
WritesApplyAtMostOnce ==
  /\ applied <= 1
  /\ outcome = "ok" /\ Writes /\ answer.status \in Success => applied = 1

(***************************************************************************)
(* No call sends more than five requests for one result (the loop of       *)
(* ListRuns is not nested in that of Client.RoundTrip), and an answer that *)
(* invites a retry ends a call only when all five were sent.               *)
(***************************************************************************)
RetryBudget ==
  /\ call.requests <= 5
  /\ pc = "done" /\ answer.status = 503 /\ answer.retryAfter /\ E.via \in {"shared", "runs"}
       => call.requests = 5

(***************************************************************************)
(* A rejected access token is reported as such by every method of the API, *)
(* also by those that make a plain error of any other status: the advice   *)
(* to log in depends on it.                                                *)
(***************************************************************************)
UnauthenticatedIsTold ==
  pc = "done" /\ answer.status = 401 /\ E.via \in {"shared", "runs", "telemetry"}
    => outcome = "unauthenticated"

(* DownloadLogs overruns its budget by one pause and one attempt at most. *)
LogsGiveUpInTime == call.elapsed <= LogsBudget + BackoffCap + SlowestAnswer

(* Every call returns: no answer of the server keeps the loops going. *)
CallsEnd == <>(pc = "done")
=============================================================================
