-------------------------- MODULE ApiClientProofs --------------------------
(***************************************************************************)
(* The safety of a call of the API client, for any number of pages, any    *)
(* budget of the log download and any time its attempts take.              *)
(***************************************************************************)
EXTENDS ApiClient, TLAPS

-----------------------------------------------------------------------------
(* What the transports need of the methods: the loop of ListRuns is used by reads
   which classify every status, and the pages are those of a read. *)
EndpointSound(n, e) ==
  /\ n = "ListVaults" => e.method = "GET"
  /\ e.via = "runs" => /\ e.method = "GET" /\ e.others = "classified" /\ e.reads = "status"
                       /\ 401 \notin e.ok /\ 401 \notin DOMAIN e.special
Sound(f) == \A n \in DOMAIN f : EndpointSound(n, f[n])

LEMMA MergeSound == ASSUME NEW f, NEW g, Sound(f), Sound(g) PROVE Sound(f @@ g)
<1>1. f @@ g = Merged(f, g)
  BY DEF @@
<1>2. Sound(Merged(f, g))
  BY DEF Sound, Merged
<1>. QED
  BY <1>1, <1>2

LEMMA CallsSound ==
  ASSUME NEW names, NEW e, e.via # "runs", "ListVaults" \in names => e.method = "GET"
  PROVE  Sound(Calls(names, e))
  BY DEF Sound, Calls, EndpointSound

LEMMA PlainVia == ASSUME NEW m, NEW ok PROVE Plain(m, ok).via = "shared" /\ Plain(m, ok).method = m
  BY DEF Plain, Endpoint

LEMMA DecodedVia == ASSUME NEW m PROVE Decoded(m).via = "shared" /\ Decoded(m).method = m
  BY DEF Decoded, Endpoint

LEMMA TaskKeyedVia == ASSUME NEW m PROVE TaskKeyed(m).via = "shared" /\ TaskKeyed(m).method = m
  BY DEF TaskKeyed, Decoded, Endpoint

LEMMA NoBodyVia == ASSUME NEW e PROVE NoBody(e).via = e.via /\ NoBody(e).method = e.method
  BY DEF NoBody

LEMMA EndpointsSound == Sound(Endpoints)
<1>. USE CallsSound, PlainVia, DecodedVia, TaskKeyedVia, NoBodyVia, MergeSound
<1>1. Sound(SkillCalls)
  BY DEF SkillCalls
<1>2. Sound(DebugCalls)
  BY DEF DebugCalls, Plain, Decoded, TaskKeyed, NoBody, Endpoint
<1>3. Sound(SandboxCalls)
  BY DEF SandboxCalls, Plain, Decoded, TaskKeyed, NoBody, Endpoint
<1>4. Sound(RunCalls)
  BY DEF RunCalls
<1>5. Sound(DispatchCalls)
  BY DEF DispatchCalls
<1>6. Sound(AuthCalls)
  BY DEF AuthCalls
<1>7. Sound(VaultCalls)
  BY DEF VaultCalls
<1>8. Sound(VaultEditCalls)
  BY DEF VaultEditCalls
<1>9. Sound(VaultAccessCalls)
  BY DEF VaultAccessCalls
<1>10. Sound(VaultGrantCalls)
  BY DEF VaultGrantCalls
<1>11. Sound(SecretCalls)
  BY DEF SecretCalls
<1>12. Sound(VarCalls)
  BY DEF VarCalls
<1>13. Sound(OidcCalls)
  BY DEF OidcCalls
<1>14. Sound(PackageCalls)
  BY DEF PackageCalls, Plain, Decoded, TaskKeyed, NoBody, Endpoint
<1>15. Sound(ImageCalls)
  BY DEF ImageCalls
<1>16. Sound(ResultCalls)
  <2>1. Sound(Calls({"RunStatusByTaskKey"}, TaskKeyed("GET")))
    OBVIOUS
  <2>2. Sound(Calls({"RunStatusLatest"}, [Decoded("GET") EXCEPT !.special = 422 :> "ambiguousPath", !.reads = "special"]))
    <3>. DEFINE e == [Decoded("GET") EXCEPT !.special = 422 :> "ambiguousPath", !.reads = "special"]
    <3>1. e.via = "shared" /\ e.method = "GET"
      BY DEF Decoded, Endpoint
    <3>. HIDE DEF e
    <3>2. Sound(Calls({"RunStatusLatest"}, e))
      BY <3>1
    <3>. QED
      BY <3>2 DEF e
  <2>3. Sound(Calls({"RunStatusByRun", "GetRunDetails"}, Decoded("GET")))
    BY DEF Plain, Decoded, TaskKeyed, NoBody, Endpoint
  <2>. QED
    BY <2>1, <2>2, <2>3 DEF ResultCalls
<1>17. Sound(PromptCalls)
  <2>1. Sound(Calls({"GetRunPrompt"}, [Plain("GET", {200}) EXCEPT !.special = 404 :> "notFound"]))
    BY DEF Plain, Decoded, TaskKeyed, NoBody, Endpoint
  <2>2. Sound(Calls({"GetRunPromptByTaskKey"}, [Plain("GET", {200}) EXCEPT !.special = (404 :> "notFound") @@ (422 :> "ambiguousTask"), !.reads = "special"]))
    <3>. DEFINE e == [Plain("GET", {200}) EXCEPT !.special = (404 :> "notFound") @@ (422 :> "ambiguousTask"), !.reads = "special"]
    <3>1. e.via = "shared" /\ e.method = "GET"
      BY DEF Plain, Endpoint
    <3>. HIDE DEF e
    <3>2. Sound(Calls({"GetRunPromptByTaskKey"}, e))
      BY <3>1
    <3>. QED
      BY <3>2 DEF e
  <2>. QED
    BY <2>1, <2>2 DEF PromptCalls
<1>18. Sound(LogCalls)
  <2>1. Sound(Calls({"GetLogDownloadRequest"}, Decoded("GET")))
    BY DEF Plain, Decoded, TaskKeyed, NoBody, Endpoint
  <2>2. Sound(Calls({"GetLogDownloadRequestByTaskKey"}, TaskKeyed("GET")))
    OBVIOUS
  <2>3. Sound(Calls({"DownloadLogs"}, [Plain("POST", Success) EXCEPT !.via = "logs"]))
    BY DEF Plain, Decoded, TaskKeyed, NoBody, Endpoint
  <2>. QED
    BY <2>1, <2>2, <2>3 DEF LogCalls
<1>19. Sound(ArtifactCalls)
  <2>1. Sound(Calls({"GetAllArtifactDownloadRequests"},
             [Plain("GET", {200}) EXCEPT !.special = 404 :> "notFound"]))
    BY DEF Plain, Decoded, TaskKeyed, NoBody, Endpoint
  <2>2. Sound(Calls({"GetAllArtifactDownloadRequestsByTaskKey"}, [Plain("GET", {200}) EXCEPT !.special = (404 :> "notFound") @@ (422 :> "ambiguousTask"), !.reads = "special"]))
    <3>. DEFINE e == [Plain("GET", {200}) EXCEPT !.special = (404 :> "notFound") @@ (422 :> "ambiguousTask"), !.reads = "special"]
    <3>1. e.via = "shared" /\ e.method = "GET"
      BY DEF Plain, Endpoint
    <3>. HIDE DEF e
    <3>2. Sound(Calls({"GetAllArtifactDownloadRequestsByTaskKey"}, e))
      BY <3>1
    <3>. QED
      BY <3>2 DEF e
  <2>3. Sound(Calls({"GetArtifactDownloadRequest"}, Decoded("GET")))
    BY DEF Plain, Decoded, TaskKeyed, NoBody, Endpoint
  <2>. QED
    BY <2>1, <2>2, <2>3 DEF ArtifactCalls
<1>20. Sound(ArtifactFileCalls)
  <2>1. Sound(Calls({"GetArtifactDownloadRequestByTaskKey"}, TaskKeyed("GET")))
    OBVIOUS
  <2>2. Sound(Calls({"DownloadArtifact"}, [Plain("GET", Success) EXCEPT !.via = "direct"]))
    BY DEF Plain, Decoded, TaskKeyed, NoBody, Endpoint
  <2>3. Sound(Calls({"CancelRun"}, NoBody(Plain("POST", {200}))))
    BY DEF Plain, Decoded, TaskKeyed, NoBody, Endpoint
  <2>4. Sound(Calls({"GetSandboxInitTemplate"}, Decoded("GET")))
    BY DEF Plain, Decoded, TaskKeyed, NoBody, Endpoint
  <2>. QED
    BY <2>1, <2>2, <2>3, <2>4 DEF ArtifactFileCalls
<1>21. Sound(RetryCalls)
  BY DEF RetryCalls, Plain, Decoded, TaskKeyed, NoBody, Endpoint
<1>22. Sound(PoolCalls)
  BY DEF PoolCalls
<1>23. Sound(CronCalls)
  BY DEF CronCalls, Plain, Decoded, TaskKeyed, NoBody, Endpoint
<1>24. Sound(AppCalls)
  BY DEF AppCalls
<1>25. Sound(DebugSessionCalls)
  BY DEF DebugSessionCalls, Plain, Decoded, TaskKeyed, NoBody, Endpoint
<1>26. Sound(McpCalls)
  BY DEF McpCalls
<1>27. Sound(BillingCalls)
  BY DEF BillingCalls
<1>28. Sound(DocsCalls)
  BY DEF DocsCalls, Plain, Decoded, TaskKeyed, NoBody, Endpoint
<1>29. Sound(TelemetryCalls)
  BY ZenonT(30) DEF TelemetryCalls, Plain, Decoded, TaskKeyed, NoBody, Endpoint
<1>30. Sound(ListRunsCalls)
  BY DEF ListRunsCalls, Calls, Sound, EndpointSound, Endpoint, :>
<1>. HIDE CallsSound, PlainVia, DecodedVia, TaskKeyedVia, NoBodyVia
<1>. QED
  BY <1>1, <1>2, <1>3, <1>4, <1>5, <1>6, <1>7, <1>8, <1>9, <1>10, <1>11, <1>12, <1>13, <1>14, <1>15, <1>16, <1>17, <1>18, <1>19, <1>20, <1>21, <1>22, <1>23, <1>24, <1>25, <1>26, <1>27, <1>28, <1>29, <1>30 DEF Endpoints

LEMMA PagesAreRead == ASSUME call \in Call, call.name = "ListVaults" PROVE ~Writes
  BY EndpointsSound DEF Sound, EndpointSound, Call, Writes, E

LEMMA RunsAreRead ==
  ASSUME call \in Call, E.via = "runs"
  PROVE  ~Writes /\ (answer.status = 401 => Meaning = "unauthenticated")
<1>1. EndpointSound(call.name, E)
  BY EndpointsSound DEF Sound, Call, E
<1>. QED
  BY <1>1 DEF EndpointSound, Writes, Meaning, Classify, Lost, Transient, Fatal

-----------------------------------------------------------------------------
(* The invariant.  Before a request is sent a retry is still allowed, nothing
   has been applied, and the time of the pauses is within the budget and one pause. *)
Sending == pc \in {"idle", "send"}
CallTyped ==
  /\ pc \in {"idle", "send", "handle", "done"}
  /\ call \in Call /\ answer \in Answers
  /\ outcome = "ok" => pc = "done"
RequestsCounted ==
  /\ call.requests <= IF Sending THEN MaxRetries ELSE MaxFailures
  /\ RetryBudget
AppliedOnce ==
  /\ applied \in {0, 1}
  /\ Sending \/ ~Writes => applied = 0
  /\ ~Sending /\ Writes /\ answer.status \in Success => applied = 1
  /\ ~Sending /\ answer.status = 503 /\ answer.retryAfter => applied = 0
TimeCounted ==
  /\ E.via # "logs" => call.elapsed = 0
  /\ call.elapsed <= LogsBudget + BackoffCap + IF Sending THEN 0 ELSE SlowestAnswer

IInv == CallTyped /\ RequestsCounted /\ AppliedOnce /\ TimeCounted /\ UnauthenticatedIsTold

LEMMA InitIInv == Init => IInv
<1>. SUFFICES ASSUME Init PROVE IInv
  OBVIOUS
<1>. PICK n \in DOMAIN Endpoints, l \in LoggedIn, s \in BOOLEAN : call = Fresh(n, l, s)
  BY DEF Init
<1>1. call \in Call
  BY PagesAssumption, LoggedInAssumption DEF Fresh, Call, MaxFailures, BackoffCap
<1>2. CallTyped
  BY <1>1 DEF Init, CallTyped, NoAnswer, Answers, Lost, Fatal
<1>a. call.requests = 0 /\ call.elapsed = 0 /\ pc = "idle"
  BY DEF Init, Fresh
<1>3. RequestsCounted
  BY <1>a DEF RequestsCounted, RetryBudget, Sending, MaxRetries
<1>4. AppliedOnce
  BY DEF Init, AppliedOnce, Sending
<1>5. TimeCounted
  BY <1>a, BudgetAssumption DEF TimeCounted, Sending, BackoffCap
<1>. QED
  BY <1>2, <1>3, <1>4, <1>5 DEF Init, IInv, UnauthenticatedIsTold

LEMMA ExchangeIInv == ASSUME IInv, Exchange PROVE IInv'
<1>. PICK a \in Answers, took \in IF E.via = "logs" THEN 0 .. SlowestAnswer ELSE {0} :
       /\ Possible(a)
       /\ answer' = a
       /\ call' = [call EXCEPT !.requests = @ + 1, !.header = Authorization, !.elapsed = @ + took]
       /\ \E n \in Effects(a) : applied' = IF Writes THEN applied + n ELSE applied
  BY DEF Exchange
<1>1. /\ took \in Nat /\ (E.via # "logs" => took = 0) /\ took <= SlowestAnswer
      /\ call \in Call /\ pc = "send" /\ pc' = "handle" /\ outcome' = outcome
  BY BudgetAssumption DEF Exchange, IInv, CallTyped
<1>2. /\ call' \in Call /\ E' = E /\ Writes' = Writes
      /\ call'.requests = call.requests + 1 /\ call'.elapsed = call.elapsed + took
  <2>1. call.requests + 1 \in 0 .. MaxFailures /\ call.elapsed + took \in Nat
    BY <1>1 DEF IInv, RequestsCounted, Sending, MaxRetries, MaxFailures, Call
  <2>2. Authorization \in {"none", "access", "scoped"}
    BY DEF Authorization
  <2>. QED
    BY <1>1, <2>1, <2>2 DEF Call, E, Writes
<1>3. CallTyped'
  BY <1>1, <1>2 DEF IInv, CallTyped
<1>4. RequestsCounted'
  BY <1>1, <1>2 DEF IInv, RequestsCounted, RetryBudget, Sending, MaxRetries, MaxFailures, Call
<1>5. AppliedOnce'
  <2>1. applied = 0
    BY <1>1 DEF IInv, AppliedOnce, Sending
  <2>2. PICK n \in Effects(a) : applied' = IF Writes THEN applied + n ELSE applied
    OBVIOUS
  <2>3. /\ n \in {0, 1} /\ (a.status \in Success => n = 1)
        /\ a.status = 503 /\ a.retryAfter => n = 0
    BY DEF Effects, Success, Lost, Transient, Fatal
  <2>. QED
    BY <1>1, <1>2, <2>1, <2>2, <2>3 DEF AppliedOnce, Sending
<1>6. TimeCounted'
  BY <1>1, <1>2, BudgetAssumption DEF IInv, TimeCounted, Sending, BackoffCap, Call
<1>. QED
  BY <1>1, <1>3, <1>4, <1>5, <1>6 DEF IInv, UnauthenticatedIsTold

(* Going round again after an answer which says that nothing was applied. *)
LEMMA AgainIInv ==
  ASSUME IInv, NEW c \in Call, Again(c), c.name = call.name, pc = "handle",
         c.requests <= MaxRetries, applied = 0,
         c.elapsed <= LogsBudget + BackoffCap, E.via # "logs" => c.elapsed = 0
  PROVE  IInv'
<1>1. E' = E /\ Writes' = Writes /\ pc' = "send" /\ call' = c /\ UNCHANGED <<answer, applied, outcome>>
  BY DEF Again, E, Writes
<1>. QED
  BY <1>1, BudgetAssumption
     DEF IInv, CallTyped, RequestsCounted, RetryBudget, AppliedOnce, TimeCounted, UnauthenticatedIsTold, Sending,
         MaxRetries, MaxFailures, BackoffCap, Call

(* The end of a call whose answer invited no retry or which had none left. *)
LEMMA EndIInv ==
  ASSUME IInv, NEW o, End(o), pc = "handle",
         answer.status = 503 /\ answer.retryAfter /\ E.via \in {"shared", "runs"} => call.requests >= MaxFailures,
         answer.status = 401 /\ E.via \in {"shared", "runs", "telemetry"} => o = "unauthenticated"
  PROVE  IInv'
<1>1. E' = E /\ Writes' = Writes /\ pc' = "done" /\ outcome' = o /\ UNCHANGED <<call, answer, applied>>
  BY DEF End, E, Writes
<1>. QED
  BY <1>1 DEF IInv, CallTyped, RequestsCounted, RetryBudget, AppliedOnce, TimeCounted, UnauthenticatedIsTold, Sending,
              MaxRetries, MaxFailures, Call

LEMMA HandleSharedIInv == ASSUME IInv, HandleShared PROVE IInv'
<1>1. pc = "handle" /\ E.via = "shared" /\ call \in Call /\ call.elapsed = 0 /\ BackoffCap \in Nat
  BY DEF HandleShared, IInv, CallTyped, TimeCounted, BackoffCap
<1>2. CASE RetriesUnavailable /\ Again(call)
  <2>1. call.requests <= MaxRetries /\ applied = 0
    BY <1>1, <1>2 DEF RetriesUnavailable, IInv, AppliedOnce, Sending
  <2>. QED
    BY <1>1, <1>2, <2>1, AgainIInv, BudgetAssumption
<1>3. CASE HasNextPage /\ Again(NextPage)
  <2>1. call.page + 1 \in 1 .. MaxPages /\ applied = 0
    BY <1>1, <1>3, PagesAreRead, PagesAssumption DEF HasNextPage, IInv, AppliedOnce, Call
  <2>2. /\ NextPage \in Call /\ NextPage.name = call.name /\ NextPage.requests = 0
        /\ NextPage.elapsed = call.elapsed
    <3>1. 0 \in 0 .. MaxFailures
      BY DEF MaxFailures
    <3>. QED
      BY <1>1, <2>1, <3>1 DEF NextPage, Call
  <2>. QED
    BY <1>1, <1>3, <2>1, <2>2, AgainIInv, BudgetAssumption DEF MaxRetries
<1>4. CASE ~RetriesUnavailable /\ End(SharedMeaning)
  <2>1. answer.status = 503 /\ answer.retryAfter => call.requests >= MaxFailures
    BY <1>1, <1>4 DEF RetriesUnavailable, MaxRetries, MaxFailures, Call
  <2>. QED
    BY <1>1, <1>4, <2>1, EndIInv DEF SharedMeaning
<1>. QED
  BY <1>2, <1>3, <1>4 DEF HandleShared

LEMMA HandleTelemetryIInv == ASSUME IInv, HandleTelemetry PROVE IInv'
<1>1. pc = "handle" /\ E.via = "telemetry" /\ call \in Call /\ call.elapsed = 0 /\ BackoffCap \in Nat
  BY DEF HandleTelemetry, IInv, CallTyped, TimeCounted, BackoffCap
<1>2. CASE (RetriesLost \/ RetriesUnavailable) /\ Again(call)
  <2>1. call.requests <= MaxRetries /\ applied = 0
    BY <1>1, <1>2 DEF RetriesLost, RetriesUnavailable, IInv, AppliedOnce, Sending, Writes, MaxRetries, MaxFailures, Call
  <2>. QED
    BY <1>1, <1>2, <2>1, AgainIInv, BudgetAssumption
<1>3. CASE End(SharedMeaning)
  BY <1>1, <1>3, EndIInv DEF SharedMeaning
<1>. QED
  BY <1>2, <1>3 DEF HandleTelemetry

LEMMA HandleRunsIInv == ASSUME IInv, HandleRuns PROVE IInv'
<1>1. pc = "handle" /\ E.via = "runs" /\ call \in Call /\ call.elapsed = 0 /\ BackoffCap \in Nat
  BY DEF HandleRuns, IInv, CallTyped, TimeCounted, BackoffCap
<1>2. ~Writes /\ (answer.status = 401 => Meaning = "unauthenticated")
  BY <1>1, RunsAreRead
<1>3. CASE call.requests < MaxFailures /\ Again(call)
  <2>1. call.requests <= MaxRetries /\ applied = 0
    BY <1>1, <1>2, <1>3 DEF IInv, AppliedOnce, MaxRetries, MaxFailures, Call
  <2>. QED
    BY <1>1, <1>3, <2>1, AgainIInv, BudgetAssumption
<1>4. CASE ~(RunsRetryable /\ call.requests < MaxFailures) /\ End(Meaning)
  <2>1. answer.status = 503 => call.requests >= MaxFailures
    BY <1>1, <1>4 DEF RunsRetryable, MaxFailures, Call
  <2>. QED
    BY <1>1, <1>2, <1>4, <2>1, EndIInv
<1>. QED
  BY <1>3, <1>4 DEF HandleRuns

LEMMA HandleDirectIInv == ASSUME IInv, HandleDirect PROVE IInv'
  BY EndIInv DEF HandleDirect

LEMMA HandleLogsIInv == ASSUME IInv, HandleLogs PROVE IInv'
<1>1. pc = "handle" /\ E.via = "logs" /\ call \in Call
  BY DEF HandleLogs, IInv, CallTyped
<1>. DEFINE later == [call EXCEPT !.elapsed = @ + call.pause, !.pause = NextPause, !.requests = 0]
<1>2. CASE call.elapsed < LogsBudget /\ Again(later)
  <2>1. /\ call.pause \in 1 .. BackoffCap /\ NextPause \in 1 .. BackoffCap /\ call.elapsed \in Nat
        /\ BackoffCap \in Nat
    BY <1>1 DEF Call, NextPause, BackoffCap
  <2>2. /\ later \in Call /\ later.name = call.name /\ later.requests = 0
        /\ later.elapsed = call.elapsed + call.pause
    <3>1. call.elapsed + call.pause \in Nat /\ 0 \in 0 .. MaxFailures
      BY <2>1 DEF MaxFailures
    <3>. QED
      BY <1>1, <2>1, <3>1 DEF Call
  <2>3. applied = 0
    BY <1>1 DEF IInv, AppliedOnce, Writes
  <2>4. later.elapsed <= LogsBudget + BackoffCap
    BY <1>2, <2>1, <2>2, BudgetAssumption
  <2>. HIDE DEF later
  <2>. QED
    BY <1>1, <1>2, <2>2, <2>3, <2>4, AgainIInv DEF MaxRetries
<1>3. CASE End(Meaning)
  BY <1>1, <1>3, EndIInv
<1>. QED
  BY <1>2, <1>3 DEF HandleLogs

LEMMA NextIInv == IInv /\ [Next]_vars => IInv'
<1>1. ASSUME IInv, Begin PROVE IInv'
  <2>1. E' = E /\ Writes' = Writes /\ pc = "idle" /\ pc' = "send" /\ UNCHANGED <<call, answer, applied, outcome>>
    BY <1>1 DEF Begin, E, Writes
  <2>. QED
    BY <1>1, <2>1 DEF IInv, CallTyped, RequestsCounted, RetryBudget, AppliedOnce, TimeCounted,
                      UnauthenticatedIsTold, Sending
<1>2. ASSUME IInv, UNCHANGED vars PROVE IInv'
  BY <1>2 DEF vars, IInv, CallTyped, RequestsCounted, RetryBudget, AppliedOnce, TimeCounted,
              UnauthenticatedIsTold, Sending, E, Writes
<1>. QED
  BY <1>1, <1>2, ExchangeIInv, HandleSharedIInv, HandleTelemetryIInv, HandleRunsIInv, HandleDirectIInv,
     HandleLogsIInv DEF Next

LEMMA AlwaysIInv == Spec => []IInv
<1>. QED
  BY InitIInv, NextIInv, PTL DEF Spec

-----------------------------------------------------------------------------
(* However often the transports send a write again, the server has carried it
   out at most once, and once when the caller is told that it succeeded. *)
THEOREM WritesOnce == Spec => []WritesApplyAtMostOnce
<1>1. IInv => WritesApplyAtMostOnce
  BY DEF IInv, CallTyped, AppliedOnce, WritesApplyAtMostOnce, Sending
<1>. QED
  BY <1>1, AlwaysIInv, PTL

(* No result takes more than five requests, and a call which a server asks to
   try again later ends only when it has sent the five. *)
THEOREM RetriesAreBounded == Spec => []RetryBudget
<1>1. IInv => RetryBudget
  BY DEF IInv, RequestsCounted
<1>. QED
  BY <1>1, AlwaysIInv, PTL

(* A 401 reaches the caller as the error that asks for a login, whichever
   method was called and whatever else it makes of a status. *)
THEOREM RejectedTokensAreTold == Spec => []UnauthenticatedIsTold
<1>1. IInv => UnauthenticatedIsTold
  BY DEF IInv
<1>. QED
  BY <1>1, AlwaysIInv, PTL

(* The download of logs overruns any budget by one pause and one attempt. *)
THEOREM LogsEndInTime == Spec => []LogsGiveUpInTime
<1>1. IInv => LogsGiveUpInTime
  BY BudgetAssumption DEF IInv, CallTyped, TimeCounted, LogsGiveUpInTime, BackoffCap, Call
<1>. QED
  BY <1>1, AlwaysIInv, PTL
=============================================================================
