---------------------------- MODULE ApiEndpoints ----------------------------
(***************************************************************************)
(* What every method of the API client (internal/api) asks for and how it  *)
(* reads the answer: its HTTP method, the statuses it takes for success,   *)
(* the statuses it gives a meaning of their own, and what it makes of the  *)
(* others.  The transport under them is in ApiClient.                      *)
(***************************************************************************)
EXTENDS Integers

(* A function of one pair, and the union of two functions, the first one first:
   those of the module TLC, which the prover does not know. *)
d :> e == [x \in {d} |-> e]
Merged(f, g) == [x \in DOMAIN f \cup DOMAIN g |-> IF x \in DOMAIN f THEN f[x] ELSE g[x]]
f @@ g == Merged(f, g)

Statuses == {200, 201, 202, 400, 401, 403, 404, 410, 422, 429, 500, 503}
Success == {200, 201, 202}

(***************************************************************************)
(* via: how a request travels.  shared is Client.RoundTrip, runs the loop  *)
(* of ListRuns, logs the loop of DownloadLogs, direct http.DefaultClient,  *)
(* telemetry retry.RoundTripper around Client.RoundTrip.  reads: what the  *)
(* meaning of a failing status needs of the body: nothing (status), an     *)
(* error for the special statuses (special), its absence (silent: an error *)
(* read is passed on without a class), an error always (all).              *)
(***************************************************************************)
Endpoint(method, ok, special, others) ==
  [method |-> method, ok |-> ok, special |-> special, others |-> others,
   via |-> "shared", reads |-> "status", empty |-> FALSE]

NoSpecial == [s \in {} |-> ""]

(* errors.New(extractErrorMessage(body)) for anything but the ok statuses. *)
Plain(method, ok) == Endpoint(method, ok, NoSpecial, "plain")

(* decodeResponseJSON: any 2xx, the rest by classifyHTTPStatusError. *)
Decoded(method) == Endpoint(method, Success, NoSpecial, "classified")

(* decodeTaskKeyResponseJSON: a 422 that names an error is an ambiguous key. *)
TaskKeyed(method) ==
  [Decoded(method) EXCEPT !.special = 422 :> "ambiguousTask", !.reads = "special"]

(* No body is read on success. *)
NoBody(e) == [e EXCEPT !.empty = TRUE]

Calls(names, e) == [n \in names |-> e]

(* classifyHTTPStatusError *)
Classify(s) ==
  CASE s \in {401, 403} -> "unauthenticated"
    [] s = 404 -> "notFound"
    [] s >= 500 -> "serverError"
    [] OTHER -> "plain"

-----------------------------------------------------------------------------
SkillCalls ==
  Calls({"GetSkillContent", "GetSkillSnapshot", "GetSkillLatestVersion"}, Plain("GET", {200}))

(* Errors that unwrap to the sentinels of their status. *)
DebugCalls ==
  Calls({"GetDebugConnectionInfo"},
    Endpoint("GET", {200}, (400 :> "badRequest") @@ (404 :> "notFound")
                           @@ (410 :> "gone") @@ (422 :> "badRequest"), "classified"))

SandboxCalls ==
  Calls({"GetSandboxConnectionInfo"},
    [Endpoint("GET", {200}, (400 :> "badRequest") @@ (404 :> "notFound") @@ (410 :> "gone"),
              "classified") EXCEPT !.reads = "silent"])
  @@ Calls({"CreateSandboxToken"}, Plain("POST", {200, 201}))

(* A 202 is a deferred run. *)
RunCalls ==
  Calls({"InitiateRun"}, Plain("POST", {201, 202}))
  @@ Calls({"DeferredRunStatus"}, Decoded("GET"))

DispatchCalls ==
  Calls({"InitiateDispatch"}, Plain("POST", {201})) @@ Calls({"GetDispatch"}, Plain("GET", {200}))

AuthCalls ==
  Calls({"ObtainAuthCode"}, Plain("POST", {201}))
  @@ Calls({"AcquireToken", "Whoami"}, Plain("GET", {200}))
  @@ Calls({"CreateDocsToken"}, Plain("POST", {200, 201}))

VaultCalls ==
  Calls({"SetSecretsInVault"}, Plain("POST", {200}))
  @@ Calls({"CreateVault"}, Decoded("POST"))
  @@ Calls({"ListVaults"}, Plain("GET", {200}))

VaultEditCalls ==
  Calls({"ShowVault", "ListVaultApprovers"}, Decoded("GET"))
  @@ Calls({"UpdateVault"}, Decoded("PATCH"))
  @@ Calls({"DeleteVault", "RemoveVaultApprover"}, NoBody(Decoded("DELETE")))
  @@ Calls({"AddVaultApprover"}, Decoded("POST"))

VaultAccessCalls ==
  Calls({"ListVaultServiceAccountAttachments", "ListVaultRepositoryPermissions"}, Decoded("GET"))
  @@ Calls({"AttachVaultServiceAccount", "CreateVaultRepositoryPermission"}, Decoded("POST"))
  @@ Calls({"DetachVaultServiceAccount", "DeleteVaultRepositoryPermission"},
           NoBody(Decoded("DELETE")))

VaultGrantCalls ==
  Calls({"ListVaultAccessGrants"}, Decoded("GET"))
  @@ Calls({"CreateVaultAccessGrant"}, Decoded("POST"))
  @@ Calls({"DeleteVaultAccessGrant"}, NoBody(Decoded("DELETE")))

SecretCalls ==
  Calls({"ListSecrets", "ShowVar"}, Plain("GET", {200}))
  @@ Calls({"DeleteSecret"}, NoBody(Plain("DELETE", {200})))
  @@ Calls({"SetVar"}, NoBody(Plain("POST", {200})))

VarCalls ==
  Calls({"ListVars"}, Plain("GET", {200}))
  @@ Calls({"DeleteVar"}, NoBody(Plain("DELETE", {200})))
  @@ Calls({"CreateVaultOidcToken"}, Plain("POST", {201}))

OidcCalls ==
  Calls({"ListVaultOidcTokens", "ShowVaultOidcToken"}, Plain("GET", {200}))
  @@ Calls({"UpdateVaultOidcToken"}, Plain("PATCH", {200}))
  @@ Calls({"DeleteVaultOidcToken"}, NoBody(Plain("DELETE", {200})))

PackageCalls ==
  Calls({"GetPackageVersions"}, Plain("GET", {200}))
  @@ Calls({"UploadPackage", "PublishPackage"}, Decoded("POST"))
  @@ Calls({"GetPackageDocumentation"}, [Plain("GET", {200}) EXCEPT !.special = 404 :> "notFound"])

ImageCalls ==
  Calls({"GetDefaultBase", "ImagePushStatus", "TaskKeyStatus", "TaskIDStatus"}, Decoded("GET"))
  @@ Calls({"StartImagePush"}, Decoded("POST"))

(* RunStatus asks by task key, by run, or for the latest run of a definition. *)
ResultCalls ==
  Calls({"RunStatusByTaskKey"}, TaskKeyed("GET"))
  @@ Calls({"RunStatusLatest"}, [Decoded("GET") EXCEPT !.special = 422 :> "ambiguousPath", !.reads = "special"])
  @@ Calls({"RunStatusByRun", "GetRunDetails"}, Decoded("GET"))

PromptCalls ==
  Calls({"GetRunPrompt"}, [Plain("GET", {200}) EXCEPT !.special = 404 :> "notFound"])
  @@ Calls({"GetRunPromptByTaskKey"},
           [Plain("GET", {200}) EXCEPT !.special = (404 :> "notFound") @@ (422 :> "ambiguousTask"),
                                       !.reads = "special"])

LogCalls ==
  Calls({"GetLogDownloadRequest"}, Decoded("GET"))
  @@ Calls({"GetLogDownloadRequestByTaskKey"}, TaskKeyed("GET"))
  @@ Calls({"DownloadLogs"}, [Plain("POST", Success) EXCEPT !.via = "logs"])

ArtifactCalls ==
  Calls({"GetAllArtifactDownloadRequests"}, [Plain("GET", {200}) EXCEPT !.special = 404 :> "notFound"])
  @@ Calls({"GetAllArtifactDownloadRequestsByTaskKey"},
           [Plain("GET", {200}) EXCEPT !.special = (404 :> "notFound") @@ (422 :> "ambiguousTask"),
                                       !.reads = "special"])
  @@ Calls({"GetArtifactDownloadRequest"}, Decoded("GET"))

ArtifactFileCalls ==
  Calls({"GetArtifactDownloadRequestByTaskKey"}, TaskKeyed("GET"))
  @@ Calls({"DownloadArtifact"}, [Plain("GET", Success) EXCEPT !.via = "direct"])
  @@ Calls({"CancelRun"}, NoBody(Plain("POST", {200})))
  @@ Calls({"GetSandboxInitTemplate"}, Decoded("GET"))

(* A 422 carries new options; 400 and 422 are bad requests. *)
RetryCalls ==
  LET BadRequests(m) == [Decoded(m) EXCEPT !.special = (400 :> "badRequest") @@ (422 :> "badRequest")]
  IN  Calls({"GetRetryOptions"}, BadRequests("GET")) @@ Calls({"RequestRetry"}, BadRequests("POST"))

PoolCalls ==
  Calls({"ListConcurrencyPools", "ShowConcurrencyPool", "ListConcurrencyPoolQueue"}, Decoded("GET"))

CronCalls ==
  Calls({"ListCrons", "ShowCron"}, Endpoint("GET", {200}, NoSpecial, "classified"))
  @@ Calls({"PauseCron", "ResumeCron", "SnoozeCron"}, Endpoint("POST", {200}, NoSpecial, "classified"))

AppCalls ==
  Calls({"ShareApp"}, Decoded("POST")) @@ Calls({"DisableApp", "EnableApp"}, NoBody(Decoded("POST")))

(***************************************************************************)
(* The code in the body decides, taken here to be the one that belongs to  *)
(* the status; a body that cannot be read is an error without a meaning.   *)
(***************************************************************************)
DebugSessionCalls ==
  Calls({"AttachDebugSession"},
    [Endpoint("POST", {202}, (403 :> "unauthenticated") @@ (404 :> "notFound") @@ (410 :> "gone")
                             @@ (422 :> "badRequest"), "classified") EXCEPT !.reads = "all"])

McpCalls == Calls({"McpGetRunTestFailures"}, Decoded("POST"))
BillingCalls == Calls({"BillingUsage"}, Decoded("GET"))
DocsCalls == Calls({"Search", "FetchArticle"}, [Plain("GET", {200}) EXCEPT !.via = "direct"])
TelemetryCalls == Calls({"Flush"}, [NoBody(Plain("POST", Statuses)) EXCEPT !.via = "telemetry"])
ListRunsCalls ==
  Calls({"ListRuns"},
    [Endpoint("GET", {200}, 400 :> "badRequest", "classified") EXCEPT !.via = "runs"])

Endpoints ==
  SkillCalls @@ DebugCalls @@ SandboxCalls @@ RunCalls @@ DispatchCalls @@ AuthCalls
  @@ VaultCalls @@ VaultEditCalls @@ VaultAccessCalls @@ VaultGrantCalls @@ SecretCalls
  @@ VarCalls @@ OidcCalls @@ PackageCalls @@ ImageCalls @@ ResultCalls @@ PromptCalls
  @@ LogCalls @@ ArtifactCalls @@ ArtifactFileCalls @@ RetryCalls @@ PoolCalls @@ CronCalls
  @@ AppCalls @@ DebugSessionCalls @@ McpCalls @@ BillingCalls @@ DocsCalls @@ TelemetryCalls
  @@ ListRunsCalls

(* CLI calls that take a scoped token beside the access token. *)
Scoped == {"GetSandboxConnectionInfo", "CancelRun"}
=============================================================================
