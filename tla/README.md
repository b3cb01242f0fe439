# Formal models of the rwx CLI

TLA+ models, TLC configurations and TLAPS proofs for the rwx command line
client (Go, `cmd/` and `internal/`). The models are translated from the source;
`PROJECT.json` maps each definition to the lines it stands for.

## The system and its parts

rwx is a client of RWX Cloud. Most commands are one or two API calls whose state
lives on the server. What the client itself keeps, and shares between processes
that run at the same time, is small and is where its difficult behaviour is.

| Part | State | Operations and interactions | Hard behaviour |
|---|---|---|---|
| Sandbox sessions (`internal/cli/service_sandbox.go`, `cmd/rwx/sandbox.go`) | the session file, each process's local variables | start, start --id, exec (--reset, --id), push, background, tunnel, stop (--id, --all), reset, list; API calls to create, look up, cancel runs and to mint scoped tokens; SSH to the sandbox's agent, whose lock serialises operations | two locks, the file read before and rewritten after long waits, 30 s timeouts, crashes between the creation of a run and its recording |
| Session storage (`sandbox_storage.go`) | `.rwx/sandboxes/sandboxes.json` and its `.lock` | load, save by temporary file and rename, lookup by key, by branch, by run, by commit ancestry, key migration | readers without the lock, re-keying collisions, map iteration order |
| Git synchronisation (`service_sandbox.go`, `vcs`, `git`, `jj`) | the sandbox's working tree, index and `refs/rwx-sync`; the local tree and `.rej` files | push HEAD and dirty patches, snapshot a baseline, pull the difference | a failing step leaves a stale baseline; local edits during the operation |
| Background processes and tunnels (`internal/ssh/tunnel.go`) | one state file and control socket per run and key | open, close, close all | concurrent open and close, crash between fork and record, port taken in between |
| SSH client (`internal/ssh/client.go`) | one connection | connect, run remote commands | connection loss |
| API client (`internal/api`, `internal/retry`) | none | eighty-eight methods over five transports; retries of 503, transient errors and 429; pages | retry budget, replay of writes, a 401 read as something else |
| Runs (`service_run.go`, `service_deferred.go`, `service_dispatch.go`) | `.patches`, temporary `.rwx` directory | collect files, patch, initiate, await a deferred run | signal clean-up against the writer |
| Waiting (`service_wait.go`, `service_logs.go`, `service_runs.go`, `service_debug.go`) | none | polling with the server's backoff | missing backoff, a failing poll |
| Artifacts (`service_artifacts.go`) | output files | poll until ready, download in parallel, unique names | deadline, name collisions |
| Images (`service_image_*.go`, `internal/docker`) | none | build, push, pull with deadlines | missing backoff |
| Retry of runs (`service_retry.go`) | none | offer options, request, renegotiate once | options change in between |
| Language server (`internal/lsp`) | pending requests; the extracted bundle | JSON-RPC requests, check, serve | requests against the end of the read loop; concurrent extraction |
| Configuration and tokens (`internal/config`, `accesstoken`, `docstoken`, `service_login.go`, `versions`) | files in two directories | get with fallback and migration, set, login, cached versions | truncating writes, token pairing |
| Telemetry (`internal/telemetry`) | a queue | record, drain | none that steers the program |
| Run definitions and packages (`service_resolve_cli_params.go`, `service_insert_base.go`, `service_packages.go`, `yaml.go`) | the definition files | add init parameters, base and package versions; each pass reads the file, asks the API and writes the file | an editor in between; what is sent against what is on disk; doing it twice |
| Lint (`internal/lsp/check.go`) | edits collected | one request after the other to the language server, then write the edits | a server that stalls or dies |
| Vaults, secrets, variables, OIDC, billing, apps, crons, docs, MCP | none shared | one or two API calls each | meaning of the answer |

What makes each part correct:

- git synchronisation: the command sees the working copy, the pull brings back
  exactly its changes, neither side's work is lost, the user's index is untouched;
- storage file: readers without the lock see whole values; no temporary file stays;
- tunnels: an ssh process is reachable by the command that must close it, and is
  not ended for another sandbox's sake;
- API: a retry never repeats a write that may have happened, and retries end;
- runs: what is uploaded is what is said; no copy of the user's changes stays;
  the base commit is one the service can fetch;
- waits: success is reported of what succeeded, and waits with a deadline end;
- tokens: the last login counts, and the docs token belongs to it;
- bundle, artifacts, edits: never half of one.

And the session part:

- a run that nobody stopped stays recorded, and its recorded progress and token
  are not lost or given to another run;
- a branch and definition get at most one sandbox from exec and reset;
- no lock is held during a wait on somebody who may need that lock, and every
  early return unlocks;
- a started command ends when the server and the locks make progress.

## Modules

| Module | Models |
|---|---|
| `SandboxStorage` | the contents of the session file and the operations of `SandboxStorage` as functions on it |
| `SandboxSessions` | all sandbox commands of several processes over that file, the storage lock, the runs on the server and the agents' locks |
| `MCSandboxSessions` | its constants and symmetry for TLC |
| `SandboxSessionsProofs`, `SandboxAtomicityProofs` | its theorems: types, locks and tokens; creation, recorded runs and progress |
| `SandboxSync`, `SandboxSyncProofs` | one operation's push and pull between two working copies, under git and jj; its theorems |
| `Tunnels`, `MCTunnels`, `TunnelsProofs` | background processes and the ssh masters of several processes; the constants for TLC; its theorems |
| `AtomicFile` | what the storage file promises its readers |
| `StorageFile`, `StorageFileProofs` | how it is written and read, step by step; the proofs that this implements `AtomicFile` and leaves no temporary files |
| `ConfigFiles` | the access token and the docs token over two directories |
| `LspBundle` | the extraction of the language server by concurrent processes |
| `RunPatch` | the patch of a run from its creation to its removal, with signals |
| `MCLocal` | composes the four modules of shared local files |
| `LocalProofs` | the theorems of `ConfigFiles`, `LspBundle` and `RunPatch` |
| `ApiEndpoints` | every method of the API client as a record |
| `ApiClient`, `ApiClientProofs` | one call: transports, retries, pages, the meaning of the answer; its theorems |
| `LintCheck` | `rwx lint` over its JSON-RPC connection |
| `Waiting` | run, dispatch, results, debug, image build, push and pull, login: all that polls |
| `Artifacts` | the download of one artifact or of all of a task |
| `RetryChoice` | the choice and the request of a retry |
| `RunDefinition` | the commands that rewrite a run definition |
| `BaseCommit` | the base commit over a moving repository |
| `MCServices` | composes the six modules of commands without shared files |
| `ServicesProofs` | the theorems of these six |

`MCLocal` and `MCServices` pick one component at the start of a behaviour and let
only it move. The components share no state in the code either, so a product of
them would show nothing more; one run checks them all at the sum of their sizes.

The `TypeOK` predicates of the modules other than `SandboxStorage` and
`SandboxSync` are not invariants of a run: they say what the variables range over.

### Sessions: how the model corresponds to the code

`file` is `sandboxes.json`, `lock` the holder of `sandboxes.json.lock`, `status`
and `home` are the server's knowledge of runs (`home` is the key a run carries in
its `CliState`), `agent[r]` the process the sandbox of `r` granted its lock to.
`pc[p]` names what process `p` does next and `me[p]` holds the Go function's
local variables. One action is one stretch of code between two points where
another process can be seen: taking the storage lock, an API call, a remote
command, releasing the lock. At the labels in `Critical` a process first runs
`Acquire` (lock, then load); the step after it does what the section does with
the loaded copy, and saves and unlocks with it where the code does.

Abstractions:

- A session keeps its run, the run its token is scoped to, `ExecCount >= 1`
  (`used`, the only test made of it) and `ResetNagShown` (`nag`). URL, hash and
  times never steer a decision.
- The Go map is a total function; operations that depend on iteration order
  return the set of possible results.
- `push` stands for all operations that require an existing sandbox (push,
  background, tunnel and their subcommands): they use sessions alike. `--wait`
  of start changes no state.
- An operation on the sandbox (synchronise, run, pull) is one step that succeeds,
  fails, or finds no git directory; `SandboxSync` looks inside.
- Tunnels of a dropped session are closed by best effort; `Tunnels` has them.
- A save of unchanged storage rewrites the file with the same contents.
- What can go wrong is a constant, `Faults`: the storage lock cannot be taken
  (`lock`), the file cannot be read (`load`) or written (`save`), an API call
  fails (`api`), a 30 s wait gives up (`timeout`), a run ends on its own
  (`expire`), a process is killed (`crash`).

### Synchronisation

`local` is the user's repository (HEAD, index, working tree, `.rej` files, saved
patch), `remote` the sandbox's (index, working tree, `refs/rwx-sync`). A tree maps
paths to contents, a patch gives old and new content per path; `git apply` succeeds
when the old contents fit. `op.pc` names the remote or local command to come; each
action is one of them with all its ways out. An index entry of `git add -N` is a
value of its own, `Ita`, since two hazards hang on it. The user edits, stages,
untracks or commits at any point. A run whose HEAD moved during the push is out of
scope of `CommandSeesWorkingCopy` and `PullMirrors` (`ghost.moved`): the code takes
HEAD and the dirty patches at different moments and does not promise a snapshot.
Not seen: hunks within a file, submodules, LFS contents, commands that change the
sandbox's HEAD or index.

### Tunnels

`masters` are live ssh processes, `socket[t]` the one bound at the control path of
tunnel `t`, `saved[t]` the port in `state.json`, `dirs` the directories that exist.
Ports are probed and bound in different steps. Commands on one sandbox hold its
agent's lock; `CloseAll` does not, and is called for runs that go on as well: exec,
stop, reset and list close the tunnels of a session they drop when its connection
could not be asked for (`service_sandbox.go:1272`, `1366`, `1843`). `ssh -O exit` may
fail (`ExitFails`), after which `Open` ends with an error, `Close` leaves socket and
state file behind, and a failed save leaves the new ssh running. A killed ssh leaves
its socket, at which a later exit fails. `strayed` collects the tunnels whose ssh
may have got out of reach: a kill, or a failed close, between the start of ssh and the
save; a state file that `Open` cannot read and passes over; a `CloseAll` beside a
command that opens a tunnel of that run. These are windows the code has, and the first
two properties except them. The removal of an old socket by `Open`
(`tunnel.go:175`, its error ignored) is assumed to work.

### Local files

`StorageFile`: inodes with contents and synced contents, a directory entry that reaches
the disk at the rename or later, temporary names. A reader opens an inode and decodes it
later. Savers may be without the lock, as in the code when it could not be had.
`ConfigFiles`: opening truncates, the next step fills; the old directory is copied over
when the new file is absent; a write that fails leaves the file as it is by then.
`LspBundle`: directory entries are removed one by one, parts written one by one, the
marker last; a process of another version (`Others`) removes entries at any time once it
has found the directory. `RunPatch`: the main goroutine, the signal handler, and the
shared `.patches` directory; a file open for writing loses its name when the directory
is removed.

These parts take no lock, and some overlaps do break them. The properties name
what they except, and each exception is a behaviour the code has (the table has those
of the other parts too):

| Property | Excepts | What happens then |
|---|---|---|
| `LastLoginIsRead` | a migration that began before a login (`raced`) | the old token overwrites the new one |
| | an empty file | a login or a migration that is half-way or failed leaves none, or what another login wrote meanwhile; only logins that succeeded count as the last |
| `DocsTokenFitsLogin` | a token given by flag or environment, or a login while the docs token is created (`mixed`) | the docs token is cached for the other account |
| `ServedBundleIsWhole` | overlapping extractions (`crossed`) | the marker may stand in a directory that another process is still filling |
| | a clean-up by another version since the directory was last removed (`cleaned`) | `cleanStaleBundles` takes files away from a bundle that is marked, in use or being written |
| `PatchIsRemoved` | a signal while the patch is being made, or after the handler has stopped (`raced`) | the patch stays on disk |
| `ConflictsAreKept` | no saved patch is named (`~op.kept`), for a file that one side lacks | `saveRejectedPatch` saves nothing and says nothing; git writes no `.rej` file for a creation or deletion |
| `EveryTunnelIsTracked`, `StoppedMeansClosed` | `strayed` | see Tunnels |
| `DefinitionSettles` | an editor meanwhile (`touched`); a base that could not be written (`unbased`) | the editor's text is lost or sent; the next run inserts the base |
| `BaseIsShared` | HEAD or the remote moved otherwise than by new commits (`moved`), a branch dropped (`dropped`), no history shared with the remote | commit and base differ; the service cannot fetch them; the patch applies to HEAD at its own time |
| `UploadIsAsSaid` | another run in the same project, a patch left behind, a signal, changes that are not UTF-8 | another run's patch is uploaded, or none although one was announced |

### API

`ApiEndpoints` gives every method a record: verb, transport, the statuses it takes
for success, those with a meaning of their own, what it makes of the others, and
what it needs of the body. `ApiClient` runs one call against a server that answers
anything or nothing at every request. `applied` counts how often the server carried
the operation out: once for 2xx, not for 4xx or 503 with Retry-After, perhaps for a
lost answer or another 5xx. That a 503 with Retry-After means "not carried out" is
what the comment at `client.go:78` assumes; it is an assumption here too. So is that a
list has an end: `ListVaults` asks for pages for as long as the answer names a next one
(`client.go:828`), without looking whether it is a new one, and `CallsEnd` holds
because the server of the model runs out of pages. `internal/retry`'s own
pauses and counts are not in the model.

### Services

`Waiting` has one step per call; a poll that says "not yet" is a stutter. `hung` says
that the service or a person never goes on. `LintCheck` separates registering a
request's channel, sending it, the reader's delivery and the deadlines. `Artifacts`
names are sequences of parts, so that a suffixed name can equal another key.
`RetryChoice` lets the service change its offer before each request. `RunDefinition`
follows one file through the passes, with an editor between reading and writing; the
write of a base may fail and is passed over (`unbased`). `BaseCommit` builds every
history up to `MaxCommits` with merges, orphans, checkouts, pushes, fetches, and
branches of the remote that are deleted or forced elsewhere; boundaries are taken in any
order for git, closest first for jj. `InitiateRun` asks for the commit (`AskCommit`),
may write init parameters to its own definition (`RewriteDefinition`,
`service_run.go:239`), and asks again for the patch (`GeneratePatch`). `Snapshot` is
jj's: changed files go into a new `@` in place of the old one. Only jj's fallbacks
answer with `@` (`AnswersAt`); there the run's own write makes the patch's base another
commit than the run's. The patch is then made against the very commit it starts from,
hence empty. An error of the first question leaves the run without commit and patch, one
of the second without patch; it is sent all the same.

## Runs

| Run | Instance | Shows |
|---|---|---|
| `concurrent` | 2 processes, 2 runs, 1 branch, 1 definition, 8 commands, crashes and expiring runs | type correctness, `TokenScope`, `StorageLockIsShort`, `CheckThenCreateAtomic`, `LiveRunStaysRecorded`, `SessionProgressKept` |
| `faults` | 1 process, 2 runs, 2 detached positions, all 12 commands, every failing call and timeout | `TokenScope` and `StorageLockIsShort` on all error paths |
| `finish` | 2 processes, 1 run, exec, exec --reset, push, stop, expiring runs, fairness | every command ends |
| `token_update`, `list_recovery` | 2 processes, exec; 1 process, start, list, crash | **violated**: see findings |
| `sync` | git and jj, 2 paths, 2 contents, 2 operations, 1 step of the user, kills | the seven properties of `SandboxSync` |
| `sync_index`, `sync_ignored` | one operation, no edits | **violated**: see findings |
| `tunnels` | 2 processes, 2 tunnels of two runs, 2 ports, 3 commands, 2 ssh processes, failing files and closes, one kill or lost connection, one step of another program | `EveryTunnelIsTracked`, `StoppedMeansClosed`, `ReopenKeepsPort`, `OtherTunnelsAreLeftAlone` |
| `local` | 2 savers, 1 reader, 3 files, 1 crash; 2 users, 2 tokens, 2 logins; 2 linters, 1 process of another version, 2 parts; 2 runs, 1 commit, 1 signal, 1 kill | the refinement `SavesAreAtomic` and six invariants |
| `api` | every method, lists of 2 pages, a log budget of 8 s, attempts of up to 2 s | retries are bounded, safe and end; a 401 is told |
| `services` | 2 files, 2 tags, 3 artifacts over 4 names, 2 tool caches, 2 parameters, 3 versions, 4 commits, 2 remote branches, 1 move while a run is prepared | six invariants, `LintTerminates`, `CommandsTerminate` |

Bounds. Sessions: two processes are enough for each property to be about two interleaved
sections; a slot runs commands one after the other without bound, so a third command is
a later one of an idle slot. Two runs let a session be replaced by another run's. A run
is used once (`status` never returns to "none"), which bounds the length of a history.
One key is enough where keys never interact; ancestry re-keying, where they do, is
covered by the two positions of `faults`. Synchronisation: one path that fits and one
that does not make a partial pull; the second operation meets what the first left.
Tunnels: three commands let a stop and a close-all meet an open, or two opens a close.
Local: two of each are the smallest overlap; a third temporary file is one after a
crash. One process of another version is enough to take away any set of files, in any
order, at any time. Artifacts: "a", "a", "a-2" is the smallest collision of a suffix
with a key. Base commits: four commits hold a merge of two lines with two boundaries, or
a snapshot, a new commit of the remote and an orphan; one move shows each kind between
the two questions. Logs: 8 s spend the real loop's pauses of 1, 2 and 4 s; the budget is
a parameter in the code as well. `concurrent`, `faults`, `tunnels` and `local` use the
symmetry of processes (and of runs and ports, tokens left alone); the runs with liveness
do not.

`LiveRunStaysRecorded` and `SessionProgressKept` exempt the writes named by
`LateWrite`: a plain start, the token update and a reattach rewrite a key from
what they knew before they had the lock. The two violation runs and the findings
say what that costs; everything else is held to the properties.

Fairness. `finish`: `flock` wakes a waiter and the agent serves its queue in
order, hence strong fairness for `Acquire` and `LockAgent`; a process that can go
on does (weak fairness for each process's steps); the server starts runs and ends
those told to end. Users are not forced to issue commands, processes are not
forced to crash, and runs need not expire. `api`: the call goes on (every attempt
has an answer or an error; the HTTP clients without a timeout make that an
assumption on the network). `services`: the main goroutine of lint runs and its two
timers fire, while neither the server nor the reader is forced to do anything;
a command's calls are answered, time passes, and the service moves unless `hung`.

Deadlock is checked in the runs of the sessions. The others end where an operation,
a call or a bounded number of commands has ended, and switch the check off; their
liveness properties and `SectionsEnd` stand in for it.

## Findings

- *The token update replaces the session* (`service_sandbox.go:568`). The storage
  is reloaded "under lock to avoid overwriting concurrent writes", but the session
  is then rebuilt from local variables: an exec count, a hint or a newer run
  recorded between the persist and the update is lost.
- *list does not recover a live run whose key holds an expired session*
  (`service_sandbox.go:1695`, `1744`): it adopts before it prunes. A second list
  recovers it.
- *A removed index entry comes back* (`git/client.go:285`, run `sync_index`): the
  undo of `git add -N` is a `git reset`, which also undoes a `git rm --cached` of
  the user.
- *A pull deletes a file the sandbox still has* (`service_sandbox.go:2085`, run
  `sync_ignored`): an untracked file that the command makes git ignore is in the
  baseline and not in the diff's index.
- *The scoped token of a sandbox is replaced by the access token*
  (`api/client.go:69`), contrary to the comment at 321.
- *Signals and the patch* (`service_run.go:226`), and *the first boundary is not
  always the closest merge-base* (`git/client.go:137`). These three have no run of
  their own; the models contain the behaviour.

Seen while modelling, without a sentence of the repository that says otherwise:

- `patch-rejected.diff` is overwritten by the next conflict; `.rej` files are not
  written for conflicts of creation or deletion.
- A failing `git add -N` makes a push go on silently without untracked files.
- `run --wait --json` fails when the details cannot be had although the run is done;
  `run --debug` ends well when the run fails without a breakpoint.
- A second `retry` round requests a single remaining action without asking.
- A login whose answer is lost cannot fetch its token again.
- `run --wait`, deferred runs, dispatch and login poll without a deadline.
- Package rewriting loses what an editor saves between reading and writing;
  `update --allow-major` takes the index's latest even if that is older.
- A failed write of a patch leaves a partial file that is uploaded although
  `Sent` is false; a patch left by a SIGKILL is uploaded by the next run.
- `lint --fix` applies the edits of all URIs to the current file, and takes columns
  in UTF-16 units for byte offsets (not modelled).
- Only the first page of sandbox runs is listed.

## Proofs

Every safety invariant and every action property that a passing run checks is also
a theorem, for every value of the constants that their named assumptions allow. Each proof
has the same shape: an inductive invariant, one lemma per action, the property from
the invariant. The invariants of the sessions were checked with TLC before they were
proved. The theorems are listed here with what their invariants are for.

### Sessions

`SandboxSessionsProofs`, for any sets of processes, runs, branches and definitions,
any ancestor relation and any set of faults:

- `TypeCorrect`: `Spec => []TypeOK`. Invariant: `TypeOK` and `ProcsOK`, which
  says what a process's local variables are at each label (a run is chosen from
  "persist" on, a key is known where one is written, a section that runs has
  loaded). Without it the writes of a key or a run that may be `None` are not
  typed.
- `LockIsShort`: `Spec => []StorageLockIsShort`. It is inductive with the type
  invariant: a step that leaves the locked labels unlocks, a step that keeps the
  lock stays in them, and nobody's lock changes by another's step.
- `TokensAreScoped`: `Spec => []TokenScope`. Strengthened with `ScopeOK`: the copy
  a process loaded is scoped as well, and the token about to be saved is the
  process's own run's. `Lookup`, `LookupBranch`, `Adopted` and the deletions
  preserve this; each has a lemma.

`SandboxAtomicityProofs` has the three properties that need the code around them to
work. What they need is a hypothesis of the theorem:

| Hypothesis | Says | Without it |
|---|---|---|
| `LocalFilesWork` | `Faults` has no `lock`, `load` or `save` | reset and the saving of a new session go on without the lock when it cannot be had, and commands go on when a save fails |
| `CallsWork` | `Faults` has no `api` | a run that a failing call did not report as alive is forgotten |
| `FewAncestors` | a position has at most one ancestor position | the sessions of two ancestors with one definition move to one key, and the storage keeps the last (`sandbox_storage.go:513`) |

Killed processes, expiring runs and waits that time out are allowed in all three.

- `CreationIsAtomic` (`CheckThenCreateAtomic`) and `ProgressIsKept`
  (`SessionProgressKept`), under `LocalFilesWork`. Invariant `AtomInv`: a process
  that `Owns` the section (it works on the loaded copy, or has found a key empty
  and is creating a run) holds the lock. What it loaded is the file, or, while it
  stops runs, is `Behind` it: only sessions forgotten and free keys filled. A
  key found empty stays empty until the new run is recorded, and a session still
  at the command's key is among the candidates it probes (`Remembers`).
- `LiveRunsStay` (`LiveRunStaysRecorded`), under all three. Invariant `LiveInv` with
  `ScopeInv` and `AtomInv`: recorded runs were created; the candidates are what
  memory holds; runs the file has and memory lacks have been told to stop
  (`Shed`); the run whose session is dropped is `Gone`. `Forward` says a run
  never returns from ending. `ScopeInv` is needed because a call with another run's
  token fails, and "dead" would then not mean that the run has ended.

### Synchronisation and tunnels

`SandboxSyncProofs`: for any paths and contents and any number of operations and of
steps of the user. One invariant carries all seven properties: the types; `OpenOK`
(output is hidden in the labels of a section); `IntentOK` (entries of `add -N` are among
those the operation takes back); `OperationOK`; `CleanedOK` (the sandbox's index and
files after checkout and clean); `HeadOK` and `DiffOK` (what was asked of the user's
repository still holds); `PatchesOK` (there is a tree over which the patches lead from
HEAD to the working copy, so that each applies); `StartedOK` (what the command starts
from is the working copy); `PulledOK` and `MirrorOK` (the pulled patch leads from the
baseline to what git sees of the sandbox). Theorems `SyncTyped`, `SectionsAreEnded`,
`IntentsAreUndone`, `CommandsSeeTheWorkingCopy`, `PullsOverwriteWhatWasSeen`, and, if
commands do not make git ignore files (`~CommandsIgnore`; the run `sync_ignored` shows
what happens when they do), `PullsMirror` and `ConflictsAreNotLost`. The last says: if
the conflict's message names a saved patch, nothing is lost; if `saveRejectedPatch` gave
up, what is lost can only be a change to a file that one of the sides lacks.

The proof found `ConflictsAreKept` too strong as it was first stated: when the
command deletes a file that only the sandbox had, the user has created one at its
path, and another path conflicts, nothing of that deletion is kept. TLC
confirms it with two edits. It is a deletion with nothing to land, so the property
now speaks of paths that the command or the baseline has.

`TunnelsProofs`: for any processes, tunnels, ports and any numbers of commands, kills
and lost connections, with reads, writes and closes that may fail. `MastersOK` (each ssh
process has a number, and a socket leads to its own tunnel's), `CommandsOK` (a command
other than `CloseAll` holds its sandbox's agent, and is about one tunnel of that run),
`Apart` (a tunnel that is opened beside a `CloseAll` of its run is strayed), `TunnelOK`
(of a tunnel that is not strayed: the socket leads to each ssh process, the state file
has its port unless a command is about to write it, and `Leaves` says what a command has
made of its tunnel when it gets to a label). Uniqueness follows, since numbers are
unique. Theorems `TunnelsAreTracked`, `StopsAreClosed`, `ReopensKeepPorts`,
`OthersAreLeftAlone`; the last needs no assumption on the run of a `CloseAll`: that it
passes over other runs' entries is what keeps their tunnels.

### Local files

`StorageFileProofs`: `StorageIsAtomic` is `StorageFileSpec => SavesAreAtomic`, the
refinement the run `local` checks. The register's value is the contents of the file at
the path. The invariant `IInv` has three parts beside the types: a saver's temporary
file is its own, not at the path, not open by anybody, and holds its value once encoded
and synced (`SaversOK`); the entry seen by processes and the one on disk name synced
values of saves (`EntriesOK`); an open file does not change any more (`ReadersOK`). A
rename is then the register's write, an open its read, a power loss its reversion to an
earlier value; every other step leaves value and readings alone. `TempsAreBounded` is
`TempsAreRemoved`: a temporary name is that of a running saver's file, or a crash left
it, which leaves at most one per saver.

`LocalProofs`: `LoginsAreRead` and `DocsTokensFit` (a migration under way began before
every login, since only a missing file starts one; a write that fails leaves no token or
one the file had, which is the last login's already); `ServedIsWhole` (while extractions
do not overlap there is one, its directory has no marker, and the parts it has written
are known, as long as no other version takes files away); `PatchesAreRemoved` and
`UploadsAreAsSaid` (`BytesKept`, `Warned`, `OwnPatch` and `AloneInDirectory`: whose
inode each name in `.patches` is, and who will still remove it). `LastLoginIsRead` was
sharpened on the way: the access token is the last login's whenever a token is read, not
only right after the login.

### API client and services

`ApiClientProofs`: every endpoint record is checked for what the transports rely on
(`EndpointSound`: the loop of `ListRuns` is used by reads that classify every status);
then `RequestsCounted`, `AppliedOnce` and `TimeCounted` count requests, executions on
the server and seconds along a call. Theorems `WritesOnce`, `RetriesAreBounded`,
`RejectedTokensAreTold`, `LogsEndInTime`, for any number of pages, any budget and any
duration of an attempt.

`ServicesProofs`: `FixesAreComplete` (files are diagnosed in order, and only the path
with an answer for each leads to the writing of edits); `ResultsAreEarned`;
`RetriesAreOffered`; `DefinitionsSettle` (each pass leaves what earlier passes did, and
a second command finds no parameter, package or base to change, but for a base whose
write failed); `DownloadsStayApart` (a suffix that is free exists
by counting, the one taken is new, so that names differ); `BasesAreShared` (the
ancestors of commits are the least closed set that has them; new commits on HEAD or on
the remote, and a new `@` in place of the old, leave the history they share as it is,
with its boundary and the choice made from it, so that the second question has
the first one's answer; an answer stays on the remote until a branch is dropped).

### What the provers lack

Induction principles take an operator as a parameter and cannot be used. The proofs
that need induction over numbers argue from a least counterexample (lemma `Least`
in `ServicesProofs`, from well-foundedness of `<`), and those about recursive
functions from the existence of a function that solves the equation.

Liveness stays with TLC: `CommandsFinish`, `CallsEnd`, `LintTerminates`,
`CommandsTerminate`. So do the properties of the violation runs, which do not hold. The
assumptions that constants got for the proofs are named where the constants are declared
(`SaversAssumption`: savers are finite; `ArtifactsAssumption`, `CommitsAssumption`,
`DistinctAssumption`, `TunnelsAssumption` and the bounds: nonempty sets, distinct
special values, numbers that are numbers); TLC evaluates them in the runs.
`ApiEndpoints` defines `:>` and `@@` itself, as the module `TLC`, which has them, is not
one to reason about.

## Plan

1. Weaker hypotheses: what remains of `LiveRunStaysRecorded` when calls fail
   (`CallsWork`), and of the creation when only the lock cannot be had.
2. Ancestry re-keying with three positions, for the collision at
   `sandbox_storage.go:513` that `FewAncestors` excludes, and the migration of
   version 0 keys.
3. Hunks within a file and commands that move the sandbox's HEAD in `SandboxSync`.

## Not modelled

- The migration of session keys of version 0, the cache of the latest version,
  telemetry: see the notes in `PROJECT.json`.
- Bodies of requests, contents of archives, the text of YAML and of edits, what is
  printed, flags that only format.
- RWX Cloud, git, ssh, node and Docker are external: they appear as the outcomes the
  code distinguishes.

## Running

`tlc -config MCSessionsConcurrent.cfg MCSandboxSessions`, `tlc -config
MCServices.cfg MCServices` (and the other configurations alike; `ApiCalls.cfg` is
for `ApiClient`, `SandboxSync*.cfg` for `SandboxSync`). `tlapm M.tla` for `M` in
`SandboxSessionsProofs`, `SandboxAtomicityProofs`, `SandboxSyncProofs`,
`TunnelsProofs`, `StorageFileProofs`, `LocalProofs`, `ApiClientProofs` and
`ServicesProofs`; each takes one to four minutes from nothing.
