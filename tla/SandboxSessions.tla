--------------------------- MODULE SandboxSessions --------------------------
(***************************************************************************)
(* The life of sandboxes as concurrent rwx processes of one repository see *)
(* it (internal/cli/service_sandbox.go): the session file under its file   *)
(* lock, the runs on the server, and the lock each sandbox's agent grants. *)
(*                                                                         *)
(* A process runs one command at a time.  A label of pc names what it does *)
(* next.  At a label of Critical it first acquires the storage lock and    *)
(* loads the file (mem = NotLoaded until then), as every such section of   *)
(* the code does; a step there that saves also unlocks where the code      *)
(* unlocks right after saving.                                             *)
(***************************************************************************)
EXTENDS SandboxStorage

CONSTANTS
  Procs,          \* process slots; a slot runs one command after another
  DefaultConfig,  \* FindDefaultSandboxConfigFile
  Commands,       \* the commands users issue in this instance
  Faults,         \* what may go wrong in this instance
  NotLoaded, LoadFailed

AllCommands == {"start", "attach", "exec", "execReset", "execId", "push", "pushId",
                "stop", "stopId", "stopAll", "reset", "list"}
AllFaults == {"lock", "load", "save", "api", "timeout", "expire", "crash"}

ASSUME CommandsAssumption == Commands \subseteq AllCommands
ASSUME FaultsAssumption == Faults \subseteq AllFaults
ASSUME DefaultAssumption == DefaultConfig \in Configs
ASSUME NobodyAssumption == None \notin Procs \cup AllCommands \cup Keys
ASSUME MemAssumption == {NotLoaded, LoadFailed} \cap Storage = {} /\ NotLoaded # LoadFailed

VARIABLES
  file,     \* sandboxes.json
  lock,     \* holder of sandboxes.json.lock, or None
  status,   \* the server's view of each run
  home,     \* the session key in the run's CliState, set when it is created
  agent,    \* the process the sandbox's agent granted its lock to, or None
  pc,       \* what each process does next
  me        \* each process's local variables

vars == <<file, lock, status, home, agent, pc, me>>
server == <<status, home>>

Critical == {"check", "select", "stop", "list", "reset", "persist", "saveToken",
             "saveAttach", "saveNag", "saveUsed", "cleanup"}
Labels == Critical \cup {"idle", "active", "prune", "resolved", "stopping", "stopWait",
             "initiate", "token", "reread", "reattach", "waitReady", "agent", "operate",
             "release"}

Local == [op   : AllCommands \cup {None},
          key  : Keys \cup {None},          \* branch and definition of the command
          run  : Runs \cup {None},          \* run it works on
          tok  : Runs \cup {None},          \* scoped token it uses for that run
          mem  : Storage \cup {NotLoaded, LoadFailed},
          cand : SUBSET (Keys \X Session),  \* sessions found, or still to stop
          at   : Keys \cup {None},          \* key of the session being stopped
          flag : BOOLEAN]                   \* exec: a definition is named; attach: the run is
                                            \* recorded; token: the file was readable

Idle == [op |-> None, key |-> None, run |-> None, tok |-> None, mem |-> NotLoaded,
         cand |-> {}, at |-> None, flag |-> FALSE]

TypeOK ==
  /\ file \in Storage
  /\ lock \in Procs \cup {None}
  /\ status \in [Runs -> {"none", "starting", "ready", "ending", "ended"}]
  /\ home \in [Runs -> Keys \cup {None}]
  /\ agent \in [Runs -> Procs \cup {None}]
  /\ pc \in [Procs -> Labels]
  /\ me \in [Procs -> Local]

Init ==
  /\ file = EmptyStorage
  /\ lock = None
  /\ status = [r \in Runs |-> "none"]
  /\ home = [r \in Runs |-> None]
  /\ agent = [r \in Runs |-> None]
  /\ pc = [p \in Procs |-> "idle"]
  /\ me = [p \in Procs |-> Idle]

-----------------------------------------------------------------------------
(* Outcomes of the calls that can fail, each under its fault. *)

Loads == {file} \cup IF "load" \in Faults THEN {LoadFailed} ELSE {}
Saves(m) == {m} \cup IF "save" \in Faults THEN {file} ELSE {}
Tokens(r) == {r} \cup IF "api" \in Faults THEN {None} ELSE {}

(***************************************************************************)
(* GetSandboxConnectionInfo: "ready" is Sandboxable, "starting" neither    *)
(* sandboxable nor completed, "ended" completed and not sandboxable (a     *)
(* ready sandbox reports Completed too).  A run asked to stop still looks  *)
(* alive for a while; a token of another run is refused.                   *)
(***************************************************************************)
Answers(r, t) ==
  IF t \notin {None, r} THEN {"error"}
  ELSE (CASE status[r] = "ending" -> {"starting", "ready"}
          [] status[r] \in {"ended", "none"} -> {"ended", "error"}
          [] OTHER -> {status[r]})
       \cup IF "api" \in Faults THEN {"error"} ELSE {}

(* Faulty: a ready sandbox, which reports Completed, taken for an ended one. *)
AliveUnlessCompleted(a) == a = "starting"
Alive(a) == a \in {"starting", "ready"}

(* After __rwx_sandbox_end__ or CancelRun; either is lost under "api". *)
Stopped(r) ==
  LET told == IF status[r] \in {"starting", "ready"}
                THEN [status EXCEPT ![r] = "ending"] ELSE status
  IN  {told} \cup IF "api" \in Faults THEN {status} ELSE {}

-----------------------------------------------------------------------------
(* Steps of one process. *)

Goto(p, l, loc) == pc' = [pc EXCEPT ![p] = l] /\ me' = [me EXCEPT ![p] = loc]
Finish(p) == Goto(p, "idle", Idle)
Unlock(p) == lock' = IF lock = p THEN None ELSE lock
Away(loc) == [loc EXCEPT !.mem = NotLoaded, !.cand = {}, !.at = None, !.flag = FALSE]

At(p, l) == pc[p] = l /\ (l \in Critical => me[p].mem # NotLoaded)
Loaded(p) == me[p].mem # LoadFailed

(* A command given a branch and a definition, or only a branch (flag FALSE). *)
Begin(p) ==
  /\ pc[p] = "idle"
  /\ \E op \in Commands \ {"attach", "execId", "pushId", "stopId"}, k \in Keys, named \in BOOLEAN :
       /\ named \/ (op \in {"exec", "execReset", "push"} /\ ConfigOf(k) = DefaultConfig)
       /\ Goto(p, CASE op = "start" -> "check"
                    [] op \in {"exec", "execReset", "push"} -> "select"
                    [] op \in {"stop", "stopAll"} -> "stop"
                    [] op = "reset" -> "reset"
                    [] op = "list" -> "list",
               [Idle EXCEPT !.op = op, !.key = k, !.flag = named])
  /\ UNCHANGED <<file, lock, server, agent>>

(* --id of start, exec and push: the token is looked up without the lock. *)
BeginWithRun(p) ==
  /\ pc[p] = "idle"
  /\ \E op \in Commands \cap {"attach", "execId", "pushId"}, r \in Runs, m \in Loads, k \in Keys \cup {None} :
       /\ status[r] # "none"
       /\ op = "attach" => k # None
       /\ LET found == IF m = LoadFailed THEN {} ELSE KeysOfRun(m, r)
          IN  \E s \in IF found = {} THEN {NoSession} ELSE {m[j] : j \in found} :
                Goto(p, IF op = "attach" THEN "reattach"
                        ELSE IF op = "execId" /\ s.used /\ ~s.nag THEN "saveNag" ELSE "waitReady",
                     [Idle EXCEPT !.op = op, !.key = k, !.run = r, !.tok = s.tok,
                                  !.flag = (found # {} \/ m = LoadFailed)])
  /\ UNCHANGED <<file, lock, server, agent>>

BeginStopRun(p) ==
  /\ pc[p] = "idle"
  /\ "stopId" \in Commands
  /\ \E r \in Runs : status[r] # "none" /\ Goto(p, "stop", [Idle EXCEPT !.op = "stopId", !.run = r])
  /\ UNCHANGED <<file, lock, server, agent>>

(* lockSandboxStorageWithInfo, or the caller's lock, then LoadSandboxStorage. *)
Acquire(p) ==
  /\ pc[p] \in Critical
  /\ me[p].mem = NotLoaded
  /\ lock \in {None, p}
  /\ lock' = p
  /\ \E m \in Loads : me' = [me EXCEPT ![p].mem = m]
  /\ UNCHANGED <<file, server, agent, pc>>

(* Some sections go on without the lock, the others give up or are skipped. *)
LockFails(p) ==
  /\ "lock" \in Faults
  /\ pc[p] \in Critical
  /\ me[p].mem = NotLoaded
  /\ lock # p
  /\ CASE pc[p] \in {"persist", "saveToken", "reset"} ->
            \E m \in Loads : Goto(p, pc[p], [me[p] EXCEPT !.mem = m])
       [] pc[p] \in {"check", "select", "list", "saveAttach"} -> Finish(p)
       [] pc[p] = "stop" ->
            IF me[p].op = "start" THEN Goto(p, "initiate", me[p]) ELSE Finish(p)
       [] pc[p] = "saveNag" -> Goto(p, "waitReady", me[p])
       [] pc[p] \in {"saveUsed", "cleanup"} -> Goto(p, "release", me[p])
  /\ UNCHANGED <<file, lock, server, agent>>

-----------------------------------------------------------------------------
(* start: CheckExistingSandbox, then the user's choice. *)

Check(p) ==
  /\ At(p, "check")
  /\ IF Loaded(p)
       THEN \E found \in Lookup(me[p].mem, me[p].key) :
              /\ file' \in IF found[1] = me[p].mem THEN {file} ELSE Saves(found[1])
              /\ Goto(p, IF found[2] = NoSession THEN "initiate" ELSE "active",
                      [Away(me[p]) EXCEPT !.run = found[2].run, !.tok = found[2].tok])
       ELSE Goto(p, "initiate", Away(me[p])) /\ UNCHANGED file
  /\ Unlock(p)
  /\ UNCHANGED <<server, agent>>

(* Not active: a new run.  Active: keep it, or stop it by its run ID first. *)
CheckActive(p) ==
  /\ At(p, "active")
  /\ \E a \in Answers(me[p].run, me[p].tok) :
       \/ ~Alive(a) /\ Goto(p, "initiate", me[p])
       \/ Alive(a) /\ Finish(p)
       \/ Alive(a) /\ Goto(p, "stop", me[p])
  /\ UNCHANGED <<file, lock, server, agent>>

-----------------------------------------------------------------------------
(* exec and the operations on an existing sandbox: prepareSandboxOperation. *)

(* The sessions of the key, or of the branch when no definition is named. *)
Select(p) ==
  /\ At(p, "select")
  /\ LET m == IF Loaded(p) THEN me[p].mem ELSE EmptyStorage
         k == me[p].key
     IN  \E found \in IF me[p].flag
                        THEN {<<l[1], IF l[2] = NoSession THEN {} ELSE {<<k, l[2]>>}>> :
                                l \in Lookup(m, k)}
                        ELSE LookupBranch(m, BranchOf(k)) :
           /\ file' \in IF found[1] = m THEN {file} ELSE Saves(found[1])
           /\ Goto(p, "prune", [me[p] EXCEPT !.mem = found[1], !.cand = found[2], !.flag = FALSE])
  /\ UNCHANGED <<lock, server, agent>>

(* Sessions whose run is not reported alive are dropped and the rest kept. *)
Prune(p) ==
  /\ At(p, "prune")
  /\ \E dead \in SUBSET me[p].cand :
       /\ \A c \in me[p].cand :
            \E a \in Answers(c[2].run, c[2].tok) : Alive(a) <=> c \notin dead
       /\ LET kept == DeleteSessions(me[p].mem, {c[1] : c \in dead})
          IN  /\ file' \in IF dead = {} THEN {file} ELSE Saves(kept)
              /\ Goto(p, "resolved", [me[p] EXCEPT !.mem = kept, !.cand = @ \ dead])
  /\ UNCHANGED <<lock, server, agent>>

Chosen(p) == {c \in me[p].cand : c[1] = me[p].key}

(* Faulty: the branch that reuses a sandbox forgets to unlock. *)
ReuseKeepsLock(p) ==
  /\ At(p, "resolved")
  /\ me[p].op \in {"exec", "push"}
  /\ \E c \in Chosen(p) :
       Goto(p, "waitReady", [Away(me[p]) EXCEPT !.run = c[2].run, !.tok = c[2].tok])
  /\ UNCHANGED <<file, lock, server, agent>>

(* The lock goes as soon as a run is chosen; the agent serialises from here. *)
Reuse(p) ==
  /\ At(p, "resolved")
  /\ me[p].op \in {"exec", "push"}
  /\ \E c \in Chosen(p) :
       Goto(p, IF me[p].op = "exec" /\ c[2].used /\ ~c[2].nag THEN "saveNag" ELSE "waitReady",
            [Away(me[p]) EXCEPT !.run = c[2].run, !.tok = c[2].tok])
  /\ Unlock(p)
  /\ UNCHANGED <<file, server, agent>>

(* RequireExisting with nothing to use. *)
NothingToUse(p) ==
  /\ At(p, "resolved")
  /\ me[p].op = "push"
  /\ Chosen(p) = {}
  /\ Finish(p)
  /\ Unlock(p)
  /\ UNCHANGED <<file, server, agent>>

ReplaceChosen(p) ==
  /\ At(p, "resolved")
  /\ me[p].op = "execReset"
  /\ \E c \in Chosen(p) : Goto(p, "stopping", [me[p] EXCEPT !.cand = {c}])
  /\ UNCHANGED <<file, lock, server, agent>>

(* Faulty: unlock before StartSandbox, which then locks again to persist. *)
CreateMissingUnlocked(p) ==
  /\ At(p, "resolved")
  /\ me[p].op \in {"exec", "execReset"}
  /\ Chosen(p) = {}
  /\ Goto(p, "initiate", Away(me[p]))
  /\ Unlock(p)
  /\ UNCHANGED <<file, server, agent>>

(* The lock is handed to StartSandbox: check, create and persist are one. *)
CreateMissing(p) ==
  /\ At(p, "resolved")
  /\ me[p].op \in {"exec", "execReset"}
  /\ Chosen(p) = {}
  /\ Goto(p, "initiate", Away(me[p]))
  /\ UNCHANGED <<file, lock, server, agent>>

-----------------------------------------------------------------------------
(* StartSandbox: create the run, persist its session, then add a token. *)

Initiate(p) ==
  /\ At(p, "initiate")
  /\ \E r \in Runs :
       /\ status[r] = "none"
       /\ status' = [status EXCEPT ![r] = "starting"]
       /\ home' = [home EXCEPT ![r] = me[p].key]
       /\ Goto(p, "persist", [Away(me[p]) EXCEPT !.run = r, !.tok = None])
  /\ UNCHANGED <<file, lock, agent>>

InitiateFails(p) ==
  /\ At(p, "initiate")
  /\ Unlock(p)
  /\ Finish(p)
  /\ UNCHANGED <<file, server, agent>>

Persist(p) ==
  /\ At(p, "persist")
  /\ IF Loaded(p)
       THEN file' \in Saves(SetSession(me[p].mem, me[p].key, NewSession(me[p].run, None)))
       ELSE UNCHANGED file
  /\ Goto(p, "token", [Away(me[p]) EXCEPT !.flag = Loaded(p)])
  /\ Unlock(p)
  /\ UNCHANGED <<server, agent>>

AfterStart(p, loc) ==
  IF loc.op \in {"exec", "execReset"} THEN Goto(p, "reread", Away(loc)) ELSE Finish(p)

(* CreateSandboxToken, with the lock released; skipped over if load failed. *)
RequestToken(p) ==
  /\ At(p, "token")
  /\ \E t \in Tokens(me[p].run) :
       IF me[p].flag THEN Goto(p, "saveToken", [Away(me[p]) EXCEPT !.tok = t])
                     ELSE AfterStart(p, me[p])
  /\ UNCHANGED <<file, lock, server, agent>>

(* Faulty: only the token of whatever session is at the key by then is set. *)
SaveTokenOnly(p) ==
  /\ At(p, "saveToken")
  /\ IF Loaded(p)
       THEN file' \in Saves([me[p].mem EXCEPT ![me[p].key].tok = me[p].tok])
       ELSE UNCHANGED file
  /\ AfterStart(p, me[p])
  /\ Unlock(p)
  /\ UNCHANGED <<server, agent>>

(* The session is written whole again, whatever the reloaded file holds. *)
SaveToken(p) ==
  /\ At(p, "saveToken")
  /\ IF Loaded(p)
       THEN file' \in Saves(SetSession(me[p].mem, me[p].key, NewSession(me[p].run, me[p].tok)))
       ELSE UNCHANGED file
  /\ AfterStart(p, me[p])
  /\ Unlock(p)
  /\ UNCHANGED <<server, agent>>

(* exec reads the token of the new session back, without the lock. *)
RereadToken(p) ==
  /\ At(p, "reread")
  /\ \E m \in Loads :
       Goto(p, "waitReady",
            [me[p] EXCEPT !.tok = IF m = LoadFailed THEN None ELSE m[me[p].key].tok])
  /\ UNCHANGED <<file, lock, server, agent>>

-----------------------------------------------------------------------------
(* start --id: reattach to a run, recording it if it was not recorded. *)

Reattach(p) ==
  /\ At(p, "reattach")
  /\ \E a \in Answers(me[p].run, me[p].tok), t \in Tokens(me[p].run) :
       IF Alive(a) /\ ~me[p].flag THEN Goto(p, "saveAttach", [me[p] EXCEPT !.tok = t])
                                  ELSE Finish(p)
  /\ UNCHANGED <<file, lock, server, agent>>

(* Faulty: the run is replaced in the session found, its token left alone. *)
SaveAttachRunOnly(p) ==
  /\ At(p, "saveAttach")
  /\ IF Loaded(p)
       THEN file' \in Saves([me[p].mem EXCEPT ![me[p].key].run = me[p].run])
       ELSE UNCHANGED file
  /\ Unlock(p)
  /\ Finish(p)
  /\ UNCHANGED <<server, agent>>

SaveAttach(p) ==
  /\ At(p, "saveAttach")
  /\ IF Loaded(p)
       THEN file' \in Saves(SetSession(me[p].mem, me[p].key, NewSession(me[p].run, me[p].tok)))
       ELSE UNCHANGED file
  /\ Unlock(p)
  /\ Finish(p)
  /\ UNCHANGED <<server, agent>>

-----------------------------------------------------------------------------
(* Using the sandbox: wait until it is ready, take its lock, operate. *)

(* Rewrites of one session that the process finds at its key by then. *)
Rewrite(p, s) ==
  IF Loaded(p) /\ me[p].key # None /\ Has(me[p].mem, me[p].key)
    THEN Saves(SetSession(me[p].mem, me[p].key, s)) ELSE {file}

SaveNag(p) ==
  /\ At(p, "saveNag")
  /\ file' \in Rewrite(p, [me[p].mem[me[p].key] EXCEPT !.nag = TRUE])
  /\ Goto(p, "waitReady", Away(me[p]))
  /\ Unlock(p)
  /\ UNCHANGED <<server, agent>>

(* waitForSandboxReady polls without a deadline; connecting may then fail. *)
WaitReady(p) ==
  /\ At(p, "waitReady")
  /\ \E a \in Answers(me[p].run, me[p].tok) :
       \/ a = "ready" /\ Goto(p, "agent", me[p])
       \/ a # "starting" /\ Finish(p)
  /\ UNCHANGED <<file, lock, server, agent>>

LockAgent(p) ==
  /\ At(p, "agent")
  /\ agent[me[p].run] = None
  /\ status[me[p].run] # "ended"
  /\ agent' = [agent EXCEPT ![me[p].run] = p]
  /\ Goto(p, "operate", me[p])
  /\ UNCHANGED <<file, lock, server>>

LockAgentFails(p) ==
  /\ At(p, "agent")
  /\ status[me[p].run] = "ended"
  /\ Finish(p)
  /\ UNCHANGED <<file, lock, server, agent>>

(* Sync, run the command, pull the changes: all succeed, or one fails. *)
Operate(p) ==
  /\ At(p, "operate")
  /\ \/ /\ status[me[p].run] # "ended"
        /\ Goto(p, IF me[p].op \in {"push", "pushId"} THEN "release" ELSE "saveUsed", me[p])
     \/ Goto(p, "release", me[p])
  /\ UNCHANGED <<file, lock, server, agent>>

(* ErrSandboxNoGitDir: end the sandbox and forget its session. *)
OperateNoGitDir(p) ==
  /\ At(p, "operate")
  /\ status' \in Stopped(me[p].run)
  /\ Goto(p, "cleanup", me[p])
  /\ UNCHANGED <<file, lock, home, agent>>

Cleanup(p) ==
  /\ At(p, "cleanup")
  /\ LET mine == IF Loaded(p) THEN KeysOfRun(me[p].mem, me[p].run) ELSE {}
     IN  \/ mine = {} /\ file' \in IF Loaded(p) THEN Saves(me[p].mem) ELSE {file}
         \/ \E k \in mine : file' \in Saves(DeleteSessions(me[p].mem, {k}))
  /\ Goto(p, "release", Away(me[p]))
  /\ Unlock(p)
  /\ UNCHANGED <<server, agent>>

(* Faulty: the session is rebuilt from what the process knows of it. *)
SaveUsedRebuilt(p) ==
  /\ At(p, "saveUsed")
  /\ file' \in Rewrite(p, [NewSession(me[p].run, me[p].tok) EXCEPT !.used = TRUE])
  /\ Goto(p, "release", Away(me[p]))
  /\ Unlock(p)
  /\ UNCHANGED <<server, agent>>

SaveUsed(p) ==
  /\ At(p, "saveUsed")
  /\ file' \in Rewrite(p, [me[p].mem[me[p].key] EXCEPT !.used = TRUE])
  /\ Goto(p, "release", Away(me[p]))
  /\ Unlock(p)
  /\ UNCHANGED <<server, agent>>

(* Faulty: the agent is never told that the operation is over. *)
ReleasedNever(p) == agent
Released(p) == [r \in Runs |-> IF agent[r] = p THEN None ELSE agent[r]]

Release(p) ==
  /\ At(p, "release")
  /\ agent' = Released(p)
  /\ Finish(p)
  /\ UNCHANGED <<file, lock, server>>

-----------------------------------------------------------------------------
(* stop, reset and exec --reset: end runs and forget them, lock held. *)

PickStops(p) ==
  /\ At(p, "stop")
  /\ LET m == me[p].mem
         byRun == {<<m, {<<k, m[k]>>}>> : k \in KeysOfRun(m, me[p].run)}
         found == IF ~Loaded(p) THEN {}
                  ELSE CASE me[p].op = "stopAll" ->
                              {<<m, {<<k, m[k]>> : k \in {j \in Keys : Has(m, j)}}>>}
                         [] me[p].op = "stop" ->
                              {l \in LookupBranch(m, BranchOf(me[p].key)) : l[2] # {}}
                         [] OTHER -> byRun
     IN  \/ \E f \in found :
              /\ file' \in IF f[1] = m THEN {file} ELSE Saves(f[1])
              /\ Goto(p, "stopping", [me[p] EXCEPT !.mem = f[1], !.cand = f[2]])
              /\ UNCHANGED lock
         \/ /\ found = {}
            /\ IF me[p].op = "start" THEN Goto(p, "initiate", Away(me[p])) ELSE Finish(p)
            /\ Unlock(p)
            /\ UNCHANGED file
  /\ UNCHANGED <<server, agent>>

(* ResetSandbox's lookup; a re-keyed session is saved when it is deleted. *)
PickReset(p) ==
  /\ At(p, "reset")
  /\ LET found == IF Loaded(p) THEN Lookup(me[p].mem, me[p].key) ELSE {<<EmptyStorage, NoSession>>}
     IN  \E f \in found :
           IF f[2] = NoSession
             THEN Goto(p, "initiate", Away(me[p]))
             ELSE Goto(p, "stopping", [me[p] EXCEPT !.mem = f[1], !.cand = {<<me[p].key, f[2]>>}])
  /\ UNCHANGED <<file, lock, server, agent>>

Dropped(p, c) ==
  [me[p] EXCEPT !.mem = DeleteSessions(@, {c[1]}), !.cand = @ \ {c}, !.at = None, !.run = None]

(* A run reported alive is told to stop and waited for, any other forgotten. *)
StopOne(p) ==
  /\ At(p, "stopping")
  /\ \E c \in me[p].cand : \E a \in Answers(c[2].run, c[2].tok) :
       LET waiting == [me[p] EXCEPT !.at = c[1], !.run = c[2].run, !.tok = c[2].tok]
       IN  IF Alive(a) THEN status' \in Stopped(c[2].run) /\ Goto(p, "stopWait", waiting)
           ELSE /\ UNCHANGED status
                /\ IF me[p].op = "execReset" THEN Goto(p, "stopWait", waiting)
                                             ELSE Goto(p, "stopping", Dropped(p, c))
  /\ UNCHANGED <<file, lock, home, agent>>

(* waitForSandboxCompletion: until the run is not alive, at most 30 seconds. *)
StopWaited(p) ==
  /\ At(p, "stopWait")
  /\ \/ \E a \in Answers(me[p].run, me[p].tok) : ~Alive(a)
     \/ "timeout" \in Faults
  /\ \E c \in me[p].cand :
       /\ c[1] = me[p].at /\ c[2].run = me[p].run
       /\ Goto(p, "stopping", Dropped(p, c))
  /\ UNCHANGED <<file, lock, server, agent>>

(* Reset keeps the lock into StartSandbox, so nobody slips in between. *)
StopsSaved(p) ==
  /\ At(p, "stopping")
  /\ me[p].cand = {}
  /\ file' \in Saves(me[p].mem)
  /\ IF me[p].op \in {"reset", "execReset"}
       THEN Goto(p, "initiate", Away(me[p])) /\ UNCHANGED lock
       ELSE /\ IF me[p].op = "start" THEN Goto(p, "initiate", Away(me[p])) ELSE Finish(p)
            /\ Unlock(p)
  /\ UNCHANGED <<server, agent>>

-----------------------------------------------------------------------------
(* list: adopt the server's runs whose key is free, then prune. *)

Adopted(m, listed) ==
  {[k \in Keys |-> IF ~Has(m, k) /\ f[k] # None THEN NewSession(f[k], None) ELSE m[k]] :
     f \in {g \in [Keys -> listed \cup {None}] :
              \A k \in Keys : IF \E r \in listed : home[r] = k
                                THEN g[k] # None /\ home[g[k]] = k ELSE g[k] = None}}

(* ListSandboxRuns may leave out runs that are still initialising. *)
List(p) ==
  /\ At(p, "list")
  /\ Loaded(p)
  /\ \E listed \in SUBSET {r \in Runs : status[r] \in {"starting", "ready", "ending"}} :
       /\ \A r \in Runs : status[r] = "ready" => r \in listed
       /\ \E m \in Adopted(me[p].mem, listed) :
          \E gone \in SUBSET {k \in Keys : Has(m, k) /\ m[k].run \notin listed} :
            /\ \A k \in Keys : Has(m, k) /\ m[k].run \notin listed =>
                 \E a \in Answers(m[k].run, m[k].tok) : Alive(a) <=> k \notin gone
            /\ file' \in IF gone = {} /\ m = me[p].mem THEN {file}
                         ELSE Saves(DeleteSessions(m, gone))
  /\ Unlock(p)
  /\ Finish(p)
  /\ UNCHANGED <<server, agent>>

(* Faulty: an early return of list leaves the storage locked. *)
ListFailsLocked(p) ==
  /\ At(p, "list")
  /\ ~Loaded(p) \/ "api" \in Faults
  /\ Finish(p)
  /\ UNCHANGED <<file, lock, server, agent>>

ListFails(p) ==
  /\ At(p, "list")
  /\ ~Loaded(p) \/ "api" \in Faults
  /\ Unlock(p)
  /\ Finish(p)
  /\ UNCHANGED <<file, server, agent>>

-----------------------------------------------------------------------------
(* Around the processes. *)

(* The kernel drops a dead process's file lock, the agent its connection. *)
Crash(p) ==
  /\ "crash" \in Faults
  /\ pc[p] # "idle"
  /\ Unlock(p)
  /\ agent' = Released(p)
  /\ Finish(p)
  /\ UNCHANGED <<file, server>>

RunReady(r) ==
  /\ status[r] = "starting"
  /\ status' = [status EXCEPT ![r] = "ready"]
  /\ UNCHANGED <<file, lock, home, agent, pc, me>>

(* After a stop, or on its own: setup failed, timed out, cancelled elsewhere. *)
RunEnds(r) ==
  /\ status[r] = "ending" \/ ("expire" \in Faults /\ status[r] \in {"starting", "ready"})
  /\ status' = [status EXCEPT ![r] = "ended"]
  /\ agent' = [agent EXCEPT ![r] = None]
  /\ UNCHANGED <<file, lock, home, pc, me>>

Step(p) ==
  \/ LockFails(p)
  \/ Check(p) \/ CheckActive(p)
  \/ Select(p) \/ Prune(p) \/ Reuse(p) \/ NothingToUse(p) \/ ReplaceChosen(p) \/ CreateMissing(p)
  \/ Initiate(p) \/ InitiateFails(p) \/ Persist(p) \/ RequestToken(p) \/ SaveToken(p)
  \/ RereadToken(p) \/ Reattach(p) \/ SaveAttach(p)
  \/ SaveNag(p) \/ WaitReady(p) \/ LockAgentFails(p) \/ Operate(p) \/ OperateNoGitDir(p)
  \/ Cleanup(p) \/ SaveUsed(p) \/ Release(p)
  \/ PickStops(p) \/ PickReset(p) \/ StopOne(p) \/ StopWaited(p) \/ StopsSaved(p)
  \/ List(p) \/ ListFails(p)

Next ==
  \/ \E p \in Procs : Begin(p) \/ BeginWithRun(p) \/ BeginStopRun(p)
  \/ \E p \in Procs : Acquire(p) \/ LockAgent(p) \/ Step(p) \/ Crash(p)
  \/ \E r \in Runs : RunReady(r) \/ RunEnds(r)

Spec == Init /\ [][Next]_vars

(***************************************************************************)
(* A blocked flock waiter is woken in turn by the kernel and the agent     *)
(* grants its lock in turn (strong fairness); a process that can go on     *)
(* does, remote commands included; the server starts and stops runs.       *)
(***************************************************************************)
Fairness ==
  /\ \A p \in Procs : WF_vars(Step(p)) /\ SF_vars(Acquire(p)) /\ SF_vars(LockAgent(p))
  /\ \A r \in Runs : WF_vars(RunReady(r)) /\ WF_vars(status[r] = "ending" /\ RunEnds(r))

FairSpec == Spec /\ Fairness

-----------------------------------------------------------------------------
(* Properties. *)

(* A recorded scoped token gives access to the run recorded beside it: the
   late token update and the other writes of a key never mix two runs. *)
TokenScope == \A k \in Keys : file[k].tok \in {None, file[k].run}

(* A process that waits for a run to become ready, for the agent's lock, for
   its command or a token, or that is done, does not hold the storage lock:
   every early return unlocks, and no lock cycle with the agent can form. *)
StorageLockIsShort ==
  \A p \in Procs : lock = p =>
    pc[p] \in Critical \cup {"prune", "resolved", "stopping", "stopWait", "initiate"}

(* "no session found -> create new sandbox -> persist session" is atomic for
   exec and reset (service_sandbox.go:1402): while one creates a run for a
   key, no session is recorded there and nobody else creates one for it. *)
Creating(p) == me[p].op \in {"exec", "execReset", "reset"} /\ pc[p] \in {"initiate", "persist"}
CheckThenCreateAtomic ==
  \A p \in Procs : Creating(p) =>
    /\ ~Has(file, me[p].key)
    /\ \A q \in Procs \ {p} : ~(Creating(q) /\ me[q].key = me[p].key)

(* A run nobody asked to stop stays recorded, so that later commands find it.
   Only what StartSandbox decided to write before it took the lock can drop
   one: the session of a plain start, the token update, a reattached run. *)
LateWrite ==
  \E p \in Procs : /\ pc'[p] # pc[p]
                   /\ \/ pc[p] \in {"saveToken", "saveAttach"}
                      \/ pc[p] = "persist" /\ me[p].op = "start"
ForgetsNoLiveRun ==
  \A r \in RunsIn(file) \ RunsIn(file') : status[r] \notin {"starting", "ready"}
LiveRunStaysRecorded == [][LateWrite \/ ForgetsNoLiveRun]_vars

(* While a key keeps its run, what other processes recorded about it (token,
   exec count, hint shown) is not lost, again but for the late writes. *)
KeepsProgress ==
  \A k \in Keys : Has(file, k) /\ file'[k].run = file[k].run =>
    /\ file[k].tok # None => file'[k].tok = file[k].tok
    /\ file[k].used => file'[k].used
    /\ file[k].nag => file'[k].nag
SessionProgressKept == [][LateWrite \/ KeepsProgress]_vars

(* Every command a user starts comes to an end. *)
CommandsFinish == \A p \in Procs : pc[p] # "idle" ~> pc[p] = "idle"

(* "Reload under lock to avoid overwriting concurrent writes": the token
   update replaces no more than the session its process persisted. *)
TokenUpdateOverwritesNothing ==
  [][\A p \in Procs : pc[p] = "saveToken" /\ file' # file =>
       file[me[p].key] = NewSession(me[p].run, None)]_vars

(* "Run 'rwx sandbox list' to recover an active sandbox": when list rewrites
   the file, the key of every ready run holds a run that has not ended. *)
ListRecoversActive ==
  [][\A p \in Procs : pc[p] = "list" /\ file' # file =>
       \A r \in Runs : status[r] = "ready" =>
         Has(file', home[r]) /\ status[file'[home[r]].run] # "ended"]_vars

=============================================================================
