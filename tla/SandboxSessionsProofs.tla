------------------------ MODULE SandboxSessionsProofs ------------------------
(***************************************************************************)
(* Proofs about SandboxSessions, for any number of processes, runs,        *)
(* branches and definitions.                                               *)
(***************************************************************************)
EXTENDS SandboxSessions, TLAPS

-----------------------------------------------------------------------------
(* The storage operations stay within Storage. *)

LEMMA NewSessionType ==
  ASSUME NEW r \in Runs \cup {None}, NEW t \in Runs \cup {None}
  PROVE  NewSession(r, t) \in Session
BY DEF NewSession, Session

LEMMA NoSessionType == NoSession \in Session
BY DEF NoSession, NewSession, Session

LEMMA SetSessionType ==
  ASSUME NEW m \in Storage, NEW k, NEW s \in Session
  PROVE  SetSession(m, k, s) \in Storage
BY DEF SetSession, Storage

LEMMA DeleteSessionsType ==
  ASSUME NEW m \in Storage, NEW K
  PROVE  DeleteSessions(m, K) \in Storage
BY NoSessionType DEF DeleteSessions, Storage

LEMMA EmptyStorageType == EmptyStorage \in Storage
BY NoSessionType DEF EmptyStorage, Storage

(* Every result of a lookup by key is a storage with a session. *)
LEMMA LookupType ==
  ASSUME NEW m \in Storage, NEW k \in Keys, NEW l \in Lookup(m, k)
  PROVE  l[1] \in Storage /\ l[2] \in Session
<1> DEFINE near == {a \in AncestorKeys(m, BranchOf(k)) : ConfigOf(a) = ConfigOf(k)}
<1>1. near \subseteq Keys
  BY DEF AncestorKeys
<1>2. CASE Has(m, k) \/ near = {}
  <2>1. l = <<m, m[k]>>
    BY <1>2 DEF Lookup
  <2> QED BY <2>1 DEF Storage
<1>3. CASE ~(Has(m, k) \/ near = {})
  <2>1. PICK a \in near : l = <<Rekeyed(m, a, k), m[a]>>
    BY <1>3 DEF Lookup
  <2>2. Rekeyed(m, a, k) \in Storage
    BY <1>1, SetSessionType, DeleteSessionsType DEF Rekeyed, Storage
  <2> QED BY <1>1, <2>1, <2>2 DEF Storage
<1> QED BY <1>2, <1>3

(* Every result of a lookup by branch is a storage with keyed sessions. *)
LEMMA LookupBranchType ==
  ASSUME NEW m \in Storage, NEW b \in Branches, NEW l \in LookupBranch(m, b)
  PROVE  l[1] \in Storage /\ l[2] \in SUBSET (Keys \X Session)
<1> DEFINE near == AncestorKeys(m, b)
           now(a) == <<b, ConfigOf(a)>>
           last == {f \in [Configs -> near] :
                      \A c \in Configs : (\E a \in near : ConfigOf(a) = c) => ConfigOf(f[c]) = c}
           moved(f) == [k \in Keys |->
                          IF BranchOf(k) = b /\ (\E a \in near : ConfigOf(a) = ConfigOf(k))
                            THEN m[f[ConfigOf(k)]]
                          ELSE IF k \in near THEN NoSession ELSE m[k]]
<1>1. near \subseteq Keys
  BY DEF AncestorKeys
<1>2. SessionsForBranch(m, b) \in SUBSET (Keys \X Session)
  BY DEF SessionsForBranch, Storage
<1>3. CASE SessionsForBranch(m, b) # {} \/ near = {}
  <2>1. l = <<m, SessionsForBranch(m, b)>>
    BY <1>3 DEF LookupBranch
  <2> QED BY <1>2, <2>1
<1>4. CASE ~(SessionsForBranch(m, b) # {} \/ near = {})
  <2>1. PICK f \in last : l = <<moved(f), {<<now(a), m[a]>> : a \in near}>>
    BY <1>4 DEF LookupBranch
  <2>2. \A k \in Keys : ConfigOf(k) \in Configs
    BY DEF Keys, ConfigOf
  <2>3. \A k \in Keys : m[f[ConfigOf(k)]] \in Session
    BY <1>1, <2>2 DEF Storage
  <2>4. moved(f) \in Storage
    BY <2>3, NoSessionType DEF Storage
  <2>5. \A a \in near : now(a) \in Keys /\ m[a] \in Session
    BY <1>1, <2>2 DEF Keys, Storage
  <2> QED BY <2>1, <2>4, <2>5
<1> QED BY <1>3, <1>4

-----------------------------------------------------------------------------
(* Type correctness. *)

(***************************************************************************)
(* Type correctness needs to know that a command which looks up its key    *)
(* has one: exec, push and stop --id are the commands that may have none.  *)
(***************************************************************************)
Keyed == AllCommands \ {"execId", "pushId", "stopId"}
KeyedLabels == {"check", "active", "select", "prune", "resolved", "reset", "initiate",
                "persist", "token", "saveToken", "reread", "reattach", "saveAttach"}

(* Between the load and the save of one section, the storage is in memory. *)
WorkingLabels == {"prune", "resolved", "stopping", "stopWait"}

(* What one process may have as its label and locals. *)
Fits(l, loc) ==
  /\ l \in Labels
  /\ loc \in Local
  /\ loc.op \in Keyed => loc.key \in Keys
  /\ l \in KeyedLabels => loc.op \in Keyed
  /\ l \in WorkingLabels => loc.mem \in Storage

ProcsOK ==
  /\ pc \in [Procs -> Labels]
  /\ me \in [Procs -> Local]
  /\ \A p \in Procs : Fits(pc[p], me[p])

TypeInv == TypeOK /\ ProcsOK

LEMMA GotoFits ==
  ASSUME ProcsOK, NEW p \in Procs, NEW l, NEW loc, Fits(l, loc), Goto(p, l, loc)
  PROVE  ProcsOK'
BY DEF ProcsOK, Goto, Fits

LEMMA IdleType == Idle \in Local
BY DEF Idle, Local

LEMMA IdleFits == Fits("idle", Idle)
BY IdleType, NobodyAssumption DEF WorkingLabels, Fits, Idle, Labels, Keyed, KeyedLabels, AllCommands

LEMMA FinishFits ==
  ASSUME ProcsOK, NEW p \in Procs, Finish(p)
  PROVE  ProcsOK'
BY IdleFits, GotoFits DEF Finish

LEMMA AwayType ==
  ASSUME NEW loc \in Local
  PROVE  /\ Away(loc) \in Local
         /\ Away(loc).op = loc.op /\ Away(loc).key = loc.key
         /\ Away(loc).run = loc.run /\ Away(loc).tok = loc.tok
BY DEF Away, Local

LEMMA LoadsType ==
  ASSUME TypeOK
  PROVE  Loads \subseteq Storage \cup {LoadFailed}
BY DEF TypeOK, Loads

LEMMA SavesType ==
  ASSUME TypeOK, NEW m \in Storage, NEW f \in Saves(m)
  PROVE  f \in Storage
BY DEF TypeOK, Saves

LEMMA UnlockType ==
  ASSUME TypeOK, NEW p \in Procs, Unlock(p)
  PROVE  lock' \in Procs \cup {None}
BY DEF TypeOK, Unlock

LEMMA StoppedType ==
  ASSUME TypeOK, NEW r, NEW s \in Stopped(r)
  PROVE  s \in [Runs -> {"none", "starting", "ready", "ending", "ended"}]
BY DEF TypeOK, Stopped

(* The storage a process has loaded is of its type wherever it is used. *)
LEMMA LoadedType ==
  ASSUME TypeOK, NEW p \in Procs, me[p].mem # NotLoaded, Loaded(p)
  PROVE  me[p].mem \in Storage
BY DEF TypeOK, Local, Loaded

LEMMA InitTypeInv == Init => TypeInv
BY IdleFits, EmptyStorageType DEF Init, TypeInv, TypeOK, ProcsOK, Fits

(* Each kind of process step keeps the type invariant. *)
LEMMA BeginType ==
  ASSUME TypeInv, NEW p \in Procs, Begin(p) \/ BeginWithRun(p) \/ BeginStopRun(p)
  PROVE  TypeInv'
<1>1. CASE Begin(p)
  <2>1. PICK op \in Commands \ {"attach", "execId", "pushId", "stopId"}, k \in Keys, named \in BOOLEAN :
          Goto(p, CASE op = "start" -> "check"
                    [] op \in {"exec", "execReset", "push"} -> "select"
                    [] op \in {"stop", "stopAll"} -> "stop"
                    [] op = "reset" -> "reset"
                    [] op = "list" -> "list",
               [Idle EXCEPT !.op = op, !.key = k, !.flag = named])
    BY <1>1 DEF Begin
  <2> DEFINE loc == [Idle EXCEPT !.op = op, !.key = k, !.flag = named]
  <2>2. op \in {"start", "exec", "execReset", "push", "stop", "stopAll", "reset", "list"}
    BY CommandsAssumption DEF AllCommands
  <2>3. loc \in Local /\ loc.op = op /\ loc.key = k /\ op \in Keyed
    BY <2>2 DEF Local, Idle, Keyed, AllCommands
  <2>4. \A l \in {"check", "select", "stop", "reset", "list"} : Fits(l, loc)
    BY <2>3 DEF WorkingLabels, Fits, Labels, Critical
  <2>5. ProcsOK'
    BY <2>1, <2>2, <2>4, GotoFits DEF TypeInv
  <2> QED BY <1>1, <2>5 DEF TypeInv, TypeOK, ProcsOK, Begin, server
<1>2. CASE BeginWithRun(p)
  <2>1. PICK op \in Commands \cap {"attach", "execId", "pushId"}, r \in Runs,
             m \in Loads, k \in Keys \cup {None} :
          /\ op = "attach" => k # None
          /\ LET found == IF m = LoadFailed THEN {} ELSE KeysOfRun(m, r)
             IN  \E s \in IF found = {} THEN {NoSession} ELSE {m[j] : j \in found} :
                   Goto(p, IF op = "attach" THEN "reattach"
                           ELSE IF op = "execId" /\ s.used /\ ~s.nag THEN "saveNag" ELSE "waitReady",
                        [Idle EXCEPT !.op = op, !.key = k, !.run = r, !.tok = s.tok,
                                     !.flag = (found # {} \/ m = LoadFailed)])
    BY <1>2, ZenonT(60) DEF BeginWithRun
  <2> DEFINE found == IF m = LoadFailed THEN {} ELSE KeysOfRun(m, r)
  <2>2. PICK s \in IF found = {} THEN {NoSession} ELSE {m[j] : j \in found} :
          Goto(p, IF op = "attach" THEN "reattach"
                  ELSE IF op = "execId" /\ s.used /\ ~s.nag THEN "saveNag" ELSE "waitReady",
               [Idle EXCEPT !.op = op, !.key = k, !.run = r, !.tok = s.tok,
                            !.flag = (found # {} \/ m = LoadFailed)])
    BY <2>1
  <2>3. m \in Storage \cup {LoadFailed} /\ found \subseteq Keys
    BY LoadsType DEF KeysOfRun, TypeInv
  <2>4. s \in Session
    BY <2>2, <2>3, NoSessionType DEF Storage
  <2> DEFINE loc == [Idle EXCEPT !.op = op, !.key = k, !.run = r, !.tok = s.tok,
                                 !.flag = (found # {} \/ m = LoadFailed)]
  <2>5. s.tok \in Runs \cup {None} /\ (found # {} \/ m = LoadFailed) \in BOOLEAN
    BY <2>4 DEF Session
  <2> HIDE DEF found
  <2>6. loc \in Local /\ loc.op = op /\ loc.key = k
    BY <2>5 DEF Local, Idle, AllCommands
  <2>7. Fits("waitReady", loc) /\ Fits("saveNag", loc) /\ (op = "attach" => Fits("reattach", loc))
    BY <2>1, <2>6 DEF WorkingLabels, Fits, Labels, Critical, KeyedLabels, Keyed, AllCommands
  <2>8. ProcsOK'
    BY <2>2, <2>7, GotoFits DEF TypeInv
  <2> QED BY <1>2, <2>8 DEF TypeInv, TypeOK, ProcsOK, BeginWithRun, server
<1>3. CASE BeginStopRun(p)
  <2>1. PICK r \in Runs : Goto(p, "stop", [Idle EXCEPT !.op = "stopId", !.run = r])
    BY <1>3 DEF BeginStopRun
  <2>2. Fits("stop", [Idle EXCEPT !.op = "stopId", !.run = r])
    BY DEF WorkingLabels, Fits, Labels, Critical, KeyedLabels, Keyed, AllCommands, Local, Idle
  <2>3. ProcsOK'
    BY <2>1, <2>2, GotoFits DEF TypeInv
  <2> QED BY <1>3, <2>3 DEF TypeInv, TypeOK, ProcsOK, BeginStopRun, server
<1> QED BY <1>1, <1>2, <1>3

(* A process that keeps its command and key fits any label that allows it. *)
LEMMA SameCommand ==
  ASSUME NEW l0, NEW loc0, Fits(l0, loc0),
         NEW l \in Labels, NEW loc \in Local,
         loc.op = loc0.op, loc.key = loc0.key,
         l \in KeyedLabels => loc0.op \in Keyed,
         l \in WorkingLabels => loc.mem \in Storage
  PROVE  Fits(l, loc)
BY DEF Fits

LEMMA AcquireType ==
  ASSUME TypeInv, NEW p \in Procs, Acquire(p) \/ LockFails(p)
  PROVE  TypeInv'
<1>0. me[p] \in Local /\ Fits(pc[p], me[p]) /\ pc[p] \in Labels
  BY DEF TypeInv, ProcsOK, Fits
<1>1. \A m \in Loads : [me[p] EXCEPT !.mem = m] \in Local
  BY <1>0, LoadsType DEF Local, TypeInv
<1>2. CASE Acquire(p)
  <2>1. PICK m \in Loads : me' = [me EXCEPT ![p].mem = m]
    BY <1>2 DEF Acquire
  <2>2. Goto(p, pc[p], [me[p] EXCEPT !.mem = m])
    BY <1>2, <2>1 DEF Acquire, Goto, TypeInv, ProcsOK
  <2>3. Fits(pc[p], [me[p] EXCEPT !.mem = m])
    BY <1>0, <1>1, <1>2 DEF Fits, Local, Critical, WorkingLabels, Acquire, LockFails
  <2>4. ProcsOK'
    BY <2>2, <2>3, GotoFits DEF TypeInv
  <2> QED BY <1>2, <2>4 DEF TypeInv, TypeOK, ProcsOK, Acquire, server
<1>3. CASE LockFails(p)
  <2>1. ProcsOK'
    <3>1. CASE pc[p] \in {"persist", "saveToken", "reset"}
      <4>1. PICK m \in Loads : Goto(p, pc[p], [me[p] EXCEPT !.mem = m])
        BY <1>3, <3>1 DEF LockFails
      <4>2. Fits(pc[p], [me[p] EXCEPT !.mem = m])
        BY <1>0, <1>1, <1>3 DEF Fits, Local, Critical, WorkingLabels, Acquire, LockFails
      <4> QED BY <4>1, <4>2, GotoFits DEF TypeInv
    <3>2. CASE pc[p] \in {"check", "select", "list", "saveAttach"}
      <4>1. Finish(p)
        BY <1>3, <3>2 DEF LockFails
      <4> QED BY <4>1, FinishFits DEF TypeInv
    <3>3. CASE pc[p] = "stop"
      <4>1. me[p].op = "start" => Fits("initiate", me[p])
        BY <1>0, SameCommand DEF WorkingLabels, Labels, Keyed, AllCommands
      <4>2. (me[p].op = "start" /\ Goto(p, "initiate", me[p])) \/ Finish(p)
        BY <1>3, <3>3 DEF LockFails
      <4> QED BY <4>1, <4>2, FinishFits, GotoFits DEF TypeInv
    <3>4. CASE pc[p] = "saveNag"
      <4>1. Fits("waitReady", me[p])
        BY <1>0, SameCommand DEF WorkingLabels, Labels, KeyedLabels
      <4>2. Goto(p, "waitReady", me[p])
        BY <1>3, <3>4 DEF LockFails
      <4> QED BY <4>1, <4>2, GotoFits DEF TypeInv
    <3>5. CASE pc[p] \in {"saveUsed", "cleanup"}
      <4>1. Fits("release", me[p])
        BY <1>0, SameCommand DEF WorkingLabels, Labels, KeyedLabels
      <4>2. Goto(p, "release", me[p])
        BY <1>3, <3>5 DEF LockFails
      <4> QED BY <4>1, <4>2, GotoFits DEF TypeInv
    <3> QED BY <1>3, <3>1, <3>2, <3>3, <3>4, <3>5 DEF LockFails, Critical
  <2> QED BY <1>3, <2>1 DEF TypeInv, TypeOK, ProcsOK, LockFails, server
<1> QED BY <1>2, <1>3

(* start's check of an existing sandbox. *)
LEMMA CheckType ==
  ASSUME TypeInv, NEW p \in Procs, Check(p) \/ CheckActive(p)
  PROVE  TypeInv'
<1>0. me[p] \in Local /\ Fits(pc[p], me[p])
  BY DEF TypeInv, ProcsOK, Fits
<1>1. CASE Check(p)
  <2>0. me[p].op \in Keyed /\ me[p].key \in Keys /\ me[p].mem # NotLoaded
    BY <1>0, <1>1 DEF Check, At, Fits, KeyedLabels, Critical
  <2>1. lock' \in Procs \cup {None}
    BY <1>1, UnlockType DEF Check, TypeInv
  <2>2. CASE Loaded(p)
    <3>1. PICK found \in Lookup(me[p].mem, me[p].key) :
            /\ file' \in IF found[1] = me[p].mem THEN {file} ELSE Saves(found[1])
            /\ Goto(p, IF found[2] = NoSession THEN "initiate" ELSE "active",
                    [Away(me[p]) EXCEPT !.run = found[2].run, !.tok = found[2].tok])
      BY <1>1, <2>2 DEF Check
    <3>2. found[1] \in Storage /\ found[2] \in Session
      BY <2>0, <2>2, LoadedType, LookupType DEF TypeInv
    <3>3. file' \in Storage
      BY <3>1, <3>2, SavesType DEF TypeInv, TypeOK
    <3> DEFINE loc == [Away(me[p]) EXCEPT !.run = found[2].run, !.tok = found[2].tok]
    <3>4. loc \in Local /\ loc.op = me[p].op /\ loc.key = me[p].key
      BY <1>0, <3>2, AwayType, ZenonT(30) DEF Local, Session
    <3>5. Fits("initiate", loc) /\ Fits("active", loc)
      BY <1>0, <2>0, <3>4 DEF WorkingLabels, Fits, Labels
    <3>6. ProcsOK'
      BY <3>1, <3>5, GotoFits DEF TypeInv
    <3> QED BY <1>1, <2>1, <3>3, <3>6 DEF TypeInv, TypeOK, ProcsOK, Check, server
  <2>3. CASE ~Loaded(p)
    <3>2. Fits("initiate", Away(me[p]))
      BY <1>0, <2>0, AwayType DEF WorkingLabels, Fits, Labels
    <3>3. ProcsOK' /\ file' = file
      BY <1>1, <2>3, <3>2, GotoFits DEF Check, TypeInv
    <3> QED BY <1>1, <2>1, <3>3 DEF TypeInv, TypeOK, ProcsOK, Check, server
  <2> QED BY <2>2, <2>3
<1>2. CASE CheckActive(p)
  <2>1. Fits("initiate", me[p]) /\ Fits("stop", me[p])
    BY <1>0, <1>2 DEF WorkingLabels, CheckActive, At, Fits, Labels, Critical, KeyedLabels
  <2>2. ProcsOK'
    BY <1>2, <2>1, GotoFits, FinishFits DEF CheckActive, TypeInv
  <2> QED BY <1>2, <2>2 DEF TypeInv, TypeOK, ProcsOK, CheckActive, server
<1> QED BY <1>1, <1>2

(* A step that changes only its process's label and locals. *)
LEMMA LocalStep ==
  ASSUME TypeInv, ProcsOK', UNCHANGED <<file, lock, server, agent>>
  PROVE  TypeInv'
BY DEF TypeInv, TypeOK, ProcsOK, server

(* A step that may also change the file and unlock. *)
LEMMA SavingStep ==
  ASSUME TypeInv, ProcsOK', file' \in Storage, lock' \in Procs \cup {None},
         UNCHANGED <<server, agent>>
  PROVE  TypeInv'
BY DEF TypeInv, TypeOK, ProcsOK, server

LEMMA SelectType ==
  ASSUME TypeInv, NEW p \in Procs,
         \/ Select(p) \/ Prune(p) \/ Reuse(p) \/ NothingToUse(p)
         \/ ReplaceChosen(p) \/ CreateMissing(p)
  PROVE  TypeInv'
<1>0. /\ me[p] \in Local /\ Fits(pc[p], me[p])
      /\ file \in Storage /\ lock \in Procs \cup {None}
  BY DEF TypeInv, TypeOK, ProcsOK, Fits
<1>k. ASSUME pc[p] \in KeyedLabels PROVE me[p].op \in Keyed /\ me[p].key \in Keys
  BY <1>0, <1>k DEF Fits
<1>c. me[p].cand \in SUBSET (Keys \X Session)
  BY <1>0 DEF Local
<1>1. CASE Select(p)
  <2> DEFINE m == IF Loaded(p) THEN me[p].mem ELSE EmptyStorage
             k == me[p].key
             choices == IF me[p].flag
                          THEN {<<l[1], IF l[2] = NoSession THEN {} ELSE {<<k, l[2]>>}>> : l \in Lookup(m, k)}
                          ELSE LookupBranch(m, BranchOf(k))
  <2>1. k \in Keys /\ BranchOf(k) \in Branches
    BY <1>1, <1>k DEF Select, At, KeyedLabels, Keys, BranchOf
  <2>2. m \in Storage
    BY <1>1, LoadedType, EmptyStorageType DEF Select, At, Critical, TypeInv
  <2>3. PICK found \in choices :
          /\ file' \in IF found[1] = m THEN {file} ELSE Saves(found[1])
          /\ Goto(p, "prune", [me[p] EXCEPT !.mem = found[1], !.cand = found[2], !.flag = FALSE])
    BY <1>1 DEF Select
  <2>4. found[1] \in Storage /\ found[2] \in SUBSET (Keys \X Session)
    <3>1. CASE me[p].flag
      <4>1. PICK l \in Lookup(m, k) : found = <<l[1], IF l[2] = NoSession THEN {} ELSE {<<k, l[2]>>}>>
        BY <2>3, <3>1
      <4>2. l[1] \in Storage /\ l[2] \in Session
        BY <2>1, <2>2, LookupType
      <4> HIDE DEF m, k
      <4> QED BY <4>1, <4>2, <2>1
    <3>2. CASE ~me[p].flag
      BY <2>1, <2>2, <2>3, <3>2, LookupBranchType
    <3> QED BY <3>1, <3>2
  <2>5. file' \in Storage
    BY <1>0, <2>3, <2>4, SavesType DEF TypeInv
  <2>6. Fits("prune", [me[p] EXCEPT !.mem = found[1], !.cand = found[2], !.flag = FALSE])
    BY <1>0, <1>1, <2>4 DEF WorkingLabels, Fits, Local, Labels, Select, At, KeyedLabels
  <2>7. ProcsOK'
    BY <2>3, <2>6, GotoFits DEF TypeInv
  <2> QED BY <1>0, <1>1, <2>5, <2>7, SavingStep DEF Select
<1>2. CASE Prune(p)
  <2>1. PICK dead \in SUBSET me[p].cand :
          /\ file' \in IF dead = {} THEN {file} ELSE Saves(DeleteSessions(me[p].mem, {c[1] : c \in dead}))
          /\ Goto(p, "resolved", [me[p] EXCEPT !.mem = DeleteSessions(me[p].mem, {c[1] : c \in dead}),
                                               !.cand = @ \ dead])
    BY <1>2 DEF Prune
  <2> DEFINE kept == DeleteSessions(me[p].mem, {c[1] : c \in dead})
             loc == [me[p] EXCEPT !.mem = kept, !.cand = @ \ dead]
  <2>2. me[p].mem \in Storage
    BY <1>0, <1>2 DEF Fits, WorkingLabels, Prune, At
  <2>3. kept \in Storage
    BY <2>2, DeleteSessionsType
  <2>4. file' \in Storage
    BY <1>0, <2>1, <2>3, SavesType DEF TypeInv
  <2> HIDE DEF kept
  <2>5. loc \in Local /\ loc.op = me[p].op /\ loc.key = me[p].key /\ loc.mem = kept
    BY <1>0, <1>c, <2>3 DEF Local
  <2>6. Fits("resolved", loc)
    <3>1. me[p].op \in Keyed /\ me[p].key \in Keys
      BY <1>2, <1>k DEF Prune, At, KeyedLabels
    <3> QED BY <2>3, <2>5, <3>1 DEF Fits, Labels
  <2>7. ProcsOK'
    BY <2>1, <2>6, GotoFits DEF TypeInv, kept
  <2> QED BY <1>0, <1>2, <2>4, <2>7, SavingStep DEF Prune
<1>3. CASE Reuse(p)
  <2>1. PICK c \in Chosen(p) :
          Goto(p, IF me[p].op = "exec" /\ c[2].used /\ ~c[2].nag THEN "saveNag" ELSE "waitReady",
               [Away(me[p]) EXCEPT !.run = c[2].run, !.tok = c[2].tok])
    BY <1>3 DEF Reuse
  <2>2. c[2] \in Session
    BY <1>c DEF Chosen
  <2> DEFINE loc == [Away(me[p]) EXCEPT !.run = c[2].run, !.tok = c[2].tok]
  <2>3. loc \in Local /\ loc.op = me[p].op /\ loc.key = me[p].key
    BY <1>0, <2>2, AwayType, ZenonT(30) DEF Local, Session
  <2>4. Fits("saveNag", loc) /\ Fits("waitReady", loc)
    BY <1>0, <2>3, SameCommand DEF KeyedLabels, WorkingLabels, Labels, Critical
  <2>5. ProcsOK'
    BY <2>1, <2>4, GotoFits DEF TypeInv
  <2> QED BY <1>0, <1>3, <2>5, UnlockType, SavingStep DEF Reuse, TypeInv
<1>4. CASE NothingToUse(p)
  BY <1>0, <1>4, FinishFits, UnlockType, SavingStep DEF NothingToUse, TypeInv
<1>5. CASE ReplaceChosen(p)
  <2>1. PICK c \in Chosen(p) : Goto(p, "stopping", [me[p] EXCEPT !.cand = {c}])
    BY <1>5 DEF ReplaceChosen
  <2>2. c \in Keys \X Session
    BY <1>c DEF Chosen
  <2>3. /\ [me[p] EXCEPT !.cand = {c}] \in Local
        /\ [me[p] EXCEPT !.cand = {c}].mem \in Storage
    BY <1>0, <1>5, <2>2 DEF Local, Fits, WorkingLabels, ReplaceChosen, At
  <2>4. Fits("stopping", [me[p] EXCEPT !.cand = {c}])
    BY <1>0, <2>3, SameCommand DEF KeyedLabels, Labels, Local
  <2>5. ProcsOK'
    BY <2>1, <2>4, GotoFits DEF TypeInv
  <2> QED BY <1>5, <2>5, LocalStep DEF ReplaceChosen
<1>6. CASE CreateMissing(p)
  <2>1. Fits("initiate", Away(me[p]))
    BY <1>0, <1>6, <1>k, AwayType, SameCommand
    DEF CreateMissing, At, KeyedLabels, WorkingLabels, Labels
  <2>2. ProcsOK'
    BY <1>6, <2>1, GotoFits DEF TypeInv, CreateMissing
  <2> QED BY <1>6, <2>2, LocalStep DEF CreateMissing
<1> QED BY <1>1, <1>2, <1>3, <1>4, <1>5, <1>6

(* A session written whole over whatever the loaded storage holds. *)
LEMMA PutType ==
  ASSUME TypeInv, NEW p \in Procs, me[p].mem # NotLoaded, Loaded(p), NEW r \in Runs \cup {None},
         NEW t \in Runs \cup {None},
         file' \in Saves(SetSession(me[p].mem, me[p].key, NewSession(r, t)))
  PROVE  file' \in Storage
<1>1. me[p].mem \in Storage
  BY LoadedType DEF TypeInv
<1>2. SetSession(me[p].mem, me[p].key, NewSession(r, t)) \in Storage
  BY <1>1, NewSessionType, SetSessionType
<1> QED BY <1>2, SavesType DEF TypeInv

LEMMA AfterStartType ==
  ASSUME TypeInv, NEW p \in Procs, me[p].op \in Keyed, NEW loc \in Local,
         loc.op = me[p].op, loc.key = me[p].key, AfterStart(p, loc)
  PROVE  ProcsOK'
<1>1. Fits(pc[p], me[p])
  BY DEF TypeInv, ProcsOK
<1>2. Fits("reread", Away(loc))
  BY <1>1, AwayType, SameCommand DEF KeyedLabels, WorkingLabels, Labels
<1> QED BY <1>2, GotoFits, FinishFits DEF AfterStart, TypeInv

LEMMA StartType ==
  ASSUME TypeInv, NEW p \in Procs,
         \/ Initiate(p) \/ InitiateFails(p) \/ Persist(p) \/ RequestToken(p)
         \/ SaveToken(p) \/ RereadToken(p) \/ Reattach(p) \/ SaveAttach(p)
  PROVE  TypeInv'
<1>0. /\ me[p] \in Local /\ Fits(pc[p], me[p])
      /\ file \in Storage /\ lock \in Procs \cup {None}
      /\ me[p].run \in Runs \cup {None} /\ me[p].tok \in Runs \cup {None}
  BY DEF TypeInv, TypeOK, ProcsOK, Fits, Local
<1>k. ASSUME pc[p] \in KeyedLabels PROVE me[p].op \in Keyed /\ me[p].key \in Keys
  BY <1>0, <1>k DEF Fits
<1>t. \A r \in Runs \cup {None} : Tokens(r) \subseteq Runs \cup {None}
  BY DEF Tokens
<1>1. CASE Initiate(p)
  <2>1. PICK r \in Runs :
          /\ status' = [status EXCEPT ![r] = "starting"]
          /\ home' = [home EXCEPT ![r] = me[p].key]
          /\ Goto(p, "persist", [Away(me[p]) EXCEPT !.run = r, !.tok = None])
    BY <1>1 DEF Initiate
  <2> DEFINE loc == [Away(me[p]) EXCEPT !.run = r, !.tok = None]
  <2>2. loc \in Local /\ loc.op = me[p].op /\ loc.key = me[p].key
    BY <1>0, AwayType DEF Local
  <2>3. Fits("persist", loc)
    <3>1. me[p].op \in Keyed /\ me[p].key \in Keys
      BY <1>1, <1>k DEF Initiate, At, KeyedLabels
    <3> QED BY <2>2, <3>1 DEF Fits, Labels, Critical, WorkingLabels
  <2>4. ProcsOK'
    BY <2>1, <2>3, GotoFits DEF TypeInv
  <2>5. me[p].key \in Keys \cup {None}
    BY <1>0 DEF Local
  <2> QED BY <1>1, <2>1, <2>4, <2>5 DEF Initiate, TypeInv, TypeOK, ProcsOK
<1>2. CASE InitiateFails(p)
  BY <1>0, <1>2, FinishFits, UnlockType, SavingStep DEF InitiateFails, TypeInv
<1>3. CASE Persist(p)
  <2>1. file' \in Storage
    BY <1>0, <1>3, PutType DEF Persist, At, Critical
  <2> DEFINE loc == [Away(me[p]) EXCEPT !.flag = Loaded(p)]
  <2>2. Loaded(p) \in BOOLEAN
    BY DEF Loaded
  <2>3. loc \in Local /\ loc.op = me[p].op /\ loc.key = me[p].key
    BY <1>0, <2>2, AwayType DEF Local
  <2>4. me[p].op \in Keyed
    BY <1>3, <1>k DEF Persist, At, KeyedLabels
  <2> HIDE DEF loc
  <2>5. Fits("token", loc)
    BY <1>0, <2>3, <2>4, SameCommand DEF WorkingLabels, Labels
  <2>6. ProcsOK'
    BY <1>3, <2>5, GotoFits DEF TypeInv, Persist, loc
  <2> QED BY <1>3, <2>1, <2>6, UnlockType, SavingStep DEF Persist, TypeInv
<1>4. CASE RequestToken(p)
  <2>1. PICK t \in Tokens(me[p].run) :
          IF me[p].flag THEN Goto(p, "saveToken", [Away(me[p]) EXCEPT !.tok = t])
                        ELSE AfterStart(p, me[p])
    BY <1>4 DEF RequestToken
  <2> DEFINE loc == [Away(me[p]) EXCEPT !.tok = t]
  <2>2. loc \in Local /\ loc.op = me[p].op /\ loc.key = me[p].key
    BY <1>0, <1>t, AwayType DEF Local
  <2>3. me[p].op \in Keyed
    BY <1>4, <1>k DEF RequestToken, At, KeyedLabels
  <2> HIDE DEF loc
  <2>4. Fits("saveToken", loc)
    BY <1>0, <2>2, <2>3, SameCommand DEF WorkingLabels, Labels, Critical
  <2>5. ProcsOK'
    BY <1>0, <2>1, <2>3, <2>4, GotoFits, AfterStartType DEF TypeInv, loc
  <2> QED BY <1>4, <2>5, LocalStep DEF RequestToken
<1>5. CASE SaveToken(p)
  <2>1. file' \in Storage
    BY <1>0, <1>5, PutType DEF SaveToken, At, Critical
  <2>2. ProcsOK'
    BY <1>0, <1>5, <1>k, AfterStartType DEF SaveToken, At, KeyedLabels
  <2> QED BY <1>5, <2>1, <2>2, UnlockType, SavingStep DEF SaveToken, TypeInv
<1>6. CASE RereadToken(p)
  <2>1. PICK m \in Loads :
          Goto(p, "waitReady",
               [me[p] EXCEPT !.tok = IF m = LoadFailed THEN None ELSE m[me[p].key].tok])
    BY <1>6 DEF RereadToken
  <2> DEFINE t == IF m = LoadFailed THEN None ELSE m[me[p].key].tok
  <2>2. t \in Runs \cup {None}
    BY <1>6, <1>k, LoadsType DEF RereadToken, At, KeyedLabels, Storage, Session, TypeInv
  <2> HIDE DEF t
  <2>3. [me[p] EXCEPT !.tok = t] \in Local
    BY <1>0, <2>2 DEF Local
  <2>4. Fits("waitReady", [me[p] EXCEPT !.tok = t])
    BY <1>0, <2>3, SameCommand DEF KeyedLabels, WorkingLabels, Labels, Local
  <2>5. ProcsOK'
    BY <2>1, <2>4, GotoFits DEF TypeInv, t
  <2> QED BY <1>6, <2>5, LocalStep DEF RereadToken
<1>7. CASE Reattach(p)
  <2>1. PICK t \in Tokens(me[p].run) :
          Goto(p, "saveAttach", [me[p] EXCEPT !.tok = t]) \/ Finish(p)
    BY <1>7 DEF Reattach
  <2>2. [me[p] EXCEPT !.tok = t] \in Local
    BY <1>0, <1>t DEF Local
  <2>3. Fits("saveAttach", [me[p] EXCEPT !.tok = t])
    BY <1>0, <1>7, <1>k, <2>2, SameCommand
    DEF KeyedLabels, WorkingLabels, Labels, Critical, Local, Reattach, At
  <2>4. ProcsOK'
    BY <2>1, <2>3, GotoFits, FinishFits DEF TypeInv
  <2> QED BY <1>7, <2>4, LocalStep DEF Reattach
<1>8. CASE SaveAttach(p)
  <2>1. file' \in Storage
    BY <1>0, <1>8, PutType DEF SaveAttach, At, Critical
  <2> QED BY <1>8, <2>1, FinishFits, UnlockType, SavingStep DEF SaveAttach, TypeInv
<1> QED BY <1>1, <1>2, <1>3, <1>4, <1>5, <1>6, <1>7, <1>8

(* Rewriting the session a process finds at its key. *)
LEMMA RewriteType ==
  ASSUME TypeInv, NEW p \in Procs, me[p].mem # NotLoaded, NEW s,
         \/ s = [me[p].mem[me[p].key] EXCEPT !.nag = TRUE]
         \/ s = [me[p].mem[me[p].key] EXCEPT !.used = TRUE],
         file' \in Rewrite(p, s)
  PROVE  file' \in Storage
<1>1. file \in Storage /\ me[p].key \in Keys \cup {None}
  BY DEF TypeInv, TypeOK, Local
<1>2. CASE Loaded(p) /\ me[p].key # None
  <2>1. me[p].mem \in Storage
    BY <1>2, LoadedType DEF TypeInv
  <2>2. me[p].mem[me[p].key] \in Session
    BY <1>1, <1>2, <2>1 DEF Storage
  <2>3. s \in Session
    BY <2>2 DEF Session
  <2>4. SetSession(me[p].mem, me[p].key, s) \in Storage
    BY <2>1, <2>3, SetSessionType
  <2> QED BY <1>1, <2>4, SavesType DEF Rewrite, TypeInv
<1> QED BY <1>1, <1>2 DEF Rewrite

(* Labels that neither need a key nor a loaded storage. *)
LEMMA FreeLabel ==
  ASSUME NEW l0, NEW loc, Fits(l0, loc), NEW l \in Labels \ (KeyedLabels \cup WorkingLabels)
  PROVE  Fits(l, loc) /\ Fits(l, Away(loc))
<1>1. loc \in Local
  BY DEF Fits
<1> QED BY <1>1, AwayType, SameCommand

LEMMA ReleasedType ==
  ASSUME TypeOK, NEW p \in Procs
  PROVE  Released(p) \in [Runs -> Procs \cup {None}]
BY DEF TypeOK, Released

LEMMA UseType ==
  ASSUME TypeInv, NEW p \in Procs,
         \/ SaveNag(p) \/ WaitReady(p) \/ LockAgent(p) \/ LockAgentFails(p) \/ Operate(p)
         \/ OperateNoGitDir(p) \/ Cleanup(p) \/ SaveUsed(p) \/ Release(p)
  PROVE  TypeInv'
<1>0. /\ me[p] \in Local /\ Fits(pc[p], me[p])
      /\ file \in Storage /\ lock \in Procs \cup {None}
  BY DEF TypeInv, TypeOK, ProcsOK, Fits
<1>f. \A l \in {"waitReady", "agent", "operate", "release", "saveUsed", "cleanup"} :
        Fits(l, me[p]) /\ Fits(l, Away(me[p]))
  BY <1>0, FreeLabel DEF Labels, Critical, KeyedLabels, WorkingLabels
<1>1. CASE SaveNag(p)
  <2>1. file' \in Storage
    BY <1>1, RewriteType DEF SaveNag, At, Critical
  <2>2. ProcsOK'
    BY <1>1, <1>f, GotoFits DEF SaveNag, TypeInv
  <2> QED BY <1>1, <2>1, <2>2, UnlockType, SavingStep DEF SaveNag, TypeInv
<1>2. CASE WaitReady(p)
  <2>1. ProcsOK'
    BY <1>2, <1>f, GotoFits, FinishFits DEF WaitReady, TypeInv
  <2> QED BY <1>2, <2>1, LocalStep DEF WaitReady
<1>3. CASE LockAgent(p)
  <2>1. ProcsOK'
    BY <1>3, <1>f, GotoFits DEF LockAgent, TypeInv
  <2> QED BY <1>3, <2>1 DEF LockAgent, TypeInv, TypeOK, ProcsOK, server
<1>4. CASE LockAgentFails(p)
  BY <1>4, FinishFits, LocalStep DEF LockAgentFails, TypeInv
<1>5. CASE Operate(p)
  <2>1. ProcsOK'
    BY <1>5, <1>f, GotoFits DEF Operate, TypeInv
  <2> QED BY <1>5, <2>1, LocalStep DEF Operate
<1>6. CASE OperateNoGitDir(p)
  <2>1. ProcsOK'
    BY <1>6, <1>f, GotoFits DEF OperateNoGitDir, TypeInv
  <2>2. status' \in [Runs -> {"none", "starting", "ready", "ending", "ended"}]
    BY <1>6, StoppedType DEF OperateNoGitDir, TypeInv
  <2> QED BY <1>6, <2>1, <2>2 DEF OperateNoGitDir, TypeInv, TypeOK, ProcsOK
<1>7. CASE Cleanup(p)
  <2>1. ASSUME Loaded(p) PROVE me[p].mem \in Storage
    BY <1>7, <2>1, LoadedType DEF Cleanup, At, Critical, TypeInv
  <2>2. file' \in Storage
    <3> DEFINE mine == IF Loaded(p) THEN KeysOfRun(me[p].mem, me[p].run) ELSE {}
    <3>1. \/ file' \in IF Loaded(p) THEN Saves(me[p].mem) ELSE {file}
          \/ \E k \in mine : file' \in Saves(DeleteSessions(me[p].mem, {k}))
      BY <1>7 DEF Cleanup
    <3>2. ASSUME NEW k \in mine, file' \in Saves(DeleteSessions(me[p].mem, {k}))
          PROVE  file' \in Storage
      <4>1. Loaded(p)
        BY <3>2
      <4>2. DeleteSessions(me[p].mem, {k}) \in Storage
        BY <2>1, <4>1, DeleteSessionsType
      <4> QED BY <3>2, <4>2, SavesType DEF TypeInv
    <3> QED BY <1>0, <2>1, <3>1, <3>2, SavesType DEF TypeInv
  <2>3. ProcsOK'
    BY <1>7, <1>f, GotoFits DEF Cleanup, TypeInv
  <2> QED BY <1>7, <2>2, <2>3, UnlockType, SavingStep DEF Cleanup, TypeInv
<1>8. CASE SaveUsed(p)
  <2>1. file' \in Storage
    BY <1>8, RewriteType DEF SaveUsed, At, Critical
  <2>2. ProcsOK'
    BY <1>8, <1>f, GotoFits DEF SaveUsed, TypeInv
  <2> QED BY <1>8, <2>1, <2>2, UnlockType, SavingStep DEF SaveUsed, TypeInv
<1>9. CASE Release(p)
  <2>1. ProcsOK' /\ agent' \in [Runs -> Procs \cup {None}]
    BY <1>9, FinishFits, ReleasedType DEF Release, TypeInv
  <2> QED BY <1>9, <2>1 DEF Release, TypeInv, TypeOK, ProcsOK, server
<1> QED BY <1>1, <1>2, <1>3, <1>4, <1>5, <1>6, <1>7, <1>8, <1>9

(* The sessions of a storage, as stop picks them, are keyed sessions. *)
LEMMA KeyedSessions ==
  ASSUME NEW m \in Storage, NEW K \in SUBSET Keys
  PROVE  {<<k, m[k]>> : k \in K} \in SUBSET (Keys \X Session)
BY DEF Storage

(* A session dropped from what is still to stop. *)
LEMMA DroppedType ==
  ASSUME TypeInv, NEW p \in Procs, pc[p] \in WorkingLabels \cup {"stopping"}, NEW c \in me[p].cand
  PROVE  Fits("stopping", Dropped(p, c))
<1>1. me[p] \in Local /\ Fits(pc[p], me[p]) /\ me[p].mem \in Storage
  BY DEF TypeInv, TypeOK, ProcsOK, Fits, WorkingLabels
<1> DEFINE kept == DeleteSessions(me[p].mem, {c[1]})
<1>2. kept \in Storage
  BY <1>1, DeleteSessionsType
<1> HIDE DEF kept
<1> DEFINE loc == [me[p] EXCEPT !.mem = kept, !.cand = @ \ {c}, !.at = None, !.run = None]
<1>3. loc \in Local /\ loc.op = me[p].op /\ loc.key = me[p].key /\ loc.mem = kept
  BY <1>1, <1>2 DEF Local
<1>4. loc = Dropped(p, c)
  BY DEF Dropped, kept
<1> HIDE DEF loc
<1>5. Fits("stopping", loc)
  BY <1>1, <1>2, <1>3, SameCommand DEF KeyedLabels, Labels
<1> QED BY <1>4, <1>5

LEMMA PickType ==
  ASSUME TypeInv, NEW p \in Procs, PickStops(p) \/ PickReset(p)
  PROVE  TypeInv'
<1>0. /\ me[p] \in Local /\ Fits(pc[p], me[p])
      /\ file \in Storage /\ lock \in Procs \cup {None}
  BY DEF TypeInv, TypeOK, ProcsOK, Fits
<1>1. ASSUME PickStops(p) PROVE TypeInv'
  <2> DEFINE m == me[p].mem
             byRun == {<<m, {<<k, m[k]>>}>> : k \in KeysOfRun(m, me[p].run)}
             found == IF ~Loaded(p) THEN {}
                      ELSE CASE me[p].op = "stopAll" ->
                                  {<<m, {<<k, m[k]>> : k \in {j \in Keys : Has(m, j)}}>>}
                             [] me[p].op = "stop" ->
                                  {l \in LookupBranch(m, BranchOf(me[p].key)) : l[2] # {}}
                             [] OTHER -> byRun
  <2>1. CASE found = {} /\ Unlock(p) /\ file' = file
    <3>1. (me[p].op = "start" /\ Goto(p, "initiate", Away(me[p]))) \/ Finish(p)
      BY <1>1, <2>1 DEF PickStops
    <3>2. me[p].op = "start" => Fits("initiate", Away(me[p]))
      BY <1>0, AwayType, SameCommand DEF Keyed, AllCommands, KeyedLabels, WorkingLabels, Labels
    <3>3. ProcsOK'
      BY <3>1, <3>2, GotoFits, FinishFits DEF TypeInv
    <3> QED BY <1>0, <1>1, <2>1, <3>3, UnlockType, SavingStep DEF PickStops, TypeInv
  <2>2. ASSUME NEW f \in found,
               file' \in IF f[1] = m THEN {file} ELSE Saves(f[1]),
               Goto(p, "stopping", [me[p] EXCEPT !.mem = f[1], !.cand = f[2]]),
               UNCHANGED lock
        PROVE  TypeInv'
    <3>1. Loaded(p) /\ m \in Storage
      BY <1>1, <2>2, LoadedType DEF PickStops, At, Critical, TypeInv
    <3>2. f[1] \in Storage /\ f[2] \in SUBSET (Keys \X Session)
      <4>1. CASE me[p].op = "stopAll"
        <5>1. f = <<m, {<<k, m[k]>> : k \in {j \in Keys : Has(m, j)}}>>
          BY <2>2, <3>1, <4>1
        <5> HIDE DEF m
        <5> QED BY <3>1, <5>1, KeyedSessions
      <4>2. CASE me[p].op = "stop"
        <5>1. f \in LookupBranch(m, BranchOf(me[p].key))
          BY <2>2, <3>1, <4>2
        <5>2. me[p].key \in Keys
          BY <1>0, <4>2 DEF Fits, Keyed, AllCommands
        <5>3. BranchOf(me[p].key) \in Branches
          BY <5>2 DEF Keys, BranchOf
        <5> HIDE DEF m
        <5> QED BY <3>1, <5>1, <5>3, LookupBranchType
      <4>3. CASE me[p].op \notin {"stop", "stopAll"}
        <5>1. PICK k \in KeysOfRun(m, me[p].run) : f = <<m, {<<k, m[k]>>}>>
          BY <2>2, <3>1, <4>3
        <5>2. k \in Keys
          BY DEF KeysOfRun
        <5>3. m[k] \in Session
          BY <3>1, <5>2 DEF Storage
        <5> HIDE DEF m
        <5> QED BY <3>1, <5>1, <5>2, <5>3
      <4> QED BY <4>1, <4>2, <4>3
    <3> HIDE DEF found
    <3>3. file' \in Storage
      BY <1>0, <2>2, <3>2, SavesType DEF TypeInv
    <3> DEFINE loc == [me[p] EXCEPT !.mem = f[1], !.cand = f[2]]
    <3>4. loc \in Local /\ loc.op = me[p].op /\ loc.key = me[p].key /\ loc.mem = f[1]
      BY <1>0, <3>2 DEF Local
    <3> HIDE DEF loc
    <3>5. Fits("stopping", loc)
      BY <1>0, <3>2, <3>4, SameCommand DEF KeyedLabels, Labels
    <3>6. ProcsOK'
      BY <2>2, <3>5, GotoFits DEF TypeInv, loc
    <3> QED BY <1>0, <1>1, <2>2, <3>3, <3>6, SavingStep DEF PickStops
  <2> QED BY <1>1, <2>1, <2>2 DEF PickStops
<1>2. ASSUME PickReset(p) PROVE TypeInv'
  <2>0. me[p].op \in Keyed /\ me[p].key \in Keys
    BY <1>0, <1>2 DEF PickReset, At, Fits, KeyedLabels
  <2> DEFINE found == IF Loaded(p) THEN Lookup(me[p].mem, me[p].key) ELSE {<<EmptyStorage, NoSession>>}
  <2>1. PICK f \in found :
          IF f[2] = NoSession
            THEN Goto(p, "initiate", Away(me[p]))
            ELSE Goto(p, "stopping", [me[p] EXCEPT !.mem = f[1], !.cand = {<<me[p].key, f[2]>>}])
    BY <1>2 DEF PickReset
  <2>2. f[1] \in Storage /\ f[2] \in Session
    <3>1. CASE Loaded(p)
      <4>1. me[p].mem \in Storage
        BY <1>2, <3>1, LoadedType DEF PickReset, At, Critical, TypeInv
      <4> QED BY <2>0, <2>1, <3>1, <4>1, LookupType
    <3>2. CASE ~Loaded(p)
      BY <2>1, <3>2, EmptyStorageType, NoSessionType
    <3> QED BY <3>1, <3>2
  <2> HIDE DEF found
  <2>3. Fits("initiate", Away(me[p]))
    BY <1>0, <2>0, AwayType, SameCommand DEF WorkingLabels, Labels
  <2> DEFINE one == {<<me[p].key, f[2]>>}
             loc == [me[p] EXCEPT !.mem = f[1], !.cand = one]
  <2>c. one \in SUBSET (Keys \X Session)
    BY <2>0, <2>2
  <2> HIDE DEF one
  <2>4. loc \in Local /\ loc.op = me[p].op /\ loc.key = me[p].key /\ loc.mem = f[1]
    BY <1>0, <2>2, <2>c DEF Local
  <2> HIDE DEF loc
  <2>5. Fits("stopping", loc)
    BY <1>0, <2>2, <2>4, SameCommand DEF KeyedLabels, Labels
  <2>6. ProcsOK'
    BY <2>1, <2>3, <2>5, GotoFits DEF TypeInv, loc, one
  <2> QED BY <1>2, <2>6, LocalStep DEF PickReset
<1> QED BY <1>1, <1>2

LEMMA StopType ==
  ASSUME TypeInv, NEW p \in Procs, StopOne(p) \/ StopWaited(p) \/ StopsSaved(p)
  PROVE  TypeInv'
<1>0. /\ me[p] \in Local /\ Fits(pc[p], me[p])
      /\ file \in Storage /\ lock \in Procs \cup {None}
      /\ me[p].cand \in SUBSET (Keys \X Session)
  BY DEF TypeInv, TypeOK, ProcsOK, Fits, Local
<1>1. CASE StopOne(p)
  <2>1. PICK c \in me[p].cand : \E a \in Answers(c[2].run, c[2].tok) :
          LET waiting == [me[p] EXCEPT !.at = c[1], !.run = c[2].run, !.tok = c[2].tok]
          IN  IF Alive(a) THEN status' \in Stopped(c[2].run) /\ Goto(p, "stopWait", waiting)
              ELSE /\ UNCHANGED status
                   /\ IF me[p].op = "execReset" THEN Goto(p, "stopWait", waiting)
                                                ELSE Goto(p, "stopping", Dropped(p, c))
    BY <1>1 DEF StopOne
  <2>2. c[1] \in Keys /\ c[2].run \in Runs \cup {None} /\ c[2].tok \in Runs \cup {None}
    BY <1>0 DEF Session
  <2> DEFINE loc == [me[p] EXCEPT !.at = c[1], !.run = c[2].run, !.tok = c[2].tok]
  <2>3. loc \in Local /\ loc.op = me[p].op /\ loc.key = me[p].key /\ loc.mem = me[p].mem
    BY <1>0, <2>2 DEF Local
  <2>4. me[p].mem \in Storage
    BY <1>0, <1>1 DEF StopOne, At, Fits, WorkingLabels
  <2> HIDE DEF loc
  <2>5. Fits("stopWait", loc)
    BY <1>0, <2>3, <2>4, SameCommand DEF KeyedLabels, Labels
  <2>6. Fits("stopping", Dropped(p, c))
    BY <1>1, DroppedType DEF StopOne, At
  <2>7. ProcsOK'
    BY <2>1, <2>5, <2>6, GotoFits DEF TypeInv, loc
  <2>8. status' \in [Runs -> {"none", "starting", "ready", "ending", "ended"}]
    BY <2>1, StoppedType DEF TypeInv, TypeOK
  <2> QED BY <1>1, <2>7, <2>8 DEF StopOne, TypeInv, TypeOK, ProcsOK
<1>2. CASE StopWaited(p)
  <2>1. PICK c \in me[p].cand : Goto(p, "stopping", Dropped(p, c))
    BY <1>2 DEF StopWaited
  <2>2. Fits("stopping", Dropped(p, c))
    BY <1>2, DroppedType DEF StopWaited, At, WorkingLabels
  <2>3. ProcsOK'
    BY <2>1, <2>2, GotoFits DEF TypeInv
  <2> QED BY <1>2, <2>3, LocalStep DEF StopWaited
<1>3. CASE StopsSaved(p)
  <2>1. me[p].mem \in Storage
    BY <1>0, <1>3 DEF StopsSaved, At, Fits, WorkingLabels
  <2>2. file' \in Storage
    BY <1>3, <2>1, SavesType DEF StopsSaved, TypeInv
  <2>3. me[p].op \in {"start", "reset", "execReset"} => Fits("initiate", Away(me[p]))
    BY <1>0, AwayType, SameCommand DEF Keyed, AllCommands, KeyedLabels, WorkingLabels, Labels
  <2>4. ProcsOK'
    BY <1>3, <2>3, GotoFits, FinishFits DEF StopsSaved, TypeInv
  <2>5. lock' \in Procs \cup {None}
    BY <1>0, <1>3, UnlockType DEF StopsSaved, TypeInv
  <2> QED BY <1>3, <2>2, <2>4, <2>5, SavingStep DEF StopsSaved
<1> QED BY <1>1, <1>2, <1>3

LEMMA ListType ==
  ASSUME TypeInv, NEW p \in Procs, List(p) \/ ListFails(p)
  PROVE  TypeInv'
<1>1. CASE List(p)
  <2>1. me[p].mem \in Storage
    BY <1>1, LoadedType DEF List, At, Critical, TypeInv
  <2>2. PICK listed \in SUBSET Runs : \E m \in Adopted(me[p].mem, listed), gone \in SUBSET Keys :
          file' \in IF gone = {} /\ m = me[p].mem THEN {file} ELSE Saves(DeleteSessions(m, gone))
    BY <1>1 DEF List
  <2>a. PICK m \in Adopted(me[p].mem, listed), gone \in SUBSET Keys :
          file' \in IF gone = {} /\ m = me[p].mem THEN {file} ELSE Saves(DeleteSessions(m, gone))
    BY <2>2
  <2>3. PICK f \in [Keys -> listed \cup {None}] :
          m = [k \in Keys |-> IF ~Has(me[p].mem, k) /\ f[k] # None
                                THEN NewSession(f[k], None) ELSE me[p].mem[k]]
    BY DEF Adopted
  <2>4. m \in Storage
    BY <2>1, <2>3, NewSessionType DEF Storage
  <2>5. file' \in Storage
    BY <2>a, <2>4, DeleteSessionsType, SavesType DEF TypeInv, TypeOK
  <2> QED BY <1>1, <2>5, FinishFits, UnlockType, SavingStep DEF List, TypeInv
<1>2. CASE ListFails(p)
  BY <1>2, FinishFits, UnlockType, SavingStep DEF ListFails, TypeInv, TypeOK
<1> QED BY <1>1, <1>2

(* A crash, and what the server does by itself. *)
LEMMA EnvType ==
  ASSUME TypeInv,
         (\E p \in Procs : Crash(p)) \/ (\E r \in Runs : RunReady(r) \/ RunEnds(r))
  PROVE  TypeInv'
<1>1. ASSUME NEW p \in Procs, Crash(p) PROVE TypeInv'
  <2>1. ProcsOK' /\ lock' \in Procs \cup {None} /\ agent' \in [Runs -> Procs \cup {None}]
    BY <1>1, FinishFits, UnlockType, ReleasedType DEF Crash, TypeInv
  <2> QED BY <1>1, <2>1 DEF Crash, TypeInv, TypeOK, ProcsOK, server
<1>2. ASSUME NEW r \in Runs, RunReady(r) PROVE TypeInv'
  BY <1>2 DEF RunReady, TypeInv, TypeOK, ProcsOK
<1>3. ASSUME NEW r \in Runs, RunEnds(r) PROVE TypeInv'
  BY <1>3 DEF RunEnds, TypeInv, TypeOK, ProcsOK
<1> QED BY <1>1, <1>2, <1>3

LEMMA NextTypeInv == TypeInv /\ [Next]_vars => TypeInv'
<1> SUFFICES ASSUME TypeInv, [Next]_vars PROVE TypeInv'
  OBVIOUS
<1>1. CASE UNCHANGED vars
  BY <1>1 DEF vars, TypeInv, TypeOK, ProcsOK
<1>2. CASE Next
  BY <1>2, BeginType, AcquireType, CheckType, SelectType, StartType, UseType, PickType,
     StopType, ListType, EnvType
  DEF Next, Step
<1> QED BY <1>1, <1>2

(* Every variable keeps its type, whatever the interleaving, the faults and
   the crashes: what is written to sandboxes.json is always a session map. *)
THEOREM TypeCorrect == Spec => []TypeOK
<1>1. TypeInv => TypeOK
  BY DEF TypeInv
<1> QED BY <1>1, InitTypeInv, NextTypeInv, PTL DEF Spec

-----------------------------------------------------------------------------
(* The storage lock.                                                       *)

(* Labels at which a process may hold the storage lock. *)
Holding == Critical \cup {"prune", "resolved", "stopping", "stopWait", "initiate"}

LEMMA GotoOnly ==
  ASSUME TypeOK, NEW p \in Procs, NEW l, NEW loc, Goto(p, l, loc)
  PROVE  pc'[p] = l /\ \A q \in Procs \ {p} : pc'[q] = pc[q]
BY DEF TypeOK, Goto

LEMMA FinishOnly ==
  ASSUME TypeOK, NEW p \in Procs, Finish(p)
  PROVE  \A q \in Procs \ {p} : pc'[q] = pc[q]
BY GotoOnly DEF Finish

(* A step keeps the lock short when its process unlocks, or goes to a label
   of Holding, or did not hold the lock. *)
LEMMA UnlockingStep ==
  ASSUME StorageLockIsShort, NEW p \in Procs, Unlock(p),
         \A q \in Procs \ {p} : pc'[q] = pc[q]
  PROVE  StorageLockIsShort'
BY NobodyAssumption DEF StorageLockIsShort, Unlock

LEMMA HoldingStep ==
  ASSUME StorageLockIsShort, NEW p \in Procs, lock' = lock,
         pc'[p] \in Holding \/ pc[p] \notin Holding \/ lock # p,
         \A q \in Procs \ {p} : pc'[q] = pc[q]
  PROVE  StorageLockIsShort'
BY DEF StorageLockIsShort, Holding

LEMMA InitLockShort == Init => StorageLockIsShort
BY NobodyAssumption DEF Init, StorageLockIsShort

LEMMA LockBegin ==
  ASSUME TypeOK, StorageLockIsShort, NEW p \in Procs,
         \/ Begin(p) \/ BeginWithRun(p) \/ BeginStopRun(p)
         \/ Acquire(p) \/ LockFails(p) \/ Check(p) \/ CheckActive(p)
  PROVE  StorageLockIsShort'
<1>1. CASE Begin(p) \/ BeginWithRun(p) \/ BeginStopRun(p)
  <2>1. pc[p] \notin Holding /\ lock' = lock
    BY <1>1 DEF Begin, BeginWithRun, BeginStopRun, Holding, Critical
  <2>2. \A q \in Procs \ {p} : pc'[q] = pc[q]
    <3>1. CASE Begin(p) \/ BeginStopRun(p)
      BY <3>1, GotoOnly DEF Begin, BeginStopRun
    <3>2. CASE BeginWithRun(p)
      <4>1. PICK op \in Commands, r \in Runs, m \in Loads, k \in Keys \cup {None} :
              LET found == IF m = LoadFailed THEN {} ELSE KeysOfRun(m, r)
              IN  \E s \in IF found = {} THEN {NoSession} ELSE {m[j] : j \in found} :
                    Goto(p, IF op = "attach" THEN "reattach"
                            ELSE IF op = "execId" /\ s.used /\ ~s.nag THEN "saveNag" ELSE "waitReady",
                         [Idle EXCEPT !.op = op, !.key = k, !.run = r, !.tok = s.tok,
                                      !.flag = (found # {} \/ m = LoadFailed)])
        BY <3>2, ZenonT(60) DEF BeginWithRun
      <4> QED BY <4>1, GotoOnly
    <3> QED BY <1>1, <3>1, <3>2
  <2> QED BY <2>1, <2>2, HoldingStep
<1>2. CASE Acquire(p)
  BY <1>2 DEF Acquire, StorageLockIsShort
<1>3. CASE LockFails(p)
  <2>1. \A q \in Procs \ {p} : pc'[q] = pc[q]
    <3>1. (\E l, loc : Goto(p, l, loc)) \/ Finish(p)
      BY <1>3 DEF LockFails, Critical
    <3> QED BY <3>1, GotoOnly, FinishOnly
  <2> QED BY <1>3, <2>1, HoldingStep DEF LockFails
<1>4. CASE Check(p)
  <2>1. \A q \in Procs \ {p} : pc'[q] = pc[q]
    BY <1>4, GotoOnly DEF Check
  <2> QED BY <1>4, <2>1, UnlockingStep DEF Check
<1>5. CASE CheckActive(p)
  <2>1. \A q \in Procs \ {p} : pc'[q] = pc[q]
    BY <1>5, GotoOnly, FinishOnly DEF CheckActive
  <2> QED BY <1>5, <2>1, HoldingStep DEF CheckActive, At, Holding, Critical
<1> QED BY <1>1, <1>2, <1>3, <1>4, <1>5

LEMMA LockSelect ==
  ASSUME TypeOK, StorageLockIsShort, NEW p \in Procs,
         \/ Select(p) \/ Prune(p) \/ Reuse(p) \/ NothingToUse(p)
         \/ ReplaceChosen(p) \/ CreateMissing(p)
  PROVE  StorageLockIsShort'
<1>1. CASE Reuse(p) \/ NothingToUse(p)
  <2>1. \A q \in Procs \ {p} : pc'[q] = pc[q]
    BY <1>1, GotoOnly, FinishOnly DEF Reuse, NothingToUse
  <2> QED BY <1>1, <2>1, UnlockingStep DEF Reuse, NothingToUse
<1>2. CASE Select(p) \/ Prune(p) \/ ReplaceChosen(p) \/ CreateMissing(p)
  <2>1. pc'[p] \in Holding /\ \A q \in Procs \ {p} : pc'[q] = pc[q]
    BY <1>2, GotoOnly DEF Select, Prune, ReplaceChosen, CreateMissing, Holding
  <2> QED BY <1>2, <2>1, HoldingStep DEF Select, Prune, ReplaceChosen, CreateMissing
<1> QED BY <1>1, <1>2

LEMMA LockStart ==
  ASSUME TypeOK, StorageLockIsShort, NEW p \in Procs,
         \/ Initiate(p) \/ InitiateFails(p) \/ Persist(p) \/ RequestToken(p)
         \/ SaveToken(p) \/ RereadToken(p) \/ Reattach(p) \/ SaveAttach(p)
  PROVE  StorageLockIsShort'
<1>1. CASE Initiate(p)
  <2>1. pc'[p] \in Holding /\ \A q \in Procs \ {p} : pc'[q] = pc[q]
    BY <1>1, GotoOnly DEF Initiate, Holding, Critical
  <2> QED BY <1>1, <2>1, HoldingStep DEF Initiate
<1>2. CASE InitiateFails(p) \/ Persist(p) \/ SaveToken(p) \/ SaveAttach(p)
  <2>1. \A q \in Procs \ {p} : pc'[q] = pc[q]
    BY <1>2, GotoOnly, FinishOnly DEF InitiateFails, Persist, SaveToken, SaveAttach, AfterStart
  <2> QED BY <1>2, <2>1, UnlockingStep DEF InitiateFails, Persist, SaveToken, SaveAttach
<1>3. CASE RequestToken(p) \/ RereadToken(p) \/ Reattach(p)
  <2>1. \A q \in Procs \ {p} : pc'[q] = pc[q]
    <3>1. (\E l, loc : Goto(p, l, loc)) \/ Finish(p)
      BY <1>3 DEF RequestToken, RereadToken, Reattach, AfterStart
    <3> QED BY <3>1, GotoOnly, FinishOnly
  <2> QED BY <1>3, <2>1, HoldingStep DEF RequestToken, RereadToken, Reattach, At, Holding, Critical
<1> QED BY <1>1, <1>2, <1>3

LEMMA LockUse ==
  ASSUME TypeOK, StorageLockIsShort, NEW p \in Procs,
         \/ SaveNag(p) \/ WaitReady(p) \/ LockAgent(p) \/ LockAgentFails(p) \/ Operate(p)
         \/ OperateNoGitDir(p) \/ Cleanup(p) \/ SaveUsed(p) \/ Release(p)
  PROVE  StorageLockIsShort'
<1>1. CASE SaveNag(p) \/ Cleanup(p) \/ SaveUsed(p)
  <2>1. \A q \in Procs \ {p} : pc'[q] = pc[q]
    BY <1>1, GotoOnly DEF SaveNag, Cleanup, SaveUsed
  <2> QED BY <1>1, <2>1, UnlockingStep DEF SaveNag, Cleanup, SaveUsed
<1>2. CASE \/ WaitReady(p) \/ LockAgent(p) \/ LockAgentFails(p) \/ Operate(p)
           \/ OperateNoGitDir(p) \/ Release(p)
  <2>1. \A q \in Procs \ {p} : pc'[q] = pc[q]
    BY <1>2, GotoOnly, FinishOnly
    DEF WaitReady, LockAgent, LockAgentFails, Operate, OperateNoGitDir, Release
  <2> QED BY <1>2, <2>1, HoldingStep
          DEF WaitReady, LockAgent, LockAgentFails, Operate, OperateNoGitDir, Release,
              At, Holding, Critical
<1> QED BY <1>1, <1>2

LEMMA LockStop ==
  ASSUME TypeOK, StorageLockIsShort, NEW p \in Procs,
         \/ PickStops(p) \/ PickReset(p) \/ StopOne(p) \/ StopWaited(p) \/ StopsSaved(p)
         \/ List(p) \/ ListFails(p)
  PROVE  StorageLockIsShort'
<1>1. CASE List(p) \/ ListFails(p)
  <2>1. \A q \in Procs \ {p} : pc'[q] = pc[q]
    BY <1>1, FinishOnly DEF List, ListFails
  <2> QED BY <1>1, <2>1, UnlockingStep DEF List, ListFails
<1>2. CASE PickReset(p) \/ StopOne(p) \/ StopWaited(p)
  <2>1. pc'[p] \in Holding /\ \A q \in Procs \ {p} : pc'[q] = pc[q]
    BY <1>2, GotoOnly DEF PickReset, StopOne, StopWaited, Holding
  <2> QED BY <1>2, <2>1, HoldingStep DEF PickReset, StopOne, StopWaited
<1>3. CASE PickStops(p)
  <2>1. \/ lock' = lock /\ \E loc : Goto(p, "stopping", loc)
        \/ Unlock(p) /\ ((\E loc : Goto(p, "initiate", loc)) \/ Finish(p))
    BY <1>3 DEF PickStops
  <2> QED BY <2>1, GotoOnly, FinishOnly, HoldingStep, UnlockingStep DEF Holding
<1>4. CASE StopsSaved(p)
  <2>1. \/ lock' = lock /\ Goto(p, "initiate", Away(me[p]))
        \/ Unlock(p) /\ (Goto(p, "initiate", Away(me[p])) \/ Finish(p))
    BY <1>4 DEF StopsSaved
  <2> QED BY <2>1, GotoOnly, FinishOnly, HoldingStep, UnlockingStep DEF Holding
<1> QED BY <1>1, <1>2, <1>3, <1>4

LEMMA NextLockShort == TypeOK /\ StorageLockIsShort /\ [Next]_vars => StorageLockIsShort'
<1> SUFFICES ASSUME TypeOK, StorageLockIsShort, [Next]_vars PROVE StorageLockIsShort'
  OBVIOUS
<1>1. CASE UNCHANGED vars
  BY <1>1 DEF vars, StorageLockIsShort
<1>2. ASSUME NEW p \in Procs, Crash(p) PROVE StorageLockIsShort'
  BY <1>2, FinishOnly, UnlockingStep DEF Crash
<1>3. ASSUME NEW r \in Runs, RunReady(r) \/ RunEnds(r) PROVE StorageLockIsShort'
  BY <1>3 DEF RunReady, RunEnds, StorageLockIsShort
<1> QED BY <1>1, <1>2, <1>3, LockBegin, LockSelect, LockStart, LockUse, LockStop DEF Next, Step

(* No process ever keeps the storage lock while it waits for a run, for the
   agent's lock, for a token or for a remote command, nor after its command
   is over: with any number of processes the two locks cannot form a cycle. *)
THEOREM LockIsShort == Spec => []StorageLockIsShort
BY InitLockShort, NextLockShort, TypeCorrect, PTL DEF Spec

-----------------------------------------------------------------------------
(* Scoped tokens.                                                          *)

(***************************************************************************)
(* TokenScope is not inductive by itself: the storage a process works on   *)
(* in memory must be scoped too, and a token that a process is about to    *)
(* write beside its run must have been requested for that run.             *)
(***************************************************************************)
Scoped(m) == \A k \in Keys : m[k].tok \in {None, m[k].run}

ScopedLocals(l, loc) ==
  /\ loc.mem \in Storage => Scoped(loc.mem)
  /\ l \in {"saveToken", "saveAttach"} => loc.tok \in {None, loc.run}

ScopeOK == \A p \in Procs : ScopedLocals(pc[p], me[p])
ScopeInv == TokenScope /\ ScopeOK

LEMMA GotoScoped ==
  ASSUME TypeOK, ScopeOK, NEW p \in Procs, NEW l, NEW loc, Goto(p, l, loc), ScopedLocals(l, loc)
  PROVE  ScopeOK'
BY DEF TypeOK, ScopeOK, Goto, ScopedLocals, Scoped

LEMMA UnloadedScoped ==
  ASSUME NEW l, NEW loc, loc.mem = NotLoaded, l \notin {"saveToken", "saveAttach"}
  PROVE  ScopedLocals(l, loc)
BY MemAssumption DEF ScopedLocals

LEMMA AwayScoped ==
  ASSUME NEW l, NEW loc \in Local, l \notin {"saveToken", "saveAttach"}
  PROVE  ScopedLocals(l, Away(loc))
<1>1. Away(loc).mem = NotLoaded
  BY DEF Away, Local
<1> QED BY <1>1, UnloadedScoped

LEMMA FinishScoped ==
  ASSUME TypeOK, ScopeOK, NEW p \in Procs, Finish(p)
  PROVE  ScopeOK'
<1>1. ScopedLocals("idle", Idle)
  BY UnloadedScoped DEF Idle
<1> QED BY <1>1, GotoScoped DEF Finish

LEMMA SetScoped ==
  ASSUME NEW m \in Storage, Scoped(m), NEW k, NEW s, s.tok \in {None, s.run}
  PROVE  Scoped(SetSession(m, k, s))
BY DEF Scoped, SetSession, Storage

LEMMA DeleteScoped ==
  ASSUME NEW m \in Storage, Scoped(m), NEW K
  PROVE  Scoped(DeleteSessions(m, K))
BY DEF Scoped, DeleteSessions, NoSession, NewSession

LEMMA SavesScoped ==
  ASSUME TokenScope, NEW m, Scoped(m), NEW f \in Saves(m)
  PROVE  Scoped(f)
BY DEF TokenScope, Scoped, Saves

LEMMA LookupScoped ==
  ASSUME NEW m \in Storage, Scoped(m), NEW k \in Keys, NEW l \in Lookup(m, k)
  PROVE  Scoped(l[1])
<1> DEFINE near == {a \in AncestorKeys(m, BranchOf(k)) : ConfigOf(a) = ConfigOf(k)}
<1>1. CASE Has(m, k) \/ near = {}
  <2>1. l = <<m, m[k]>>
    BY <1>1 DEF Lookup
  <2> QED BY <2>1
<1>2. CASE ~(Has(m, k) \/ near = {})
  <2>1. PICK a \in near : l = <<Rekeyed(m, a, k), m[a]>>
    BY <1>2 DEF Lookup
  <2>2. a \in Keys
    BY DEF AncestorKeys
  <2>3. Scoped(DeleteSessions(m, {a})) /\ DeleteSessions(m, {a}) \in Storage
    BY DeleteScoped, DeleteSessionsType
  <2>4. m[a].tok \in {None, m[a].run}
    BY <2>2 DEF Scoped
  <2>5. Scoped(Rekeyed(m, a, k))
    BY <2>3, <2>4, SetScoped DEF Rekeyed
  <2> QED BY <2>1, <2>5
<1> QED BY <1>1, <1>2

LEMMA LookupBranchScoped ==
  ASSUME NEW m \in Storage, Scoped(m), NEW b \in Branches, NEW l \in LookupBranch(m, b)
  PROVE  Scoped(l[1])
<1> DEFINE near == AncestorKeys(m, b)
           now(a) == <<b, ConfigOf(a)>>
           last == {f \in [Configs -> near] :
                      \A c \in Configs : (\E a \in near : ConfigOf(a) = c) => ConfigOf(f[c]) = c}
           moved(f) == [k \in Keys |->
                          IF BranchOf(k) = b /\ (\E a \in near : ConfigOf(a) = ConfigOf(k))
                            THEN m[f[ConfigOf(k)]]
                          ELSE IF k \in near THEN NoSession ELSE m[k]]
<1>1. CASE SessionsForBranch(m, b) # {} \/ near = {}
  <2>1. l = <<m, SessionsForBranch(m, b)>>
    BY <1>1 DEF LookupBranch
  <2> QED BY <2>1
<1>2. CASE ~(SessionsForBranch(m, b) # {} \/ near = {})
  <2>1. PICK f \in last : l = <<moved(f), {<<now(a), m[a]>> : a \in near}>>
    BY <1>2 DEF LookupBranch
  <2>2. \A k \in Keys : ConfigOf(k) \in Configs
    BY DEF Keys, ConfigOf
  <2>3. \A c \in Configs : f[c] \in Keys
    BY DEF AncestorKeys
  <2>4. \A k \in Keys : m[f[ConfigOf(k)]].tok \in {None, m[f[ConfigOf(k)]].run}
    BY <2>2, <2>3 DEF Scoped
  <2>5. ASSUME NEW k \in Keys PROVE moved(f)[k].tok \in {None, moved(f)[k].run}
    <3>1. NoSession.tok = None
      BY DEF NoSession, NewSession
    <3>2. m[k].tok \in {None, m[k].run}
      BY DEF Scoped
    <3>3. moved(f)[k] \in {m[f[ConfigOf(k)]], NoSession, m[k]}
      OBVIOUS
    <3> HIDE DEF moved
    <3> QED BY <2>4, <3>1, <3>2, <3>3
  <2>6. Scoped(moved(f))
    BY <2>5 DEF Scoped
  <2> QED BY <2>1, <2>6
<1> QED BY <1>1, <1>2

(* The session put over whatever the loaded storage holds is scoped. *)
LEMMA PutScoped ==
  ASSUME TypeInv, ScopeInv, NEW p \in Procs, me[p].mem # NotLoaded, Loaded(p),
         NEW r, NEW t \in {None, r},
         file' \in Saves(SetSession(me[p].mem, me[p].key, NewSession(r, t)))
  PROVE  TokenScope'
<1>1. me[p].mem \in Storage
  BY LoadedType DEF TypeInv
<1>2. Scoped(me[p].mem)
  BY <1>1 DEF ScopeInv, ScopeOK, ScopedLocals
<1>3. Scoped(SetSession(me[p].mem, me[p].key, NewSession(r, t)))
  BY <1>1, <1>2, SetScoped DEF NewSession
<1>4. Scoped(file')
  BY <1>3, SavesScoped DEF ScopeInv
<1> QED BY <1>4 DEF TokenScope, Scoped

(* Rewriting the session found at a key keeps its run and its token. *)
LEMMA RewriteScoped ==
  ASSUME TypeInv, ScopeInv, NEW p \in Procs, me[p].mem # NotLoaded, NEW s,
         \/ s = [me[p].mem[me[p].key] EXCEPT !.nag = TRUE]
         \/ s = [me[p].mem[me[p].key] EXCEPT !.used = TRUE],
         file' \in Rewrite(p, s)
  PROVE  TokenScope'
<1>1. me[p].key \in Keys \cup {None}
  BY DEF TypeInv, TypeOK, Local
<1>2. CASE Loaded(p) /\ me[p].key # None
  <2>1. me[p].mem \in Storage
    BY <1>2, LoadedType DEF TypeInv
  <2>2. Scoped(me[p].mem)
    BY <2>1 DEF ScopeInv, ScopeOK, ScopedLocals
  <2>3. me[p].mem[me[p].key] \in Session
    BY <1>1, <1>2, <2>1 DEF Storage
  <2>4. s.tok \in {None, s.run}
    BY <1>1, <1>2, <2>2, <2>3 DEF Scoped, Session
  <2>5. Scoped(SetSession(me[p].mem, me[p].key, s))
    BY <2>1, <2>2, <2>4, SetScoped
  <2>6. Scoped(file) /\ \A f \in Saves(SetSession(me[p].mem, me[p].key, s)) : Scoped(f)
    BY <2>5, SavesScoped DEF ScopeInv, TokenScope, Scoped
  <2> QED BY <2>6 DEF Rewrite, TokenScope, Scoped
<1> QED BY <1>2 DEF Rewrite, ScopeInv, TokenScope

LEMMA InitScope == Init => ScopeInv
<1> SUFFICES ASSUME Init PROVE ScopeInv
  OBVIOUS
<1>1. TokenScope
  BY DEF Init, TokenScope, EmptyStorage, NoSession, NewSession
<1>2. ScopedLocals("idle", Idle)
  BY UnloadedScoped DEF Idle
<1> QED BY <1>1, <1>2 DEF Init, ScopeInv, ScopeOK

LEMMA ScopeBegin ==
  ASSUME TypeInv, ScopeInv, NEW p \in Procs,
         \/ Begin(p) \/ BeginWithRun(p) \/ BeginStopRun(p) \/ Acquire(p)
         \/ LockFails(p) \/ Check(p) \/ CheckActive(p)
  PROVE  ScopeInv'
<1>t. TypeOK /\ TokenScope /\ ScopeOK /\ ScopedLocals(pc[p], me[p])
  BY DEF TypeInv, ScopeInv, ScopeOK
<1>l. /\ me[p] \in Local /\ pc[p] \in Labels
      /\ me \in [Procs -> Local] /\ pc \in [Procs -> Labels]
  BY DEF TypeInv, TypeOK
<1>m. \A m \in Loads : m \in Storage => Scoped(m)
  BY MemAssumption DEF Loads, ScopeInv, TokenScope, Scoped
<1>1. CASE Begin(p) \/ BeginWithRun(p) \/ BeginStopRun(p)
  <2> DEFINE Fresh == /\ pc'[p] \notin {"saveToken", "saveAttach"} /\ me'[p].mem = NotLoaded
                      /\ \A q \in Procs \ {p} : pc'[q] = pc[q] /\ me'[q] = me[q]
  <2>1. ASSUME Begin(p) PROVE Fresh
    <3>1. PICK op \in Commands \ {"attach", "execId", "pushId", "stopId"}, k \in Keys, named \in BOOLEAN :
            Goto(p, CASE op = "start" -> "check"
                      [] op \in {"exec", "execReset", "push"} -> "select"
                      [] op \in {"stop", "stopAll"} -> "stop"
                      [] op = "reset" -> "reset"
                      [] op = "list" -> "list",
                 [Idle EXCEPT !.op = op, !.key = k, !.flag = named])
      BY <2>1 DEF Begin
    <3>2. op \in {"start", "exec", "execReset", "push", "stop", "stopAll", "reset", "list"}
      BY CommandsAssumption DEF AllCommands
    <3>3. [Idle EXCEPT !.op = op, !.key = k, !.flag = named].mem = NotLoaded
      BY DEF Idle
    <3>4. Fresh
      BY <1>l, <3>1, <3>2, <3>3 DEF Goto
    <3> QED BY <3>4
  <2>2. ASSUME BeginWithRun(p) PROVE Fresh
    <3>1. PICK op \in Commands, r \in Runs, m \in Loads, k \in Keys \cup {None} :
            LET found == IF m = LoadFailed THEN {} ELSE KeysOfRun(m, r)
            IN  \E s \in IF found = {} THEN {NoSession} ELSE {m[j] : j \in found} :
                  Goto(p, IF op = "attach" THEN "reattach"
                          ELSE IF op = "execId" /\ s.used /\ ~s.nag THEN "saveNag" ELSE "waitReady",
                       [Idle EXCEPT !.op = op, !.key = k, !.run = r, !.tok = s.tok,
                                    !.flag = (found # {} \/ m = LoadFailed)])
      BY <2>2, ZenonT(60) DEF BeginWithRun
    <3> DEFINE found == IF m = LoadFailed THEN {} ELSE KeysOfRun(m, r)
               some == IF found = {} THEN {NoSession} ELSE {m[j] : j \in found}
               b == (found # {} \/ m = LoadFailed)
    <3>2. PICK s \in some :
            Goto(p, IF op = "attach" THEN "reattach"
                    ELSE IF op = "execId" /\ s.used /\ ~s.nag THEN "saveNag" ELSE "waitReady",
                 [Idle EXCEPT !.op = op, !.key = k, !.run = r, !.tok = s.tok, !.flag = b])
      BY <3>1
    <3> HIDE DEF some, b
    <3>3. [Idle EXCEPT !.op = op, !.key = k, !.run = r, !.tok = s.tok, !.flag = b].mem = NotLoaded
      BY DEF Idle
    <3>4. Fresh
      BY <1>l, <3>2, <3>3 DEF Goto
    <3> QED BY <3>4
  <2>3. ASSUME BeginStopRun(p) PROVE Fresh
    <3>1. PICK r \in Runs : Goto(p, "stop", [Idle EXCEPT !.op = "stopId", !.run = r])
      BY <2>3 DEF BeginStopRun
    <3>2. [Idle EXCEPT !.op = "stopId", !.run = r].mem = NotLoaded
      BY DEF Idle
    <3>3. Fresh
      BY <1>l, <3>1, <3>2 DEF Goto
    <3> QED BY <3>3
  <2>4. Fresh
    BY <1>1, <2>1, <2>2, <2>3
  <2>5. ScopeOK'
    BY <1>t, <2>4, MemAssumption DEF ScopeOK, ScopedLocals, Scoped
  <2> QED BY <1>1, <1>t, <2>5 DEF Begin, BeginWithRun, BeginStopRun, ScopeInv, TokenScope
<1>4. CASE Acquire(p)
  <2>1. PICK m \in Loads : me' = [me EXCEPT ![p].mem = m]
    BY <1>4 DEF Acquire
  <2>2. pc' = [pc EXCEPT ![p] = pc[p]] /\ me' = [me EXCEPT ![p] = [me[p] EXCEPT !.mem = m]]
    BY <1>4, <1>l, <2>1 DEF Acquire
  <2>3. ScopedLocals(pc[p], [me[p] EXCEPT !.mem = m])
    BY <1>t, <1>l, <1>m DEF ScopedLocals, Local
  <2>4. ScopeOK'
    BY <1>t, <2>2, <2>3, GotoScoped DEF Goto
  <2> QED BY <1>4, <1>t, <2>4 DEF Acquire, ScopeInv, TokenScope
<1>5. CASE LockFails(p)
  <2>1. \/ \E m \in Loads : Goto(p, pc[p], [me[p] EXCEPT !.mem = m])
        \/ \E l \in {"initiate", "waitReady", "release"} : Goto(p, l, me[p])
        \/ Finish(p)
    BY <1>5 DEF LockFails, Critical
  <2>2. \A m \in Loads : ScopedLocals(pc[p], [me[p] EXCEPT !.mem = m])
    BY <1>t, <1>l, <1>m DEF ScopedLocals, Local
  <2>3. \A l \in {"initiate", "waitReady", "release"} : ScopedLocals(l, me[p])
    BY <1>t DEF ScopedLocals
  <2>4. ScopeOK'
    BY <1>t, <2>1, <2>2, <2>3, GotoScoped, FinishScoped
  <2> QED BY <1>5, <1>t, <2>4 DEF LockFails, ScopeInv, TokenScope
<1>6. CASE Check(p)
  <2>1. CASE Loaded(p)
    <3>1. PICK found \in Lookup(me[p].mem, me[p].key) :
            /\ file' \in IF found[1] = me[p].mem THEN {file} ELSE Saves(found[1])
            /\ Goto(p, IF found[2] = NoSession THEN "initiate" ELSE "active",
                    [Away(me[p]) EXCEPT !.run = found[2].run, !.tok = found[2].tok])
      BY <1>6, <2>1 DEF Check
    <3>2. me[p].mem \in Storage
      BY <1>6, <2>1, LoadedType DEF Check, At, Critical, TypeInv
    <3>3. me[p].key \in Keys
      BY <1>6 DEF Check, At, TypeInv, ProcsOK, Fits, KeyedLabels
    <3>4. Scoped(me[p].mem)
      BY <1>t, <3>2 DEF ScopedLocals
    <3>5. Scoped(found[1])
      BY <3>2, <3>3, <3>4, LookupScoped
    <3>6. Scoped(file')
      BY <1>t, <3>1, <3>5, SavesScoped DEF TokenScope, Scoped
    <3> DEFINE loc == [Away(me[p]) EXCEPT !.run = found[2].run, !.tok = found[2].tok]
    <3>7. loc.mem = NotLoaded
      BY <1>l DEF Away, Local
    <3> HIDE DEF loc
    <3>8. ScopedLocals("initiate", loc) /\ ScopedLocals("active", loc)
      BY <3>7, UnloadedScoped
    <3>9. ScopeOK'
      BY <1>t, <3>1, <3>8, GotoScoped DEF loc
    <3> QED BY <3>6, <3>9 DEF ScopeInv, TokenScope, Scoped
  <2>2. CASE ~Loaded(p)
    BY <1>6, <2>2, <1>t, <1>l, AwayScoped, GotoScoped DEF Check, ScopeInv, TokenScope
  <2> QED BY <2>1, <2>2
<1>7. CASE CheckActive(p)
  <2>1. ScopedLocals("initiate", me[p]) /\ ScopedLocals("stop", me[p])
    BY <1>t DEF ScopedLocals
  <2>2. ScopeOK'
    BY <1>7, <1>t, <2>1, GotoScoped, FinishScoped DEF CheckActive
  <2> QED BY <1>7, <1>t, <2>2 DEF CheckActive, ScopeInv, TokenScope
<1> QED BY <1>1, <1>4, <1>5, <1>6, <1>7

LEMMA ScopeSelect ==
  ASSUME TypeInv, ScopeInv, NEW p \in Procs,
         \/ Select(p) \/ Prune(p) \/ Reuse(p) \/ NothingToUse(p)
         \/ ReplaceChosen(p) \/ CreateMissing(p)
  PROVE  ScopeInv'
<1>t. /\ TypeOK /\ TokenScope /\ ScopeOK /\ Scoped(file)
      /\ ScopedLocals(pc[p], me[p]) /\ me[p] \in Local
  BY DEF TypeInv, TypeOK, ScopeInv, ScopeOK, TokenScope, Scoped
<1>1. CASE Select(p)
  <2> DEFINE m == IF Loaded(p) THEN me[p].mem ELSE EmptyStorage
             k == me[p].key
             choices == IF me[p].flag
                          THEN {<<l[1], IF l[2] = NoSession THEN {} ELSE {<<k, l[2]>>}>> : l \in Lookup(m, k)}
                          ELSE LookupBranch(m, BranchOf(k))
  <2>1. k \in Keys /\ BranchOf(k) \in Branches
    BY <1>1 DEF Select, At, TypeInv, ProcsOK, Fits, KeyedLabels, Keys, BranchOf
  <2>2. m \in Storage
    BY <1>1, LoadedType, EmptyStorageType DEF Select, At, Critical, TypeInv
  <2>3. Scoped(m)
    BY <1>t, <2>2 DEF ScopedLocals, EmptyStorage, Scoped, NoSession, NewSession
  <2>4. PICK found \in choices :
          /\ file' \in IF found[1] = m THEN {file} ELSE Saves(found[1])
          /\ Goto(p, "prune", [me[p] EXCEPT !.mem = found[1], !.cand = found[2], !.flag = FALSE])
    BY <1>1 DEF Select
  <2>5. Scoped(found[1])
    <3>1. CASE me[p].flag
      <4>1. PICK l \in Lookup(m, k) : found = <<l[1], IF l[2] = NoSession THEN {} ELSE {<<k, l[2]>>}>>
        BY <2>4, <3>1
      <4>2. Scoped(l[1])
        BY <2>1, <2>2, <2>3, LookupScoped
      <4> HIDE DEF m, k
      <4> QED BY <4>1, <4>2
    <3>2. CASE ~me[p].flag
      BY <2>1, <2>2, <2>3, <2>4, <3>2, LookupBranchScoped
    <3> QED BY <3>1, <3>2
  <2> HIDE DEF choices, m, k
  <2>6. Scoped(file')
    BY <1>t, <2>4, <2>5, SavesScoped
  <2>7. [me[p] EXCEPT !.mem = found[1], !.cand = found[2], !.flag = FALSE].mem = found[1]
    BY <1>t DEF Local
  <2>8. ScopedLocals("prune", [me[p] EXCEPT !.mem = found[1], !.cand = found[2], !.flag = FALSE])
    BY <2>5, <2>7 DEF ScopedLocals
  <2>9. ScopeOK'
    BY <1>t, <2>4, <2>8, GotoScoped
  <2> QED BY <2>6, <2>9 DEF ScopeInv, TokenScope, Scoped
<1>2. CASE Prune(p)
  <2>1. PICK dead \in SUBSET me[p].cand :
          /\ file' \in IF dead = {} THEN {file} ELSE Saves(DeleteSessions(me[p].mem, {c[1] : c \in dead}))
          /\ Goto(p, "resolved", [me[p] EXCEPT !.mem = DeleteSessions(me[p].mem, {c[1] : c \in dead}),
                                               !.cand = @ \ dead])
    BY <1>2 DEF Prune
  <2> DEFINE kept == DeleteSessions(me[p].mem, {c[1] : c \in dead})
             loc == [me[p] EXCEPT !.mem = kept, !.cand = @ \ dead]
  <2>2. me[p].mem \in Storage
    BY <1>2 DEF TypeInv, ProcsOK, Fits, WorkingLabels, Prune, At
  <2>3. Scoped(kept)
    BY <1>t, <2>2, DeleteScoped DEF ScopedLocals
  <2>4. Scoped(file')
    BY <1>t, <2>1, <2>3, SavesScoped
  <2> HIDE DEF kept
  <2>5. loc.mem = kept
    BY <1>t DEF Local
  <2> HIDE DEF loc
  <2>6. ScopedLocals("resolved", loc)
    BY <2>3, <2>5 DEF ScopedLocals
  <2>7. ScopeOK'
    BY <1>t, <2>1, <2>6, GotoScoped DEF loc, kept
  <2> QED BY <2>4, <2>7 DEF ScopeInv, TokenScope, Scoped
<1>3. CASE Reuse(p)
  <2>1. PICK c \in Chosen(p) :
          Goto(p, IF me[p].op = "exec" /\ c[2].used /\ ~c[2].nag THEN "saveNag" ELSE "waitReady",
               [Away(me[p]) EXCEPT !.run = c[2].run, !.tok = c[2].tok])
    BY <1>3 DEF Reuse
  <2> DEFINE loc == [Away(me[p]) EXCEPT !.run = c[2].run, !.tok = c[2].tok]
  <2>2. loc.mem = NotLoaded
    BY <1>t DEF Away, Local
  <2> HIDE DEF loc
  <2>3. ScopedLocals("saveNag", loc) /\ ScopedLocals("waitReady", loc)
    BY <2>2, UnloadedScoped
  <2>4. ScopeOK'
    BY <1>t, <2>1, <2>3, GotoScoped DEF loc
  <2> QED BY <1>3, <1>t, <2>4 DEF Reuse, ScopeInv, TokenScope
<1>4. CASE NothingToUse(p)
  BY <1>4, <1>t, FinishScoped DEF NothingToUse, ScopeInv, TokenScope
<1>5. CASE ReplaceChosen(p)
  <2>1. \A c : [me[p] EXCEPT !.cand = {c}].mem = me[p].mem
    BY <1>t DEF Local
  <2>2. \A c : ScopedLocals("stopping", [me[p] EXCEPT !.cand = {c}])
    BY <1>t, <2>1 DEF ScopedLocals
  <2>3. ScopeOK'
    BY <1>5, <1>t, <2>2, GotoScoped DEF ReplaceChosen
  <2> QED BY <1>5, <1>t, <2>3 DEF ReplaceChosen, ScopeInv, TokenScope
<1>6. CASE CreateMissing(p)
  BY <1>6, <1>t, AwayScoped, GotoScoped DEF CreateMissing, ScopeInv, TokenScope
<1> QED BY <1>1, <1>2, <1>3, <1>4, <1>5, <1>6

LEMMA ScopeStart ==
  ASSUME TypeInv, ScopeInv, NEW p \in Procs,
         \/ Initiate(p) \/ InitiateFails(p) \/ Persist(p) \/ RequestToken(p)
         \/ SaveToken(p) \/ RereadToken(p) \/ Reattach(p) \/ SaveAttach(p)
  PROVE  ScopeInv'
<1>t. /\ TypeOK /\ TokenScope /\ ScopeOK
      /\ ScopedLocals(pc[p], me[p]) /\ me[p] \in Local
  BY DEF TypeInv, TypeOK, ScopeInv, ScopeOK
<1>1. CASE Initiate(p)
  <2>1. PICK r \in Runs : Goto(p, "persist", [Away(me[p]) EXCEPT !.run = r, !.tok = None])
    BY <1>1 DEF Initiate
  <2> DEFINE loc == [Away(me[p]) EXCEPT !.run = r, !.tok = None]
  <2>2. loc.mem = NotLoaded
    BY <1>t DEF Away, Local
  <2> HIDE DEF loc
  <2>3. ScopedLocals("persist", loc)
    BY <2>2, UnloadedScoped
  <2>4. ScopeOK'
    BY <1>t, <2>1, <2>3, GotoScoped DEF loc
  <2> QED BY <1>1, <1>t, <2>4 DEF Initiate, ScopeInv, TokenScope
<1>2. CASE InitiateFails(p)
  BY <1>2, <1>t, FinishScoped DEF InitiateFails, ScopeInv, TokenScope
<1>3. CASE Persist(p)
  <2>1. TokenScope'
    BY <1>3, <1>t, PutScoped DEF Persist, At, Critical, TokenScope
  <2> DEFINE loc == [Away(me[p]) EXCEPT !.flag = Loaded(p)]
  <2>2. loc.mem = NotLoaded
    BY <1>t DEF Away, Local
  <2> HIDE DEF loc
  <2>3. ScopedLocals("token", loc)
    BY <2>2, UnloadedScoped
  <2>4. ScopeOK'
    BY <1>3, <1>t, <2>3, GotoScoped DEF Persist, loc
  <2> QED BY <2>1, <2>4 DEF ScopeInv
<1>4. CASE RequestToken(p)
  <2>1. PICK t \in Tokens(me[p].run) :
          IF me[p].flag THEN Goto(p, "saveToken", [Away(me[p]) EXCEPT !.tok = t])
                        ELSE AfterStart(p, me[p])
    BY <1>4 DEF RequestToken
  <2> DEFINE loc == [Away(me[p]) EXCEPT !.tok = t]
  <2>2. loc.mem = NotLoaded /\ loc.tok = t /\ loc.run = me[p].run
    BY <1>t DEF Away, Local
  <2> HIDE DEF loc
  <2>3. t \in {None, me[p].run}
    BY DEF Tokens
  <2>4. ScopedLocals("saveToken", loc)
    BY <2>2, <2>3, MemAssumption DEF ScopedLocals
  <2>5. ScopeOK'
    BY <1>t, <2>1, <2>4, GotoScoped, FinishScoped, AwayScoped DEF loc, AfterStart
  <2> QED BY <1>4, <1>t, <2>5 DEF RequestToken, ScopeInv, TokenScope
<1>5. CASE SaveToken(p)
  <2>1. me[p].tok \in {None, me[p].run}
    BY <1>5, <1>t DEF SaveToken, At, ScopedLocals
  <2>2. TokenScope'
    BY <1>5, <1>t, <2>1, PutScoped DEF SaveToken, At, Critical, TokenScope
  <2>3. ScopeOK'
    BY <1>5, <1>t, GotoScoped, FinishScoped, AwayScoped DEF SaveToken, AfterStart
  <2> QED BY <2>2, <2>3 DEF ScopeInv
<1>6. CASE RereadToken(p)
  <2>1. PICK t : Goto(p, "waitReady", [me[p] EXCEPT !.tok = t])
    BY <1>6 DEF RereadToken
  <2>2. [me[p] EXCEPT !.tok = t].mem = me[p].mem
    BY <1>t DEF Local
  <2>3. ScopedLocals("waitReady", [me[p] EXCEPT !.tok = t])
    BY <1>t, <2>2 DEF ScopedLocals
  <2>4. ScopeOK'
    BY <1>t, <2>1, <2>3, GotoScoped
  <2> QED BY <1>6, <1>t, <2>4 DEF RereadToken, ScopeInv, TokenScope
<1>7. CASE Reattach(p)
  <2>1. PICK t \in Tokens(me[p].run) :
          Goto(p, "saveAttach", [me[p] EXCEPT !.tok = t]) \/ Finish(p)
    BY <1>7 DEF Reattach
  <2> DEFINE loc == [me[p] EXCEPT !.tok = t]
  <2>2. loc.mem = me[p].mem /\ loc.tok = t /\ loc.run = me[p].run /\ t \in {None, me[p].run}
    BY <1>t DEF Local, Tokens
  <2> HIDE DEF loc
  <2>3. ScopedLocals("saveAttach", loc)
    BY <1>t, <2>2 DEF ScopedLocals
  <2>4. ScopeOK'
    BY <1>t, <2>1, <2>3, GotoScoped, FinishScoped DEF loc
  <2> QED BY <1>7, <1>t, <2>4 DEF Reattach, ScopeInv, TokenScope
<1>8. CASE SaveAttach(p)
  <2>1. me[p].tok \in {None, me[p].run}
    BY <1>8, <1>t DEF SaveAttach, At, ScopedLocals
  <2>2. TokenScope'
    BY <1>8, <1>t, <2>1, PutScoped DEF SaveAttach, At, Critical, TokenScope
  <2> QED BY <1>8, <1>t, <2>2, FinishScoped DEF SaveAttach, ScopeInv
<1> QED BY <1>1, <1>2, <1>3, <1>4, <1>5, <1>6, <1>7, <1>8

LEMMA ScopeUse ==
  ASSUME TypeInv, ScopeInv, NEW p \in Procs,
         \/ SaveNag(p) \/ WaitReady(p) \/ LockAgent(p) \/ LockAgentFails(p) \/ Operate(p)
         \/ OperateNoGitDir(p) \/ Cleanup(p) \/ SaveUsed(p) \/ Release(p)
  PROVE  ScopeInv'
<1>t. /\ TypeOK /\ TokenScope /\ ScopeOK /\ Scoped(file)
      /\ ScopedLocals(pc[p], me[p]) /\ me[p] \in Local
  BY DEF TypeInv, TypeOK, ScopeInv, ScopeOK, TokenScope, Scoped
<1>f. \A l \in {"waitReady", "agent", "operate", "release", "saveUsed", "cleanup"} :
        ScopedLocals(l, me[p]) /\ ScopedLocals(l, Away(me[p]))
  BY <1>t, AwayScoped DEF ScopedLocals
<1>1. CASE SaveNag(p) \/ SaveUsed(p)
  <2>1. TokenScope'
    BY <1>1, RewriteScoped DEF SaveNag, SaveUsed, At, Critical
  <2>2. ScopeOK'
    BY <1>1, <1>t, <1>f, GotoScoped DEF SaveNag, SaveUsed
  <2> QED BY <2>1, <2>2 DEF ScopeInv
<1>2. CASE \/ WaitReady(p) \/ LockAgent(p) \/ LockAgentFails(p) \/ Operate(p)
           \/ OperateNoGitDir(p) \/ Release(p)
  <2>1. ScopeOK'
    BY <1>2, <1>t, <1>f, GotoScoped, FinishScoped
    DEF WaitReady, LockAgent, LockAgentFails, Operate, OperateNoGitDir, Release
  <2>2. file' = file
    BY <1>2 DEF WaitReady, LockAgent, LockAgentFails, Operate, OperateNoGitDir, Release
  <2> QED BY <1>t, <2>1, <2>2 DEF ScopeInv, TokenScope
<1>3. CASE Cleanup(p)
  <2>1. ASSUME Loaded(p) PROVE me[p].mem \in Storage /\ Scoped(me[p].mem)
    BY <1>3, <1>t, <2>1, LoadedType DEF Cleanup, At, Critical, TypeInv, ScopedLocals
  <2> DEFINE mine == IF Loaded(p) THEN KeysOfRun(me[p].mem, me[p].run) ELSE {}
  <2>2. \/ file' \in IF Loaded(p) THEN Saves(me[p].mem) ELSE {file}
        \/ \E k \in mine : file' \in Saves(DeleteSessions(me[p].mem, {k}))
    BY <1>3 DEF Cleanup
  <2>3. ASSUME NEW k \in mine PROVE Scoped(DeleteSessions(me[p].mem, {k}))
    <3>1. Loaded(p)
      BY <2>3
    <3> QED BY <2>1, <3>1, DeleteScoped
  <2>4. Scoped(file')
    BY <1>t, <2>1, <2>2, <2>3, SavesScoped
  <2>5. ScopeOK'
    BY <1>3, <1>t, <1>f, GotoScoped DEF Cleanup
  <2> QED BY <2>4, <2>5 DEF ScopeInv, TokenScope, Scoped
<1> QED BY <1>1, <1>2, <1>3

LEMMA ScopePick ==
  ASSUME TypeInv, ScopeInv, NEW p \in Procs, PickStops(p) \/ PickReset(p)
  PROVE  ScopeInv'
<1>t. /\ TypeOK /\ TokenScope /\ ScopeOK /\ Scoped(file)
      /\ ScopedLocals(pc[p], me[p]) /\ me[p] \in Local
  BY DEF TypeInv, TypeOK, ScopeInv, ScopeOK, TokenScope, Scoped
<1>i. ScopedLocals("initiate", Away(me[p]))
  BY <1>t, AwayScoped
<1>m. ASSUME Loaded(p) PROVE me[p].mem \in Storage /\ Scoped(me[p].mem)
  BY <1>t, <1>m, LoadedType DEF PickStops, PickReset, At, Critical, TypeInv, ScopedLocals
<1>s. ASSUME NEW m, NEW c, Scoped(m) PROVE ScopedLocals("stopping", [me[p] EXCEPT !.mem = m, !.cand = c])
  <2>1. [me[p] EXCEPT !.mem = m, !.cand = c].mem = m
    BY <1>t DEF Local
  <2> QED BY <1>s, <2>1 DEF ScopedLocals
<1>1. ASSUME PickStops(p) PROVE ScopeInv'
  <2> DEFINE m == me[p].mem
             byRun == {<<m, {<<k, m[k]>>}>> : k \in KeysOfRun(m, me[p].run)}
             found == IF ~Loaded(p) THEN {}
                      ELSE CASE me[p].op = "stopAll" ->
                                  {<<m, {<<k, m[k]>> : k \in {j \in Keys : Has(m, j)}}>>}
                             [] me[p].op = "stop" ->
                                  {l \in LookupBranch(m, BranchOf(me[p].key)) : l[2] # {}}
                             [] OTHER -> byRun
  <2>1. CASE found = {} /\ file' = file
    <3>1. Goto(p, "initiate", Away(me[p])) \/ Finish(p)
      BY <1>1, <2>1 DEF PickStops
    <3>2. ScopeOK'
      BY <1>t, <1>i, <3>1, GotoScoped, FinishScoped
    <3> QED BY <1>t, <2>1, <3>2 DEF ScopeInv, TokenScope
  <2>2. ASSUME NEW f \in found,
               file' \in IF f[1] = m THEN {file} ELSE Saves(f[1]),
               Goto(p, "stopping", [me[p] EXCEPT !.mem = f[1], !.cand = f[2]])
        PROVE  ScopeInv'
    <3>1. Loaded(p) /\ m \in Storage /\ Scoped(m)
      BY <1>m, <2>2
    <3>2. Scoped(f[1])
      <4>1. CASE me[p].op = "stop"
        <5>1. f \in LookupBranch(m, BranchOf(me[p].key))
          BY <2>2, <3>1, <4>1
        <5>2. me[p].key \in Keys
          BY <4>1 DEF TypeInv, ProcsOK, Fits, Keyed, AllCommands
        <5>3. BranchOf(me[p].key) \in Branches
          BY <5>2 DEF Keys, BranchOf
        <5> HIDE DEF m
        <5> QED BY <3>1, <5>1, <5>3, LookupBranchScoped
      <4>2. CASE me[p].op # "stop"
        <5>1. f[1] = m
          BY <2>2, <3>1, <4>2
        <5> HIDE DEF m
        <5> QED BY <3>1, <5>1
      <4> QED BY <4>1, <4>2
    <3> HIDE DEF found
    <3>3. Scoped(file')
      BY <1>t, <2>2, <3>2, SavesScoped
    <3>4. ScopeOK'
      BY <1>t, <1>s, <2>2, <3>2, GotoScoped
    <3> QED BY <3>3, <3>4 DEF ScopeInv, TokenScope, Scoped
  <2> QED BY <1>1, <2>1, <2>2 DEF PickStops
<1>2. ASSUME PickReset(p) PROVE ScopeInv'
  <2>0. me[p].key \in Keys
    BY <1>2 DEF PickReset, At, TypeInv, ProcsOK, Fits, KeyedLabels
  <2> DEFINE found == IF Loaded(p) THEN Lookup(me[p].mem, me[p].key) ELSE {<<EmptyStorage, NoSession>>}
  <2>1. PICK f \in found :
          IF f[2] = NoSession
            THEN Goto(p, "initiate", Away(me[p]))
            ELSE Goto(p, "stopping", [me[p] EXCEPT !.mem = f[1], !.cand = {<<me[p].key, f[2]>>}])
    BY <1>2 DEF PickReset
  <2>2. CASE f[2] = NoSession
    BY <1>2, <1>t, <1>i, <2>1, <2>2, GotoScoped DEF PickReset, ScopeInv, TokenScope
  <2>3. CASE f[2] # NoSession
    <3>1. Loaded(p) /\ f \in Lookup(me[p].mem, me[p].key)
      BY <2>1, <2>3
    <3>2. Scoped(f[1])
      BY <1>m, <2>0, <3>1, LookupScoped
    <3> DEFINE one == {<<me[p].key, f[2]>>}
    <3>3. Goto(p, "stopping", [me[p] EXCEPT !.mem = f[1], !.cand = one])
      BY <2>1, <2>3
    <3> HIDE DEF one
    <3>4. ScopeOK'
      BY <1>t, <1>s, <3>2, <3>3, GotoScoped
    <3> QED BY <1>2, <1>t, <3>4 DEF PickReset, ScopeInv, TokenScope
  <2> QED BY <2>2, <2>3
<1> QED BY <1>1, <1>2

LEMMA ScopeStop ==
  ASSUME TypeInv, ScopeInv, NEW p \in Procs, StopOne(p) \/ StopWaited(p) \/ StopsSaved(p)
  PROVE  ScopeInv'
<1>t. /\ TypeOK /\ TokenScope /\ ScopeOK /\ Scoped(file)
      /\ ScopedLocals(pc[p], me[p]) /\ me[p] \in Local
  BY DEF TypeInv, TypeOK, ScopeInv, ScopeOK, TokenScope, Scoped
<1>m. me[p].mem \in Storage /\ Scoped(me[p].mem)
  BY <1>t DEF StopOne, StopWaited, StopsSaved, At, TypeInv, ProcsOK, Fits, WorkingLabels, ScopedLocals
<1>d. ASSUME NEW c PROVE ScopedLocals("stopping", Dropped(p, c))
  <2> DEFINE kept == DeleteSessions(me[p].mem, {c[1]})
             loc == [me[p] EXCEPT !.mem = kept, !.cand = @ \ {c}, !.at = None, !.run = None]
  <2>1. Scoped(kept)
    BY <1>m, DeleteScoped
  <2> HIDE DEF kept
  <2>2. loc.mem = kept
    BY <1>t DEF Local
  <2> HIDE DEF loc
  <2>3. ScopedLocals("stopping", loc)
    BY <2>1, <2>2 DEF ScopedLocals
  <2> QED BY <2>3 DEF loc, kept, Dropped
<1>1. CASE StopOne(p)
  <2>1. PICK c \in me[p].cand :
          \/ Goto(p, "stopWait", [me[p] EXCEPT !.at = c[1], !.run = c[2].run, !.tok = c[2].tok])
          \/ Goto(p, "stopping", Dropped(p, c))
    BY <1>1 DEF StopOne
  <2> DEFINE loc == [me[p] EXCEPT !.at = c[1], !.run = c[2].run, !.tok = c[2].tok]
  <2>2. loc.mem = me[p].mem
    BY <1>t DEF Local
  <2> HIDE DEF loc
  <2>3. ScopedLocals("stopWait", loc)
    BY <1>m, <2>2 DEF ScopedLocals
  <2>4. ScopeOK'
    BY <1>t, <1>d, <2>1, <2>3, GotoScoped DEF loc
  <2> QED BY <1>1, <1>t, <2>4 DEF StopOne, ScopeInv, TokenScope
<1>2. CASE StopWaited(p)
  <2>1. ScopeOK'
    BY <1>2, <1>t, <1>d, GotoScoped DEF StopWaited
  <2> QED BY <1>2, <1>t, <2>1 DEF StopWaited, ScopeInv, TokenScope
<1>3. CASE StopsSaved(p)
  <2>1. Scoped(file')
    BY <1>3, <1>t, <1>m, SavesScoped DEF StopsSaved
  <2>2. ScopeOK'
    BY <1>3, <1>t, AwayScoped, GotoScoped, FinishScoped DEF StopsSaved
  <2> QED BY <2>1, <2>2 DEF ScopeInv, TokenScope, Scoped
<1> QED BY <1>1, <1>2, <1>3

LEMMA ScopeList ==
  ASSUME TypeInv, ScopeInv, NEW p \in Procs, List(p) \/ ListFails(p)
  PROVE  ScopeInv'
<1>t. /\ TypeOK /\ TokenScope /\ ScopeOK /\ Scoped(file) /\ ScopedLocals(pc[p], me[p])
  BY DEF TypeInv, ScopeInv, ScopeOK, TokenScope, Scoped
<1>1. CASE List(p)
  <2>1. me[p].mem \in Storage /\ Scoped(me[p].mem)
    BY <1>1, <1>t, LoadedType DEF List, At, Critical, ScopedLocals
  <2>2. PICK listed \in SUBSET Runs : \E m \in Adopted(me[p].mem, listed), gone \in SUBSET Keys :
          file' \in IF gone = {} /\ m = me[p].mem THEN {file} ELSE Saves(DeleteSessions(m, gone))
    BY <1>1 DEF List
  <2>3. PICK m \in Adopted(me[p].mem, listed), gone \in SUBSET Keys :
          file' \in IF gone = {} /\ m = me[p].mem THEN {file} ELSE Saves(DeleteSessions(m, gone))
    BY <2>2
  <2>4. PICK f \in [Keys -> listed \cup {None}] :
          m = [k \in Keys |-> IF ~Has(me[p].mem, k) /\ f[k] # None
                                THEN NewSession(f[k], None) ELSE me[p].mem[k]]
    BY DEF Adopted
  <2>5. m \in Storage
    BY <2>1, <2>4, NewSessionType DEF Storage
  <2>6. Scoped(m)
    BY <2>1, <2>4 DEF Scoped, NewSession
  <2>7. Scoped(DeleteSessions(m, gone))
    BY <2>5, <2>6, DeleteScoped
  <2>8. Scoped(file')
    BY <1>t, <2>3, <2>7, SavesScoped
  <2> QED BY <1>1, <1>t, <2>8, FinishScoped DEF List, ScopeInv, TokenScope, Scoped
<1>2. CASE ListFails(p)
  BY <1>2, <1>t, FinishScoped DEF ListFails, ScopeInv, TokenScope
<1> QED BY <1>1, <1>2

LEMMA NextScope == TypeInv /\ ScopeInv /\ [Next]_vars => ScopeInv'
<1> SUFFICES ASSUME TypeInv, ScopeInv, [Next]_vars PROVE ScopeInv'
  OBVIOUS
<1>1. CASE UNCHANGED vars
  BY <1>1 DEF vars, ScopeInv, ScopeOK, TokenScope
<1>2. ASSUME NEW p \in Procs, Crash(p) PROVE ScopeInv'
  BY <1>2, FinishScoped DEF Crash, TypeInv, ScopeInv, TokenScope
<1>3. ASSUME NEW r \in Runs, RunReady(r) \/ RunEnds(r) PROVE ScopeInv'
  BY <1>3 DEF RunReady, RunEnds, ScopeInv, ScopeOK, TokenScope
<1> QED BY <1>1, <1>2, <1>3, ScopeBegin, ScopeSelect, ScopeStart, ScopeUse, ScopePick,
           ScopeStop, ScopeList
        DEF Next, Step

(* A scoped token recorded beside a run always gives access to that run, with
   any number of processes that update, re-key, adopt and drop the sessions
   of a key, and even where they go on without the lock or a save fails. *)
THEOREM TokensAreScoped == Spec => []TokenScope
<1>1. Init => TypeInv /\ ScopeInv
  BY InitTypeInv, InitScope
<1>2. TypeInv /\ ScopeInv /\ [Next]_vars => (TypeInv /\ ScopeInv)'
  BY NextTypeInv, NextScope
<1>3. TypeInv /\ ScopeInv => TokenScope
  BY DEF ScopeInv
<1> QED BY <1>1, <1>2, <1>3, PTL DEF Spec

=============================================================================
