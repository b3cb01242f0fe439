----------------------- MODULE SandboxAtomicityProofs -----------------------
(***************************************************************************)
(* What the storage lock protects, for any number of processes, runs,      *)
(* branches and definitions: a sandbox is looked up and created in one,    *)
(* and no process loses what another recorded.  This needs the local files *)
(* to work, since reset and the saving of a new session go on without the  *)
(* lock when it cannot be had, and commands go on when a save fails.       *)
(***************************************************************************)
EXTENDS SandboxSessionsProofs

LocalFilesWork == Faults \cap {"lock", "load", "save"} = {}

(***************************************************************************)
(* What a process at label l with locals loc and the storage f under lock  *)
(* holder owns and knows.  A section that looked and found nothing at its  *)
(* key keeps the lock, and knows it still, until its new run is recorded.  *)
(***************************************************************************)
CreatingAt(l, loc) == loc.op \in {"exec", "execReset", "reset"} /\ l \in {"initiate", "persist"}
Owns(l, loc) ==
  \/ l \in WorkingLabels
  \/ l \in Critical /\ loc.mem # NotLoaded
  \/ CreatingAt(l, loc)

(* m is f, but for sessions forgotten and for keys that were free. *)
Behind(m, f) == \A k \in Keys : m[k] = f[k] \/ m[k] = NoSession \/ ~Has(f, k)

Remembers(l, loc) ==
  l \in WorkingLabels /\ loc.op \in {"exec", "execReset", "push", "reset"} /\ Has(loc.mem, loc.key)
    => \E c \in loc.cand : c[1] = loc.key
Knows(l, loc, f) ==
  /\ l \in {"prune", "resolved"} \/ (l \in Critical /\ loc.mem # NotLoaded) => loc.mem = f
  /\ l \in {"stopping", "stopWait"} => Behind(loc.mem, f)
  /\ Remembers(l, loc)
  /\ CreatingAt(l, loc) => ~Has(f, loc.key)

(* The commands at some labels. *)
OpAt(l, op) ==
  /\ l \in {"check", "active"} => op = "start"
  /\ l \in {"select", "prune", "resolved"} => op \in {"exec", "execReset", "push"}
  /\ l = "stop" => op \in {"start", "stop", "stopAll", "stopId"}
  /\ l = "reset" => op = "reset"
  /\ l \in {"initiate", "persist"} => op \in {"start", "exec", "execReset", "reset"}

Good(p, l, loc, f, holder) ==
  /\ OpAt(l, loc.op)
  /\ l \notin Critical \cup WorkingLabels => loc.mem = NotLoaded
  /\ Owns(l, loc) => holder = p /\ Knows(l, loc, f)
AtomInv == \A p \in Procs : Good(p, pc[p], me[p], file, lock)

Keeps == AtomInv' /\ (LateWrite \/ KeepsProgress)

-----------------------------------------------------------------------------
(* The storage operations. *)

LEMMA Working == LocalFilesWork => Loads = {file} /\ \A m : Saves(m) = {m}
BY DEF LocalFilesWork, Loads, Saves

LEMMA SameIsBehind == \A m : Behind(m, m)
BY DEF Behind

LEMMA BehindKeeps ==
  ASSUME Behind(file', file)
  PROVE  KeepsProgress
<1> SUFFICES ASSUME NEW k \in Keys, Has(file, k), file'[k].run = file[k].run PROVE file'[k] = file[k]
  BY DEF KeepsProgress
<1>1. file'[k] # NoSession
  BY DEF Has, NoSession, NewSession
<1> QED BY <1>1 DEF Behind

LEMMA DeleteBehind ==
  ASSUME NEW m, NEW f, Behind(m, f), NEW K
  PROVE  Behind(DeleteSessions(m, K), f)
BY DEF Behind, DeleteSessions

LEMMA SetBehind ==
  ASSUME NEW f \in Storage, NEW k \in Keys, ~Has(f, k), NEW s
  PROVE  Behind(SetSession(f, k, s), f)
BY DEF Behind, SetSession, Storage

LEMMA RekeyedFacts ==
  ASSUME NEW m \in Storage, NEW k \in Keys, NEW a \in Keys, ~Has(m, k)
  PROVE  /\ Rekeyed(m, a, k)[k] = m[a] /\ Behind(Rekeyed(m, a, k), m)
         /\ \A j \in Keys \ {k} : Rekeyed(m, a, k)[j] = IF j = a THEN NoSession ELSE m[j]
<1>1. PICK d : d = DeleteSessions(m, {a})
  OBVIOUS
<1>2. d \in Storage /\ \A j \in Keys : d[j] = IF j = a THEN NoSession ELSE m[j]
  BY <1>1, DeleteSessionsType DEF DeleteSessions
<1>3. Rekeyed(m, a, k) = [d EXCEPT ![k] = m[a]]
  BY <1>1 DEF Rekeyed, SetSession
<1>4. Rekeyed(m, a, k)[k] = m[a] /\ \A j \in Keys \ {k} : Rekeyed(m, a, k)[j] = d[j]
  BY <1>2, <1>3 DEF Storage
<1> QED BY <1>2, <1>4 DEF Behind

(* A lookup finds what its key holds, and moves a session to a free key only. *)
LEMMA LookupFacts ==
  ASSUME NEW m \in Storage, NEW k \in Keys, NEW l \in Lookup(m, k)
  PROVE  /\ l[1][k] = l[2] /\ Behind(l[1], m)
         /\ l[2] = NoSession => ~Has(m, k)
<1> DEFINE near == {a \in AncestorKeys(m, BranchOf(k)) : ConfigOf(a) = ConfigOf(k)}
<1>1. NoSession.run = None
  BY DEF NoSession, NewSession
<1>2. CASE Has(m, k) \/ near = {}
  <2>1. l = <<m, m[k]>>
    BY <1>2 DEF Lookup
  <2> QED BY <1>1, <2>1, SameIsBehind DEF Has
<1>3. CASE ~(Has(m, k) \/ near = {})
  <2>1. PICK a \in near : l = <<Rekeyed(m, a, k), m[a]>>
    BY <1>3 DEF Lookup
  <2>2. a \in Keys
    BY DEF AncestorKeys
  <2> QED BY <1>3, <2>1, <2>2, RekeyedFacts
<1> QED BY <1>2, <1>3

LEMMA LookupBranchFacts ==
  ASSUME NEW m \in Storage, NEW b \in Branches, NEW l \in LookupBranch(m, b)
  PROVE  /\ Behind(l[1], m)
         /\ \A k \in Keys : BranchOf(k) = b /\ Has(l[1], k) => \E c \in l[2] : c[1] = k
<1> DEFINE near == AncestorKeys(m, b)
           now(a) == <<b, ConfigOf(a)>>
           last == {f \in [Configs -> near] :
                      \A c \in Configs : (\E a \in near : ConfigOf(a) = c) => ConfigOf(f[c]) = c}
           moved(f) == [k \in Keys |->
                          IF BranchOf(k) = b /\ (\E a \in near : ConfigOf(a) = ConfigOf(k))
                            THEN m[f[ConfigOf(k)]]
                          ELSE IF k \in near THEN NoSession ELSE m[k]]
<1>1. \A k \in Keys : BranchOf(k) = b /\ Has(m, k) => <<k, m[k]>> \in SessionsForBranch(m, b)
  BY DEF SessionsForBranch
<1>2. CASE SessionsForBranch(m, b) # {} \/ near = {}
  <2>1. l = <<m, SessionsForBranch(m, b)>>
    BY <1>2 DEF LookupBranch
  <2>2. \A k \in Keys : BranchOf(k) = b /\ Has(m, k) => \E c \in SessionsForBranch(m, b) : c[1] = k
    BY <1>1
  <2> QED BY <2>1, <2>2, SameIsBehind
<1>3. CASE ~(SessionsForBranch(m, b) # {} \/ near = {})
  <2>1. PICK f \in last : l = <<moved(f), {<<now(a), m[a]>> : a \in near}>>
    BY <1>3 DEF LookupBranch
  <2>2. \A k \in Keys : BranchOf(k) = b => ~Has(m, k)
    BY <1>1, <1>3
  <2>3. PICK g : g = moved(f)
    OBVIOUS
  <2>4. \A k \in Keys : g[k] = IF BranchOf(k) = b /\ (\E a \in near : ConfigOf(a) = ConfigOf(k))
                                 THEN m[f[ConfigOf(k)]]
                               ELSE IF k \in near THEN NoSession ELSE m[k]
    BY <2>3
  <2>5. Behind(g, m)
    BY <2>2, <2>4 DEF Behind
  <2>6. ASSUME NEW k \in Keys, BranchOf(k) = b, Has(g, k)
        PROVE  \E c \in {<<now(a), m[a]>> : a \in near} : c[1] = k
    <3>1. NoSession.run = None
      BY DEF NoSession, NewSession
    <3>2. PICK a \in near : ConfigOf(a) = ConfigOf(k)
      BY <2>2, <2>4, <2>6, <3>1 DEF Has
    <3>3. k = <<b, ConfigOf(k)>>
      BY <2>6 DEF Keys, BranchOf, ConfigOf
    <3>4. PICK c : c = <<now(a), m[a]>>
      OBVIOUS
    <3>5. c \in {<<now(i), m[i]>> : i \in near}
      BY <3>4
    <3>6. c[1] = k
      BY <3>2, <3>3, <3>4
    <3> QED BY <3>5, <3>6
  <2> QED BY <2>1, <2>3, <2>5, <2>6
<1> QED BY <1>2, <1>3

-----------------------------------------------------------------------------
(* One step of one process leaves the others alone: they own nothing the step
   could take, and the file only changes under the lock. *)
LEMMA GoodStep ==
  ASSUME TypeInv, AtomInv, NEW p \in Procs, NEW l, NEW loc, Goto(p, l, loc),
         lock \notin {None, p} => lock' = lock,
         file' = file \/ lock = p,
         Good(p, l, loc, file', lock')
  PROVE  AtomInv'
<1>1. pc'[p] = l /\ me'[p] = loc
  BY DEF Goto, TypeInv, TypeOK
<1>2. ASSUME NEW q \in Procs, q # p PROVE Good(q, pc'[q], me'[q], file', lock')
  <2>1. pc'[q] = pc[q] /\ me'[q] = me[q]
    BY <1>2 DEF Goto, TypeInv, TypeOK
  <2>2. Good(q, pc[q], me[q], file, lock)
    BY DEF AtomInv
  <2>3. Owns(pc[q], me[q]) => lock' = lock /\ file' = file
    BY <1>2, <2>2, NobodyAssumption DEF Good
  <2> QED BY <2>1, <2>2, <2>3 DEF Good
<1> QED BY <1>1, <1>2 DEF AtomInv

LEMMA AwayGood ==
  ASSUME NEW p, NEW l, NEW loc, NEW f, NEW holder,
         loc.mem = NotLoaded, l \notin WorkingLabels, ~CreatingAt(l, loc), OpAt(l, loc.op)
  PROVE  Good(p, l, loc, f, holder)
BY DEF Good, Owns

LEMMA FinishGood ==
  ASSUME TypeInv, AtomInv, NEW p \in Procs, Finish(p),
         lock \notin {None, p} => lock' = lock, file' = file \/ lock = p
  PROVE  AtomInv'
<1>1. Good(p, "idle", Idle, file', lock')
  BY AwayGood DEF Idle, WorkingLabels, CreatingAt, OpAt
<1> QED BY <1>1, GoodStep DEF Finish

LEMMA UnlockFrees ==
  ASSUME NEW p, Unlock(p)
  PROVE  lock \notin {None, p} => lock' = lock
BY DEF Unlock

LEMMA SameFile == file' = file => KeepsProgress
BY DEF KeepsProgress

(* What a process at work may rely on. *)
LEMMA Mine ==
  ASSUME AtomInv, NEW p \in Procs
  PROVE  /\ OpAt(pc[p], me[p].op)
         /\ pc[p] \notin Critical \cup WorkingLabels => me[p].mem = NotLoaded
         /\ pc[p] \in WorkingLabels => lock = p /\ Remembers(pc[p], me[p])
         /\ pc[p] \in {"prune", "resolved"} => me[p].mem = file
         /\ pc[p] \in {"stopping", "stopWait"} => Behind(me[p].mem, file)
         /\ pc[p] \in Critical /\ me[p].mem # NotLoaded => lock = p /\ me[p].mem = file
         /\ CreatingAt(pc[p], me[p]) => lock = p /\ ~Has(file, me[p].key)
BY DEF AtomInv, Good, Owns, Knows, WorkingLabels

-----------------------------------------------------------------------------
(* The steps. *)

LEMMA AtomBegin ==
  ASSUME LocalFilesWork, TypeInv, AtomInv, NEW p \in Procs,
         Begin(p) \/ BeginWithRun(p) \/ BeginStopRun(p)
  PROVE  Keeps
<1>1. file' = file /\ lock' = lock
  BY DEF Begin, BeginWithRun, BeginStopRun
<1>2. CASE Begin(p)
  <2>1. PICK op \in Commands \ {"attach", "execId", "pushId", "stopId"}, k \in Keys, named \in BOOLEAN :
          Goto(p, CASE op = "start" -> "check"
                    [] op \in {"exec", "execReset", "push"} -> "select"
                    [] op \in {"stop", "stopAll"} -> "stop"
                    [] op = "reset" -> "reset"
                    [] op = "list" -> "list",
               [Idle EXCEPT !.op = op, !.key = k, !.flag = named])
    BY <1>2 DEF Begin
  <2>2. PICK loc : loc = [Idle EXCEPT !.op = op, !.key = k, !.flag = named]
    OBVIOUS
  <2>3. loc.op = op /\ loc.mem = NotLoaded
    BY <2>2 DEF Idle
  <2>4. op \in {"start", "exec", "execReset", "push", "stop", "stopAll", "reset", "list"}
    BY CommandsAssumption DEF AllCommands
  <2>5. PICK l : l = CASE op = "start" -> "check"
                       [] op \in {"exec", "execReset", "push"} -> "select"
                       [] op \in {"stop", "stopAll"} -> "stop"
                       [] op = "reset" -> "reset"
                       [] op = "list" -> "list"
    OBVIOUS
  <2>6. /\ op = "start" => l = "check"
        /\ op \in {"exec", "execReset", "push"} => l = "select"
        /\ op \in {"stop", "stopAll"} => l = "stop"
        /\ op = "reset" => l = "reset"
        /\ op = "list" => l = "list"
    BY <2>5
  <2>7. l \notin WorkingLabels /\ ~CreatingAt(l, loc) /\ OpAt(l, loc.op)
    BY <2>3, <2>4, <2>6 DEF WorkingLabels, CreatingAt, OpAt
  <2>8. Good(p, l, loc, file', lock')
    BY <2>3, <2>7, AwayGood
  <2>9. AtomInv'
    BY <1>1, <2>1, <2>2, <2>5, <2>8, GoodStep
  <2> QED BY <1>1, <2>9, SameFile DEF Keeps
<1>3. CASE BeginWithRun(p)
  <2>1. PICK op \in Commands \cap {"attach", "execId", "pushId"}, r \in Runs, m \in Loads, k \in Keys \cup {None} :
          /\ status[r] # "none"
          /\ op = "attach" => k # None
          /\ LET found == IF m = LoadFailed THEN {} ELSE KeysOfRun(m, r)
             IN  \E s \in IF found = {} THEN {NoSession} ELSE {m[j] : j \in found} :
                   Goto(p, IF op = "attach" THEN "reattach"
                           ELSE IF op = "execId" /\ s.used /\ ~s.nag THEN "saveNag" ELSE "waitReady",
                        [Idle EXCEPT !.op = op, !.key = k, !.run = r, !.tok = s.tok,
                                     !.flag = (found # {} \/ m = LoadFailed)])
    BY <1>3 DEF BeginWithRun
  <2>2. PICK found : found = IF m = LoadFailed THEN {} ELSE KeysOfRun(m, r)
    OBVIOUS
  <2>3. PICK s \in IF found = {} THEN {NoSession} ELSE {m[j] : j \in found} :
          Goto(p, IF op = "attach" THEN "reattach"
                  ELSE IF op = "execId" /\ s.used /\ ~s.nag THEN "saveNag" ELSE "waitReady",
               [Idle EXCEPT !.op = op, !.key = k, !.run = r, !.tok = s.tok,
                            !.flag = (found # {} \/ m = LoadFailed)])
    BY <2>1, <2>2
  <2>4. PICK loc : loc = [Idle EXCEPT !.op = op, !.key = k, !.run = r, !.tok = s.tok,
                                      !.flag = (found # {} \/ m = LoadFailed)]
    OBVIOUS
  <2>5. loc.op = op /\ loc.mem = NotLoaded
    BY <2>4 DEF Idle
  <2>6. PICK l \in {"reattach", "saveNag", "waitReady"} : Goto(p, l, loc)
    BY <2>3, <2>4
  <2>7. Good(p, l, loc, file', lock')
    BY <2>5, AwayGood DEF WorkingLabels, CreatingAt, OpAt
  <2>8. AtomInv'
    BY <1>1, <2>6, <2>7, GoodStep
  <2> QED BY <1>1, <2>8, SameFile DEF Keeps
<1>4. CASE BeginStopRun(p)
  <2>1. PICK r \in Runs : Goto(p, "stop", [Idle EXCEPT !.op = "stopId", !.run = r])
    BY <1>4 DEF BeginStopRun
  <2>2. PICK loc : loc = [Idle EXCEPT !.op = "stopId", !.run = r]
    OBVIOUS
  <2>3. loc.op = "stopId" /\ loc.mem = NotLoaded
    BY <2>2 DEF Idle
  <2>4. Good(p, "stop", loc, file', lock')
    BY <2>3, AwayGood DEF WorkingLabels, CreatingAt, OpAt
  <2>5. AtomInv'
    BY <1>1, <2>1, <2>2, <2>4, GoodStep
  <2> QED BY <1>1, <2>5, SameFile DEF Keeps
<1> QED BY <1>2, <1>3, <1>4

LEMMA AtomAcquire ==
  ASSUME LocalFilesWork, TypeInv, AtomInv, NEW p \in Procs, Acquire(p) \/ LockFails(p)
  PROVE  Keeps
<1>1. Acquire(p)
  BY DEF LockFails, LocalFilesWork
<1>2. /\ pc[p] \in Critical /\ lock \in {None, p} /\ lock' = p /\ file' = file /\ pc' = pc
      /\ me' = [me EXCEPT ![p].mem = file]
  BY <1>1, Working DEF Acquire
<1>3. me[p] \in Local /\ pc[p] \in Labels /\ me \in [Procs -> Local] /\ pc \in [Procs -> Labels]
  BY DEF TypeInv, TypeOK
<1>4. PICK loc : loc = [me[p] EXCEPT !.mem = file]
  OBVIOUS
<1>5. loc.op = me[p].op /\ loc.key = me[p].key /\ loc.mem = file
  BY <1>3, <1>4 DEF Local
<1>6. Goto(p, pc[p], loc)
  BY <1>2, <1>3, <1>4 DEF Goto
<1>7. pc[p] \notin WorkingLabels
  BY <1>2 DEF Critical, WorkingLabels
<1>8. CreatingAt(pc[p], loc) => ~Has(file, loc.key)
  BY <1>5, Mine DEF CreatingAt
<1>9. OpAt(pc[p], loc.op)
  BY <1>5, Mine
<1>10. Knows(pc[p], loc, file)
  BY <1>5, <1>7, <1>8 DEF Knows, WorkingLabels, Remembers
<1>11. Good(p, pc[p], loc, file', lock')
  BY <1>2, <1>9, <1>10 DEF Good
<1>12. AtomInv'
  BY <1>2, <1>6, <1>11, GoodStep
<1> QED BY <1>2, <1>12, SameFile DEF Keeps

LEMMA AtomCheck ==
  ASSUME LocalFilesWork, TypeInv, AtomInv, NEW p \in Procs, Check(p) \/ CheckActive(p)
  PROVE  Keeps
<1>0. me[p] \in Local /\ Fits(pc[p], me[p]) /\ file \in Storage
  BY DEF TypeInv, TypeOK, ProcsOK
<1>1. CASE Check(p)
  <2>1. pc[p] = "check" /\ me[p].mem # NotLoaded /\ lock = p /\ me[p].mem = file /\ me[p].op = "start"
    BY <1>1, Mine DEF Check, At, Critical, OpAt
  <2>2. Loaded(p)
    BY <1>0, <2>1, MemAssumption DEF Loaded
  <2>3. PICK found \in Lookup(file, me[p].key) :
          /\ file' \in IF found[1] = me[p].mem THEN {file} ELSE Saves(found[1])
          /\ Goto(p, IF found[2] = NoSession THEN "initiate" ELSE "active",
                  [Away(me[p]) EXCEPT !.run = found[2].run, !.tok = found[2].tok])
    BY <1>1, <2>1, <2>2 DEF Check
  <2>4. file' = found[1]
    BY <2>1, <2>3, Working
  <2>5. me[p].key \in Keys
    BY <1>0, <2>1 DEF Fits, KeyedLabels
  <2>6. Behind(file', file)
    BY <1>0, <2>3, <2>4, <2>5, LookupFacts
  <2>7. PICK loc : loc = [Away(me[p]) EXCEPT !.run = found[2].run, !.tok = found[2].tok]
    OBVIOUS
  <2>8. loc.op = "start" /\ loc.mem = NotLoaded
    BY <1>0, <2>1, <2>7 DEF Away, Local
  <2>9. PICK l \in {"initiate", "active"} : Goto(p, l, loc)
    BY <2>3, <2>7
  <2>10. Good(p, l, loc, file', lock')
    BY <2>8, AwayGood DEF WorkingLabels, CreatingAt, OpAt
  <2>11. lock \notin {None, p} => lock' = lock
    BY <2>1
  <2>12. AtomInv'
    BY <2>1, <2>9, <2>10, <2>11, GoodStep
  <2> QED BY <2>6, <2>12, BehindKeeps DEF Keeps
<1>2. CASE CheckActive(p)
  <2>1. /\ pc[p] = "active" /\ me[p].op = "start" /\ me[p].mem = NotLoaded /\ file' = file /\ lock' = lock
    BY <1>2, Mine DEF CheckActive, At, OpAt, Critical, WorkingLabels
  <2>2. \A l \in {"initiate", "stop"} : Good(p, l, me[p], file', lock')
    BY <2>1, AwayGood DEF WorkingLabels, CreatingAt, OpAt
  <2>3. Finish(p) \/ \E l \in {"initiate", "stop"} : Goto(p, l, me[p])
    BY <1>2 DEF CheckActive
  <2>4. AtomInv'
    BY <2>1, <2>2, <2>3, FinishGood, GoodStep
  <2> QED BY <2>1, <2>4, SameFile DEF Keeps
<1> QED BY <1>1, <1>2

LEMMA AtomSelect ==
  ASSUME LocalFilesWork, TypeInv, AtomInv, NEW p \in Procs, Select(p)
  PROVE  Keeps
<1>0. me[p] \in Local /\ Fits(pc[p], me[p]) /\ file \in Storage
  BY DEF TypeInv, TypeOK, ProcsOK
<1>1. /\ pc[p] = "select" /\ lock = p /\ lock' = lock /\ me[p].mem = file
      /\ me[p].op \in {"exec", "execReset", "push"}
  BY Mine DEF Select, At, Critical, OpAt
<1>2. Loaded(p) /\ me[p].key \in Keys
  BY <1>0, <1>1, MemAssumption DEF Loaded, Fits, KeyedLabels
<1>3. PICK k \in Keys : k = me[p].key
  BY <1>2
<1>4. PICK found \in IF me[p].flag
                       THEN {<<l[1], IF l[2] = NoSession THEN {} ELSE {<<k, l[2]>>}>> : l \in Lookup(file, k)}
                       ELSE LookupBranch(file, BranchOf(k)) :
        /\ file' \in IF found[1] = file THEN {file} ELSE Saves(found[1])
        /\ Goto(p, "prune", [me[p] EXCEPT !.mem = found[1], !.cand = found[2], !.flag = FALSE])
  BY <1>1, <1>2, <1>3 DEF Select
<1>5. file' = found[1]
  BY <1>4, Working
<1>6. Behind(found[1], file) /\ (Has(found[1], k) => \E c \in found[2] : c[1] = k)
  <2>1. CASE me[p].flag
    <3>1. PICK l \in Lookup(file, k) : found = <<l[1], IF l[2] = NoSession THEN {} ELSE {<<k, l[2]>>}>>
      BY <1>4, <2>1
    <3>2. l[1][k] = l[2] /\ Behind(l[1], file)
      BY <1>0, LookupFacts
    <3>3. Has(l[1], k) => l[2] # NoSession
      BY <3>2 DEF Has, NoSession, NewSession
    <3>4. PICK one : one = {<<k, l[2]>>}
      OBVIOUS
    <3>5. \E c \in one : c[1] = k
      BY <3>4
    <3>6. found[1] = l[1] /\ (l[2] # NoSession => found[2] = one)
      BY <3>1, <3>4
    <3> QED BY <3>2, <3>3, <3>5, <3>6
  <2>2. CASE ~me[p].flag
    <3>1. BranchOf(k) \in Branches
      BY DEF Keys, BranchOf
    <3> QED BY <1>0, <1>4, <2>2, <3>1, LookupBranchFacts
  <2> QED BY <2>1, <2>2
<1>7. PICK loc : loc = [me[p] EXCEPT !.mem = found[1], !.cand = found[2], !.flag = FALSE]
  OBVIOUS
<1>8. loc.op = me[p].op /\ loc.key = k /\ loc.mem = found[1] /\ loc.cand = found[2]
  BY <1>0, <1>3, <1>7 DEF Local
<1>9. Remembers("prune", loc)
  BY <1>6, <1>8 DEF Remembers
<1>10. Good(p, "prune", loc, file', lock')
  BY <1>1, <1>5, <1>8, <1>9 DEF Good, Knows, OpAt, CreatingAt, WorkingLabels, Critical
<1>11. AtomInv'
  BY <1>1, <1>4, <1>7, <1>10, GoodStep
<1> QED BY <1>5, <1>6, <1>11, BehindKeeps DEF Keeps

LEMMA AtomPrune ==
  ASSUME LocalFilesWork, TypeInv, AtomInv, NEW p \in Procs, Prune(p)
  PROVE  Keeps
<1>0. me[p] \in Local /\ Fits(pc[p], me[p]) /\ file \in Storage
  BY DEF TypeInv, TypeOK, ProcsOK
<1>1. /\ pc[p] = "prune" /\ lock = p /\ lock' = lock /\ me[p].mem = file /\ Remembers("prune", me[p])
      /\ me[p].op \in {"exec", "execReset", "push"}
  BY Mine DEF Prune, At, WorkingLabels, OpAt
<1>2. me[p].key \in Keys
  BY <1>0, <1>1 DEF Fits, KeyedLabels
<1>3. PICK dead \in SUBSET me[p].cand :
        /\ file' \in IF dead = {} THEN {file} ELSE Saves(DeleteSessions(me[p].mem, {c[1] : c \in dead}))
        /\ Goto(p, "resolved", [me[p] EXCEPT !.mem = DeleteSessions(me[p].mem, {c[1] : c \in dead}),
                                             !.cand = @ \ dead])
  BY DEF Prune
<1>4. PICK gone : gone = {c[1] : c \in dead}
  OBVIOUS
<1>5. PICK kept : kept = DeleteSessions(file, gone)
  OBVIOUS
<1>6. \A k \in Keys : kept[k] = IF k \in gone THEN NoSession ELSE file[k]
  BY <1>5 DEF DeleteSessions
<1>7. file' = kept
  <2>1. CASE dead = {}
    <3>1. gone = {}
      BY <1>4, <2>1
    <3>2. kept = file
      BY <1>0, <1>5, <3>1 DEF DeleteSessions, Storage
    <3> QED BY <1>3, <2>1, <3>2
  <2>2. CASE dead # {}
    BY <1>1, <1>3, <1>4, <1>5, <2>2, Working
  <2> QED BY <2>1, <2>2
<1>8. PICK loc : loc = [me[p] EXCEPT !.mem = kept, !.cand = @ \ dead]
  OBVIOUS
<1>9. /\ loc.op = me[p].op /\ loc.key = me[p].key /\ loc.mem = kept /\ loc.cand = me[p].cand \ dead
      /\ Goto(p, "resolved", loc)
  BY <1>0, <1>1, <1>3, <1>4, <1>5, <1>8 DEF Local
<1>10. Has(kept, loc.key) => \E c \in loc.cand : c[1] = loc.key
  <2>1. SUFFICES ASSUME Has(kept, me[p].key) PROVE \E c \in me[p].cand \ dead : c[1] = me[p].key
    BY <1>9
  <2>2. me[p].key \notin gone /\ Has(file, me[p].key)
    BY <1>2, <1>6, <2>1 DEF Has, NoSession, NewSession
  <2>3. PICK c \in me[p].cand : c[1] = me[p].key
    BY <1>1, <2>2 DEF Remembers, WorkingLabels
  <2>4. c \notin dead
    BY <1>4, <2>2, <2>3
  <2> QED BY <2>3, <2>4
<1>11. Good(p, "resolved", loc, file', lock')
  BY <1>1, <1>7, <1>9, <1>10 DEF Good, Knows, OpAt, CreatingAt, Remembers, WorkingLabels, Critical
<1>12. AtomInv'
  BY <1>1, <1>9, <1>11, GoodStep
<1>13. Behind(file', file)
  BY <1>5, <1>7, SameIsBehind, DeleteBehind
<1> QED BY <1>12, <1>13, BehindKeeps DEF Keeps

LEMMA AtomResolved ==
  ASSUME LocalFilesWork, TypeInv, AtomInv, NEW p \in Procs,
         Reuse(p) \/ NothingToUse(p) \/ ReplaceChosen(p) \/ CreateMissing(p)
  PROVE  Keeps
<1>0. me[p] \in Local /\ Fits(pc[p], me[p]) /\ file \in Storage
  BY DEF TypeInv, TypeOK, ProcsOK
<1>1. /\ pc[p] = "resolved" /\ lock = p /\ file' = file /\ me[p].mem = file /\ Remembers("resolved", me[p])
      /\ me[p].op \in {"exec", "execReset", "push"} /\ (lock \notin {None, p} => lock' = lock)
  BY Mine DEF Reuse, NothingToUse, ReplaceChosen, CreateMissing, At, WorkingLabels, OpAt
<1>2. me[p].key \in Keys
  BY <1>0, <1>1 DEF Fits, KeyedLabels
<1>3. CASE Reuse(p)
  <2>1. PICK c \in Chosen(p) :
          Goto(p, IF me[p].op = "exec" /\ c[2].used /\ ~c[2].nag THEN "saveNag" ELSE "waitReady",
               [Away(me[p]) EXCEPT !.run = c[2].run, !.tok = c[2].tok])
    BY <1>3 DEF Reuse
  <2>2. PICK loc : loc = [Away(me[p]) EXCEPT !.run = c[2].run, !.tok = c[2].tok]
    OBVIOUS
  <2>3. loc.op = me[p].op /\ loc.mem = NotLoaded
    BY <1>0, <2>2 DEF Away, Local
  <2>4. PICK l \in {"saveNag", "waitReady"} : Goto(p, l, loc)
    BY <2>1, <2>2
  <2>5. Good(p, l, loc, file', lock')
    BY <2>3, AwayGood DEF WorkingLabels, CreatingAt, OpAt
  <2>6. AtomInv'
    BY <1>1, <2>4, <2>5, GoodStep
  <2> QED BY <1>1, <2>6, SameFile DEF Keeps
<1>4. CASE NothingToUse(p)
  <2>1. AtomInv'
    BY <1>1, <1>4, FinishGood DEF NothingToUse
  <2> QED BY <1>1, <2>1, SameFile DEF Keeps
<1>5. CASE ReplaceChosen(p)
  <2>1. PICK c \in Chosen(p) : Goto(p, "stopping", [me[p] EXCEPT !.cand = {c}])
    BY <1>5 DEF ReplaceChosen
  <2>2. PICK loc : loc = [me[p] EXCEPT !.cand = {c}]
    OBVIOUS
  <2>3. loc.op = me[p].op /\ loc.key = me[p].key /\ loc.mem = file /\ loc.cand = {c} /\ c[1] = me[p].key
    BY <1>0, <1>1, <2>1, <2>2 DEF Local, Chosen
  <2>4. Knows("stopping", loc, file)
    BY <2>3, SameIsBehind DEF Knows, CreatingAt, Remembers, WorkingLabels, Critical
  <2>5. lock' = p
    BY <1>1, <1>5 DEF ReplaceChosen
  <2>6. Good(p, "stopping", loc, file', lock')
    BY <1>1, <2>4, <2>5 DEF Good, OpAt, WorkingLabels
  <2>7. AtomInv'
    BY <1>1, <2>1, <2>2, <2>6, GoodStep
  <2> QED BY <1>1, <2>7, SameFile DEF Keeps
<1>6. CASE CreateMissing(p)
  <2>1. Goto(p, "initiate", Away(me[p])) /\ Chosen(p) = {} /\ lock' = p /\ me[p].op \in {"exec", "execReset"}
    BY <1>1, <1>6 DEF CreateMissing
  <2>2. ~Has(file, me[p].key)
    BY <1>1, <2>1 DEF Remembers, Chosen, WorkingLabels
  <2>3. PICK loc : loc = Away(me[p])
    OBVIOUS
  <2>4. loc.op = me[p].op /\ loc.key = me[p].key /\ loc.mem = NotLoaded
    BY <1>0, <2>3 DEF Away, Local
  <2>5. Knows("initiate", loc, file)
    BY <2>2, <2>4 DEF Knows, Remembers, WorkingLabels, Critical
  <2>6. Good(p, "initiate", loc, file', lock')
    BY <1>1, <2>1, <2>4, <2>5 DEF Good, OpAt
  <2>7. AtomInv'
    BY <1>1, <2>1, <2>3, <2>6, GoodStep
  <2> QED BY <1>1, <2>7, SameFile DEF Keeps
<1> QED BY <1>3, <1>4, <1>5, <1>6

(* A step that leaves its process without the storage and with nothing to
   record, and the file alone. *)
LEMMA AwayStep ==
  ASSUME TypeInv, AtomInv, NEW p \in Procs, file' = file, lock \notin {None, p} => lock' = lock,
         NEW l, NEW loc, Goto(p, l, loc),
         loc.mem = NotLoaded, l \notin WorkingLabels, ~CreatingAt(l, loc), OpAt(l, loc.op)
  PROVE  Keeps
<1>1. Good(p, l, loc, file', lock')
  BY AwayGood
<1>2. AtomInv'
  BY <1>1, GoodStep
<1> QED BY <1>2, SameFile DEF Keeps

LEMMA FinishStep ==
  ASSUME TypeInv, AtomInv, NEW p \in Procs, file' = file, lock \notin {None, p} => lock' = lock,
         Finish(p)
  PROVE  Keeps
BY FinishGood, SameFile DEF Keeps

LEMMA AwayKeeps ==
  ASSUME NEW loc \in Local
  PROVE  Away(loc).op = loc.op /\ Away(loc).key = loc.key /\ Away(loc).run = loc.run
         /\ Away(loc).mem = NotLoaded
BY DEF Away, Local

LEMMA AtomInitiate ==
  ASSUME LocalFilesWork, TypeInv, AtomInv, NEW p \in Procs, Initiate(p) \/ InitiateFails(p)
  PROVE  Keeps
<1>0. me[p] \in Local /\ pc[p] = "initiate" /\ file' = file
  BY DEF TypeInv, TypeOK, Initiate, InitiateFails, At
<1>1. CASE Initiate(p)
  <2>1. PICK r \in Runs : Goto(p, "persist", [Away(me[p]) EXCEPT !.run = r, !.tok = None])
    BY <1>1 DEF Initiate
  <2>2. PICK loc : loc = [Away(me[p]) EXCEPT !.run = r, !.tok = None]
    OBVIOUS
  <2>3. loc.op = me[p].op /\ loc.key = me[p].key /\ loc.mem = NotLoaded
    BY <1>0, <2>2 DEF Away, Local
  <2>4. lock' = lock
    BY <1>1 DEF Initiate
  <2>5. OpAt("persist", loc.op)
    BY <1>0, <2>3, Mine DEF OpAt
  <2>6. CreatingAt("persist", loc) => lock = p /\ ~Has(file, loc.key)
    BY <1>0, <2>3, Mine DEF CreatingAt
  <2>7. Good(p, "persist", loc, file', lock')
    BY <1>0, <2>3, <2>4, <2>5, <2>6
    DEF Good, Owns, Knows, Remembers, WorkingLabels, Critical
  <2>8. AtomInv'
    BY <1>0, <2>1, <2>2, <2>4, <2>7, GoodStep
  <2> QED BY <1>0, <2>8, SameFile DEF Keeps
<1>2. CASE InitiateFails(p)
  <2>1. lock \notin {None, p} => lock' = lock
    BY <1>2, UnlockFrees DEF InitiateFails
  <2> QED BY <1>0, <1>2, <2>1, FinishStep DEF InitiateFails
<1> QED BY <1>1, <1>2

(* What a section has loaded is the file, and it holds the lock. *)
LEMMA LoadedFile ==
  ASSUME LocalFilesWork, TypeInv, AtomInv, NEW p \in Procs,
         pc[p] \in Critical, me[p].mem # NotLoaded
  PROVE  lock = p /\ me[p].mem = file /\ Loaded(p) /\ file \in Storage
<1>1. lock = p /\ me[p].mem = file
  BY Mine
<1> QED BY <1>1, MemAssumption DEF Loaded, TypeInv, TypeOK

LEMMA AtomPersist ==
  ASSUME LocalFilesWork, TypeInv, AtomInv, NEW p \in Procs, Persist(p)
  PROVE  Keeps
<1>0. me[p] \in Local /\ Fits(pc[p], me[p]) /\ pc[p] = "persist" /\ me[p].mem # NotLoaded
  BY DEF TypeInv, TypeOK, ProcsOK, Persist, At, Critical
<1>1. lock = p /\ me[p].mem = file /\ Loaded(p) /\ file \in Storage
  BY <1>0, LoadedFile DEF Critical
<1>2. me[p].key \in Keys /\ me[p].op \in {"start", "exec", "execReset", "reset"}
  BY <1>0, Mine DEF Fits, KeyedLabels, OpAt
<1>3. file' = SetSession(file, me[p].key, NewSession(me[p].run, None))
  BY <1>1, Working DEF Persist
<1>4. PICK loc : loc = [Away(me[p]) EXCEPT !.flag = Loaded(p)]
  OBVIOUS
<1>5. loc.op = me[p].op /\ loc.mem = NotLoaded /\ Goto(p, "token", loc)
  BY <1>0, <1>4 DEF Away, Local, Persist
<1>6. Good(p, "token", loc, file', lock')
  BY <1>5, AwayGood DEF WorkingLabels, CreatingAt, OpAt
<1>7. AtomInv'
  BY <1>1, <1>5, <1>6, GoodStep
<1>8. CASE me[p].op = "start"
  <2>1. pc'[p] = "token"
    BY <1>5 DEF Goto, TypeInv, TypeOK
  <2> QED BY <1>0, <1>7, <1>8, <2>1 DEF Keeps, LateWrite
<1>9. CASE me[p].op # "start"
  <2>1. ~Has(file, me[p].key)
    BY <1>0, <1>2, <1>9, Mine DEF CreatingAt
  <2>2. Behind(file', file)
    BY <1>1, <1>2, <1>3, <2>1, SetBehind
  <2> QED BY <1>7, <2>2, BehindKeeps DEF Keeps
<1> QED BY <1>8, <1>9

(* Token, reattachment: what they write is a late write. *)
LEMMA AtomToken ==
  ASSUME LocalFilesWork, TypeInv, AtomInv, NEW p \in Procs,
         RequestToken(p) \/ SaveToken(p) \/ RereadToken(p) \/ Reattach(p) \/ SaveAttach(p)
  PROVE  Keeps
<1>0. me[p] \in Local /\ OpAt(pc[p], me[p].op)
  BY Mine DEF TypeInv, TypeOK
<1>1. PICK away : away = Away(me[p])
  OBVIOUS
<1>2. away.mem = NotLoaded
  BY <1>0, <1>1, AwayKeeps
<1>3. CASE RequestToken(p)
  <2>1. PICK t \in Tokens(me[p].run) :
          Goto(p, "saveToken", [Away(me[p]) EXCEPT !.tok = t]) \/ AfterStart(p, me[p])
    BY <1>3 DEF RequestToken
  <2>2. PICK loc : loc = [Away(me[p]) EXCEPT !.tok = t]
    OBVIOUS
  <2>3. loc.mem = NotLoaded
    BY <1>0, <2>2 DEF Away, Local
  <2>4. Goto(p, "saveToken", loc) \/ Goto(p, "reread", away) \/ Finish(p)
    BY <1>1, <2>1, <2>2 DEF AfterStart
  <2>5. file' = file /\ lock' = lock
    BY <1>3 DEF RequestToken
  <2> QED BY <1>2, <2>3, <2>4, <2>5, AwayStep, FinishStep DEF WorkingLabels, CreatingAt, OpAt
<1>4. CASE SaveToken(p) \/ SaveAttach(p)
  <2>1. pc[p] \in {"saveToken", "saveAttach"} /\ me[p].mem # NotLoaded
    BY <1>4 DEF SaveToken, SaveAttach, At, Critical
  <2>2. lock = p
    BY <2>1, LoadedFile DEF Critical
  <2>3. Goto(p, "reread", away) \/ Finish(p)
    BY <1>1, <1>4 DEF SaveToken, SaveAttach, AfterStart
  <2>4. Good(p, "reread", away, file', lock')
    BY <1>2, AwayGood DEF WorkingLabels, CreatingAt, OpAt
  <2>5. AtomInv'
    BY <2>2, <2>3, <2>4, GoodStep, FinishGood
  <2>6. pc'[p] \in {"reread", "idle"}
    BY <2>3 DEF Finish, Goto, TypeInv, TypeOK
  <2> QED BY <2>1, <2>5, <2>6 DEF Keeps, LateWrite
<1>5. CASE RereadToken(p)
  <2>1. pc[p] = "reread" /\ file' = file /\ lock' = lock
    BY <1>5 DEF RereadToken, At
  <2>2. PICK t : Goto(p, "waitReady", [me[p] EXCEPT !.tok = t])
    BY <1>5 DEF RereadToken
  <2>3. PICK loc : loc = [me[p] EXCEPT !.tok = t]
    OBVIOUS
  <2>4. loc.mem = NotLoaded
    BY <1>0, <2>1, <2>3, Mine DEF Local, Critical, WorkingLabels
  <2>5. "waitReady" \notin WorkingLabels /\ ~CreatingAt("waitReady", loc) /\ OpAt("waitReady", loc.op)
    BY DEF WorkingLabels, CreatingAt, OpAt
  <2> QED BY <2>1, <2>2, <2>3, <2>4, <2>5, AwayStep
<1>6. CASE Reattach(p)
  <2>1. pc[p] = "reattach" /\ file' = file /\ lock' = lock
    BY <1>6 DEF Reattach, At
  <2>2. PICK t : Goto(p, "saveAttach", [me[p] EXCEPT !.tok = t]) \/ Finish(p)
    BY <1>6 DEF Reattach
  <2>3. PICK loc : loc = [me[p] EXCEPT !.tok = t]
    OBVIOUS
  <2>4. loc.mem = NotLoaded
    BY <1>0, <2>1, <2>3, Mine DEF Local, Critical, WorkingLabels
  <2>5. "saveAttach" \notin WorkingLabels /\ ~CreatingAt("saveAttach", loc) /\ OpAt("saveAttach", loc.op)
    BY DEF WorkingLabels, CreatingAt, OpAt
  <2>6. Goto(p, "saveAttach", loc) \/ Finish(p)
    BY <2>2, <2>3
  <2> QED BY <2>1, <2>4, <2>5, <2>6, AwayStep, FinishStep
<1> QED BY <1>3, <1>4, <1>5, <1>6

(* A rewrite of the session a process found keeps what it does not mean to
   change: it works on the file as it is now. *)
LEMMA RewriteKeeps ==
  ASSUME LocalFilesWork, TypeInv, AtomInv, NEW p \in Procs, NEW s,
         pc[p] \in Critical, me[p].mem # NotLoaded, file' \in Rewrite(p, s),
         LET old == me[p].mem[me[p].key]
         IN  s.run = old.run /\ s.tok = old.tok /\ (old.used => s.used) /\ (old.nag => s.nag)
  PROVE  KeepsProgress
<1>1. me[p].mem = file /\ file \in Storage
  BY LoadedFile
<1>2. CASE file' = file
  BY <1>2, SameFile
<1>3. CASE file' # file
  <2>1. file' = SetSession(file, me[p].key, s)
    BY <1>1, <1>3, Working DEF Rewrite
  <2>2. PICK key : key = me[p].key
    OBVIOUS
  <2>3. \A k \in Keys : file'[k] = IF k = key THEN s ELSE file[k]
    BY <1>1, <2>1, <2>2 DEF SetSession, Storage
  <2>4. /\ s.tok = file[key].tok /\ (file[key].used => s.used) /\ (file[key].nag => s.nag)
    BY <1>1, <2>2
  <2> QED BY <2>3, <2>4 DEF KeepsProgress
<1> QED BY <1>2, <1>3

LEMMA AtomSaves ==
  ASSUME LocalFilesWork, TypeInv, AtomInv, NEW p \in Procs, SaveNag(p) \/ SaveUsed(p)
  PROVE  Keeps
<1>0. me[p] \in Local
  BY DEF TypeInv, TypeOK
<1>1. pc[p] \in {"saveNag", "saveUsed"} /\ me[p].mem # NotLoaded
  BY DEF SaveNag, SaveUsed, At, Critical
<1>2. lock = p /\ me[p].mem = file /\ file \in Storage
  BY <1>1, LoadedFile DEF Critical
<1>3. PICK away : away = Away(me[p])
  OBVIOUS
<1>4. away.mem = NotLoaded
  BY <1>0, <1>3, AwayKeeps
<1>5. PICK l \in {"waitReady", "release"} : Goto(p, l, away)
  BY <1>3 DEF SaveNag, SaveUsed
<1>6. Good(p, l, away, file', lock')
  BY <1>4, AwayGood DEF WorkingLabels, CreatingAt, OpAt
<1>7. AtomInv'
  BY <1>2, <1>5, <1>6, GoodStep
<1>8. PICK old : old = me[p].mem[me[p].key]
  OBVIOUS
<1>9. CASE file' = file
  BY <1>7, <1>9, SameFile DEF Keeps
<1>10. CASE file' # file
  <2>1. me[p].key \in Keys
    BY <1>0, <1>10 DEF SaveNag, SaveUsed, Rewrite, Local
  <2>2. old \in Session
    BY <1>2, <1>8, <2>1 DEF Storage
  <2>3. PICK s : file' \in Rewrite(p, s) /\ (s = [old EXCEPT !.nag = TRUE] \/ s = [old EXCEPT !.used = TRUE])
    BY <1>8 DEF SaveNag, SaveUsed
  <2>4. s.run = old.run /\ s.tok = old.tok /\ (old.used => s.used) /\ (old.nag => s.nag)
    BY <2>2, <2>3 DEF Session
  <2>5. pc[p] \in Critical /\ me[p].mem # NotLoaded
    BY <1>1 DEF Critical
  <2>6. KeepsProgress
    BY <1>8, <2>3, <2>4, <2>5, RewriteKeeps
  <2> QED BY <1>7, <2>6 DEF Keeps
<1> QED BY <1>9, <1>10

LEMMA AtomUse ==
  ASSUME LocalFilesWork, TypeInv, AtomInv, NEW p \in Procs,
         \/ WaitReady(p) \/ LockAgent(p) \/ LockAgentFails(p) \/ Operate(p) \/ OperateNoGitDir(p)
         \/ Release(p)
  PROVE  Keeps
<1>1. pc[p] \in {"waitReady", "agent", "operate", "release"} /\ file' = file /\ lock' = lock
  BY DEF WaitReady, LockAgent, LockAgentFails, Operate, OperateNoGitDir, Release, At
<1>2. me[p].mem = NotLoaded
  BY <1>1, Mine DEF Critical, WorkingLabels
<1>3. Finish(p) \/ \E l \in {"agent", "operate", "saveUsed", "release", "cleanup"} : Goto(p, l, me[p])
  BY DEF WaitReady, LockAgent, LockAgentFails, Operate, OperateNoGitDir, Release
<1>4. ASSUME NEW l \in {"agent", "operate", "saveUsed", "release", "cleanup"}
      PROVE  l \notin WorkingLabels /\ ~CreatingAt(l, me[p]) /\ OpAt(l, me[p].op)
  BY DEF WorkingLabels, CreatingAt, OpAt
<1> QED BY <1>1, <1>2, <1>3, <1>4, AwayStep, FinishStep

LEMMA AtomCleanup ==
  ASSUME LocalFilesWork, TypeInv, AtomInv, NEW p \in Procs, Cleanup(p)
  PROVE  Keeps
<1>0. me[p] \in Local /\ pc[p] = "cleanup" /\ me[p].mem # NotLoaded
  BY DEF TypeInv, TypeOK, Cleanup, At, Critical
<1>1. lock = p /\ me[p].mem = file /\ Loaded(p)
  BY <1>0, LoadedFile DEF Critical
<1>2. file' = file \/ \E k : file' = DeleteSessions(file, {k})
  <2>1. file' \in Saves(file) \/ \E k : file' \in Saves(DeleteSessions(file, {k}))
    BY <1>1 DEF Cleanup
  <2>2. \A m : file' \in Saves(m) => file' = m
    BY Working
  <2> QED BY <2>1, <2>2
<1>3. Behind(file', file)
  BY <1>2, SameIsBehind, DeleteBehind
<1>4. PICK away : away = Away(me[p])
  OBVIOUS
<1>5. away.mem = NotLoaded /\ Goto(p, "release", away)
  BY <1>0, <1>4, AwayKeeps DEF Cleanup
<1>6. Good(p, "release", away, file', lock')
  BY <1>5, AwayGood DEF WorkingLabels, CreatingAt, OpAt
<1>7. AtomInv'
  BY <1>1, <1>5, <1>6, GoodStep
<1> QED BY <1>3, <1>7, BehindKeeps DEF Keeps

(* A process that starts to stop sessions keeps the lock. *)
LEMMA StoppingGood ==
  ASSUME NEW p, NEW loc, NEW f, lock' = p, Behind(loc.mem, f), Remembers("stopping", loc)
  PROVE  Good(p, "stopping", loc, f, lock')
BY DEF Good, Knows, OpAt, CreatingAt, WorkingLabels, Critical

LEMMA AtomPickStops ==
  ASSUME LocalFilesWork, TypeInv, AtomInv, NEW p \in Procs, PickStops(p)
  PROVE  Keeps
<1>0. /\ me[p] \in Local /\ pc[p] = "stop" /\ me[p].mem # NotLoaded
      /\ me[p].op = "stop" => me[p].key \in Keys
  BY DEF TypeInv, TypeOK, ProcsOK, Fits, Keyed, AllCommands, PickStops, At, Critical
<1>1. lock = p /\ me[p].mem = file /\ Loaded(p) /\ file \in Storage
  BY <1>0, LoadedFile DEF Critical
<1>2. me[p].op \in {"start", "stop", "stopAll", "stopId"}
  BY <1>0, Mine DEF OpAt
<1>3. PICK branch : branch = BranchOf(me[p].key)
  OBVIOUS
<1>4. PICK byRun : byRun = {<<file, {<<k, file[k]>>}>> : k \in KeysOfRun(file, me[p].run)}
  OBVIOUS
<1>5. PICK all : all = {<<file, {<<k, file[k]>> : k \in {j \in Keys : Has(file, j)}}>>}
  OBVIOUS
<1>6. PICK near : near = {l \in LookupBranch(file, branch) : l[2] # {}}
  OBVIOUS
<1>7. PICK found : found = CASE me[p].op = "stopAll" -> all [] me[p].op = "stop" -> near [] OTHER -> byRun
  OBVIOUS
<1>8. \/ \E f \in found :
           /\ file' \in IF f[1] = file THEN {file} ELSE Saves(f[1])
           /\ Goto(p, "stopping", [me[p] EXCEPT !.mem = f[1], !.cand = f[2]])
           /\ lock' = lock
      \/ /\ IF me[p].op = "start" THEN Goto(p, "initiate", Away(me[p])) ELSE Finish(p)
         /\ file' = file
  BY <1>1, <1>3, <1>4, <1>5, <1>6, <1>7 DEF PickStops
<1>9. ASSUME NEW f \in found,
             file' \in IF f[1] = file THEN {file} ELSE Saves(f[1]),
             Goto(p, "stopping", [me[p] EXCEPT !.mem = f[1], !.cand = f[2]]), lock' = lock
      PROVE  Keeps
  <2>1. Behind(f[1], file)
    <3>1. CASE me[p].op = "stop"
      <4>1. f \in LookupBranch(file, branch)
        BY <1>6, <1>7, <1>9, <3>1
      <4>2. branch \in Branches
        BY <1>0, <1>3, <3>1 DEF Keys, BranchOf
      <4> QED BY <1>1, <4>1, <4>2, LookupBranchFacts
    <3>2. CASE me[p].op = "stopAll"
      BY <1>5, <1>7, <1>9, <3>2, SameIsBehind
    <3>3. CASE me[p].op \notin {"stop", "stopAll"}
      <4>1. f \in byRun
        BY <1>7, <1>9, <3>3
      <4>2. f[1] = file
        BY <1>4, <4>1
      <4> QED BY <4>2, SameIsBehind
    <3> QED BY <3>1, <3>2, <3>3
  <2>2. file' = f[1]
    BY <1>9, Working
  <2>3. PICK loc : loc = [me[p] EXCEPT !.mem = f[1], !.cand = f[2]]
    OBVIOUS
  <2>4. loc.mem = f[1] /\ loc.op = me[p].op
    BY <1>0, <2>3 DEF Local
  <2>5. Remembers("stopping", loc)
    BY <1>2, <2>4 DEF Remembers
  <2>6. Behind(loc.mem, file')
    BY <2>2, <2>4, SameIsBehind
  <2>7. Good(p, "stopping", loc, file', lock')
    BY <1>1, <1>9, <2>5, <2>6, StoppingGood
  <2>8. AtomInv'
    BY <1>1, <1>9, <2>3, <2>7, GoodStep
  <2> QED BY <2>1, <2>2, <2>8, BehindKeeps DEF Keeps
<1>10. ASSUME IF me[p].op = "start" THEN Goto(p, "initiate", Away(me[p])) ELSE Finish(p), file' = file
       PROVE  Keeps
  <2>1. lock \notin {None, p} => lock' = lock
    BY <1>1
  <2>2. Away(me[p]).op = me[p].op /\ Away(me[p]).mem = NotLoaded
    BY <1>0, AwayKeeps
  <2>3. CASE me[p].op = "start"
    <3>1. ~CreatingAt("initiate", Away(me[p])) /\ OpAt("initiate", Away(me[p]).op)
      BY <2>2, <2>3 DEF CreatingAt, OpAt
    <3>2. "initiate" \notin WorkingLabels
      BY DEF WorkingLabels
    <3> QED BY <1>10, <2>1, <2>2, <2>3, <3>1, <3>2, AwayStep
  <2>4. CASE me[p].op # "start"
    BY <1>10, <2>1, <2>4, FinishStep
  <2> QED BY <2>3, <2>4
<1> QED BY <1>8, <1>9, <1>10

LEMMA AtomPickReset ==
  ASSUME LocalFilesWork, TypeInv, AtomInv, NEW p \in Procs, PickReset(p)
  PROVE  Keeps
<1>0. me[p] \in Local /\ pc[p] = "reset" /\ me[p].mem # NotLoaded /\ me[p].key \in Keys
  BY DEF TypeInv, TypeOK, ProcsOK, Fits, KeyedLabels, PickReset, At, Critical
<1>1. /\ lock = p /\ me[p].mem = file /\ Loaded(p) /\ file \in Storage
      /\ file' = file /\ lock' = lock
  BY <1>0, LoadedFile DEF Critical, PickReset
<1>2. me[p].op = "reset"
  BY <1>0, Mine DEF OpAt
<1>3. PICK f \in Lookup(file, me[p].key) :
        IF f[2] = NoSession
          THEN Goto(p, "initiate", Away(me[p]))
          ELSE Goto(p, "stopping", [me[p] EXCEPT !.mem = f[1], !.cand = {<<me[p].key, f[2]>>}])
  BY <1>1 DEF PickReset
<1>4. Behind(f[1], file) /\ (f[2] = NoSession => ~Has(file, me[p].key))
  BY <1>0, <1>1, LookupFacts
<1>5. CASE f[2] = NoSession
  <2>1. PICK loc : loc = Away(me[p])
    OBVIOUS
  <2>2. loc.op = "reset" /\ loc.key = me[p].key /\ loc.mem = NotLoaded
    BY <1>0, <1>2, <2>1, AwayKeeps
  <2>3. Good(p, "initiate", loc, file', lock')
    BY <1>1, <1>4, <1>5, <2>2
    DEF Good, Owns, Knows, OpAt, CreatingAt, Remembers, WorkingLabels, Critical
  <2>4. AtomInv'
    BY <1>1, <1>3, <1>5, <2>1, <2>3, GoodStep
  <2> QED BY <1>1, <2>4, SameFile DEF Keeps
<1>6. CASE f[2] # NoSession
  <2>1. PICK one : one = {<<me[p].key, f[2]>>}
    OBVIOUS
  <2>2. PICK loc : loc = [me[p] EXCEPT !.mem = f[1], !.cand = one]
    OBVIOUS
  <2>3. loc.mem = f[1] /\ loc.cand = one /\ loc.key = me[p].key
    BY <1>0, <2>2 DEF Local
  <2>4. \E c \in one : c[1] = me[p].key
    BY <2>1
  <2>5. Remembers("stopping", loc)
    BY <2>3, <2>4 DEF Remembers
  <2>6. Good(p, "stopping", loc, file', lock')
    BY <1>1, <1>4, <2>3, <2>5, StoppingGood
  <2>7. AtomInv'
    BY <1>1, <1>3, <1>6, <2>1, <2>2, <2>6, GoodStep
  <2> QED BY <1>1, <2>7, SameFile DEF Keeps
<1> QED BY <1>5, <1>6

(* Dropping a session from memory: it is remembered no more, and gone. *)
LEMMA DroppedGood ==
  ASSUME TypeInv, AtomInv, NEW p \in Procs, pc[p] \in {"stopping", "stopWait"}, NEW c \in me[p].cand,
         file' = file, lock' = lock
  PROVE  Good(p, "stopping", Dropped(p, c), file', lock')
<1>0. me[p] \in Local
  BY DEF TypeInv, TypeOK
<1>1. lock = p /\ Remembers(pc[p], me[p]) /\ Behind(me[p].mem, file)
  BY Mine DEF WorkingLabels
<1>2. PICK kept : kept = DeleteSessions(me[p].mem, {c[1]})
  OBVIOUS
<1>3. \A k \in Keys : kept[k] = IF k = c[1] THEN NoSession ELSE me[p].mem[k]
  BY <1>2 DEF DeleteSessions
<1>4. Behind(kept, file)
  BY <1>1, <1>2, DeleteBehind
<1>5. PICK loc : loc = Dropped(p, c)
  OBVIOUS
<1>6. loc.mem = kept /\ loc.cand = me[p].cand \ {c} /\ loc.op = me[p].op /\ loc.key = me[p].key
  BY <1>0, <1>2, <1>5 DEF Dropped, Local
<1>7. ASSUME loc.op \in {"exec", "execReset", "push", "reset"}, Has(kept, loc.key)
      PROVE  \E i \in loc.cand : i[1] = loc.key
  <2>1. loc.key \in Keys
    BY <1>6, <1>7 DEF TypeInv, ProcsOK, Fits, Keyed, AllCommands
  <2>2. loc.key # c[1] /\ Has(me[p].mem, loc.key)
    BY <1>3, <1>7, <2>1 DEF Has, NoSession, NewSession
  <2>3. PICK i \in me[p].cand : i[1] = me[p].key
    BY <1>1, <1>6, <1>7, <2>2 DEF Remembers, WorkingLabels
  <2> QED BY <1>6, <2>2, <2>3
<1>8. Remembers("stopping", loc)
  BY <1>6, <1>7 DEF Remembers
<1> QED BY <1>1, <1>4, <1>5, <1>6, <1>8, StoppingGood

LEMMA AtomStop ==
  ASSUME LocalFilesWork, TypeInv, AtomInv, NEW p \in Procs, StopOne(p) \/ StopWaited(p)
  PROVE  Keeps
<1>0. /\ me[p] \in Local /\ pc[p] \in {"stopping", "stopWait"} /\ file' = file /\ lock' = lock
  BY DEF TypeInv, TypeOK, StopOne, StopWaited, At
<1>1. lock = p /\ Remembers(pc[p], me[p]) /\ Behind(me[p].mem, file)
  BY <1>0, Mine DEF WorkingLabels
<1>2. PICK c \in me[p].cand :
        \/ Goto(p, "stopWait", [me[p] EXCEPT !.at = c[1], !.run = c[2].run, !.tok = c[2].tok])
        \/ Goto(p, "stopping", Dropped(p, c))
  BY DEF StopOne, StopWaited
<1>3. PICK loc : loc = [me[p] EXCEPT !.at = c[1], !.run = c[2].run, !.tok = c[2].tok]
  OBVIOUS
<1>4. loc.op = me[p].op /\ loc.key = me[p].key /\ loc.mem = me[p].mem /\ loc.cand = me[p].cand
  BY <1>0, <1>3 DEF Local
<1>5. Remembers("stopWait", loc)
  BY <1>0, <1>1, <1>4 DEF Remembers, WorkingLabels
<1>6. Good(p, "stopWait", loc, file', lock')
  BY <1>0, <1>1, <1>4, <1>5 DEF Good, Knows, OpAt, CreatingAt, WorkingLabels, Critical
<1>7. Good(p, "stopping", Dropped(p, c), file', lock')
  BY <1>0, DroppedGood
<1>8. AtomInv'
  BY <1>0, <1>2, <1>3, <1>6, <1>7, GoodStep
<1> QED BY <1>0, <1>8, SameFile DEF Keeps

LEMMA AtomStopsSaved ==
  ASSUME LocalFilesWork, TypeInv, AtomInv, NEW p \in Procs, StopsSaved(p)
  PROVE  Keeps
<1>0. /\ me[p] \in Local /\ pc[p] = "stopping" /\ me[p].cand = {}
  BY DEF TypeInv, TypeOK, StopsSaved, At
<1>1. lock = p /\ Remembers("stopping", me[p]) /\ Behind(me[p].mem, file)
  BY <1>0, Mine DEF WorkingLabels
<1>2. file' = me[p].mem
  BY Working DEF StopsSaved
<1>3. PICK loc : loc = Away(me[p])
  OBVIOUS
<1>4. loc.op = me[p].op /\ loc.key = me[p].key /\ loc.mem = NotLoaded
  BY <1>0, <1>3, AwayKeeps
<1>5. CASE me[p].op \in {"reset", "execReset"}
  <2>1. Goto(p, "initiate", loc) /\ lock' = lock
    BY <1>3, <1>5 DEF StopsSaved
  <2>2. ~Has(file', loc.key)
    BY <1>0, <1>1, <1>2, <1>4, <1>5 DEF Remembers, WorkingLabels
  <2>3. Good(p, "initiate", loc, file', lock')
    BY <1>1, <1>4, <1>5, <2>1, <2>2
    DEF Good, Owns, Knows, OpAt, CreatingAt, Remembers, WorkingLabels, Critical
  <2>4. AtomInv'
    BY <1>1, <2>1, <2>3, GoodStep
  <2> QED BY <1>1, <1>2, <2>4, BehindKeeps DEF Keeps
<1>6. CASE me[p].op \notin {"reset", "execReset"}
  <2>1. (me[p].op = "start" /\ Goto(p, "initiate", loc)) \/ Finish(p)
    BY <1>3, <1>6 DEF StopsSaved
  <2>2. me[p].op = "start" => Good(p, "initiate", loc, file', lock')
    BY <1>4, AwayGood DEF WorkingLabels, CreatingAt, OpAt
  <2>3. AtomInv'
    BY <1>1, <2>1, <2>2, FinishGood, GoodStep
  <2> QED BY <1>1, <1>2, <2>3, BehindKeeps DEF Keeps
<1> QED BY <1>5, <1>6

LEMMA AtomList ==
  ASSUME LocalFilesWork, TypeInv, AtomInv, NEW p \in Procs, List(p) \/ ListFails(p)
  PROVE  Keeps
<1>0. pc[p] = "list" /\ me[p].mem # NotLoaded /\ Finish(p)
  BY DEF List, ListFails, At, Critical
<1>1. lock = p /\ me[p].mem = file /\ Loaded(p) /\ file \in Storage
  BY <1>0, LoadedFile DEF Critical
<1>2. Behind(file', file)
  <2>1. CASE List(p)
    <3>0. PICK listed \in SUBSET Runs : \E i \in Adopted(file, listed), gone \in SUBSET Keys :
            file' \in IF gone = {} /\ i = file THEN {file} ELSE Saves(DeleteSessions(i, gone))
      BY <1>1, <2>1 DEF List
    <3>1. PICK m \in Adopted(file, listed), gone \in SUBSET Keys :
            file' \in IF gone = {} /\ m = file THEN {file} ELSE Saves(DeleteSessions(m, gone))
      BY <3>0
    <3>2. PICK f : m = [k \in Keys |-> IF ~Has(file, k) /\ f[k] # None
                                         THEN NewSession(f[k], None) ELSE file[k]]
      BY DEF Adopted
    <3>3. Behind(m, file)
      BY <3>2 DEF Behind
    <3>4. file' = file \/ file' = DeleteSessions(m, gone)
      BY <3>1, Working
    <3> QED BY <3>3, <3>4, SameIsBehind, DeleteBehind
  <2>2. CASE ListFails(p)
    BY <2>2, SameIsBehind DEF ListFails
  <2> QED BY <2>1, <2>2
<1>3. AtomInv'
  BY <1>0, <1>1, FinishGood
<1> QED BY <1>2, <1>3, BehindKeeps DEF Keeps

LEMMA AtomCrash ==
  ASSUME TypeInv, AtomInv, NEW p \in Procs, Crash(p)
  PROVE  Keeps
<1>1. lock \notin {None, p} => lock' = lock
  BY UnlockFrees DEF Crash
<1> QED BY <1>1, FinishStep DEF Crash

LEMMA AtomEnv ==
  ASSUME AtomInv, UNCHANGED <<file, lock, pc, me>>
  PROVE  Keeps
BY SameFile DEF Keeps, AtomInv

LEMMA NextKeeps == LocalFilesWork /\ TypeInv /\ AtomInv /\ [Next]_vars => Keeps
<1> SUFFICES ASSUME LocalFilesWork, TypeInv, AtomInv, [Next]_vars PROVE Keeps
  OBVIOUS
<1>1. CASE UNCHANGED vars
  BY <1>1, AtomEnv DEF vars
<1>2. ASSUME NEW r \in Runs, RunReady(r) \/ RunEnds(r) PROVE Keeps
  BY <1>2, AtomEnv DEF RunReady, RunEnds
<1>3. ASSUME NEW p \in Procs, Step(p) PROVE Keeps
  BY <1>3, AtomAcquire, AtomCheck, AtomSelect, AtomPrune, AtomResolved, AtomInitiate, AtomPersist,
     AtomToken, AtomSaves, AtomUse, AtomCleanup, AtomPickStops, AtomPickReset, AtomStop,
     AtomStopsSaved, AtomList
  DEF Step
<1> QED BY <1>1, <1>2, <1>3, AtomBegin, AtomAcquire, AtomUse, AtomCrash DEF Next

LEMMA InitAtom == Init => AtomInv
<1> SUFFICES ASSUME Init, NEW p \in Procs PROVE Good(p, pc[p], me[p], file, lock)
  BY DEF AtomInv
<1>1. pc[p] = "idle" /\ me[p] = Idle
  BY DEF Init
<1>2. Good(p, "idle", Idle, file, lock)
  BY AwayGood DEF Idle, WorkingLabels, CreatingAt, OpAt
<1> QED BY <1>1, <1>2

(* Where the local files work, "no session found, create a sandbox, persist
   its session" is atomic for exec and reset: while one process creates a
   sandbox for a key, nothing is recorded there and no other creates one. *)
THEOREM CreationIsAtomic == LocalFilesWork => (Spec => []CheckThenCreateAtomic)
<1> SUFFICES ASSUME LocalFilesWork PROVE Spec => []CheckThenCreateAtomic
  OBVIOUS
<1>1. Init => TypeInv /\ AtomInv
  BY InitTypeInv, InitAtom
<1>2. TypeInv /\ AtomInv /\ [Next]_vars => (TypeInv /\ AtomInv)'
  BY NextTypeInv, NextKeeps DEF Keeps
<1>3. TypeInv /\ AtomInv => CheckThenCreateAtomic
  <2> SUFFICES ASSUME AtomInv, NEW p \in Procs, Creating(p)
               PROVE  /\ ~Has(file, me[p].key)
                      /\ \A q \in Procs \ {p} : ~Creating(q)
    BY DEF CheckThenCreateAtomic
  <2>1. \A q \in Procs : Creating(q) => lock = q /\ ~Has(file, me[q].key)
    BY Mine DEF Creating, CreatingAt
  <2> QED BY <2>1
<1> QED BY <1>1, <1>2, <1>3, PTL DEF Spec

(* Where the local files work, no process loses what another one recorded of
   a session, whatever the two are doing, but for the late writes. *)
THEOREM ProgressIsKept == LocalFilesWork => (Spec => SessionProgressKept)
<1> SUFFICES ASSUME LocalFilesWork PROVE Spec => SessionProgressKept
  OBVIOUS
<1>1. Init => TypeInv /\ AtomInv
  BY InitTypeInv, InitAtom
<1>2. TypeInv /\ AtomInv /\ [Next]_vars => (TypeInv /\ AtomInv)'
  BY NextTypeInv, NextKeeps DEF Keeps
<1>3. TypeInv /\ AtomInv /\ [Next]_vars => [LateWrite \/ KeepsProgress]_vars
  BY NextKeeps DEF Keeps
<1> QED BY <1>1, <1>2, <1>3, PTL DEF Spec, SessionProgressKept

-----------------------------------------------------------------------------
(***************************************************************************)
(* Runs nobody asked to stop stay recorded.  Beyond local files that work  *)
(* this needs calls that get through, since a run that is not reported     *)
(* alive is forgotten, and positions with one ancestor at most: where two  *)
(* ancestors have a session of one definition, both move to one key and    *)
(* the storage keeps the one it meets last.                                *)
(***************************************************************************)
CallsWork == "api" \notin Faults
FewAncestors == \A a, b \in Ancestor : a[2] = b[2] => a = b

Started(st, r) == st[r] # "none"
Gone(st, r) == st[r] \in {"ending", "ended"}

(* What m lacks of the runs recorded in f has been stopped. *)
Shed(m, f, st) == RunsIn(m) \subseteq RunsIn(f) /\ \A r \in RunsIn(f) \ RunsIn(m) : Gone(st, r)

Tracks(l, loc, f, st) ==
  /\ loc.run # None => Started(st, loc.run)
  /\ l \in WorkingLabels => \A c \in loc.cand : loc.mem[c[1]] = c[2]
  /\ l \in {"stopping", "stopWait"} => Shed(loc.mem, f, st)
  /\ l \in {"stopWait", "cleanup"} /\ loc.run # None => Gone(st, loc.run)
LiveInv ==
  /\ \A r \in RunsIn(file) : Started(status, r)
  /\ \A p \in Procs : Tracks(pc[p], me[p], file, status)

(* No run starts twice, and none comes back once asked to stop. *)
Forward ==
  \A r \in Runs : /\ Started(status, r) => Started(status', r)
                  /\ Gone(status, r) => Gone(status', r)

KeepsLive == LiveInv' /\ (LateWrite \/ ForgetsNoLiveRun)

(* All that the steps below rely on. *)
Whole == LocalFilesWork /\ CallsWork /\ FewAncestors /\ TypeInv /\ ScopeInv /\ AtomInv /\ LiveInv

LEMMA RunsAreRuns ==
  ASSUME NEW m \in Storage
  PROVE  /\ RunsIn(m) \subseteq Runs
         /\ \A k \in Keys : m[k].run # None => m[k].run \in RunsIn(m)
         /\ \A r \in RunsIn(m) : \E k \in Keys : m[k].run = r /\ r # None
BY DEF RunsIn, Storage, Session

(* A session moved from a key to a free one is still recorded. *)
LEMMA RekeyedRuns ==
  ASSUME NEW m \in Storage, NEW k \in Keys, NEW a \in Keys, ~Has(m, k), Has(m, a)
  PROVE  RunsIn(Rekeyed(m, a, k)) = RunsIn(m)
<1>1. PICK n : n = Rekeyed(m, a, k)
  OBVIOUS
<1>2. n[k] = m[a] /\ \A j \in Keys \ {k} : n[j] = IF j = a THEN NoSession ELSE m[j]
  BY <1>1, RekeyedFacts
<1>3. m[k].run = None /\ NoSession.run = None /\ a # k
  BY DEF Has, NoSession, NewSession
<1>4. \A r : r # None => ((\E j \in Keys : n[j].run = r) <=> (\E j \in Keys : m[j].run = r))
  <2> SUFFICES ASSUME NEW r, r # None
               PROVE  (\E j \in Keys : n[j].run = r) <=> (\E j \in Keys : m[j].run = r)
    OBVIOUS
  <2>1. ASSUME NEW j \in Keys, n[j].run = r PROVE \E i \in Keys : m[i].run = r
    BY <1>2, <1>3, <2>1
  <2>2. ASSUME NEW j \in Keys, m[j].run = r PROVE \E i \in Keys : n[i].run = r
    <3>1. CASE j = a
      BY <1>2, <2>2, <3>1
    <3>2. CASE j # a
      <4>1. j # k
        BY <1>3, <2>2
      <4> QED BY <1>2, <2>2, <3>2, <4>1
    <3> QED BY <3>1, <3>2
  <2> QED BY <2>1, <2>2
<1> QED BY <1>1, <1>4 DEF RunsIn

LEMMA LookupRuns ==
  ASSUME NEW m \in Storage, NEW k \in Keys, NEW l \in Lookup(m, k)
  PROVE  /\ RunsIn(l[1]) = RunsIn(m)
         /\ l[2].run # None => l[2].run \in RunsIn(m)
<1> DEFINE near == {a \in AncestorKeys(m, BranchOf(k)) : ConfigOf(a) = ConfigOf(k)}
<1>2. CASE Has(m, k) \/ near = {}
  <2>1. l = <<m, m[k]>>
    BY <1>2 DEF Lookup
  <2> QED BY <2>1, RunsAreRuns
<1>3. CASE ~(Has(m, k) \/ near = {})
  <2>1. PICK a \in near : l = <<Rekeyed(m, a, k), m[a]>>
    BY <1>3 DEF Lookup
  <2>2. a \in Keys /\ Has(m, a) /\ m[a].run # None
    BY DEF AncestorKeys, Has
  <2> QED BY <1>3, <2>1, <2>2, RekeyedRuns, RunsAreRuns
<1> QED BY <1>2, <1>3

(* Where a position has one ancestor at most, re-keying loses no session. *)
LEMMA LookupBranchRuns ==
  ASSUME FewAncestors, NEW m \in Storage, NEW b \in Branches, NEW l \in LookupBranch(m, b)
  PROVE  /\ RunsIn(l[1]) = RunsIn(m)
         /\ \A c \in l[2] : l[1][c[1]] = c[2]
<1> DEFINE near == AncestorKeys(m, b)
           now(a) == <<b, ConfigOf(a)>>
           last == {f \in [Configs -> near] :
                      \A c \in Configs : (\E a \in near : ConfigOf(a) = c) => ConfigOf(f[c]) = c}
           moved(f) == [k \in Keys |->
                          IF BranchOf(k) = b /\ (\E a \in near : ConfigOf(a) = ConfigOf(k))
                            THEN m[f[ConfigOf(k)]]
                          ELSE IF k \in near THEN NoSession ELSE m[k]]
<1>1. \A k \in Keys : k = <<BranchOf(k), ConfigOf(k)>> /\ BranchOf(k) \in Branches /\ ConfigOf(k) \in Configs
  BY DEF Keys, BranchOf, ConfigOf
<1>2. CASE SessionsForBranch(m, b) # {} \/ near = {}
  <2>1. l = <<m, SessionsForBranch(m, b)>>
    BY <1>2 DEF LookupBranch
  <2>2. \A c \in SessionsForBranch(m, b) : m[c[1]] = c[2]
    BY DEF SessionsForBranch
  <2> QED BY <2>1, <2>2
<1>3. CASE ~(SessionsForBranch(m, b) # {} \/ near = {})
  <2>1. PICK f \in last : l = <<moved(f), {<<now(a), m[a]>> : a \in near}>>
    BY <1>3 DEF LookupBranch
  <2>2. \A k \in Keys : BranchOf(k) = b => m[k].run = None
    <3>1. \A k \in Keys : BranchOf(k) = b /\ Has(m, k) => <<k, m[k]>> \in SessionsForBranch(m, b)
      BY DEF SessionsForBranch
    <3> QED BY <1>3, <3>1 DEF Has
  <2>3. PICK g : g = moved(f)
    OBVIOUS
  <2>4. \A k \in Keys : g[k] = IF BranchOf(k) = b /\ (\E a \in near : ConfigOf(a) = ConfigOf(k))
                                 THEN m[f[ConfigOf(k)]]
                               ELSE IF k \in near THEN NoSession ELSE m[k]
    BY <2>3
  <2>5. \A a \in near : a \in Keys /\ m[a].run # None /\ <<BranchOf(a), b>> \in Ancestor
    BY DEF AncestorKeys, Has
  <2>6. ASSUME NEW a \in near, NEW i \in near, ConfigOf(a) = ConfigOf(i) PROVE a = i
    <3>1. PICK x : x = <<BranchOf(a), b>>
      OBVIOUS
    <3>2. PICK y : y = <<BranchOf(i), b>>
      OBVIOUS
    <3>3. x \in Ancestor /\ y \in Ancestor /\ x[2] = y[2]
      BY <2>5, <3>1, <3>2
    <3>4. x = y
      BY <3>3 DEF FewAncestors
    <3>5. BranchOf(a) = BranchOf(i)
      BY <3>1, <3>2, <3>4
    <3> QED BY <1>1, <2>5, <2>6, <3>5
  <2>7. ASSUME NEW a \in near PROVE f[ConfigOf(a)] = a
    <3>1. ConfigOf(a) \in Configs
      BY <1>1, <2>5
    <3>2. f[ConfigOf(a)] \in near /\ ConfigOf(f[ConfigOf(a)]) = ConfigOf(a)
      BY <2>1, <3>1
    <3> QED BY <2>6, <3>2
  <2>8. ASSUME NEW a \in near PROVE now(a) \in Keys /\ g[now(a)] = m[a]
    <3>1. PICK k : k = now(a)
      OBVIOUS
    <3>2. k \in Keys /\ BranchOf(k) = b /\ ConfigOf(k) = ConfigOf(a)
      BY <1>1, <2>5, <3>1 DEF Keys, BranchOf, ConfigOf
    <3>3. g[k] = m[f[ConfigOf(a)]]
      BY <2>4, <3>2
    <3> QED BY <2>7, <3>1, <3>2, <3>3
  <2> HIDE DEF near, last
  <2>9. \A c \in {<<now(a), m[a]>> : a \in near} : g[c[1]] = c[2]
    BY <2>8
  <2>10. ASSUME NEW r, r # None
         PROVE  (\E k \in Keys : g[k].run = r) <=> (\E k \in Keys : m[k].run = r)
    <3>1. ASSUME NEW k \in Keys, m[k].run = r PROVE \E i \in Keys : g[i].run = r
      <4>1. CASE k \in near
        <5>1. g[now(k)].run = r /\ now(k) \in Keys
          BY <2>8, <3>1, <4>1
        <5> QED BY <5>1
      <4>2. CASE k \notin near
        <5>1. BranchOf(k) # b
          BY <2>2, <2>10, <3>1
        <5>2. g[k] = m[k]
          BY <2>4, <4>2, <5>1
        <5> QED BY <3>1, <5>2
      <4> QED BY <4>1, <4>2
    <3>2. ASSUME NEW k \in Keys, g[k].run = r PROVE \E i \in Keys : m[i].run = r
      <4>1. CASE BranchOf(k) = b /\ (\E a \in near : ConfigOf(a) = ConfigOf(k))
        <5>1. PICK a \in near : ConfigOf(a) = ConfigOf(k)
          BY <4>1
        <5>2. g[k] = m[a] /\ a \in Keys
          <6>1. g[k] = m[f[ConfigOf(k)]]
            BY <2>4, <3>2, <4>1
          <6> QED BY <2>5, <2>7, <5>1, <6>1
        <5> QED BY <3>2, <5>2
      <4>2. CASE ~(BranchOf(k) = b /\ (\E a \in near : ConfigOf(a) = ConfigOf(k)))
        <5>1. NoSession.run = None
          BY DEF NoSession, NewSession
        <5>2. g[k] = m[k]
          BY <2>4, <2>10, <3>2, <4>2, <5>1
        <5> QED BY <3>2, <5>2
      <4> QED BY <4>1, <4>2
    <3> QED BY <3>1, <3>2
  <2>11. RunsIn(g) = RunsIn(m)
    <3>1. \A r : r \in RunsIn(g) <=> (r # None /\ \E k \in Keys : g[k].run = r)
      BY DEF RunsIn
    <3>2. \A r : r \in RunsIn(m) <=> (r # None /\ \E k \in Keys : m[k].run = r)
      BY DEF RunsIn
    <3> HIDE DEF moved, now
    <3>3. \A r : r \in RunsIn(g) <=> r \in RunsIn(m)
      BY <2>10, <3>1, <3>2
    <3> QED BY <3>3
  <2> QED BY <2>1, <2>3, <2>9, <2>11
<1> QED BY <1>2, <1>3

(* What writing, and what deleting a session does to the runs recorded. *)
LEMMA SetRuns ==
  ASSUME NEW f \in Storage, NEW k \in Keys, NEW r, NEW t
  PROVE  /\ RunsIn(SetSession(f, k, NewSession(r, t))) \subseteq RunsIn(f) \cup ({r} \ {None})
         /\ ~Has(f, k) => RunsIn(f) \subseteq RunsIn(SetSession(f, k, NewSession(r, t)))
<1>1. PICK s : s = NewSession(r, t)
  OBVIOUS
<1>2. s.run = r
  BY <1>1 DEF NewSession
<1>3. PICK n : n = SetSession(f, k, s)
  OBVIOUS
<1>4. \A i \in Keys : n[i] = IF i = k THEN s ELSE f[i]
  BY <1>3 DEF SetSession, Storage
<1>5. RunsIn(n) \subseteq RunsIn(f) \cup ({r} \ {None})
  BY <1>2, <1>4 DEF RunsIn
<1>6. ASSUME ~Has(f, k) PROVE RunsIn(f) \subseteq RunsIn(n)
  BY <1>4, <1>6 DEF RunsIn, Has
<1> QED BY <1>1, <1>3, <1>5, <1>6

LEMMA DeleteRuns ==
  ASSUME NEW m, NEW K
  PROVE  /\ RunsIn(DeleteSessions(m, K)) \subseteq RunsIn(m)
         /\ \A r \in RunsIn(m) \ RunsIn(DeleteSessions(m, K)) : \E k \in Keys \cap K : m[k].run = r
<1>1. NoSession.run = None
  BY DEF NoSession, NewSession
<1>2. PICK n : n = DeleteSessions(m, K)
  OBVIOUS
<1>3. \A k \in Keys : n[k] = IF k \in K THEN NoSession ELSE m[k]
  BY <1>2 DEF DeleteSessions
<1>4. RunsIn(n) \subseteq RunsIn(m)
  BY <1>1, <1>3 DEF RunsIn
<1>5. ASSUME NEW r \in RunsIn(m), r \notin RunsIn(n) PROVE \E k \in Keys \cap K : m[k].run = r
  <2>1. PICK k \in Keys : m[k].run = r /\ r # None
    BY <1>5 DEF RunsIn
  <2>2. k \in K
    BY <1>3, <1>5, <2>1 DEF RunsIn
  <2> QED BY <2>1, <2>2
<1> QED BY <1>2, <1>4, <1>5

(* The server's word on a run that was created and is not alive. *)
LEMMA DeadIsGone ==
  ASSUME CallsWork, TypeOK, NEW r \in Runs, NEW t \in {None, r}, Started(status, r),
         NEW a \in Answers(r, t), ~Alive(a)
  PROVE  Gone(status, r)
<1>1. status[r] \in {"none", "starting", "ready", "ending", "ended"}
  BY DEF TypeOK
<1>2. CASE status[r] \in {"starting", "ready"}
  <2>1. a = status[r]
    BY <1>2 DEF Answers, CallsWork
  <2> QED BY <1>2, <2>1 DEF Alive
<1> QED BY <1>1, <1>2 DEF Started, Gone

LEMMA SameForward == status' = status => Forward
BY DEF Forward

LEMMA SameShed == \A m, st : Shed(m, m, st)
BY DEF Shed

LEMMA SameRunsShed ==
  ASSUME NEW m, NEW f, RunsIn(m) = RunsIn(f), NEW st
  PROVE  Shed(m, f, st)
BY DEF Shed

(* One step of one process leaves what the others track alone. *)
LEMMA LiveStep ==
  ASSUME Whole, NEW p \in Procs, NEW l, NEW loc, Goto(p, l, loc), file' = file \/ lock = p, Forward,
         \A r \in RunsIn(file') : Started(status', r),
         Tracks(l, loc, file', status')
  PROVE  LiveInv'
<1>1. pc'[p] = l /\ me'[p] = loc
  BY DEF Goto, Whole, TypeInv, TypeOK
<1>2. ASSUME NEW q \in Procs, q # p PROVE Tracks(pc'[q], me'[q], file', status')
  <2>1. pc'[q] = pc[q] /\ me'[q] = me[q]
    BY <1>2 DEF Goto, Whole, TypeInv, TypeOK
  <2>2. Tracks(pc[q], me[q], file, status)
    BY DEF Whole, LiveInv
  <2>3. me[q].run \in Runs \cup {None} /\ RunsIn(file) \subseteq Runs
    BY RunsAreRuns DEF Whole, TypeInv, TypeOK, Local
  <2>4. pc[q] \in {"stopping", "stopWait"} => file' = file
    BY <1>2, Mine DEF Whole, WorkingLabels
  <2>5. pc[q] \in {"stopping", "stopWait"} => Shed(me[q].mem, file', status')
    BY <2>2, <2>3, <2>4 DEF Tracks, Shed, Forward
  <2> QED BY <2>1, <2>2, <2>3, <2>5 DEF Tracks, Forward
<1> QED BY <1>1, <1>2 DEF LiveInv

LEMMA ShedStep ==
  ASSUME Whole, NEW p \in Procs, NEW l, NEW loc, Goto(p, l, loc), file' = file \/ lock = p,
         status' = status, Shed(file', file, status), Tracks(l, loc, file', status)
  PROVE  KeepsLive
<1>1. \A r \in RunsIn(file') : Started(status', r)
  BY DEF Whole, LiveInv, Shed
<1>2. LiveInv'
  BY <1>1, LiveStep, SameForward
<1>3. ForgetsNoLiveRun
  BY DEF ForgetsNoLiveRun, Shed, Gone
<1> QED BY <1>2, <1>3 DEF KeepsLive

LEMMA PlainTracks ==
  ASSUME NEW l, NEW loc, NEW f, NEW st, l \notin WorkingLabels \cup {"cleanup"},
         loc.run # None => Started(st, loc.run)
  PROVE  Tracks(l, loc, f, st)
BY DEF Tracks, WorkingLabels

LEMMA FinishShed ==
  ASSUME Whole, NEW p \in Procs, Finish(p), file' = file \/ lock = p,
         status' = status, Shed(file', file, status)
  PROVE  KeepsLive
<1>1. Tracks("idle", Idle, file', status)
  BY PlainTracks DEF Idle, WorkingLabels
<1> QED BY <1>1, ShedStep DEF Finish

(* A step that leaves the file and the runs alone. *)
LEMMA QuietStep ==
  ASSUME Whole, NEW p \in Procs, NEW l, NEW loc, Goto(p, l, loc), file' = file, status' = status,
         l \notin WorkingLabels \cup {"cleanup"}, loc.run # None => Started(status, loc.run)
  PROVE  KeepsLive
<1>1. Tracks(l, loc, file', status) /\ Shed(file', file, status)
  BY PlainTracks, SameShed
<1> QED BY <1>1, ShedStep

LEMMA QuietFinish ==
  ASSUME Whole, NEW p \in Procs, Finish(p), file' = file, status' = status
  PROVE  KeepsLive
BY FinishShed, SameShed

LEMMA MyRuns ==
  ASSUME Whole, NEW p \in Procs
  PROVE  /\ me[p] \in Local /\ Fits(pc[p], me[p]) /\ file \in Storage /\ TypeOK
         /\ Tracks(pc[p], me[p], file, status)
         /\ me[p].run # None => Started(status, me[p].run)
         /\ \A r \in RunsIn(file) : Started(status, r)
         /\ pc[p] \in WorkingLabels => me[p].mem \in Storage /\ Scoped(me[p].mem)
         /\ Scoped(file)
BY DEF Whole, TypeInv, TypeOK, ProcsOK, LiveInv, Tracks, ScopeInv, ScopeOK, ScopedLocals, Fits,
   TokenScope, Scoped

LEMMA LiveBegin ==
  ASSUME Whole, NEW p \in Procs, Begin(p) \/ BeginWithRun(p) \/ BeginStopRun(p)
  PROVE  KeepsLive
<1>1. file' = file /\ status' = status
  BY DEF Begin, BeginWithRun, BeginStopRun, server
<1>2. CASE Begin(p)
  <2>1. PICK op \in Commands, k \in Keys, named \in BOOLEAN, l \in Labels \ (WorkingLabels \cup {"cleanup"}) :
          Goto(p, l, [Idle EXCEPT !.op = op, !.key = k, !.flag = named])
    <3>1. PICK op \in Commands \ {"attach", "execId", "pushId", "stopId"}, k \in Keys, named \in BOOLEAN :
            Goto(p, CASE op = "start" -> "check"
                      [] op \in {"exec", "execReset", "push"} -> "select"
                      [] op \in {"stop", "stopAll"} -> "stop"
                      [] op = "reset" -> "reset"
                      [] op = "list" -> "list",
                 [Idle EXCEPT !.op = op, !.key = k, !.flag = named])
      BY <1>2 DEF Begin
    <3>2. op \in {"start", "exec", "execReset", "push", "stop", "stopAll", "reset", "list"}
      BY CommandsAssumption DEF AllCommands
    <3>3. PICK l : l = CASE op = "start" -> "check"
                         [] op \in {"exec", "execReset", "push"} -> "select"
                         [] op \in {"stop", "stopAll"} -> "stop"
                         [] op = "reset" -> "reset"
                         [] op = "list" -> "list"
      OBVIOUS
    <3>4. l \in {"check", "select", "stop", "reset", "list"}
      BY <3>2, <3>3
    <3> QED BY <3>1, <3>3, <3>4 DEF Labels, Critical, WorkingLabels
  <2>2. PICK loc : loc = [Idle EXCEPT !.op = op, !.key = k, !.flag = named]
    OBVIOUS
  <2>3. loc.run = None
    BY <2>2 DEF Idle
  <2> QED BY <1>1, <2>1, <2>2, <2>3, QuietStep
<1>3. CASE BeginWithRun(p)
  <2>1. PICK op \in Commands \cap {"attach", "execId", "pushId"}, r \in Runs, m \in Loads, k \in Keys \cup {None} :
          /\ status[r] # "none"
          /\ op = "attach" => k # None
          /\ LET found == IF m = LoadFailed THEN {} ELSE KeysOfRun(m, r)
             IN  \E s \in IF found = {} THEN {NoSession} ELSE {m[j] : j \in found} :
                   Goto(p, IF op = "attach" THEN "reattach"
                           ELSE IF op = "execId" /\ s.used /\ ~s.nag THEN "saveNag" ELSE "waitReady",
                        [Idle EXCEPT !.op = op, !.key = k, !.run = r, !.tok = s.tok,
                                     !.flag = (found # {} \/ m = LoadFailed)])
    BY <1>3 DEF BeginWithRun
  <2>2. PICK found : found = IF m = LoadFailed THEN {} ELSE KeysOfRun(m, r)
    OBVIOUS
  <2>3. PICK s \in IF found = {} THEN {NoSession} ELSE {m[j] : j \in found} :
          Goto(p, IF op = "attach" THEN "reattach"
                  ELSE IF op = "execId" /\ s.used /\ ~s.nag THEN "saveNag" ELSE "waitReady",
               [Idle EXCEPT !.op = op, !.key = k, !.run = r, !.tok = s.tok,
                            !.flag = (found # {} \/ m = LoadFailed)])
    BY <2>1, <2>2
  <2>4. PICK loc : loc = [Idle EXCEPT !.op = op, !.key = k, !.run = r, !.tok = s.tok,
                                      !.flag = (found # {} \/ m = LoadFailed)]
    OBVIOUS
  <2>5. loc.run = r
    BY <2>4 DEF Idle
  <2>6. PICK l \in {"reattach", "saveNag", "waitReady"} : Goto(p, l, loc)
    BY <2>3, <2>4
  <2>7. l \notin WorkingLabels \cup {"cleanup"} /\ Started(status, loc.run)
    BY <2>1, <2>5, <2>6 DEF WorkingLabels, Started
  <2> QED BY <1>1, <2>6, <2>7, QuietStep
<1>4. CASE BeginStopRun(p)
  <2>1. PICK r \in Runs : status[r] # "none" /\ Goto(p, "stop", [Idle EXCEPT !.op = "stopId", !.run = r])
    BY <1>4 DEF BeginStopRun
  <2>2. PICK loc : loc = [Idle EXCEPT !.op = "stopId", !.run = r]
    OBVIOUS
  <2>3. loc.run = r
    BY <2>2 DEF Idle
  <2>4. "stop" \notin WorkingLabels \cup {"cleanup"} /\ Started(status, loc.run)
    BY <2>1, <2>3 DEF WorkingLabels, Started
  <2> QED BY <1>1, <2>1, <2>2, <2>4, QuietStep
<1> QED BY <1>2, <1>3, <1>4

LEMMA LiveAcquire ==
  ASSUME Whole, NEW p \in Procs, Acquire(p) \/ LockFails(p)
  PROVE  KeepsLive
<1>1. Acquire(p)
  BY DEF LockFails, LocalFilesWork, Whole
<1>2. /\ pc[p] \in Critical /\ file' = file /\ pc' = pc /\ status' = status
      /\ me' = [me EXCEPT ![p].mem = file]
  BY <1>1, Working DEF Acquire, server, Whole
<1>3. PICK loc : loc = [me[p] EXCEPT !.mem = file]
  OBVIOUS
<1>4. loc.run = me[p].run
  BY <1>3, MyRuns DEF Local
<1>5. Goto(p, pc[p], loc)
  BY <1>2, <1>3 DEF Goto, Whole, TypeInv, TypeOK
<1>6. Tracks(pc[p], loc, file', status)
  BY <1>2, <1>4, MyRuns DEF Tracks, Critical, WorkingLabels
<1> QED BY <1>2, <1>5, <1>6, ShedStep, SameShed

(* What a section works with once it has loaded the file. *)
LEMMA LiveLoaded ==
  ASSUME Whole, NEW p \in Procs, pc[p] \in Critical, me[p].mem # NotLoaded
  PROVE  lock = p /\ me[p].mem = file /\ Loaded(p)
BY LoadedFile DEF Whole

LEMMA LiveCheck ==
  ASSUME Whole, NEW p \in Procs, Check(p) \/ CheckActive(p)
  PROVE  KeepsLive
<1>0. me[p] \in Local /\ Fits(pc[p], me[p]) /\ file \in Storage /\ status' = status
  BY MyRuns DEF Check, CheckActive, server
<1>1. CASE Check(p)
  <2>1. pc[p] = "check" /\ lock = p /\ me[p].mem = file /\ Loaded(p) /\ me[p].key \in Keys
    BY <1>0, <1>1, LiveLoaded DEF Check, At, Critical, Fits, KeyedLabels
  <2>2. PICK found \in Lookup(file, me[p].key) :
          /\ file' \in IF found[1] = file THEN {file} ELSE Saves(found[1])
          /\ Goto(p, IF found[2] = NoSession THEN "initiate" ELSE "active",
                  [Away(me[p]) EXCEPT !.run = found[2].run, !.tok = found[2].tok])
    BY <1>1, <2>1 DEF Check
  <2>3. file' = found[1]
    BY <2>2, Working DEF Whole
  <2>4. RunsIn(file') = RunsIn(file) /\ (found[2].run # None => Started(status, found[2].run))
    BY <1>0, <2>1, <2>2, <2>3, LookupRuns, MyRuns
  <2>5. PICK loc : loc = [Away(me[p]) EXCEPT !.run = found[2].run, !.tok = found[2].tok]
    OBVIOUS
  <2>6. loc.run = found[2].run
    BY <1>0, <2>5 DEF Away, Local
  <2>7. PICK l \in {"initiate", "active"} : Goto(p, l, loc)
    BY <2>2, <2>5
  <2>8. Tracks(l, loc, file', status)
    BY <2>4, <2>6, PlainTracks DEF WorkingLabels
  <2>9. Shed(file', file, status)
    BY <2>4, SameRunsShed
  <2> QED BY <1>0, <2>1, <2>7, <2>8, <2>9, ShedStep
<1>2. CASE CheckActive(p)
  <2>1. file' = file
    BY <1>2 DEF CheckActive
  <2>2. Finish(p) \/ \E l \in {"initiate", "stop"} : Goto(p, l, me[p])
    BY <1>2 DEF CheckActive
  <2> QED BY <1>0, <2>1, <2>2, QuietStep, QuietFinish, MyRuns DEF WorkingLabels
<1> QED BY <1>1, <1>2

LEMMA LiveSelect ==
  ASSUME Whole, NEW p \in Procs, Select(p)
  PROVE  KeepsLive
<1>0. me[p] \in Local /\ Fits(pc[p], me[p]) /\ file \in Storage /\ status' = status
  BY MyRuns DEF Select, server
<1>1. pc[p] = "select" /\ lock = p /\ me[p].mem = file /\ Loaded(p) /\ me[p].key \in Keys
  BY <1>0, LiveLoaded DEF Select, At, Critical, Fits, KeyedLabels
<1>2. PICK k \in Keys : k = me[p].key
  BY <1>1
<1>3. PICK found \in IF me[p].flag
                       THEN {<<l[1], IF l[2] = NoSession THEN {} ELSE {<<k, l[2]>>}>> : l \in Lookup(file, k)}
                       ELSE LookupBranch(file, BranchOf(k)) :
        /\ file' \in IF found[1] = file THEN {file} ELSE Saves(found[1])
        /\ Goto(p, "prune", [me[p] EXCEPT !.mem = found[1], !.cand = found[2], !.flag = FALSE])
  BY <1>1, <1>2 DEF Select
<1>4. file' = found[1]
  BY <1>3, Working DEF Whole
<1>5. RunsIn(found[1]) = RunsIn(file) /\ \A c \in found[2] : found[1][c[1]] = c[2]
  <2>1. CASE me[p].flag
    <3>1. PICK l \in Lookup(file, k) : found = <<l[1], IF l[2] = NoSession THEN {} ELSE {<<k, l[2]>>}>>
      BY <1>3, <2>1
    <3>2. l[1][k] = l[2] /\ RunsIn(l[1]) = RunsIn(file)
      BY <1>0, LookupFacts, LookupRuns
    <3>3. found[1] = l[1] /\ \A c \in found[2] : c = <<k, l[2]>>
      BY <3>1
    <3>4. \A c \in found[2] : c[1] = k /\ c[2] = l[2]
      BY <3>3
    <3> QED BY <3>2, <3>3, <3>4
  <2>2. CASE ~me[p].flag
    <3>1. BranchOf(k) \in Branches
      BY DEF Keys, BranchOf
    <3> QED BY <1>0, <1>3, <2>2, <3>1, LookupBranchRuns DEF Whole
  <2> QED BY <2>1, <2>2
<1>6. PICK loc : loc = [me[p] EXCEPT !.mem = found[1], !.cand = found[2], !.flag = FALSE]
  OBVIOUS
<1>7. loc.run = me[p].run /\ loc.mem = found[1] /\ loc.cand = found[2]
  BY <1>0, <1>6 DEF Local
<1>8. Tracks("prune", loc, file', status)
  BY <1>5, <1>7, MyRuns DEF Tracks
<1>9. Shed(file', file, status)
  BY <1>4, <1>5, SameRunsShed
<1> QED BY <1>0, <1>1, <1>3, <1>6, <1>8, <1>9, ShedStep

(* Sessions whose run is dead may go. *)
LEMMA DeleteShed ==
  ASSUME NEW m, NEW f, NEW st, Shed(m, f, st), NEW K,
         \A k \in Keys \cap K : m[k].run # None => Gone(st, m[k].run)
  PROVE  Shed(DeleteSessions(m, K), f, st)
<1>1. PICK n : n = DeleteSessions(m, K)
  OBVIOUS
<1>2. /\ RunsIn(n) \subseteq RunsIn(m)
      /\ \A r \in RunsIn(m) \ RunsIn(n) : \E k \in Keys \cap K : m[k].run = r
  BY <1>1, DeleteRuns
<1>3. ASSUME NEW r \in RunsIn(f), r \notin RunsIn(n) PROVE Gone(st, r)
  <2>1. CASE r \notin RunsIn(m)
    BY <1>3, <2>1 DEF Shed
  <2>2. CASE r \in RunsIn(m)
    <3>1. r # None
      BY <2>2 DEF RunsIn
    <3> QED BY <1>2, <1>3, <2>2, <3>1
  <2> QED BY <2>1, <2>2
<1> QED BY <1>1, <1>2, <1>3 DEF Shed

LEMMA LivePrune ==
  ASSUME Whole, NEW p \in Procs, Prune(p)
  PROVE  KeepsLive
<1>0. me[p] \in Local /\ Fits(pc[p], me[p]) /\ file \in Storage /\ status' = status /\ pc[p] = "prune"
  BY MyRuns DEF Prune, server, At
<1>1. lock = p /\ me[p].mem = file
  BY <1>0, Mine DEF WorkingLabels, Whole
<1>2. PICK dead \in SUBSET me[p].cand :
        /\ \A c \in me[p].cand :
             \E a \in Answers(c[2].run, c[2].tok) : Alive(a) <=> c \notin dead
        /\ file' \in IF dead = {} THEN {file} ELSE Saves(DeleteSessions(me[p].mem, {c[1] : c \in dead}))
        /\ Goto(p, "resolved", [me[p] EXCEPT !.mem = DeleteSessions(me[p].mem, {c[1] : c \in dead}),
                                             !.cand = @ \ dead])
  BY DEF Prune
<1>3. \A c \in me[p].cand : c \in Keys \X Session /\ file[c[1]] = c[2]
  BY <1>0, <1>1, MyRuns DEF Tracks, WorkingLabels, Local
<1>4. PICK gone : gone = {c[1] : c \in dead}
  OBVIOUS
<1>5. PICK kept : kept = DeleteSessions(file, gone)
  OBVIOUS
<1>6. \A k \in Keys : kept[k] = IF k \in gone THEN NoSession ELSE file[k]
  BY <1>5 DEF DeleteSessions
<1>7. file' = kept
  <2>1. CASE dead = {}
    <3>1. gone = {}
      BY <1>4, <2>1
    <3>2. kept = file
      BY <1>0, <1>5, <3>1 DEF DeleteSessions, Storage
    <3> QED BY <1>2, <2>1, <3>2
  <2>2. CASE dead # {}
    BY <1>1, <1>2, <1>4, <1>5, <2>2, Working DEF Whole
  <2> QED BY <2>1, <2>2
<1>8. ASSUME NEW k \in Keys \cap gone, file[k].run # None PROVE Gone(status, file[k].run)
  <2>1. PICK c \in dead : c[1] = k
    BY <1>4, <1>8
  <2>2. c \in me[p].cand /\ c[2] = file[k]
    BY <1>3, <2>1
  <2>3. PICK a \in Answers(file[k].run, file[k].tok) : ~Alive(a)
    BY <1>2, <2>1, <2>2
  <2>4. file[k].run \in Runs /\ file[k].tok \in {None, file[k].run} /\ Started(status, file[k].run)
    BY <1>0, <1>8, MyRuns, RunsAreRuns DEF Scoped
  <2> QED BY <2>3, <2>4, MyRuns, DeadIsGone DEF Whole
<1>9. Shed(file', file, status)
  BY <1>5, <1>7, <1>8, SameShed, DeleteShed
<1>10. PICK loc : loc = [me[p] EXCEPT !.mem = kept, !.cand = @ \ dead]
  OBVIOUS
<1>11. /\ loc.run = me[p].run /\ loc.mem = kept /\ loc.cand = me[p].cand \ dead
       /\ Goto(p, "resolved", loc)
  BY <1>0, <1>1, <1>2, <1>4, <1>5, <1>10 DEF Local
<1>12. ASSUME NEW c \in loc.cand PROVE kept[c[1]] = c[2]
  <2>1. c \in me[p].cand /\ c \notin dead /\ c \in Keys \X Session /\ file[c[1]] = c[2]
    BY <1>3, <1>11, <1>12
  <2>2. c[1] \notin gone
    <3>1. SUFFICES ASSUME NEW d \in dead, d[1] = c[1] PROVE FALSE
      BY <1>4
    <3>2. d \in Keys \X Session /\ d[2] = c[2]
      BY <1>3, <2>1, <3>1
    <3>3. d = c
      BY <2>1, <3>1, <3>2
    <3> QED BY <2>1, <3>3
  <2>3. c[1] \in Keys
    BY <2>1
  <2> QED BY <1>6, <2>1, <2>2, <2>3
<1>13. Tracks("resolved", loc, file', status)
  BY <1>11, <1>12, MyRuns DEF Tracks
<1> QED BY <1>0, <1>1, <1>9, <1>11, <1>13, ShedStep

LEMMA LiveResolved ==
  ASSUME Whole, NEW p \in Procs, Reuse(p) \/ NothingToUse(p) \/ ReplaceChosen(p) \/ CreateMissing(p)
  PROVE  KeepsLive
<1>0. /\ me[p] \in Local /\ file \in Storage /\ status' = status /\ file' = file /\ pc[p] = "resolved"
  BY MyRuns DEF Reuse, NothingToUse, ReplaceChosen, CreateMissing, server, At
<1>1. me[p].mem = file
  BY <1>0, Mine DEF Whole
<1>2. \A c \in me[p].cand : c[1] \in Keys /\ file[c[1]] = c[2]
  BY <1>0, <1>1, MyRuns DEF Tracks, WorkingLabels, Local
<1>3. CASE Reuse(p)
  <2>1. PICK c \in Chosen(p) :
          Goto(p, IF me[p].op = "exec" /\ c[2].used /\ ~c[2].nag THEN "saveNag" ELSE "waitReady",
               [Away(me[p]) EXCEPT !.run = c[2].run, !.tok = c[2].tok])
    BY <1>3 DEF Reuse
  <2>2. PICK loc : loc = [Away(me[p]) EXCEPT !.run = c[2].run, !.tok = c[2].tok]
    OBVIOUS
  <2>3. loc.run = c[2].run
    BY <1>0, <2>2 DEF Away, Local
  <2>4. c[2].run # None => Started(status, c[2].run)
    BY <1>0, <1>2, RunsAreRuns, MyRuns DEF Chosen
  <2>5. PICK l \in {"saveNag", "waitReady"} : Goto(p, l, loc)
    BY <2>1, <2>2
  <2> QED BY <1>0, <2>3, <2>4, <2>5, QuietStep DEF WorkingLabels
<1>4. CASE NothingToUse(p)
  BY <1>0, <1>4, QuietFinish DEF NothingToUse
<1>5. CASE ReplaceChosen(p)
  <2>1. PICK c \in Chosen(p) : Goto(p, "stopping", [me[p] EXCEPT !.cand = {c}])
    BY <1>5 DEF ReplaceChosen
  <2>2. PICK loc : loc = [me[p] EXCEPT !.cand = {c}]
    OBVIOUS
  <2>3. loc.run = me[p].run /\ loc.mem = file /\ loc.cand = {c} /\ file[c[1]] = c[2]
    BY <1>0, <1>1, <1>2, <2>1, <2>2 DEF Local, Chosen
  <2>4. Tracks("stopping", loc, file', status)
    BY <1>0, <2>3, SameShed, MyRuns DEF Tracks
  <2> QED BY <1>0, <2>1, <2>2, <2>4, SameShed, ShedStep
<1>6. CASE CreateMissing(p)
  <2>1. Goto(p, "initiate", Away(me[p])) /\ Away(me[p]).run = me[p].run
    BY <1>0, <1>6, AwayKeeps DEF CreateMissing
  <2> QED BY <1>0, <2>1, QuietStep, MyRuns DEF WorkingLabels
<1> QED BY <1>3, <1>4, <1>5, <1>6

LEMMA LiveInitiate ==
  ASSUME Whole, NEW p \in Procs, Initiate(p) \/ InitiateFails(p)
  PROVE  KeepsLive
<1>0. me[p] \in Local /\ file \in Storage /\ file' = file /\ TypeOK
  BY MyRuns DEF Initiate, InitiateFails
<1>1. CASE Initiate(p)
  <2>1. PICK r \in Runs : /\ status[r] = "none" /\ status' = [status EXCEPT ![r] = "starting"]
                          /\ Goto(p, "persist", [Away(me[p]) EXCEPT !.run = r, !.tok = None])
    BY <1>1 DEF Initiate
  <2>2. PICK loc : loc = [Away(me[p]) EXCEPT !.run = r, !.tok = None]
    OBVIOUS
  <2>3. loc.run = r
    BY <1>0, <2>2 DEF Away, Local
  <2>4. Forward /\ Started(status', r)
    BY <1>0, <2>1 DEF Forward, Started, Gone, TypeOK
  <2>5. \A i \in RunsIn(file') : Started(status', i)
    BY <1>0, <2>4, MyRuns, RunsAreRuns DEF Forward
  <2>6. Tracks("persist", loc, file', status')
    BY <2>3, <2>4, PlainTracks DEF WorkingLabels
  <2>7. LiveInv'
    BY <1>0, <2>1, <2>2, <2>4, <2>5, <2>6, LiveStep
  <2> QED BY <1>0, <2>7 DEF KeepsLive, ForgetsNoLiveRun
<1>2. CASE InitiateFails(p)
  <2>1. Finish(p) /\ status' = status
    BY <1>2 DEF InitiateFails, server
  <2> QED BY <1>0, <2>1, QuietFinish
<1> QED BY <1>1, <1>2

(* A write of the process's run at its key records nothing else, and takes
   another run's place only where it is a late write. *)
LEMMA PutLive ==
  ASSUME Whole, NEW p \in Procs, NEW t, NEW l, NEW loc, Goto(p, l, loc), lock = p, status' = status,
         file' = SetSession(file, me[p].key, NewSession(me[p].run, t)), me[p].key \in Keys,
         l \notin WorkingLabels \cup {"cleanup"}, loc.run # None => Started(status, loc.run),
         LateWrite \/ ~Has(file, me[p].key)
  PROVE  KeepsLive
<1>1. PICK run : run = me[p].run
  OBVIOUS
<1>2. file \in Storage /\ (run # None => Started(status, run)) /\ \A r \in RunsIn(file) : Started(status, r)
  BY <1>1, MyRuns
<1>3. RunsIn(file') \subseteq RunsIn(file) \cup ({run} \ {None})
  BY <1>1, <1>2, SetRuns
<1>4. \A r \in RunsIn(file') : Started(status', r)
  BY <1>2, <1>3
<1>5. Tracks(l, loc, file', status')
  BY PlainTracks
<1>6. LiveInv'
  BY <1>4, <1>5, LiveStep, SameForward
<1>7. ~Has(file, me[p].key) => RunsIn(file) \subseteq RunsIn(file')
  BY <1>1, <1>2, SetRuns
<1> QED BY <1>6, <1>7 DEF KeepsLive, ForgetsNoLiveRun

LEMMA LivePersist ==
  ASSUME Whole, NEW p \in Procs, Persist(p)
  PROVE  KeepsLive
<1>0. /\ me[p] \in Local /\ Fits(pc[p], me[p]) /\ pc[p] = "persist" /\ me[p].mem # NotLoaded
      /\ status' = status
  BY MyRuns DEF Persist, At, Critical, server
<1>1. lock = p /\ me[p].mem = file /\ Loaded(p)
  BY <1>0, LiveLoaded DEF Critical
<1>2. me[p].key \in Keys /\ me[p].op \in {"start", "exec", "execReset", "reset"}
  BY <1>0, Mine DEF Fits, KeyedLabels, OpAt, Whole
<1>3. file' = SetSession(file, me[p].key, NewSession(me[p].run, None))
  BY <1>1, Working DEF Persist, Whole
<1>4. PICK loc : loc = [Away(me[p]) EXCEPT !.flag = Loaded(p)]
  OBVIOUS
<1>5. loc.run = me[p].run /\ Goto(p, "token", loc)
  BY <1>0, <1>4 DEF Away, Local, Persist
<1>6. LateWrite \/ ~Has(file, me[p].key)
  <2>1. pc'[p] = "token"
    BY <1>5 DEF Goto, Whole, TypeInv, TypeOK
  <2>2. me[p].op = "start" => LateWrite
    BY <1>0, <2>1 DEF LateWrite
  <2>3. me[p].op # "start" => ~Has(file, me[p].key)
    BY <1>0, <1>2, Mine DEF CreatingAt, Whole
  <2> QED BY <2>2, <2>3
<1>7. loc.run # None => Started(status, loc.run)
  BY <1>5, MyRuns
<1>8. "token" \notin WorkingLabels \cup {"cleanup"}
  BY DEF WorkingLabels
<1> QED BY <1>0, <1>1, <1>2, <1>3, <1>5, <1>6, <1>7, <1>8, PutLive

LEMMA LiveToken ==
  ASSUME Whole, NEW p \in Procs,
         RequestToken(p) \/ SaveToken(p) \/ RereadToken(p) \/ Reattach(p) \/ SaveAttach(p)
  PROVE  KeepsLive
<1>0. /\ me[p] \in Local /\ Fits(pc[p], me[p]) /\ status' = status
      /\ me[p].run # None => Started(status, me[p].run)
  BY MyRuns DEF RequestToken, SaveToken, RereadToken, Reattach, SaveAttach, server
<1>1. PICK away : away = Away(me[p])
  OBVIOUS
<1>2. away.run = me[p].run
  BY <1>0, <1>1, AwayKeeps
<1>3. CASE RequestToken(p)
  <2>1. PICK t \in Tokens(me[p].run) :
          Goto(p, "saveToken", [Away(me[p]) EXCEPT !.tok = t]) \/ AfterStart(p, me[p])
    BY <1>3 DEF RequestToken
  <2>2. PICK loc : loc = [Away(me[p]) EXCEPT !.tok = t]
    OBVIOUS
  <2>3. loc.run = me[p].run
    BY <1>0, <2>2 DEF Away, Local
  <2>4. Goto(p, "saveToken", loc) \/ Goto(p, "reread", away) \/ Finish(p)
    BY <1>1, <2>1, <2>2 DEF AfterStart
  <2>5. file' = file
    BY <1>3 DEF RequestToken
  <2> QED BY <1>0, <1>2, <2>3, <2>4, <2>5, QuietStep, QuietFinish DEF WorkingLabels
<1>4. CASE SaveToken(p) \/ SaveAttach(p)
  <2>1. pc[p] \in {"saveToken", "saveAttach"} /\ me[p].mem # NotLoaded /\ me[p].key \in Keys
    BY <1>0, <1>4 DEF SaveToken, SaveAttach, At, Critical, Fits, KeyedLabels
  <2>2. lock = p /\ me[p].mem = file /\ Loaded(p)
    BY <2>1, LiveLoaded DEF Critical
  <2>3. file' = SetSession(file, me[p].key, NewSession(me[p].run, me[p].tok))
    BY <1>4, <2>2, Working DEF SaveToken, SaveAttach, Whole
  <2>4. PICK l \in {"reread", "idle"}, loc \in {away, Idle} : Goto(p, l, loc)
    BY <1>1, <1>4 DEF SaveToken, SaveAttach, AfterStart, Finish
  <2>5. loc.run # None => Started(status, loc.run)
    BY <1>0, <1>2 DEF Idle
  <2>6. pc'[p] # pc[p]
    BY <2>1, <2>4 DEF Goto, Whole, TypeInv, TypeOK
  <2>7. LateWrite
    BY <2>1, <2>6 DEF LateWrite
  <2>8. l \notin WorkingLabels \cup {"cleanup"}
    BY DEF WorkingLabels
  <2> QED BY <1>0, <2>1, <2>2, <2>3, <2>4, <2>5, <2>7, <2>8, PutLive
<1>5. CASE RereadToken(p)
  <2>1. file' = file
    BY <1>5 DEF RereadToken
  <2>2. PICK t : Goto(p, "waitReady", [me[p] EXCEPT !.tok = t])
    BY <1>5 DEF RereadToken
  <2>3. PICK loc : loc = [me[p] EXCEPT !.tok = t]
    OBVIOUS
  <2>4. loc.run = me[p].run
    BY <1>0, <2>3 DEF Local
  <2>5. "waitReady" \notin WorkingLabels \cup {"cleanup"}
    BY DEF WorkingLabels
  <2> QED BY <1>0, <2>1, <2>2, <2>3, <2>4, <2>5, QuietStep
<1>6. CASE Reattach(p)
  <2>1. file' = file
    BY <1>6 DEF Reattach
  <2>2. PICK t : Goto(p, "saveAttach", [me[p] EXCEPT !.tok = t]) \/ Finish(p)
    BY <1>6 DEF Reattach
  <2>3. PICK loc : loc = [me[p] EXCEPT !.tok = t]
    OBVIOUS
  <2>4. loc.run = me[p].run
    BY <1>0, <2>3 DEF Local
  <2>5. "saveAttach" \notin WorkingLabels \cup {"cleanup"}
    BY DEF WorkingLabels
  <2>6. Goto(p, "saveAttach", loc) \/ Finish(p)
    BY <2>2, <2>3
  <2> QED BY <1>0, <2>1, <2>4, <2>5, <2>6, QuietStep, QuietFinish
<1> QED BY <1>3, <1>4, <1>5, <1>6

LEMMA LiveSaves ==
  ASSUME Whole, NEW p \in Procs, SaveNag(p) \/ SaveUsed(p)
  PROVE  KeepsLive
<1>0. me[p] \in Local /\ file \in Storage /\ status' = status
  BY MyRuns DEF SaveNag, SaveUsed, server
<1>1. pc[p] \in {"saveNag", "saveUsed"} /\ me[p].mem # NotLoaded
  BY DEF SaveNag, SaveUsed, At, Critical
<1>2. lock = p /\ me[p].mem = file
  BY <1>1, LiveLoaded DEF Critical
<1>3. PICK away : away = Away(me[p])
  OBVIOUS
<1>4. away.run = me[p].run
  BY <1>0, <1>3, AwayKeeps
<1>5. PICK l \in {"waitReady", "release"} : Goto(p, l, away)
  BY <1>3 DEF SaveNag, SaveUsed
<1>6. Tracks(l, away, file', status)
  BY <1>4, PlainTracks, MyRuns DEF WorkingLabels
<1>7. RunsIn(file') = RunsIn(file)
  <2>1. PICK old : old = file[me[p].key]
    OBVIOUS
  <2>2. CASE file' = file
    BY <2>2
  <2>3. CASE file' # file
    <3>1. me[p].key \in Keys
      BY <1>0, <2>3 DEF SaveNag, SaveUsed, Rewrite, Local
    <3>2. PICK k \in Keys : k = me[p].key
      BY <3>1
    <3>3. old \in Session
      BY <1>0, <2>1, <3>1 DEF Storage
    <3>4. PICK s : file' \in Rewrite(p, s) /\ (s = [old EXCEPT !.nag = TRUE] \/ s = [old EXCEPT !.used = TRUE])
      BY <1>2, <2>1 DEF SaveNag, SaveUsed
    <3>5. s.run = old.run
      BY <3>3, <3>4 DEF Session
    <3>6. file' = SetSession(file, k, s)
      BY <1>2, <2>3, <3>2, <3>4, Working DEF Rewrite, Whole
    <3>7. \A i \in Keys : file'[i] = IF i = k THEN s ELSE file[i]
      BY <1>0, <3>6 DEF SetSession, Storage
    <3>8. \A i \in Keys : file'[i].run = file[i].run
      BY <2>1, <3>2, <3>5, <3>7
    <3>9. PICK g : g = file'
      OBVIOUS
    <3>10. RunsIn(g) = RunsIn(file)
      BY <3>8, <3>9 DEF RunsIn
    <3> QED BY <3>9, <3>10
  <2> QED BY <2>2, <2>3
<1>8. Shed(file', file, status)
  BY <1>7, SameRunsShed
<1> QED BY <1>0, <1>2, <1>5, <1>6, <1>8, ShedStep

(* A run that was created and told to stop is on its way out. *)
LEMMA StoppedIsGone ==
  ASSUME CallsWork, TypeOK, NEW r, status' \in Stopped(r)
  PROVE  /\ Forward
         /\ r \in Runs /\ Started(status, r) => Gone(status', r)
<1>1. status' = IF status[r] \in {"starting", "ready"} THEN [status EXCEPT ![r] = "ending"] ELSE status
  BY DEF Stopped, CallsWork
<1>2. Forward
  BY <1>1 DEF Forward, Started, Gone, TypeOK
<1>3. ASSUME r \in Runs, Started(status, r) PROVE Gone(status', r)
  <2>1. status[r] \in {"starting", "ready", "ending", "ended"}
    BY <1>3 DEF Started, TypeOK
  <2> QED BY <1>1, <1>3, <2>1 DEF Gone, TypeOK
<1> QED BY <1>2, <1>3

(* A step that tells a run to stop and leaves the file alone. *)
LEMMA TellingStep ==
  ASSUME Whole, NEW p \in Procs, NEW l, NEW loc, Goto(p, l, loc), file' = file, Forward,
         Tracks(l, loc, file, status')
  PROVE  KeepsLive
<1>1. \A r \in RunsIn(file') : Started(status', r)
  BY MyRuns, RunsAreRuns DEF Forward
<1>2. LiveInv'
  BY <1>1, LiveStep
<1> QED BY <1>2 DEF KeepsLive, ForgetsNoLiveRun

LEMMA LiveUse ==
  ASSUME Whole, NEW p \in Procs,
         \/ WaitReady(p) \/ LockAgent(p) \/ LockAgentFails(p) \/ Operate(p) \/ OperateNoGitDir(p)
         \/ Release(p)
  PROVE  KeepsLive
<1>0. /\ me[p].run # None => Started(status, me[p].run)
      /\ file' = file /\ me[p] \in Local /\ TypeOK
  BY MyRuns DEF WaitReady, LockAgent, LockAgentFails, Operate, OperateNoGitDir, Release
<1>1. CASE \/ WaitReady(p) \/ LockAgent(p) \/ LockAgentFails(p) \/ Operate(p) \/ Release(p)
  <2>1. status' = status
    BY <1>1 DEF WaitReady, LockAgent, LockAgentFails, Operate, Release, server
  <2>2. Finish(p) \/ \E l \in {"agent", "operate", "saveUsed", "release"} : Goto(p, l, me[p])
    BY <1>1 DEF WaitReady, LockAgent, LockAgentFails, Operate, Release
  <2>3. \A l \in {"agent", "operate", "saveUsed", "release"} : l \notin WorkingLabels \cup {"cleanup"}
    BY DEF WorkingLabels
  <2> QED BY <1>0, <2>1, <2>2, <2>3, QuietStep, QuietFinish
<1>2. CASE OperateNoGitDir(p)
  <2>1. status' \in Stopped(me[p].run) /\ Goto(p, "cleanup", me[p])
    BY <1>2 DEF OperateNoGitDir
  <2>2. Forward /\ (me[p].run # None => Gone(status', me[p].run))
    BY <1>0, <2>1, StoppedIsGone DEF Whole, Local
  <2>3. me[p].run # None => Started(status', me[p].run)
    BY <2>2 DEF Gone, Started
  <2>4. Tracks("cleanup", me[p], file, status')
    BY <2>2, <2>3 DEF Tracks, WorkingLabels
  <2> QED BY <1>0, <2>1, <2>2, <2>4, TellingStep
<1> QED BY <1>1, <1>2

LEMMA LiveCleanup ==
  ASSUME Whole, NEW p \in Procs, Cleanup(p)
  PROVE  KeepsLive
<1>0. me[p] \in Local /\ pc[p] = "cleanup" /\ me[p].mem # NotLoaded /\ status' = status
  BY MyRuns DEF Cleanup, At, Critical, server
<1>1. lock = p /\ me[p].mem = file /\ Loaded(p)
  BY <1>0, LiveLoaded DEF Critical
<1>2. file' = file \/ \E k \in KeysOfRun(file, me[p].run) : file' = DeleteSessions(file, {k})
  <2>1. file' \in Saves(file) \/ \E k \in KeysOfRun(file, me[p].run) : file' \in Saves(DeleteSessions(file, {k}))
    BY <1>1 DEF Cleanup
  <2>2. Saves(file) = {file} /\ \A k : Saves(DeleteSessions(file, {k})) = {DeleteSessions(file, {k})}
    BY Working DEF Whole
  <2> QED BY <2>1, <2>2
<1>3. Shed(file', file, status)
  <2>1. ASSUME NEW k \in KeysOfRun(file, me[p].run) PROVE Shed(DeleteSessions(file, {k}), file, status)
    <3>1. file[k].run = me[p].run /\ (me[p].run # None => Gone(status, me[p].run))
      BY <1>0, MyRuns DEF KeysOfRun, Tracks
    <3>2. \A i \in Keys \cap {k} : file[i].run # None => Gone(status, file[i].run)
      BY <3>1
    <3> QED BY <3>2, SameShed, DeleteShed
  <2> QED BY <1>2, <2>1, SameShed
<1>4. PICK away : away = Away(me[p])
  OBVIOUS
<1>5. away.run = me[p].run /\ Goto(p, "release", away)
  BY <1>0, <1>4, AwayKeeps DEF Cleanup
<1>6. Tracks("release", away, file', status)
  BY <1>5, PlainTracks, MyRuns DEF WorkingLabels
<1> QED BY <1>0, <1>1, <1>3, <1>5, <1>6, ShedStep

LEMMA LivePickStops ==
  ASSUME Whole, NEW p \in Procs, PickStops(p)
  PROVE  KeepsLive
<1>0. /\ me[p] \in Local /\ pc[p] = "stop" /\ me[p].mem # NotLoaded /\ status' = status
      /\ me[p].op = "stop" => me[p].key \in Keys
      /\ file \in Storage /\ (me[p].run # None => Started(status, me[p].run))
  BY MyRuns DEF Fits, Keyed, AllCommands, PickStops, At, Critical, server
<1>1. lock = p /\ me[p].mem = file /\ Loaded(p)
  BY <1>0, LiveLoaded DEF Critical
<1>3. PICK branch : branch = BranchOf(me[p].key)
  OBVIOUS
<1>4. PICK byRun : byRun = {<<file, {<<k, file[k]>>}>> : k \in KeysOfRun(file, me[p].run)}
  OBVIOUS
<1>5. PICK all : all = {<<k, file[k]>> : k \in {j \in Keys : Has(file, j)}}
  OBVIOUS
<1>6. PICK near : near = {l \in LookupBranch(file, branch) : l[2] # {}}
  OBVIOUS
<1>7. PICK found : found = CASE me[p].op = "stopAll" -> {<<file, all>>}
                             [] me[p].op = "stop" -> near
                             [] OTHER -> byRun
  OBVIOUS
<1>8. \/ \E f \in found :
           /\ file' \in IF f[1] = file THEN {file} ELSE Saves(f[1])
           /\ Goto(p, "stopping", [me[p] EXCEPT !.mem = f[1], !.cand = f[2]])
      \/ /\ IF me[p].op = "start" THEN Goto(p, "initiate", Away(me[p])) ELSE Finish(p)
         /\ file' = file
  BY <1>1, <1>3, <1>4, <1>5, <1>6, <1>7 DEF PickStops
<1>9. ASSUME NEW f \in found,
             file' \in IF f[1] = file THEN {file} ELSE Saves(f[1]),
             Goto(p, "stopping", [me[p] EXCEPT !.mem = f[1], !.cand = f[2]])
      PROVE  KeepsLive
  <2>1. RunsIn(f[1]) = RunsIn(file) /\ \A c \in f[2] : f[1][c[1]] = c[2]
    <3>1. CASE me[p].op = "stop"
      <4>1. f \in LookupBranch(file, branch)
        BY <1>6, <1>7, <1>9, <3>1
      <4>2. branch \in Branches
        BY <1>0, <1>3, <3>1 DEF Keys, BranchOf
      <4> QED BY <1>0, <4>1, <4>2, LookupBranchRuns DEF Whole
    <3>2. CASE me[p].op = "stopAll"
      <4>1. f[1] = file /\ f[2] = all
        BY <1>7, <1>9, <3>2
      <4>2. \A c \in all : file[c[1]] = c[2]
        BY <1>5
      <4> QED BY <4>1, <4>2
    <3>3. CASE me[p].op \notin {"stop", "stopAll"}
      <4>1. f \in byRun
        BY <1>7, <1>9, <3>3
      <4>2. PICK k \in KeysOfRun(file, me[p].run) : f = <<file, {<<k, file[k]>>}>>
        BY <1>4, <4>1
      <4>3. f[1] = file /\ \A c \in f[2] : file[c[1]] = c[2]
        BY <4>2
      <4> QED BY <4>3
    <3> QED BY <3>1, <3>2, <3>3
  <2>2. file' = f[1]
    BY <1>9, Working DEF Whole
  <2>3. PICK loc : loc = [me[p] EXCEPT !.mem = f[1], !.cand = f[2]]
    OBVIOUS
  <2>4. loc.mem = f[1] /\ loc.cand = f[2] /\ loc.run = me[p].run
    BY <1>0, <2>3 DEF Local
  <2>5. Tracks("stopping", loc, file', status)
    BY <1>0, <2>1, <2>2, <2>4, SameShed DEF Tracks
  <2>6. Shed(file', file, status)
    BY <2>1, <2>2, SameRunsShed
  <2> QED BY <1>0, <1>1, <1>9, <2>3, <2>5, <2>6, ShedStep
<1>10. ASSUME IF me[p].op = "start" THEN Goto(p, "initiate", Away(me[p])) ELSE Finish(p), file' = file
       PROVE  KeepsLive
  <2>1. Away(me[p]).run = me[p].run
    BY <1>0, AwayKeeps
  <2>2. "initiate" \notin WorkingLabels \cup {"cleanup"}
    BY DEF WorkingLabels
  <2> QED BY <1>0, <1>10, <2>1, <2>2, QuietStep, QuietFinish
<1> QED BY <1>8, <1>9, <1>10

LEMMA LivePickReset ==
  ASSUME Whole, NEW p \in Procs, PickReset(p)
  PROVE  KeepsLive
<1>0. /\ me[p] \in Local /\ pc[p] = "reset" /\ me[p].mem # NotLoaded /\ me[p].key \in Keys
      /\ file \in Storage /\ status' = status /\ file' = file
      /\ me[p].run # None => Started(status, me[p].run)
  BY MyRuns DEF Fits, KeyedLabels, PickReset, At, Critical, server
<1>1. lock = p /\ me[p].mem = file /\ Loaded(p)
  BY <1>0, LiveLoaded DEF Critical
<1>3. PICK f \in Lookup(file, me[p].key) :
        IF f[2] = NoSession
          THEN Goto(p, "initiate", Away(me[p]))
          ELSE Goto(p, "stopping", [me[p] EXCEPT !.mem = f[1], !.cand = {<<me[p].key, f[2]>>}])
  BY <1>1 DEF PickReset
<1>4. f[1][me[p].key] = f[2] /\ RunsIn(f[1]) = RunsIn(file)
  BY <1>0, LookupFacts, LookupRuns
<1>5. CASE f[2] = NoSession
  <2>1. Away(me[p]).run = me[p].run /\ Goto(p, "initiate", Away(me[p]))
    BY <1>0, <1>3, <1>5, AwayKeeps
  <2>2. "initiate" \notin WorkingLabels \cup {"cleanup"}
    BY DEF WorkingLabels
  <2> QED BY <1>0, <2>1, <2>2, QuietStep
<1>6. CASE f[2] # NoSession
  <2>1. PICK one : one = {<<me[p].key, f[2]>>}
    OBVIOUS
  <2>2. PICK loc : loc = [me[p] EXCEPT !.mem = f[1], !.cand = one]
    OBVIOUS
  <2>3. loc.mem = f[1] /\ loc.cand = one /\ loc.run = me[p].run
    BY <1>0, <2>2 DEF Local
  <2>4. \A c \in one : f[1][c[1]] = c[2]
    BY <1>4, <2>1
  <2>5. Tracks("stopping", loc, file', status)
    BY <1>0, <1>4, <2>3, <2>4, SameRunsShed DEF Tracks
  <2> QED BY <1>0, <1>3, <1>6, <2>1, <2>2, <2>5, SameShed, ShedStep
<1> QED BY <1>5, <1>6

(* A session whose run is on its way out may be dropped from memory. *)
LEMMA DroppedTracks ==
  ASSUME Whole, NEW p \in Procs, pc[p] \in {"stopping", "stopWait"}, NEW c \in me[p].cand,
         c[2].run # None => Gone(status, c[2].run)
  PROVE  Tracks("stopping", Dropped(p, c), file, status)
<1>0. me[p] \in Local /\ c \in Keys \X Session /\ Tracks(pc[p], me[p], file, status)
  BY MyRuns DEF Local
<1>1. Shed(me[p].mem, file, status) /\ \A i \in me[p].cand : i \in Keys \X Session /\ me[p].mem[i[1]] = i[2]
  BY <1>0 DEF Tracks, WorkingLabels, Local
<1>2. PICK kept : kept = DeleteSessions(me[p].mem, {c[1]})
  OBVIOUS
<1>3. \A k \in Keys \cap {c[1]} : me[p].mem[k].run # None => Gone(status, me[p].mem[k].run)
  BY <1>1
<1>4. Shed(kept, file, status)
  BY <1>1, <1>2, <1>3, DeleteShed
<1>5. \A k \in Keys : kept[k] = IF k = c[1] THEN NoSession ELSE me[p].mem[k]
  BY <1>2 DEF DeleteSessions
<1>6. PICK loc : loc = Dropped(p, c)
  OBVIOUS
<1>7. loc.mem = kept /\ loc.cand = me[p].cand \ {c} /\ loc.run = None
  BY <1>0, <1>2, <1>6 DEF Dropped, Local
<1>8. ASSUME NEW i \in loc.cand PROVE kept[i[1]] = i[2]
  <2>1. i \in me[p].cand /\ i # c
    BY <1>7, <1>8
  <2>2. i \in Keys \X Session /\ me[p].mem[i[1]] = i[2] /\ me[p].mem[c[1]] = c[2]
    BY <1>1, <2>1
  <2>3. i[1] # c[1] /\ i[1] \in Keys
    BY <1>0, <2>1, <2>2
  <2> QED BY <1>5, <2>2, <2>3
<1> QED BY <1>4, <1>6, <1>7, <1>8 DEF Tracks

LEMMA LiveStopOne ==
  ASSUME Whole, NEW p \in Procs, StopOne(p)
  PROVE  KeepsLive
<1>0. /\ me[p] \in Local /\ pc[p] = "stopping" /\ file' = file /\ TypeOK
      /\ me[p].mem \in Storage /\ Scoped(me[p].mem) /\ Tracks("stopping", me[p], file, status)
  BY MyRuns DEF StopOne, At, WorkingLabels
<1>1. PICK c \in me[p].cand : \E a \in Answers(c[2].run, c[2].tok) :
        LET waiting == [me[p] EXCEPT !.at = c[1], !.run = c[2].run, !.tok = c[2].tok]
        IN  IF Alive(a) THEN status' \in Stopped(c[2].run) /\ Goto(p, "stopWait", waiting)
            ELSE /\ UNCHANGED status
                 /\ IF me[p].op = "execReset" THEN Goto(p, "stopWait", waiting)
                                              ELSE Goto(p, "stopping", Dropped(p, c))
  BY DEF StopOne
<1>2. PICK waiting : waiting = [me[p] EXCEPT !.at = c[1], !.run = c[2].run, !.tok = c[2].tok]
  OBVIOUS
<1>3. PICK a \in Answers(c[2].run, c[2].tok) :
        IF Alive(a) THEN status' \in Stopped(c[2].run) /\ Goto(p, "stopWait", waiting)
        ELSE /\ status' = status
             /\ IF me[p].op = "execReset" THEN Goto(p, "stopWait", waiting)
                                          ELSE Goto(p, "stopping", Dropped(p, c))
  BY <1>1, <1>2
<1>4. waiting.run = c[2].run /\ waiting.mem = me[p].mem /\ waiting.cand = me[p].cand
  BY <1>0, <1>2 DEF Local
<1>5. c \in Keys \X Session /\ me[p].mem[c[1]] = c[2] /\ Shed(me[p].mem, file, status)
  BY <1>0 DEF Tracks, WorkingLabels, Local
<1>6. c[2].run # None => c[2].run \in Runs /\ c[2].tok \in {None, c[2].run} /\ Started(status, c[2].run)
  <2>1. c[1] \in Keys
    BY <1>5
  <2>2. c[2].run # None => c[2].run \in RunsIn(me[p].mem)
    BY <1>0, <1>5, <2>1, RunsAreRuns
  <2>3. c[2].run # None => c[2].run \in RunsIn(file)
    BY <1>5, <2>2 DEF Shed
  <2>4. c[2].tok \in {None, c[2].run}
    BY <1>0, <1>5, <2>1 DEF Scoped
  <2> QED BY <2>3, <2>4, MyRuns, RunsAreRuns
(* Once its run is on its way out, the process may wait for it. *)
<1>7. ASSUME Forward, c[2].run # None => Gone(status', c[2].run)
      PROVE  Tracks("stopWait", waiting, file, status')
  <2>1. Shed(me[p].mem, file, status')
    BY <1>5, <1>7, MyRuns, RunsAreRuns DEF Shed, Forward
  <2>2. c[2].run # None => Started(status', c[2].run)
    BY <1>7 DEF Started, Gone
  <2>3. \A i \in waiting.cand : waiting.mem[i[1]] = i[2]
    BY <1>0, <1>4 DEF Tracks, WorkingLabels
  <2> QED BY <1>4, <1>7, <2>1, <2>2, <2>3 DEF Tracks
<1>8. CASE Alive(a)
  <2>1. Forward /\ (c[2].run # None => Gone(status', c[2].run))
    BY <1>0, <1>3, <1>6, <1>8, StoppedIsGone DEF Whole
  <2> QED BY <1>0, <1>3, <1>7, <1>8, <2>1, TellingStep
<1>9. CASE ~Alive(a)
  <2>1. c[2].run # None => Gone(status, c[2].run)
    BY <1>0, <1>6, <1>9, DeadIsGone DEF Whole
  <2>2. status' = status /\ Forward
    BY <1>3, <1>9, SameForward
  <2>3. Tracks("stopping", Dropped(p, c), file, status)
    BY <1>0, <2>1, DroppedTracks
  <2>4. Tracks("stopWait", waiting, file, status')
    BY <1>7, <2>1, <2>2
  <2> QED BY <1>0, <1>3, <1>9, <2>2, <2>3, <2>4, TellingStep
<1> QED BY <1>8, <1>9

LEMMA LiveStopsDone ==
  ASSUME Whole, NEW p \in Procs, StopWaited(p) \/ StopsSaved(p)
  PROVE  KeepsLive
<1>0. /\ me[p] \in Local /\ status' = status /\ pc[p] \in {"stopping", "stopWait"} /\ lock = p
      /\ me[p].run # None => Started(status, me[p].run)
      /\ Tracks(pc[p], me[p], file, status)
  BY MyRuns, Mine DEF StopWaited, StopsSaved, At, WorkingLabels, server, Whole
<1>1. CASE StopWaited(p)
  <2>1. pc[p] = "stopWait" /\ file' = file
    BY <1>1 DEF StopWaited, At
  <2>2. PICK c \in me[p].cand : c[2].run = me[p].run /\ Goto(p, "stopping", Dropped(p, c))
    BY <1>1 DEF StopWaited
  <2>3. c[2].run # None => Gone(status, c[2].run)
    BY <1>0, <2>1, <2>2 DEF Tracks
  <2>4. Tracks("stopping", Dropped(p, c), file, status)
    BY <1>0, <2>2, <2>3, DroppedTracks
  <2> QED BY <1>0, <2>1, <2>2, <2>4, SameShed, ShedStep
<1>2. CASE StopsSaved(p)
  <2>1. file' = me[p].mem
    BY <1>2, Working DEF StopsSaved, Whole
  <2>2. Shed(file', file, status)
    BY <1>0, <2>1 DEF Tracks
  <2>3. PICK away : away = Away(me[p])
    OBVIOUS
  <2>4. away.run = me[p].run
    BY <1>0, <2>3, AwayKeeps
  <2>5. Goto(p, "initiate", away) \/ Finish(p)
    BY <1>2, <2>3 DEF StopsSaved
  <2>6. Tracks("initiate", away, file', status)
    BY <1>0, <2>4, PlainTracks DEF WorkingLabels
  <2> QED BY <1>0, <2>2, <2>5, <2>6, ShedStep, FinishShed
<1> QED BY <1>1, <1>2

LEMMA LiveList ==
  ASSUME Whole, NEW p \in Procs, List(p) \/ ListFails(p)
  PROVE  KeepsLive
<1>0. pc[p] = "list" /\ me[p].mem # NotLoaded /\ Finish(p) /\ status' = status
  BY DEF List, ListFails, At, Critical, server
<1>1. lock = p /\ me[p].mem = file /\ file \in Storage
  BY <1>0, LiveLoaded, MyRuns DEF Critical
<1>2. CASE List(p)
  <2>1. PICK listed \in SUBSET {r \in Runs : status[r] \in {"starting", "ready", "ending"}} :
          \E i \in Adopted(file, listed) :
            \E gone \in SUBSET {k \in Keys : Has(i, k) /\ i[k].run \notin listed} :
              /\ \A k \in Keys : Has(i, k) /\ i[k].run \notin listed =>
                   \E a \in Answers(i[k].run, i[k].tok) : Alive(a) <=> k \notin gone
              /\ file' \in IF gone = {} /\ i = file THEN {file} ELSE Saves(DeleteSessions(i, gone))
    BY <1>1, <1>2 DEF List
  <2>2. PICK m \in Adopted(file, listed) :
            \E gone \in SUBSET {k \in Keys : Has(m, k) /\ m[k].run \notin listed} :
              /\ \A k \in Keys : Has(m, k) /\ m[k].run \notin listed =>
                   \E a \in Answers(m[k].run, m[k].tok) : Alive(a) <=> k \notin gone
              /\ file' \in IF gone = {} /\ m = file THEN {file} ELSE Saves(DeleteSessions(m, gone))
    BY <2>1
  <2>3. PICK gone \in SUBSET {k \in Keys : Has(m, k) /\ m[k].run \notin listed} :
              /\ \A k \in Keys : Has(m, k) /\ m[k].run \notin listed =>
                   \E a \in Answers(m[k].run, m[k].tok) : Alive(a) <=> k \notin gone
              /\ file' \in IF gone = {} /\ m = file THEN {file} ELSE Saves(DeleteSessions(m, gone))
    BY <2>2
  <2>4. PICK f \in [Keys -> listed \cup {None}] :
          m = [k \in Keys |-> IF ~Has(file, k) /\ f[k] # None THEN NewSession(f[k], None) ELSE file[k]]
    BY <2>2 DEF Adopted
  <2>5. \A k \in Keys : m[k] = file[k] \/ (~Has(file, k) /\ m[k].run \in listed)
    BY <2>4 DEF NewSession
  <2>6. \A r \in listed : r \in Runs /\ Started(status, r)
    BY <2>1 DEF Started
  <2>7. \A k \in Keys : m[k].run # None => Started(status, m[k].run)
    BY <1>1, <2>5, <2>6, MyRuns, RunsAreRuns
  <2>8. ASSUME NEW k \in Keys \cap gone, m[k].run # None PROVE Gone(status, m[k].run)
    <3>1. Has(m, k) /\ m[k].run \notin listed
      BY <2>3, <2>8
    <3>2. m[k] = file[k]
      BY <2>5, <3>1
    <3>3. PICK a \in Answers(m[k].run, m[k].tok) : ~Alive(a)
      BY <2>3, <2>8, <3>1
    <3>4. m[k].run \in Runs /\ m[k].tok \in {None, m[k].run} /\ Started(status, m[k].run)
      BY <1>1, <2>7, <2>8, <3>2, RunsAreRuns, MyRuns DEF Scoped
    <3> QED BY <3>3, <3>4, MyRuns, DeadIsGone DEF Whole
  <2>9. file' = file \/ file' = DeleteSessions(m, gone)
    BY <2>3, Working DEF Whole
  <2>10. ASSUME file' = DeleteSessions(m, gone)
         PROVE  /\ \A r \in RunsIn(file') : Started(status', r)
                /\ ForgetsNoLiveRun
    <3>1. /\ RunsIn(file') \subseteq RunsIn(m)
          /\ \A r \in RunsIn(m) \ RunsIn(file') : \E k \in Keys \cap gone : m[k].run = r
      BY <2>10, DeleteRuns
    <3>2. \A r \in RunsIn(m) : Started(status, r)
      BY <2>7 DEF RunsIn
    <3>3. RunsIn(file) \subseteq RunsIn(m)
      BY <2>5 DEF RunsIn, Has
    <3>4. ASSUME NEW r \in RunsIn(file) \ RunsIn(file') PROVE Gone(status, r)
      <4>1. PICK k \in Keys \cap gone : m[k].run = r
        BY <3>1, <3>3, <3>4
      <4>2. r # None
        BY <3>4 DEF RunsIn
      <4> QED BY <2>8, <4>1, <4>2
    <3>5. ForgetsNoLiveRun
      BY <3>4 DEF ForgetsNoLiveRun, Gone
    <3> QED BY <1>0, <3>1, <3>2, <3>5
  <2>11. CASE file' = file
    BY <1>0, <2>11, QuietFinish
  <2>12. CASE file' = DeleteSessions(m, gone)
    <3>1. Tracks("idle", Idle, file', status')
      BY PlainTracks DEF Idle, WorkingLabels
    <3>2. LiveInv'
      BY <1>0, <1>1, <2>10, <2>12, <3>1, SameForward, LiveStep DEF Finish
    <3> QED BY <2>10, <2>12, <3>2 DEF KeepsLive
  <2> QED BY <2>9, <2>11, <2>12
<1>3. CASE ListFails(p)
  BY <1>0, <1>3, QuietFinish DEF ListFails
<1> QED BY <1>2, <1>3

LEMMA LiveCrash ==
  ASSUME Whole, NEW p \in Procs, Crash(p)
  PROVE  KeepsLive
BY QuietFinish DEF Crash, server

LEMMA LiveRun ==
  ASSUME Whole, NEW r \in Runs, RunReady(r) \/ RunEnds(r)
  PROVE  KeepsLive
<1>1. Forward
  BY MyRuns DEF Forward, Started, Gone, RunReady, RunEnds, Whole, TypeInv, TypeOK
<1>2. file' = file /\ pc' = pc /\ me' = me
  BY DEF RunReady, RunEnds
<1>3. \A i \in RunsIn(file) : i \in Runs /\ Started(status', i)
  BY <1>1, RunsAreRuns DEF Forward, Whole, LiveInv, TypeInv, TypeOK
<1>4. ASSUME NEW q \in Procs PROVE Tracks(pc[q], me[q], file, status')
  <2>1. me[q].run \in Runs \cup {None} /\ Tracks(pc[q], me[q], file, status)
    BY MyRuns DEF Local
  <2>2. pc[q] \in {"stopping", "stopWait"} => Shed(me[q].mem, file, status')
    BY <1>1, <1>3, <2>1 DEF Tracks, Shed, Forward
  <2> QED BY <1>1, <2>1, <2>2 DEF Tracks, Forward
<1>5. LiveInv'
  BY <1>2, <1>3, <1>4 DEF LiveInv
<1> QED BY <1>2, <1>5 DEF KeepsLive, ForgetsNoLiveRun

LEMMA NextKeepsLive == Whole /\ [Next]_vars => KeepsLive
<1> SUFFICES ASSUME Whole, [Next]_vars PROVE KeepsLive
  OBVIOUS
<1>1. CASE UNCHANGED vars
  BY <1>1 DEF vars, Whole, LiveInv, KeepsLive, ForgetsNoLiveRun
<1>2. ASSUME NEW p \in Procs, Step(p) PROVE KeepsLive
  BY <1>2, LiveAcquire, LiveCheck, LiveSelect, LivePrune, LiveResolved, LiveInitiate, LivePersist,
     LiveToken, LiveSaves, LiveUse, LiveCleanup, LivePickStops, LivePickReset, LiveStopOne,
     LiveStopsDone, LiveList
  DEF Step
<1> QED BY <1>1, <1>2, LiveBegin, LiveAcquire, LiveUse, LiveCrash, LiveRun DEF Next

LEMMA InitLive == Init => LiveInv
<1> SUFFICES ASSUME Init PROVE LiveInv
  OBVIOUS
<1>1. file = EmptyStorage /\ \A p \in Procs : pc[p] = "idle" /\ me[p] = Idle
  BY DEF Init
<1>2. RunsIn(file) = {}
  BY <1>1 DEF RunsIn, EmptyStorage, NoSession, NewSession
<1>3. Tracks("idle", Idle, file, status)
  BY PlainTracks DEF Idle, WorkingLabels
<1> QED BY <1>1, <1>2, <1>3 DEF LiveInv

(* Where the local files work, calls get through, and no position has two
   ancestors, a run nobody asked to stop stays recorded, whatever any number
   of processes do, crashes and runs that end by themselves included. *)
THEOREM LiveRunsStay == LocalFilesWork /\ CallsWork /\ FewAncestors => (Spec => LiveRunStaysRecorded)
<1> SUFFICES ASSUME LocalFilesWork, CallsWork, FewAncestors PROVE Spec => LiveRunStaysRecorded
  OBVIOUS
<1>1. Init => TypeInv /\ ScopeInv /\ AtomInv /\ LiveInv
  BY InitTypeInv, InitScope, InitAtom, InitLive
<1>2. TypeInv /\ ScopeInv /\ AtomInv /\ LiveInv /\ [Next]_vars
        => (TypeInv /\ ScopeInv /\ AtomInv /\ LiveInv)' /\ [LateWrite \/ ForgetsNoLiveRun]_vars
  BY NextTypeInv, NextScope, NextKeeps, NextKeepsLive DEF Keeps, KeepsLive, Whole
<1> QED BY <1>1, <1>2, PTL DEF Spec, LiveRunStaysRecorded

=============================================================================
