--------------------------- MODULE TunnelsProofs ---------------------------
(***************************************************************************)
(* The safety of tunnels, for any number of processes, sandboxes, ports,   *)
(* commands, kills, lost connections and failing files and ssh calls.      *)
(***************************************************************************)
EXTENDS Tunnels, TLAPS

Labels == {"idle", "directive", "read", "port", "ssh", "save", "ready",
           "close", "exit", "socket", "state", "process", "entries"}
Locals == [cmd : {"", "start", "startPort", "tunnel", "stop", "closeAll"}, t : Tunnels, run : Runs,
           port : Ports \cup {0}, known : Ports \cup {0}, todo : SUBSET Tunnels, failed : BOOLEAN]
Counts == [commands : 0 .. MaxCommands, masters : 0 .. MaxMasters, faults : 0 .. MaxFaults,
           foreign : 0 .. MaxForeign]
Openers == {"startPort", "tunnel"}
Emptied == {"port", "ssh", "socket", "state"}

(* Every ssh process has a number of its own, and a control socket leads to no
   other tunnel's. *)
MastersOK ==
  /\ \A m \in masters : m.id <= count.masters
  /\ \A m, n \in masters : m.id = n.id => m = n
  /\ \A t \in Tunnels : socket[t] <= count.masters /\ \A m \in masters : m.id = socket[t] => m.of = t

(* What a command may be doing at a label: all but CloseAll hold the sandbox. *)
Fits(p, l, loc, a) ==
  l # "idle" =>
    /\ RunOf[loc.t] = loc.run
    /\ IF loc.cmd = "closeAll" THEN l \in {"entries", "close", "exit", "socket", "state"}
                               ELSE l # "entries" /\ a[loc.run] = p
    /\ l = "directive" => loc.cmd \in Openers \cup {"start"}
    /\ l \in {"read", "port", "ssh", "save"} => loc.cmd \in Openers
    /\ l \in {"ssh", "save"} => loc.port # 0
CommandsOK == \A p \in Procs : Fits(p, pc[p], me[p], agent)

(* Beside a CloseAll, what a command opens counts as strayed. *)
Apart == \A p, q \in Procs : Opens(p) /\ Mine(p) \notin strayed => ~ClosesAll(q, me[p].run)

(* What a command has made of its tunnel when it gets to a label. *)
Leaves(t, l, loc) ==
  /\ l \in Emptied => Of(t) = {}
  /\ l = "process" /\ ~loc.failed => Of(t) = {} /\ saved[t] = 0
  /\ l = "save" => \A m \in Of(t) : m.port = loc.port

TunnelOK(t) ==
  t \notin strayed =>
    /\ \A m \in Of(t) : socket[t] = m.id
    /\ ~Opening(t) => \A m \in Of(t) : saved[t] = m.port
    /\ \A p \in Procs : Mine(p) = t => Leaves(t, pc[p], me[p])

IInv == TypeOK /\ MastersOK /\ CommandsOK /\ Apart /\ \A t \in Tunnels : TunnelOK(t)

-----------------------------------------------------------------------------
LEMMA IdleTyped == Idle \in Locals /\ Idle.port = 0 /\ Idle.cmd = ""
<1>. DEFINE t0 == CHOOSE t \in Tunnels : TRUE
<1>1. t0 \in Tunnels /\ RunOf[t0] \in Runs
  BY TunnelsAssumption DEF Runs
<1>. HIDE DEF t0
<1>2. [cmd |-> "", t |-> t0, run |-> RunOf[t0], port |-> 0, known |-> 0, todo |-> {}, failed |-> FALSE] \in Locals
  BY <1>1 DEF Locals
<1>. QED
  BY <1>2 DEF Idle, t0

LEMMA Bounds ==
  MaxCommands \in Nat /\ MaxMasters \in Nat /\ MaxFaults \in Nat /\ MaxForeign \in Nat
  BY BoundsAssumption

LEMMA Typed ==
  ASSUME TypeOK
  PROVE  /\ pc \in [Procs -> Labels] /\ me \in [Procs -> Locals] /\ count \in Counts
         /\ \A p \in Procs : Mine(p) \in Tunnels /\ me[p] \in Locals /\ me[p].run \in Runs
         /\ \A t \in Tunnels : RunOf[t] \in Runs
         /\ agent \in [Runs -> Procs \cup {None}] /\ strayed \subseteq Tunnels /\ ended \subseteq Runs
  BY DEF TypeOK, Labels, Locals, Counts, Mine, Runs

LEMMA Sockets ==
  ASSUME TypeOK
  PROVE  /\ masters \subseteq Master /\ \A m \in masters : m.id \in Nat /\ m.id # 0 /\ m.of \in Tunnels /\ m.port \in Ports
         /\ socket \in [Tunnels -> 0 .. MaxMasters] /\ saved \in [Tunnels -> Ports \cup {0}]
         /\ dirs \subseteq Tunnels /\ running \subseteq Tunnels
         /\ 0 \in 0 .. MaxMasters
<1>1. masters \subseteq Master /\ socket \in [Tunnels -> 0 .. MaxMasters] /\ saved \in [Tunnels -> Ports \cup {0}]
      /\ dirs \subseteq Tunnels /\ running \subseteq Tunnels
  BY DEF TypeOK
<1>2. ASSUME NEW m \in Master PROVE m.id \in Nat /\ m.id # 0 /\ m.of \in Tunnels /\ m.port \in Ports
  <2>1. m.id \in 1 .. MaxMasters /\ m.of \in Tunnels /\ m.port \in Ports
    BY DEF Master
  <2>. QED
    BY <2>1, Bounds
<1>3. 0 \in 0 .. MaxMasters
  BY Bounds
<1>. QED
  BY <1>1, <1>2, <1>3

LEMMA InitIInv == Init => IInv
<1>. SUFFICES ASSUME Init PROVE IInv
  OBVIOUS
<1>1. TypeOK
  <2>0. me \in [Procs -> Locals]
    BY IdleTyped DEF Init
  <2>1. count \in Counts
    <3>1. 0 \in 0 .. MaxCommands /\ 0 \in 0 .. MaxMasters /\ 0 \in 0 .. MaxFaults /\ 0 \in 0 .. MaxForeign
      BY Bounds
    <3>. QED
      BY <3>1 DEF Init, Counts
  <2>2. socket \in [Tunnels -> 0 .. MaxMasters] /\ saved \in [Tunnels -> Ports \cup {0}]
    BY Bounds DEF Init
  <2>3. agent \in [Runs -> Procs \cup {None}]
    BY DEF Init
  <2>. QED
    BY <2>0, <2>1, <2>2, <2>3 DEF Init, TypeOK, Locals, Counts
<1>2. MastersOK /\ CommandsOK /\ Apart
  BY DEF Init, MastersOK, CommandsOK, Fits, Apart, Opens
<1>3. ASSUME NEW t \in Tunnels PROVE TunnelOK(t)
  BY DEF Init, TunnelOK, Of, Leaves, Emptied
<1>. QED
  BY <1>1, <1>2, <1>3 DEF IInv

LEMMA Goes ==
  ASSUME TypeOK, NEW p \in Procs, NEW l \in Labels, NEW loc \in Locals, Goto(p, l, loc)
  PROVE  /\ pc' \in [Procs -> Labels] /\ me' \in [Procs -> Locals]
         /\ pc'[p] = l /\ me'[p] = loc
         /\ \A q \in Procs \ {p} : pc'[q] = pc[q] /\ me'[q] = me[q]
  BY Typed DEF Goto

LEMMA TypeStep ==
  ASSUME TypeOK, NEW p \in Procs, NEW l \in Labels, NEW loc \in Locals, Goto(p, l, loc),
         UNCHANGED <<ended, foreign>>, agent' \in [Runs -> Procs \cup {None}], running' \subseteq Tunnels,
         masters' \subseteq Master, socket' \in [Tunnels -> 0 .. MaxMasters], dirs' \subseteq Tunnels,
         saved' \in [Tunnels -> Ports \cup {0}], strayed' \subseteq Tunnels, count' \in Counts
  PROVE  TypeOK'
<1>1. pc' \in [Procs -> Labels] /\ me' \in [Procs -> Locals]
  BY Goes
<1>. QED
  BY <1>1 DEF TypeOK, Labels, Locals, Counts

LEMMA Release == ASSUME TypeOK, NEW p \in Procs PROVE Released(p) \in [Runs -> Procs \cup {None}]
  BY DEF TypeOK, Released

(* Two commands are not at one tunnel while one of them opens it. *)
LEMMA Alone ==
  ASSUME IInv, NEW p \in Procs, NEW q \in Procs, p # q, Mine(p) = Mine(q), Mine(p) \notin strayed,
         pc[p] # "idle", pc[q] # "idle"
  PROVE  ~Opens(p) /\ pc[p] # "save"
<1>1. Fits(p, pc[p], me[p], agent) /\ Fits(q, pc[q], me[q], agent)
  BY DEF IInv, CommandsOK
<1>2. me[p].run = me[q].run
  BY <1>1 DEF Fits, Mine
<1>3. ASSUME Opens(p) PROVE FALSE
  <2>1. me[q].cmd # "closeAll"
    BY <1>2, <1>3 DEF IInv, Apart, ClosesAll
  <2>2. me[p].cmd # "closeAll"
    BY <1>3 DEF Opens
  <2>. QED
    BY <1>1, <1>2, <2>1, <2>2 DEF Fits
<1>4. pc[p] = "save" => Opens(p)
  BY <1>1 DEF Fits, Opens, Openers
<1>. QED
  BY <1>3, <1>4

LEMMA NotOpening ==
  ASSUME IInv, NEW p \in Procs, pc[p] \notin {"idle", "save"}, Mine(p) \notin strayed
  PROVE  ~Opening(Mine(p))
<1>1. ASSUME NEW q \in Procs, Mine(q) = Mine(p), pc[q] = "save" PROVE FALSE
  BY <1>1, Alone
<1>. QED
  BY <1>1 DEF Opening

(* What holds of a command and its tunnel, at hand for the steps below. *)
LEMMA Here ==
  ASSUME IInv, NEW p \in Procs, pc[p] # "idle"
  PROVE  /\ Mine(p) \in Tunnels /\ me[p] \in Locals /\ Fits(p, pc[p], me[p], agent)
         /\ Mine(p) \notin strayed =>
              /\ \A m \in Of(Mine(p)) : socket[Mine(p)] = m.id
              /\ pc[p] # "save" => \A m \in Of(Mine(p)) : saved[Mine(p)] = m.port
              /\ Leaves(Mine(p), pc[p], me[p])
<1>1. Mine(p) \in Tunnels /\ me[p] \in Locals /\ Fits(p, pc[p], me[p], agent)
  BY Typed DEF IInv, CommandsOK
<1>2. TunnelOK(Mine(p))
  BY <1>1 DEF IInv
<1>3. pc[p] # "save" /\ Mine(p) \notin strayed => ~Opening(Mine(p))
  BY NotOpening
<1>. QED
  BY <1>1, <1>2, <1>3 DEF TunnelOK

-----------------------------------------------------------------------------
(* A step of one command: what it changes is its own tunnel, which it leaves as the
   label it goes to needs it; it goes to another tunnel only in CloseAll. *)
LEMMA ProcStep ==
  ASSUME IInv, NEW p \in Procs, NEW l \in Labels, NEW loc \in Locals, Goto(p, l, loc), pc[p] # "idle",
         TypeOK', MastersOK', strayed \subseteq strayed',
         agent' = IF l = "idle" THEN Released(p) ELSE agent,
         NEW t \in Tunnels, t = Mine(p),
         l # "idle" => /\ loc.cmd = me[p].cmd /\ loc.run = me[p].run
                       /\ loc.t # t => loc.cmd = "closeAll" /\ l = "close",
         Fits(p, l, loc, agent),
         \A u \in Tunnels \ {t} : UNCHANGED <<Of(u), socket[u], saved[u]>>,
         t \notin strayed' =>
           /\ \A m \in Of(t)' : socket'[t] = m.id
           /\ l # "save" => \A m \in Of(t)' : saved'[t] = m.port
           /\ l # "idle" /\ loc.t = t => Leaves(t, l, loc)'
           /\ Opens(p) \/ (Of(t)' \subseteq Of(t) /\ saved'[t] \in {saved[t], 0})
  PROVE  IInv'
<1>1. /\ pc'[p] = l /\ me'[p] = loc
      /\ \A q \in Procs \ {p} : pc'[q] = pc[q] /\ me'[q] = me[q] /\ Mine(q)' = Mine(q)
      /\ Mine(p)' = loc.t
  BY Goes DEF IInv, Mine
<1>2. CommandsOK'
  <2>1. ASSUME NEW q \in Procs PROVE Fits(q, pc'[q], me'[q], agent')
    <3>1. CASE q = p
      BY <1>1, <3>1 DEF Fits
    <3>2. CASE q # p
      <4>1. Fits(q, pc[q], me[q], agent) /\ me[q].run \in Runs
        BY Typed DEF IInv, CommandsOK
      <4>2. agent[me[q].run] = q => agent'[me[q].run] = q
        BY <3>2, <4>1 DEF Released
      <4>. QED
        BY <1>1, <3>2, <4>1, <4>2 DEF Fits
    <3>. QED
      BY <3>1, <3>2
  <2>. QED
    BY <2>1 DEF CommandsOK, Fits, Openers
<1>3. Apart'
  <2>1. ASSUME NEW q \in Procs, Opens(q)' PROVE Opens(q) /\ Mine(q)' = Mine(q) /\ me'[q].run = me[q].run
    <3>1. CASE q = p
      BY <1>1, <2>1, <3>1 DEF Opens
    <3>2. CASE q # p
      BY <1>1, <2>1, <3>2 DEF Opens
    <3>. QED
      BY <3>1, <3>2
  <2>2. ASSUME NEW q \in Procs, NEW r, ClosesAll(q, r)' PROVE ClosesAll(q, r)
    BY <1>1, <2>2 DEF ClosesAll
  <2>. QED
    BY <2>1, <2>2 DEF IInv, Apart
<1>4. TunnelOK(t)'
  <2>1. SUFFICES ASSUME t \notin strayed'
        PROVE  (/\ \A m \in Of(t) : socket[t] = m.id
                /\ ~Opening(t) => \A m \in Of(t) : saved[t] = m.port
                /\ \A q \in Procs : Mine(q) = t => Leaves(t, pc[q], me[q]))'
    BY DEF TunnelOK
  <2>2. l = "save" => Opening(t)'
    <3>1. l = "save" => loc.t = t
      OBVIOUS
    <3>. QED
      BY <1>1, <3>1 DEF Opening
  <2>3. ASSUME NEW q \in Procs, Mine(q)' = t PROVE Leaves(t, pc[q], me[q])'
    <3>1. CASE q = p
      <4>1. CASE l = "idle"
        BY <1>1, <3>1, <4>1 DEF Leaves, Emptied
      <4>2. CASE l # "idle"
        BY <1>1, <2>1, <2>3, <3>1, <4>2 DEF Leaves
      <4>. QED
        BY <4>1, <4>2
    <3>2. CASE q # p
      <4>1. Mine(q) = t /\ Leaves(t, pc[q], me[q])
        BY <1>1, <2>1, <2>3, <3>2 DEF IInv, TunnelOK
      <4>2. CASE pc[q] = "idle"
        BY <1>1, <3>2, <4>2 DEF Leaves, Emptied
      <4>3. CASE pc[q] # "idle"
        <5>1. ~Opens(p) /\ pc[q] # "save"
          BY <2>1, <3>2, <4>1, <4>3, Alone
        <5>2. Of(t)' \subseteq Of(t) /\ saved'[t] \in {saved[t], 0}
          BY <2>1, <5>1
        <5>. QED
          BY <1>1, <3>2, <4>1, <5>1, <5>2 DEF Leaves, Emptied
      <4>. QED
        BY <4>2, <4>3
    <3>. QED
      BY <3>1, <3>2
  <2>. QED
    BY <2>1, <2>2, <2>3
<1>5. ASSUME NEW u \in Tunnels \ {t} PROVE TunnelOK(u)'
  <2>1. SUFFICES ASSUME u \notin strayed'
        PROVE  (/\ \A m \in Of(u) : socket[u] = m.id
                /\ ~Opening(u) => \A m \in Of(u) : saved[u] = m.port
                /\ \A q \in Procs : Mine(q) = u => Leaves(u, pc[q], me[q]))'
    BY DEF TunnelOK
  <2>2. /\ \A m \in Of(u) : socket[u] = m.id
        /\ ~Opening(u) => \A m \in Of(u) : saved[u] = m.port
        /\ \A q \in Procs : Mine(q) = u => Leaves(u, pc[q], me[q])
    BY <2>1 DEF IInv, TunnelOK
  <2>3. Opening(u) => Opening(u)'
    BY <1>1 DEF Opening
  <2>4. ASSUME NEW q \in Procs, Mine(q)' = u PROVE Leaves(u, pc[q], me[q])'
    <3>1. CASE q = p
      <4>1. l \in {"idle", "close"}
        BY <1>1, <2>4, <3>1
      <4>. QED
        BY <1>1, <3>1, <4>1 DEF Leaves, Emptied
    <3>2. CASE q # p
      BY <1>1, <2>2, <2>4, <3>2 DEF Leaves, Emptied
    <3>. QED
      BY <3>1, <3>2
  <2>. QED
    BY <2>2, <2>3, <2>4
<1>. QED
  BY <1>2, <1>3, <1>4, <1>5 DEF IInv

LEMMA MastersLeave ==
  ASSUME IInv, masters' \subseteq masters, count'.masters = count.masters,
         \A u \in Tunnels : socket'[u] \in {0, socket[u]}
  PROVE  MastersOK'
<1>1. \A m \in masters : m.id \in Nat /\ m.id # 0
  BY Sockets DEF IInv
<1>2. count.masters \in Nat
  BY Bounds, Typed DEF IInv, Counts
<1>. QED
  BY <1>1, <1>2 DEF IInv, MastersOK

(* A step that touches nothing of any tunnel. *)
LEMMA QuietStep ==
  ASSUME IInv, NEW p \in Procs, NEW l \in Labels, NEW loc \in Locals, Goto(p, l, loc),
         pc[p] \notin {"idle", "save"}, l # "save",
         UNCHANGED <<ended, foreign, count, masters, socket, dirs, saved, strayed>>, running' \subseteq Tunnels,
         agent' = IF l = "idle" THEN Released(p) ELSE agent,
         l # "idle" => /\ loc.cmd = me[p].cmd /\ loc.run = me[p].run
                       /\ loc.t # Mine(p) => loc.cmd = "closeAll" /\ l = "close",
         Fits(p, l, loc, agent),
         Mine(p) \notin strayed /\ l # "idle" /\ loc.t = Mine(p) => Leaves(Mine(p), l, loc)
  PROVE  IInv'
<1>1. TypeOK'
  <2>1. agent' \in [Runs -> Procs \cup {None}]
    BY Release, Typed DEF IInv
  <2>. QED
    BY <2>1, Sockets, Typed, TypeStep DEF IInv
<1>2. MastersOK'
  BY DEF IInv, MastersOK
<1>3. PICK t \in Tunnels : t = Mine(p)
  BY Here
<1>4. \A u \in Tunnels : Of(u)' = Of(u)
  BY DEF Of
<1>5. t \notin strayed => /\ \A m \in Of(t) : socket[t] = m.id
                         /\ \A m \in Of(t) : saved[t] = m.port
  BY <1>3, Here
<1>6. t \notin strayed' /\ l # "idle" /\ loc.t = t => Leaves(t, l, loc)'
  <2>1. SUFFICES ASSUME t \notin strayed', l # "idle", loc.t = t PROVE Leaves(t, l, loc)'
    OBVIOUS
  <2>2. Leaves(t, l, loc)
    BY <1>3, <2>1
  <2>. QED
    BY <1>4, <2>2 DEF Leaves, Emptied
<1>. QED
  BY <1>1, <1>2, <1>3, <1>4, <1>5, <1>6, ProcStep

LEMMA FinishStep ==
  ASSUME IInv, NEW p \in Procs, pc[p] \notin {"idle", "save"}, Finish(p), UNCHANGED tunnel
  PROVE  IInv'
<1>1. Idle \in Locals /\ "idle" \in Labels
  BY IdleTyped DEF Labels
<1>2. running' \subseteq Tunnels /\ Fits(p, "idle", Idle, agent)
  BY Sockets DEF IInv, Finish, Fits
<1>. QED
  BY <1>1, <1>2, QuietStep DEF Finish, tunnel

LEMMA DirectiveStep ==
  ASSUME IInv, NEW p \in Procs, Directive(p) PROVE IInv'
<1>1. pc[p] = "directive" /\ UNCHANGED tunnel
  BY DEF Directive
<1>2. me[p] \in Locals /\ Mine(p) \in Tunnels /\ Fits(p, pc[p], me[p], agent)
  BY <1>1, Here
<1>3. CASE Finish(p)
  BY <1>1, <1>3, FinishStep
<1>4. CASE ~Finish(p)
  <2>. DEFINE l == IF me[p].cmd = "start" THEN "close" ELSE "read"
  <2>1. Goto(p, l, me[p]) /\ running' = running \cup {Mine(p)} /\ UNCHANGED <<ended, agent, foreign, count>>
    BY <1>1, <1>4 DEF Directive
  <2>2. l \in Labels /\ l \notin {"idle", "save"} /\ Fits(p, l, me[p], agent) /\ Leaves(Mine(p), l, me[p])
    BY <1>1, <1>2 DEF Fits, Labels, Openers, Leaves, Emptied
  <2>3. running' \subseteq Tunnels
    BY <1>2, <2>1, Sockets DEF IInv
  <2>. HIDE DEF l
  <2>. QED
    BY <1>1, <1>2, <2>1, <2>2, <2>3, QuietStep DEF tunnel, Mine
<1>. QED
  BY <1>3, <1>4

(* Ending the ssh at the control socket. *)
LEMMA Exits ==
  ASSUME IInv, NEW t \in Tunnels, ExitMaster(t)
  PROVE  /\ masters' \subseteq masters /\ masters' \subseteq Master /\ socket' \in [Tunnels -> 0 .. MaxMasters]
         /\ \A u \in Tunnels : socket'[u] \in {0, socket[u]}
         /\ \A u \in Tunnels \ {t} : UNCHANGED <<Of(u), socket[u]>>
         /\ \A m \in Of(t)' : m \in Of(t) /\ m.id # socket[t]
<1>1. /\ masters' = {m \in masters : m.id # socket[t]} /\ socket' = [socket EXCEPT ![t] = 0]
  BY DEF ExitMaster
<1>2. \A u \in Tunnels : Of(u)' = {m \in Of(u) : m.id # socket[t]}
  BY <1>1 DEF Of
<1>3. \A u \in Tunnels \ {t} : Of(u)' = Of(u)
  BY <1>2 DEF IInv, MastersOK, Of
<1>. QED
  BY <1>1, <1>2, <1>3, Sockets DEF IInv

(* A step of one command that starts no ssh. *)
LEMMA OwnStep ==
  ASSUME IInv, NEW p \in Procs, NEW l \in Labels, NEW loc \in Locals, Goto(p, l, loc), pc[p] # "idle",
         UNCHANGED <<ended, running, foreign>>, count' \in Counts, count'.masters = count.masters,
         agent' = IF l = "idle" THEN Released(p) ELSE agent,
         masters' \subseteq masters, socket' \in [Tunnels -> 0 .. MaxMasters],
         \A u \in Tunnels : socket'[u] \in {0, socket[u]},
         dirs' \subseteq Tunnels, saved' \in [Tunnels -> Ports \cup {0}],
         strayed \subseteq strayed', strayed' \subseteq Tunnels,
         NEW t \in Tunnels, t = Mine(p),
         l # "idle" => loc.cmd = me[p].cmd /\ loc.run = me[p].run /\ loc.t = t,
         Fits(p, l, loc, agent),
         \A u \in Tunnels \ {t} : UNCHANGED <<Of(u), socket[u], saved[u]>>,
         t \notin strayed' =>
           /\ \A m \in Of(t)' : socket'[t] = m.id
           /\ l # "save" => \A m \in Of(t)' : saved'[t] = m.port
           /\ l # "idle" => Leaves(t, l, loc)'
           /\ Opens(p) \/ saved'[t] \in {saved[t], 0}
  PROVE  IInv'
<1>1. TypeOK'
  <2>1. agent' \in [Runs -> Procs \cup {None}]
    BY Release, Typed DEF IInv
  <2>2. masters' \subseteq Master /\ running' \subseteq Tunnels
    BY Sockets DEF IInv
  <2>. QED
    BY <2>1, <2>2, TypeStep DEF IInv
<1>2. MastersOK'
  BY MastersLeave
<1>3. Of(t)' \subseteq Of(t)
  BY DEF Of
<1>. QED
  BY <1>1, <1>2, <1>3, ProcStep

LEMMA ReadStateStep ==
  ASSUME IInv, NEW p \in Procs, ReadState(p) PROVE IInv'
<1>1. /\ pc[p] = "read" /\ dirs' = dirs \cup {Mine(p)} /\ UNCHANGED saved
  BY DEF ReadState
<1>2. PICK t \in Tunnels : t = Mine(p)
  BY <1>1, Here
<1>3. /\ me[p] \in Locals /\ Fits(p, "read", me[p], agent) /\ Opens(p) /\ me[p].t = t
      /\ t \notin strayed => \A m \in Of(t) : socket[t] = m.id /\ saved[t] = m.port
  BY <1>1, <1>2, Here DEF Fits, Opens, Openers, Mine
<1>4. /\ dirs' \subseteq Tunnels /\ saved' \in [Tunnels -> Ports \cup {0}] /\ saved[t] \in Ports \cup {0}
      /\ "port" \in Labels /\ "idle" \in Labels /\ count \in Counts /\ Idle \in Locals /\ strayed \subseteq Tunnels
  BY <1>1, <1>2, Sockets, Typed, IdleTyped DEF IInv, Labels
<1>5. ASSUME NEW known \in Ports \cup {0}
      PROVE  LET loc == [me[p] EXCEPT !.known = known]
             IN  /\ loc \in Locals /\ Fits(p, "port", loc, agent)
                 /\ loc.cmd = me[p].cmd /\ loc.run = me[p].run /\ loc.t = t
  BY <1>3 DEF Locals, Fits, Openers
<1>6. CASE /\ IF saved[t] = 0 THEN UNCHANGED <<masters, socket>> ELSE ExitMaster(t)
           /\ Proceed(p, "port", [me[p] EXCEPT !.known = saved[t]])
           /\ UNCHANGED strayed
  <2>1. t \notin strayed => Of(t)' = {}
    <3>1. CASE saved[t] = 0
      <4>1. t \notin strayed => Of(t) = {}
        BY <1>3, <3>1, Sockets, TunnelsAssumption DEF IInv, Of
      <4>. QED
        BY <1>6, <3>1, <4>1 DEF Of
    <3>2. CASE saved[t] # 0
      BY <1>3, <1>6, <3>2, Exits
    <3>. QED
      BY <3>1, <3>2
  <2>2. /\ masters' \subseteq masters /\ socket' \in [Tunnels -> 0 .. MaxMasters]
        /\ \A u \in Tunnels : socket'[u] \in {0, socket[u]}
        /\ \A u \in Tunnels \ {t} : UNCHANGED <<Of(u), socket[u]>>
    <3>1. CASE saved[t] = 0
      BY <1>6, <3>1, Sockets DEF IInv, Of
    <3>2. CASE saved[t] # 0
      BY <1>6, <3>2, Exits
    <3>. QED
      BY <3>1, <3>2
  <2>. PICK loc : loc = [me[p] EXCEPT !.known = saved[t]]
    OBVIOUS
  <2>3. Goto(p, "port", loc) /\ UNCHANGED <<ended, agent, running, foreign, count>>
    BY <1>6 DEF Proceed, world
  <2>4. loc \in Locals /\ Fits(p, "port", loc, agent) /\ loc.cmd = me[p].cmd /\ loc.run = me[p].run /\ loc.t = t
    BY <1>4, <1>5
  <2>5. t \notin strayed' => Leaves(t, "port", loc)'
    BY <1>6, <2>1 DEF Leaves, Emptied
  <2>6. \A u \in Tunnels \ {t} : UNCHANGED <<Of(u), socket[u], saved[u]>>
    BY <1>1, <2>2
  <2>7. count' \in Counts /\ count'.masters = count.masters /\ agent' = agent
        /\ strayed \subseteq strayed' /\ strayed' \subseteq Tunnels
    BY <1>4, <1>6, <2>3
  <2>8. t \notin strayed' =>
          /\ \A m \in Of(t)' : socket'[t] = m.id
          /\ "port" # "save" => \A m \in Of(t)' : saved'[t] = m.port
          /\ "port" # "idle" => Leaves(t, "port", loc)'
          /\ Opens(p) \/ saved'[t] \in {saved[t], 0}
    BY <1>3, <1>6, <2>1, <2>5
  <2>9. /\ pc[p] # "idle" /\ dirs' \subseteq Tunnels /\ saved' \in [Tunnels -> Ports \cup {0}] /\ "port" \in Labels
        /\ masters' \subseteq masters /\ socket' \in [Tunnels -> 0 .. MaxMasters]
        /\ \A u \in Tunnels : socket'[u] \in {0, socket[u]}
    BY <1>1, <1>4, <2>2
  <2>. QED
    BY <1>2, <2>3, <2>4, <2>6, <2>7, <2>8, <2>9, OwnStep
<1>7. CASE saved[t] # 0 /\ ExitFails(t) /\ Finish(p) /\ UNCHANGED strayed
  <2>1. UNCHANGED <<masters, socket>> /\ \A u \in Tunnels : Of(u)' = Of(u)
    BY <1>7 DEF ExitFails, Of
  <2>2. Goto(p, "idle", Idle) /\ agent' = Released(p) /\ UNCHANGED <<ended, running, foreign, count>>
    BY <1>7 DEF Finish
  <2>3. Fits(p, "idle", Idle, agent)
    BY DEF Fits
  <2>4. /\ masters' \subseteq masters /\ socket' \in [Tunnels -> 0 .. MaxMasters] /\ count' \in Counts
        /\ \A u \in Tunnels : socket'[u] \in {0, socket[u]} /\ UNCHANGED <<Of(u), socket[u], saved[u]>>
    BY <1>1, <1>4, <2>1, <2>2, Sockets DEF IInv
  <2>5. t \notin strayed' => \A m \in Of(t)' : socket'[t] = m.id /\ saved'[t] = m.port
    BY <1>1, <1>3, <1>7, <2>1
  <2>. QED
    BY <1>1, <1>2, <1>3, <1>4, <1>7, <2>2, <2>3, <2>4, <2>5, OwnStep
<1>8. CASE /\ strayed' = strayed \cup {t} /\ Proceed(p, "port", me[p]) /\ UNCHANGED <<masters, socket>>
  <2>1. \A u \in Tunnels : Of(u)' = Of(u)
    BY <1>8 DEF Of
  <2>2. Goto(p, "port", me[p]) /\ UNCHANGED <<ended, agent, running, foreign, count>>
    BY <1>8 DEF Proceed, world
  <2>3. Fits(p, "port", me[p], agent)
    BY <1>3 DEF Fits, Openers
  <2>4. strayed' \subseteq Tunnels /\ t \in strayed' /\ strayed \subseteq strayed'
    BY <1>4, <1>8
  <2>. QED
    BY <1>1, <1>2, <1>3, <1>4, <1>8, <2>1, <2>2, <2>3, <2>4, Sockets, OwnStep DEF IInv
<1>. QED
  BY <1>2, <1>6, <1>7, <1>8 DEF ReadState

LEMMA ChoosePortStep ==
  ASSUME IInv, NEW p \in Procs, ChoosePort(p) PROVE IInv'
<1>1. /\ pc[p] = "port" /\ socket' = [socket EXCEPT ![Mine(p)] = 0]
      /\ UNCHANGED <<masters, dirs, saved, strayed>>
  BY DEF ChoosePort
<1>2. PICK t \in Tunnels : t = Mine(p)
  BY <1>1, Here
<1>3. /\ me[p] \in Locals /\ Fits(p, "port", me[p], agent) /\ me[p].t = t
      /\ t \notin strayed => Of(t) = {}
  BY <1>1, <1>2, Here DEF Leaves, Emptied, Mine
<1>4. /\ socket' \in [Tunnels -> 0 .. MaxMasters] /\ \A u \in Tunnels : socket'[u] \in {0, socket[u]}
      /\ \A u \in Tunnels : Of(u)' = Of(u)
      /\ \A u \in Tunnels \ {t} : UNCHANGED <<Of(u), socket[u], saved[u]>>
      /\ saved'[t] = saved[t]
  BY <1>1, <1>2, Sockets DEF IInv, Of
<1>5. /\ dirs' \subseteq Tunnels /\ saved' \in [Tunnels -> Ports \cup {0}] /\ strayed' \subseteq Tunnels
      /\ "ssh" \in Labels /\ "idle" \in Labels /\ count \in Counts /\ Idle \in Locals
  BY <1>1, Sockets, Typed, IdleTyped DEF IInv, Labels
<1>6. CASE Finish(p)
  <2>1. Goto(p, "idle", Idle) /\ agent' = Released(p) /\ UNCHANGED <<ended, running, foreign, count>>
    BY <1>6 DEF Finish
  <2>2. Fits(p, "idle", Idle, agent)
    BY DEF Fits
  <2>. QED
    BY <1>1, <1>2, <1>3, <1>4, <1>5, <2>1, <2>2, OwnStep
<1>7. CASE \E port \in Ports : Proceed(p, "ssh", [me[p] EXCEPT !.port = port, !.known = 0])
  <2>1. PICK port \in Ports : Proceed(p, "ssh", [me[p] EXCEPT !.port = port, !.known = 0])
    BY <1>7
  <2>. PICK loc : loc = [me[p] EXCEPT !.port = port, !.known = 0]
    OBVIOUS
  <2>2. Goto(p, "ssh", loc) /\ UNCHANGED <<ended, agent, running, foreign, count>>
    BY <2>1 DEF Proceed, world
  <2>3. loc \in Locals /\ Fits(p, "ssh", loc, agent) /\ loc.cmd = me[p].cmd /\ loc.run = me[p].run /\ loc.t = t
    BY <1>3, TunnelsAssumption DEF Fits, Openers, Locals
  <2>4. t \notin strayed' => Leaves(t, "ssh", loc)'
    BY <1>1, <1>3, <1>4 DEF Leaves, Emptied
  <2>5. count' \in Counts /\ count'.masters = count.masters /\ agent' = agent /\ masters' \subseteq masters
        /\ strayed \subseteq strayed'
    BY <1>1, <1>5, <2>2
  <2>6. t \notin strayed' => /\ \A m \in Of(t)' : socket'[t] = m.id /\ saved'[t] = m.port
                            /\ Leaves(t, "ssh", loc)'
    BY <1>1, <1>3, <1>4, <2>4
  <2>7. pc[p] # "idle" /\ "ssh" \notin {"idle", "save"} /\ saved'[t] \in {saved[t], 0}
    BY <1>1, <1>4
  <2>. QED
    BY <1>2, <1>4, <1>5, <2>2, <2>3, <2>5, <2>6, <2>7, OwnStep
<1>8. (IF me[p].port # 0 THEN {me[p].port} ELSE IF me[p].known \in Free THEN {me[p].known} ELSE Free) \subseteq Ports
  BY <1>3 DEF Locals, Free
<1>. QED
  BY <1>6, <1>7, <1>8 DEF ChoosePort

LEMMA StartSshStep ==
  ASSUME IInv, NEW p \in Procs, StartSsh(p) PROVE IInv'
<1>1. pc[p] = "ssh" /\ UNCHANGED <<dirs, saved, strayed>>
  BY DEF StartSsh
<1>2. PICK t \in Tunnels : t = Mine(p)
  BY <1>1, Here
<1>3. /\ me[p] \in Locals /\ Fits(p, "ssh", me[p], agent) /\ me[p].t = t /\ Opens(p)
      /\ t \notin strayed => Of(t) = {}
  BY <1>1, <1>2, Here DEF Leaves, Emptied, Mine, Fits, Opens, Openers
<1>. PICK loc \in Locals : loc = me[p]
  BY <1>3
<1>4. CASE Finish(p) /\ UNCHANGED <<masters, socket>>
  BY <1>1, <1>4, FinishStep DEF tunnel
<1>5. CASE ~(Finish(p) /\ UNCHANGED <<masters, socket>>)
  <2>. DEFINE id == count.masters + 1
              new == [id |-> id, of |-> t, port |-> loc.port]
  <2>1. /\ me[p].port \in Free /\ count.masters < MaxMasters
        /\ masters' = masters \cup {new} /\ socket' = [socket EXCEPT ![t] = id]
        /\ count' = [count EXCEPT !.masters = id]
        /\ Goto(p, "save", me[p]) /\ UNCHANGED <<ended, agent, running, foreign>>
    BY <1>2, <1>5 DEF StartSsh
  <2>2. /\ count \in Counts /\ count.masters \in Nat /\ id \in 1 .. MaxMasters /\ id \in 0 .. MaxMasters
        /\ count' \in Counts /\ count'.masters = id
    BY <2>1, Typed, Bounds DEF IInv, Counts
  <2>3. new \in Master
    BY <2>1, <2>2 DEF Master, Free
  <2>4. \A m \in masters : m.id \in Nat /\ m.id <= count.masters /\ m.id # id
    <3>1. \A m \in masters : m.id \in Nat /\ m.id <= count.masters
      BY Sockets DEF IInv, MastersOK
    <3>. QED
      BY <2>2, <3>1
  <2>5. new.id = id /\ new.of = t /\ new.port = loc.port
    OBVIOUS
  <2>6. id = count.masters + 1
    OBVIOUS
  <2>. HIDE DEF id, new
  <2>7. TypeOK'
    <3>1. masters' \subseteq Master /\ socket' \in [Tunnels -> 0 .. MaxMasters]
      BY <1>2, <2>1, <2>2, <2>3, Sockets DEF IInv
    <3>2. "save" \in Labels /\ running' \subseteq Tunnels /\ dirs' \subseteq Tunnels
          /\ saved' \in [Tunnels -> Ports \cup {0}] /\ strayed' \subseteq Tunnels
          /\ agent' \in [Runs -> Procs \cup {None}]
      BY <1>1, <2>1, Sockets, Typed DEF IInv, Labels
    <3>. QED
      BY <1>3, <2>1, <2>2, <3>1, <3>2, TypeStep DEF IInv
  <2>8. MastersOK'
    <3>1. \A m \in masters' : m.id <= count'.masters
      BY <2>1, <2>2, <2>4, <2>5, <2>6
    <3>2. \A m, n \in masters' : m.id = n.id => m = n
      BY <2>1, <2>4, <2>5 DEF IInv, MastersOK
    <3>3. ASSUME NEW u \in Tunnels
          PROVE  socket'[u] <= count'.masters /\ \A m \in masters' : m.id = socket'[u] => m.of = u
      <4>1. CASE u = t
        BY <2>1, <2>2, <2>4, <2>5, <4>1, Sockets DEF IInv
      <4>2. CASE u # t
        <5>1. socket'[u] = socket[u] /\ socket[u] \in 0 .. MaxMasters /\ socket[u] <= count.masters
              /\ \A m \in masters : m.id = socket[u] => m.of = u
          BY <2>1, <4>2, Sockets DEF IInv, MastersOK
        <5>2. socket[u] # id /\ socket[u] <= id
          BY <2>2, <2>6, <5>1, Bounds
        <5>. QED
          BY <2>1, <2>2, <2>5, <5>1, <5>2
      <4>. QED
        BY <4>1, <4>2
    <3>. QED
      BY <3>1, <3>2, <3>3 DEF MastersOK
  <2>9. Of(t)' = Of(t) \cup {new} /\ \A u \in Tunnels \ {t} : Of(u)' = Of(u)
    BY <2>1, <2>5 DEF Of
  <2>10. \A u \in Tunnels \ {t} : UNCHANGED <<Of(u), socket[u], saved[u]>>
    BY <1>1, <2>1, <2>9, Sockets DEF IInv
  <2>11. Fits(p, "save", loc, agent) /\ Goto(p, "save", loc)
    BY <1>3, <2>1 DEF Fits
  <2>12. t \notin strayed' => Of(t)' = {new}
    BY <1>1, <1>3, <2>9
  <2>13. socket'[t] = id
    BY <2>1, Sockets DEF IInv
  <2>14. t \notin strayed' => Leaves(t, "save", loc)'
    BY <2>5, <2>12 DEF Leaves, Emptied
  <2>. QED
    BY <1>1, <1>2, <1>3, <2>1, <2>5, <2>7, <2>8, <2>10, <2>11, <2>12, <2>13, <2>14, ProcStep DEF Labels
<1>. QED
  BY <1>4, <1>5

LEMMA SaveStateStep ==
  ASSUME IInv, NEW p \in Procs, SaveState(p) PROVE IInv'
<1>1. pc[p] = "save" /\ UNCHANGED dirs
  BY DEF SaveState
<1>2. PICK t \in Tunnels : t = Mine(p)
  BY <1>1, Here
<1>3. /\ me[p] \in Locals /\ Fits(p, "save", me[p], agent) /\ me[p].t = t /\ Opens(p)
      /\ t \notin strayed => \A m \in Of(t) : socket[t] = m.id /\ m.port = me[p].port
  BY <1>1, <1>2, Here DEF Leaves, Mine, Fits, Opens, Openers
<1>4. /\ dirs' \subseteq Tunnels /\ saved \in [Tunnels -> Ports \cup {0}]
      /\ "ready" \in Labels /\ "idle" \in Labels /\ count \in Counts /\ Idle \in Locals /\ strayed \subseteq Tunnels
  BY <1>1, Sockets, Typed, IdleTyped DEF IInv, Labels
<1>5. CASE /\ saved' = [saved EXCEPT ![t] = me[p].port]
           /\ Proceed(p, "ready", [me[p] EXCEPT !.port = 0])
           /\ UNCHANGED <<masters, socket, strayed>>
  <2>. PICK loc : loc = [me[p] EXCEPT !.port = 0]
    OBVIOUS
  <2>1. Goto(p, "ready", loc) /\ UNCHANGED <<ended, agent, running, foreign, count>>
    BY <1>5 DEF Proceed, world
  <2>2. loc \in Locals /\ Fits(p, "ready", loc, agent) /\ loc.cmd = me[p].cmd /\ loc.run = me[p].run /\ loc.t = t
    BY <1>3 DEF Locals, Fits, Openers
  <2>3. /\ \A u \in Tunnels : Of(u)' = Of(u)
        /\ \A u \in Tunnels \ {t} : UNCHANGED <<Of(u), socket[u], saved[u]>>
        /\ saved' \in [Tunnels -> Ports \cup {0}] /\ saved'[t] = me[p].port
    BY <1>3, <1>4, <1>5 DEF Of, Locals
  <2>4. /\ count' \in Counts /\ count'.masters = count.masters /\ agent' = agent /\ masters' \subseteq masters
        /\ strayed \subseteq strayed' /\ strayed' \subseteq Tunnels
        /\ socket' \in [Tunnels -> 0 .. MaxMasters] /\ \A u \in Tunnels : socket'[u] \in {0, socket[u]}
    BY <1>4, <1>5, <2>1, Sockets DEF IInv
  <2>5. t \notin strayed' => /\ \A m \in Of(t)' : socket'[t] = m.id /\ saved'[t] = m.port
                            /\ Leaves(t, "ready", loc)'
    BY <1>3, <1>5, <2>3 DEF Leaves, Emptied
  <2>6. pc[p] # "idle" /\ "ready" \notin {"idle", "save"}
    BY <1>1
  <2>8. t \notin strayed' =>
          /\ \A m \in Of(t)' : socket'[t] = m.id
          /\ "ready" # "save" => \A m \in Of(t)' : saved'[t] = m.port
          /\ "ready" # "idle" => Leaves(t, "ready", loc)'
          /\ Opens(p) \/ saved'[t] \in {saved[t], 0}
    BY <1>3, <2>5
  <2>9. "ready" \in Labels /\ dirs' \subseteq Tunnels
    BY <1>4
  <2>. QED
    BY <1>2, <2>1, <2>2, <2>3, <2>4, <2>6, <2>8, <2>9, OwnStep
<1>6. CASE /\ saved' \in {saved, [saved EXCEPT ![t] = 0]} /\ Finish(p)
           /\ \/ ExitMaster(t) /\ UNCHANGED strayed
              \/ ExitFails(t) /\ strayed' = strayed \cup {t}
  <2>1. Goto(p, "idle", Idle) /\ agent' = Released(p) /\ UNCHANGED <<ended, running, foreign, count>>
    BY <1>6 DEF Finish
  <2>2. Fits(p, "idle", Idle, agent)
    BY DEF Fits
  <2>3. saved' \in [Tunnels -> Ports \cup {0}] /\ \A u \in Tunnels \ {t} : saved'[u] = saved[u]
    BY <1>4, <1>6
  <2>4. /\ masters' \subseteq masters /\ socket' \in [Tunnels -> 0 .. MaxMasters]
        /\ \A u \in Tunnels : socket'[u] \in {0, socket[u]}
        /\ \A u \in Tunnels \ {t} : UNCHANGED <<Of(u), socket[u]>>
    <3>1. CASE ExitMaster(t)
      BY <3>1, Exits
    <3>2. CASE ExitFails(t)
      BY <3>2, Sockets DEF IInv, ExitFails, Of
    <3>. QED
      BY <1>6, <3>1, <3>2
  <2>5. t \notin strayed' => Of(t)' = {}
    <3>1. CASE ExitMaster(t) /\ UNCHANGED strayed
      BY <1>3, <3>1, Exits
    <3>. QED
      BY <1>6, <3>1
  <2>6. /\ strayed \subseteq strayed' /\ strayed' \subseteq Tunnels /\ count' \in Counts
        /\ count'.masters = count.masters
    BY <1>4, <1>6, <2>1
  <2>. QED
    BY <1>1, <1>2, <1>3, <1>4, <2>1, <2>2, <2>3, <2>4, <2>5, <2>6, OwnStep
<1>. QED
  BY <1>2, <1>5, <1>6 DEF SaveState

LEMMA WaitReadyStep ==
  ASSUME IInv, NEW p \in Procs, WaitReady(p) PROVE IInv'
<1>1. pc[p] = "ready" /\ UNCHANGED tunnel
  BY DEF WaitReady
<1>2. me[p] \in Locals /\ Fits(p, pc[p], me[p], agent) /\ running \subseteq Tunnels
  BY <1>1, Here, Sockets DEF IInv
<1>3. CASE Finish(p)
  BY <1>1, <1>3, FinishStep
<1>4. CASE Proceed(p, "close", me[p])
  <2>1. Goto(p, "close", me[p]) /\ UNCHANGED <<ended, agent, running, foreign, count>>
    BY <1>4 DEF Proceed, world
  <2>2. Fits(p, "close", me[p], agent) /\ Leaves(Mine(p), "close", me[p]) /\ "close" \in Labels /\ me[p].t = Mine(p)
    BY <1>1, <1>2 DEF Fits, Leaves, Emptied, Labels, Mine
  <2>. QED
    BY <1>1, <1>2, <2>1, <2>2, QuietStep DEF tunnel
<1>. QED
  BY <1>3, <1>4 DEF WaitReady

LEMMA StopProcessStep ==
  ASSUME IInv, NEW p \in Procs, StopProcess(p) PROVE IInv'
<1>1. /\ pc[p] = "process" /\ Goto(p, "idle", Idle) /\ agent' = Released(p)
      /\ UNCHANGED <<ended, foreign, count, masters, socket, dirs, saved, strayed>>
  BY DEF StopProcess, tunnel
<1>2. running' \subseteq Tunnels /\ Idle \in Locals /\ "idle" \in Labels /\ Fits(p, "idle", Idle, agent)
  BY Sockets, IdleTyped DEF IInv, StopProcess, Labels, Fits
<1>. QED
  BY <1>1, <1>2, QuietStep

(* Close is over, with or without an error. *)
LEMMA CloseReturnsStep ==
  ASSUME IInv, NEW p \in Procs, NEW failed \in BOOLEAN, CloseReturns(p, failed),
         pc[p] \in {"close", "exit", "socket", "state"},
         masters' \subseteq masters, socket' \in [Tunnels -> 0 .. MaxMasters],
         \A u \in Tunnels : socket'[u] \in {0, socket[u]},
         dirs' \subseteq Tunnels, saved' \in [Tunnels -> Ports \cup {0}], UNCHANGED strayed,
         NEW t \in Tunnels, t = Mine(p),
         \A u \in Tunnels \ {t} : UNCHANGED <<Of(u), socket[u], saved[u]>>,
         t \notin strayed =>
           /\ \A m \in Of(t)' : socket'[t] = m.id /\ saved'[t] = m.port
           /\ ~failed => Of(t)' = {} /\ saved'[t] = 0
           /\ saved'[t] \in {saved[t], 0}
  PROVE  IInv'
<1>1. /\ me[p] \in Locals /\ Fits(p, pc[p], me[p], agent) /\ me[p].t = t /\ strayed \subseteq Tunnels
      /\ count \in Counts /\ Idle \in Locals /\ {"entries", "process", "idle"} \subseteq Labels
  BY Here, Typed, IdleTyped DEF IInv, Mine, Labels
<1>2. CASE me[p].cmd = "closeAll"
  <2>1. Goto(p, "entries", me[p]) /\ UNCHANGED <<ended, agent, running, foreign, count>>
    BY <1>2 DEF CloseReturns, Proceed, world
  <2>. PICK loc \in Locals : loc = me[p]
    BY <1>1
  <2>2. Fits(p, "entries", loc, agent) /\ (t \notin strayed' => Leaves(t, "entries", loc)')
    BY <1>1, <1>2 DEF Fits, Leaves, Emptied
  <2>. QED
    BY <1>1, <2>1, <2>2, OwnStep
<1>3. CASE me[p].cmd = "stop"
  <2>. PICK loc : loc = [me[p] EXCEPT !.failed = failed]
    OBVIOUS
  <2>1. Goto(p, "process", loc) /\ UNCHANGED <<ended, agent, running, foreign, count>>
    BY <1>3 DEF CloseReturns, Proceed, world
  <2>2. /\ loc \in Locals /\ Fits(p, "process", loc, agent) /\ loc.failed = failed
        /\ loc.cmd = me[p].cmd /\ loc.run = me[p].run /\ loc.t = t
    BY <1>1, <1>3 DEF Fits, Locals
  <2>3. t \notin strayed' => Leaves(t, "process", loc)'
    BY <2>2 DEF Leaves, Emptied
  <2>4. t \notin strayed' =>
          /\ \A m \in Of(t)' : socket'[t] = m.id
          /\ "process" # "save" => \A m \in Of(t)' : saved'[t] = m.port
          /\ "process" # "idle" => Leaves(t, "process", loc)'
          /\ Opens(p) \/ saved'[t] \in {saved[t], 0}
    BY <2>3
  <2>5. /\ "process" \in Labels /\ count' \in Counts /\ count'.masters = count.masters /\ agent' = agent
        /\ strayed \subseteq strayed' /\ strayed' \subseteq Tunnels /\ pc[p] # "idle"
    BY <1>1, <2>1
  <2>. QED
    BY <2>1, <2>2, <2>4, <2>5, OwnStep
<1>4. CASE me[p].cmd \notin {"closeAll", "stop"}
  <2>1. Finish(p)
    BY <1>4 DEF CloseReturns
  <2>2. Goto(p, "idle", Idle) /\ agent' = Released(p) /\ UNCHANGED <<ended, running, foreign, count>>
    BY <2>1 DEF Finish
  <2>3. Fits(p, "idle", Idle, agent)
    BY DEF Fits
  <2>4. t \notin strayed' =>
          /\ \A m \in Of(t)' : socket'[t] = m.id
          /\ "idle" # "save" => \A m \in Of(t)' : saved'[t] = m.port
          /\ "idle" # "idle" => Leaves(t, "idle", Idle)'
          /\ Opens(p) \/ saved'[t] \in {saved[t], 0}
    OBVIOUS
  <2>5. /\ "idle" \in Labels /\ Idle \in Locals /\ count' \in Counts /\ count'.masters = count.masters
        /\ strayed \subseteq strayed' /\ strayed' \subseteq Tunnels /\ pc[p] # "idle"
    BY <1>1, <2>2
  <2>. QED
    BY <2>2, <2>3, <2>4, <2>5, OwnStep
<1>. QED
  BY <1>2, <1>3, <1>4

(* Close goes on to its next call. *)
LEMMA CloseGoesOn ==
  ASSUME IInv, NEW p \in Procs, NEW l \in {"exit", "socket", "state"}, Proceed(p, l, me[p]),
         pc[p] \in {"close", "exit", "socket"},
         masters' \subseteq masters, socket' \in [Tunnels -> 0 .. MaxMasters],
         \A u \in Tunnels : socket'[u] \in {0, socket[u]}, UNCHANGED <<dirs, saved, strayed>>,
         NEW t \in Tunnels, t = Mine(p),
         \A u \in Tunnels \ {t} : UNCHANGED <<Of(u), socket[u]>>,
         t \notin strayed => /\ \A m \in Of(t)' : socket'[t] = m.id
                             /\ l # "exit" => Of(t)' = {}
  PROVE  IInv'
<1>1. /\ me[p] \in Locals /\ Fits(p, pc[p], me[p], agent) /\ me[p].t = t /\ strayed \subseteq Tunnels
      /\ t \notin strayed => \A m \in Of(t) : saved[t] = m.port
  BY Here, Typed DEF IInv, Mine
<1>2. /\ count \in Counts /\ l \in Labels /\ dirs' \subseteq Tunnels /\ saved' \in [Tunnels -> Ports \cup {0}]
  BY Sockets, Typed DEF IInv, Labels
<1>3. Goto(p, l, me[p]) /\ UNCHANGED <<ended, agent, running, foreign, count>>
  BY DEF Proceed, world
<1>. PICK loc \in Locals : loc = me[p]
  BY <1>1
<1>4. Fits(p, l, loc, agent)
  BY <1>1 DEF Fits
<1>5. t \notin strayed' => Leaves(t, l, loc)'
  BY DEF Leaves, Emptied
<1>6. \A m \in Of(t)' : m \in Of(t)
  BY DEF Of
<1>. QED
  BY <1>1, <1>2, <1>3, <1>4, <1>5, <1>6, OwnStep

LEMMA ReadSavedStep ==
  ASSUME IInv, NEW p \in Procs, ReadSaved(p) PROVE IInv'
<1>1. /\ pc[p] = "close" /\ UNCHANGED <<masters, socket, dirs, saved, strayed>>
  BY DEF ReadSaved, tunnel
<1>2. PICK t \in Tunnels : t = Mine(p)
  BY <1>1, Here
<1>3. t \notin strayed => \A m \in Of(t) : socket[t] = m.id /\ saved[t] = m.port
  BY <1>1, <1>2, Here
<1>4. /\ socket' \in [Tunnels -> 0 .. MaxMasters] /\ \A u \in Tunnels : socket'[u] \in {0, socket[u]}
      /\ dirs' \subseteq Tunnels /\ saved' \in [Tunnels -> Ports \cup {0}]
      /\ \A u \in Tunnels : UNCHANGED <<Of(u), socket[u], saved[u]>>
  BY <1>1, Sockets DEF IInv, Of
<1>5. CASE CloseReturns(p, TRUE)
  <2>1. t \notin strayed =>
            /\ \A m \in Of(t)' : socket'[t] = m.id /\ saved'[t] = m.port
            /\ ~TRUE => Of(t)' = {} /\ saved'[t] = 0
            /\ saved'[t] \in {saved[t], 0}
    BY <1>3, <1>4
  <2>. QED
    BY <1>1, <1>2, <1>4, <1>5, <2>1, CloseReturnsStep
<1>6. CASE saved[t] = 0 /\ CloseReturns(p, FALSE)
  <2>1. t \notin strayed => Of(t)' = {}
    BY <1>3, <1>4, <1>6, Sockets, TunnelsAssumption DEF IInv, Of
  <2>2. t \notin strayed =>
            /\ \A m \in Of(t)' : socket'[t] = m.id /\ saved'[t] = m.port
            /\ ~FALSE => Of(t)' = {} /\ saved'[t] = 0
            /\ saved'[t] \in {saved[t], 0}
    BY <1>4, <1>6, <2>1
  <2>. QED
    BY <1>1, <1>2, <1>4, <1>6, <2>2, CloseReturnsStep
<1>7. CASE Proceed(p, "exit", me[p])
  BY <1>1, <1>2, <1>3, <1>4, <1>7, CloseGoesOn
<1>. QED
  BY <1>2, <1>5, <1>6, <1>7 DEF ReadSaved

LEMMA CloseMasterStep ==
  ASSUME IInv, NEW p \in Procs, CloseMaster(p) PROVE IInv'
<1>1. pc[p] = "exit" /\ UNCHANGED <<dirs, saved, strayed>>
  BY DEF CloseMaster
<1>2. PICK t \in Tunnels : t = Mine(p)
  BY <1>1, Here
<1>3. t \notin strayed => \A m \in Of(t) : socket[t] = m.id /\ saved[t] = m.port
  BY <1>1, <1>2, Here
<1>4. dirs' \subseteq Tunnels /\ saved' \in [Tunnels -> Ports \cup {0}]
  BY <1>1, Sockets DEF IInv
<1>5. CASE ExitMaster(t) /\ Proceed(p, "socket", me[p])
  BY <1>1, <1>2, <1>3, <1>5, Exits, CloseGoesOn
<1>6. CASE ExitFails(t) /\ CloseReturns(p, TRUE)
  <2>1. /\ socket' \in [Tunnels -> 0 .. MaxMasters] /\ \A u \in Tunnels : socket'[u] \in {0, socket[u]}
        /\ \A u \in Tunnels : UNCHANGED <<Of(u), socket[u], saved[u]>> /\ masters' \subseteq masters
    BY <1>1, <1>6, Sockets DEF IInv, Of, ExitFails
  <2>2. t \notin strayed =>
            /\ \A m \in Of(t)' : socket'[t] = m.id /\ saved'[t] = m.port
            /\ ~TRUE => Of(t)' = {} /\ saved'[t] = 0
            /\ saved'[t] \in {saved[t], 0}
    BY <1>3, <2>1
  <2>. QED
    BY <1>1, <1>2, <1>4, <1>6, <2>1, <2>2, CloseReturnsStep
<1>. QED
  BY <1>2, <1>5, <1>6 DEF CloseMaster

LEMMA RemoveSocketStep ==
  ASSUME IInv, NEW p \in Procs, RemoveSocket(p) PROVE IInv'
<1>1. pc[p] = "socket" /\ UNCHANGED <<masters, dirs, saved, strayed>>
  BY DEF RemoveSocket
<1>2. PICK t \in Tunnels : t = Mine(p)
  BY <1>1, Here
<1>3. /\ t \notin strayed => Of(t) = {}
      /\ \A u \in Tunnels : Of(u)' = Of(u)
  BY <1>1, <1>2, Here DEF Leaves, Emptied, Of
<1>4. dirs' \subseteq Tunnels /\ saved' \in [Tunnels -> Ports \cup {0}]
  BY <1>1, Sockets DEF IInv
<1>5. CASE socket' = [socket EXCEPT ![t] = 0] /\ Proceed(p, "state", me[p])
  <2>1. /\ socket' \in [Tunnels -> 0 .. MaxMasters] /\ \A u \in Tunnels : socket'[u] \in {0, socket[u]}
        /\ \A u \in Tunnels \ {t} : UNCHANGED <<Of(u), socket[u]>>
    BY <1>3, <1>5, Sockets DEF IInv
  <2>. QED
    BY <1>1, <1>2, <1>3, <1>5, <2>1, CloseGoesOn
<1>6. CASE UNCHANGED socket /\ CloseReturns(p, TRUE)
  <2>1. /\ socket' \in [Tunnels -> 0 .. MaxMasters] /\ \A u \in Tunnels : socket'[u] \in {0, socket[u]}
        /\ \A u \in Tunnels : UNCHANGED <<Of(u), socket[u], saved[u]>>
    BY <1>1, <1>3, <1>6, Sockets DEF IInv
  <2>2. t \notin strayed =>
            /\ \A m \in Of(t)' : socket'[t] = m.id /\ saved'[t] = m.port
            /\ ~TRUE => Of(t)' = {} /\ saved'[t] = 0
            /\ saved'[t] \in {saved[t], 0}
    BY <1>3, <2>1
  <2>. QED
    BY <1>1, <1>2, <1>4, <1>6, <2>1, <2>2, CloseReturnsStep
<1>. QED
  BY <1>2, <1>5, <1>6 DEF RemoveSocket

LEMMA RemoveStateStep ==
  ASSUME IInv, NEW p \in Procs, RemoveState(p) PROVE IInv'
<1>1. pc[p] = "state" /\ UNCHANGED <<masters, socket, strayed>>
  BY DEF RemoveState
<1>2. PICK t \in Tunnels : t = Mine(p)
  BY <1>1, Here
<1>3. /\ t \notin strayed => Of(t) = {}
      /\ \A u \in Tunnels : UNCHANGED <<Of(u), socket[u]>>
      /\ socket' \in [Tunnels -> 0 .. MaxMasters]
  BY <1>1, <1>2, Here, Sockets DEF Leaves, Emptied, Of, IInv
<1>4. CASE saved' = [saved EXCEPT ![t] = 0] /\ dirs' = dirs \ {t} /\ CloseReturns(p, FALSE)
  <2>1. /\ dirs' \subseteq Tunnels /\ saved' \in [Tunnels -> Ports \cup {0}] /\ saved'[t] = 0
        /\ \A u \in Tunnels \ {t} : UNCHANGED <<Of(u), socket[u], saved[u]>>
    BY <1>3, <1>4, Sockets DEF IInv
  <2>2. t \notin strayed =>
            /\ \A m \in Of(t)' : socket'[t] = m.id /\ saved'[t] = m.port
            /\ ~FALSE => Of(t)' = {} /\ saved'[t] = 0
            /\ saved'[t] \in {saved[t], 0}
    BY <1>3, <2>1
  <2>3. masters' \subseteq masters /\ \A u \in Tunnels : socket'[u] \in {0, socket[u]}
    BY <1>1
  <2>. QED
    BY <1>1, <1>2, <1>3, <1>4, <2>1, <2>2, <2>3, CloseReturnsStep
<1>5. CASE UNCHANGED <<dirs, saved>> /\ CloseReturns(p, TRUE)
  <2>1. /\ dirs' \subseteq Tunnels /\ saved' \in [Tunnels -> Ports \cup {0}] /\ saved'[t] = saved[t]
        /\ \A u \in Tunnels \ {t} : UNCHANGED <<Of(u), socket[u], saved[u]>>
    BY <1>3, <1>5, Sockets DEF IInv
  <2>2. t \notin strayed =>
            /\ \A m \in Of(t)' : socket'[t] = m.id /\ saved'[t] = m.port
            /\ ~TRUE => Of(t)' = {} /\ saved'[t] = 0
            /\ saved'[t] \in {saved[t], 0}
    BY <1>3, <2>1
  <2>3. masters' \subseteq masters /\ \A u \in Tunnels : socket'[u] \in {0, socket[u]}
    BY <1>1
  <2>. QED
    BY <1>1, <1>2, <1>3, <1>5, <2>1, <2>2, <2>3, CloseReturnsStep
<1>. QED
  BY <1>2, <1>4, <1>5 DEF RemoveState

LEMMA NextEntryStep ==
  ASSUME IInv, NEW p \in Procs, NextEntry(p) PROVE IInv'
<1>1. /\ pc[p] = "entries" /\ UNCHANGED tunnel /\ UNCHANGED <<masters, socket, dirs, saved, strayed>>
  BY DEF NextEntry, tunnel
<1>2. /\ me[p] \in Locals /\ Fits(p, "entries", me[p], agent) /\ running \subseteq Tunnels /\ me[p].t = Mine(p)
      /\ {"entries", "close"} \subseteq Labels
  BY <1>1, Here, Sockets DEF IInv, Labels, Mine
<1>3. CASE Finish(p)
  BY <1>1, <1>3, FinishStep
<1>4. ASSUME NEW t \in me[p].todo,
             IF OfRun(p, t) THEN Proceed(p, "close", [[me[p] EXCEPT !.todo = @ \ {t}] EXCEPT !.t = t])
                            ELSE Proceed(p, "entries", [me[p] EXCEPT !.todo = @ \ {t}])
      PROVE  IInv'
  <2>1. CASE OfRun(p, t)
    <3>. PICK loc : loc = [[me[p] EXCEPT !.todo = @ \ {t}] EXCEPT !.t = t]
      OBVIOUS
    <3>1. Goto(p, "close", loc) /\ UNCHANGED <<ended, agent, running, foreign, count>>
      BY <1>4, <2>1 DEF Proceed, world
    <3>2. /\ loc \in Locals /\ loc.cmd = me[p].cmd /\ loc.cmd = "closeAll" /\ loc.run = me[p].run
          /\ RunOf[loc.t] = loc.run
      BY <1>2, <2>1 DEF Locals, Fits, OfRun
    <3>3. Fits(p, "close", loc, agent) /\ Leaves(Mine(p), "close", loc)
      BY <3>2 DEF Fits, Leaves, Emptied
    <3>. QED
      BY <1>1, <1>2, <3>1, <3>2, <3>3, QuietStep
  <2>2. CASE ~OfRun(p, t)
    <3>. PICK loc : loc = [me[p] EXCEPT !.todo = @ \ {t}]
      OBVIOUS
    <3>1. Goto(p, "entries", loc) /\ UNCHANGED <<ended, agent, running, foreign, count>>
      BY <1>4, <2>2 DEF Proceed, world
    <3>2. /\ loc \in Locals /\ loc.cmd = me[p].cmd /\ loc.run = me[p].run /\ loc.t = Mine(p)
          /\ Fits(p, "entries", loc, agent) /\ Leaves(Mine(p), "entries", loc)
      BY <1>2 DEF Locals, Fits, Leaves, Emptied
    <3>. QED
      BY <1>1, <1>2, <3>1, <3>2, QuietStep
  <2>. QED
    BY <2>1, <2>2
<1>. QED
  BY <1>3, <1>4 DEF NextEntry

-----------------------------------------------------------------------------
(* A process begins: it opens or closes nothing yet, and what a CloseAll and a
   command that opens come to share counts as strayed. *)
LEMMA BeginsStep ==
  ASSUME IInv, NEW p \in Procs, NEW l \in {"directive", "close", "entries"}, NEW loc \in Locals,
         Goto(p, l, loc), pc[p] = "idle",
         UNCHANGED <<ended, running, foreign, masters, socket, dirs, saved>>,
         count' \in Counts, count'.masters = count.masters,
         strayed \subseteq strayed', strayed' \subseteq Tunnels,
         agent' \in [Runs -> Procs \cup {None}],
         \A q \in Procs \ {p} : pc[q] # "idle" /\ me[q].cmd # "closeAll" => agent'[me[q].run] = agent[me[q].run],
         Fits(p, l, loc, agent'),
         loc.cmd \in Openers => \A q \in Procs \ {p} : ClosesAll(q, loc.run) => loc.t \in strayed',
         loc.cmd = "closeAll" => \A q \in Procs \ {p} : Opens(q) /\ me[q].run = loc.run => Mine(q) \in strayed'
  PROVE  IInv'
<1>1. /\ pc'[p] = l /\ me'[p] = loc /\ Mine(p)' = loc.t /\ l \in Labels
      /\ \A q \in Procs \ {p} : pc'[q] = pc[q] /\ me'[q] = me[q] /\ Mine(q)' = Mine(q)
  BY Goes DEF IInv, Mine, Labels
<1>2. TypeOK'
  BY <1>1, Sockets, TypeStep DEF IInv
<1>3. MastersOK'
  BY DEF IInv, MastersOK
<1>4. CommandsOK'
  <2>1. ASSUME NEW q \in Procs PROVE Fits(q, pc'[q], me'[q], agent')
    <3>1. CASE q = p
      BY <1>1, <3>1 DEF Fits
    <3>2. CASE q # p
      <4>1. Fits(q, pc[q], me[q], agent)
        BY DEF IInv, CommandsOK
      <4>. QED
        BY <1>1, <3>2, <4>1 DEF Fits
    <3>. QED
      BY <3>1, <3>2
  <2>. QED
    BY <2>1 DEF CommandsOK, Fits, Openers
<1>5. Apart'
  <2>1. SUFFICES ASSUME NEW q \in Procs, NEW o \in Procs, Opens(q)', ClosesAll(o, me[q].run)', Mine(q)' \notin strayed'
                 PROVE  FALSE
    BY DEF Apart, ClosesAll
  <2>2. q # o
    BY <2>1 DEF Opens, ClosesAll
  <2>3. CASE q = p
    BY <1>1, <2>1, <2>2, <2>3 DEF Opens, ClosesAll, Openers
  <2>4. CASE o = p
    <3>1. Opens(q) /\ me[q].run = loc.run /\ loc.cmd = "closeAll"
      BY <1>1, <2>1, <2>2, <2>4 DEF Opens, ClosesAll
    <3>. QED
      BY <1>1, <2>1, <2>2, <2>4, <3>1
  <2>5. CASE q # p /\ o # p
    <3>1. Opens(q) /\ ClosesAll(o, me[q].run) /\ Mine(q) \notin strayed
      BY <1>1, <2>1, <2>5 DEF Opens, ClosesAll
    <3>. QED
      BY <3>1 DEF IInv, Apart
  <2>. QED
    BY <2>3, <2>4, <2>5
<1>6. ASSUME NEW t \in Tunnels PROVE TunnelOK(t)'
  <2>1. SUFFICES ASSUME t \notin strayed'
        PROVE  (/\ \A m \in Of(t) : socket[t] = m.id
                /\ ~Opening(t) => \A m \in Of(t) : saved[t] = m.port
                /\ \A q \in Procs : Mine(q) = t => Leaves(t, pc[q], me[q]))'
    BY DEF TunnelOK
  <2>2. /\ \A m \in Of(t) : socket[t] = m.id
        /\ ~Opening(t) => \A m \in Of(t) : saved[t] = m.port
        /\ \A q \in Procs : Mine(q) = t => Leaves(t, pc[q], me[q])
    BY <2>1 DEF IInv, TunnelOK
  <2>3. Of(t)' = Of(t) /\ (Opening(t) => Opening(t)')
    BY <1>1 DEF Of, Opening
  <2>4. ASSUME NEW q \in Procs, Mine(q)' = t PROVE Leaves(t, pc[q], me[q])'
    BY <1>1, <2>2, <2>3, <2>4 DEF Leaves, Emptied
  <2>. QED
    BY <2>2, <2>3, <2>4
<1>. QED
  BY <1>2, <1>3, <1>4, <1>5, <1>6 DEF IInv

LEMMA BeginStep ==
  ASSUME IInv, NEW p \in Procs, Begin(p) PROVE IInv'
<1>1. /\ pc[p] = "idle" /\ count.commands < MaxCommands /\ count' = [count EXCEPT !.commands = @ + 1]
      /\ UNCHANGED <<ended, running, foreign, masters, socket, dirs, saved>>
  BY DEF Begin
<1>2. PICK t \in Tunnels, cmd \in {"start", "startPort", "tunnel", "stop"}, port \in Ports \cup {0} :
        /\ port # 0 => cmd \in {"startPort", "tunnel"}
        /\ RunOf[t] \notin ended /\ agent[RunOf[t]] = None
        /\ agent' = [agent EXCEPT ![RunOf[t]] = p]
        /\ Goto(p, IF cmd = "stop" THEN "close" ELSE "directive",
                [Idle EXCEPT !.cmd = cmd, !.t = t, !.run = RunOf[t], !.port = port])
        /\ strayed' = IF cmd \in {"startPort", "tunnel"} /\ \E q \in Procs : ClosesAll(q, RunOf[t])
                        THEN strayed \cup {t} ELSE strayed
  BY DEF Begin
<1>. PICK loc : loc = [Idle EXCEPT !.cmd = cmd, !.t = t, !.run = RunOf[t], !.port = port]
  OBVIOUS
<1>. PICK l \in {"directive", "close", "entries"} : l = IF cmd = "stop" THEN "close" ELSE "directive"
  OBVIOUS
<1>3. Goto(p, l, loc)
  BY <1>2
<1>4. loc \in Locals /\ loc.cmd = cmd /\ loc.t = t /\ loc.run = RunOf[t] /\ RunOf[t] \in Runs
  BY IdleTyped, Typed DEF IInv, Locals
<1>5. count' \in Counts /\ count'.masters = count.masters
  BY <1>1, Typed, Bounds DEF IInv, Counts
<1>6. /\ agent' \in [Runs -> Procs \cup {None}] /\ agent'[RunOf[t]] = p
      /\ \A r \in Runs \ {RunOf[t]} : agent'[r] = agent[r]
  BY <1>2, <1>4, Typed DEF IInv
<1>7. \A q \in Procs : pc[q] # "idle" /\ me[q].cmd # "closeAll" => agent'[me[q].run] = agent[me[q].run]
  <2>1. \A q \in Procs : pc[q] # "idle" /\ me[q].cmd # "closeAll" => agent[me[q].run] = q /\ me[q].run \in Runs
    BY Typed DEF IInv, CommandsOK, Fits
  <2>. QED
    BY <1>2, <1>6, <2>1, TunnelsAssumption
<1>8. Fits(p, l, loc, agent')
  BY <1>4, <1>6 DEF Fits, Openers
<1>9. strayed \subseteq strayed' /\ strayed' \subseteq Tunnels
  BY <1>2, Typed DEF IInv
<1>10. loc.cmd \in Openers => \A q \in Procs \ {p} : ClosesAll(q, loc.run) => loc.t \in strayed'
  BY <1>2, <1>4 DEF Openers
<1>11. loc.cmd # "closeAll"
  BY <1>4
<1>. QED
  BY <1>1, <1>3, <1>4, <1>5, <1>6, <1>7, <1>8, <1>9, <1>10, <1>11, BeginsStep

LEMMA BeginCloseAllStep ==
  ASSUME IInv, NEW p \in Procs, BeginCloseAll(p) PROVE IInv'
<1>1. /\ pc[p] = "idle" /\ count.commands < MaxCommands /\ count' = [count EXCEPT !.commands = @ + 1]
      /\ UNCHANGED <<ended, agent, running, foreign, masters, socket, dirs, saved>>
  BY DEF BeginCloseAll
<1>2. PICK t \in Tunnels :
        /\ Goto(p, "entries", [Idle EXCEPT !.cmd = "closeAll", !.t = t, !.run = RunOf[t], !.todo = dirs])
        /\ strayed' = strayed \cup {Mine(q) : q \in {o \in Procs : Opens(o) /\ me[o].run = RunOf[t]}}
  BY DEF BeginCloseAll
<1>. PICK loc : loc = [Idle EXCEPT !.cmd = "closeAll", !.t = t, !.run = RunOf[t], !.todo = dirs]
  OBVIOUS
<1>3. loc \in Locals /\ loc.cmd = "closeAll" /\ loc.t = t /\ loc.run = RunOf[t]
  BY IdleTyped, Typed, Sockets DEF IInv, Locals
<1>4. count' \in Counts /\ count'.masters = count.masters
  BY <1>1, Typed, Bounds DEF IInv, Counts
<1>5. Goto(p, "entries", loc) /\ Fits(p, "entries", loc, agent') /\ agent' \in [Runs -> Procs \cup {None}]
  BY <1>1, <1>2, <1>3, Typed DEF IInv, Fits
<1>6. /\ strayed \subseteq strayed' /\ strayed' \subseteq Tunnels
      /\ \A q \in Procs : Opens(q) /\ me[q].run = loc.run => Mine(q) \in strayed'
  BY <1>2, <1>3, Typed DEF IInv
<1>7. loc.cmd \notin Openers
  BY <1>3 DEF Openers
<1>. QED
  BY <1>1, <1>3, <1>4, <1>5, <1>6, <1>7, BeginsStep

LEMMA KillStep ==
  ASSUME IInv, NEW p \in Procs, Kill(p) PROVE IInv'
<1>1. /\ pc[p] # "idle" /\ count.faults < MaxFaults /\ Goto(p, "idle", Idle) /\ agent' = Released(p)
      /\ count' = [count EXCEPT !.faults = @ + 1]
      /\ strayed' = IF pc[p] = "save" THEN strayed \cup {Mine(p)} ELSE strayed
      /\ UNCHANGED <<ended, running, foreign, masters, socket, dirs, saved>>
  BY DEF Kill
<1>2. PICK t \in Tunnels : t = Mine(p)
  BY <1>1, Here
<1>3. /\ Idle \in Locals /\ "idle" \in Labels /\ Fits(p, "idle", Idle, agent)
      /\ strayed \subseteq strayed' /\ strayed' \subseteq Tunnels
  BY <1>1, <1>2, IdleTyped, Typed DEF IInv, Labels, Fits
<1>4. count' \in Counts /\ count'.masters = count.masters
  BY <1>1, Typed, Bounds DEF IInv, Counts
<1>5. /\ masters' \subseteq masters /\ socket' \in [Tunnels -> 0 .. MaxMasters] /\ dirs' \subseteq Tunnels
      /\ saved' \in [Tunnels -> Ports \cup {0}]
      /\ \A u \in Tunnels : socket'[u] \in {0, socket[u]} /\ UNCHANGED <<Of(u), socket[u], saved[u]>>
  BY <1>1, Sockets DEF IInv, Of
<1>6. t \notin strayed' =>
        /\ \A m \in Of(t)' : socket'[t] = m.id
        /\ "idle" # "save" => \A m \in Of(t)' : saved'[t] = m.port
        /\ "idle" # "idle" => Leaves(t, "idle", Idle)'
        /\ Opens(p) \/ saved'[t] \in {saved[t], 0}
  BY <1>1, <1>2, <1>5, Here
<1>. QED
  BY <1>1, <1>2, <1>3, <1>4, <1>5, <1>6, OwnStep

LEMMA SshEndsStep ==
  ASSUME IInv, NEW m \in masters, SshEnds(m) PROVE IInv'
<1>1. /\ masters' = masters \ {m}
      /\ socket' \in {socket, [socket EXCEPT ![m.of] = IF @ = m.id THEN 0 ELSE @]}
      /\ UNCHANGED <<ended, agent, running, foreign, dirs, saved, strayed, pc, me>>
  BY DEF SshEnds
<1>2. count' \in Counts /\ count'.masters = count.masters
  BY Typed, Bounds DEF SshEnds, IInv, Counts
<1>3. /\ socket' \in [Tunnels -> 0 .. MaxMasters] /\ masters' \subseteq masters /\ masters' \subseteq Master
      /\ \A u \in Tunnels : socket'[u] = socket[u] \/ (socket'[u] = 0 /\ socket[u] = m.id)
      /\ \A n \in masters' : n.id # m.id
  BY <1>1, Sockets DEF IInv, MastersOK
<1>4. TypeOK'
  BY <1>1, <1>2, <1>3 DEF IInv, TypeOK, Counts
<1>5. MastersOK'
  BY <1>2, <1>3, MastersLeave
<1>6. CommandsOK' /\ Apart'
  BY <1>1 DEF IInv, CommandsOK, Fits, Openers, Apart, Opens, ClosesAll, Mine
<1>7. ASSUME NEW t \in Tunnels PROVE TunnelOK(t)'
  <2>1. SUFFICES ASSUME t \notin strayed'
        PROVE  (/\ \A n \in Of(t) : socket[t] = n.id
                /\ ~Opening(t) => \A n \in Of(t) : saved[t] = n.port
                /\ \A q \in Procs : Mine(q) = t => Leaves(t, pc[q], me[q]))'
    BY DEF TunnelOK
  <2>2. /\ \A n \in Of(t) : socket[t] = n.id
        /\ ~Opening(t) => \A n \in Of(t) : saved[t] = n.port
        /\ \A q \in Procs : Mine(q) = t => Leaves(t, pc[q], me[q])
    BY <1>1, <2>1 DEF IInv, TunnelOK
  <2>3. \A n \in Of(t)' : n \in Of(t) /\ n \in masters'
    BY <1>1 DEF Of
  <2>4. (Opening(t)' <=> Opening(t)) /\ \A q \in Procs : Mine(q)' = Mine(q)
    BY <1>1 DEF Opening, Mine
  <2>5. \A n \in Of(t)' : socket'[t] = n.id
    BY <1>3, <2>2, <2>3
  <2>6. ASSUME NEW q \in Procs, Mine(q)' = t PROVE Leaves(t, pc[q], me[q])'
    BY <1>1, <2>2, <2>3, <2>4, <2>6 DEF Leaves, Emptied
  <2>. QED
    BY <1>1, <2>2, <2>3, <2>4, <2>5, <2>6
<1>. QED
  BY <1>4, <1>5, <1>6, <1>7 DEF IInv

(* What happens around the commands concerns no tunnel. *)
LEMMA OutsideStep ==
  ASSUME IInv, TypeOK', UNCHANGED <<agent, masters, socket, dirs, saved, strayed, pc, me>>,
         count'.masters = count.masters
  PROVE  IInv'
<1>1. MastersOK' /\ CommandsOK' /\ Apart'
  BY DEF IInv, MastersOK, CommandsOK, Fits, Openers, Apart, Opens, ClosesAll, Mine
<1>2. ASSUME NEW t \in Tunnels PROVE TunnelOK(t)'
  BY DEF IInv, TunnelOK, Opening, Mine, Of, Leaves, Emptied
<1>. QED
  BY <1>1, <1>2 DEF IInv

LEMMA WorldSteps ==
  /\ \A r \in Runs : IInv /\ RunEnds(r) => IInv'
  /\ \A t \in Tunnels : IInv /\ PreviewStops(t) => IInv'
  /\ \A port \in Ports : IInv /\ OtherProgram(port) => IInv'
<1>1. ASSUME NEW r \in Runs, IInv, RunEnds(r) PROVE IInv'
  <2>1. TypeOK'
    BY <1>1 DEF IInv, TypeOK, RunEnds, tunnel
  <2>. QED
    BY <1>1, <2>1, OutsideStep DEF RunEnds, tunnel
<1>2. ASSUME NEW t \in Tunnels, IInv, PreviewStops(t) PROVE IInv'
  <2>1. TypeOK'
    BY <1>2 DEF IInv, TypeOK, PreviewStops, tunnel
  <2>. QED
    BY <1>2, <2>1, OutsideStep DEF PreviewStops, tunnel
<1>3. ASSUME NEW port \in Ports, IInv, OtherProgram(port) PROVE IInv'
  <2>1. count' \in Counts /\ count'.masters = count.masters
    <3>1. count \in Counts /\ count' = [count EXCEPT !.foreign = @ + 1] /\ count.foreign < MaxForeign
      BY <1>3, Typed DEF IInv, OtherProgram
    <3>. QED
      BY <3>1, Bounds DEF Counts
  <2>3. foreign' \subseteq Ports
    BY <1>3 DEF IInv, OtherProgram, TypeOK, Free
  <2>2. TypeOK'
    BY <1>3, <2>1, <2>3 DEF IInv, TypeOK, OtherProgram, tunnel, Counts
  <2>. QED
    BY <1>3, <2>1, <2>2, OutsideStep DEF OtherProgram, tunnel
<1>. QED
  BY <1>1, <1>2, <1>3

LEMMA NextIInv == IInv /\ [Next]_vars => IInv'
<1>. SUFFICES ASSUME IInv, [Next]_vars PROVE IInv'
  OBVIOUS
<1>1. ASSUME NEW p \in Procs, Begin(p) \/ BeginCloseAll(p) \/ Kill(p) PROVE IInv'
  BY <1>1, BeginStep, BeginCloseAllStep, KillStep
<1>2. ASSUME NEW p \in Procs, Step(p) PROVE IInv'
  BY <1>2, DirectiveStep, ReadStateStep, ChoosePortStep, StartSshStep, SaveStateStep, WaitReadyStep,
     StopProcessStep, ReadSavedStep, CloseMasterStep, RemoveSocketStep, RemoveStateStep, NextEntryStep DEF Step
<1>3. CASE UNCHANGED vars
  <2>1. UNCHANGED <<ended, agent, running, masters, socket, dirs, saved, strayed, foreign, pc, me, count>>
    BY <1>3 DEF vars
  <2>2. TypeOK'
    BY <2>1 DEF IInv, TypeOK
  <2>. QED
    BY <2>1, <2>2, OutsideStep
<1>. QED
  BY <1>1, <1>2, <1>3, SshEndsStep, WorldSteps DEF Next

LEMMA AlwaysIInv == Spec => []IInv
  BY InitIInv, NextIInv, PTL DEF Spec

-----------------------------------------------------------------------------
(***************************************************************************)
(* A tunnel has at most one ssh process, and one that is up is the one     *)
(* that state file and control socket name, but for the strayed tunnels.   *)
(***************************************************************************)
THEOREM TunnelsAreTracked == Spec => []EveryTunnelIsTracked
<1>1. ASSUME IInv PROVE EveryTunnelIsTracked
  <2>. SUFFICES ASSUME NEW t \in Tunnels, t \notin strayed
                PROVE  /\ \A m, n \in Of(t) : m = n
                       /\ ~Opening(t) => \A m \in Of(t) : saved[t] = m.port /\ socket[t] = m.id
    BY DEF EveryTunnelIsTracked
  <2>1. /\ \A m \in Of(t) : socket[t] = m.id
        /\ ~Opening(t) => \A m \in Of(t) : saved[t] = m.port
    BY <1>1 DEF IInv, TunnelOK
  <2>2. \A m, n \in Of(t) : m = n
    BY <1>1, <2>1 DEF IInv, MastersOK, Of
  <2>. QED
    BY <2>1, <2>2
<1>. QED
  BY <1>1, AlwaysIInv, PTL

(***************************************************************************)
(* When stop turns to the process and was told that the tunnel is closed,  *)
(* no ssh process and no state file of it is left.                         *)
(***************************************************************************)
THEOREM StopsAreClosed == Spec => []StoppedMeansClosed
<1>1. ASSUME IInv PROVE StoppedMeansClosed
  <2>. SUFFICES ASSUME NEW p \in Procs, pc[p] = "process", ~me[p].failed, Mine(p) \notin strayed
                PROVE  Of(Mine(p)) = {} /\ saved[Mine(p)] = 0
    BY DEF StoppedMeansClosed
  <2>1. Leaves(Mine(p), pc[p], me[p])
    BY <1>1, Here
  <2>. QED
    BY <2>1 DEF Leaves
<1>. QED
  BY <1>1, AlwaysIInv, PTL

(* A process moves by a step of its own. *)
LEMMA Moves ==
  ASSUME IInv, [Next]_vars, NEW p \in Procs, pc'[p] # pc[p]
  PROVE  Begin(p) \/ BeginCloseAll(p) \/ Step(p) \/ Kill(p)
<1>1. pc \in [Procs -> Labels]
  BY Typed DEF IInv
<1>2. ASSUME NEW q \in Procs, Begin(q) \/ BeginCloseAll(q) \/ Step(q) \/ Kill(q) PROVE q = p
  <2>1. \E l, loc : Goto(q, l, loc)
    <3>1. \A failed : CloseReturns(q, failed) => \E l, loc : Goto(q, l, loc)
      BY DEF CloseReturns, Proceed, Finish
    <3>2. CASE Begin(q) \/ BeginCloseAll(q) \/ Kill(q)
      BY <3>2 DEF Begin, BeginCloseAll, Kill
    <3>3. CASE Directive(q) \/ ReadState(q) \/ ChoosePort(q) \/ SaveState(q)
      BY <3>3 DEF Directive, ReadState, ChoosePort, SaveState, Proceed, Finish
    <3>4. CASE StartSsh(q) \/ WaitReady(q) \/ StopProcess(q)
      BY <3>4 DEF StartSsh, WaitReady, StopProcess, Proceed, Finish
    <3>5. CASE ReadSaved(q) \/ CloseMaster(q) \/ RemoveSocket(q) \/ RemoveState(q)
      BY <3>1, <3>5 DEF ReadSaved, CloseMaster, RemoveSocket, RemoveState, Proceed
    <3>6. CASE NextEntry(q)
      BY <3>6 DEF NextEntry, Proceed, Finish
    <3>. QED
      BY <1>2, <3>2, <3>3, <3>4, <3>5, <3>6 DEF Step
  <2>. QED
    BY <1>1, <2>1 DEF Goto
<1>. QED
  BY <1>2 DEF Next, SshEnds, RunEnds, PreviewStops, OtherProgram, vars

(***************************************************************************)
(* A tunnel opened again keeps its local port unless somebody else is on   *)
(* it: its own old ssh process is gone when the port is chosen.            *)
(***************************************************************************)
THEOREM ReopensKeepPorts == Spec => ReopenKeepsPort
<1>1. ASSUME IInv, [Next]_vars
      PROVE  \A p \in Procs :
               LET t == Mine(p)
                   others == foreign \cup {m.port : m \in masters \ Of(t)}
               IN  pc[p] = "port" /\ pc'[p] = "ssh" /\ me[p].port = 0 /\ t \notin strayed
                     /\ me[p].known \notin others \cup {0} => me'[p].port = me[p].known
  <2>. SUFFICES ASSUME NEW p \in Procs, pc[p] = "port", pc'[p] = "ssh", me[p].port = 0, Mine(p) \notin strayed,
                       me[p].known \notin foreign \cup {m.port : m \in masters \ Of(Mine(p))} \cup {0}
                PROVE  me'[p].port = me[p].known
    OBVIOUS
  <2>1. Leaves(Mine(p), pc[p], me[p])
    BY <1>1, Here
  <2>2. Of(Mine(p)) = {}
    BY <2>1 DEF Leaves, Emptied
  <2>3. me[p] \in Locals /\ pc \in [Procs -> Labels] /\ me \in [Procs -> Locals]
    BY <1>1, Typed DEF IInv
  <2>4. me[p].known \in Free
    BY <2>2, <2>3 DEF Free, Locals
  <2>5. ChoosePort(p)
    <3>1. Begin(p) \/ BeginCloseAll(p) \/ Step(p) \/ Kill(p)
      BY <1>1, Moves
    <3>2. ~Kill(p)
      BY <2>3 DEF Kill, Goto
    <3>. QED
      BY <3>1, <3>2 DEF Begin, BeginCloseAll, Step, Directive, ReadState, StartSsh, SaveState, WaitReady,
         StopProcess, ReadSaved, CloseMaster, RemoveSocket, RemoveState, NextEntry
  <2>6. Proceed(p, "ssh", [me[p] EXCEPT !.port = me[p].known, !.known = 0])
    <3>1. ~Finish(p)
      BY <2>3 DEF Finish, Goto
    <3>. QED
      BY <2>4, <2>5, <3>1 DEF ChoosePort
  <2>7. Goto(p, "ssh", [me[p] EXCEPT !.port = me[p].known, !.known = 0])
    BY <2>6 DEF Proceed
  <2>. QED
    BY <2>3, <2>7 DEF Goto, Locals
<1>. QED
  BY <1>1, AlwaysIInv, PTL DEF Spec, ReopenKeepsPort

(***************************************************************************)
(* CloseAll ends ssh processes of its own run only, any other command that *)
(* of its own tunnel only, and while it holds the sandbox.                 *)
(***************************************************************************)
THEOREM OthersAreLeftAlone == Spec => OtherTunnelsAreLeftAlone
<1>1. ASSUME IInv, [Next]_vars
      PROVE  \A p \in Procs : pc'[p] # pc[p] =>
               \A m \in masters \ masters' :
                 /\ RunOf[m.of] = me[p].run
                 /\ me[p].cmd # "closeAll" => m.of = Mine(p) /\ agent[me[p].run] = p
  <2>. SUFFICES ASSUME NEW p \in Procs, pc'[p] # pc[p], NEW m \in masters, m \notin masters'
                PROVE  /\ RunOf[m.of] = me[p].run
                       /\ me[p].cmd # "closeAll" => m.of = Mine(p) /\ agent[me[p].run] = p
    OBVIOUS
  <2>1. pc[p] # "idle" /\ ExitMaster(Mine(p))
    <3>1. Begin(p) \/ BeginCloseAll(p) \/ Step(p) \/ Kill(p)
      BY <1>1, Moves
    <3>2. ReadState(p) \/ SaveState(p) \/ CloseMaster(p)
      BY <3>1 DEF Begin, BeginCloseAll, Kill, Step, Directive, ChoosePort, StartSsh, WaitReady,
         StopProcess, ReadSaved, RemoveSocket, RemoveState, NextEntry, tunnel
    <3>. QED
      BY <3>2 DEF ReadState, SaveState, CloseMaster, ExitFails
  <2>2. Fits(p, pc[p], me[p], agent) /\ Mine(p) \in Tunnels
    BY <1>1, <2>1, Here
  <2>3. m.of = Mine(p)
    BY <1>1, <2>1, <2>2 DEF ExitMaster, IInv, MastersOK
  <2>. QED
    BY <2>1, <2>2, <2>3 DEF Fits, Mine
<1>. QED
  BY <1>1, AlwaysIInv, PTL DEF Spec, OtherTunnelsAreLeftAlone
=============================================================================
