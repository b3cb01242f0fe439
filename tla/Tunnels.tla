------------------------------ MODULE Tunnels ------------------------------
(***************************************************************************)
(* Background processes of a sandbox and the SSH tunnels that forward      *)
(* local ports to them (internal/ssh/tunnel.go and the background commands *)
(* of internal/cli/service_sandbox.go).  A tunnel belongs to one run and   *)
(* one key.  It is an ssh master process that outlives the command which   *)
(* opened it; all that later commands know of it is a control socket, at a *)
(* path computed from run and key, and a state file.  Commands on one run  *)
(* are serialised by the lock of the sandbox's agent, except CloseAll,     *)
(* which stop, reset, list and exec call without it, for a run that was    *)
(* told to stop, has ended, or whose connection could not be asked for.    *)
(***************************************************************************)
EXTENDS Naturals

CONSTANTS
  Procs,        \* rwx processes on this machine
  Tunnels,      \* run and key of a background process
  RunOf,        \* [Tunnels -> run]
  Ports,        \* local TCP ports
  None,         \* no process
  MaxCommands,  \* bound: commands ever begun
  MaxMasters,   \* bound: ssh processes ever started
  MaxFaults,    \* bound: rwx processes killed, ssh processes that lose their connection
  MaxForeign    \* bound: times other programs take or leave a port

ASSUME TunnelsAssumption == Tunnels # {} /\ None \notin Procs /\ 0 \notin Ports
ASSUME BoundsAssumption == {MaxCommands, MaxMasters, MaxFaults, MaxForeign} \subseteq Nat

VARIABLES
  ended,      \* the runs that are over
  agent,      \* of a run: the process holding the sandbox's lock
  running,    \* the background processes that run
  masters,    \* live ssh masters
  socket,     \* of a tunnel: the master bound to its control socket, 0 no file
  dirs,       \* tunnels whose state directory exists
  saved,      \* of a tunnel: the local port in state.json, 0 no file
  strayed,    \* tunnels whose ssh may have got out of reach: a kill, a failed close
              \* or read, or a CloseAll beside a command that opens
  foreign,    \* ports other programs listen on
  pc, me,     \* control and locals of each process
  count       \* what the bounds count

tunnel == <<masters, socket, dirs, saved, strayed>>
world == <<ended, agent, running, foreign, count>>
vars == <<ended, agent, running, masters, socket, dirs, saved, strayed, foreign, pc, me, count>>

Runs == {RunOf[t] : t \in Tunnels}
Master == [id : 1 .. MaxMasters, of : Tunnels, port : Ports]
Idle == LET t == CHOOSE t \in Tunnels : TRUE
        IN  [cmd |-> "", t |-> t, run |-> RunOf[t], port |-> 0, known |-> 0, todo |-> {}, failed |-> FALSE]

TypeOK ==
  /\ ended \subseteq Runs /\ strayed \subseteq Tunnels
  /\ agent \in [Runs -> Procs \cup {None}]
  /\ running \subseteq Tunnels
  /\ masters \subseteq Master
  /\ socket \in [Tunnels -> 0 .. MaxMasters]
  /\ dirs \subseteq Tunnels
  /\ saved \in [Tunnels -> Ports \cup {0}]
  /\ foreign \subseteq Ports
  /\ pc \in [Procs -> {"idle", "directive", "read", "port", "ssh", "save", "ready",
                       "close", "exit", "socket", "state", "process", "entries"}]
  /\ me \in [Procs -> [cmd : {"", "start", "startPort", "tunnel", "stop", "closeAll"}, t : Tunnels, run : Runs,
                       port : Ports \cup {0}, known : Ports \cup {0}, todo : SUBSET Tunnels, failed : BOOLEAN]]
  /\ count \in [commands : 0 .. MaxCommands, masters : 0 .. MaxMasters, faults : 0 .. MaxFaults,
               foreign : 0 .. MaxForeign]

Init ==
  /\ agent = [r \in Runs |-> None]
  /\ ended = {} /\ running = {} /\ masters = {} /\ dirs = {} /\ strayed = {} /\ foreign = {}
  /\ socket = [t \in Tunnels |-> 0]
  /\ saved = [t \in Tunnels |-> 0]
  /\ pc = [p \in Procs |-> "idle"]
  /\ me = [p \in Procs |-> Idle]
  /\ count = [commands |-> 0, masters |-> 0, faults |-> 0, foreign |-> 0]

Goto(p, l, loc) == pc' = [pc EXCEPT ![p] = l] /\ me' = [me EXCEPT ![p] = loc]
Released(p) == [r \in Runs |-> IF agent[r] = p THEN None ELSE agent[r]]
Mine(p) == me[p].t
Free == Ports \ (foreign \cup {m.port : m \in masters})
Of(t) == {m \in masters : m.of = t}
Opens(p) == pc[p] # "idle" /\ me[p].cmd \in {"startPort", "tunnel"}
ClosesAll(p, r) == pc[p] # "idle" /\ me[p].cmd = "closeAll" /\ me[p].run = r

(* The command ends, releasing the sandbox; an error is only a message. *)
Finish(p) ==
  /\ Goto(p, "idle", Idle)
  /\ agent' = Released(p)
  /\ UNCHANGED <<ended, running, foreign, count>>

Proceed(p, l, loc) == Goto(p, l, loc) /\ UNCHANGED world

-----------------------------------------------------------------------------
(* ssh. *)

(***************************************************************************)
(* ssh -O exit: the master at the socket ends and removes it; without the  *)
(* file closeControlMaster reports success.  The call may fail, and does   *)
(* so at a socket that a killed ssh left.                                  *)
(***************************************************************************)
ExitMaster(t) ==
  /\ socket[t] = 0 \/ \E m \in masters : m.id = socket[t]
  /\ masters' = {m \in masters : m.id # socket[t]}
  /\ socket' = [socket EXCEPT ![t] = 0]
ExitFails(t) == socket[t] # 0 /\ UNCHANGED <<masters, socket>>

(* Run ended or connection lost: the master exits and removes its socket, unless
   it is killed. *)
SshEnds(m) ==
  /\ IF RunOf[m.of] \in ended
       THEN UNCHANGED count
       ELSE count.faults < MaxFaults /\ count' = [count EXCEPT !.faults = @ + 1]
  /\ masters' = masters \ {m}
  /\ socket' \in {socket, [socket EXCEPT ![m.of] = IF @ = m.id THEN 0 ELSE @]}
  /\ UNCHANGED <<ended, agent, running, foreign, dirs, saved, strayed, pc, me>>

-----------------------------------------------------------------------------
(* The commands, from the moment the agent grants the sandbox's lock. *)

(* background with or without --port, restart of either, tunnel, stop. *)
Begin(p) ==
  /\ pc[p] = "idle" /\ count.commands < MaxCommands
  /\ count' = [count EXCEPT !.commands = @ + 1]
  /\ \E t \in Tunnels, cmd \in {"start", "startPort", "tunnel", "stop"}, port \in Ports \cup {0} :
       /\ port # 0 => cmd \in {"startPort", "tunnel"}
       /\ RunOf[t] \notin ended /\ agent[RunOf[t]] = None
       /\ agent' = [agent EXCEPT ![RunOf[t]] = p]
       /\ Goto(p, IF cmd = "stop" THEN "close" ELSE "directive",
               [Idle EXCEPT !.cmd = cmd, !.t = t, !.run = RunOf[t], !.port = port])
       /\ strayed' = IF cmd \in {"startPort", "tunnel"} /\ \E q \in Procs : ClosesAll(q, RunOf[t])
                       THEN strayed \cup {t} ELSE strayed
  /\ UNCHANGED <<ended, running, foreign, masters, socket, dirs, saved>>

(* process start, restart or status: fails when the sandbox is gone. *)
Directive(p) ==
  /\ pc[p] = "directive"
  /\ \/ /\ me[p].run \notin ended
        /\ me[p].cmd = "tunnel" => Mine(p) \in running
        /\ running' = running \cup {Mine(p)}
        /\ Goto(p, IF me[p].cmd = "start" THEN "close" ELSE "read", me[p])
        /\ UNCHANGED <<ended, agent, foreign, count>>
     \/ Finish(p)
  /\ UNCHANGED tunnel

(***************************************************************************)
(* Open reads the state file and first closes the tunnel it names, or ends *)
(* with an error where it cannot.  A file that cannot be read is passed    *)
(* over.  Faulty: the tunnel is not closed.                                *)
(***************************************************************************)
ReopenOver(p) ==
  /\ pc[p] = "read"
  /\ dirs' = dirs \cup {Mine(p)}
  /\ Proceed(p, "port", [me[p] EXCEPT !.known = saved[Mine(p)]])
  /\ UNCHANGED <<masters, socket, saved, strayed>>
ReadState(p) ==
  /\ pc[p] = "read"
  /\ dirs' = dirs \cup {Mine(p)}
  /\ \/ /\ IF saved[Mine(p)] = 0 THEN UNCHANGED <<masters, socket>> ELSE ExitMaster(Mine(p))
        /\ Proceed(p, "port", [me[p] EXCEPT !.known = saved[Mine(p)]])
        /\ UNCHANGED strayed
     \/ saved[Mine(p)] # 0 /\ ExitFails(Mine(p)) /\ Finish(p) /\ UNCHANGED strayed
     \/ /\ saved[Mine(p)] # 0
        /\ strayed' = strayed \cup {Mine(p)}
        /\ Proceed(p, "port", me[p])
        /\ UNCHANGED <<masters, socket>>
  /\ UNCHANGED saved

(***************************************************************************)
(* The port asked for, else the one of the previous tunnel if nobody       *)
(* listens on it, else one the system allocates; probes close again before *)
(* ssh binds.  A socket file left at the path is removed.  Faulty: always  *)
(* a newly allocated port.                                                 *)
(***************************************************************************)
FreshPort(p) ==
  /\ pc[p] = "port"
  /\ \E port \in IF me[p].port # 0 THEN {me[p].port} ELSE Free :
       Proceed(p, "ssh", [me[p] EXCEPT !.port = port, !.known = 0])
  /\ socket' = [socket EXCEPT ![Mine(p)] = 0]
  /\ UNCHANGED <<masters, dirs, saved, strayed>>
ChoosePort(p) ==
  /\ pc[p] = "port"
  /\ LET choices == IF me[p].port # 0 THEN {me[p].port}
                    ELSE IF me[p].known \in Free THEN {me[p].known} ELSE Free
     IN  \/ \E port \in choices : Proceed(p, "ssh", [me[p] EXCEPT !.port = port, !.known = 0])
         \/ choices = {} /\ Finish(p)
  /\ socket' = [socket EXCEPT ![Mine(p)] = 0]
  /\ UNCHANGED <<masters, dirs, saved, strayed>>

(* ssh -f -N -M with ExitOnForwardFailure returns once it forwards. *)
StartSsh(p) ==
  /\ pc[p] = "ssh"
  /\ \/ /\ me[p].run \notin ended /\ me[p].port \in Free /\ count.masters < MaxMasters
        /\ LET id == count.masters + 1
           IN  /\ masters' = masters \cup {[id |-> id, of |-> Mine(p), port |-> me[p].port]}
               /\ socket' = [socket EXCEPT ![Mine(p)] = id]
               /\ count' = [count EXCEPT !.masters = id]
        /\ Goto(p, "save", me[p])
        /\ UNCHANGED <<ended, agent, running, foreign>>
     \/ Finish(p) /\ UNCHANGED <<masters, socket>>
  /\ UNCHANGED <<dirs, saved, strayed>>

(* Writing state.json may fail, and may leave a file that cannot be decoded; then
   ssh is told to exit, which may fail too. *)
SaveState(p) ==
  /\ pc[p] = "save"
  /\ \/ /\ Mine(p) \in dirs
        /\ saved' = [saved EXCEPT ![Mine(p)] = me[p].port]
        /\ Proceed(p, "ready", [me[p] EXCEPT !.port = 0])
        /\ UNCHANGED <<masters, socket, strayed>>
     \/ /\ saved' \in {saved, [saved EXCEPT ![Mine(p)] = 0]}
        /\ Finish(p)
        /\ \/ ExitMaster(Mine(p)) /\ UNCHANGED strayed
           \/ ExitFails(Mine(p)) /\ strayed' = strayed \cup {Mine(p)}
  /\ UNCHANGED dirs

(***************************************************************************)
(* The readiness loop: ready, an error of the agent or the deadline, after *)
(* which process and tunnel stay; a process that stopped takes its tunnel  *)
(* along, unless the command is tunnel, which does not ask for its status. *)
(***************************************************************************)
WaitReady(p) ==
  /\ pc[p] = "ready"
  /\ \/ Finish(p)
     \/ /\ me[p].cmd = "startPort" /\ Mine(p) \notin running
        /\ Proceed(p, "close", me[p])
  /\ UNCHANGED tunnel

(* stop: the tunnel first, then the process, whatever came of the tunnel. *)
StopProcess(p) ==
  /\ pc[p] = "process"
  /\ running' \in {running, running \ {Mine(p)}}
  /\ Goto(p, "idle", Idle)
  /\ agent' = Released(p)
  /\ UNCHANGED <<ended, foreign, count, tunnel>>

-----------------------------------------------------------------------------
(* Close, called by the commands and for each entry of CloseAll; an error  *)
(* leaves what has not been removed.  Faulty: ssh is not told to exit.     *)

CloseReturns(p, failed) ==
  CASE me[p].cmd = "closeAll" -> Proceed(p, "entries", me[p])
    [] me[p].cmd = "stop" -> Proceed(p, "process", [me[p] EXCEPT !.failed = failed])
    [] OTHER -> Finish(p)

ReadSaved(p) ==
  /\ pc[p] = "close"
  /\ \/ IF saved[Mine(p)] = 0 THEN CloseReturns(p, FALSE) ELSE Proceed(p, "exit", me[p])
     \/ CloseReturns(p, TRUE)
  /\ UNCHANGED tunnel

ForgetMaster(p) ==
  pc[p] = "exit" /\ Proceed(p, "socket", me[p]) /\ UNCHANGED tunnel
CloseMaster(p) ==
  /\ pc[p] = "exit"
  /\ \/ ExitMaster(Mine(p)) /\ Proceed(p, "socket", me[p])
     \/ ExitFails(Mine(p)) /\ CloseReturns(p, TRUE)
  /\ UNCHANGED <<dirs, saved, strayed>>

RemoveSocket(p) ==
  /\ pc[p] = "socket"
  /\ \/ socket' = [socket EXCEPT ![Mine(p)] = 0] /\ Proceed(p, "state", me[p])
     \/ socket[Mine(p)] # 0 /\ CloseReturns(p, TRUE) /\ UNCHANGED socket
  /\ UNCHANGED <<masters, dirs, saved, strayed>>

RemoveState(p) ==
  /\ pc[p] = "state"
  /\ \/ /\ saved' = [saved EXCEPT ![Mine(p)] = 0]
        /\ dirs' = dirs \ {Mine(p)}
        /\ CloseReturns(p, FALSE)
     \/ saved[Mine(p)] # 0 /\ CloseReturns(p, TRUE) /\ UNCHANGED <<dirs, saved>>
  /\ UNCHANGED <<masters, socket, strayed>>

(* closeSandboxTunnels, by commands that do not hold the sandbox; the run may go on. *)
BeginCloseAll(p) ==
  /\ pc[p] = "idle" /\ count.commands < MaxCommands
  /\ count' = [count EXCEPT !.commands = @ + 1]
  /\ \E t \in Tunnels :
       /\ Goto(p, "entries", [Idle EXCEPT !.cmd = "closeAll", !.t = t, !.run = RunOf[t], !.todo = dirs])
       /\ strayed' = strayed \cup {Mine(q) : q \in {o \in Procs : Opens(o) /\ me[o].run = RunOf[t]}}
  /\ UNCHANGED <<ended, agent, running, foreign, masters, socket, dirs, saved>>

(* Entries of the directory; failed reads and other runs' states are passed over.
   Faulty: the states of all runs are taken. *)
EveryEntry(p, t) == saved[t] # 0
OfRun(p, t) == saved[t] # 0 /\ RunOf[t] = me[p].run
NextEntry(p) ==
  /\ pc[p] = "entries"
  /\ \/ \E t \in me[p].todo :
          LET loc == [me[p] EXCEPT !.todo = @ \ {t}]
          IN  IF OfRun(p, t) THEN Proceed(p, "close", [loc EXCEPT !.t = t])
                             ELSE Proceed(p, "entries", loc)
     \/ me[p].todo = {} /\ Finish(p)
  /\ UNCHANGED tunnel

-----------------------------------------------------------------------------
(* What happens around the commands. *)

RunEnds(r) ==
  /\ r \notin ended
  /\ ended' = ended \cup {r}
  /\ running' = {t \in running : RunOf[t] # r}
  /\ UNCHANGED <<agent, foreign, count, tunnel, pc, me>>

PreviewStops(t) ==
  /\ t \in running
  /\ running' = running \ {t}
  /\ UNCHANGED <<ended, agent, foreign, count, tunnel, pc, me>>

OtherProgram(port) ==
  /\ foreign' \in {foreign \ {port}, foreign \cup (Free \cap {port})}
  /\ foreign' # foreign /\ count.foreign < MaxForeign
  /\ count' = [count EXCEPT !.foreign = @ + 1]
  /\ UNCHANGED <<ended, agent, running, tunnel, pc, me>>

(* The agent releases the lock of a connection that is gone. *)
Kill(p) ==
  /\ pc[p] # "idle" /\ count.faults < MaxFaults
  /\ Goto(p, "idle", Idle)
  /\ agent' = Released(p)
  /\ count' = [count EXCEPT !.faults = @ + 1]
  /\ strayed' = IF pc[p] = "save" THEN strayed \cup {Mine(p)} ELSE strayed
  /\ UNCHANGED <<ended, running, foreign, masters, socket, dirs, saved>>

Step(p) ==
  \/ Directive(p) \/ ReadState(p) \/ ChoosePort(p) \/ StartSsh(p) \/ SaveState(p) \/ WaitReady(p)
  \/ StopProcess(p) \/ ReadSaved(p) \/ CloseMaster(p) \/ RemoveSocket(p) \/ RemoveState(p) \/ NextEntry(p)

Next ==
  \/ \E p \in Procs : Begin(p) \/ BeginCloseAll(p) \/ Step(p) \/ Kill(p)
  \/ \E m \in masters : SshEnds(m)
  \/ \E r \in Runs : RunEnds(r)
  \/ \E t \in Tunnels : PreviewStops(t)
  \/ \E port \in Ports : OtherProgram(port)

Spec == Init /\ [][Next]_vars

-----------------------------------------------------------------------------
Opening(t) == \E p \in Procs : Mine(p) = t /\ pc[p] = "save"

(***************************************************************************)
(* A tunnel has at most one ssh process, and one that is up can be found   *)
(* again: state.json holds its port and the control socket leads to it,    *)
(* whatever else fails, stops half-way or is killed.  What may break this  *)
(* is named by strayed: a kill, or a failed close, between the start of    *)
(* ssh and the save; a state file that Open cannot read; a CloseAll of a   *)
(* run beside a command that opens a tunnel of it.                         *)
(***************************************************************************)
EveryTunnelIsTracked ==
  \A t \in Tunnels \ strayed :
    /\ \A m, n \in Of(t) : m = n
    /\ ~Opening(t) => \A m \in Of(t) : saved[t] = m.port /\ socket[t] = m.id

(***************************************************************************)
(* A stop that is told its tunnel is closed leaves no ssh process and no   *)
(* state file behind for the process it stops next.                        *)
(***************************************************************************)
StoppedMeansClosed ==
  \A p \in Procs : pc[p] = "process" /\ ~me[p].failed /\ Mine(p) \notin strayed =>
                      Of(Mine(p)) = {} /\ saved[Mine(p)] = 0

(***************************************************************************)
(* A tunnel that is opened again without --local-port keeps its URL unless *)
(* somebody else listens on its port by then.                              *)
(***************************************************************************)
ReopenKeepsPort ==
  [][\A p \in Procs :
       LET t == Mine(p)
           others == foreign \cup {m.port : m \in masters \ Of(t)}
       IN  pc[p] = "port" /\ pc'[p] = "ssh" /\ me[p].port = 0 /\ t \notin strayed
             /\ me[p].known \notin others \cup {0} => me'[p].port = me[p].known]_vars

(***************************************************************************)
(* A command ends ssh processes of the run it is about only: CloseAll      *)
(* passes over the entries of other runs in the directory they share, and  *)
(* any other command ends the ssh of its own tunnel, holding the sandbox.  *)
(***************************************************************************)
OtherTunnelsAreLeftAlone ==
  [][\A p \in Procs : pc'[p] # pc[p] =>
       \A m \in masters \ masters' :
         /\ RunOf[m.of] = me[p].run
         /\ me[p].cmd # "closeAll" => m.of = Mine(p) /\ agent[me[p].run] = p]_vars
=============================================================================
