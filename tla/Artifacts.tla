----------------------------- MODULE Artifacts -----------------------------
(***************************************************************************)
(* rwx artifacts download (service_artifacts.go): one artifact or all of   *)
(* a task.  The request is repeated while the artifacts are not ready and  *)
(* there is time; all artifacts are fetched concurrently, and written one  *)
(* after the other, each to a directory of its own, once all are here.     *)
(* A name is the sequence of its parts: "a-2" is <<"a", 2>>; a key without *)
(* a usable name is <<>>.                                                  *)
(***************************************************************************)
EXTENDS Naturals, Sequences

CONSTANTS
  Keys,         \* names of the artifacts' keys
  MaxArtifacts  \* of a task

ASSUME ArtifactsAssumption ==
  /\ MaxArtifacts \in Nat
  /\ \A k \in Keys : Len(k) \in Nat /\ k = [i \in 1 .. Len(k) |-> k[i]]

VARIABLES
  wanted,    \* [all: all artifacts or one, keys: the keys the task has]
  at,        \* "request", "dirs", "fetch", "join", "write", "end"
  stored,    \* at the service: "not_ready", "ready", "missing"
  waiting,   \* "running", "over"
  dirs,      \* directory of each artifact
  fetched,   \* artifacts whose bytes are here
  lost,      \* artifacts whose download failed
  files,     \* artifacts written
  ended      \* "", "ok", "not_found", "error"

artifactVars == <<wanted, at, stored, waiting, dirs, fetched, lost, files, ended>>
remote == <<wanted, stored, waiting>>
gotten == <<dirs, fetched, lost, files>>

Batches == UNION {[1 .. n -> Keys] : n \in 0 .. MaxArtifacts}
Items == DOMAIN wanted.keys

ArtifactsInit ==
  /\ wanted \in [all : BOOLEAN, keys : Batches]
  /\ ~wanted.all => Len(wanted.keys) = 1
  /\ at = "request" /\ stored = "not_ready" /\ waiting = "running"
  /\ dirs = <<>> /\ fetched = {} /\ lost = {} /\ files = {} /\ ended = ""

EndAs(result) == at' = "end" /\ ended' = result
MoveTo(next) == at' = next /\ UNCHANGED ended

-----------------------------------------------------------------------------
(* artifactOutputDirs *)

(* safePathComponent with its fallback. *)
BaseName(keys, i) == IF keys[i] = <<>> THEN <<"artifact", i>> ELSE keys[i]
Reserved(keys) == {BaseName(keys, i) : i \in DOMAIN keys}

(* The least suffix from 2 on whose name is free: nobody's base name and not given
   before.  (The code goes on from the last suffix it gave, which skips none that is free.)
   Faulty: base names of later artifacts are not looked at. *)
SuffixOf(base, taken) ==
  CHOOSE n \in 2 .. MaxArtifacts + 2 :
     /\ Append(base, n) \notin taken
     /\ \A k \in 2 .. n - 1 : Append(base, k) \in taken
FreeOfGiven(keys, base, given) == Append(base, SuffixOf(base, given))
FreeName(keys, base, given) == Append(base, SuffixOf(base, given \cup Reserved(keys)))

(* Names are given in order: the first artifact of a base name gets it. *)
WithNext(keys, before, i) ==
  LET given == {before[k] : k \in 1 .. i - 1}
      base == BaseName(keys, i)
  IN  Append(before, IF base \in given THEN FreeName(keys, base, given) ELSE base)
OutputDirs(keys) ==
  LET names[i \in 0 .. Len(keys)] == IF i = 0 THEN <<>> ELSE WithNext(keys, names[i - 1], i)
  IN  names[Len(keys)]

-----------------------------------------------------------------------------
(* The request: it fails, or there is an answer.  An answer "not ready" is the
   last one when the time is over, and asks again otherwise, which changes nothing. *)
Request ==
  /\ at = "request"
  /\ \/ EndAs("error")
     \/ stored = "missing" /\ EndAs("not_found")
     \/ stored = "not_ready" /\ waiting = "over" /\ EndAs("not_found")
     \/ stored = "ready" /\ IF wanted.keys = <<>> THEN EndAs("ok") ELSE MoveTo("dirs")
  /\ UNCHANGED <<remote, gotten>>

(* The directories, one of which may not be creatable; one artifact alone has its
   directory made when it is written. *)
PrepareDirs ==
  /\ at = "dirs"
  /\ \/ dirs' = OutputDirs(wanted.keys) /\ MoveTo("fetch")
     \/ wanted.all /\ EndAs("error") /\ UNCHANGED dirs
  /\ UNCHANGED <<remote, fetched, lost, files>>

(* One goroutine per artifact. *)
Fetch(i) ==
  /\ at = "fetch" /\ i \notin fetched \cup lost
  /\ \/ fetched' = fetched \cup {i} /\ UNCHANGED lost
     \/ lost' = lost \cup {i} /\ UNCHANGED fetched
  /\ UNCHANGED <<remote, at, ended, dirs, files>>

(* wg.Wait and the look at every result.  Faulty: what failed is skipped. *)
JoinFetched ==
  /\ at = "fetch" /\ fetched \cup lost = Items
  /\ MoveTo("write")
  /\ UNCHANGED <<remote, gotten>>
Join ==
  /\ at = "fetch" /\ fetched \cup lost = Items
  /\ IF lost = {} THEN MoveTo("write") ELSE EndAs("error")
  /\ UNCHANGED <<remote, gotten>>

(* The next artifact is extracted or written, or this fails, with a part of its files there. *)
WriteArtifact ==
  /\ at = "write" /\ files # Items
  /\ LET next == CHOOSE i \in Items \ files : \A k \in Items \ files : i <= k
     IN  \/ files' = files \cup {next} /\ UNCHANGED <<at, ended>>
         \/ files' \in {files, files \cup {next}} /\ EndAs("error")
  /\ UNCHANGED <<remote, dirs, fetched, lost>>

Finish ==
  /\ at = "write" /\ files = Items
  /\ EndAs("ok")
  /\ UNCHANGED <<remote, gotten>>

-----------------------------------------------------------------------------
(* The service takes in the task's events; the time for it runs out. *)
EventsArrive ==
  /\ at = "request" /\ stored = "not_ready" /\ stored' \in {"ready", "missing"}
  /\ UNCHANGED <<wanted, at, ended, waiting, gotten>>
WaitIsOver ==
  /\ at = "request" /\ waiting = "running" /\ waiting' = "over"
  /\ UNCHANGED <<wanted, at, ended, stored, gotten>>

ArtifactsNext ==
  \/ Request \/ PrepareDirs \/ (\E i \in Items : Fetch(i)) \/ Join \/ WriteArtifact \/ Finish
  \/ EventsArrive \/ WaitIsOver

ArtifactsSpec == ArtifactsInit /\ [][ArtifactsNext]_artifactVars

-----------------------------------------------------------------------------
(***************************************************************************)
(* Nothing is written before every download has succeeded, and what is     *)
(* written does not mix: artifacts have different directories, and the     *)
(* first artifact of a name has the directory of that name whatever        *)
(* suffixes the others need.  Success means that all artifacts are there,  *)
(* "not found" that the service had none in time.                          *)
(***************************************************************************)
DownloadsAreWhole ==
  /\ files # {} => fetched = Items
  /\ dirs # <<>> => \A i, k \in Items :
       /\ dirs[i] = dirs[k] => i = k
       /\ (\A j \in 1 .. i - 1 : BaseName(wanted.keys, j) # BaseName(wanted.keys, i))
            => dirs[i] = BaseName(wanted.keys, i)
  /\ ended = "ok" => files = Items
  /\ ended = "not_found" => stored = "missing" \/ waiting = "over"
=============================================================================
