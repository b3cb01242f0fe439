--------------------------- MODULE RunDefinition ---------------------------
(***************************************************************************)
(* The commands that rewrite a run definition: rwx run, rwx resolve and    *)
(* rwx packages update (service_run.go, service_resolve_cli_params.go,     *)
(* service_insert_base.go, service_packages.go, yaml.go).  Each adds what  *)
(* is missing: init parameters of the CLI trigger, a base, versions of     *)
(* packages.  The file is read and written as a whole, so that what the    *)
(* user changes between the two is lost.                                   *)
(***************************************************************************)
EXTENDS Naturals, FiniteSets

CONSTANTS
  Params,      \* names of init parameters
  MaxVersion   \* versions of a package are 1 .. MaxVersion, two to a major version

ASSUME MaxVersionAssumption == MaxVersion \in Nat \ {0}

Major(v) == (v + 1) \div 2

(* A package reference: nothing to resolve (an expression, no call) has no name;
   version 0 is none given.  "old" is renamed to "new", "unknown" is not in the index,
   and the newest version is still to be released. *)
NoRef == [name |-> "", version |-> 0]
Refs == {NoRef, [name |-> "unknown", version |-> 0]} \cup [name : {"old", "new"}, version : 0 .. MaxVersion - 1]

(* on: parameters of the triggers and of the git/clone calls of this and other
   repositories that stand for the commit, and those of the CLI trigger. *)
NoOn == [triggers |-> {}, own |-> {}, others |-> {}, cli |-> [p \in Params |-> "none"]]
Ons == [triggers : SUBSET Params, own : SUBSET Params, others : SUBSET Params,
        cli : [Params -> {"none", "sha", "other"}]]

VARIABLES
  definition,  \* the file: kind, base, the package of the base and of a task, on
  task,        \* the command that runs, "" for none
  point,       \* where it is
  doc,         \* what it has read
  index,       \* newest version of every package
  explicit,    \* init parameters given with --init
  patched,     \* the run carries a patch of the uncommitted changes
  uploaded,    \* the definition sent with the run
  before,      \* the file when the command began
  touched,     \* the user changed it meanwhile
  unbased      \* the base could not be written

defVars == <<definition, task, point, doc, index, explicit, patched, uploaded, before, touched, unbased>>
history == <<before, touched, unbased>>

Definitions ==
  [kind : {"run", "noBase", "list"}, base : {"none", "deprecated", "set"},
   config : {NoRef} \cup [name : {"new"}, version : 0 .. MaxVersion - 1], call : Refs, on : {NoOn}]
  \cup [kind : {"noBase"}, base : {"none"}, config : {NoRef}, call : {NoRef}, on : Ons]

RunDefinitionInit ==
  /\ definition \in {d \in Definitions : (d.base # "set" => d.config = NoRef) /\ (d.kind = "list" => d.base = "none")}
  /\ task = "" /\ point = "idle" /\ doc = definition /\ index = MaxVersion - 1
  /\ explicit \in IF definition.on = NoOn THEN {{}} ELSE {{}, Params}
  /\ patched = FALSE /\ uploaded = definition
  /\ before = definition /\ touched = FALSE /\ unbased = FALSE

Stops(d) ==
  /\ task' = "" /\ point' = "idle" /\ definition' = d
  /\ doc' = d /\ before' = d /\ uploaded' = d /\ touched' = FALSE /\ unbased' = FALSE /\ patched' = FALSE
At(next) == point' = next /\ UNCHANGED task

-----------------------------------------------------------------------------
(* resolveCliParams *)

ShaParams(on) == {p \in Params : on.cli[p] = "sha"}
CloneParams(on) == IF on.own # {} THEN on.own ELSE on.others
Conflict(on) ==
  ShaParams(on) = {} /\ (Cardinality(on.triggers) > 1 \/ Cardinality(CloneParams(on)) > 1)
GitParams(on) == IF ShaParams(on) # {} THEN ShaParams(on) ELSE on.triggers \cup CloneParams(on)
(* What the CLI trigger has is not overwritten. *)
ResolvedCli(on) ==
  [p \in Params |-> IF ShaParams(on) = {} /\ p \in GitParams(on) /\ on.cli[p] = "none" THEN "sha" ELSE on.cli[p]]

(* rwx run begins with it; a conflict ends it here.  The file is read and written at
   once.  A patch is made unless the commit is given explicitly. *)
ResolveCliParams ==
  /\ task = "" /\ definition.kind # "list"
  /\ ~Conflict(definition.on)
  /\ task' = "run" /\ point' = "base"
  /\ definition' = [definition EXCEPT !.on.cli = ResolvedCli(definition.on)]
  /\ patched' = (explicit \cap GitParams(definition.on) = {})
  /\ uploaded' = definition'
  /\ before' = definition /\ touched' = FALSE /\ unbased' = FALSE
  /\ UNCHANGED <<doc, index, explicit>>

Begin(command, first) ==
  /\ task = "" /\ task' = command /\ point' = first
  /\ before' = definition /\ touched' = FALSE /\ unbased' = FALSE
  /\ UNCHANGED <<definition, doc, index, explicit, patched, uploaded>>
BeginResolve == Begin("resolve", "base")
BeginUpdate == \E command \in {"update", "updateMajor"} : Begin(command, "packages")

-----------------------------------------------------------------------------
(* insertOrUpdateBase: a base where there can be one and is none, and outside of
   run a deprecated one replaced.  The file is read again after the call. *)
InsertsBase(d) == d.kind = "run" /\ d.base = "none"
UpdatesBase(d) == task = "resolve" /\ d.base = "deprecated" /\ d.kind # "list"
NeedsBase(d) == InsertsBase(d) \/ UpdatesBase(d)
DefaultBase == [name |-> "new", version |-> index]

SkipBase ==
  /\ point = "base" /\ ~NeedsBase(definition)
  /\ At("packages")
  /\ UNCHANGED <<definition, doc, index, explicit, patched, uploaded, history>>
NeedBase ==
  /\ point = "base" /\ NeedsBase(definition)
  /\ At("writeBase")
  /\ UNCHANGED <<definition, doc, index, explicit, patched, uploaded, history>>
(* A write that fails is reported and passed over. *)
WriteBase ==
  /\ point = "writeBase" /\ At("packages")
  /\ \/ /\ definition' = [definition EXCEPT !.base = "set", !.config = DefaultBase]
        /\ uploaded' = IF task = "run" THEN definition' ELSE uploaded
        /\ UNCHANGED unbased
     \/ unbased' = TRUE /\ UNCHANGED <<definition, uploaded>>
  /\ UNCHANGED <<doc, index, explicit, patched, before, touched>>

-----------------------------------------------------------------------------
(* resolveOrUpdatePackagesForFiles *)

(* packageReferenceNeedsResolution.  Faulty: a reference with a version is resolved again. *)
AnyReference(ref, update) == ref.name # ""
NeedsResolution(ref, update) == ref.name # "" /\ (update \/ ref.version = 0)

(* PickLatestMajorVersion, PickLatestMinorVersion; 0 where there is none. *)
LatestMinor(v) == LET same == {w \in 1 .. index : Major(w) = Major(v)} IN
                  IF same = {} THEN 0 ELSE CHOOSE w \in same : \A u \in same : u <= w
Pick(v) == IF task = "update" /\ v # 0 THEN LatestMinor(v) ELSE index
Updates == task \in {"update", "updateMajor"}

ResolvedRef(ref) ==
  IF ~NeedsResolution(ref, Updates) \/ ref.name = "unknown" \/ Pick(ref.version) = 0 THEN ref
  ELSE [name |-> "new", version |-> Pick(ref.version)]
ResolvedPackages(d) ==
  [d EXCEPT !.call = ResolvedRef(@), !.config = IF d.kind = "list" THEN @ ELSE ResolvedRef(@)]

(* The file is parsed, then the index is asked for, unless no reference needs it. *)
ParsePackages ==
  /\ point = "packages" /\ doc' = definition
  /\ At(IF NeedsResolution(definition.call, Updates) \/ NeedsResolution(definition.config, Updates)
        THEN "writePackages" ELSE "finish")
  /\ UNCHANGED <<definition, index, explicit, patched, uploaded, history>>
(* The document that was parsed is written, if it changed, and read again for the
   upload.  Faulty: it is not. *)
WriteWithoutReload ==
  /\ point = "writePackages" /\ At("finish")
  /\ definition' = IF ResolvedPackages(doc) = doc THEN definition ELSE ResolvedPackages(doc)
  /\ UNCHANGED <<doc, index, explicit, patched, uploaded, history>>
WritePackages ==
  /\ point = "writePackages" /\ At("finish")
  /\ definition' = IF ResolvedPackages(doc) = doc THEN definition ELSE ResolvedPackages(doc)
  /\ uploaded' = IF task = "run" /\ ResolvedPackages(doc) # doc THEN definition' ELSE uploaded
  /\ UNCHANGED <<doc, index, explicit, patched, history>>

Finished ==
  /\ point = "finish" /\ At("done")
  /\ UNCHANGED <<definition, doc, index, explicit, patched, uploaded, history>>
Leave ==
  /\ point = "done" /\ Stops(definition)
  /\ UNCHANGED <<index, explicit>>
(* Any call to the API, a read or the last write may fail. *)
CommandFails ==
  /\ task # "" /\ Stops(definition)
  /\ UNCHANGED <<index, explicit>>

-----------------------------------------------------------------------------
(* Bounds: once while a command runs, and in files of one kind. *)
UserEdits ==
  /\ task # "" /\ ~touched /\ definition.kind = "run"
  /\ \E r \in {NoRef, [name |-> "new", version |-> 0]} :
       definition' = [definition EXCEPT !.call = r]
  /\ touched' = TRUE
  /\ UNCHANGED <<task, point, doc, index, explicit, patched, uploaded, before, unbased>>
(* A package is released between commands. *)
Release ==
  /\ task = "" /\ index < MaxVersion /\ index' = index + 1
  /\ UNCHANGED <<definition, task, point, doc, explicit, patched, uploaded, history>>

RunDefinitionNext ==
  \/ ResolveCliParams \/ BeginResolve \/ BeginUpdate
  \/ SkipBase \/ NeedBase \/ WriteBase \/ ParsePackages \/ WritePackages
  \/ Finished \/ Leave \/ CommandFails \/ UserEdits \/ Release

RunDefinitionSpec == RunDefinitionInit /\ [][RunDefinitionNext]_defVars

-----------------------------------------------------------------------------
(***************************************************************************)
(* A command that nobody interfered with leaves a definition it would not  *)
(* change again: every package it can resolve is, the CLI trigger names    *)
(* the commit if anything does, and run and resolve leave no base missing  *)
(* (resolve no deprecated one) unless it could not be written, which they  *)
(* pass over.  run and resolve keep the versions that were given, update   *)
(* keeps their major version.  What a run sends is what the file holds,    *)
(* and it sends no patch against an explicit commit.                       *)
(***************************************************************************)
Kept(old, new) ==
  old.version # 0 =>
    CASE task \in {"run", "resolve"} -> new = old
      [] task = "update" -> Major(new.version) = Major(old.version)
      [] OTHER -> new.version >= old.version
DefinitionSettles ==
  point = "done" =>
    /\ ~touched =>
         /\ ResolvedPackages(definition) = definition
         /\ task \in {"run", "resolve"} /\ ~unbased => ~NeedsBase(definition)
         /\ Kept(before.call, definition.call)
         /\ before.base = "set" => Kept(before.config, definition.config)
    /\ task = "run" =>
         /\ ~touched => uploaded = definition
         /\ ResolvedCli(definition.on) = definition.on.cli
         /\ \A p \in Params : before.on.cli[p] # "none" => definition.on.cli[p] = before.on.cli[p]
         /\ patched => explicit \cap ShaParams(definition.on) = {}
=============================================================================
