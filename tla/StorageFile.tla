---------------------------- MODULE StorageFile ----------------------------
(***************************************************************************)
(* How sandboxes.json is written and read (SaveWithMetrics and             *)
(* LoadSandboxStorage, internal/cli/sandbox_storage.go): a temporary file  *)
(* is written, synced and renamed over the old one.  Savers hold the       *)
(* storage lock or, where it could not be had, do not; readers never do.   *)
(* Any process can be killed between two steps and the machine can lose    *)
(* its power, which keeps of each file what was synced, and of the         *)
(* directory, which is not synced, the old entry or the new one.           *)
(***************************************************************************)
EXTENDS Naturals, FiniteSets

CONSTANTS
  Savers, Readers,
  Values,      \* what a save can write
  Nothing,     \* no file
  Partial,     \* an empty file or a part of a value
  MaxFiles,    \* bound: temporary files ever created
  MaxCrashes   \* bound: kills and power losses

ASSUME StorageFileAssumption == Nothing # Partial /\ {Nothing, Partial} \cap Values = {}
ASSUME BoundsAssumption == MaxFiles \in Nat /\ MaxCrashes \in Nat
ASSUME SaversAssumption == IsFiniteSet(Savers)

VARIABLES
  entry, entryOnDisk,   \* the file at the path, 0 for none: seen by processes, surviving
  file,                 \* of a file: its contents and those that survive
  temps,                \* files under a temporary name
  saver, reader,        \* control and locals of each process
  created, crashes,     \* what the bounds count
  written               \* values saves have put in place (of the promise, not the code)

disk == <<entry, entryOnDisk, file, temps, created>>
sfVars == <<entry, entryOnDisk, file, temps, saver, reader, created, crashes, written>>

Files == 1 .. MaxFiles
Contents(f) == IF f = 0 THEN Nothing ELSE file[f].contents
Resting == [at |-> "rest", file |-> 0, value |-> Nothing]

StorageFileTypeOK ==
  /\ {entry, entryOnDisk} \subseteq 0 .. MaxFiles
  /\ file \in [Files -> [contents : Values \cup {Partial}, synced : Values \cup {Partial}]]
  /\ temps \subseteq Files
  /\ saver \in [Savers -> [at : {"rest", "encode", "sync", "rename", "remove"},
                           file : 0 .. MaxFiles, value : Values \cup {Nothing}]]
  /\ reader \in [Readers -> [open : 0 .. MaxFiles, seen : Values \cup {Nothing, Partial}]]
  /\ created \in 0 .. MaxFiles /\ crashes \in 0 .. MaxCrashes
  /\ written \subseteq Values \cup {Nothing}

StorageFileInit ==
  /\ entry = 0 /\ entryOnDisk = 0
  /\ file = [f \in Files |-> [contents |-> Partial, synced |-> Partial]]
  /\ temps = {}
  /\ saver = [s \in Savers |-> Resting]
  /\ reader = [r \in Readers |-> [open |-> 0, seen |-> Nothing]]
  /\ created = 0 /\ crashes = 0
  /\ written = {Nothing}

Step(s, from, to) == saver[s].at = from /\ saver' = [saver EXCEPT ![s].at = to]
NoCrash == UNCHANGED <<reader, crashes>>

(* os.CreateTemp *)
CreateTemp(s) ==
  /\ saver[s].at = "rest" /\ created < MaxFiles
  /\ created' = created + 1
  /\ temps' = temps \cup {created'}
  /\ \E v \in Values : saver' = [saver EXCEPT ![s] = [at |-> "encode", file |-> created', value |-> v]]
  /\ UNCHANGED <<entry, entryOnDisk, file, written>> /\ NoCrash

(* encoder.Encode; where it fails the temporary file holds a part.
   Faulty: the file is removed only where the save succeeds. *)
EncodeOrGiveUp(s) ==
  /\ \/ Step(s, "encode", "sync") /\ file' = [file EXCEPT ![saver[s].file].contents = saver[s].value]
     \/ Step(s, "encode", "rest") /\ UNCHANGED file
  /\ UNCHANGED <<entry, entryOnDisk, temps, created, written>> /\ NoCrash
Encode(s) ==
  /\ \/ Step(s, "encode", "sync") /\ file' = [file EXCEPT ![saver[s].file].contents = saver[s].value]
     \/ Step(s, "encode", "remove") /\ UNCHANGED file
  /\ UNCHANGED <<entry, entryOnDisk, temps, created, written>> /\ NoCrash

(* fd.Sync and fd.Close.  Faulty: only closed. *)
CloseOnly(s) ==
  Step(s, "sync", "rename") /\ UNCHANGED <<disk, written>> /\ NoCrash
Sync(s) ==
  /\ \/ Step(s, "sync", "rename") /\ file' = [file EXCEPT ![saver[s].file].synced = file[saver[s].file].contents]
     \/ Step(s, "sync", "remove") /\ UNCHANGED file
  /\ UNCHANGED <<entry, entryOnDisk, temps, created, written>> /\ NoCrash

(* os.Rename: the new name may reach the disk now or later. *)
Rename(s) ==
  /\ \/ /\ Step(s, "rename", "remove")
        /\ entry' = saver[s].file
        /\ entryOnDisk' \in {entryOnDisk, entry'}
        /\ temps' = temps \ {saver[s].file}
        /\ written' = written \cup {saver[s].value}
     \/ Step(s, "rename", "remove") /\ UNCHANGED <<entry, entryOnDisk, temps, written>>
  /\ UNCHANGED <<file, created>> /\ NoCrash

(* The deferred os.Remove: of the temporary name, gone after a rename. *)
RemoveTemp(s) ==
  /\ saver[s].at = "remove"
  /\ temps' = temps \ {saver[s].file}
  /\ saver' = [saver EXCEPT ![s] = Resting]
  /\ UNCHANGED <<entry, entryOnDisk, file, created, written>> /\ NoCrash

(* os.Open, then decoding what the file opened holds. *)
Open(r) ==
  /\ reader' = [reader EXCEPT ![r] = [open |-> entry, seen |-> Contents(entry)]]
  /\ UNCHANGED <<disk, saver, crashes, written>>
Decode(r) ==
  /\ reader[r].open # 0
  /\ reader' = [reader EXCEPT ![r] = [open |-> 0, seen |-> Contents(reader[r].open)]]
  /\ UNCHANGED <<disk, saver, crashes, written>>

KillSaver(s) ==
  /\ saver[s].at # "rest" /\ crashes < MaxCrashes
  /\ saver' = [saver EXCEPT ![s] = Resting]
  /\ crashes' = crashes + 1
  /\ UNCHANGED <<disk, reader, written>>

PowerLoss ==
  /\ crashes < MaxCrashes /\ crashes' = crashes + 1
  /\ entry' = entryOnDisk /\ UNCHANGED entryOnDisk
  /\ \E kept \in SUBSET Files :
       file' = [f \in Files |-> IF f \in kept THEN file[f] ELSE [file[f] EXCEPT !.contents = file[f].synced]]
  /\ saver' = [s \in Savers |-> Resting]
  /\ reader' = [r \in Readers |-> [open |-> 0, seen |-> Nothing]]
  /\ UNCHANGED <<temps, created, written>>

StorageFileNext ==
  \/ \E s \in Savers : CreateTemp(s) \/ Encode(s) \/ Sync(s) \/ Rename(s) \/ RemoveTemp(s) \/ KillSaver(s)
  \/ \E r \in Readers : Open(r) \/ Decode(r)
  \/ PowerLoss

StorageFileSpec == StorageFileInit /\ [][StorageFileNext]_sfVars

-----------------------------------------------------------------------------
(***************************************************************************)
(* The file is an atomic register: what a reader decodes is the value in   *)
(* place when it opened the file, and after a crash it is still a whole    *)
(* value of some save.                                                     *)
(***************************************************************************)
Register == INSTANCE AtomicFile WITH
  value <- Contents(entry),
  seen <- [r \in Readers |-> reader[r].seen]

SavesAreAtomic == Register!Spec

(***************************************************************************)
(* A temporary file is the work of a save in progress, unless a crash cut  *)
(* one short: failed saves leave none behind.                              *)
(***************************************************************************)
TempsAreRemoved ==
  Cardinality(temps \ {saver[s].file : s \in Savers}) <= crashes * Cardinality(Savers)
=============================================================================
