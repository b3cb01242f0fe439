------------------------- MODULE StorageFileProofs -------------------------
(***************************************************************************)
(* The storage file implements the atomic file, for every set of savers,   *)
(* readers and values and any number of files and crashes.                 *)
(***************************************************************************)
EXTENDS StorageFile, FiniteSetTheorems, TLAPS

(* A saver has its own temporary file, which nobody reads and which nothing at
   the path names, until it has renamed it. *)
Writing(s) == saver[s].at \in {"encode", "sync", "rename"}
SaversOK ==
  \A s \in Savers : Writing(s) =>
    /\ saver[s].file \in 1 .. created
    /\ saver[s].value \in Values
    /\ saver[s].file \notin {entry, entryOnDisk}
    /\ \A t \in Savers \ {s} : Writing(t) => saver[t].file # saver[s].file
    /\ saver[s].at \in {"sync", "rename"} => file[saver[s].file].contents = saver[s].value
    /\ saver[s].at = "rename" => file[saver[s].file].synced = saver[s].value

(* What is or may come back at the path is a synced value of some save. *)
EntriesOK ==
  \A f \in {entry, entryOnDisk} :
    /\ f \in 0 .. created
    /\ f # 0 => file[f].contents = file[f].synced
    /\ Contents(f) \in written

(* A file that is open does not change any more. *)
ReadersOK ==
  \A r \in Readers : reader[r].open # 0 =>
    /\ reader[r].open \in 1 .. created
    /\ reader[r].seen = Contents(reader[r].open)
    /\ \A s \in Savers : Writing(s) => saver[s].file # reader[r].open

IInv == StorageFileTypeOK /\ SaversOK /\ EntriesOK /\ ReadersOK

-----------------------------------------------------------------------------
LEMMA InitIInv == StorageFileInit => IInv
  BY BoundsAssumption
     DEF StorageFileInit, IInv, StorageFileTypeOK, SaversOK, EntriesOK, ReadersOK, Writing, Contents, Resting, Files

LEMMA CreateTempIInv ==
  ASSUME IInv, NEW s \in Savers, CreateTemp(s) PROVE IInv'
  BY BoundsAssumption
     DEF IInv, StorageFileTypeOK, SaversOK, EntriesOK, ReadersOK, Writing, Contents, Files, CreateTemp, NoCrash

(* A step of a saver as the record it leaves. *)
LEMMA StepOf ==
  ASSUME StorageFileTypeOK, NEW s \in Savers, NEW from, NEW to, Step(s, from, to)
  PROVE  saver' = [saver EXCEPT ![s] = [at |-> to, file |-> saver[s].file, value |-> saver[s].value]]
<1>1. saver[s] \in [at : {"rest", "encode", "sync", "rename", "remove"}, file : 0 .. MaxFiles,
                   value : Values \cup {Nothing}]
  BY DEF StorageFileTypeOK
<1>2. [saver[s] EXCEPT !.at = to] = [at |-> to, file |-> saver[s].file, value |-> saver[s].value]
  BY <1>1
<1>. QED
  BY <1>2 DEF Step

LEMMA EncodeIInv ==
  ASSUME IInv, NEW s \in Savers, Encode(s) PROVE IInv'
<1>1. CASE Step(s, "encode", "sync") /\ file' = [file EXCEPT ![saver[s].file].contents = saver[s].value]
  <2>1. saver' = [saver EXCEPT ![s] = [at |-> "sync", file |-> saver[s].file, value |-> saver[s].value]]
    BY <1>1, StepOf DEF IInv
  <2>2. saver[s].at = "encode"
    BY <1>1 DEF Step
  <2>3. file' = [file EXCEPT ![saver[s].file] = [contents |-> saver[s].value, synced |-> file[saver[s].file].synced]]
    <3>1. file[saver[s].file] \in [contents : Values \cup {Partial}, synced : Values \cup {Partial}]
      BY <2>2, BoundsAssumption DEF IInv, StorageFileTypeOK, SaversOK, Writing, Files
    <3>2. [file[saver[s].file] EXCEPT !.contents = saver[s].value]
            = [contents |-> saver[s].value, synced |-> file[saver[s].file].synced]
      BY <3>1
    <3>. QED
      BY <1>1, <3>2
  <2>a1. StorageFileTypeOK'
    BY <2>1, <2>2, <2>3, BoundsAssumption DEF IInv, StorageFileTypeOK, SaversOK, Writing, Contents, Files, Encode, NoCrash
  <2>a2. SaversOK'
    BY <2>1, <2>2, <2>3, BoundsAssumption DEF IInv, StorageFileTypeOK, SaversOK, EntriesOK, Writing, Contents, Files, Encode, NoCrash
  <2>a3. EntriesOK'
    BY <2>1, <2>2, <2>3, BoundsAssumption DEF IInv, StorageFileTypeOK, SaversOK, EntriesOK, Writing, Contents, Files, Encode, NoCrash
  <2>a4. ReadersOK'
    BY <2>1, <2>2, <2>3, BoundsAssumption DEF IInv, StorageFileTypeOK, SaversOK, EntriesOK, ReadersOK, Writing, Contents, Files, Encode, NoCrash
  <2>. QED
    BY <2>a1, <2>a2, <2>a3, <2>a4 DEF IInv
<1>2. CASE Step(s, "encode", "remove") /\ UNCHANGED file
  <2>1. saver' = [saver EXCEPT ![s] = [at |-> "remove", file |-> saver[s].file, value |-> saver[s].value]]
    BY <1>2, StepOf DEF IInv
  <2>. QED
    BY <1>2, <2>1, BoundsAssumption
       DEF IInv, StorageFileTypeOK, SaversOK, EntriesOK, ReadersOK, Writing, Contents, Files, Encode, NoCrash
<1>. QED
  BY <1>1, <1>2 DEF Encode

LEMMA SyncIInv ==
  ASSUME IInv, NEW s \in Savers, Sync(s) PROVE IInv'
<1>1. CASE Step(s, "sync", "rename") /\ file' = [file EXCEPT ![saver[s].file].synced = file[saver[s].file].contents]
  <2>1. saver' = [saver EXCEPT ![s] = [at |-> "rename", file |-> saver[s].file, value |-> saver[s].value]]
    BY <1>1, StepOf DEF IInv
  <2>2. saver[s].at = "sync"
    BY <1>1 DEF Step
  <2>3. file' = [file EXCEPT ![saver[s].file] = [contents |-> saver[s].value, synced |-> saver[s].value]]
    <3>1. /\ file[saver[s].file] \in [contents : Values \cup {Partial}, synced : Values \cup {Partial}]
          /\ file[saver[s].file].contents = saver[s].value
      BY <2>2, BoundsAssumption DEF IInv, StorageFileTypeOK, SaversOK, Writing, Files
    <3>2. [file[saver[s].file] EXCEPT !.synced = file[saver[s].file].contents]
            = [contents |-> saver[s].value, synced |-> saver[s].value]
      BY <3>1
    <3>. QED
      BY <1>1, <3>2
  <2>a1. StorageFileTypeOK'
    BY <2>1, <2>2, <2>3, BoundsAssumption DEF IInv, StorageFileTypeOK, SaversOK, Writing, Contents, Files, Sync, NoCrash
  <2>a2. SaversOK'
    BY <2>1, <2>2, <2>3, BoundsAssumption DEF IInv, StorageFileTypeOK, SaversOK, EntriesOK, Writing, Contents, Files, Sync, NoCrash
  <2>a3. EntriesOK'
    BY <2>1, <2>2, <2>3, BoundsAssumption DEF IInv, StorageFileTypeOK, SaversOK, EntriesOK, Writing, Contents, Files, Sync, NoCrash
  <2>a4. ReadersOK'
    BY <2>1, <2>2, <2>3, BoundsAssumption DEF IInv, StorageFileTypeOK, SaversOK, EntriesOK, ReadersOK, Writing, Contents, Files, Sync, NoCrash
  <2>. QED
    BY <2>a1, <2>a2, <2>a3, <2>a4 DEF IInv
<1>2. CASE Step(s, "sync", "remove") /\ UNCHANGED file
  <2>1. saver' = [saver EXCEPT ![s] = [at |-> "remove", file |-> saver[s].file, value |-> saver[s].value]]
    BY <1>2, StepOf DEF IInv
  <2>. QED
    BY <1>2, <2>1, BoundsAssumption
       DEF IInv, StorageFileTypeOK, SaversOK, EntriesOK, ReadersOK, Writing, Contents, Files, Sync, NoCrash
<1>. QED
  BY <1>1, <1>2 DEF Sync

LEMMA RenameIInv ==
  ASSUME IInv, NEW s \in Savers, Rename(s) PROVE IInv'
<1>1. saver' = [saver EXCEPT ![s] = [at |-> "remove", file |-> saver[s].file, value |-> saver[s].value]]
  BY StepOf DEF IInv, Rename
<1>2. saver[s].at = "rename"
  BY DEF Rename, Step
<1>a1. StorageFileTypeOK'
  <2>1. ({entry, entryOnDisk} \subseteq 0 .. MaxFiles)'
    BY <1>1, <1>2, BoundsAssumption DEF IInv, StorageFileTypeOK, SaversOK, Writing, Contents, Files, Rename, NoCrash
  <2>2. (file \in [Files -> [contents : Values \cup {Partial}, synced : Values \cup {Partial}]])'
    BY <1>1, <1>2, BoundsAssumption DEF IInv, StorageFileTypeOK, SaversOK, Writing, Contents, Files, Rename, NoCrash
  <2>3. (temps \subseteq Files)'
    BY <1>1, <1>2, BoundsAssumption DEF IInv, StorageFileTypeOK, SaversOK, Writing, Contents, Files, Rename, NoCrash
  <2>4. (saver \in [Savers -> [at : {"rest", "encode", "sync", "rename", "remove"}, file : 0 .. MaxFiles, value : Values \cup {Nothing}]])'
    BY <1>1, <1>2, BoundsAssumption DEF IInv, StorageFileTypeOK, SaversOK, Writing, Contents, Files, Rename, NoCrash
  <2>5. (reader \in [Readers -> [open : 0 .. MaxFiles, seen : Values \cup {Nothing, Partial}]])'
    BY <1>1, <1>2, BoundsAssumption DEF IInv, StorageFileTypeOK, SaversOK, Writing, Contents, Files, Rename, NoCrash
  <2>6. (created \in 0 .. MaxFiles /\ crashes \in 0 .. MaxCrashes)'
    BY <1>1, <1>2, BoundsAssumption DEF IInv, StorageFileTypeOK, SaversOK, Writing, Contents, Files, Rename, NoCrash
  <2>7. (written \subseteq Values \cup {Nothing})'
    BY <1>1, <1>2, BoundsAssumption DEF IInv, StorageFileTypeOK, SaversOK, Writing, Contents, Files, Rename, NoCrash
  <2>. QED
    BY <2>1, <2>2, <2>3, <2>4, <2>5, <2>6, <2>7 DEF StorageFileTypeOK
<1>a2. SaversOK'
  BY <1>1, <1>2, BoundsAssumption DEF IInv, StorageFileTypeOK, SaversOK, EntriesOK, Writing, Contents, Files, Rename, NoCrash
<1>a3. EntriesOK'
  BY <1>1, <1>2, BoundsAssumption DEF IInv, StorageFileTypeOK, SaversOK, EntriesOK, Writing, Contents, Files, Rename, NoCrash
<1>a4. ReadersOK'
  BY <1>1, <1>2, BoundsAssumption DEF IInv, StorageFileTypeOK, SaversOK, EntriesOK, ReadersOK, Writing, Contents, Files, Rename, NoCrash
<1>. QED
  BY <1>a1, <1>a2, <1>a3, <1>a4 DEF IInv

LEMMA RemoveTempIInv ==
  ASSUME IInv, NEW s \in Savers, RemoveTemp(s) PROVE IInv'
<1>a1. StorageFileTypeOK'
  <2>1. ({entry, entryOnDisk} \subseteq 0 .. MaxFiles)'
    BY BoundsAssumption DEF IInv, StorageFileTypeOK, SaversOK, Writing, Contents, Files, RemoveTemp, Resting, NoCrash
  <2>2. (file \in [Files -> [contents : Values \cup {Partial}, synced : Values \cup {Partial}]])'
    BY BoundsAssumption DEF IInv, StorageFileTypeOK, SaversOK, Writing, Contents, Files, RemoveTemp, Resting, NoCrash
  <2>3. (temps \subseteq Files)'
    BY BoundsAssumption DEF IInv, StorageFileTypeOK, SaversOK, Writing, Contents, Files, RemoveTemp, Resting, NoCrash
  <2>4. (saver \in [Savers -> [at : {"rest", "encode", "sync", "rename", "remove"}, file : 0 .. MaxFiles, value : Values \cup {Nothing}]])'
    BY BoundsAssumption DEF IInv, StorageFileTypeOK, SaversOK, Writing, Contents, Files, RemoveTemp, Resting, NoCrash
  <2>5. (reader \in [Readers -> [open : 0 .. MaxFiles, seen : Values \cup {Nothing, Partial}]])'
    BY BoundsAssumption DEF IInv, StorageFileTypeOK, SaversOK, Writing, Contents, Files, RemoveTemp, Resting, NoCrash
  <2>6. (created \in 0 .. MaxFiles /\ crashes \in 0 .. MaxCrashes)'
    BY BoundsAssumption DEF IInv, StorageFileTypeOK, SaversOK, Writing, Contents, Files, RemoveTemp, Resting, NoCrash
  <2>7. (written \subseteq Values \cup {Nothing})'
    BY BoundsAssumption DEF IInv, StorageFileTypeOK, SaversOK, Writing, Contents, Files, RemoveTemp, Resting, NoCrash
  <2>. QED
    BY <2>1, <2>2, <2>3, <2>4, <2>5, <2>6, <2>7 DEF StorageFileTypeOK
<1>a2. SaversOK'
  BY BoundsAssumption DEF IInv, StorageFileTypeOK, SaversOK, EntriesOK, Writing, Contents, Files, RemoveTemp, Resting, NoCrash
<1>a3. EntriesOK'
  BY BoundsAssumption DEF IInv, StorageFileTypeOK, SaversOK, EntriesOK, Writing, Contents, Files, RemoveTemp, Resting, NoCrash
<1>a4. ReadersOK'
  BY BoundsAssumption DEF IInv, StorageFileTypeOK, SaversOK, EntriesOK, ReadersOK, Writing, Contents, Files, RemoveTemp, Resting, NoCrash
<1>. QED
  BY <1>a1, <1>a2, <1>a3, <1>a4 DEF IInv

LEMMA ReaderIInv ==
  ASSUME IInv, NEW r \in Readers, Open(r) \/ Decode(r) PROVE IInv'
<1>a1. StorageFileTypeOK'
  <2>1. ({entry, entryOnDisk} \subseteq 0 .. MaxFiles)'
    BY BoundsAssumption DEF IInv, StorageFileTypeOK, SaversOK, Writing, Contents, Files, Open, Decode, disk
  <2>2. (file \in [Files -> [contents : Values \cup {Partial}, synced : Values \cup {Partial}]])'
    BY BoundsAssumption DEF IInv, StorageFileTypeOK, SaversOK, Writing, Contents, Files, Open, Decode, disk
  <2>3. (temps \subseteq Files)'
    BY BoundsAssumption DEF IInv, StorageFileTypeOK, SaversOK, Writing, Contents, Files, Open, Decode, disk
  <2>4. (saver \in [Savers -> [at : {"rest", "encode", "sync", "rename", "remove"}, file : 0 .. MaxFiles, value : Values \cup {Nothing}]])'
    BY BoundsAssumption DEF IInv, StorageFileTypeOK, SaversOK, Writing, Contents, Files, Open, Decode, disk
  <2>5. (reader \in [Readers -> [open : 0 .. MaxFiles, seen : Values \cup {Nothing, Partial}]])'
    BY BoundsAssumption DEF IInv, StorageFileTypeOK, SaversOK, Writing, Contents, Files, Open, Decode, disk
  <2>6. (created \in 0 .. MaxFiles /\ crashes \in 0 .. MaxCrashes)'
    BY BoundsAssumption DEF IInv, StorageFileTypeOK, SaversOK, Writing, Contents, Files, Open, Decode, disk
  <2>7. (written \subseteq Values \cup {Nothing})'
    BY BoundsAssumption DEF IInv, StorageFileTypeOK, SaversOK, Writing, Contents, Files, Open, Decode, disk
  <2>. QED
    BY <2>1, <2>2, <2>3, <2>4, <2>5, <2>6, <2>7 DEF StorageFileTypeOK
<1>a2. SaversOK'
  BY BoundsAssumption DEF IInv, StorageFileTypeOK, SaversOK, EntriesOK, Writing, Contents, Files, Open, Decode, disk
<1>a3. EntriesOK'
  BY BoundsAssumption DEF IInv, StorageFileTypeOK, SaversOK, EntriesOK, Writing, Contents, Files, Open, Decode, disk
<1>a4. ReadersOK'
  <2>1. CASE Open(r)
    <3>1. reader' = [reader EXCEPT ![r] = [open |-> entry, seen |-> Contents(entry)]]
          /\ UNCHANGED <<file, saver, created>>
      BY <2>1 DEF Open, disk
    <3>2. entry # 0 => entry \in 1 .. created /\ \A s \in Savers : Writing(s) => saver[s].file # entry
      BY <3>1 DEF IInv, StorageFileTypeOK, SaversOK, EntriesOK
    <3>3. reader \in [Readers -> [open : 0 .. MaxFiles, seen : Values \cup {Nothing, Partial}]]
      BY DEF IInv, StorageFileTypeOK
    <3>. QED
      BY <3>1, <3>2, <3>3 DEF IInv, ReadersOK, Writing, Contents
  <2>2. CASE Decode(r)
    BY <2>2 DEF IInv, StorageFileTypeOK, ReadersOK, Writing, Contents, Decode, disk
  <2>. QED
    BY <2>1, <2>2
<1>. QED
  BY <1>a1, <1>a2, <1>a3, <1>a4 DEF IInv

LEMMA KillIInv ==
  ASSUME IInv, NEW s \in Savers, KillSaver(s) PROVE IInv'
  BY BoundsAssumption
     DEF IInv, StorageFileTypeOK, SaversOK, EntriesOK, ReadersOK, Writing, Contents, Files, KillSaver, Resting, disk

LEMMA PowerLossIInv ==
  ASSUME IInv, PowerLoss PROVE IInv'
  BY BoundsAssumption
     DEF IInv, StorageFileTypeOK, SaversOK, EntriesOK, ReadersOK, Writing, Contents, Files, PowerLoss, Resting

LEMMA NextIInv == IInv /\ [StorageFileNext]_sfVars => IInv'
<1>. SUFFICES ASSUME IInv, [StorageFileNext]_sfVars PROVE IInv'
  OBVIOUS
<1>1. ASSUME NEW s \in Savers, CreateTemp(s) \/ Encode(s) \/ Sync(s) \/ Rename(s) \/ RemoveTemp(s) \/ KillSaver(s)
      PROVE  IInv'
  BY <1>1, CreateTempIInv, EncodeIInv, SyncIInv, RenameIInv, RemoveTempIInv, KillIInv
<1>2. ASSUME NEW r \in Readers, Open(r) \/ Decode(r) PROVE IInv'
  BY <1>2, ReaderIInv
<1>3. CASE PowerLoss
  BY <1>3, PowerLossIInv
<1>4. CASE UNCHANGED sfVars
  BY <1>4 DEF IInv, StorageFileTypeOK, SaversOK, EntriesOK, ReadersOK, Writing, Contents, sfVars, disk
<1>. QED
  BY <1>1, <1>2, <1>3, <1>4 DEF StorageFileNext

-----------------------------------------------------------------------------
(* The refinement: saves and reads are the steps of the register at the rename
   and at the opening of the file, and all else is invisible. *)
Seen == [r \in Readers |-> reader[r].seen]
abstract == <<Contents(entry), written, Seen>>

LEMMA SaverStutters ==
  ASSUME IInv, NEW s \in Savers, CreateTemp(s) \/ Encode(s) \/ Sync(s) \/ RemoveTemp(s) \/ KillSaver(s)
  PROVE  UNCHANGED abstract
<1>1. Contents(entry)' = Contents(entry)
  <2>1. CASE Encode(s)
    <3>1. saver[s].file # entry /\ saver[s].file \in Files
      BY <2>1, BoundsAssumption DEF IInv, SaversOK, StorageFileTypeOK, Writing, Encode, Step, Files
    <3>. QED
      BY <2>1, <3>1, BoundsAssumption DEF IInv, StorageFileTypeOK, Contents, Encode, Files
  <2>2. CASE Sync(s)
    <3>1. saver[s].file # entry /\ saver[s].file \in Files
      BY <2>2, BoundsAssumption DEF IInv, SaversOK, StorageFileTypeOK, Writing, Sync, Step, Files
    <3>. QED
      BY <2>2, <3>1, BoundsAssumption DEF IInv, StorageFileTypeOK, Contents, Sync, Files
  <2>3. CASE CreateTemp(s) \/ RemoveTemp(s) \/ KillSaver(s)
    BY <2>3 DEF Contents, CreateTemp, RemoveTemp, KillSaver, disk
  <2>. QED
    BY <2>1, <2>2, <2>3
<1>2. written' = written /\ Seen' = Seen
  BY DEF Seen, CreateTemp, Encode, Sync, RemoveTemp, KillSaver, NoCrash, disk
<1>. QED
  BY <1>1, <1>2 DEF abstract

LEMMA RenameWrites ==
  ASSUME IInv, NEW s \in Savers, Rename(s)
  PROVE  (\E v \in Values : Register!Write(v)) \/ UNCHANGED abstract
<1>1. CASE /\ entry' = saver[s].file
           /\ written' = written \cup {saver[s].value}
  <2>1. /\ saver[s].file # 0 /\ saver[s].value \in Values
        /\ file[saver[s].file].contents = saver[s].value
    BY BoundsAssumption DEF IInv, SaversOK, StorageFileTypeOK, Writing, Rename, Step
  <2>2. Contents(entry)' = saver[s].value
    BY <1>1, <2>1 DEF Contents, Rename
  <2>3. Seen' = Seen
    BY DEF Seen, Rename, NoCrash
  <2>. QED
    BY <1>1, <2>1, <2>2, <2>3 DEF Register!Write, Seen
<1>2. CASE UNCHANGED <<entry, entryOnDisk, temps, written>>
  BY <1>2 DEF abstract, Contents, Seen, Rename, NoCrash
<1>. QED
  BY <1>1, <1>2 DEF Rename

LEMMA OpenReads ==
  ASSUME IInv, NEW r \in Readers, Open(r) PROVE Register!Read(r)
<1>1. Seen' = [Seen EXCEPT ![r] = Contents(entry)]
  BY DEF IInv, StorageFileTypeOK, Open, Seen
<1>2. Contents(entry)' = Contents(entry) /\ written' = written
  BY DEF Open, Contents, disk
<1>. QED
  BY <1>1, <1>2 DEF Register!Read, Seen

LEMMA DecodeStutters ==
  ASSUME IInv, NEW r \in Readers, Decode(r) PROVE UNCHANGED abstract
<1>1. reader[r].seen = Contents(reader[r].open)
  BY DEF IInv, ReadersOK, Decode
<1>2. Seen' = Seen
  BY <1>1 DEF IInv, StorageFileTypeOK, Decode, Seen
<1>3. Contents(entry)' = Contents(entry) /\ written' = written
  BY DEF Decode, Contents, disk
<1>. QED
  BY <1>2, <1>3 DEF abstract

LEMMA PowerLossReverts ==
  ASSUME IInv, PowerLoss PROVE Register!PowerLoss
<1>1. Contents(entry)' \in written
  BY BoundsAssumption DEF IInv, StorageFileTypeOK, EntriesOK, Contents, PowerLoss, Files
<1>2. Seen' = [r \in Readers |-> Nothing] /\ written' = written
  BY DEF Seen, PowerLoss
<1>. QED
  BY <1>1, <1>2 DEF Register!PowerLoss, Seen

(* Every step of savers, readers and crashes is a step of the atomic file or invisible. *)
LEMMA NextRefines == IInv /\ [StorageFileNext]_sfVars => [Register!Next]_abstract
<1>. SUFFICES ASSUME IInv, [StorageFileNext]_sfVars PROVE [Register!Next]_abstract
  OBVIOUS
<1>1. ASSUME NEW s \in Savers, CreateTemp(s) \/ Encode(s) \/ Sync(s) \/ RemoveTemp(s) \/ KillSaver(s)
      PROVE  UNCHANGED abstract
  BY <1>1, SaverStutters
<1>2. ASSUME NEW s \in Savers, Rename(s) PROVE [Register!Next]_abstract
  BY <1>2, RenameWrites DEF Register!Next
<1>3. ASSUME NEW r \in Readers, Open(r) PROVE Register!Next
  BY <1>3, OpenReads DEF Register!Next
<1>4. ASSUME NEW r \in Readers, Decode(r) PROVE UNCHANGED abstract
  BY <1>4, DecodeStutters
<1>5. CASE PowerLoss
  BY <1>5, PowerLossReverts DEF Register!Next
<1>6. CASE UNCHANGED sfVars
  BY <1>6 DEF abstract, Contents, Seen, sfVars, disk
<1>. QED
  BY <1>1, <1>2, <1>3, <1>4, <1>5, <1>6 DEF StorageFileNext

LEMMA InitRefines == StorageFileInit => Register!Init
  BY DEF StorageFileInit, Register!Init, Contents

(***************************************************************************)
(* Readers of sandboxes.json, who take no lock, see whole values that      *)
(* saves have put in place, whatever savers and readers interleave and     *)
(* whenever a saver is killed or the machine loses its power.              *)
(***************************************************************************)
THEOREM StorageIsAtomic == StorageFileSpec => SavesAreAtomic
<1>1. StorageFileSpec => []IInv
  BY InitIInv, NextIInv, PTL DEF StorageFileSpec
<1>2. StorageFileSpec => [][Register!Next]_abstract
  BY <1>1, NextRefines, PTL DEF StorageFileSpec
<1>. QED
  BY <1>2, InitRefines, PTL DEF StorageFileSpec, SavesAreAtomic, Register!Spec, abstract, Seen

-----------------------------------------------------------------------------
(* Temporary files that no saver works on any more: a crash leaves as many of
   them as savers it interrupts. *)
Abandoned == temps \ {saver[s].file : s \in Savers}
TempsOK ==
  /\ \A s \in Savers : saver[s].at = "rest" => saver[s].file = 0
  /\ TempsAreRemoved

LEMMA AbandonedFinite == ASSUME StorageFileTypeOK PROVE IsFiniteSet(Abandoned) /\ Cardinality(Abandoned) \in Nat
<1>1. IsFiniteSet(Files)
  BY FS_Interval, BoundsAssumption DEF Files
<1>2. Abandoned \subseteq Files
  BY DEF StorageFileTypeOK, Abandoned
<1>. QED
  BY <1>1, <1>2, FS_Subset, FS_CardinalityType

(* Where no more files are abandoned the bound stays as it is. *)
LEMMA NoneAbandoned ==
  ASSUME StorageFileTypeOK, TempsOK, Abandoned' \subseteq Abandoned, crashes' = crashes PROVE TempsAreRemoved'
<1>1. Cardinality(Abandoned') <= Cardinality(Abandoned) /\ Cardinality(Abandoned') \in Nat
  BY AbandonedFinite, FS_Subset, FS_CardinalityType
<1>2. crashes \in Nat /\ Cardinality(Savers) \in Nat
  BY SaversAssumption, BoundsAssumption, FS_CardinalityType DEF StorageFileTypeOK
<1>3. Cardinality(Abandoned) <= crashes * Cardinality(Savers)
  BY DEF TempsOK, TempsAreRemoved, Abandoned
<1>4. crashes * Cardinality(Savers) \in Nat
  BY <1>2
<1>5. Cardinality(Abandoned') <= crashes * Cardinality(Savers)
  BY <1>1, <1>3, <1>4, AbandonedFinite
<1>. QED
  BY <1>5 DEF TempsAreRemoved, Abandoned

(* A crash interrupts the savers in S. *)
LEMMA CrashAbandons ==
  ASSUME StorageFileTypeOK, TempsOK, NEW S \in SUBSET Savers,
         Abandoned' \subseteq Abandoned \cup {saver[s].file : s \in S}, crashes' = crashes + 1
  PROVE  TempsAreRemoved'
<1>. DEFINE lost == {saver[s].file : s \in S}
<1>1. IsFiniteSet(S) /\ Cardinality(S) <= Cardinality(Savers)
  BY SaversAssumption, FS_Subset
<1>2. IsFiniteSet(lost) /\ Cardinality(lost) <= Cardinality(S)
  <2>. DEFINE f == [s \in S |-> saver[s].file]
  <2>1. f \in Surjection(S, lost)
    BY DEF Surjection
  <2>. QED
    BY <1>1, <2>1, FS_Surjection
<1>. HIDE DEF lost
<1>3. IsFiniteSet(Abandoned \cup lost) /\ Cardinality(Abandoned \cup lost) <= Cardinality(Abandoned) + Cardinality(lost)
  <2>1. Cardinality(Abandoned \cap lost) \in Nat
    BY AbandonedFinite, FS_Intersection, FS_CardinalityType
  <2>2. Cardinality(Abandoned) \in Nat /\ Cardinality(lost) \in Nat
    BY <1>2, AbandonedFinite, FS_CardinalityType
  <2>3. /\ IsFiniteSet(Abandoned \cup lost)
        /\ Cardinality(Abandoned \cup lost) = Cardinality(Abandoned) + Cardinality(lost) - Cardinality(Abandoned \cap lost)
    BY <1>2, AbandonedFinite, FS_Union
  <2>. QED
    BY <2>1, <2>2, <2>3
<1>4. Cardinality(Abandoned') <= Cardinality(Abandoned \cup lost) /\ Cardinality(Abandoned') \in Nat
  BY <1>3, FS_Subset, FS_CardinalityType DEF lost
<1>5. /\ crashes \in Nat /\ Cardinality(Savers) \in Nat /\ Cardinality(S) \in Nat
      /\ Cardinality(lost) \in Nat /\ Cardinality(Abandoned \cup lost) \in Nat /\ Cardinality(Abandoned) \in Nat
  BY <1>1, <1>2, <1>3, SaversAssumption, BoundsAssumption, FS_CardinalityType, AbandonedFinite DEF StorageFileTypeOK
<1>6. Cardinality(Abandoned) <= crashes * Cardinality(Savers)
  BY DEF TempsOK, TempsAreRemoved, Abandoned
<1>7. Cardinality(Abandoned') <= crashes * Cardinality(Savers) + Cardinality(Savers)
  <2>1. crashes * Cardinality(Savers) \in Nat
    BY <1>5
  <2>. QED
    BY <1>1, <1>2, <1>3, <1>4, <1>5, <1>6, <2>1
<1>8. (crashes + 1) * Cardinality(Savers) = crashes * Cardinality(Savers) + Cardinality(Savers)
  BY <1>5
<1>9. Cardinality(Abandoned') <= (crashes + 1) * Cardinality(Savers)
  BY <1>7, <1>8
<1>. QED
  BY <1>9 DEF TempsAreRemoved, Abandoned

LEMMA InitTempsOK == StorageFileInit => TempsOK
<1>. SUFFICES ASSUME StorageFileInit PROVE TempsOK
  OBVIOUS
<1>1. temps \ {saver[s].file : s \in Savers} = {} /\ crashes = 0
  BY DEF StorageFileInit
<1>2. 0 <= 0 * Cardinality(Savers)
  BY SaversAssumption, FS_CardinalityType
<1>. QED
  BY <1>1, <1>2, FS_EmptySet DEF StorageFileInit, TempsOK, TempsAreRemoved, Resting

LEMMA NextTempsOK == IInv /\ TempsOK /\ [StorageFileNext]_sfVars => TempsOK'
<1>. SUFFICES ASSUME IInv, TempsOK, [StorageFileNext]_sfVars PROVE TempsOK'
  OBVIOUS
<1>1. StorageFileTypeOK
  BY DEF IInv
<1>2. ASSUME NEW s \in Savers, CreateTemp(s) PROVE TempsOK'
  <2>1. PICK v \in Values : saver' = [saver EXCEPT ![s] = [at |-> "encode", file |-> created', value |-> v]]
    BY <1>2 DEF CreateTemp
  <2>2. Abandoned' \subseteq Abandoned
    BY <1>1, <1>2, <2>1, BoundsAssumption DEF CreateTemp, Abandoned, TempsOK, StorageFileTypeOK, Files
  <2>. QED
    BY <1>1, <1>2, <2>1, <2>2, NoneAbandoned DEF CreateTemp, TempsOK, StorageFileTypeOK, NoCrash
<1>3. ASSUME NEW s \in Savers, NEW from, NEW to, Step(s, from, to), to # "rest",
             UNCHANGED crashes, temps' \subseteq temps
      PROVE  TempsOK'
  <2>1. saver' = [saver EXCEPT ![s] = [at |-> to, file |-> saver[s].file, value |-> saver[s].value]]
    BY <1>1, <1>3, StepOf
  <2>2. \A t \in Savers : saver'[t].file = saver[t].file /\ (saver'[t].at = "rest" => saver[t].at = "rest")
    BY <1>1, <1>3, <2>1 DEF StorageFileTypeOK
  <2>3. Abandoned' \subseteq Abandoned
    BY <1>3, <2>2 DEF Abandoned
  <2>. QED
    BY <1>1, <1>3, <2>2, <2>3, NoneAbandoned DEF TempsOK
<1>4. ASSUME NEW s \in Savers, Encode(s) PROVE TempsOK'
  BY <1>3, <1>4 DEF Encode, NoCrash
<1>5. ASSUME NEW s \in Savers, Sync(s) PROVE TempsOK'
  BY <1>3, <1>5 DEF Sync, NoCrash
<1>6. ASSUME NEW s \in Savers, Rename(s) PROVE TempsOK'
  BY <1>3, <1>6 DEF Rename, NoCrash
<1>7. ASSUME NEW s \in Savers, RemoveTemp(s) PROVE TempsOK'
  <2>1. Abandoned' \subseteq Abandoned
    BY <1>1, <1>7 DEF RemoveTemp, Abandoned, StorageFileTypeOK
  <2>. QED
    BY <1>1, <1>7, <2>1, NoneAbandoned DEF RemoveTemp, TempsOK, StorageFileTypeOK, NoCrash, Resting
<1>8. ASSUME NEW s \in Savers, KillSaver(s) PROVE TempsOK'
  <2>1. Abandoned' \subseteq Abandoned \cup {saver[t].file : t \in {s}}
    BY <1>1, <1>8 DEF KillSaver, Abandoned, StorageFileTypeOK, disk
  <2>2. TempsAreRemoved'
    BY <1>1, <1>8, <2>1, CrashAbandons DEF KillSaver
  <2>. QED
    BY <1>1, <1>8, <2>2 DEF KillSaver, TempsOK, StorageFileTypeOK, Resting
<1>9. CASE PowerLoss
  <2>1. Abandoned' \subseteq Abandoned \cup {saver[t].file : t \in Savers}
    BY <1>9 DEF PowerLoss, Abandoned
  <2>2. TempsAreRemoved'
    BY <1>1, <1>9, <2>1, CrashAbandons DEF PowerLoss
  <2>. QED
    BY <1>9, <2>2 DEF PowerLoss, TempsOK, Resting
<1>10. ASSUME NEW r \in Readers, Open(r) \/ Decode(r) PROVE TempsOK'
  <2>1. saver' = saver /\ temps' = temps /\ crashes' = crashes
    BY <1>10 DEF Open, Decode, disk
  <2>2. Abandoned' = Abandoned
    BY <2>1 DEF Abandoned
  <2>. QED
    BY <1>1, <2>1, <2>2, NoneAbandoned DEF TempsOK
<1>11. CASE UNCHANGED sfVars
  <2>1. Abandoned' = Abandoned
    BY <1>11 DEF sfVars, Abandoned
  <2>. QED
    BY <1>1, <1>11, <2>1, NoneAbandoned DEF sfVars, TempsOK
<1>. QED
  BY <1>2, <1>4, <1>5, <1>6, <1>7, <1>8, <1>9, <1>10, <1>11 DEF StorageFileNext

(***************************************************************************)
(* Saves leave no temporary file behind, however they fail: all there are  *)
(* belong to saves in progress or to savers that a crash interrupted.      *)
(***************************************************************************)
THEOREM TempsAreBounded == StorageFileSpec => []TempsAreRemoved
<1>1. StorageFileSpec => []IInv
  BY InitIInv, NextIInv, PTL DEF StorageFileSpec
<1>2. StorageFileSpec => []TempsOK
  BY <1>1, InitTempsOK, NextTempsOK, PTL DEF StorageFileSpec
<1>3. TempsOK => TempsAreRemoved
  BY DEF TempsOK
<1>. QED
  BY <1>2, <1>3, PTL
=============================================================================
