----------------------------- MODULE LspBundle -----------------------------
(***************************************************************************)
(* Extraction of the language server embedded in rwx into the cache        *)
(* directory of its version (ensureBundle, internal/lsp/serve.go), by any  *)
(* number of processes and without a lock.  The file .extracted marks a    *)
(* directory as complete.  Who has extracted a bundle removes those of     *)
(* other versions (cleanStaleBundles): the directory modelled is that of   *)
(* one version, and processes of other versions remove it.                 *)
(***************************************************************************)
EXTENDS Naturals, FiniteSets

CONSTANTS
  Linters,   \* processes of rwx lint and rwx lsp of one version
  Others,    \* those of other versions
  Parts      \* files of the bundle

VARIABLES
  cacheDir,   \* the cache directory exists
  part,       \* of a file of the bundle: "none", "partial" or "whole"
  marker,     \* .extracted exists
  linter,     \* of a process: its step and the files it has still to write
  cleaning,   \* those of Others that are removing the directory
  crossed,    \* two extractions have overlapped (of the property, as what follows)
  cleaned     \* one of Others has taken files away since the directory was last removed

lbVars == <<cacheDir, part, marker, linter, cleaning, crossed, cleaned>>

Whole == \A f \in Parts : part[f] = "whole"
Empty == \A f \in Parts : part[f] = "none"
NotLinting == [at |-> "rest", todo |-> {}]
Extracting(l) == linter[l].at \notin {"rest", "stat", "serve"}

LspBundleTypeOK ==
  /\ cacheDir \in BOOLEAN /\ marker \in BOOLEAN /\ crossed \in BOOLEAN /\ cleaned \in BOOLEAN
  /\ cleaning \subseteq Others
  /\ part \in [Parts -> {"none", "partial", "whole"}]
  /\ linter \in [Linters -> [at : {"rest", "stat", "wipe", "mkdir", "write", "fill", "mark", "undo", "serve"},
                             todo : SUBSET Parts]]

LspBundleInit ==
  /\ cacheDir = FALSE /\ marker = FALSE /\ crossed = FALSE /\ cleaned = FALSE /\ cleaning = {}
  /\ part = [f \in Parts |-> "none"]
  /\ linter = [l \in Linters |-> NotLinting]

LinterAt(l, step) == linter[l].at = step
Goes(l, step, todo) == linter' = [linter EXCEPT ![l] = [at |-> step, todo |-> todo]]
Same == UNCHANGED <<cacheDir, part, marker, cleaning, crossed, cleaned>>

BeginLint(l) == LinterAt(l, "rest") /\ Goes(l, "stat", {}) /\ Same

Stat(l) ==
  /\ LinterAt(l, "stat")
  /\ Goes(l, IF marker THEN "serve" ELSE "wipe", {})
  /\ crossed' = (crossed \/ (~marker /\ \E k \in Linters \ {l} : Extracting(k)))
  /\ UNCHANGED <<cacheDir, part, marker, cleaning, cleaned>>

(* os.RemoveAll, entry by entry in the order the directory lists them. *)
EntryRemoved ==
  \/ \E f \in Parts : part[f] # "none" /\ part' = [part EXCEPT ![f] = "none"] /\ UNCHANGED marker
  \/ marker /\ marker' = FALSE /\ UNCHANGED part
RemoveEntry(l) ==
  /\ LinterAt(l, "wipe") \/ LinterAt(l, "undo")
  /\ EntryRemoved
  /\ UNCHANGED <<cacheDir, linter, cleaning, crossed, cleaned>>
Removed(l) ==
  /\ LinterAt(l, "wipe") \/ LinterAt(l, "undo")
  /\ Empty /\ ~marker
  /\ cacheDir' = FALSE
  /\ Goes(l, IF LinterAt(l, "wipe") THEN "mkdir" ELSE "rest", {})
  /\ cleaned' = (cleaned /\ \E k \in Linters : LinterAt(k, "serve"))
  /\ UNCHANGED <<part, marker, cleaning, crossed>>

MakeBundleDir(l) ==
  /\ LinterAt(l, "mkdir")
  /\ cacheDir' = TRUE
  /\ Goes(l, "write", Parts)
  /\ UNCHANGED <<part, marker, cleaning, crossed, cleaned>>

(* os.WriteFile of each file; an error removes the directory again. *)
WritePart(l) ==
  /\ LinterAt(l, "write") /\ linter[l].todo # {}
  /\ \/ /\ cacheDir
        /\ \E f \in linter[l].todo : part' = [part EXCEPT ![f] = "partial"] /\ Goes(l, "fill", linter[l].todo \ {f})
     \/ Goes(l, "undo", {}) /\ UNCHANGED part
  /\ UNCHANGED <<cacheDir, marker, cleaning, crossed, cleaned>>
FillPart(l) ==
  /\ LinterAt(l, "fill")
  /\ \/ /\ part' = [f \in Parts |-> IF part[f] = "partial" THEN "whole" ELSE part[f]]
        /\ Goes(l, "write", linter[l].todo)
     \/ Goes(l, "undo", {}) /\ UNCHANGED part
  /\ UNCHANGED <<cacheDir, marker, cleaning, crossed, cleaned>>

(* The marker comes last; then the bundles of other versions are removed.
   Faulty: before the last file. *)
MarkEarly(l) ==
  /\ LinterAt(l, "write") /\ Cardinality(linter[l].todo) <= 1 /\ cacheDir
  /\ marker' = TRUE
  /\ Goes(l, IF linter[l].todo = {} THEN "serve" ELSE "write", linter[l].todo)
  /\ UNCHANGED <<cacheDir, part, cleaning, crossed, cleaned>>
Mark(l) ==
  /\ LinterAt(l, "write") /\ linter[l].todo = {}
  /\ \/ cacheDir /\ marker' = TRUE /\ Goes(l, "serve", {})
     \/ Goes(l, "undo", {}) /\ UNCHANGED marker
  /\ UNCHANGED <<cacheDir, part, cleaning, crossed, cleaned>>

(***************************************************************************)
(* cleanStaleBundles of another version, which has found the directory     *)
(* beside its own.  What it cannot remove it leaves, as when it is killed. *)
(***************************************************************************)
BeginClean(o) ==
  /\ o \notin cleaning /\ cacheDir
  /\ cleaning' = cleaning \cup {o}
  /\ UNCHANGED <<cacheDir, part, marker, linter, crossed, cleaned>>
CleanEntry(o) ==
  /\ o \in cleaning
  /\ EntryRemoved
  /\ cleaned' = TRUE
  /\ UNCHANGED <<cacheDir, linter, cleaning, crossed>>
EndClean(o) ==
  /\ o \in cleaning
  /\ cacheDir' \in {cacheDir} \cup IF Empty /\ ~marker THEN {FALSE} ELSE {}
  /\ cleaning' = cleaning \ {o}
  /\ UNCHANGED <<part, marker, linter, crossed, cleaned>>

(* node has loaded the server; killed, at any step. *)
Leave(l) == linter[l].at # "rest" /\ Goes(l, "rest", {}) /\ Same

LspBundleNext ==
  \/ \E l \in Linters :
       BeginLint(l) \/ Stat(l) \/ RemoveEntry(l) \/ Removed(l) \/ MakeBundleDir(l) \/ WritePart(l)
         \/ FillPart(l) \/ Mark(l) \/ Leave(l)
  \/ \E o \in Others : BeginClean(o) \/ CleanEntry(o) \/ EndClean(o)

LspBundleSpec == LspBundleInit /\ [][LspBundleNext]_lbVars

(***************************************************************************)
(* As long as no two extractions overlapped, the bundle a process hands to *)
(* node is complete, whatever killed the processes before it and wherever  *)
(* their writes failed; and what a process of another version has taken    *)
(* away is complete again as soon as one that serves nobody is extracted.  *)
(***************************************************************************)
ServedBundleIsWhole ==
  ~crossed /\ ~cleaned => /\ marker => Whole
                          /\ \A l \in Linters : LinterAt(l, "serve") => Whole
=============================================================================
