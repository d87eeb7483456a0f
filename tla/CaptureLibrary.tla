---------------------------- MODULE CaptureLibrary ----------------------------
(***************************************************************************)
(* The phone's library of captures (CaptureStore.kt): bundles of files in  *)
(* a directory, and rows of an SQLite inventory that point to them and     *)
(* hold the user's notes.  A bundle is made in a private directory,        *)
(* renamed into place and then indexed; a physical receipt may be added to *)
(* it later.  Several store objects of one process take turns under a      *)
(* lock, and each compares inventory and directory when it is first used.  *)
(*                                                                         *)
(* A rename survives the death of the process at once, and a power cut     *)
(* only after the directory is synchronized; until then the cut may undo   *)
(* it.  An inventory transaction is durable when it returns.  A key binds  *)
(* the archive's digest, so two imports of a key differ in the receipt     *)
(* only.  Archive checks and decoding are one condition: a bundle is whole *)
(* or it is not.  But looking at a whole one may fail as well: a read      *)
(* error, a cancellation and a failed inventory transaction hide it.       *)
(***************************************************************************)
EXTENDS Naturals

CONSTANTS
  Key,         \* captures, by device, identity and terminal digest
  Ack,         \* physical receipts that a recorder could have given
  Store,       \* CaptureStore objects
  None,        \* no receipt, no row, no import
  MaxFaults    \* deaths, power cuts and damages that are considered

Row    == [ack : Ack \cup {None}, valid : BOOLEAN, note : {"untitled", "edited"}]
Import == [key : Key, ack : Ack \cup {None},
           step : {"staged", "existing", "renamed", "proved", "synced"}]

ASSUME LibraryAssumption == None \notin Ack \cup Row \cup Import /\ MaxFaults \in Nat

VARIABLES
  disk,        \* disk[k]: the published bundle of k, as programs see it
  safe,        \* safe[k]: what of it a power cut cannot undo
  rows,        \* rows[k]: the inventory's row
  reconciled,  \* reconciled[s]: s has compared inventory and directory
  job,         \* the import that holds the lock
  damaged,     \* history: keys whose files changed by themselves
  unsynced,    \* history: keys of imports that ended between rename and sync
  missed,      \* history: keys of whole bundles that the last look at them failed on
  faults       \* faults so far

vars == <<disk, safe, rows, reconciled, job, damaged, unsynced, missed, faults>>

Absent == [files |-> "absent", ack |-> None]

Init ==
  /\ disk = [k \in Key |-> Absent] /\ safe = [k \in Key |-> Absent]
  /\ rows = [k \in Key |-> None]
  /\ reconciled = [s \in Store |-> FALSE]
  /\ job = None /\ damaged = {} /\ unsynced = {} /\ missed = {} /\ faults = 0

-----------------------------------------------------------------------------
(* The inventory *)

\* loadBundle
Loads(k) == disk[k].files = "whole"

\* inventoryMatches: what the row once said of the receipt must still be so.
Matches(k) == rows[k] # None => rows[k].ack \in {None, disk[k].ack}

\* Mutant of Indexed: the row is replaced as a whole.
IndexedAnew(k) == [ack |-> disk[k].ack, valid |-> TRUE, note |-> "untitled"]

\* upsert leaves title and context of an existing row alone.
Indexed(k) ==
  [ack |-> disk[k].ack, valid |-> TRUE,
   note |-> IF rows[k] = None THEN "untitled" ELSE rows[k].note]

\* Mutant of Hidden: only what is found in the directory is looked at.
HiddenNever(k) == rows[k]

Hidden(k) == IF rows[k] = None THEN None ELSE [rows[k] EXCEPT !.valid = FALSE]

Checked(k) == IF Loads(k) /\ Matches(k) THEN Indexed(k) ELSE Hidden(k)

\* The first use of a store object: all in one transaction.  A bundle that cannot be
\* read stays hidden; a cancellation or a database error undoes the whole.
Reconcile(s) ==
  /\ job = None /\ ~ reconciled[s]
  /\ \E failing \in SUBSET {k \in Key : Loads(k)} :
       /\ rows' = [k \in Key |-> IF k \in failing THEN Hidden(k) ELSE Checked(k)]
       /\ missed' = {k \in failing : rows[k] # None}
  /\ reconciled' = [reconciled EXCEPT ![s] = TRUE]
  /\ UNCHANGED <<disk, safe, job, damaged, unsynced, faults>>

\* find, readVerified, and the first half of update: validateIndexed, which hides the
\* row on any exception.  A hidden row is not looked at again before the next
\* reconciliation or import.
Validate(s, k) ==
  /\ job = None /\ reconciled[s]
  /\ rows[k] # None /\ rows[k].valid
  /\ \/ rows' = [rows EXCEPT ![k] = Checked(k)] /\ UNCHANGED missed
     \/ Loads(k) /\ rows' = [rows EXCEPT ![k] = Hidden(k)] /\ missed' = missed \cup {k}
  /\ UNCHANGED <<disk, safe, reconciled, job, damaged, unsynced, faults>>

Update(s, k) ==
  /\ job = None /\ reconciled[s]
  /\ rows[k] # None /\ rows[k].valid /\ Checked(k).valid
  /\ rows' = [rows EXCEPT ![k] = [Checked(k) EXCEPT !.note = "edited"]]
  /\ UNCHANGED <<disk, safe, reconciled, job, damaged, unsynced, missed, faults>>

-----------------------------------------------------------------------------
(* An import, of a chosen file or of a download: publishStaging *)

At(step) == job # None /\ job.step = step
Step(step) == job' = [job EXCEPT !.step = step]

\* The private bundle is decoded, described, synchronized and opened again; one
\* that is published already is looked at instead.
Staged(k, a) == [key |-> k, ack |-> a,
                 step |-> IF disk[k].files = "absent" THEN "staged" ELSE "existing"]

\* Every source is copied and synchronized before it is looked at.
Stage(s, k, a) ==
  /\ job = None /\ reconciled[s]
  /\ job' = Staged(k, a)
  /\ UNCHANGED <<disk, safe, rows, reconciled, damaged, unsynced, missed, faults>>

\* Mutant of AfterRename: the row is written before the directory is synchronized.
AfterRenameIndexes == "synced"

\* Both parent directories are synchronized before the bundle is indexed.
AfterRename == "renamed"

Publish ==
  /\ At("staged")
  /\ disk' = [disk EXCEPT ![job.key] = [files |-> "whole", ack |-> job.ack]]
  /\ Step(AfterRename)
  /\ UNCHANGED <<safe, rows, reconciled, damaged, unsynced, missed, faults>>

SyncDirectories ==
  /\ At("renamed")
  /\ safe' = [safe EXCEPT ![job.key] = disk[job.key]]
  /\ Step("synced")
  /\ UNCHANGED <<disk, rows, reconciled, damaged, unsynced, missed, faults>>

\* A receipt for a bundle without one is added to it; no receipt, or the one
\* that is there, adds nothing.
AddReceipt ==
  /\ At("existing") /\ Loads(job.key)
  /\ \/ job.ack \in {None, disk[job.key].ack}
        /\ Step("synced") /\ UNCHANGED disk
     \/ disk[job.key].ack = None /\ job.ack # None
        /\ disk' = [disk EXCEPT ![job.key].ack = job.ack] /\ Step("proved")
  /\ UNCHANGED <<safe, rows, reconciled, damaged, unsynced, missed, faults>>

SyncBundle ==
  /\ At("proved")
  /\ safe' = [safe EXCEPT ![job.key].ack = disk[job.key].ack]
  /\ Step("synced")
  /\ UNCHANGED <<disk, rows, reconciled, damaged, unsynced, missed, faults>>

Index ==
  /\ At("synced") /\ Loads(job.key) /\ Matches(job.key)
  /\ rows' = [rows EXCEPT ![job.key] = Indexed(job.key)]
  /\ job' = None /\ missed' = missed \ {job.key}
  /\ UNCHANGED <<disk, safe, reconciled, damaged, unsynced, faults>>

LeavesUnsynced ==
  unsynced' = IF At("renamed") \/ At("proved") THEN unsynced \cup {job.key} ELSE unsynced

\* A conflict, a cancellation or an I/O error: what is published stays.
ImportFails ==
  /\ job # None /\ job' = None
  /\ LeavesUnsynced
  /\ UNCHANGED <<disk, safe, rows, reconciled, damaged, missed, faults>>

-----------------------------------------------------------------------------
(* Faults *)

ProcessDies ==
  /\ faults < MaxFaults
  /\ job' = None /\ LeavesUnsynced
  /\ reconciled' = [s \in Store |-> FALSE]
  /\ faults' = faults + 1
  /\ UNCHANGED <<disk, safe, rows, damaged, missed>>

\* Each rename that is not synchronized is kept or undone.
Outcomes(k) ==
  {disk[k], [disk[k] EXCEPT !.ack = safe[k].ack],
   IF safe[k].files = "absent" THEN Absent ELSE safe[k]}

PowerCut ==
  /\ faults < MaxFaults
  /\ \E d \in [Key -> UNION {Outcomes(k) : k \in Key}] :
       /\ \A k \in Key : d[k] \in Outcomes(k)
       /\ disk' = d /\ safe' = d
  /\ job' = None /\ LeavesUnsynced
  /\ reconciled' = [s \in Store |-> FALSE]
  /\ faults' = faults + 1
  /\ UNCHANGED <<rows, damaged, missed>>

\* A file of a bundle changes, or its receipt goes missing.
Damage(k) ==
  /\ faults < MaxFaults /\ job = None /\ Loads(k)
  /\ \/ disk' = [disk EXCEPT ![k].files = "damaged"] /\ safe' = [safe EXCEPT ![k].files = "damaged"]
     \/ disk' = [disk EXCEPT ![k].ack = None] /\ safe' = [safe EXCEPT ![k].ack = None]
  /\ damaged' = damaged \cup {k} /\ faults' = faults + 1
  /\ UNCHANGED <<rows, reconciled, job, unsynced, missed>>

-----------------------------------------------------------------------------
Next ==
  \/ \E s \in Store : \/ Reconcile(s)
                      \/ \E k \in Key : \/ Validate(s, k) \/ Update(s, k)
                                        \/ \E a \in Ack \cup {None} : Stage(s, k, a)
  \/ Publish \/ SyncDirectories \/ AddReceipt \/ SyncBundle \/ Index \/ ImportFails
  \/ ProcessDies \/ PowerCut
  \/ \E k \in Key : Damage(k)

Spec == Init /\ [][Next]_vars

-----------------------------------------------------------------------------
Bundle == [files : {"absent", "whole", "damaged"}, ack : Ack \cup {None}]

TypeOK ==
  /\ disk \in [Key -> Bundle] /\ safe \in [Key -> Bundle]
  /\ rows \in [Key -> Row \cup {None}]
  /\ reconciled \in [Store -> BOOLEAN]
  /\ job \in Import \cup {None}
  /\ damaged \subseteq Key /\ unsynced \subseteq Key /\ missed \subseteq Key
  /\ faults \in 0 .. MaxFaults

Open == \E s \in Store : reconciled[s]

\* What the library lists is whole, as long as no file changes by itself, and it
\* claims no receipt that the bundle does not hold.
VisibleIsWhole ==
  Open => \A k \in Key \ damaged :
    rows[k] # None /\ rows[k].valid => Loads(k) /\ rows[k].ack \in {None, disk[k].ack}

\* State, and a list that is true whenever a store is open, after every death,
\* power cut and failed import.
LibraryInv == TypeOK /\ VisibleIsWhole

\* What was once in the inventory is listed in every later life of the app, unless
\* its files changed by themselves, an import of it ended between rename and
\* synchronization (the order of publishStaging is there for this), or the last look
\* at its files failed; such a capture is listed again as soon as a reconciliation
\* or an import reads it.
ListedStays ==
  Open => \A k \in Key \ (damaged \cup unsynced \cup missed) : rows[k] # None => rows[k].valid

\* The user's notes, and the receipt that a capture once had, are never forgotten:
\* no damage, restart or new import takes them away or replaces the receipt
\* (inventoryMatches, upsert).
NothingForgotten ==
  [][\A k \in Key : rows[k] # None =>
       /\ rows'[k] # None
       /\ rows[k].note = "edited" => rows'[k].note = "edited"
       /\ rows[k].ack # None => rows'[k].ack = rows[k].ack]_vars
===============================================================================
