------------------------ MODULE CaptureLibraryProofs ------------------------
(***************************************************************************)
(* Proofs about CaptureLibrary, for any captures, receipts, store objects  *)
(* and number of faults.  LibraryIInv is inductive: what makes the list    *)
(* true after a power cut is that a bundle that was never left between a   *)
(* rename and its synchronization is on the disk as programs see it, and   *)
(* that such a bundle is whole as soon as the inventory has a row for it.  *)
(* What an open library does not list of these is what it last failed to   *)
(* read (missed), and reading it is enough to list it.                     *)
(***************************************************************************)
EXTENDS CaptureLibrary, TLAPS

\* The key's rename is synchronized, or it has none.
Settled(k) == ~ (job # None /\ job.key = k /\ job.step \in {"renamed", "proved"})

\* A private bundle is renamed only to where nothing is.
StagedIsNew == At("staged") => disk[job.key].files = "absent"

\* A key whose files neither changed by themselves nor were left unsynchronized
\* is safe, and what the inventory says of it is on the disk.
Kept(k) ==
  /\ Settled(k) => safe[k] = disk[k]
  /\ At("proved") /\ job.key = k => safe[k].files = disk[k].files
  /\ rows[k] # None => Loads(k) /\ Matches(k) /\ (Open => rows[k].valid \/ k \in missed)

LibraryIInv ==
  /\ TypeOK /\ VisibleIsWhole /\ StagedIsNew
  /\ \A k \in Key \ (damaged \cup unsynced) : Kept(k)

-----------------------------------------------------------------------------
\* A row is visible after a check exactly if the bundle is whole and agrees with
\* it; the check keeps the row, its note and its receipt.
LEMMA CheckedRow ==
  ASSUME TypeOK, NEW k \in Key
  PROVE  /\ Checked(k) \in Row \cup {None}
         /\ Loads(k) /\ Matches(k) =>
              Checked(k) # None /\ Checked(k).valid /\ Checked(k).ack = disk[k].ack
         /\ Checked(k) # None /\ Checked(k).valid => Loads(k) /\ Checked(k).ack = disk[k].ack
         /\ rows[k] # None =>
              /\ Checked(k) # None
              /\ Checked(k).note = rows[k].note
              /\ rows[k].ack # None => Checked(k).ack = rows[k].ack
<1>1. rows[k] \in Row \cup {None} /\ disk[k] \in Bundle /\ None \notin Row
  BY LibraryAssumption DEF TypeOK, Row
<1>2. Indexed(k) \in Row /\ Indexed(k).valid /\ Indexed(k).ack = disk[k].ack
      /\ (rows[k] # None => Indexed(k).note = rows[k].note)
  BY <1>1 DEF Indexed, Row, Bundle
<1>3. rows[k] # None => /\ Hidden(k) \in Row /\ ~ Hidden(k).valid
                        /\ Hidden(k).note = rows[k].note /\ Hidden(k).ack = rows[k].ack
  BY <1>1 DEF Hidden, Row
<1>4. rows[k] = None => Hidden(k) = None
  BY DEF Hidden
<1>5. CASE Loads(k) /\ Matches(k)
  BY <1>1, <1>2, <1>5 DEF Checked, Matches
<1>6. CASE ~ (Loads(k) /\ Matches(k))
  BY <1>1, <1>3, <1>4, <1>6 DEF Checked
<1> QED
  BY <1>5, <1>6

\* Hiding a row keeps all else that it says.
LEMMA HiddenRow ==
  ASSUME TypeOK, NEW k \in Key
  PROVE  /\ Hidden(k) \in Row \cup {None}
         /\ rows[k] = None => Hidden(k) = None
         /\ rows[k] # None =>
              /\ Hidden(k) # None /\ ~ Hidden(k).valid
              /\ Hidden(k).note = rows[k].note /\ Hidden(k).ack = rows[k].ack
BY LibraryAssumption DEF TypeOK, Row, Hidden

\* Whatever a power cut leaves of a bundle is a bundle.
LEMMA OutcomesAreBundles ==
  ASSUME TypeOK, NEW k \in Key
  PROVE  Outcomes(k) \subseteq Bundle
<1>1. disk[k] \in Bundle /\ safe[k] \in Bundle
  BY DEF TypeOK
<1>2. Absent \in Bundle /\ [disk[k] EXCEPT !.ack = safe[k].ack] \in Bundle
  BY <1>1 DEF Absent, Bundle
<1> QED
  BY <1>1, <1>2 DEF Outcomes

\* The types are preserved by every step.
LEMMA LibraryTypeStep == TypeOK /\ [Next]_vars => TypeOK'
<1> SUFFICES ASSUME TypeOK, [Next]_vars PROVE TypeOK'
  OBVIOUS
<1> USE LibraryAssumption DEF TypeOK, Row, Import
<1>1. ASSUME NEW s \in Store, Reconcile(s) PROVE TypeOK'
  <2>1. rows' \in [Key -> Row \cup {None}]
    BY <1>1, CheckedRow, HiddenRow DEF Reconcile
  <2>2. missed' \subseteq Key
    BY <1>1 DEF Reconcile
  <2> QED
    BY <1>1, <2>1, <2>2 DEF Reconcile, Row
<1>2. ASSUME NEW s \in Store, NEW k \in Key, Validate(s, k) PROVE TypeOK'
  <2>1. rows' \in [Key -> Row \cup {None}]
    BY <1>2, CheckedRow, HiddenRow DEF Validate, Row
  <2>2. missed' \subseteq Key
    BY <1>2 DEF Validate
  <2> QED
    BY <1>2, <2>1, <2>2 DEF Validate, Row
<1>3. ASSUME NEW s \in Store, NEW k \in Key, Update(s, k) PROVE TypeOK'
  <2>1. Checked(k) \in Row
    BY <1>3, CheckedRow DEF Update, Checked, Hidden, Row, Indexed, Bundle
  <2>2. rows' \in [Key -> Row \cup {None}]
    BY <1>3, <2>1 DEF Update, Row
  <2> QED
    BY <1>3, <2>2 DEF Update, Row
<1>4. ASSUME NEW s \in Store, NEW k \in Key, NEW a \in Ack \cup {None}, Stage(s, k, a)
      PROVE  TypeOK'
  BY <1>4 DEF Stage, Staged
<1>5. CASE Publish
  BY <1>5 DEF Publish, At, Step, AfterRename, Bundle
<1>6. CASE SyncDirectories
  BY <1>6 DEF SyncDirectories, At, Step, Bundle
<1>7. CASE AddReceipt
  <2>1. job' \in [key : Key, ack : Ack \cup {None}, step : {"synced", "proved"}]
    BY <1>7 DEF AddReceipt, At, Step
  <2>2. disk' \in [Key -> Bundle]
    BY <1>7 DEF AddReceipt, At, Bundle
  <2> QED
    BY <1>7, <2>1, <2>2 DEF AddReceipt
<1>8. CASE SyncBundle
  <2>1. job' \in [key : Key, ack : Ack \cup {None}, step : {"synced"}]
    BY <1>8 DEF SyncBundle, At, Step
  <2>2. safe' \in [Key -> Bundle]
    BY <1>8 DEF SyncBundle, At, Bundle
  <2> QED
    BY <1>8, <2>1, <2>2 DEF SyncBundle
<1>9. CASE Index
  <2>1. job.key \in Key
    BY <1>9 DEF Index, At
  <2>2. Indexed(job.key) \in Row
    BY <2>1 DEF Indexed, Row, Bundle
  <2>3. rows' \in [Key -> Row \cup {None}]
    BY <1>9, <2>1, <2>2 DEF Index, Row
  <2> QED
    BY <1>9, <2>3 DEF Index, Row
<1>10. unsynced \cup {job.key} \subseteq Key \/ job = None
  OBVIOUS
<1>11. CASE ImportFails
  BY <1>10, <1>11 DEF ImportFails, LeavesUnsynced, At
<1>12. CASE ProcessDies
  BY <1>10, <1>12 DEF ProcessDies, LeavesUnsynced, At
<1>13. CASE PowerCut
  <2>1. disk' \in [Key -> Bundle] /\ safe' \in [Key -> Bundle]
    BY <1>13, OutcomesAreBundles DEF PowerCut
  <2>2. unsynced' \subseteq Key /\ faults' \in 0 .. MaxFaults
    BY <1>10, <1>13 DEF PowerCut, LeavesUnsynced, At
  <2>3. /\ reconciled' \in [Store -> BOOLEAN]
        /\ job' = None /\ rows' = rows /\ damaged' = damaged /\ missed' = missed
    BY <1>13 DEF PowerCut
  <2> QED
    BY <2>1, <2>2, <2>3
<1>14. ASSUME NEW k \in Key, Damage(k) PROVE TypeOK'
  <2>1. disk' \in [Key -> Bundle] /\ safe' \in [Key -> Bundle]
    <3>1. CASE /\ disk' = [disk EXCEPT ![k].files = "damaged"]
               /\ safe' = [safe EXCEPT ![k].files = "damaged"]
      BY <3>1 DEF Bundle
    <3>2. CASE /\ disk' = [disk EXCEPT ![k].ack = None]
               /\ safe' = [safe EXCEPT ![k].ack = None]
      BY <3>2 DEF Bundle
    <3> QED
      BY <1>14, <3>1, <3>2 DEF Damage
  <2>2. damaged' \subseteq Key /\ faults' \in 0 .. MaxFaults
    BY <1>14 DEF Damage
  <2> QED
    BY <1>14, <2>1, <2>2 DEF Damage
<1>15. CASE UNCHANGED vars
  BY <1>15 DEF vars
<1> QED
  BY <1>1, <1>2, <1>3, <1>4, <1>5, <1>6, <1>7, <1>8, <1>9, <1>11, <1>12, <1>13, <1>14, <1>15
     DEF Next

\* A step changes the inventory only by checking rows, by hiding one that it failed
\* to read, by editing the note of a visible one, or by indexing the bundle that was
\* just imported.
LEMMA RowsChange ==
  ASSUME TypeOK, [Next]_vars, NEW k \in Key, rows'[k] # rows[k]
  PROVE  /\ UNCHANGED <<disk, safe, damaged, unsynced>>
         /\ \/ rows'[k] = Checked(k)
            \/ rows'[k] = Hidden(k) /\ k \in missed'
            \/ /\ rows[k] # None /\ Checked(k) # None /\ Checked(k).valid
               /\ rows'[k] = [Checked(k) EXCEPT !.note = "edited"]
<1> USE LibraryAssumption DEF TypeOK, Row, Import
<1>1. CASE \E s \in Store : Reconcile(s)
  BY <1>1, HiddenRow DEF Reconcile
<1>2. ASSUME NEW s \in Store, NEW j \in Key, Validate(s, j)
      PROVE  j = k /\ (rows'[k] = Checked(k) \/ (rows'[k] = Hidden(k) /\ k \in missed'))
  BY <1>2 DEF Validate
<1>3. ASSUME NEW s \in Store, NEW j \in Key, Update(s, j)
      PROVE  j = k /\ rows'[k] = [Checked(k) EXCEPT !.note = "edited"]
  BY <1>3 DEF Update
<1>4. CASE Index
  <2>1. job.key = k /\ rows'[k] = Indexed(k) /\ Loads(k) /\ Matches(k)
    BY <1>4 DEF Index, At
  <2> QED
    BY <1>4, <2>1 DEF Index, Checked
<1>5. ~ UNCHANGED rows
  OBVIOUS
<1> QED
  BY <1>1, <1>2, <1>3, <1>4, <1>5, CheckedRow
     DEF Next, Validate, Update, Stage, Publish, SyncDirectories, AddReceipt, SyncBundle,
         ImportFails, ProcessDies, PowerCut, Damage, vars

\* No step forgets a row, a note that the user edited, or a receipt that a
\* capture had (CaptureStore.upsert and inventoryMatches).
THEOREM NothingIsForgotten == Spec => NothingForgotten
<1> DEFINE Remembered(k) == rows[k] # None =>
              /\ rows'[k] # None
              /\ rows[k].note = "edited" => rows'[k].note = "edited"
              /\ rows[k].ack # None => rows'[k].ack = rows[k].ack
<1>1. ASSUME TypeOK, [Next]_vars, NEW k \in Key PROVE Remembered(k)
  <2>1. CASE rows'[k] = rows[k]
    BY <2>1
  <2>2. CASE rows'[k] = Checked(k)
    BY <1>1, <2>2, CheckedRow
  <2>4. CASE rows'[k] = Hidden(k)
    BY <1>1, <2>4, HiddenRow
  <2>3. CASE /\ Checked(k) # None
             /\ rows'[k] = [Checked(k) EXCEPT !.note = "edited"]
    <3>1. Checked(k) \in Row
      BY <1>1, <2>3, CheckedRow
    <3>2. rows'[k] \in Row /\ rows'[k].note = "edited" /\ rows'[k].ack = Checked(k).ack
      BY <2>3, <3>1 DEF Row
    <3> QED
      BY <1>1, <3>2, CheckedRow, LibraryAssumption DEF Row
  <2> QED
    BY <1>1, <2>1, <2>2, <2>3, <2>4, RowsChange
<1>2. TypeOK /\ [Next]_vars => [\A k \in Key : Remembered(k)]_vars
  BY <1>1
<1>3. Init => TypeOK
  BY LibraryAssumption DEF Init, TypeOK, Bundle, Absent
<1> QED
  BY <1>2, <1>3, LibraryTypeStep, PTL DEF Spec, NothingForgotten

-----------------------------------------------------------------------------
\* Nobody opens the library but by reconciling it.
LEMMA OpenedByReconcile ==
  ASSUME TypeOK, [Next]_vars, ~ Open, Open'
  PROVE  \E s \in Store : Reconcile(s)
BY DEF TypeOK, Open, Next, Validate, Update, Stage, Publish, SyncDirectories, AddReceipt,
       SyncBundle, Index, ImportFails, ProcessDies, PowerCut, Damage, vars

\* While the library stays open, a bundle that is whole stays so unless its files
\* change by themselves, and only a receipt is ever added to it.
LEMMA WholeStays ==
  ASSUME TypeOK, StagedIsNew, [Next]_vars, Open', NEW k \in Key \ damaged', Loads(k)
  PROVE  disk'[k].files = "whole" /\ (disk[k].ack # None => disk'[k].ack = disk[k].ack)
<1> USE DEF TypeOK, Loads, Row, Import
<1>1. CASE UNCHANGED disk
  BY <1>1
<1>2. CASE Publish
  <2>1. job.key # k
    BY <1>2 DEF Publish, StagedIsNew, At
  <2> QED
    BY <1>2, <2>1 DEF Publish, At
<1>3. CASE AddReceipt
  <2>1. disk'[k].files = disk[k].files
    BY <1>3 DEF AddReceipt, At, Bundle
  <2>2. disk[k].ack # None => disk'[k].ack = disk[k].ack
    BY <1>3 DEF AddReceipt, At, Bundle
  <2> QED
    BY <2>1, <2>2
<1>4. CASE PowerCut
  BY <1>4 DEF PowerCut, Open
<1>5. ASSUME NEW j \in Key, Damage(j) PROVE disk'[k] = disk[k]
  BY <1>5 DEF Damage
<1> QED
  BY <1>1, <1>2, <1>3, <1>4, <1>5
     DEF Next, Reconcile, Validate, Update, Stage, SyncDirectories, SyncBundle, Index,
         ImportFails, ProcessDies, vars

\* What a row says after it changed is on the disk.
LEMMA ChangedRowIsTrue ==
  ASSUME TypeOK, [Next]_vars, NEW k \in Key, rows'[k] # rows[k],
         rows'[k] # None, rows'[k].valid
  PROVE  Loads(k) /\ disk' = disk /\ rows'[k].ack = disk[k].ack
<1>1. CASE rows'[k] = Checked(k)
  BY <1>1, RowsChange, CheckedRow
<1>2. CASE /\ Checked(k) # None /\ Checked(k).valid
           /\ rows'[k] = [Checked(k) EXCEPT !.note = "edited"]
  <2>1. Checked(k) \in Row
    BY <1>2, CheckedRow
  <2>2. rows'[k].ack = Checked(k).ack
    BY <1>2, <2>1 DEF Row
  <2> QED
    BY <1>2, <2>2, RowsChange, CheckedRow
<1>3. rows'[k] # Hidden(k)
  BY HiddenRow
<1> QED
  BY <1>1, <1>2, <1>3, RowsChange

LEMMA VisibleStep == TypeOK /\ StagedIsNew /\ VisibleIsWhole /\ [Next]_vars => VisibleIsWhole'
<1> SUFFICES ASSUME TypeOK, StagedIsNew, VisibleIsWhole, [Next]_vars, Open',
                    NEW k \in Key \ damaged', rows'[k] # None, rows'[k].valid
             PROVE  disk'[k].files = "whole" /\ rows'[k].ack \in {None, disk'[k].ack}
  BY DEF VisibleIsWhole, Loads
<1>1. CASE rows'[k] # rows[k]
  BY <1>1, ChangedRowIsTrue DEF Loads
<1>2. CASE rows'[k] = rows[k] /\ ~ Open
  <2>1. disk' = disk /\ rows'[k] \in {Checked(k), Hidden(k)}
    BY <1>2, OpenedByReconcile DEF Reconcile
  <2> QED
    BY <2>1, CheckedRow, HiddenRow DEF Loads
<1>3. CASE rows'[k] = rows[k] /\ Open
  <2>1. damaged \subseteq damaged'
    BY DEF Next, Reconcile, Validate, Update, Stage, Publish, SyncDirectories, AddReceipt,
           SyncBundle, Index, ImportFails, ProcessDies, PowerCut, Damage, vars
  <2>2. Loads(k) /\ rows[k].ack \in {None, disk[k].ack}
    BY <1>3, <2>1 DEF VisibleIsWhole
  <2> QED
    BY <1>3, <2>2, WholeStays
<1> QED
  BY <1>1, <1>2, <1>3

\* A row that is not looked at keeps what was missed of it, and no step that opens
\* the library leaves a row out.
LEMMA LookedAtOrLeft ==
  ASSUME TypeOK, [Next]_vars, NEW k \in Key, rows'[k] # None
  PROVE  \/ rows'[k] = rows[k] /\ (k \in missed => k \in missed') /\ (Open' => Open)
         \/ rows'[k] = Checked(k)
         \/ rows'[k] = Hidden(k) /\ k \in missed'
         \/ /\ Checked(k) # None /\ Checked(k).valid
            /\ rows'[k] = [Checked(k) EXCEPT !.note = "edited"]
<1> USE DEF TypeOK
<1>1. CASE rows'[k] # rows[k]
  BY <1>1, RowsChange
<1>2. ASSUME NEW s \in Store, Reconcile(s)
      PROVE  rows'[k] = Checked(k) \/ (rows'[k] = Hidden(k) /\ k \in missed')
  BY <1>2, HiddenRow DEF Reconcile
<1>3. ASSUME NEW s \in Store, NEW j \in Key, Validate(s, j) \/ Update(s, j)
      PROVE  (k \in missed => k \in missed') /\ (Open' => Open)
  BY <1>3 DEF Validate, Update, Open
<1>4. CASE Index
  <2>1. CASE job.key = k
    BY <1>4, <2>1 DEF Index, At, Checked
  <2>2. CASE job.key # k
    BY <1>4, <2>2 DEF Index, At, Open
  <2> QED
    BY <2>1, <2>2
<1>5. ASSUME UNCHANGED missed, UNCHANGED reconciled \/ ~ Open'
      PROVE  (k \in missed => k \in missed') /\ (Open' => Open)
  BY <1>5 DEF Open
<1>6. ASSUME ProcessDies \/ PowerCut PROVE UNCHANGED missed /\ ~ Open'
  BY <1>6 DEF ProcessDies, PowerCut, Open
<1> QED
  BY <1>1, <1>2, <1>3, <1>4, <1>5, <1>6
     DEF Next, Stage, Publish, SyncDirectories, AddReceipt, SyncBundle, ImportFails, Damage,
         vars

LEMMA StagedStep == TypeOK /\ StagedIsNew /\ [Next]_vars => StagedIsNew'
BY DEF TypeOK, Import, StagedIsNew, At, Step, Staged, AfterRename, Next, Reconcile, Validate, Update,
       Stage, Publish, SyncDirectories, AddReceipt, SyncBundle, Index, ImportFails,
       ProcessDies, PowerCut, Damage, vars

\* A key that is left alone stays kept: an import that ends between rename and
\* synchronization puts its key into unsynced, and then nothing is promised.
LEMMA KeptStep ==
  ASSUME TypeOK, StagedIsNew, [Next]_vars,
         NEW k \in Key \ (damaged' \cup unsynced'), k \notin damaged \cup unsynced => Kept(k)
  PROVE  Kept(k)'
<1> USE LibraryAssumption DEF TypeOK, Row, Import
<1>1. k \notin damaged \cup unsynced
  BY DEF Next, Reconcile, Validate, Update, Stage, Publish, SyncDirectories, AddReceipt,
         SyncBundle, Index, ImportFails, LeavesUnsynced, ProcessDies, PowerCut, Damage, vars
<1>2. Kept(k)
  BY <1>1
<1>3. CASE UNCHANGED <<disk, safe, job, damaged, unsynced>> /\ [Next]_vars
  <2>1. (Settled(k) => safe[k] = disk[k])'
        /\ (At("proved") /\ job.key = k => safe[k].files = disk[k].files)'
    BY <1>2, <1>3 DEF Kept, Settled, At
  <2>2. ASSUME rows'[k] # None
        PROVE  Loads(k)' /\ Matches(k)' /\ (Open' => rows'[k].valid \/ k \in missed')
    <3>1. CASE rows'[k] = rows[k] /\ (k \in missed => k \in missed') /\ (Open' => Open)
      BY <1>2, <1>3, <2>2, <3>1 DEF Kept, Loads, Matches
    <3>2. CASE rows'[k] = Checked(k)
      <4>1. rows[k] # None => Loads(k) /\ Matches(k)
        BY <1>2 DEF Kept
      <4>2. rows[k] = None => Loads(k) /\ Matches(k)
        BY <2>2, <3>2 DEF Checked, Hidden
      <4> QED
        BY <1>3, <3>2, <4>1, <4>2, CheckedRow DEF Loads, Matches
    <3>3. CASE rows'[k] = Hidden(k) /\ k \in missed'
      <4>1. rows[k] # None /\ rows'[k].ack = rows[k].ack
        BY <2>2, <3>3, HiddenRow
      <4>2. Loads(k) /\ Matches(k)
        BY <1>2, <4>1 DEF Kept
      <4> QED
        BY <1>3, <3>3, <4>1, <4>2 DEF Loads, Matches
    <3>4. CASE /\ Checked(k) # None /\ Checked(k).valid
               /\ rows'[k] = [Checked(k) EXCEPT !.note = "edited"]
      <4>1. Checked(k) \in Row
        BY <3>4, CheckedRow
      <4>2. rows'[k].valid /\ rows'[k].ack = Checked(k).ack
        BY <3>4, <4>1 DEF Row
      <4> QED
        BY <1>3, <3>4, <4>2, CheckedRow DEF Loads, Matches
    <3> QED
      BY <2>2, <3>1, <3>2, <3>3, <3>4, LookedAtOrLeft
  <2> QED
    BY <2>1, <2>2 DEF Kept
<1>4. ASSUME NEW s \in Store, NEW j \in Key, NEW a \in Ack \cup {None}, Stage(s, j, a)
      PROVE  Kept(k)'
  BY <1>2, <1>4 DEF Stage, Staged, Kept, Settled, At, Loads, Matches, Open
<1>5. CASE Publish
  <2>1. job.key = k => rows[k] = None
    BY <1>2, <1>5 DEF Publish, StagedIsNew, At, Kept, Loads
  <2>2. CASE job.key = k
    BY <1>2, <1>5, <2>1, <2>2 DEF Publish, At, Step, AfterRename, Kept, Settled
  <2>3. CASE job.key # k
    BY <1>2, <1>5, <2>3
       DEF Publish, At, Step, AfterRename, Kept, Settled, Loads, Matches, Open
  <2> QED
    BY <2>2, <2>3
<1>6. CASE SyncDirectories
  BY <1>2, <1>6 DEF SyncDirectories, At, Step, Kept, Settled, Loads, Matches, Open
<1>7. CASE AddReceipt
  BY <1>2, <1>7 DEF AddReceipt, At, Step, Kept, Settled, Loads, Matches, Open, Bundle
<1>8. CASE SyncBundle
  BY <1>2, <1>8 DEF SyncBundle, At, Step, Kept, Settled, Loads, Matches, Open, Bundle
<1>9. CASE Index
  BY <1>2, <1>9 DEF Index, At, Kept, Settled, Loads, Matches, Open, Indexed, Bundle
<1>10. CASE ImportFails \/ ProcessDies
  <2>1. Settled(k)
    BY <1>10 DEF ImportFails, ProcessDies, LeavesUnsynced, At, Settled
  <2> QED
    BY <1>2, <1>10, <2>1
       DEF ImportFails, ProcessDies, At, Kept, Settled, Loads, Matches, Open
<1>11. CASE PowerCut
  <2>1. safe[k] = disk[k]
    BY <1>2, <1>11 DEF PowerCut, LeavesUnsynced, At, Settled, Kept
  <2>2. disk'[k] \in Outcomes(k) /\ safe'[k] = disk'[k]
    BY <1>11 DEF PowerCut
  <2>3. disk[k].files # "absent" => disk'[k] = disk[k]
    BY <2>1, <2>2 DEF Outcomes, Bundle
  <2> QED
    BY <1>2, <1>11, <2>2, <2>3 DEF PowerCut, At, Kept, Settled, Loads, Matches, Open
<1>12. ASSUME NEW j \in Key, Damage(j) PROVE Kept(k)'
  BY <1>2, <1>12 DEF Damage, At, Kept, Settled, Loads, Matches, Open
<1> QED
  BY <1>3, <1>4, <1>5, <1>6, <1>7, <1>8, <1>9, <1>10, <1>11, <1>12
     DEF Next, Reconcile, Validate, Update, vars

\* The invariant holds in every reachable state.
THEOREM LibraryInductive == Spec => []LibraryIInv
<1>1. Init => LibraryIInv
  BY LibraryAssumption
     DEF Init, LibraryIInv, TypeOK, Bundle, Absent, VisibleIsWhole, StagedIsNew, At, Kept, Settled
<1>2. LibraryIInv /\ [Next]_vars => LibraryIInv'
  BY LibraryTypeStep, VisibleStep, StagedStep, KeptStep DEF LibraryIInv
<1> QED
  BY <1>1, <1>2, PTL DEF Spec

\* What an open library shows is whole and claims no receipt that is not there.
THEOREM LibraryInvariant == Spec => []LibraryInv
<1>1. LibraryIInv => LibraryInv
  BY DEF LibraryIInv, LibraryInv
<1> QED
  BY <1>1, LibraryInductive, PTL

\* What was ever in the inventory is listed whenever the library is open, after
\* any number of deaths and power cuts (the order of publishStaging), unless the
\* last look at its files failed; what reads them next lists it again.
THEOREM ListedIsNeverLost == Spec => []ListedStays
<1>1. LibraryIInv => ListedStays
  BY DEF LibraryIInv, ListedStays, Kept
<1> QED
  BY <1>1, LibraryInductive, PTL
=============================================================================
