-------------------------- MODULE AtomicWriteProofs --------------------------
(***************************************************************************)
(* The atomic write implements DocumentSlot for every set of paths and     *)
(* files, any number of readers and any length of document.  The argument: *)
(* what an entry names was flushed whole before it was linked or renamed,  *)
(* and the one file a writer still fills is named by no entry.             *)
(***************************************************************************)
EXTENDS AtomicWrite, TLAPS

\* What a directory names is a whole file, flushed in full.
NamesWhole(dir) ==
  \A p \in Path : dir[p] # Nil =>
    dir[p] \in used /\ written[dir[p]] = Parts /\ synced[dir[p]] = Parts

\* The file a writer fills is its own.
StagedIsPrivate ==
  pc = "write" =>
    /\ \A p \in Path : entry[p] # staged /\ disk[p] # staged
    /\ \A r \in Reader : handle[r] # staged

\* A staged file is flushed in full before its path is looked at.
StagedIsFlushed ==
  pc \in {"place", "publish"} => written[staged] = Parts /\ synced[staged] = Parts

WriteInv ==
  /\ TypeOK
  /\ NamesWhole(entry) /\ NamesWhole(disk)
  /\ StagedIsPrivate /\ StagedIsFlushed
  /\ \A r \in Reader : handle[r] # Nil => handle[r] \in used
  /\ ReadersSeeWhole
  /\ staged # Nil => staged \in used
  /\ pc \in {"write", "place", "publish"} => ~changed
  /\ ChangeIsDurable

\* The invariant holds of an archive that holds nothing yet.
LEMMA InitWriteInv == Init => WriteInv
<1> SUFFICES ASSUME Init PROVE WriteInv
  OBVIOUS
<1>1. 0 \in 0..Parts
  BY WriteAssumption
<1>2. TypeOK
  BY <1>1, WriteAssumption DEF Init, TypeOK
<1> QED
  BY <1>2 DEF Init, WriteInv, NamesWhole, StagedIsPrivate, StagedIsFlushed,
              ReadersSeeWhole, ChangeIsDurable

\* Every step keeps it.
LEMMA StepWriteInv == WriteInv /\ [Next]_vars => WriteInv'
<1> SUFFICES ASSUME WriteInv, [Next]_vars PROVE WriteInv'
  OBVIOUS
<1> USE WriteAssumption
    DEF WriteInv, TypeOK, NamesWhole, StagedIsPrivate, StagedIsFlushed, ReadersSeeWhole,
        ChangeIsDurable, writer
<1>1. ASSUME NEW p \in Path, Stage(p) PROVE WriteInv'
  <2>1. PICK i \in Inode \ used : staged' = i /\ used' = used \cup {i}
    BY <1>1 DEF Stage
  <2>2. /\ pc' = "write" /\ dest' = p /\ warned' = FALSE /\ changed' = FALSE
        /\ UNCHANGED <<entry, disk, written, synced, handle>>
    BY <1>1 DEF Stage
  <2>3. TypeOK'
    BY <2>1, <2>2
  <2>4. (NamesWhole(entry) /\ NamesWhole(disk) /\ StagedIsPrivate)'
    BY <2>1, <2>2
  <2> QED BY <2>1, <2>2, <2>3, <2>4
<1>2. CASE Write
  <2>1. staged \in Inode /\ written[staged] + 1 \in 0..Parts
    <3>1. staged \in Inode /\ written[staged] \in 0..Parts /\ written[staged] < Parts
      BY <1>2 DEF Write
    <3> QED BY <3>1, WriteAssumption, SMT
  <2>2. \A i \in Inode \ {staged} : written'[i] = written[i]
    BY <1>2 DEF Write
  <2>3. TypeOK'
    BY <1>2, <2>1 DEF Write
  <2>4. (NamesWhole(entry) /\ NamesWhole(disk) /\ StagedIsPrivate /\ ReadersSeeWhole)'
    BY <1>2, <2>2 DEF Write
  <2>5. (StagedIsFlushed /\ ChangeIsDurable)'
    BY <1>2 DEF Write
  <2>6. UNCHANGED <<used, pc, staged, changed, handle>>
    BY <1>2 DEF Write
  <2>7. /\ (\A r \in Reader : handle[r] # Nil => handle[r] \in used)'
        /\ (staged # Nil => staged \in used)'
        /\ (pc \in {"write", "place", "publish"} => ~changed)'
    BY <2>6
  <2> QED BY <2>3, <2>4, <2>5, <2>7
<1>3. CASE Finish
  BY <1>3 DEF Finish
<1>4. CASE FindStored
  BY <1>4 DEF FindStored
<1>5. CASE PlaceNew
  BY <1>5 DEF PlaceNew
<1>6. CASE Link
  BY <1>6 DEF Link
<1>7. CASE Unstage
  BY <1>7 DEF Unstage
<1>8. CASE Rename
  BY <1>8 DEF Rename
<1>9. ASSUME NEW p \in Path, Unlink(p) PROVE WriteInv'
  BY <1>9 DEF Unlink
<1>10. CASE FlushDirectory
  BY <1>10 DEF FlushDirectory
<1>11. CASE Abandon
  BY <1>11 DEF Abandon
<1>12. CASE Report
  BY <1>12 DEF Report
<1>13. CASE Kill
  BY <1>13 DEF Kill
<1>14. ASSUME NEW r \in Reader, NEW p \in Path, Open(r, p) PROVE WriteInv'
  BY <1>14 DEF Open
<1>15. CASE PowerLoss
  BY <1>15 DEF PowerLoss
<1>16. CASE UNCHANGED vars
  BY <1>16 DEF vars
<1> QED
  BY <1>1, <1>2, <1>3, <1>4, <1>5, <1>6, <1>7, <1>8, <1>9, <1>10, <1>11, <1>12, <1>13,
     <1>14, <1>15, <1>16
  DEF Next

\* Every variable keeps its type; a writer outside a write holds no staging file.
THEOREM WriteTypes == Spec => []TypeOK
<1>1. WriteInv => TypeOK
  BY DEF WriteInv
<1> QED BY InitWriteInv, StepWriteInv, <1>1, PTL DEF Spec

\* read_document: the file a reader has open is a whole document and stays one.
THEOREM ReadersAlwaysSeeWhole == Spec => []ReadersSeeWhole
<1>1. WriteInv => ReadersSeeWhole
  BY DEF WriteInv
<1> QED BY InitWriteInv, StepWriteInv, <1>1, PTL DEF Spec

\* Staging::publish and replace: a change reported without a warning is durable.
THEOREM ChangesAreDurable == Spec => []ChangeIsDurable
<1>1. WriteInv => ChangeIsDurable
  BY DEF WriteInv
<1> QED BY InitWriteInv, StepWriteInv, <1>1, PTL DEF Spec

----------------------------------------------------------------------------
(* Refinement *)

Seen == [p \in Path |-> Held(entry[p], written)]
Kept == [p \in Path |-> Held(disk[p], synced)]

\* No path is ever torn: a reader finds what the directory names.
LEMMA SlotsAreEntries == WriteInv => Seen = entry /\ Kept = disk
BY DEF WriteInv, TypeOK, NamesWhole, Seen, Kept, Held

\* Every step is a step of DocumentSlot or leaves it as it is.
LEMMA StepKeepsSlot ==
  ASSUME WriteInv, WriteInv', [Next]_vars
  PROVE  [Slot!Next]_<<Seen, Kept>>
<1>1. Seen = entry /\ Kept = disk
  BY SlotsAreEntries
<1>2. Seen' = entry' /\ Kept' = disk'
  BY DEF WriteInv, TypeOK, NamesWhole, Seen, Kept, Held
<1> USE DEF WriteInv, TypeOK, writer
<1>3. SUFFICES \/ UNCHANGED <<entry, disk>>
               \/ Slot!Next
  BY <1>1, <1>2
<1> HIDE DEF Held
<1>4. ASSUME NEW p \in Path, Stage(p) PROVE UNCHANGED <<entry, disk>>
  BY <1>4 DEF Stage
<1>5. CASE Write \/ Finish \/ FindStored \/ PlaceNew \/ Unstage \/ Abandon \/ Report \/ Kill
  BY <1>5 DEF Write, Finish, FindStored, PlaceNew, Unstage, Abandon, Report, Kill
<1>6. CASE Link
  <2>1. Slot!Publish(dest, staged)
    BY <1>1, <1>2, <1>6 DEF Link, Slot!Publish, Seen, Kept
  <2> QED BY <1>6, <2>1 DEF Link, Slot!Next
<1>7. CASE Rename
  <2>1. Slot!Replace(dest, staged)
    BY <1>1, <1>2, <1>7 DEF Rename, Slot!Replace, Seen, Kept
  <2> QED BY <1>7, <2>1 DEF Rename, Slot!Next
<1>8. ASSUME NEW p \in Path, Unlink(p) PROVE Slot!Next
  <2>1. Slot!Unlink(p)
    BY <1>1, <1>2, <1>8 DEF Unlink, Slot!Unlink, Seen, Kept
  <2> QED BY <2>1 DEF Slot!Next
<1>9. CASE FlushDirectory
  <2>1. Slot!Flush \/ UNCHANGED <<entry, disk>>
    BY <1>1, <1>2, <1>9 DEF FlushDirectory, Slot!Flush, Seen, Kept
  <2> QED BY <2>1 DEF Slot!Next
<1>10. ASSUME NEW r \in Reader, NEW p \in Path, Open(r, p) PROVE UNCHANGED <<entry, disk>>
  BY <1>10 DEF Open
<1>11. CASE PowerLoss
  <2>1. \A p \in Path : entry'[p] \in {entry[p], disk[p]}
    BY <1>11 DEF PowerLoss
  <2>2. disk' = entry' /\ entry' \in [Path -> Inode \cup {Nil}]
    BY <1>11 DEF PowerLoss
  <2>3. Slot!PowerLoss
    BY <1>1, <1>2, <2>1, <2>2 DEF Slot!PowerLoss, Slot!Contents, Seen, Kept
  <2> QED BY <2>3 DEF Slot!Next
<1>12. CASE UNCHANGED vars
  BY <1>12 DEF vars
<1> QED
  BY <1>4, <1>5, <1>6, <1>7, <1>8, <1>9, <1>10, <1>11, <1>12 DEF Next

\* Staging, write.rs: the atomic write implements the slot.  A path holds a
\* whole document or nothing, is never taken over unless its kind is
\* rewritable, and a power loss undoes an entry whole.
THEOREM ImplementsSlot == Spec => KeepsSlot
<1>1. Init => Slot!Init
  <2> SUFFICES ASSUME Init PROVE Slot!Init
    OBVIOUS
  <2>1. Seen = entry /\ Kept = disk
    BY InitWriteInv, SlotsAreEntries
  <2> QED BY <2>1 DEF Init, Slot!Init, Seen, Kept
<1>2. WriteInv /\ WriteInv' /\ [Next]_vars => [Slot!Next]_<<Seen, Kept>>
  BY StepKeepsSlot
<1> QED
  BY InitWriteInv, StepWriteInv, <1>1, <1>2, PTL DEF Spec, KeepsSlot, Slot!Spec, Seen, Kept
=============================================================================
