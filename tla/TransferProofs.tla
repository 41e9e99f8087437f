--------------------------- MODULE TransferProofs ---------------------------
(***************************************************************************)
(* What holds of exports and imports of exports, for every archive, every  *)
(* number of processes and every point at which one of them is refused,    *)
(* killed or handed changed bytes: an export names nothing it lacks, a     *)
(* restore is whole or undone, and it spares what was there.               *)
(*                                                                         *)
(* A restore writes what Archive writes, but under identifiers that were   *)
(* drawn before.  So the first invariant is that of Archive again, with a  *)
(* restore as one more holder of the lock; and while a restore holds it,   *)
(* no process of Archive is inside a command, so what the restore has seen *)
(* of the archive stays as it was.                                         *)
(***************************************************************************)
EXTENDS Transfer, ArchiveProofs

USE DEF Goto, Forget, DropLock, records, ghosts, locals

----------------------------------------------------------------------------
(* The inductive invariants *)

Parts == RecordKinds \cup {"objects"}

\* The archive between two commands, whoever holds the lock.
Quiet ==
  /\ pc = [p \in Proc |-> "idle"] /\ draft = [p \in Proc |-> Nil]
  /\ todo \in [Proc -> Seq(Digest)] /\ plan \in [Proc -> Plan]
  /\ Holdings \in Copy /\ derived \subseteq Digest
  /\ drawn \subseteq CaseId \cup SubmissionId \cup ReceiptId \cup AssociationId \cup EventId
  /\ strandedRecords \subseteq AssociationId \cup EventId /\ strandedObjects \subseteq Digest
  /\ IdsUnique

LockShared == IF Restoring THEN lock = Restorer /\ Quiet ELSE IdentityInv

\* The records of a copy have identifiers that were drawn.
AllDrawn(copy) == \A kind \in RecordKinds : Ids(copy[kind]) \subseteq drawn

\* How far an export is, and that nothing of it is named and not taken.
ExporterTyped ==
  /\ bundle \in Copy \cup {Absent, Partial}
  /\ exporter \in [at : {"idle", "read", "prepare", "copy"},
                   scope : CaseId \cup {Everything, Nil}, read : 0..5,
                   got : Copy, left : SUBSET Digest]
  /\ withdrawn \subseteq AssociationId
  /\ exporter.at = "idle" => exporter = NoExport
  /\ exporter.at = "read" => exporter.read \in 0..4

ExportHeld ==
  /\ AllDrawn(exporter.got)
  /\ exporter.at = "copy" => Digests(exporter.got) \subseteq exporter.got.objects
  /\ bundle \in Copy => AllDrawn(bundle) /\ Digests(bundle) \subseteq bundle.objects
  /\ bundle \in Copy => exporter.at = "idle"

ExportInv == ExporterTyped /\ ExportHeld

\* What a restore has in hand, and what the archive is made of meanwhile.
RestorerTyped ==
  /\ restorer \in [at : {"idle", "probe", "write", "done", "undo", "undone"},
                   left : Work, wrote : Copy, before : Copy, spoilt : BOOLEAN]
  /\ ~Restoring => restorer = NoRestore
  /\ Restoring => bundle \in Copy

\* What was there stays; what the restore wrote is apart from it; and while
\* every unlink of an undo did its work, the archive is the one and the other.
Separate(part) ==
  /\ restorer.before[part] \subseteq Holdings[part]
  /\ restorer.wrote[part] \cap restorer.before[part] = {}
  /\ ~restorer.spoilt => Holdings[part] \subseteq restorer.before[part] \cup restorer.wrote[part]

\* Everything of the export is in the archive, or still to be written.
Accounted(part) ==
  restorer.left[part] \subseteq bundle[part]
    /\ bundle[part] \subseteq Holdings[part] \cup restorer.left[part]

\* A restore of what is there has nothing to write but found objects.
NothingToWrite ==
  /\ restorer.wrote = Nothing /\ restorer.left.fresh = {}
  /\ \A kind \in RecordKinds : restorer.left[kind] = {}

RestoreHeld ==
  Restoring =>
    /\ \A part \in Parts : Separate(part)
    /\ restorer.at \in {"write", "done"} => \A part \in Parts : Accounted(part)
    /\ restorer.at = "probe" => restorer.wrote = Nothing
    /\ restorer.at \in {"probe", "write", "done"} => ~restorer.spoilt
    /\ restorer.at = "done" => restorer.left = NoWork
    /\ restorer.at = "undone" => restorer.wrote = Nothing
    /\ restorer.at \in {"write", "done"} /\ Within(bundle, restorer.before) => NothingToWrite

RestoreInv == RestorerTyped /\ RestoreHeld

TransferInv == LockShared /\ ExportInv /\ RestoreInv

----------------------------------------------------------------------------
(* Copies, part by part *)

\* What the parts of a copy are sets of.
Contained == [cases |-> Case, submissions |-> Submission, receipts |-> Receipt,
              associations |-> Association, events |-> ImportEvent, objects |-> Digest]

\* A copy is its parts.
LEMMA CopyParts ==
  ASSUME NEW X \in Copy
  PROVE  /\ DOMAIN X = Parts
         /\ \A part \in Parts : X[part] \subseteq Contained[part]
         /\ \A Y \in Copy : (\A part \in Parts : X[part] = Y[part]) => X = Y
BY DEF Copy, Parts, RecordKinds, Contained

\* Another set of documents in one part of a copy.
Put(X, part, docs) == [X EXCEPT ![part] = docs]

LEMMA CopyPut ==
  ASSUME NEW X \in Copy, NEW part \in Parts, NEW docs \in SUBSET Contained[part]
  PROVE  /\ Put(X, part, docs) \in Copy
         /\ \A other \in Parts :
              Put(X, part, docs)[other] = IF other = part THEN docs ELSE X[other]
BY DEF Put, Copy, Parts, RecordKinds, Contained

\* The same for what a restore has still to write.
LEMMA WorkPut ==
  ASSUME NEW X \in Work, NEW part \in Parts, NEW docs \in SUBSET Contained[part]
  PROVE  /\ Put(X, part, docs) \in Work
         /\ Put(X, part, docs).fresh = X.fresh
         /\ \A other \in Parts :
              Put(X, part, docs)[other] = IF other = part THEN docs ELSE X[other]
BY DEF Put, Work, Parts, RecordKinds, Contained

LEMMA WorkParts ==
  ASSUME NEW X \in Work
  PROVE  /\ X.fresh \subseteq Digest
         /\ \A part \in Parts : X[part] \subseteq Contained[part]
BY DEF Work, Parts, RecordKinds, Contained

\* Identifiers are unique if they are in every directory.
LEMMA HoldingsApart == IdsUnique <=> \A kind \in RecordKinds : UniqueIds(Holdings[kind])
BY DEF IdsUnique, Holdings, RecordKinds

\* A kind that becomes other documents leaves the other parts alone.
LEMMA BecomePuts ==
  ASSUME NEW kind \in RecordKinds, NEW docs, Become(kind, docs), objects' = objects
  PROVE  \A part \in Parts : Holdings'[part] = IF part = kind THEN docs ELSE Holdings[part]
BY DEF Become, Holdings, Parts, RecordKinds

----------------------------------------------------------------------------
(* Sharing the lock *)

\* Between two commands the archive is as its own invariant says.
LEMMA QuietArchive ==
  ASSUME Quiet, lock \in {Free, Abandoned}
  PROVE  IdentityInv
<1>1. \A p \in Proc : pc[p] = "idle" /\ draft[p] = Nil
  BY DEF Quiet
<1>2. TypeOK
  <2>1. /\ pc \in [Proc -> Stages] /\ draft \in [Proc -> Drafts]
        /\ todo \in [Proc -> Seq(Digest)] /\ plan \in [Proc -> Plan]
    BY DEF Quiet, Stages, Drafts
  <2>2. /\ objects \subseteq Digest /\ events \subseteq ImportEvent /\ cases \subseteq Case
        /\ submissions \subseteq Submission /\ receipts \subseteq Receipt
        /\ associations \subseteq Association
    BY DEF Quiet, Holdings, Copy
  <2> QED BY <1>1, <2>1, <2>2 DEF Quiet, TypeOK
<1>3. HasFile /\ WriterHoldsLock /\ \A p \in Proc : InPlace(p)
  BY <1>1 DEF HasFile, WriterHoldsLock, Working, InPlace
<1> QED BY <1>2, <1>3 DEF IdentityInv, LockInv, TypeInv, Quiet

LEMMA ArchiveHoldings ==
  ASSUME IdentityInv
  PROVE  Holdings \in Copy /\ IdsUnique
BY DEF IdentityInv, LockInv, TypeInv, TypeOK, Holdings, Copy

\* With the lock free, no process is inside a command.
LEMMA ArchiveQuiet ==
  ASSUME IdentityInv, lock = Free
  PROVE  Quiet
<1>1. TypeOK /\ \A p \in Proc : pc[p] = "idle"
  BY ConstantsAssumption DEF IdentityInv, LockInv, TypeInv, WriterHoldsLock, Working
<1>2. pc \in [Proc -> Stages] /\ draft \in [Proc -> Drafts]
  BY <1>1 DEF TypeOK
<1>3. \A p \in Proc : draft[p] = Nil
  BY <1>1 DEF TypeOK, Drafting
<1>4. pc = [p \in Proc |-> "idle"] /\ draft = [p \in Proc |-> Nil]
  BY <1>1, <1>2, <1>3
<1> QED BY <1>1, <1>4, ArchiveHoldings DEF Quiet, TypeOK

\* While a restore holds the lock, no command of Archive takes a step.
LEMMA RestoreStopsArchive ==
  ASSUME lock = Restorer, Quiet, [Next]_vars
  PROVE  UNCHANGED vars
<1>1. \A p \in Proc : pc[p] = "idle"
  BY DEF Quiet
<1>2. ASSUME NEW p \in Proc, File(p) PROVE FALSE
  <2>1. ASSUME NEW op \in Ops, Acquire(p, op) PROVE FALSE
    BY <2>1, TransferAssumption DEF Acquire
  <2>2. CASE \/ Import(p) \/ AddSubmission(p) \/ StoreObject(p) \/ WriteEvent(p)
             \/ WriteSubmission(p) \/ AddReceipt(p) \/ WriteReceipt(p)
             \/ CreateAssociation(p) \/ RetireAssociation(p) \/ WriteAssociation(p)
    BY <1>1, <2>2, Zenon
    DEF Import, AddSubmission, StoreObject, WriteEvent, WriteSubmission, AddReceipt,
        WriteReceipt, CreateAssociation, RetireAssociation, WriteAssociation
  <2>3. CASE \/ CreateCase(p) \/ UpdateCase(p) \/ ReplaceCase(p) \/ Derive(p)
             \/ (\E d \in Digest : Describe(p, d)) \/ Sweep(p) \/ Release(p)
    BY <1>1, <2>3, Zenon
    DEF CreateCase, UpdateCase, ReplaceCase, Derive, Describe, Sweep, Release
  <2> QED BY <1>2, <2>1, <2>2, <2>3, Zenon DEF File
<1>3. ASSUME NEW p \in Proc, Delete(p) PROVE FALSE
  BY <1>1, <1>3 DEF Delete, DeleteCase, Probe, UnlinkAssociation, UnlinkReceipt,
     UnlinkSubmission, UnlinkCase, UnlinkDerived, UnlinkObject, RefuseObject, RefuseUnlink,
     BeginPurge, UnlinkEvent, RefuseEvent, EndDeletion, InPass
<1>4. ASSUME NEW p \in Proc, Refuse(p) \/ Crash(p) PROVE FALSE
  BY <1>1, <1>4 DEF Refuse, Crash, Working, Operations, Writes
<1>5. ~RemoveAbandonedLock
  BY TransferAssumption DEF RemoveAbandonedLock
<1> QED BY <1>2, <1>3, <1>4, <1>5 DEF Next, Step

----------------------------------------------------------------------------
(* Restore: what each step moves *)

\* The type of a restore's memory.
Hands == [at : {"idle", "probe", "write", "done", "undo", "undone"},
          left : Work, wrote : Copy, before : Copy, spoilt : BOOLEAN]

\* What no step of a restore touches once it has the lock.
Aside ==
  UNCHANGED <<lock, derived, pc, todo, draft, plan, strandedRecords, strandedObjects,
              bundle, exporter, withdrawn>>

\* An object is stored or found stored, and counts as created if it was not.
LEMMA ObjectMoves ==
  ASSUME restorer \in Hands, NEW d \in Digest, NEW found \in Digest, RestoreObject(d, found)
  PROVE  /\ restorer' \in Hands /\ restorer.at = "write" /\ d \in restorer.left.objects
         /\ restorer'.at = (IF found = d THEN "write" ELSE "undo")
         /\ restorer'.before = restorer.before /\ restorer'.spoilt = restorer.spoilt
         /\ restorer'.left.fresh = restorer.left.fresh \cup ({found} \ objects)
         /\ \A part \in Parts :
              /\ Holdings'[part] = Holdings[part] \cup IF part = "objects" THEN {found} ELSE {}
              /\ restorer'.left[part] = restorer.left[part] \ IF part = "objects" THEN {d} ELSE {}
              /\ restorer'.wrote[part] = restorer.wrote[part]
                   \cup IF part = "objects" THEN {found} \ objects ELSE {}
         /\ Aside /\ drawn' = drawn
<1>1. /\ restorer.at = "write" /\ d \in restorer.left.objects
      /\ objects' = objects \cup {found}
      /\ UNCHANGED <<events, cases, submissions, receipts, associations, drawn>> /\ Aside
  BY DEF RestoreObject, Aside
<1> DEFINE created == {found} \ objects
<1>2. restorer' = [restorer EXCEPT !.left.objects = @ \ {d}, !.left.fresh = @ \cup created,
                     !.wrote.objects = @ \cup created,
                     !.at = IF found = d THEN @ ELSE "undo"]
  BY DEF RestoreObject
<1>3. created \subseteq Digest
  OBVIOUS
<1>4. \A part \in Parts :
        Holdings'[part] = Holdings[part] \cup IF part = "objects" THEN {found} ELSE {}
  BY <1>1 DEF Holdings, Parts, RecordKinds
<1>c. created = {found} \ objects
  OBVIOUS
<1> HIDE DEF created
<1>5. /\ restorer' \in Hands
      /\ restorer'.at = (IF found = d THEN "write" ELSE "undo")
      /\ restorer'.before = restorer.before /\ restorer'.spoilt = restorer.spoilt
  BY <1>1, <1>2, <1>3 DEF Hands, Work, Copy
<1>6. /\ restorer'.left.fresh = restorer.left.fresh \cup created
      /\ \A part \in Parts :
           /\ restorer'.left[part] = restorer.left[part] \ IF part = "objects" THEN {d} ELSE {}
           /\ restorer'.wrote[part] = restorer.wrote[part]
                   \cup IF part = "objects" THEN created ELSE {}
  BY <1>2, <1>3 DEF Hands, Work, Copy, Parts, RecordKinds
<1> QED BY <1>1, <1>4, <1>5, <1>6, <1>c

\* A record is published under the identifier it had, which none has now.
LEMMA PublishMoves ==
  ASSUME restorer \in Hands, NEW kind \in RecordKinds, NEW doc \in restorer.left[kind],
         PublishRecord(kind, doc)
  PROVE  /\ restorer' \in Hands /\ restorer.at = "write" /\ restorer'.at = "write"
         /\ doc.id \notin Ids(Holdings[kind])
         /\ restorer'.before = restorer.before /\ restorer'.spoilt = restorer.spoilt
         /\ restorer'.left.fresh = restorer.left.fresh
         /\ \A part \in Parts :
              /\ Holdings'[part] = Holdings[part] \cup IF part = kind THEN {doc} ELSE {}
              /\ restorer'.left[part] = restorer.left[part] \ IF part = kind THEN {doc} ELSE {}
              /\ restorer'.wrote[part] = restorer.wrote[part] \cup IF part = kind THEN {doc} ELSE {}
         /\ Aside /\ drawn' = drawn
<1>1. /\ restorer.at = "write" /\ doc.id \notin Ids(Holdings[kind])
      /\ Become(kind, Holdings[kind] \cup {doc})
      /\ UNCHANGED <<objects, drawn>> /\ Aside
  BY DEF PublishRecord, Aside
<1> DEFINE rest  == restorer.left[kind] \ {doc}
           added == restorer.wrote[kind] \cup {doc}
           left  == Put(restorer.left, kind, rest)
           wrote == Put(restorer.wrote, kind, added)
<1>2. restorer' = [restorer EXCEPT !.left = left, !.wrote = wrote]
  BY DEF PublishRecord, Put, Hands
<1>3. restorer.left \in Work /\ restorer.wrote \in Copy /\ kind \in Parts
  BY DEF Hands, Parts
<1>4. rest \in SUBSET Contained[kind] /\ added \in SUBSET Contained[kind]
  BY <1>3, WorkParts, CopyParts
<1>p. rest = restorer.left[kind] \ {doc} /\ added = restorer.wrote[kind] \cup {doc}
  OBVIOUS
<1> HIDE DEF rest, added
<1>5. /\ left \in Work /\ left.fresh = restorer.left.fresh
      /\ \A part \in Parts : left[part] = IF part = kind THEN rest ELSE restorer.left[part]
  BY <1>3, <1>4, WorkPut
<1>6. /\ wrote \in Copy
      /\ \A part \in Parts : wrote[part] = IF part = kind THEN added ELSE restorer.wrote[part]
  BY <1>3, <1>4, CopyPut
<1>7. \A part \in Parts :
        Holdings'[part] = IF part = kind THEN Holdings[kind] \cup {doc} ELSE Holdings[part]
  BY <1>1, BecomePuts
<1> HIDE DEF left, wrote
<1>8. /\ restorer' \in Hands /\ restorer'.at = restorer.at
      /\ restorer'.left = left /\ restorer'.wrote = wrote
      /\ restorer'.before = restorer.before /\ restorer'.spoilt = restorer.spoilt
  BY <1>2, <1>5, <1>6 DEF Hands
<1> QED BY <1>1, <1>5, <1>6, <1>7, <1>8, <1>p

\* An import event is published for an object this restore created.
LEMMA FreshMoves ==
  ASSUME restorer \in Hands, NEW d \in Digest, PublishFresh(d)
  PROVE  /\ restorer' \in Hands /\ restorer.at = "write" /\ restorer'.at = "write"
         /\ d \in restorer.left.fresh /\ restorer'.left.fresh = restorer.left.fresh \ {d}
         /\ restorer'.before = restorer.before /\ restorer'.spoilt = restorer.spoilt
         /\ \E event \in ImportEvent :
              /\ event.id \notin drawn /\ drawn' = drawn \cup {event.id}
              /\ \A part \in Parts :
                   /\ restorer'.left[part] = restorer.left[part]
                   /\ Holdings'[part] = Holdings[part] \cup IF part = "events" THEN {event} ELSE {}
                   /\ restorer'.wrote[part] =
                        restorer.wrote[part] \cup IF part = "events" THEN {event} ELSE {}
         /\ Aside
<1> DEFINE event == [id |-> NewId(EventId), digest |-> d]
<1>1. /\ restorer.at = "write" /\ d \in restorer.left.fresh /\ Undrawn(EventId) # {}
      /\ events' = events \cup {event} /\ drawn' = drawn \cup {event.id}
      /\ restorer' = [restorer EXCEPT !.left.fresh = @ \ {d}, !.wrote.events = @ \cup {event}]
      /\ UNCHANGED <<objects, cases, submissions, receipts, associations>> /\ Aside
  BY DEF PublishFresh, Aside
<1>2. event \in ImportEvent /\ event.id \notin drawn
  BY <1>1, NewIdIsFresh DEF ImportEvent
<1> HIDE DEF event
<1>3. \A part \in Parts :
        Holdings'[part] = Holdings[part] \cup IF part = "events" THEN {event} ELSE {}
  BY <1>1 DEF Holdings, Parts, RecordKinds
<1>4. /\ restorer' \in Hands /\ restorer'.at = "write"
      /\ restorer'.before = restorer.before /\ restorer'.spoilt = restorer.spoilt
  BY <1>1, <1>2 DEF Hands, Work, Copy
<1>5. /\ restorer'.left.fresh = restorer.left.fresh \ {d}
      /\ \A part \in Parts :
           /\ restorer'.left[part] = restorer.left[part]
           /\ restorer'.wrote[part] =
                restorer.wrote[part] \cup IF part = "events" THEN {event} ELSE {}
  BY <1>1, <1>2 DEF Hands, Work, Copy, Parts, RecordKinds
<1> QED BY <1>1, <1>2, <1>3, <1>4, <1>5

\* An undo unlinks a document the restore published, or fails to.
LEMMA WithdrawMoves ==
  ASSUME restorer \in Hands, NEW kind \in RecordKinds, NEW doc \in restorer.wrote[kind],
         Withdraw(kind, doc)
  PROVE  /\ restorer' \in Hands /\ restorer.at = "undo" /\ restorer'.at = "undo"
         /\ restorer'.before = restorer.before
         /\ \A part \in Parts \ {kind} :
              Holdings'[part] = Holdings[part] /\ restorer'.wrote[part] = restorer.wrote[part]
         /\ restorer'.wrote[kind] = restorer.wrote[kind] \ {doc}
         /\ \/ /\ Holdings'[kind] = Holdings[kind] \ {doc}
               /\ restorer'.spoilt = restorer.spoilt
            \/ Holdings'[kind] = Holdings[kind] /\ restorer'.spoilt
         /\ Aside /\ drawn' = drawn
<1> DEFINE rest  == restorer.wrote[kind] \ {doc}
           wrote == Put(restorer.wrote, kind, rest)
<1>1. PICK goes \in Unlinked :
        /\ Become(kind, IF goes THEN Holdings[kind] \ {doc} ELSE Holdings[kind])
        /\ restorer' = [restorer EXCEPT !.wrote = wrote, !.spoilt = restorer.spoilt \/ ~goes]
  BY Zenon DEF Withdraw, Put
<1>2. restorer.at = "undo" /\ UNCHANGED <<objects, drawn>> /\ Aside
  BY DEF Withdraw, Aside
<1>3. goes \in BOOLEAN /\ restorer.wrote \in Copy /\ kind \in Parts
  BY DEF Unlinked, Hands, Parts
<1>4. rest \in SUBSET Contained[kind]
  BY <1>3, CopyParts
<1>5. rest = restorer.wrote[kind] \ {doc}
  OBVIOUS
<1> HIDE DEF rest
<1>6. /\ wrote \in Copy
      /\ \A part \in Parts : wrote[part] = IF part = kind THEN rest ELSE restorer.wrote[part]
  BY <1>3, <1>4, CopyPut
<1>7. \A part \in Parts :
        Holdings'[part] = IF part # kind THEN Holdings[part]
                          ELSE IF goes THEN Holdings[kind] \ {doc} ELSE Holdings[kind]
  BY <1>1, <1>2, BecomePuts
<1> HIDE DEF wrote
<1>8. /\ restorer' \in Hands /\ restorer'.at = restorer.at /\ restorer'.wrote = wrote
      /\ restorer'.before = restorer.before
      /\ goes => restorer'.spoilt = restorer.spoilt
      /\ ~goes => restorer'.spoilt
  BY <1>1, <1>3, <1>6 DEF Hands
<1> QED BY <1>2, <1>3, <1>5, <1>6, <1>7, <1>8

\* An undo unlinks an object the restore created, or fails to.
LEMMA DiscardMoves ==
  ASSUME restorer \in Hands, NEW d \in Digest, Discard(d)
  PROVE  /\ restorer' \in Hands /\ restorer.at = "undo" /\ restorer'.at = "undo"
         /\ d \in restorer.wrote.objects
         /\ restorer'.before = restorer.before
         /\ \A part \in RecordKinds :
              Holdings'[part] = Holdings[part] /\ restorer'.wrote[part] = restorer.wrote[part]
         /\ restorer'.wrote.objects = restorer.wrote.objects \ {d}
         /\ \/ Holdings'.objects = Holdings.objects \ {d} /\ restorer'.spoilt = restorer.spoilt
            \/ Holdings'.objects = Holdings.objects /\ restorer'.spoilt
         /\ Aside /\ drawn' = drawn
<1>1. PICK goes \in Unlinked :
        /\ objects' = IF goes THEN objects \ {d} ELSE objects
        /\ restorer' = [restorer EXCEPT !.wrote.objects = @ \ {d}, !.spoilt = @ \/ ~goes]
  BY Zenon DEF Discard
<1>2. /\ restorer.at = "undo" /\ d \in restorer.wrote.objects
      /\ UNCHANGED <<events, cases, submissions, receipts, associations, drawn>> /\ Aside
  BY DEF Discard, Aside
<1>3. goes \in BOOLEAN
  BY DEF Unlinked
<1>4. /\ restorer' \in Hands /\ restorer'.at = restorer.at
      /\ restorer'.before = restorer.before
      /\ restorer'.wrote.objects = restorer.wrote.objects \ {d}
      /\ \A part \in RecordKinds : restorer'.wrote[part] = restorer.wrote[part]
  BY <1>1, <1>3 DEF Hands, Copy, RecordKinds
<1>5. /\ goes => restorer'.spoilt = restorer.spoilt
      /\ ~goes => restorer'.spoilt
  BY <1>1, <1>3 DEF Hands
<1>6. /\ \A part \in RecordKinds : Holdings'[part] = Holdings[part]
      /\ Holdings'.objects = IF goes THEN Holdings.objects \ {d} ELSE Holdings.objects
  BY <1>1, <1>2 DEF Holdings, RecordKinds
<1> QED BY <1>2, <1>3, <1>4, <1>5, <1>6

----------------------------------------------------------------------------
(* Restore: the archive meanwhile *)

\* Each part loses documents, or gains one of an identifier that is drawn and
\* that none of it has.
Growth(part) ==
  \/ Holdings'[part] \subseteq Holdings[part]
  \/ \E doc \in Contained[part] :
       /\ Holdings'[part] = Holdings[part] \cup {doc}
       /\ part # "objects" => doc.id \in drawn' /\ doc.id \notin Ids(Holdings[part])

\* The archive stays typed, and its identifiers apart.
LEMMA QuietGrows ==
  ASSUME Quiet, Aside, drawn \subseteq drawn',
         drawn' \subseteq CaseId \cup SubmissionId \cup ReceiptId \cup AssociationId \cup EventId,
         \A part \in Parts : Growth(part)
  PROVE  Quiet'
<1>1. \A part \in Parts : Holdings[part] \subseteq Contained[part]
  BY CopyParts DEF Quiet
<1>2. Holdings' \in Copy
  <2>1. \A part \in Parts : Holdings'[part] \subseteq Contained[part]
    BY <1>1 DEF Growth
  <2> QED BY <2>1 DEF Holdings, Copy, Parts, RecordKinds, Contained
<1>3. IdsUnique'
  <2>1. ASSUME NEW kind \in RecordKinds
        PROVE  /\ Ids(Holdings'[kind]) \subseteq drawn'
               /\ \A a, b \in Holdings'[kind] : a.id = b.id => a = b
    <3>1. UniqueIds(Holdings[kind])
      BY HoldingsApart DEF Quiet
    <3>2. Growth(kind) /\ kind # "objects"
      BY DEF Parts, RecordKinds
    <3>3. CASE Holdings'[kind] \subseteq Holdings[kind]
      BY <3>1, <3>3 DEF UniqueIds, Ids
    <3>4. ASSUME NEW doc, Holdings'[kind] = Holdings[kind] \cup {doc}, doc.id \in drawn',
                 doc.id \notin Ids(Holdings[kind])
          PROVE  /\ Ids(Holdings'[kind]) \subseteq drawn'
                 /\ \A a, b \in Holdings'[kind] : a.id = b.id => a = b
      BY <3>1, <3>4 DEF UniqueIds, Ids
    <3> QED BY <3>2, <3>3, <3>4 DEF Growth
  <2> QED BY <2>1 DEF IdsUnique, UniqueIds, Holdings, RecordKinds
<1> QED BY <1>2, <1>3 DEF Quiet, Aside

\* What a step of a restore writes is one document or object, or it unlinks.
RestoreWrites ==
  \/ \E d, found \in Digest : RestoreObject(d, found)
  \/ \E kind \in RecordKinds : \E doc \in restorer.left[kind] : PublishRecord(kind, doc)
  \/ \E d \in Digest : PublishFresh(d)

RestoreUnlinks ==
  \/ \E kind \in RecordKinds : \E doc \in restorer.wrote[kind] : Withdraw(kind, doc)
  \/ \E d \in Digest : Discard(d)

LEMMA RestoreInHand ==
  ASSUME TransferInv, Restoring
  PROVE  /\ lock = Restorer /\ Quiet /\ restorer \in Hands /\ bundle \in Copy
         /\ AllDrawn(bundle) /\ exporter.at = "idle"
         /\ \A part \in Parts : Holdings[part] \subseteq Contained[part]
         /\ \A part \in Parts : restorer.left[part] \subseteq Contained[part]
<1>1. /\ lock = Restorer /\ Quiet /\ restorer \in Hands /\ bundle \in Copy
      /\ AllDrawn(bundle) /\ exporter.at = "idle"
  BY DEF TransferInv, LockShared, RestoreInv, RestorerTyped, ExportInv, ExportHeld, Hands
<1>2. Holdings \in Copy /\ restorer.left \in Work
  BY <1>1 DEF Quiet, Hands
<1> QED BY <1>1, <1>2, CopyParts, WorkParts

LEMMA RestoreKeepsQuiet ==
  ASSUME TransferInv, RestoreWrites \/ RestoreUnlinks
  PROVE  Quiet' /\ Aside /\ Restoring /\ Restoring' /\ drawn \subseteq drawn'
<1>0. Restoring
  <2>1. restorer.at = "write" \/ restorer.at = "undo"
    BY Zenon DEF RestoreWrites, RestoreUnlinks, RestoreObject, PublishRecord, PublishFresh,
                 Withdraw, Discard
  <2> QED BY <2>1 DEF Restoring
<1>1. /\ Quiet /\ restorer \in Hands /\ AllDrawn(bundle)
      /\ \A part \in Parts : Holdings[part] \subseteq Contained[part]
      /\ \A part \in Parts : restorer.left[part] \subseteq Contained[part]
  BY <1>0, RestoreInHand
<1>2. drawn \subseteq CaseId \cup SubmissionId \cup ReceiptId \cup AssociationId \cup EventId
  BY <1>1 DEF Quiet
<1>3. CASE \E d, found \in Digest : RestoreObject(d, found)
  <2>1. PICK d, found \in Digest : RestoreObject(d, found)
    BY <1>3
  <2>2. /\ Aside /\ drawn' = drawn /\ restorer'.at # "idle"
        /\ \A part \in Parts :
             Holdings'[part] = Holdings[part] \cup IF part = "objects" THEN {found} ELSE {}
    BY <1>1, <2>1, ObjectMoves
  <2>3. found \in Contained["objects"]
    BY DEF Contained
  <2>4. \A part \in Parts : Growth(part)
    BY <2>2, <2>3 DEF Growth
  <2> QED BY <1>0, <1>1, <1>2, <2>2, <2>4, QuietGrows DEF Restoring
<1>4. CASE \E kind \in RecordKinds : \E doc \in restorer.left[kind] : PublishRecord(kind, doc)
  <2>1. PICK kind \in RecordKinds : \E doc \in restorer.left[kind] : PublishRecord(kind, doc)
    BY <1>4
  <2>2. PICK doc \in restorer.left[kind] : PublishRecord(kind, doc)
    BY <2>1
  <2>3. /\ Aside /\ drawn' = drawn /\ restorer.at = "write" /\ restorer'.at # "idle"
        /\ doc.id \notin Ids(Holdings[kind])
        /\ \A part \in Parts :
             Holdings'[part] = Holdings[part] \cup IF part = kind THEN {doc} ELSE {}
    BY <1>1, <2>2, PublishMoves
  <2>4. doc \in Contained[kind] /\ doc \in bundle[kind]
    BY <1>0, <1>1, <2>3 DEF TransferInv, RestoreInv, RestoreHeld, Accounted, Parts
  <2>5. doc.id \in drawn
    BY <1>1, <2>4 DEF AllDrawn, Ids
  <2>6. \A part \in Parts : Growth(part)
    BY <2>3, <2>4, <2>5 DEF Growth
  <2> QED BY <1>0, <1>1, <1>2, <2>3, <2>6, QuietGrows DEF Restoring
<1>5. CASE \E d \in Digest : PublishFresh(d)
  <2>1. PICK d \in Digest : PublishFresh(d)
    BY <1>5
  <2>2. Aside /\ restorer'.at # "idle"
    BY <1>1, <2>1, FreshMoves
  <2>3. PICK event \in ImportEvent :
          /\ event.id \notin drawn /\ drawn' = drawn \cup {event.id}
          /\ \A part \in Parts :
               Holdings'[part] = Holdings[part] \cup IF part = "events" THEN {event} ELSE {}
    BY <1>1, <2>1, FreshMoves
  <2>4. event \in Contained["events"] /\ event.id \in EventId
    BY DEF Contained, ImportEvent
  <2>5. Ids(Holdings["events"]) \subseteq drawn
    BY <1>1 DEF Quiet, IdsUnique, UniqueIds, Holdings
  <2>6. \A part \in Parts : Growth(part)
    BY <2>3, <2>4, <2>5 DEF Growth
  <2> QED BY <1>0, <1>1, <1>2, <2>2, <2>3, <2>4, <2>6, QuietGrows DEF Restoring
<1>6. CASE \E kind \in RecordKinds : \E doc \in restorer.wrote[kind] : Withdraw(kind, doc)
  <2>1. PICK kind \in RecordKinds : \E doc \in restorer.wrote[kind] : Withdraw(kind, doc)
    BY <1>6
  <2>2. /\ Aside /\ drawn' = drawn /\ restorer'.at # "idle"
        /\ \A part \in Parts : Holdings'[part] \subseteq Holdings[part]
    BY <1>1, <2>1, WithdrawMoves DEF Parts
  <2> QED BY <1>0, <1>1, <1>2, <2>2, QuietGrows DEF Restoring, Growth
<1>7. CASE \E d \in Digest : Discard(d)
  <2>1. /\ Aside /\ drawn' = drawn /\ restorer'.at # "idle"
        /\ \A part \in Parts : Holdings'[part] \subseteq Holdings[part]
    BY <1>1, <1>7, DiscardMoves DEF Parts
  <2> QED BY <1>0, <1>1, <1>2, <2>1, QuietGrows DEF Restoring, Growth
<1> QED BY <1>3, <1>4, <1>5, <1>6, <1>7 DEF RestoreWrites, RestoreUnlinks

----------------------------------------------------------------------------
(* Restore: what was there, and what is still to come *)

LEMMA RestoreHolds ==
  ASSUME TransferInv, Restoring
  PROVE  /\ \A part \in Parts : Separate(part)
         /\ restorer.at \in {"write", "done"} => \A part \in Parts : Accounted(part)
         /\ restorer.at \in {"write", "done"} /\ Within(bundle, restorer.before)
              => NothingToWrite
         /\ restorer.at = "write" => ~restorer.spoilt
         /\ Within(bundle, restorer.before) =>
              \A part \in Parts : bundle[part] \subseteq restorer.before[part]
<1>1. bundle \in Copy
  BY RestoreInHand
<1>2. DOMAIN bundle = Parts
  BY <1>1, CopyParts
<1> QED BY <1>2 DEF TransferInv, RestoreInv, RestoreHeld, Within

\* What is left of the invariant of a restore when its types are known.
LEMMA RestoreInvWhile ==
  ASSUME TransferInv, Restoring, Aside, restorer' \in Hands,
         restorer'.at \in {"write", "undo"},
         \A part \in Parts : Separate(part)',
         restorer'.at = "write" => ~restorer'.spoilt /\ \A part \in Parts : Accounted(part)',
         restorer'.at = "write" /\ Within(bundle', restorer'.before) => NothingToWrite'
  PROVE  RestoreInv'
<1>1. bundle' \in Copy
  BY RestoreInHand DEF Aside
<1> QED BY <1>1 DEF RestoreInv, RestorerTyped, RestoreHeld, Hands, Restoring

LEMMA ObjectKept ==
  ASSUME TransferInv, Restoring, NEW d \in Digest, NEW found \in Digest,
         RestoreObject(d, found)
  PROVE  RestoreInv'
<1>1. restorer \in Hands /\ bundle \in Copy
  BY RestoreInHand
<1> DEFINE created == {found} \ objects
<1>2. /\ restorer' \in Hands /\ restorer.at = "write" /\ d \in restorer.left.objects
      /\ restorer'.at = (IF found = d THEN "write" ELSE "undo")
      /\ restorer'.before = restorer.before /\ restorer'.spoilt = restorer.spoilt
      /\ restorer'.left.fresh = restorer.left.fresh \cup created
      /\ Aside
  BY <1>1, ObjectMoves
<1>3. \A part \in Parts :
        /\ Holdings'[part] = Holdings[part] \cup IF part = "objects" THEN {found} ELSE {}
        /\ restorer'.left[part] = restorer.left[part] \ IF part = "objects" THEN {d} ELSE {}
        /\ restorer'.wrote[part] = restorer.wrote[part]
             \cup IF part = "objects" THEN created ELSE {}
  BY <1>1, ObjectMoves
<1>4. Holdings["objects"] = objects /\ "objects" \in Parts
  BY DEF Holdings, Parts
<1>5. created \cap objects = {} /\ created \subseteq {found} /\ {found} \subseteq objects \cup created
  OBVIOUS
<1> HIDE DEF created
<1>6. ASSUME NEW part \in Parts PROVE Separate(part)'
  BY <1>2, <1>3, <1>4, <1>5, <1>6, RestoreHolds DEF Separate
<1>7. ASSUME NEW part \in Parts, restorer'.at = "write" PROVE Accounted(part)'
  <2>1. found = d /\ bundle' = bundle
    BY <1>2, <1>7 DEF Aside
  <2> QED BY <1>2, <1>3, <1>4, <1>7, <2>1, RestoreHolds DEF Accounted
<1>8. ASSUME restorer'.at = "write", Within(bundle', restorer'.before) PROVE NothingToWrite'
  <2>1. found = d /\ bundle' = bundle
    BY <1>2, <1>8 DEF Aside
  <2>2. /\ NothingToWrite /\ restorer.left["objects"] \subseteq bundle["objects"]
        /\ bundle["objects"] \subseteq restorer.before["objects"]
        /\ restorer.before["objects"] \subseteq objects
    BY <1>2, <1>4, <1>8, <2>1, RestoreHolds DEF Accounted, Separate
  <2>3. created = {}
    BY <1>2, <1>5, <2>1, <2>2
  <2>4. restorer.wrote \in Copy /\ restorer'.wrote \in Copy
    BY <1>1, <1>2 DEF Hands
  <2>5. \A part \in Parts : restorer'.wrote[part] = restorer.wrote[part]
    BY <1>3, <2>3
  <2>6. restorer'.wrote = restorer.wrote
    BY <2>4, <2>5, CopyParts
  <2>7. \A kind \in RecordKinds : restorer'.left[kind] = restorer.left[kind]
    BY <1>3 DEF Parts, RecordKinds
  <2> QED BY <1>2, <2>2, <2>3, <2>6, <2>7 DEF NothingToWrite
<1>9. ~restorer'.spoilt
  BY <1>2, RestoreHolds
<1> QED BY <1>2, <1>6, <1>7, <1>8, <1>9, RestoreInvWhile

LEMMA PublishKept ==
  ASSUME TransferInv, Restoring, NEW kind \in RecordKinds, NEW doc \in restorer.left[kind],
         PublishRecord(kind, doc)
  PROVE  RestoreInv'
<1>1. restorer \in Hands /\ kind \in Parts
  BY RestoreInHand DEF Parts
<1>2. /\ restorer' \in Hands /\ restorer.at = "write" /\ restorer'.at = "write"
      /\ doc.id \notin Ids(Holdings[kind])
      /\ restorer'.before = restorer.before /\ restorer'.spoilt = restorer.spoilt
      /\ Aside
  BY <1>1, PublishMoves
<1>3. \A part \in Parts :
        /\ Holdings'[part] = Holdings[part] \cup IF part = kind THEN {doc} ELSE {}
        /\ restorer'.left[part] = restorer.left[part] \ IF part = kind THEN {doc} ELSE {}
        /\ restorer'.wrote[part] = restorer.wrote[part] \cup IF part = kind THEN {doc} ELSE {}
  BY <1>1, PublishMoves
<1>4. doc \notin Holdings[kind]
  BY <1>2 DEF Ids
<1>5. ASSUME NEW part \in Parts PROVE Separate(part)'
  BY <1>2, <1>3, <1>4, <1>5, RestoreHolds DEF Separate
<1>6. ASSUME NEW part \in Parts PROVE Accounted(part)'
  BY <1>2, <1>3, <1>6, RestoreHolds DEF Accounted, Aside
<1>7. ~Within(bundle', restorer'.before)
  BY <1>2, RestoreHolds DEF NothingToWrite, Aside
<1>8. ~restorer'.spoilt
  BY <1>2, RestoreHolds
<1> QED BY <1>2, <1>5, <1>6, <1>7, <1>8, RestoreInvWhile

LEMMA FreshKept ==
  ASSUME TransferInv, Restoring, NEW d \in Digest, PublishFresh(d)
  PROVE  RestoreInv'
<1>1. restorer \in Hands /\ Quiet
  BY RestoreInHand
<1>2. /\ restorer' \in Hands /\ restorer.at = "write" /\ restorer'.at = "write"
      /\ d \in restorer.left.fresh
      /\ restorer'.before = restorer.before /\ restorer'.spoilt = restorer.spoilt
      /\ Aside
  BY <1>1, FreshMoves
<1>3. PICK event \in ImportEvent :
        /\ event.id \notin drawn
        /\ \A part \in Parts :
             /\ restorer'.left[part] = restorer.left[part]
             /\ Holdings'[part] = Holdings[part] \cup IF part = "events" THEN {event} ELSE {}
             /\ restorer'.wrote[part] =
                  restorer.wrote[part] \cup IF part = "events" THEN {event} ELSE {}
  BY <1>1, FreshMoves
<1>4. event \notin Holdings["events"]
  BY <1>1, <1>3 DEF Quiet, IdsUnique, UniqueIds, Ids, Holdings
<1>5. ASSUME NEW part \in Parts PROVE Separate(part)'
  BY <1>2, <1>3, <1>4, <1>5, RestoreHolds DEF Separate
<1>6. ASSUME NEW part \in Parts PROVE Accounted(part)'
  BY <1>2, <1>3, <1>6, RestoreHolds DEF Accounted, Aside
<1>7. ~Within(bundle', restorer'.before)
  BY <1>2, RestoreHolds DEF NothingToWrite, Aside
<1>8. ~restorer'.spoilt
  BY <1>2, RestoreHolds
<1> QED BY <1>2, <1>5, <1>6, <1>7, <1>8, RestoreInvWhile

LEMMA UnlinkKept ==
  ASSUME TransferInv, Restoring, RestoreUnlinks
  PROVE  RestoreInv'
<1>1. restorer \in Hands
  BY RestoreInHand
<1>2. CASE \E kind \in RecordKinds : \E doc \in restorer.wrote[kind] : Withdraw(kind, doc)
  <2>1. PICK kind \in RecordKinds : \E doc \in restorer.wrote[kind] : Withdraw(kind, doc)
    BY <1>2
  <2>2. PICK doc \in restorer.wrote[kind] : Withdraw(kind, doc)
    BY <2>1
  <2>3. /\ restorer' \in Hands /\ restorer'.at = "undo" /\ restorer'.before = restorer.before
        /\ \A part \in Parts \ {kind} :
             Holdings'[part] = Holdings[part] /\ restorer'.wrote[part] = restorer.wrote[part]
        /\ restorer'.wrote[kind] = restorer.wrote[kind] \ {doc}
        /\ \/ /\ Holdings'[kind] = Holdings[kind] \ {doc}
              /\ restorer'.spoilt = restorer.spoilt
           \/ Holdings'[kind] = Holdings[kind] /\ restorer'.spoilt
        /\ Aside
    BY <1>1, <2>2, WithdrawMoves
  <2>4. ASSUME NEW part \in Parts PROVE Separate(part)'
    BY <2>2, <2>3, <2>4, RestoreHolds DEF Separate
  <2> QED BY <2>3, <2>4, RestoreInvWhile
<1>3. CASE \E d \in Digest : Discard(d)
  <2>1. PICK d \in Digest : Discard(d)
    BY <1>3
  <2>2. /\ restorer' \in Hands /\ restorer'.at = "undo" /\ restorer'.before = restorer.before
        /\ d \in restorer.wrote.objects
        /\ \A part \in RecordKinds :
              Holdings'[part] = Holdings[part] /\ restorer'.wrote[part] = restorer.wrote[part]
        /\ restorer'.wrote.objects = restorer.wrote.objects \ {d}
        /\ \/ Holdings'.objects = Holdings.objects \ {d} /\ restorer'.spoilt = restorer.spoilt
           \/ Holdings'.objects = Holdings.objects /\ restorer'.spoilt
        /\ Aside
    BY <1>1, <2>1, DiscardMoves
  <2>3. ASSUME NEW part \in Parts PROVE Separate(part)'
    BY <2>2, <2>3, RestoreHolds DEF Separate, Parts
  <2> QED BY <2>2, <2>3, RestoreInvWhile
<1> QED BY <1>2, <1>3 DEF RestoreUnlinks

----------------------------------------------------------------------------
(* Restore: every step *)

\* A restore that begins has seen the archive as it is.
LEMMA RestoreBegins ==
  ASSUME TransferInv, BeginRestore
  PROVE  LockShared' /\ RestoreInv'
<1>1. /\ restorer.at = "idle" /\ bundle \in Copy /\ lock = Free /\ lock' = Restorer
      /\ restorer' = [NoRestore EXCEPT !.at = "probe", !.before = Holdings]
      /\ UNCHANGED <<objects, records, drawn, pc, locals, ghosts, bundle>>
  BY DEF BeginRestore
<1>2. Quiet
  BY <1>1, ArchiveQuiet DEF TransferInv, LockShared, Restoring
<1>3. Holdings' = Holdings /\ Quiet'
  BY <1>1, <1>2 DEF Quiet, Holdings, IdsUnique, UniqueIds
<1>4. Holdings \in Copy /\ Nothing \in Copy /\ NoWork \in Work
  BY <1>2 DEF Quiet, Nothing, NoWork, Copy, Work
<1>5. /\ restorer' \in Hands /\ restorer'.at = "probe" /\ restorer'.before = Holdings
      /\ restorer'.wrote = Nothing /\ ~restorer'.spoilt
  BY <1>1, <1>4 DEF NoRestore, Hands
<1>6. \A part \in Parts : Separate(part)'
  BY <1>3, <1>5 DEF Separate, Nothing, Parts, RecordKinds
<1>7. RestoreInv'
  BY <1>1, <1>5, <1>6 DEF RestoreInv, RestorerTyped, RestoreHeld, Restoring, Hands
<1> QED BY <1>1, <1>3, <1>5, <1>7 DEF LockShared, Restoring

\* Past the probe, what is left to write is what the archive does not hold.
LEMMA RestoreProbes ==
  ASSUME TransferInv, ProbeRecords
  PROVE  RestoreInv' /\ Restoring /\ Restoring'
<1>1. /\ restorer.at = "probe" /\ Restoring
      /\ restorer' = [restorer EXCEPT !.at = "write",
           !.left = [part \in DOMAIN NoWork |->
                       IF part = "fresh" THEN {}
                       ELSE IF part = "objects" THEN bundle.objects
                       ELSE bundle[part] \ Holdings[part]]]
      /\ UNCHANGED <<vars, bundle>>
  BY DEF ProbeRecords, Restoring
<1>2. /\ restorer \in Hands /\ bundle \in Copy
      /\ restorer.wrote = Nothing /\ ~restorer.spoilt
      /\ \A part \in Parts : Separate(part)
  BY <1>1, RestoreInHand, RestoreHolds DEF TransferInv, RestoreInv, RestoreHeld
<1> DEFINE left == [part \in DOMAIN NoWork |->
                      IF part = "fresh" THEN {}
                      ELSE IF part = "objects" THEN bundle.objects
                      ELSE bundle[part] \ Holdings[part]]
<1>3. /\ left.fresh = {} /\ left["objects"] = bundle["objects"]
      /\ \A kind \in RecordKinds : left[kind] = bundle[kind] \ Holdings[kind]
  BY DEF NoWork, RecordKinds
<1>4. left \in Work
  <2>1. \A X : X.fresh \subseteq Digest
              /\ (\A part \in Parts : X[part] \subseteq Contained[part])
              /\ X = [part \in DOMAIN NoWork |-> X[part]] => X \in Work
    BY Z3 DEF NoWork, Work, Parts, RecordKinds, Contained
  <2>2. \A part \in Parts : left[part] \subseteq bundle[part]
    BY <1>3 DEF Parts
  <2>3. left = [part \in DOMAIN NoWork |-> left[part]]
    OBVIOUS
  <2> HIDE DEF left
  <2>4. \A part \in Parts : left[part] \subseteq Contained[part]
    BY <1>2, <2>2, CopyParts
  <2> QED BY <1>3, <2>1, <2>3, <2>4
<1> HIDE DEF left
<1>5. /\ restorer' \in Hands /\ restorer'.at = "write" /\ restorer'.left = left
      /\ restorer'.before = restorer.before /\ restorer'.wrote = Nothing /\ ~restorer'.spoilt
  BY <1>1, <1>2, <1>4 DEF Hands, left
<1>6. Holdings' = Holdings /\ bundle' = bundle
  BY <1>1 DEF vars, Holdings
<1>7. ASSUME NEW part \in Parts PROVE Separate(part)' /\ Accounted(part)'
  BY <1>2, <1>3, <1>5, <1>6, <1>7 DEF Separate, Accounted, Parts
<1>8. ASSUME Within(bundle', restorer'.before) PROVE NothingToWrite'
  <2>1. ASSUME NEW kind \in RecordKinds PROVE left[kind] = {}
    <3>1. kind \in Parts /\ kind \in DOMAIN bundle
      BY <1>2, CopyParts DEF Parts
    <3>2. bundle[kind] \subseteq restorer.before[kind]
      BY <1>5, <1>6, <1>8, <3>1 DEF Within
    <3> QED BY <1>2, <1>3, <3>1, <3>2 DEF Separate
  <2> QED BY <1>3, <1>5, <2>1 DEF NothingToWrite
<1> QED BY <1>1, <1>2, <1>5, <1>6, <1>7, <1>8
        DEF RestoreInv, RestorerTyped, RestoreHeld, Restoring, Hands

\* Ending, refusing and finishing an undo write nothing.
LEMMA RestoreTurns ==
  ASSUME TransferInv, EndRestore \/ RefuseRestore \/ EndUndo
  PROVE  RestoreInv' /\ Restoring /\ Restoring'
<1>1. Restoring /\ UNCHANGED <<vars, bundle>>
  BY DEF EndRestore, RefuseRestore, EndUndo, Restoring
<1>2. /\ restorer \in Hands /\ bundle \in Copy
      /\ \A part \in Parts : Separate(part)
  BY <1>1, RestoreInHand, RestoreHolds
<1>3. Holdings' = Holdings /\ bundle' = bundle
  BY <1>1 DEF vars, Holdings
<1>4. /\ restorer' \in Hands /\ restorer'.before = restorer.before
      /\ restorer'.wrote = restorer.wrote /\ restorer'.spoilt = restorer.spoilt
  <2>1. NoWork \in Work
    BY DEF NoWork, Work
  <2>2. CASE EndRestore
    BY <1>2, <2>2 DEF EndRestore, Hands
  <2>3. CASE RefuseRestore
    BY <1>2, <2>1, <2>3 DEF RefuseRestore, Hands
  <2>4. CASE EndUndo
    BY <1>2, <2>4 DEF EndUndo, Hands
  <2> QED BY <2>2, <2>3, <2>4
<1>5. \A part \in Parts : Separate(part)'
  BY <1>2, <1>3, <1>4 DEF Separate
<1>6. CASE EndRestore
  <2>1. /\ restorer.at = "write" /\ restorer'.at = "done"
        /\ restorer'.left = restorer.left /\ restorer.left = NoWork
    BY <1>2, <1>6 DEF EndRestore, Hands
  <2>2. ~restorer.spoilt /\ \A part \in Parts : Accounted(part)
    BY <1>1, <2>1, RestoreHolds
  <2>3. \A part \in Parts : Accounted(part)'
    BY <1>3, <2>1, <2>2 DEF Accounted
  <2>4. Within(bundle', restorer'.before) => NothingToWrite'
    BY <1>1, <1>3, <1>4, <2>1, RestoreHolds DEF NothingToWrite
  <2> QED BY <1>1, <1>2, <1>3, <1>4, <1>5, <2>1, <2>2, <2>3, <2>4
          DEF RestoreInv, RestorerTyped, RestoreHeld, Restoring, Hands
<1>7. CASE RefuseRestore
  <2>1. restorer'.at = "undo"
    BY <1>2, <1>7 DEF RefuseRestore, Hands
  <2> QED BY <1>1, <1>2, <1>3, <1>4, <1>5, <2>1
          DEF RestoreInv, RestorerTyped, RestoreHeld, Restoring, Hands
<1>8. CASE EndUndo
  <2>1. restorer'.at = "undone" /\ restorer.wrote = Nothing
    BY <1>2, <1>8 DEF EndUndo, Hands
  <2> QED BY <1>1, <1>2, <1>3, <1>4, <1>5, <2>1
          DEF RestoreInv, RestorerTyped, RestoreHeld, Restoring, Hands
<1> QED BY <1>6, <1>7, <1>8

\* A restore that gives the lock back, or is killed, leaves an archive behind.
LEMMA RestoreLeaves ==
  ASSUME TransferInv, ReleaseRestore \/ KillRestore
  PROVE  LockShared' /\ RestoreInv'
<1>1. /\ Restoring /\ restorer' = NoRestore
      /\ UNCHANGED <<objects, records, drawn, pc, locals, ghosts, bundle>>
  BY DEF ReleaseRestore, KillRestore, Restoring
<1>2. lock = Restorer /\ Quiet
  BY <1>1, RestoreInHand
<1>3. lock' \in {Free, Abandoned}
  BY <1>2 DEF ReleaseRestore, KillRestore
<1>4. Quiet'
  BY <1>1, <1>2 DEF Quiet, Holdings, IdsUnique, UniqueIds
<1>5. Quiet /\ lock \in {Free, Abandoned} => IdentityInv
  BY QuietArchive
<1>6. (Quiet /\ lock \in {Free, Abandoned} => IdentityInv)'
  BY QuietArchive, PTL
<1>7. NoRestore.at = "idle" /\ NoRestore \in Hands
  BY DEF NoRestore, Hands, NoWork, Nothing, Work, Copy
<1> QED BY <1>1, <1>3, <1>4, <1>6, <1>7
        DEF LockShared, Restoring, RestoreInv, RestorerTyped, RestoreHeld, Hands

\* Whatever a restore does, it takes no identifier back and lets the export be.
LEMMA RestoreStep ==
  ASSUME TransferInv, Restore
  PROVE  /\ LockShared' /\ RestoreInv'
         /\ drawn \subseteq drawn' /\ UNCHANGED <<bundle, exporter, withdrawn>>
<1>1. CASE BeginRestore
  <2>1. drawn' = drawn /\ UNCHANGED <<bundle, exporter, withdrawn>>
    BY <1>1 DEF BeginRestore
  <2> QED BY <1>1, <2>1, RestoreBegins
<1>2. CASE RestoreWrites \/ RestoreUnlinks
  <2>1. Quiet' /\ Aside /\ Restoring /\ Restoring' /\ drawn \subseteq drawn'
    BY <1>2, RestoreKeepsQuiet
  <2>2. LockShared' /\ UNCHANGED <<bundle, exporter, withdrawn>>
    BY <2>1, RestoreInHand DEF LockShared, Aside
  <2>3. RestoreInv'
    <3>1. CASE RestoreWrites
      BY <2>1, <3>1, ObjectKept, PublishKept, FreshKept, Zenon DEF RestoreWrites
    <3>2. CASE RestoreUnlinks
      BY <2>1, <3>2, UnlinkKept
    <3> QED BY <1>2, <3>1, <3>2
  <2> QED BY <2>1, <2>2, <2>3
<1>3. CASE ProbeRecords \/ EndRestore \/ RefuseRestore \/ EndUndo
  <2>1. UNCHANGED vars /\ UNCHANGED <<bundle, exporter, withdrawn>>
    BY <1>3 DEF ProbeRecords, EndRestore, RefuseRestore, EndUndo
  <2>2. RestoreInv' /\ Restoring /\ Restoring'
    BY <1>3, RestoreProbes, RestoreTurns, Zenon
  <2>3. lock = Restorer /\ Quiet
    BY <2>2, RestoreInHand
  <2>4. lock' = lock /\ drawn' = drawn /\ Quiet'
    BY <2>1, <2>3 DEF vars, Quiet, Holdings, IdsUnique, UniqueIds
  <2> QED BY <2>1, <2>2, <2>3, <2>4 DEF LockShared
<1>4. CASE ReleaseRestore \/ KillRestore
  <2>1. drawn' = drawn /\ UNCHANGED <<bundle, exporter, withdrawn>>
    BY <1>4 DEF ReleaseRestore, KillRestore
  <2> QED BY <1>4, <2>1, RestoreLeaves
<1> QED BY <1>1, <1>2, <1>3, <1>4, Zenon DEF Restore, RestoreWrites, RestoreUnlinks

----------------------------------------------------------------------------
(* Export *)

\* The archive an export reads has its types, and its identifiers are drawn.
LEMMA ArchiveReadable ==
  ASSUME LockShared
  PROVE  Holdings \in Copy /\ AllDrawn(Holdings)
<1>1. Holdings \in Copy /\ IdsUnique
  BY ArchiveHoldings DEF LockShared, Quiet
<1> QED BY <1>1, HoldingsApart DEF AllDrawn, UniqueIds

\* While an export runs there is no whole bundle, and so no restore.
LEMMA ExportAlone ==
  ASSUME TransferInv, Export
  PROVE  /\ ~Restoring /\ bundle \notin Copy
         /\ UNCHANGED <<vars, restorer>>
<1>1. exporter.at # "idle" \/ bundle = Absent
  BY Zenon DEF Export, BeginExport, ReadKind, Prepare, CopyObject, WriteManifest,
               RefuseExport, KillExport
<1>2. bundle \notin Copy
  BY <1>1, DestinationAssumption DEF TransferInv, ExportInv, ExportHeld
<1>3. UNCHANGED <<vars, restorer>>
  <2>1. CASE BeginExport \/ ReadKind \/ Prepare \/ \E d \in Digest : CopyObject(d)
    BY <2>1, Zenon DEF BeginExport, ReadKind, Prepare, CopyObject
  <2>2. CASE WriteManifest \/ RefuseExport \/ KillExport
    BY <2>2, Zenon DEF WriteManifest, RefuseExport, KillExport
  <2> QED BY <2>1, <2>2, Zenon DEF Export
<1> QED BY <1>2, <1>3 DEF TransferInv, RestoreInv, RestorerTyped

\* What is taken of a kind is of that kind.
LEMMA BelongingStored ==
  ASSUME NEW kind \in RecordKinds, NEW scope, NEW got
  PROVE  Belonging(kind, scope, got) \subseteq Holdings[kind]
BY DEF Belonging, Holdings, RecordKinds

\* One directory more, of five.
LEMMA ReadKindKept ==
  ASSUME ExportInv, LockShared, ReadKind
  PROVE  ExportInv'
<1> DEFINE kind  == ReadingOrder(exporter.scope)[exporter.read + 1]
           found == Belonging(kind, exporter.scope, exporter.got)
           got   == Put(exporter.got, kind, found)
<1>1. exporter.at = "read" /\ UNCHANGED <<vars, bundle, restorer>>
  BY DEF ReadKind
<1>2. exporter' = [exporter EXCEPT !.got[kind] = found, !.read = @ + 1,
                                   !.at = IF kind = "events" THEN "prepare" ELSE @]
  BY DEF ReadKind
<1>3. exporter' = [exporter EXCEPT !.got = got, !.read = @ + 1,
                                   !.at = IF kind = "events" THEN "prepare" ELSE @]
  BY <1>2 DEF Put, ExportInv, ExporterTyped
<1>4. withdrawn' = IF kind = "associations"
                   THEN {id \in Ids(found) : \E b \in associations : b.supersedes = id}
                   ELSE withdrawn
  BY DEF ReadKind
<1>5. /\ exporter.read \in 0..4 /\ exporter.got \in Copy
      /\ exporter \in [at : {"idle", "read", "prepare", "copy"},
                       scope : CaseId \cup {Everything, Nil}, read : 0..5,
                       got : Copy, left : SUBSET Digest]
  BY <1>1 DEF ExportInv, ExporterTyped
<1>6. kind \in RecordKinds /\ (kind # "events" => exporter.read # 4)
  BY <1>5 DEF ReadingOrder, RecordKinds
<1> HIDE DEF kind
<1>7. Holdings \in Copy /\ AllDrawn(Holdings) /\ kind \in Parts
  BY <1>6, ArchiveReadable DEF Parts
<1>8. found \subseteq Holdings[kind]
  BY <1>6, BelongingStored
<1> HIDE DEF found
<1>9. found \in SUBSET Contained[kind] /\ Ids(found) \subseteq drawn
  BY <1>6, <1>7, <1>8, CopyParts DEF AllDrawn, Ids
<1>10. /\ got \in Copy
       /\ \A part \in Parts : got[part] = IF part = kind THEN found ELSE exporter.got[part]
  BY <1>5, <1>7, <1>9, CopyPut
<1> HIDE DEF got
<1>11. /\ exporter' \in [at : {"idle", "read", "prepare", "copy"},
                         scope : CaseId \cup {Everything, Nil}, read : 0..5,
                         got : Copy, left : SUBSET Digest]
       /\ exporter'.at \in {"read", "prepare"} /\ exporter'.got = got
       /\ exporter'.at = "read" => exporter'.read \in 0..4
  <2> DEFINE at == IF kind = "events" THEN "prepare" ELSE exporter.at
             read == exporter.read + 1
  <2>1. read \in 0..5 /\ (kind # "events" => read \in 0..4)
    BY <1>5, <1>6
  <2>2. at \in {"read", "prepare"} /\ (at = "read" => kind # "events")
    BY <1>1
  <2>3. exporter' = [exporter EXCEPT !.got = got, !.read = read, !.at = at]
    BY <1>3
  <2> HIDE DEF at, read
  <2> QED BY <1>5, <1>10, <2>1, <2>2, <2>3
<1>12. withdrawn' \subseteq AssociationId
  <2>1. kind = "associations" => Ids(found) \subseteq AssociationId
    BY <1>9 DEF Contained, Ids, Association
  <2> QED BY <1>4, <2>1 DEF ExportInv, ExporterTyped
<1>13. AllDrawn(got)
  BY <1>9, <1>10 DEF AllDrawn, ExportInv, ExportHeld, Parts
<1>14. drawn' = drawn
  BY <1>1 DEF vars
<1> QED BY <1>1, <1>11, <1>12, <1>13, <1>14 DEF ExportInv, ExporterTyped, ExportHeld, AllDrawn

\* An export as a memory: what it has taken, and what it has still to copy.
LEMMA ExportInvFor ==
  ASSUME bundle' \in Copy \cup {Absent, Partial}, drawn \subseteq drawn',
         exporter' \in [at : {"idle", "read", "prepare", "copy"},
                        scope : CaseId \cup {Everything, Nil}, read : 0..5,
                        got : Copy, left : SUBSET Digest],
         withdrawn' = withdrawn, withdrawn \subseteq AssociationId,
         exporter'.at = "idle" => exporter' = NoExport,
         exporter'.at = "read" => exporter'.read \in 0..4,
         \A kind \in RecordKinds : Ids(exporter'.got[kind]) \subseteq drawn,
         exporter'.at = "copy" => Digests(exporter'.got) \subseteq exporter'.got.objects,
         bundle' \in Copy =>
           /\ \A kind \in RecordKinds : Ids(bundle'[kind]) \subseteq drawn
           /\ Digests(bundle') \subseteq bundle'.objects
           /\ exporter'.at = "idle"
  PROVE  ExportInv'
BY DEF ExportInv, ExporterTyped, ExportHeld, AllDrawn

\* An export that has ended has taken nothing.
LEMMA NoExportTaken ==
  /\ NoExport \in [at : {"idle", "read", "prepare", "copy"},
                   scope : CaseId \cup {Everything, Nil}, read : 0..5,
                   got : Copy, left : SUBSET Digest]
  /\ NoExport.at = "idle"
  /\ \A kind \in RecordKinds : Ids(NoExport.got[kind]) \subseteq drawn
<1>1. Nothing \in Copy /\ \A kind \in RecordKinds : Nothing[kind] = {}
  BY DEF Nothing, Copy, RecordKinds
<1>2. NoExport.got = Nothing
  BY DEF NoExport
<1>3. \A kind \in RecordKinds : Ids(NoExport.got[kind]) \subseteq drawn
  BY <1>1, <1>2 DEF Ids
<1> HIDE DEF Nothing
<1> QED BY <1>1, <1>3 DEF NoExport

\* The objects to copy are those the records name, or hold those.
LEMMA PrepareKept ==
  ASSUME ExportInv, LockShared, Prepare
  PROVE  ExportInv'
<1> DEFINE wanted == IF exporter.scope = Everything THEN objects ELSE Digests(exporter.got)
           got    == Put(exporter.got, "objects", wanted)
<1>1. /\ exporter.at = "prepare" /\ Digests(exporter.got) \subseteq wanted
      /\ bundle' = Partial /\ UNCHANGED <<vars, withdrawn>>
  BY DEF Prepare
<1>2. exporter' = [exporter EXCEPT !.at = "copy", !.got.objects = wanted, !.left = wanted]
  BY DEF Prepare
<1>3. exporter' = [exporter EXCEPT !.at = "copy", !.got = got, !.left = wanted]
  BY <1>2 DEF Put, ExportInv, ExporterTyped
<1>4. /\ exporter \in [at : {"idle", "read", "prepare", "copy"},
                       scope : CaseId \cup {Everything, Nil}, read : 0..5,
                       got : Copy, left : SUBSET Digest]
      /\ exporter.got \in Copy /\ withdrawn \subseteq AssociationId
      /\ AllDrawn(exporter.got)
  BY DEF ExportInv, ExporterTyped, ExportHeld
<1>5. wanted \in SUBSET Digest
  <2>1. objects \subseteq Digest
    BY ArchiveReadable DEF Holdings, Copy
  <2>2. Digests(exporter.got) \subseteq Digest
    BY <1>4 DEF Digests, Copy, Submission, Receipt, ImportEvent
  <2> QED BY <2>1, <2>2
<1> HIDE DEF wanted
<1>6. /\ got \in Copy
      /\ \A part \in Parts : got[part] = IF part = "objects" THEN wanted ELSE exporter.got[part]
  <2>1. "objects" \in Parts /\ wanted \in SUBSET Contained["objects"]
    BY <1>5 DEF Parts, Contained
  <2> QED BY <1>4, <2>1, CopyPut
<1> HIDE DEF got
<1>7. /\ exporter' \in [at : {"idle", "read", "prepare", "copy"},
                        scope : CaseId \cup {Everything, Nil}, read : 0..5,
                        got : Copy, left : SUBSET Digest]
      /\ exporter'.at = "copy" /\ exporter'.got = got
  BY <1>3, <1>4, <1>5, <1>6
<1>8. Digests(got) = Digests(exporter.got) /\ got.objects = wanted
  BY <1>6 DEF Digests, Parts, RecordKinds
<1>9. \A kind \in RecordKinds : Ids(got[kind]) \subseteq drawn
  BY <1>4, <1>6 DEF AllDrawn, Parts, RecordKinds
<1>10. Partial \notin Copy /\ drawn' = drawn
  BY <1>1, DestinationAssumption DEF vars
<1> QED BY <1>1, <1>4, <1>7, <1>8, <1>9, <1>10, ExportInvFor

\* Copying an object takes it off the list, and off nothing that is named.
LEMMA CopyObjectKept ==
  ASSUME ExportInv, NEW d \in Digest, CopyObject(d)
  PROVE  ExportInv'
<1>1. /\ exporter.at = "copy" /\ exporter' = [exporter EXCEPT !.left = @ \ {d}]
      /\ UNCHANGED <<vars, bundle, withdrawn>>
  BY DEF CopyObject
<1>2. /\ exporter \in [at : {"idle", "read", "prepare", "copy"},
                       scope : CaseId \cup {Everything, Nil}, read : 0..5,
                       got : Copy, left : SUBSET Digest]
      /\ withdrawn \subseteq AssociationId /\ bundle \in Copy \cup {Absent, Partial}
      /\ AllDrawn(exporter.got) /\ bundle \notin Copy
      /\ Digests(exporter.got) \subseteq exporter.got.objects
  BY <1>1 DEF ExportInv, ExporterTyped, ExportHeld
<1>3. /\ exporter' \in [at : {"idle", "read", "prepare", "copy"},
                        scope : CaseId \cup {Everything, Nil}, read : 0..5,
                        got : Copy, left : SUBSET Digest]
      /\ exporter'.at = "copy" /\ exporter'.got = exporter.got
  BY <1>1, <1>2
<1>4. drawn' = drawn
  BY <1>1 DEF vars
<1> QED BY <1>1, <1>2, <1>3, <1>4, ExportInvFor DEF AllDrawn

\* The manifest makes a whole bundle of what was taken.
LEMMA WriteManifestKept ==
  ASSUME ExportInv, WriteManifest
  PROVE  ExportInv'
<1>1. /\ exporter.at = "copy" /\ bundle' = exporter.got /\ exporter' = NoExport
      /\ UNCHANGED <<vars, withdrawn>>
  BY DEF WriteManifest
<1>2. /\ exporter.got \in Copy /\ withdrawn \subseteq AssociationId
      /\ AllDrawn(exporter.got) /\ Digests(exporter.got) \subseteq exporter.got.objects
  BY <1>1 DEF ExportInv, ExporterTyped, ExportHeld
<1>3. drawn' = drawn
  BY <1>1 DEF vars
<1> QED BY <1>1, <1>2, <1>3, NoExportTaken, ExportInvFor DEF AllDrawn

\* One that is refused or killed leaves no whole bundle.
LEMMA ExportEndKept ==
  ASSUME ExportInv, RefuseExport \/ KillExport
  PROVE  ExportInv'
<1>1. exporter' = NoExport /\ UNCHANGED <<vars, withdrawn>>
  BY Zenon DEF RefuseExport, KillExport
<1>2. exporter.at # "idle" /\ bundle' \in {bundle, Absent, Partial}
  BY DEF RefuseExport, KillExport
<1>3. /\ withdrawn \subseteq AssociationId
      /\ bundle \in Copy \cup {Absent, Partial} /\ bundle \notin Copy
  BY <1>2 DEF ExportInv, ExporterTyped, ExportHeld
<1>4. drawn' = drawn
  BY <1>1 DEF vars
<1> QED BY <1>1, <1>2, <1>3, <1>4, DestinationAssumption, NoExportTaken, ExportInvFor

LEMMA BeginExportKept ==
  ASSUME ExportInv, BeginExport
  PROVE  ExportInv'
<1>1. PICK scope \in CaseId \cup {Everything} :
        exporter' = [NoExport EXCEPT !.at = "read", !.scope = scope]
  BY Zenon DEF BeginExport
<1>2. bundle = Absent /\ UNCHANGED <<vars, bundle, withdrawn>>
  BY Zenon DEF BeginExport
<1>3. /\ exporter' \in [at : {"idle", "read", "prepare", "copy"},
                        scope : CaseId \cup {Everything, Nil}, read : 0..5,
                        got : Copy, left : SUBSET Digest]
      /\ exporter'.at = "read" /\ exporter'.got = NoExport.got /\ exporter'.read = 0
  BY <1>1, NoExportTaken DEF NoExport
<1>4. drawn' = drawn /\ withdrawn \subseteq AssociationId
  BY <1>2 DEF vars, ExportInv, ExporterTyped
<1> QED BY <1>2, <1>3, <1>4, DestinationAssumption, NoExportTaken, ExportInvFor

LEMMA ExportStep ==
  ASSUME ExportInv, LockShared, Export
  PROVE  ExportInv'
BY BeginExportKept, ReadKindKept, PrepareKept, CopyObjectKept, WriteManifestKept,
   ExportEndKept, Zenon DEF Export

----------------------------------------------------------------------------
(* Every step *)

\* Nothing is restored or exported when there is nothing yet.
LEMMA InitTransferInv == TransferInit => TransferInv
<1> SUFFICES ASSUME TransferInit PROVE TransferInv
  OBVIOUS
<1>1. /\ Init /\ bundle = Absent /\ exporter = NoExport /\ withdrawn = {}
      /\ restorer = NoRestore
  BY DEF TransferInit
<1>2. NoRestore \in Hands /\ NoRestore.at = "idle"
  BY DEF NoRestore, Hands, NoWork, Nothing, Work, Copy
<1>3. LockShared
  BY <1>1, <1>2, InitIdentityInv DEF LockShared, Restoring
<1>4. ExportInv
  BY <1>1, NoExportTaken, DestinationAssumption
     DEF ExportInv, ExporterTyped, ExportHeld, AllDrawn
<1>5. RestoreInv
  BY <1>1, <1>2 DEF RestoreInv, RestorerTyped, RestoreHeld, Restoring, Hands
<1> QED BY <1>3, <1>4, <1>5 DEF TransferInv

\* A step of Archive is none while a restore holds the lock, and otherwise as
\* it was without exports and imports of exports.
LEMMA ArchiveStep ==
  ASSUME TransferInv, [Next]_vars, UNCHANGED transferVars
  PROVE  LockShared' /\ ExportInv' /\ RestoreInv'
<1>1. UNCHANGED <<bundle, exporter, withdrawn, restorer>>
  BY DEF transferVars
<1>2. LockShared' /\ drawn \subseteq drawn' /\ (Restoring => UNCHANGED vars)
  <2>1. CASE Restoring
    <3>1. lock = Restorer /\ Quiet
      BY <2>1, RestoreInHand
    <3>2. UNCHANGED vars
      BY <3>1, RestoreStopsArchive
    <3>3. Quiet' /\ lock' = Restorer /\ drawn' = drawn
      BY <3>1, <3>2 DEF vars, Quiet, Holdings, IdsUnique, UniqueIds
    <3> QED BY <1>1, <2>1, <3>2, <3>3 DEF LockShared, Restoring
  <2>2. CASE ~Restoring
    <3>1. IdentityInv
      BY <2>2 DEF TransferInv, LockShared
    <3>2. IdentityInv' /\ drawn \subseteq drawn'
      BY <3>1, StepIdentityInv, ArchiveDraws
    <3> QED BY <1>1, <2>2, <3>2 DEF LockShared, Restoring
  <2> QED BY <2>1, <2>2
<1>3. ExportInv'
  BY <1>1, <1>2 DEF TransferInv, ExportInv, ExporterTyped, ExportHeld, AllDrawn
<1>4. RestoreInv'
  <2>1. CASE Restoring
    <3>1. Holdings' = Holdings
      BY <1>2, <2>1 DEF vars, Holdings
    <3> QED BY <1>1, <3>1
        DEF TransferInv, RestoreInv, RestorerTyped, RestoreHeld, Restoring, Separate,
            Accounted, NothingToWrite
  <2>2. CASE ~Restoring
    BY <1>1, <2>2 DEF TransferInv, RestoreInv, RestorerTyped, RestoreHeld, Restoring
  <2> QED BY <2>1, <2>2
<1> QED BY <1>2, <1>3, <1>4

LEMMA StepTransferInv == TransferInv /\ [TransferNext]_allVars => TransferInv'
<1> SUFFICES ASSUME TransferInv, [TransferNext]_allVars PROVE TransferInv'
  OBVIOUS
<1>1. CASE (Next /\ UNCHANGED transferVars) \/ UNCHANGED allVars
  BY <1>1, ArchiveStep DEF allVars, TransferInv
<1>2. CASE Export
  <2>1. ~Restoring /\ UNCHANGED <<vars, restorer>>
    BY <1>2, ExportAlone
  <2>2. LockShared'
    <3>1. IdentityInv
      BY <2>1 DEF TransferInv, LockShared
    <3>2. IdentityInv'
      BY <2>1, <3>1, StepIdentityInv
    <3> QED BY <2>1, <3>2 DEF LockShared, Restoring
  <2>3. ExportInv'
    BY <1>2, ExportStep DEF TransferInv
  <2>4. RestoreInv'
    BY <2>1 DEF TransferInv, RestoreInv, RestorerTyped, RestoreHeld, Restoring
  <2> QED BY <2>2, <2>3, <2>4 DEF TransferInv
<1>3. CASE Restore
  <2>1. /\ LockShared' /\ RestoreInv'
        /\ drawn \subseteq drawn' /\ UNCHANGED <<bundle, exporter, withdrawn>>
    BY <1>3, RestoreStep
  <2>2. ExportInv'
    BY <2>1 DEF TransferInv, ExportInv, ExporterTyped, ExportHeld, AllDrawn
  <2> QED BY <2>1, <2>2 DEF TransferInv
<1> QED BY <1>1, <1>2, <1>3 DEF TransferNext

\* The invariant holds from the empty archive on.
LEMMA AlwaysTransferInv == TransferSpec => []TransferInv
BY InitTransferInv, StepTransferInv, PTL DEF TransferSpec

----------------------------------------------------------------------------
(* Theorems *)

\* Every variable of exports and imports of exports has its type, and between
\* two of either nothing of the one before is left in hand.
THEOREM TransferTypesHold == TransferSpec => []TransferTypeOK
<1>1. TransferInv => TransferTypeOK
  BY DEF TransferInv, ExportInv, ExporterTyped, RestoreInv, RestorerTyped, TransferTypeOK
<1> QED BY <1>1, AlwaysTransferInv, PTL

\* collect.rs, copy_one: a bundle with a manifest holds every object its
\* records name, however the archive was written and deleted from meanwhile.
THEOREM BundlesHoldNamed == TransferSpec => []BundleHoldsNamed
<1>1. TransferInv => BundleHoldsNamed
  BY DEF TransferInv, ExportInv, ExportHeld, BundleHoldsNamed
<1> QED BY <1>1, AlwaysTransferInv, PTL

\* What a restore has seen of the archive and has written of it is a copy.
LEMMA RestoreCopies ==
  ASSUME TransferInv, Restoring
  PROVE  /\ Holdings \in Copy /\ restorer.before \in Copy
         /\ \A part \in Parts : Nothing[part] = {}
<1>1. Quiet /\ restorer \in Hands
  BY RestoreInHand
<1> QED BY <1>1 DEF Quiet, Hands, Nothing, Parts, RecordKinds

\* case_import: an import that reports success left the whole export in the
\* archive, even if it found some of it there.
THEOREM RestoresAreWhole == TransferSpec => []RestoredWhole
<1>1. TransferInv => RestoredWhole
  <2> SUFFICES ASSUME TransferInv, restorer.at = "done" PROVE Within(bundle, Holdings)
    BY DEF RestoredWhole
  <2>1. Restoring
    BY DEF Restoring
  <2>2. bundle \in Copy /\ restorer.left = NoWork
    BY <2>1, RestoreInHand DEF TransferInv, RestoreInv, RestoreHeld
  <2>3. \A part \in Parts : Accounted(part)
    BY <2>1, RestoreHolds
  <2>4. \A part \in Parts : NoWork[part] = {}
    BY DEF NoWork, Parts, RecordKinds
  <2>5. \A part \in Parts : bundle[part] \subseteq Holdings[part]
    BY <2>2, <2>3, <2>4 DEF Accounted
  <2> QED BY <2>2, <2>5, CopyParts DEF Within
<1> QED BY <1>1, AlwaysTransferInv, PTL

\* store_all, discard: nothing that was stored before an import is gone or
\* changed while it runs, refuses and undoes.
THEOREM RestoresSpareStored == TransferSpec => []RestoreSparesStored
<1>1. TransferInv => RestoreSparesStored
  <2> SUFFICES ASSUME TransferInv, Restoring PROVE Within(restorer.before, Holdings)
    BY DEF RestoreSparesStored
  <2>1. restorer.before \in Copy
    BY RestoreCopies
  <2>2. \A part \in Parts : restorer.before[part] \subseteq Holdings[part]
    BY RestoreHolds DEF Separate
  <2> QED BY <2>1, <2>2, CopyParts DEF Within
<1> QED BY <1>1, AlwaysTransferInv, PTL

\* A restore that has written nothing, and failed to unlink nothing, leaves
\* the archive as it found it.
LEMMA NothingWritten ==
  ASSUME TransferInv, Restoring, restorer.wrote = Nothing, ~restorer.spoilt
  PROVE  Holdings = restorer.before
<1>1. \A part \in Parts : Holdings[part] = restorer.before[part]
  BY RestoreHolds, RestoreCopies DEF Separate
<1> QED BY <1>1, RestoreCopies, CopyParts

\* withdraw, discard: an import that was refused, and whose every unlink did
\* its work, leaves the archive as it was.
THEOREM UndosRestore == TransferSpec => []UndoRestores
<1>1. TransferInv => UndoRestores
  <2> SUFFICES ASSUME TransferInv, restorer.at = "undone", ~restorer.spoilt
               PROVE  Holdings = restorer.before
    BY DEF UndoRestores
  <2>1. Restoring /\ restorer.wrote = Nothing
    BY DEF Restoring, TransferInv, RestoreInv, RestoreHeld
  <2> QED BY <2>1, NothingWritten
<1> QED BY <1>1, AlwaysTransferInv, PTL

\* events_for: an import of what is there already writes nothing at all, no
\* import event of an object it found stored either.
THEOREM SecondRestoresWriteNothing == TransferSpec => []SecondRestoreWritesNothing
<1>1. TransferInv => SecondRestoreWritesNothing
  <2> SUFFICES ASSUME TransferInv, restorer.at = "done", Within(bundle, restorer.before)
               PROVE  Holdings = restorer.before
    BY DEF SecondRestoreWritesNothing
  <2>1. Restoring /\ ~restorer.spoilt
    BY DEF Restoring, TransferInv, RestoreInv, RestoreHeld
  <2>2. restorer.wrote = Nothing
    BY <2>1, RestoreHolds DEF NothingToWrite
  <2> QED BY <2>1, <2>2, NothingWritten
<1> QED BY <1>1, AlwaysTransferInv, PTL

\* publish.rs: identifiers stay unique although a restore publishes records
\* under the identifiers they had, which its own process never drew.
THEOREM RestoresKeepIdsUnique == TransferSpec => []IdsUnique
<1>1. TransferInv => IdsUnique
  BY ArchiveHoldings DEF TransferInv, LockShared, Quiet
<1> QED BY <1>1, AlwaysTransferInv, PTL
=============================================================================
