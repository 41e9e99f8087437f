------------------------------ MODULE Transfer ------------------------------
(***************************************************************************)
(* Taking a case, or everything, out of the archive and back: case export  *)
(* and archive export, which read without the lock while the commands of   *)
(* Archive write, and case import and archive import, which write under    *)
(* it, keep the identifiers the records had, and undo what they did when   *)
(* they are refused.                                                       *)
(***************************************************************************)
EXTENDS Archive

CONSTANTS
  Restorer,       \* the process that runs an import of an export
  Everything,     \* the scope of archive export; a case is that of case export
  Absent,         \* the destination is empty or not there
  Partial,        \* the destination holds something and no manifest
  MayFail,        \* whether one of these may be killed, or refused by the filesystem
  MayAlter        \* whether an exported copy can change after it was verified

ASSUME TransferAssumption ==
  /\ Restorer \notin Proc \cup {Free, Abandoned}
  /\ {Everything, Nil} \cap CaseId = {} /\ Everything # Nil
  /\ MayFail \in BOOLEAN /\ MayAlter \in BOOLEAN

VARIABLES
  bundle,         \* the one export directory there is
  exporter,       \* what a running export has read and has still to copy
  withdrawn,      \* history: statements superseded when the export listed them
  restorer        \* what a running import has still to write, and has written

transferVars == <<bundle, exporter, withdrawn, restorer>>
allVars == <<vars, transferVars>>

----------------------------------------------------------------------------
(* Copies *)

Copy == [cases : SUBSET Case, submissions : SUBSET Submission,
         receipts : SUBSET Receipt, associations : SUBSET Association,
         events : SUBSET ImportEvent, objects : SUBSET Digest]

\* A destination without a whole export is not one.
ASSUME DestinationAssumption == Absent \notin Copy /\ Partial \notin Copy

Nothing == [cases |-> {}, submissions |-> {}, receipts |-> {},
            associations |-> {}, events |-> {}, objects |-> {}]

\* What the archive holds, derived facts apart: no export takes those.
Holdings == [cases |-> cases, submissions |-> submissions, receipts |-> receipts,
             associations |-> associations, events |-> events, objects |-> objects]

RecordKinds == {"cases", "submissions", "receipts", "associations", "events"}

Within(small, large) == \A part \in DOMAIN small : small[part] \subseteq large[part]

\* Fault: only what the submissions name.
DigestsOfSubmissions(copy) == UNION {s.artefacts : s \in copy.submissions}

\* The objects the records of a copy reference.
Digests(copy) ==
  (UNION {s.artefacts : s \in copy.submissions})
    \cup {r.artefact : r \in copy.receipts} \cup {e.digest : e \in copy.events}

----------------------------------------------------------------------------
(* Export *)

NoExport == [at |-> "idle", scope |-> Nil, read |-> 0, got |-> Nothing, left |-> {}]

\* The order in which the record directories are read, one after another.
ReadingOrder(scope) ==
  IF scope = Everything
  THEN <<"cases", "submissions", "receipts", "associations", "events">>
  ELSE <<"cases", "submissions", "associations", "receipts", "events">>

\* The records of one kind an export takes, given what it has read before.  A
\* record that withdraws a statement names no submission and is not taken.
Belonging(kind, scope, got) ==
  IF scope = Everything THEN Holdings[kind]
  ELSE CASE kind = "cases" -> {c \in cases : c.id = scope}
         [] kind = "submissions" -> {s \in submissions : s.case = scope}
         [] kind = "associations" ->
              {a \in associations : Named(a) \cap Ids(got.submissions) # {}}
         [] kind = "receipts" ->
              {r \in receipts : \E a \in got.associations : a.receipt = r.id}
         [] kind = "events" -> {e \in events : e.digest \in Digests(got)}

\* A bound: no export begins that would find its destination taken.
BeginExport ==
  /\ exporter.at = "idle" /\ bundle = Absent
  /\ \E scope \in CaseId \cup {Everything} :
       exporter' = [NoExport EXCEPT !.at = "read", !.scope = scope]
  /\ UNCHANGED <<vars, bundle, withdrawn, restorer>>

\* One directory.  The case itself must be there.
ReadKind ==
  /\ exporter.at = "read"
  /\ LET kind  == ReadingOrder(exporter.scope)[exporter.read + 1]
         found == Belonging(kind, exporter.scope, exporter.got)
     IN /\ kind = "cases" /\ exporter.scope # Everything => found # {}
        /\ exporter' = [exporter EXCEPT !.got[kind] = found, !.read = @ + 1,
                                        !.at = IF kind = "events" THEN "prepare" ELSE @]
        /\ withdrawn' = IF kind = "associations"
                        THEN {id \in Ids(found) : \E b \in associations : b.supersedes = id}
                        ELSE withdrawn
  /\ UNCHANGED <<vars, bundle, restorer>>

\* The objects to copy: those the records name, or all there are, which must
\* hold those.  Then the destination is made ready.
Prepare ==
  /\ exporter.at = "prepare"
  /\ LET wanted == IF exporter.scope = Everything THEN objects ELSE Digests(exporter.got)
     IN /\ Digests(exporter.got) \subseteq wanted
        /\ exporter' = [exporter EXCEPT !.at = "copy", !.got.objects = wanted,
                                        !.left = wanted]
  /\ bundle' = Partial
  /\ UNCHANGED <<vars, withdrawn, restorer>>

\* Fault: an object that went in the meantime is passed over.
CopyIfStored(d) ==
  /\ exporter.at = "copy" /\ d \in exporter.left
  /\ exporter' = [exporter EXCEPT !.left = @ \ {d}, !.got.objects = @ \ ({d} \ objects)]
  /\ UNCHANGED <<vars, bundle, withdrawn, restorer>>

CopyObject(d) ==
  /\ exporter.at = "copy" /\ d \in exporter.left
  /\ d \in objects
  /\ exporter' = [exporter EXCEPT !.left = @ \ {d}]
  /\ UNCHANGED <<vars, bundle, withdrawn, restorer>>

\* The record documents, then the manifest.
WriteManifest ==
  /\ exporter.at = "copy" /\ exporter.left = {}
  /\ bundle' = exporter.got
  /\ exporter' = NoExport
  /\ UNCHANGED <<vars, withdrawn, restorer>>

\* What cannot be read, or is not there, ends the export; what it had put in
\* the destination is removed as far as it goes.
RefuseExport ==
  /\ \/ exporter.at # "idle" /\ MayFail
     \/ exporter.at = "read" /\ exporter.read = 0 /\ exporter.scope \notin Ids(cases)
     \/ exporter.at = "prepare" /\ exporter.scope = Everything
                                /\ ~(Digests(exporter.got) \subseteq objects)
     \/ exporter.at = "copy" /\ ~(exporter.left \subseteq objects)
  /\ bundle' \in IF exporter.at # "copy" THEN {bundle}
                 ELSE {Absent} \cup IF MayFail THEN {Partial} ELSE {}
  /\ exporter' = NoExport
  /\ UNCHANGED <<vars, withdrawn, restorer>>

KillExport ==
  /\ MayFail /\ exporter.at # "idle"
  /\ exporter' = NoExport
  /\ UNCHANGED <<vars, bundle, withdrawn, restorer>>

Export ==
  \/ BeginExport \/ ReadKind \/ Prepare
  \/ \E d \in Digest : CopyObject(d)
  \/ WriteManifest \/ RefuseExport \/ KillExport

----------------------------------------------------------------------------
(* Restore *)

\* left: what is still to be stored and published; fresh is the created
\* objects that have no import event of this restore yet.
Work == [objects : SUBSET Digest, cases : SUBSET Case, submissions : SUBSET Submission,
         receipts : SUBSET Receipt, associations : SUBSET Association,
         events : SUBSET ImportEvent, fresh : SUBSET Digest]

NoWork == [objects |-> {}, cases |-> {}, submissions |-> {}, receipts |-> {},
           associations |-> {}, events |-> {}, fresh |-> {}]

NoRestore == [at |-> "idle", left |-> NoWork, wrote |-> Nothing,
              before |-> Nothing, spoilt |-> FALSE]

Restoring == restorer.at # "idle"

\* Objects first, then the manifest's order of the kinds, then the events the
\* import adds.  A kind has its turn when those before it have nothing left.
RestoreOrder == <<"objects", "cases", "submissions", "receipts", "associations",
                  "events", "fresh">>

Turn(work, order, kind) ==
  \E n \in DOMAIN order : order[n] = kind /\ \A m \in 1..(n - 1) : work[order[m]] = {}

\* The documents of one kind are docs afterwards.
Become(kind, docs) ==
  /\ cases'        = IF kind = "cases" THEN docs ELSE cases
  /\ submissions'  = IF kind = "submissions" THEN docs ELSE submissions
  /\ receipts'     = IF kind = "receipts" THEN docs ELSE receipts
  /\ associations' = IF kind = "associations" THEN docs ELSE associations
  /\ events'       = IF kind = "events" THEN docs ELSE events

\* Fault: the lock is not taken.
BeginRestoreUnlocked ==
  /\ restorer.at = "idle" /\ bundle \in Copy
  /\ restorer' = [NoRestore EXCEPT !.at = "probe", !.before = Holdings]
  /\ UNCHANGED <<vars, bundle, exporter, withdrawn>>

\* The manifest, the records and the objects of the export were read and
\* agree: a whole bundle does, a partial one has no manifest.  Then the lock.
BeginRestore ==
  /\ restorer.at = "idle" /\ bundle \in Copy
  /\ lock = Free
  /\ lock' = Restorer
  /\ restorer' = [NoRestore EXCEPT !.at = "probe", !.before = Holdings]
  /\ UNCHANGED <<objects, records, drawn, pc, locals, ghosts, bundle, exporter, withdrawn>>

\* An identifier of the export that a different record of the archive has.
Conflict ==
  \E kind \in RecordKinds : \E new \in bundle[kind], old \in Holdings[kind] :
    new.id = old.id /\ new # old

ProbeRecords ==
  /\ restorer.at = "probe" /\ ~Conflict
  /\ restorer' = [restorer EXCEPT !.at = "write",
       !.left = [part \in DOMAIN NoWork |->
                   IF part = "fresh" THEN {}
                   ELSE IF part = "objects" THEN bundle.objects
                   ELSE bundle[part] \ Holdings[part]]]
  /\ UNCHANGED <<vars, bundle, exporter, withdrawn>>

\* Fault: an object that is not the one expected is refused unrecorded.
RestoreObjectUnrecorded(d, found) ==
  /\ restorer.at = "write" /\ d \in restorer.left.objects
  /\ found = d \/ MayAlter
  /\ objects' = objects \cup {found}
  /\ LET created == {found} \ objects IN
       restorer' = IF found = d
                   THEN [restorer EXCEPT !.left.objects = @ \ {d},
                           !.left.fresh = @ \cup created, !.wrote.objects = @ \cup created]
                   ELSE [restorer EXCEPT !.at = "undo"]
  /\ UNCHANGED <<lock, records, drawn, pc, locals, ghosts, bundle, exporter, withdrawn>>

\* Fault: every object of the export counts as created.
RestoreObjectAll(d, found) ==
  /\ restorer.at = "write" /\ d \in restorer.left.objects
  /\ found = d \/ MayAlter
  /\ objects' = objects \cup {found}
  /\ restorer' = [restorer EXCEPT !.left.objects = @ \ {d}, !.left.fresh = @ \cup {found},
                    !.wrote.objects = @ \cup {found},
                    !.at = IF found = d THEN @ ELSE "undo"]
  /\ UNCHANGED <<lock, records, drawn, pc, locals, ghosts, bundle, exporter, withdrawn>>

\* One object is stored, or found stored.  Its bytes may not be those that
\* were verified: then what was stored is recorded and the import refused.
RestoreObject(d, found) ==
  /\ restorer.at = "write" /\ d \in restorer.left.objects
  /\ found = d \/ MayAlter
  /\ objects' = objects \cup {found}
  /\ LET created == {found} \ objects IN
       restorer' = [restorer EXCEPT !.left.objects = @ \ {d}, !.left.fresh = @ \cup created,
                      !.wrote.objects = @ \cup created,
                      !.at = IF found = d THEN @ ELSE "undo"]
  /\ UNCHANGED <<lock, records, drawn, pc, locals, ghosts, bundle, exporter, withdrawn>>

\* publish, of a record under the identifier it had.
PublishRecord(kind, doc) ==
  /\ restorer.at = "write" /\ Turn(restorer.left, RestoreOrder, kind)
  /\ doc \in restorer.left[kind] /\ doc.id \notin Ids(Holdings[kind])
  /\ Become(kind, Holdings[kind] \cup {doc})
  /\ restorer' = [restorer EXCEPT !.left[kind] = @ \ {doc}, !.wrote[kind] = @ \cup {doc}]
  /\ UNCHANGED <<lock, objects, derived, drawn, pc, locals, ghosts, bundle, exporter, withdrawn>>

\* publish, of the import event of an object this import created.
PublishFresh(d) ==
  /\ restorer.at = "write" /\ Turn(restorer.left, RestoreOrder, "fresh")
  /\ d \in restorer.left.fresh /\ Undrawn(EventId) # {}
  /\ LET event == [id |-> NewId(EventId), digest |-> d] IN
       /\ events' = events \cup {event}
       /\ drawn' = drawn \cup {event.id}
       /\ restorer' = [restorer EXCEPT !.left.fresh = @ \ {d}, !.wrote.events = @ \cup {event}]
  /\ UNCHANGED <<lock, objects, cases, submissions, receipts, associations, derived,
                 pc, locals, ghosts, bundle, exporter, withdrawn>>

EndRestore ==
  /\ restorer.at = "write" /\ restorer.left = NoWork
  /\ restorer' = [restorer EXCEPT !.at = "done"]
  /\ UNCHANGED <<vars, bundle, exporter, withdrawn>>

\* A refusal of the probe, of an object, or of a document that cannot be
\* staged or published.  A used-up pool of identifiers is the bound.
RefuseRestore ==
  /\ \/ restorer.at \in {"probe", "write"} /\ MayFail
     \/ restorer.at = "probe" /\ Conflict
     \/ restorer.at = "write" /\ restorer.left.fresh # {} /\ Undrawn(EventId) = {}
  /\ restorer' = [restorer EXCEPT !.at = "undo", !.left = NoWork]
  /\ UNCHANGED <<vars, bundle, exporter, withdrawn>>

----------------------------------------------------------------------------
(* Undoing a refused restore *)

UndoOrder == <<"cases", "submissions", "receipts", "associations", "events", "objects">>

\* Whether an unlink of the undo does its work.  A bound: one at most does not.
Unlinked == IF MayFail /\ ~restorer.spoilt THEN BOOLEAN ELSE {TRUE}

\* withdraw: the published documents, in the order they were published.  One
\* that will not go stays, unreported.
Withdraw(kind, doc) ==
  /\ restorer.at = "undo" /\ Turn(restorer.wrote, UndoOrder, kind)
  /\ doc \in restorer.wrote[kind]
  /\ \E goes \in Unlinked :
       /\ Become(kind, IF goes THEN Holdings[kind] \ {doc} ELSE Holdings[kind])
       /\ restorer' = [restorer EXCEPT !.wrote[kind] = @ \ {doc}, !.spoilt = @ \/ ~goes]
  /\ UNCHANGED <<lock, objects, derived, drawn, pc, locals, ghosts, bundle, exporter, withdrawn>>

\* discard: the created objects, and only those.
Discard(d) ==
  /\ restorer.at = "undo" /\ Turn(restorer.wrote, UndoOrder, "objects")
  /\ d \in restorer.wrote.objects
  /\ \E goes \in Unlinked :
       /\ objects' = IF goes THEN objects \ {d} ELSE objects
       /\ restorer' = [restorer EXCEPT !.wrote.objects = @ \ {d}, !.spoilt = @ \/ ~goes]
  /\ UNCHANGED <<lock, records, drawn, pc, locals, ghosts, bundle, exporter, withdrawn>>

EndUndo ==
  /\ restorer.at = "undo" /\ restorer.wrote = Nothing
  /\ restorer' = [restorer EXCEPT !.at = "undone"]
  /\ UNCHANGED <<vars, bundle, exporter, withdrawn>>

\* Fault: the next import goes on with what this one had in hand.
ReleaseRestoreKeeping ==
  /\ restorer.at \in {"done", "undone"}
  /\ DropLock
  /\ restorer' = [restorer EXCEPT !.at = "idle"]
  /\ UNCHANGED <<objects, records, drawn, pc, locals, ghosts, bundle, exporter, withdrawn>>

ReleaseRestore ==
  /\ restorer.at \in {"done", "undone"}
  /\ DropLock
  /\ restorer' = NoRestore
  /\ UNCHANGED <<objects, records, drawn, pc, locals, ghosts, bundle, exporter, withdrawn>>

\* Killed: what was stored and published stays, and so does the lock file.
KillRestore ==
  /\ MayFail /\ Restoring
  /\ lock' = IF lock = Restorer THEN Abandoned ELSE lock
  /\ restorer' = NoRestore
  /\ UNCHANGED <<objects, records, drawn, pc, locals, ghosts, bundle, exporter, withdrawn>>

Restore ==
  \/ BeginRestore \/ ProbeRecords
  \/ \E d, found \in Digest : RestoreObject(d, found)
  \/ \E kind \in RecordKinds : \E doc \in restorer.left[kind] : PublishRecord(kind, doc)
  \/ \E d \in Digest : PublishFresh(d) \/ Discard(d)
  \/ EndRestore \/ RefuseRestore
  \/ \E kind \in RecordKinds : \E doc \in restorer.wrote[kind] : Withdraw(kind, doc)
  \/ EndUndo \/ ReleaseRestore \/ KillRestore

TransferInit ==
  /\ Init
  /\ bundle = Absent /\ exporter = NoExport /\ withdrawn = {} /\ restorer = NoRestore

TransferNext ==
  \/ Next /\ UNCHANGED transferVars
  \/ Export
  \/ Restore

TransferSpec == TransferInit /\ [][TransferNext]_allVars

----------------------------------------------------------------------------
(* Properties *)

\* Every variable has its type, and between two exports or imports nothing of
\* the one before is left in hand.
TransferTypeOK ==
  /\ bundle \in Copy \cup {Absent, Partial}
  /\ exporter \in [at : {"idle", "read", "prepare", "copy"},
                   scope : CaseId \cup {Everything, Nil}, read : 0..5,
                   got : Copy, left : SUBSET Digest]
  /\ withdrawn \subseteq AssociationId
  /\ restorer \in [at : {"idle", "probe", "write", "done", "undo", "undone"},
                   left : Work, wrote : Copy, before : Copy, spoilt : BOOLEAN]
  /\ exporter.at = "idle" => exporter = NoExport
  /\ ~Restoring => restorer = NoRestore

\* copy_one: an export that is finished holds every object its records name,
\* whatever was deleted while it read; a missing object ends it.
BundleHoldsNamed == bundle \in Copy => Digests(bundle) \subseteq bundle.objects

\* case import: one that reports success left the whole export in the archive,
\* what it wrote and what it found there.
RestoredWhole == restorer.at = "done" => Within(bundle, Holdings)

\* store_all, discard: nothing that was stored before an import is gone or
\* changed because of it, not even when it is undone.
RestoreSparesStored == Restoring => Within(restorer.before, Holdings)

\* withdraw, discard: an import that was refused leaves the archive as it was,
\* unless an unlink of its undo was refused as well.
UndoRestores == restorer.at = "undone" /\ ~restorer.spoilt => Holdings = restorer.before

\* events_for: an import of what is there already writes nothing at all.
SecondRestoreWritesNothing ==
  restorer.at = "done" /\ Within(bundle, restorer.before) => Holdings = restorer.before

\* architecture.md, case import: a restored case is the case that was
\* exported.  A statement that was withdrawn then is not the latest word now.
WithdrawnStaysOut ==
  restorer.at = "done" =>
    \A a \in bundle.associations : a.id \in withdrawn => Superseded(associations, a)
=============================================================================
