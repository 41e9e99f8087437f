------------------------------- MODULE Filing -------------------------------
(***************************************************************************)
(* The commands that add to the archive: import, submission add, receipt   *)
(* add, association create and retire, case create and update, and archive *)
(* derive.  Each runs under the writer lock, reads what it must find, and  *)
(* then publishes its documents one at a time.                             *)
(***************************************************************************)
EXTENDS ArchiveState

----------------------------------------------------------------------------
(* The lock *)

\* Fault: the lock file is created whether or not it is there.
AcquireUnchecked(p, op) ==
  /\ pc[p] = "idle"
  /\ lock' = p
  /\ Goto(p, op)
  /\ UNCHANGED <<objects, records, drawn, locals, ghosts>>

\* create_new on the lock file.  A process that finds the file refuses with
\* lock.held and changes nothing, which is no step of this model.
Acquire(p, op) ==
  /\ pc[p] = "idle"
  /\ lock = Free
  /\ lock' = p
  /\ Goto(p, op)
  /\ UNCHANGED <<objects, records, drawn, locals, ghosts>>

\* Fault: no guard removes the lock file.
LeaveLock == UNCHANGED lock

\* The lock guard is dropped: the file is removed, or its removal fails
\* unreported and the file stays.
DropLock == lock' \in IF MayRefuse THEN {Free, Abandoned} ELSE {Free}

Release(p) ==
  /\ pc[p] = "done"
  /\ DropLock
  /\ Forget(p)
  /\ UNCHANGED <<objects, records, drawn, ghosts>>

----------------------------------------------------------------------------
(* Storing files: import, and submission add --file *)

\* The contents a list of files names.
Contents(files) == {files[i] : i \in DOMAIN files}

FileLists == UNION {[1..n -> Digest] : n \in 1..MaxFiles}

\* checked_names and plan accept the arguments; each file becomes one pass of
\* store_one.
Import(p) ==
  /\ pc[p] = "import"
  /\ \E files \in FileLists : todo' = [todo EXCEPT ![p] = files]
  /\ Goto(p, "store")
  /\ UNCHANGED <<lock, objects, records, drawn, draft, plan, ghosts>>

\* The case exists and every named digest is stored; both are read under the
\* lock.  The files, if any, are stored before the record is written.
AddSubmission(p) ==
  /\ pc[p] = "submission"
  /\ \E c \in Ids(cases), given \in SUBSET objects, files \in FileLists \cup {<<>>} :
       /\ todo'  = [todo EXCEPT ![p] = files]
       /\ draft' = [draft EXCEPT ![p] =
            [case |-> c, artefacts |-> given \cup Contents(files)]]
       /\ Goto(p, IF files = <<>> THEN "write_submission" ELSE "store")
  /\ UNCHANGED <<lock, objects, records, drawn, plan, ghosts>>

\* objects::store, place: publish the staged bytes, or find them stored.
StoreObject(p) ==
  /\ pc[p] = "store"
  /\ objects' = objects \cup {Head(todo[p])}
  /\ Goto(p, "event")
  /\ UNCHANGED <<lock, records, drawn, locals, ghosts>>

\* The rest of store_one: one import event per file, duplicates included.
WriteEvent(p) ==
  /\ pc[p] = "event"
  /\ Undrawn(EventId) # {}
  /\ LET id == NewId(EventId) IN
       /\ events' = events \cup {[id |-> id, digest |-> Head(todo[p])]}
       /\ drawn' = drawn \cup {id}
  /\ todo' = [todo EXCEPT ![p] = Tail(@)]
  /\ Goto(p, IF Len(todo[p]) > 1 THEN "store"
             ELSE IF draft[p] = Nil THEN "done" ELSE "write_submission")
  /\ UNCHANGED <<lock, objects, cases, submissions, receipts, associations,
                 derived, draft, plan, ghosts>>

WriteSubmission(p) ==
  /\ pc[p] = "write_submission"
  /\ Undrawn(SubmissionId) # {}
  /\ LET id == NewId(SubmissionId) IN
       /\ submissions' = submissions \cup
            {[id |-> id, case |-> draft[p].case, artefacts |-> draft[p].artefacts]}
       /\ drawn' = drawn \cup {id}
  /\ draft' = [draft EXCEPT ![p] = Nil]
  /\ Goto(p, "done")
  /\ UNCHANGED <<lock, objects, events, cases, receipts, associations, derived,
                 todo, plan, ghosts>>

----------------------------------------------------------------------------
(* Receipts *)

\* The object is stored, and the import event is one that records its digest:
\* the one named, or the earliest.  Which one is the earliest is data.
AddReceipt(p) ==
  /\ pc[p] = "receipt"
  /\ \E e \in events :
       /\ e.digest \in objects
       /\ draft' = [draft EXCEPT ![p] = [artefact |-> e.digest, event |-> e.id]]
  /\ Goto(p, "write_receipt")
  /\ UNCHANGED <<lock, objects, records, drawn, todo, plan, ghosts>>

WriteReceipt(p) ==
  /\ pc[p] = "write_receipt"
  /\ Undrawn(ReceiptId) # {}
  /\ LET id == NewId(ReceiptId) IN
       /\ receipts' = receipts \cup
            {[id |-> id, artefact |-> draft[p].artefact, event |-> draft[p].event]}
       /\ drawn' = drawn \cup {id}
  /\ draft' = [draft EXCEPT ![p] = Nil]
  /\ Goto(p, "done")
  /\ UNCHANGED <<lock, objects, events, cases, submissions, associations, derived,
                 todo, plan, ghosts>>

----------------------------------------------------------------------------
(* Associations *)

\* check_shape admits every candidate set under some outcome.  A record may
\* be superseded more than once: checked_supersedes asks only that it exists
\* and belongs to the receipt.
CreateAssociation(p) ==
  /\ pc[p] = "association"
  /\ \E r \in Ids(receipts), named \in SUBSET Ids(submissions) :
     \E s \in {Nil} \cup Ids({a \in associations : a.receipt = r}) :
       draft' = [draft EXCEPT ![p] =
                   [receipt |-> r, candidates |-> named, supersedes |-> s]]
  /\ Goto(p, "write_association")
  /\ UNCHANGED <<lock, objects, records, drawn, todo, plan, ghosts>>

\* Withdrawing a statement writes one that supersedes it and names nothing.
\* A record already superseded is refused.
RetireAssociation(p) ==
  /\ pc[p] = "retire"
  /\ \E a \in associations, stored \in Listings("association", associations) :
       /\ ~Superseded(stored, a)
       /\ draft' = [draft EXCEPT ![p] =
            [receipt |-> a.receipt, candidates |-> {}, supersedes |-> a.id]]
  /\ Goto(p, "write_association")
  /\ UNCHANGED <<lock, objects, records, drawn, todo, plan, ghosts>>

WriteAssociation(p) ==
  /\ pc[p] = "write_association"
  /\ Undrawn(AssociationId) # {}
  /\ LET id == NewId(AssociationId) IN
       /\ associations' = associations \cup
            {[id |-> id, receipt |-> draft[p].receipt,
              candidates |-> draft[p].candidates, supersedes |-> draft[p].supersedes]}
       /\ drawn' = drawn \cup {id}
  /\ draft' = [draft EXCEPT ![p] = Nil]
  /\ Goto(p, "done")
  /\ UNCHANGED <<lock, objects, events, cases, submissions, receipts, derived,
                 todo, plan, ghosts>>

----------------------------------------------------------------------------
(* Cases *)

CreateCase(p) ==
  /\ pc[p] = "create_case"
  /\ Undrawn(CaseId) # {}
  /\ \E status \in Status :
       cases' = cases \cup {[id |-> NewId(CaseId), status |-> status]}
  /\ drawn' = drawn \cup {NewId(CaseId)}
  /\ Goto(p, "done")
  /\ UNCHANGED <<lock, objects, events, submissions, receipts, associations,
                 derived, locals, ghosts>>

\* The record is read under the lock; a change that changes nothing is refused.
UpdateCase(p) ==
  /\ pc[p] = "update_case"
  /\ \E c \in cases, status \in Status :
       /\ status # c.status
       /\ draft' = [draft EXCEPT ![p] = [stored |-> c, case |-> [c EXCEPT !.status = status]]]
  /\ Goto(p, "write_case")
  /\ UNCHANGED <<lock, objects, records, drawn, todo, plan, ghosts>>

\* The one rewrite of a stored record: a rename, which puts the document
\* there whether or not one was.
ReplaceCase(p) ==
  /\ pc[p] = "write_case"
  /\ cases' = Without(cases, draft[p].case.id) \cup {draft[p].case}
  /\ draft' = [draft EXCEPT ![p] = Nil]
  /\ Goto(p, "done")
  /\ UNCHANGED <<lock, objects, events, submissions, receipts, associations,
                 derived, drawn, todo, plan, ghosts>>

----------------------------------------------------------------------------
(* Derived facts *)

\* What is filed is listed first; a described object's record is replaced,
\* one that describes no stored object is removed afterwards.
Derive(p) ==
  /\ pc[p] = "derive"
  /\ \E filed \in Listings("derived", derived) :
       plan' = [plan EXCEPT ![p] =
                  [NoPlan EXCEPT !.objects = objects, !.derived = filed \ objects]]
  /\ Goto(p, "describe")
  /\ UNCHANGED <<lock, objects, records, drawn, todo, draft, ghosts>>

\* An object that cannot be read is passed over and keeps what it had.
Describe(p, d) ==
  /\ pc[p] = "describe"
  /\ d \in plan[p].objects
  /\ plan' = [plan EXCEPT ![p].objects = @ \ {d}]
  /\ derived' \in {derived \cup {d}} \cup IF MayRefuse THEN {derived} ELSE {}
  /\ UNCHANGED <<lock, objects, events, cases, submissions, receipts, associations,
                 drawn, pc, todo, draft, ghosts>>

\* A stale record that will not go is left for the next run.
Sweep(p) ==
  /\ pc[p] = "describe"
  /\ plan[p].objects = {}
  /\ \E gone \in IF MayRefuse THEN SUBSET plan[p].derived ELSE {plan[p].derived} :
       derived' = derived \ gone
  /\ plan' = [plan EXCEPT ![p] = NoPlan]
  /\ Goto(p, "done")
  /\ UNCHANGED <<lock, objects, events, cases, submissions, receipts, associations,
                 drawn, todo, draft, ghosts>>

----------------------------------------------------------------------------
File(p) ==
  \/ \E op \in Ops : Acquire(p, op)
  \/ Import(p) \/ AddSubmission(p) \/ StoreObject(p) \/ WriteEvent(p)
  \/ WriteSubmission(p)
  \/ AddReceipt(p) \/ WriteReceipt(p)
  \/ CreateAssociation(p) \/ RetireAssociation(p) \/ WriteAssociation(p)
  \/ CreateCase(p) \/ UpdateCase(p) \/ ReplaceCase(p)
  \/ Derive(p) \/ (\E d \in Digest : Describe(p, d)) \/ Sweep(p)
  \/ Release(p)
=============================================================================
