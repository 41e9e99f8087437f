------------------------------- MODULE Archive -------------------------------
(***************************************************************************)
(* Every command of openPapir that writes to one archive, run by processes *)
(* that share it, be killed between any two of their steps, and meet a     *)
(* filesystem that refuses; and what must hold of the records whatever     *)
(* happens.                                                                *)
(***************************************************************************)
EXTENDS Filing, CaseDeletion

----------------------------------------------------------------------------
(* Ways a command ends early *)

Writes == {"store", "event", "write_submission", "write_receipt",
           "write_association", "write_case", "describe"}

\* The object a process has stored and not yet recorded an import event for.
Unrecorded(p) ==
  IF pc[p] = "event" /\ \A e \in events : e.digest # Head(todo[p])
  THEN {Head(todo[p])} ELSE {}

Pool(stage) ==
  CASE stage = "event" -> EventId
    [] stage = "write_submission" -> SubmissionId
    [] stage = "write_receipt" -> ReceiptId
    [] stage = "write_association" -> AssociationId
    [] OTHER -> Proc

\* A command that errs returns at once and drops the lock; nothing it wrote
\* is undone.  What it was asked for may not exist, a write may be refused,
\* and a record may find its pool of identifiers used up, which is the bound.
Refuse(p) ==
  /\ \/ pc[p] \in Operations
     \/ pc[p] \in Writes /\ (MayRefuse \/ Undrawn(Pool(pc[p])) = {})
  /\ strandedObjects' = strandedObjects \cup Unrecorded(p)
  /\ DropLock
  /\ Forget(p)
  /\ UNCHANGED <<objects, records, drawn, strandedRecords>>

\* The process is killed.  Its lock file stays, and no command removes it.
Crash(p) ==
  /\ MayCrash
  /\ Working(p)
  /\ lock' = IF lock = p THEN Abandoned ELSE lock
  /\ strandedRecords' = strandedRecords \cup Unfinished(p)
  /\ strandedObjects' = strandedObjects \cup Unrecorded(p)
  /\ Forget(p)
  /\ UNCHANGED <<objects, records, drawn>>

\* Nothing in openPapir takes over an abandoned lock: the user removes it.
RemoveAbandonedLock ==
  /\ lock = Abandoned
  /\ lock' = Free
  /\ UNCHANGED <<objects, records, drawn, pc, locals, ghosts>>

Step(p) == File(p) \/ Delete(p) \/ Refuse(p)

Next == (\E p \in Proc : Step(p) \/ Crash(p)) \/ RemoveAbandonedLock

Spec == Init /\ [][Next]_vars

\* A started command keeps running unless it is killed: nothing in it waits
\* for another process.
Fairness == \A p \in Proc : WF_vars(Working(p) /\ Step(p))

FairSpec == Spec /\ Fairness

----------------------------------------------------------------------------
(* Safety *)

\* WriterLock: every process inside a command created the lock file that is
\* there, so no two are inside at once and none runs on a lock taken from it.
WriterHoldsLock == \A p \in Proc : Working(p) => lock = p

UniqueIds(docs) ==
  Ids(docs) \subseteq drawn /\ \A a, b \in docs : a.id = b.id => a = b

\* write_record before the publish: an identifier names one record for good,
\* whatever was deleted since.
IdsUnique ==
  /\ UniqueIds(events) /\ UniqueIds(cases) /\ UniqueIds(submissions)
  /\ UniqueIds(receipts) /\ UniqueIds(associations)

\* submission add, case delete: the case a submission was recorded against is
\* there, and so is every object it names.
SubmissionsIntact ==
  \A s \in submissions : s.case \in Ids(cases) /\ s.artefacts \subseteq objects

\* receipt add, purge: a receipt's object is stored and the import event it
\* names is there and records that object.
ReceiptsIntact ==
  \A r \in receipts :
    /\ r.artefact \in objects
    /\ [id |-> r.event, digest |-> r.artefact] \in events

\* association create, case delete: the receipt and every submission an
\* association names are there.
AssociationsIntact ==
  \A a \in associations :
    a.receipt \in Ids(receipts) /\ a.candidates \subseteq Ids(submissions)

\* purge: derived facts go before the object they describe, so nothing is
\* said about content that is gone.
DerivedDescribesStored == derived \subseteq objects

\* receipt add, submission add, association create, archive derive: whatever a
\* command found before it wrote is there when it has written, and a deletion
\* takes nothing that a record which stays names or describes.
ReferencesIntact ==
  SubmissionsIntact /\ ReceiptsIntact /\ AssociationsIntact /\ DerivedDescribesStored

\* refuse_cycle's comment: no command writes a supersedes cycle.
NoCycle == ~HoldsCycle(associations)

\* Every document that names a missing one was left by a deletion cut short:
\* either still in its plan, or stranded when it ended.
InFlight == UNION {Unfinished(p) : p \in Proc}

SupersessionIntact ==
  \A a \in associations :
    \/ a.supersedes \in {Nil} \cup Ids(associations)
    \/ a.id \in strandedRecords \cup InFlight

EventsIntact ==
  \A e \in events : e.digest \in objects \/ e.id \in strandedRecords \cup InFlight

\* import, purge: a stored object has an import event, except between the
\* two writes of store_one and after an import that ended there.
ObjectsRecorded ==
  \A d \in objects :
    \/ \E e \in events : e.digest = d
    \/ d \in strandedObjects
    \/ \E p \in Proc : d \in Unrecorded(p)

\* plan::build: what a deletion is about to unlink is what belongs to its
\* case alone.  It takes no live statement that names a submission which
\* stays, and no object that something which stays names.
PlanSparesOthers ==
  \A p \in Proc : pc[p] = "probe" =>
    /\ \A a \in associations : a.id \in plan[p].associations =>
         Superseded(associations, a) \/ Named(a) \subseteq plan[p].submissions
    /\ \A r \in receipts : r.id \notin plan[p].receipts =>
         r.artefact \notin plan[p].objects
    /\ \A s \in submissions : s.id \notin plan[p].submissions =>
         s.artefacts \cap plan[p].objects = {}

----------------------------------------------------------------------------
(* Steps *)

\* write_record, replace_record: a stored record is never rewritten, the
\* case's fields apart, and one that went does not come back.
WriteOnce ==
  [][/\ \A docs \in {<<events, events'>>, <<submissions, submissions'>>,
                     <<receipts, receipts'>>, <<associations, associations'>>} :
          \A old \in docs[1], new \in docs[2] : old.id = new.id => old = new
     /\ (Ids(cases') \cup Ids(submissions') \cup Ids(receipts')
           \cup Ids(associations') \cup Ids(events')) \cap drawn
          \subseteq Ids(cases) \cup Ids(submissions) \cup Ids(receipts)
                      \cup Ids(associations) \cup Ids(events)]_vars

\* case update: what takes the place of a case's document was made from that
\* document, so a change that another update, or anything else, made to any
\* field between the reading and the rename is not overwritten.
NoLostUpdate ==
  [][\A old \in cases, new \in cases' : old.id = new.id /\ old # new =>
       \E p \in Proc : pc[p] = "write_case" /\ draft[p] = [stored |-> old, case |-> new]]_vars

\* case delete: a statement the user replaced or withdrew is not the latest
\* word again because its successor went, except while its own chain is
\* being removed (retire_record, Supersession::doomed).
WithdrawnStaysWithdrawn ==
  [][\A a \in associations \cap associations' :
       Superseded(associations, a) =>
         Superseded(associations', a) \/ a.id \in InFlight \cup strandedRecords]_vars

----------------------------------------------------------------------------
(* Liveness *)

\* A command does not hold the lock for ever: it gives it back or is killed.
LockComesBack == \A p \in Proc : lock = p ~> lock # p

----------------------------------------------------------------------------
(* What the documents promise and the code does not *)

AtRest == \A p \in Proc : ~Working(p)

\* architecture.md, case delete: a refused unlink must leave no record naming
\* one that is gone.
RefusalLeavesNoDangling ==
  AtRest => \A a \in associations : a.supersedes \in {Nil} \cup Ids(associations)

\* architecture.md, case delete: only an object no remaining receipt or
\* submission references is purged.
PurgeTakesUnreferenced ==
  [][\A d \in objects \ objects' :
       /\ \A r \in receipts : r.artefact # d
       /\ \A s \in submissions : d \notin s.artefacts]_vars
=============================================================================
