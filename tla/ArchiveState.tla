---------------------------- MODULE ArchiveState ----------------------------
(***************************************************************************)
(* The archive on disk, and what an openPapir process holds in memory      *)
(* while one of its commands runs.                                         *)
(*                                                                         *)
(* A document is a record of the fields other documents and the commands   *)
(* depend on; the file name of a document is its id.  Titles, labels,      *)
(* roles, timestamps, statements and an association's outcome are data no  *)
(* guard of the code reads, and are left out.  One write of a document is  *)
(* one step here: AtomicWrite is the module that shows it may be.          *)
(***************************************************************************)
EXTENDS Naturals, FiniteSets, Sequences

CONSTANTS
  Proc,           \* running openPapir processes (slots, reused by later ones)
  Digest,         \* contents, each standing for its own sha256
  CaseId, SubmissionId, ReceiptId, AssociationId, EventId,
                  \* identifiers a process may draw, one pool per record kind:
                  \* the pools bound how many records are ever written
  Status,         \* what a case's mutable fields (title, notes, status, tags)
                  \* may be, taken together
  Nil,            \* Option::None
  Free,           \* the lock file does not exist
  Abandoned,      \* the lock file exists and its writer is gone
  MaxFiles,       \* bound on the files one import takes
  Ops,            \* the commands a run lets processes start
  MayCrash,       \* whether a process can be killed between two steps
  MayRefuse,      \* whether the filesystem can refuse a write or an unlink
  Unlistable      \* record kinds whose directory read_dir may fail on

Operations == {"import", "submission", "receipt", "association", "retire",
               "create_case", "update_case", "delete", "derive"}

Kinds == {"import_event", "submission", "receipt", "association", "derived"}

ASSUME ConstantsAssumption ==
  /\ MaxFiles \in Nat /\ Nil \notin AssociationId
  /\ Free # Abandoned /\ Free \notin Proc /\ Abandoned \notin Proc
  /\ Ops \subseteq Operations /\ Unlistable \subseteq Kinds
  /\ MayCrash \in BOOLEAN /\ MayRefuse \in BOOLEAN

VARIABLES
  lock,           \* the file `lock`: Free, the process that created it, Abandoned
  objects,        \* digests with a file under objects/sha256
  events,         \* documents in records/imports
  cases,          \* documents in records/cases
  submissions,    \* documents in records/submissions
  receipts,       \* documents in records/receipts
  associations,   \* documents in records/associations
  derived,        \* digests with a document in records/derived
  drawn,          \* identifiers drawn so far
  pc,             \* where each process is in its command
  todo,           \* files a process has still to store
  draft,          \* the record a process is about to write, without its id
  plan,           \* what a deletion has still to unlink
  strandedRecords,\* history: documents a cut-short deletion left behind
  strandedObjects \* history: objects a cut-short import left without event

records == <<events, cases, submissions, receipts, associations, derived>>
ghosts  == <<strandedRecords, strandedObjects>>
locals  == <<todo, draft, plan>>
vars    == <<lock, objects, records, drawn, pc, locals, ghosts>>

----------------------------------------------------------------------------
(* Documents *)

ImportEvent == [id: EventId, digest: Digest]
Case        == [id: CaseId, status: Status]
Submission  == [id: SubmissionId, case: CaseId, artefacts: SUBSET Digest]
Receipt     == [id: ReceiptId, artefact: Digest, event: EventId]
Association == [id: AssociationId, receipt: ReceiptId,
                candidates: SUBSET SubmissionId,
                supersedes: AssociationId \cup {Nil}]

SubmissionDraft  == [case: CaseId, artefacts: SUBSET Digest]
ReceiptDraft     == [artefact: Digest, event: EventId]
AssociationDraft == [receipt: ReceiptId, candidates: SUBSET SubmissionId,
                     supersedes: AssociationId \cup {Nil}]

\* update_record: the document it read, and what it makes of it.
CaseDraft == [stored: Case, case: Case]

Drafts == SubmissionDraft \cup ReceiptDraft \cup AssociationDraft \cup CaseDraft \cup {Nil}

\* Plan of deletion/plan.rs; archive derive keeps its two work lists in it too.
Plan == [associations: SUBSET AssociationId, receipts: SUBSET ReceiptId,
         submissions: SUBSET SubmissionId, cases: SUBSET CaseId,
         derived: SUBSET Digest, objects: SUBSET Digest,
         events: SUBSET ImportEvent]

NoPlan == [associations |-> {}, receipts |-> {}, submissions |-> {},
           cases |-> {}, derived |-> {}, objects |-> {}, events |-> {}]

Ids(docs) == {doc.id : doc \in docs}

Without(docs, id) == {doc \in docs : doc.id # id}

\* Fault: an identifier is drawn without looking at what was drawn before.
UndrawnUnchecked(pool) == pool

\* A drawn identifier is one no process drew before (ident::new_id is 128
\* random bits).  Nothing depends on which: the draw is a choice.
Undrawn(pool) == pool \ drawn
NewId(pool)   == CHOOSE id \in Undrawn(pool) : TRUE

\* What listing a record directory returns.  A read_dir that fails for
\* anything but a missing directory yields no record and no error.
Listings(kind, docs) ==
  IF kind \in Unlistable THEN {docs, {}} ELSE {docs}

----------------------------------------------------------------------------
(* References between documents *)

Named(a) == a.candidates

Superseded(docs, a) == \E b \in docs : b.supersedes = a.id

Supersedes(a, b) == a.supersedes = b.id

Linked(a, b) == Supersedes(a, b) \/ Supersedes(b, a)

----------------------------------------------------------------------------
(* Processes *)

Stages == {"idle", "probe", "unlink", "purge", "store", "event", "write_submission",
           "write_receipt", "write_association", "write_case", "describe",
           "sweep", "done"} \cup Operations

\* Stages in which a process may hold a record it has still to write.
Drafting == {"store", "event", "write_submission", "write_receipt",
             "write_association", "write_case"}

Working(p) == pc[p] # "idle"

Goto(p, stage) == pc' = [pc EXCEPT ![p] = stage]

\* Fault: the record a command was about to write survives it.
ForgetKeepingDraft(p) ==
  /\ pc'   = [pc   EXCEPT ![p] = "idle"]
  /\ todo' = [todo EXCEPT ![p] = <<>>]
  /\ plan' = [plan EXCEPT ![p] = NoPlan]
  /\ UNCHANGED draft

\* A process that ends, however it ends, loses what it held in memory.
Forget(p) ==
  /\ pc'    = [pc    EXCEPT ![p] = "idle"]
  /\ todo'  = [todo  EXCEPT ![p] = <<>>]
  /\ draft' = [draft EXCEPT ![p] = Nil]
  /\ plan'  = [plan  EXCEPT ![p] = NoPlan]

Init ==
  /\ lock = Free
  /\ objects = {}
  /\ events = {} /\ cases = {} /\ submissions = {}
  /\ receipts = {} /\ associations = {} /\ derived = {}
  /\ drawn = {}
  /\ pc    = [p \in Proc |-> "idle"]
  /\ todo  = [p \in Proc |-> <<>>]
  /\ draft = [p \in Proc |-> Nil]
  /\ plan  = [p \in Proc |-> NoPlan]
  /\ strandedRecords = {} /\ strandedObjects = {}

TypeOK ==
  /\ lock \in Proc \cup {Free, Abandoned}
  /\ objects \subseteq Digest
  /\ events \subseteq ImportEvent
  /\ cases \subseteq Case
  /\ submissions \subseteq Submission
  /\ receipts \subseteq Receipt
  /\ associations \subseteq Association
  /\ derived \subseteq Digest
  /\ drawn \subseteq CaseId \cup SubmissionId \cup ReceiptId
                     \cup AssociationId \cup EventId
  /\ pc \in [Proc -> Stages]
  /\ todo \in [Proc -> Seq(Digest)]
  /\ plan \in [Proc -> Plan]
  /\ draft \in [Proc -> Drafts]
  /\ \A p \in Proc :
       /\ pc[p] = "write_submission"   => draft[p] \in SubmissionDraft
       /\ pc[p] \in {"store", "event"} => draft[p] \in SubmissionDraft \cup {Nil}
       /\ pc[p] = "write_receipt"      => draft[p] \in ReceiptDraft
       /\ pc[p] = "write_association"  => draft[p] \in AssociationDraft
       /\ pc[p] = "write_case"         => draft[p] \in CaseDraft
       /\ pc[p] \notin Drafting        => draft[p] = Nil
  /\ strandedRecords \subseteq AssociationId \cup EventId
  /\ strandedObjects \subseteq Digest
=============================================================================
