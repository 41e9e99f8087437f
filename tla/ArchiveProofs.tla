--------------------------- MODULE ArchiveProofs ---------------------------
(***************************************************************************)
(* What holds of Archive for every number of processes, identifiers and    *)
(* contents.                                                               *)
(*                                                                         *)
(* First, type correctness, mutual exclusion, fresh identifiers, and what  *)
(* one step can do to the records and objects (Moves).                     *)
(*                                                                         *)
(* Then referential integrity: no submission, receipt or association names *)
(* a record or an object that is not there, an identifier names one record *)
(* for good, and nothing overwrites a record or brings one back.  A        *)
(* reference is kept by two facts about the process that holds the lock,   *)
(* which the invariants alone do not give: what it found is still there    *)
(* when it writes, and nothing its deletion leaves names what it has still *)
(* to unlink.  Each kind of reference has its own two (SubmissionHeld,     *)
(* ReceiptHeld, AssociationHeld), and rests on its own directory being     *)
(* listable: Unlistable.cfg shows a deletion without it.                   *)
(***************************************************************************)
EXTENDS Archive, SequenceTheorems, TLAPS

----------------------------------------------------------------------------
(* Types *)

\* A process inside store_one has a file to store: Head(todo[p]) is defined.
HasFile == \A p \in Proc : pc[p] \in {"store", "event"} => todo[p] # <<>>

TypeInv == TypeOK /\ HasFile

\* A list of files the command line accepts is a nonempty sequence of contents.
LEMMA FileListsAreLists ==
  \A files \in FileLists : files \in Seq(Digest) /\ files # <<>>
PROOF
<1> SUFFICES ASSUME NEW n \in 1..MaxFiles, NEW files \in [1..n -> Digest]
             PROVE  files \in Seq(Digest) /\ files # <<>>
  BY DEF FileLists
<1>1. n \in Nat /\ n >= 1
  BY ConstantsAssumption
<1>2. files \in Seq(Digest) /\ Len(files) = n
  BY <1>1
<1> QED BY <1>1, <1>2

\* A list of more than one file has a nonempty rest.
LEMMA RestOfLongList ==
  ASSUME NEW S, NEW s \in Seq(S), Len(s) > 1
  PROVE  Tail(s) # <<>>
<1>1. s # <<>> /\ Len(s) \in Nat
  BY EmptySeq, LenProperties
<1>2. Len(Tail(s)) = Len(s) - 1
  BY <1>1, HeadTailProperties
<1>3. Len(Tail(s)) # Len(<< >>)
  BY <1>1, <1>2, EmptySeq
<1> QED BY <1>3, Zenon

\* An identifier that is drawn is one of its pool, and was not drawn before.
LEMMA NewIdIsFresh ==
  ASSUME NEW pool, Undrawn(pool) # {}
  PROVE  NewId(pool) \in pool /\ NewId(pool) \notin drawn
BY DEF NewId, Undrawn

USE DEF Goto, Forget, DropLock, records, ghosts, locals

\* Every initial state is of the types declared.
LEMMA InitTypeInv == Init => TypeInv
BY ConstantsAssumption DEF Init, TypeInv, TypeOK, HasFile, Stages, Operations, Drafting, Drafts, Plan, NoPlan

\* A filing step keeps the types.
LEMMA FilingTypeInv ==
  ASSUME TypeInv, NEW p \in Proc, File(p)
  PROVE  TypeInv'
<1> USE ConstantsAssumption DEF TypeInv, TypeOK, HasFile, Stages, Operations, Drafting, Drafts
<1>1. ASSUME NEW op \in Ops, Acquire(p, op) PROVE TypeInv'
  BY <1>1 DEF Acquire
<1>2. CASE Import(p)
  BY <1>2, FileListsAreLists DEF Import
<1>3. CASE AddSubmission(p)
  <2>1. PICK c \in Ids(cases), given \in SUBSET objects, files \in FileLists \cup {<<>>} :
          /\ todo' = [todo EXCEPT ![p] = files]
          /\ draft' = [draft EXCEPT ![p] =
               [case |-> c, artefacts |-> given \cup Contents(files)]]
          /\ Goto(p, IF files = <<>> THEN "write_submission" ELSE "store")
    BY <1>3 DEF AddSubmission
  <2>2. files \in Seq(Digest)
    <3>1. CASE files \in FileLists
      BY <3>1, FileListsAreLists
    <3>2. CASE files = <<>>
      BY <3>2
    <3> QED BY <3>1, <3>2
  <2>3. Contents(files) \subseteq Digest
    BY <2>2 DEF Contents
  <2>4. [case |-> c, artefacts |-> given \cup Contents(files)]
          \in SubmissionDraft
    BY <2>3 DEF SubmissionDraft, Ids, Case
  <2> DEFINE new == [case |-> c, artefacts |-> given \cup Contents(files)]
  <2> HIDE DEF new
  <2>5. draft' = [draft EXCEPT ![p] = new] /\ new \in SubmissionDraft
    BY <2>1, <2>4 DEF new
  <2>6. pc[p] = "submission" /\ UNCHANGED <<lock, objects, records, drawn, plan, ghosts>>
    BY <1>3 DEF AddSubmission
  <2> DEFINE next == IF files = <<>> THEN "write_submission" ELSE "store"
  <2> HIDE DEF TypeOK, HasFile, TypeInv
  <2>7. /\ pc \in [Proc -> Stages] /\ pc' = [pc EXCEPT ![p] = next]
        /\ draft \in [Proc -> Drafts] /\ todo \in [Proc -> Seq(Digest)]
    BY <2>1 DEF TypeInv, TypeOK
  <2>8. HasFile'
    BY <2>1, <2>7 DEF TypeInv, HasFile
  <2>9. ASSUME NEW q \in Proc
        PROVE  /\ pc'[q] = "write_submission"   => draft'[q] \in SubmissionDraft
               /\ pc'[q] \in {"store", "event"} => draft'[q] \in SubmissionDraft \cup {Nil}
               /\ pc'[q] = "write_receipt"      => draft'[q] \in ReceiptDraft
               /\ pc'[q] = "write_association"  => draft'[q] \in AssociationDraft
               /\ pc'[q] = "write_case"         => draft'[q] \in CaseDraft
               /\ pc'[q] \notin Drafting        => draft'[q] = Nil
    <3>1. CASE q = p
      BY <2>5, <2>7, <3>1
    <3>2. CASE q # p
      BY <2>5, <2>7, <2>9, <3>2 DEF TypeInv, TypeOK
    <3> QED BY <3>1, <3>2
  <2>10. /\ pc' \in [Proc -> Stages] /\ draft' \in [Proc -> Drafts]
         /\ todo' \in [Proc -> Seq(Digest)]
    <3>1. next \in Stages /\ new \in Drafts
      BY <2>5
    <3> HIDE DEF next, Stages, Drafts
    <3>2. pc' \in [Proc -> Stages]
      BY <2>7, <3>1
    <3>3. draft' \in [Proc -> Drafts]
      BY <2>5, <2>7, <3>1
    <3>4. todo' \in [Proc -> Seq(Digest)]
      BY <2>1, <2>2, <2>7
    <3> QED BY <3>2, <3>3, <3>4
  <2>11. TypeOK'
    BY <2>6, <2>9, <2>10 DEF TypeInv, TypeOK
  <2> QED BY <2>8, <2>11 DEF TypeInv
<1>4. CASE StoreObject(p)
  BY <1>4 DEF StoreObject
<1>5. CASE WriteEvent(p)
  <2>1. Head(todo[p]) \in Digest /\ Tail(todo[p]) \in Seq(Digest)
    BY <1>5 DEF WriteEvent
  <2>2. Len(todo[p]) > 1 => Tail(todo[p]) # <<>>
    BY RestOfLongList
  <2>3. events' \subseteq ImportEvent /\ drawn' \subseteq drawn \cup EventId
    BY <1>5, <2>1, NewIdIsFresh DEF WriteEvent, ImportEvent
  <2> QED BY <1>5, <2>1, <2>2, <2>3 DEF WriteEvent
<1>6. CASE WriteSubmission(p)
  BY <1>6, NewIdIsFresh DEF WriteSubmission, Submission, SubmissionDraft
<1>7. CASE AddReceipt(p)
  BY <1>7 DEF AddReceipt, ReceiptDraft, ImportEvent
<1>8. CASE WriteReceipt(p)
  BY <1>8, NewIdIsFresh DEF WriteReceipt, Receipt, ReceiptDraft
<1>9. CASE CreateAssociation(p)
  BY <1>9 DEF CreateAssociation, AssociationDraft, Association, Ids, Receipt, Submission
<1>10. CASE RetireAssociation(p)
  BY <1>10 DEF RetireAssociation, AssociationDraft, Association
<1>11. CASE WriteAssociation(p)
  BY <1>11, NewIdIsFresh DEF WriteAssociation, AssociationDraft, Association
<1>12. CASE CreateCase(p)
  BY <1>12, NewIdIsFresh DEF CreateCase, Case
<1>13. CASE UpdateCase(p)
  <2>1. PICK c \in cases, status \in Status :
          draft' = [draft EXCEPT ![p] =
                      [stored |-> c, case |-> [c EXCEPT !.status = status]]]
    BY <1>13 DEF UpdateCase
  <2>2. c \in Case
    BY DEF TypeInv, TypeOK
  <2>3. [stored |-> c, case |-> [c EXCEPT !.status = status]] \in CaseDraft
    BY <2>2 DEF Case, CaseDraft
  <2> QED BY <1>13, <2>1, <2>3 DEF UpdateCase
<1>14. CASE ReplaceCase(p)
  BY <1>14 DEF ReplaceCase, Without, CaseDraft
<1>15. CASE Derive(p)
  <2>1. PICK filed \in {derived, {}} :
          plan' = [plan EXCEPT ![p] =
                     [NoPlan EXCEPT !.objects = objects, !.derived = filed \ objects]]
    BY <1>15 DEF Derive, Listings
  <2>2. [NoPlan EXCEPT !.objects = objects, !.derived = filed \ objects] \in Plan
    BY DEF NoPlan, Plan
  <2> QED BY <1>15, <2>1, <2>2 DEF Derive
<1>16. ASSUME NEW d \in Digest, Describe(p, d) PROVE TypeInv'
  <2>1. [plan[p] EXCEPT !.objects = @ \ {d}] \in Plan
    BY DEF Plan
  <2>2. plan' = [plan EXCEPT ![p] = [plan[p] EXCEPT !.objects = @ \ {d}]]
    BY <1>16 DEF Describe
  <2> QED BY <1>16, <2>1, <2>2 DEF Describe
<1>17. CASE Sweep(p)
  BY <1>17 DEF Sweep, Plan, NoPlan
<1>18. CASE Release(p)
  BY <1>18 DEF Release, Plan, NoPlan
<1> QED
  BY <1>1, <1>2, <1>3, <1>4, <1>5, <1>6, <1>7, <1>8, <1>9, <1>10, <1>11, <1>12,
     <1>13, <1>14, <1>15, <1>16, <1>17, <1>18 DEF File

\* What a deletion plans is a plan.
LEMMA PlanOfIsPlan ==
  ASSUME TypeInv, NEW c \in CaseId, NEW purge,
         NEW subs \in SUBSET Submission, NEW recs \in SUBSET Receipt,
         NEW assocs \in SUBSET Association, NEW evs \in SUBSET ImportEvent,
         NEW filed \in SUBSET Digest
  PROVE  PlanOf(c, purge, subs, recs, assocs, evs, filed) \in Plan
<1> DEFINE going  == {s \in subs : s.case = c}
           doomed == Doomed(assocs, Ids(going))
           goingRecs == DoomedReceipts(recs, assocs, doomed)
           purged == IF purge THEN Unreferenced(subs, going, recs, goingRecs) ELSE {}
<1>1. going \subseteq subs /\ doomed \subseteq assocs /\ goingRecs \subseteq recs
  BY DEF Doomed, DoomedReceipts
<1>2. /\ Ids(doomed) \subseteq AssociationId /\ Ids(goingRecs) \subseteq ReceiptId
      /\ Ids(going) \subseteq SubmissionId
  BY <1>1 DEF Ids, Association, Receipt, Submission
<1> HIDE DEF going, doomed, goingRecs
<1>3. purged \subseteq Digest
  <2>1. \A s \in subs : s.artefacts \subseteq Digest
    BY DEF Submission
  <2>2. \A r \in recs : r.artefact \in Digest
    BY DEF Receipt
  <2>3. Unreferenced(subs, going, recs, goingRecs) \subseteq Digest
    <3>1. UNION {s.artefacts : s \in going} \subseteq Digest
      BY <1>1, <2>1
    <3>2. {r.artefact : r \in goingRecs} \subseteq Digest
      BY <1>1, <2>2
    <3>3. ASSUME NEW d \in Unreferenced(subs, going, recs, goingRecs)
          PROVE  \/ d \in UNION {s.artefacts : s \in going}
                 \/ d \in {r.artefact : r \in goingRecs}
      BY <3>3, Zenon DEF Unreferenced
    <3> QED BY <3>1, <3>2, <3>3, Zenon
  <2> QED BY <2>3
<1>4. filed \cap purged \subseteq Digest /\ {e \in evs : e.digest \in purged} \subseteq ImportEvent
  BY <1>3
<1> HIDE DEF purged
<1>5. PlanOf(c, purge, subs, recs, assocs, evs, filed)
        = [associations |-> Ids(doomed), receipts |-> Ids(goingRecs),
           submissions |-> Ids(going), cases |-> {c}, derived |-> filed \cap purged,
           objects |-> purged, events |-> {e \in evs : e.digest \in purged}]
  BY DEF PlanOf, going, doomed, goingRecs, purged
<1> QED BY <1>2, <1>3, <1>4, <1>5 DEF Plan

\* A step that takes documents away and changes a plan keeps the types, if
\* no process begins or ends holding a draft in it.
LEMMA TakingKeepsTypes ==
  ASSUME TypeInv,
         UNCHANGED <<lock, drawn, todo, draft>>,
         objects' \subseteq objects, events' \subseteq events,
         cases' \subseteq cases, submissions' \subseteq submissions,
         receipts' \subseteq receipts, associations' \subseteq associations,
         derived' \subseteq derived,
         plan' \in [Proc -> Plan],
         pc' \in [Proc -> Stages],
         \A q \in Proc : pc'[q] = pc[q] \/ (pc[q] \notin Drafting /\ pc'[q] \notin Drafting),
         strandedRecords' \subseteq AssociationId \cup EventId,
         strandedObjects' \subseteq Digest
  PROVE  TypeInv'
<1>1. HasFile'
  BY DEF TypeInv, TypeOK, HasFile, Drafting
<1>2. ASSUME NEW q \in Proc
      PROVE  /\ pc'[q] = "write_submission"   => draft[q] \in SubmissionDraft
             /\ pc'[q] \in {"store", "event"} => draft[q] \in SubmissionDraft \cup {Nil}
             /\ pc'[q] = "write_receipt"      => draft[q] \in ReceiptDraft
             /\ pc'[q] = "write_association"  => draft[q] \in AssociationDraft
             /\ pc'[q] = "write_case"         => draft[q] \in CaseDraft
             /\ pc'[q] \notin Drafting        => draft[q] = Nil
  BY <1>2 DEF TypeInv, TypeOK, Drafting
<1>3. TypeOK'
  BY <1>2 DEF TypeInv, TypeOK
<1> QED BY <1>1, <1>3 DEF TypeInv

\* A deletion step keeps the types.
LEMMA DeletionTypeInv ==
  ASSUME TypeInv, NEW p \in Proc, Delete(p)
  PROVE  TypeInv'
<1>0. NoPlan \in Plan
  BY DEF Plan, NoPlan
<1>t. /\ pc \in [Proc -> Stages] /\ plan \in [Proc -> Plan]
      /\ submissions \subseteq Submission /\ receipts \subseteq Receipt
      /\ associations \subseteq Association /\ events \subseteq ImportEvent
      /\ cases \subseteq Case /\ derived \subseteq Digest
      /\ strandedRecords \subseteq AssociationId \cup EventId
      /\ strandedObjects \subseteq Digest
  BY DEF TypeInv, TypeOK
<1>1. CASE DeleteCase(p)
  <2>1. PICK c \in Ids(cases), purge \in BOOLEAN,
             subs \in Listings("submission", submissions),
             recs \in Listings("receipt", receipts),
             assocs \in Listings("association", associations),
             evs \in Listings("import_event", events),
             filed \in Listings("derived", derived) :
          /\ Plannable(assocs, Ids({s \in subs : s.case = c}))
          /\ plan' = [plan EXCEPT ![p] = PlanOf(c, purge, subs, recs, assocs, evs, filed)]
    BY <1>1, Zenon DEF DeleteCase
  <2>2. /\ c \in CaseId
        /\ subs \subseteq Submission /\ recs \subseteq Receipt
        /\ assocs \subseteq Association /\ evs \subseteq ImportEvent
        /\ filed \subseteq Digest
    BY <1>t DEF Listings, Ids, Case
  <2>3. PlanOf(c, purge, subs, recs, assocs, evs, filed) \in Plan
    BY <2>2, PlanOfIsPlan
  <2>4. UNCHANGED <<lock, objects, records, drawn, todo, draft, ghosts>>
        /\ pc[p] = "delete" /\ pc' = [pc EXCEPT ![p] = "probe"]
    BY <1>1 DEF DeleteCase
  <2>5. plan' \in [Proc -> Plan]
    BY <1>t, <2>1, <2>3
  <2> QED BY <1>t, <2>4, <2>5, TakingKeepsTypes DEF Stages, Drafting
<1>2. CASE Probe(p)
  <2>1. plan' \in [Proc -> Plan]
    BY <1>0, <1>2, <1>t DEF Probe
  <2>2. pc' \in [Proc -> Stages]
        /\ \A q \in Proc : pc'[q] = pc[q] \/ (pc[q] \notin Drafting /\ pc'[q] \notin Drafting)
    BY <1>2, <1>t DEF Probe, Stages, Drafting
  <2>3. UNCHANGED <<lock, objects, records, drawn, todo, draft, ghosts>>
    BY <1>2 DEF Probe
  <2> QED BY <1>t, <2>1, <2>2, <2>3, TakingKeepsTypes
<1>3. ASSUME NEW id \in AssociationId, UnlinkAssociation(p, id) PROVE TypeInv'
  <2>1. plan' = [plan EXCEPT ![p] = [plan[p] EXCEPT !.associations = @ \ {id}]]
    BY <1>3 DEF UnlinkAssociation
  <2>2. [plan[p] EXCEPT !.associations = @ \ {id}] \in Plan
    BY <1>t DEF Plan
  <2>3. plan' \in [Proc -> Plan]
    BY <1>t, <2>1, <2>2
  <2> QED BY <1>3, <1>t, <2>3, TakingKeepsTypes DEF UnlinkAssociation, Without
<1>4. ASSUME NEW id \in ReceiptId, UnlinkReceipt(p, id) PROVE TypeInv'
  <2>1. plan' = [plan EXCEPT ![p] = [plan[p] EXCEPT !.receipts = @ \ {id}]]
    BY <1>4 DEF UnlinkReceipt
  <2>2. [plan[p] EXCEPT !.receipts = @ \ {id}] \in Plan
    BY <1>t DEF Plan
  <2>3. plan' \in [Proc -> Plan]
    BY <1>t, <2>1, <2>2
  <2> QED BY <1>4, <1>t, <2>3, TakingKeepsTypes DEF UnlinkReceipt, Without
<1>5. ASSUME NEW id \in SubmissionId, UnlinkSubmission(p, id) PROVE TypeInv'
  <2>1. plan' = [plan EXCEPT ![p] = [plan[p] EXCEPT !.submissions = @ \ {id}]]
    BY <1>5 DEF UnlinkSubmission
  <2>2. [plan[p] EXCEPT !.submissions = @ \ {id}] \in Plan
    BY <1>t DEF Plan
  <2>3. plan' \in [Proc -> Plan]
    BY <1>t, <2>1, <2>2
  <2> QED BY <1>5, <1>t, <2>3, TakingKeepsTypes DEF UnlinkSubmission, Without
<1>6. ASSUME NEW id \in CaseId, UnlinkCase(p, id) PROVE TypeInv'
  <2>1. plan' = [plan EXCEPT ![p] = [plan[p] EXCEPT !.cases = @ \ {id}]]
    BY <1>6 DEF UnlinkCase
  <2>2. [plan[p] EXCEPT !.cases = @ \ {id}] \in Plan
    BY <1>t DEF Plan
  <2>3. plan' \in [Proc -> Plan]
    BY <1>t, <2>1, <2>2
  <2> QED BY <1>6, <1>t, <2>3, TakingKeepsTypes DEF UnlinkCase, Without
<1>7. ASSUME NEW d \in Digest, UnlinkDerived(p, d) PROVE TypeInv'
  <2>1. plan' = [plan EXCEPT ![p] = [plan[p] EXCEPT !.derived = @ \ {d}]]
    BY <1>7 DEF UnlinkDerived
  <2>2. [plan[p] EXCEPT !.derived = @ \ {d}] \in Plan
    BY <1>t DEF Plan
  <2>3. plan' \in [Proc -> Plan]
    BY <1>t, <2>1, <2>2
  <2> QED BY <1>7, <1>t, <2>3, TakingKeepsTypes DEF UnlinkDerived
<1>8. ASSUME NEW d \in Digest, UnlinkObject(p, d) PROVE TypeInv'
  <2>1. plan' = [plan EXCEPT ![p] = [plan[p] EXCEPT !.objects = @ \ {d}]]
    BY <1>8 DEF UnlinkObject
  <2>2. [plan[p] EXCEPT !.objects = @ \ {d}] \in Plan
    BY <1>t DEF Plan
  <2>3. plan' \in [Proc -> Plan]
    BY <1>t, <2>1, <2>2
  <2> QED BY <1>8, <1>t, <2>3, TakingKeepsTypes DEF UnlinkObject
<1>9. ASSUME NEW d \in Digest, RefuseObject(p, d) PROVE TypeInv'
  <2>1. plan' = [plan EXCEPT ![p] = [plan[p] EXCEPT !.objects = @ \ {d},
                                                   !.events = {e \in @ : e.digest # d}]]
    BY <1>9 DEF RefuseObject
  <2>2. [plan[p] EXCEPT !.objects = @ \ {d}, !.events = {e \in @ : e.digest # d}] \in Plan
    BY <1>t DEF Plan
  <2>3. UNCHANGED <<lock, objects, records, drawn, pc, todo, draft, ghosts>>
    BY <1>9 DEF RefuseObject
  <2>4. plan' \in [Proc -> Plan]
    BY <1>t, <2>1, <2>2
  <2> QED BY <1>t, <2>3, <2>4, TakingKeepsTypes
<1>10. ASSUME NEW i \in DOMAIN Passes, RefuseUnlink(p, Passes[i]) PROVE TypeInv'
  <2> DEFINE kind == Passes[i]
  <2>1. kind \in {"associations", "receipts", "submissions", "cases", "derived"}
    BY DEF Passes
  <2>2. PICK id \in plan[p][kind] :
          /\ plan' = [plan EXCEPT ![p] = [NoPlan EXCEPT ![kind] = plan[p][kind] \ {id}]]
          /\ strandedRecords' =
               strandedRecords \cup IF kind = "associations" THEN {id} ELSE {}
    BY <1>10 DEF RefuseUnlink
  <2>3. [NoPlan EXCEPT ![kind] = plan[p][kind] \ {id}] \in Plan
    BY <1>t, <2>1 DEF NoPlan, Plan
  <2>4. kind = "associations" => id \in AssociationId
    BY <1>t, <2>2 DEF Plan
  <2>5. UNCHANGED <<lock, objects, records, drawn, pc, todo, draft, strandedObjects>>
    BY <1>10 DEF RefuseUnlink
  <2>6. plan' \in [Proc -> Plan]
    BY <1>t, <2>2, <2>3
  <2>7. strandedRecords' \subseteq AssociationId \cup EventId
    BY <1>t, <2>2, <2>4
  <2> QED BY <1>t, <2>5, <2>6, <2>7, TakingKeepsTypes
<1>11. CASE BeginPurge(p)
  BY <1>11, <1>t, TakingKeepsTypes DEF BeginPurge, Stages, Drafting
<1>12. ASSUME NEW e \in plan[p].events, UnlinkEvent(p, e) PROVE TypeInv'
  <2>1. plan' = [plan EXCEPT ![p] = [plan[p] EXCEPT !.events = @ \ {e}]]
    BY <1>12 DEF UnlinkEvent
  <2>2. [plan[p] EXCEPT !.events = @ \ {e}] \in Plan
    BY <1>t DEF Plan
  <2>3. plan' \in [Proc -> Plan]
    BY <1>t, <2>1, <2>2
  <2> QED BY <1>12, <1>t, <2>3, TakingKeepsTypes DEF UnlinkEvent, Without
<1>13. ASSUME NEW e \in plan[p].events, RefuseEvent(p, e) PROVE TypeInv'
  <2>1. plan' = [plan EXCEPT ![p] = [plan[p] EXCEPT !.events = @ \ {e}]]
    BY <1>13 DEF RefuseEvent
  <2>2. [plan[p] EXCEPT !.events = @ \ {e}] \in Plan
    BY <1>t DEF Plan
  <2>3. e.id \in EventId
    BY <1>t DEF Plan, ImportEvent
  <2>4. plan' \in [Proc -> Plan]
    BY <1>t, <2>1, <2>2
  <2> QED BY <1>13, <1>t, <2>3, <2>4, TakingKeepsTypes DEF RefuseEvent
<1>14. CASE EndDeletion(p)
  <2>1. plan' \in [Proc -> Plan]
    BY <1>0, <1>14, <1>t DEF EndDeletion
  <2> QED BY <1>14, <1>t, <2>1, TakingKeepsTypes DEF EndDeletion, Stages, Drafting
<1> QED
  BY <1>1, <1>2, <1>3, <1>4, <1>5, <1>6, <1>7, <1>8, <1>9, <1>10, <1>11, <1>12, <1>13, <1>14 DEF Delete

\* Every step keeps the types.
LEMMA StepTypeInv == TypeInv /\ [Next]_vars => TypeInv'
<1> USE ConstantsAssumption DEF TypeInv, TypeOK, HasFile, Stages, Operations, Drafting, Drafts
<1> SUFFICES ASSUME TypeInv, [Next]_vars PROVE TypeInv'
  OBVIOUS
<1>0. NoPlan \in Plan
  BY DEF Plan, NoPlan
<1>1. ASSUME NEW p \in Proc, File(p) PROVE TypeInv'
  BY <1>1, FilingTypeInv
<1>2. ASSUME NEW p \in Proc, Delete(p) PROVE TypeInv'
  BY <1>2, DeletionTypeInv
<1>3. ASSUME NEW p \in Proc PROVE Unrecorded(p) \subseteq Digest
  BY HeadTailProperties DEF Unrecorded
<1>4. ASSUME NEW p \in Proc, Refuse(p) PROVE TypeInv'
  BY <1>0, <1>3, <1>4 DEF Refuse
<1>5. ASSUME NEW p \in Proc, Crash(p) PROVE TypeInv'
  <2>1. Unfinished(p) \subseteq AssociationId \cup EventId
    BY DEF Unfinished, Current, Plan, ImportEvent, Ids
  <2> QED BY <1>0, <1>3, <1>5, <2>1 DEF Crash
<1>6. CASE RemoveAbandonedLock
  BY <1>6 DEF RemoveAbandonedLock
<1>7. CASE UNCHANGED vars
  BY <1>7 DEF vars
<1> QED BY <1>1, <1>2, <1>4, <1>5, <1>6, <1>7 DEF Next, Step

\* Every variable keeps its type, whatever is filed, deleted, refused or killed.
THEOREM TypeCorrect == Spec => []TypeOK
<1>1. TypeInv => TypeOK
  BY DEF TypeInv
<1> QED BY InitTypeInv, StepTypeInv, <1>1, PTL DEF Spec

----------------------------------------------------------------------------
(* The writer lock *)

\* What a step of p leaves alone: every other process.
OthersUntouched(p) ==
  \A q \in Proc \ {p} :
    /\ pc'[q] = pc[q] /\ todo'[q] = todo[q]
    /\ draft'[q] = draft[q] /\ plan'[q] = plan[q]

\* How a step of p moves the lock: it takes it, works under it, or ends.
LockStep(p) ==
  \/ pc[p] = "idle" /\ lock = Free /\ lock' = p
  \/ pc[p] # "idle" /\ lock' = lock
  \/ pc[p] # "idle" /\ pc'[p] = "idle"

\* A filing step concerns one process and the lock in one of the three ways.
LEMMA FilingLockStep ==
  ASSUME TypeInv, NEW p \in Proc, File(p)
  PROVE  OthersUntouched(p) /\ LockStep(p)
<1> USE DEF TypeInv, TypeOK, OthersUntouched, LockStep
<1>1. ASSUME NEW op \in Ops, Acquire(p, op) PROVE OthersUntouched(p) /\ LockStep(p)
  BY <1>1 DEF Acquire
<1>2. CASE Import(p)
  BY <1>2 DEF Import
<1>3. CASE AddSubmission(p)
  BY <1>3 DEF AddSubmission
<1>4. CASE StoreObject(p)
  BY <1>4 DEF StoreObject
<1>5. CASE WriteEvent(p)
  BY <1>5 DEF WriteEvent
<1>6. CASE WriteSubmission(p)
  BY <1>6 DEF WriteSubmission
<1>7. CASE AddReceipt(p)
  BY <1>7 DEF AddReceipt
<1>8. CASE WriteReceipt(p)
  BY <1>8 DEF WriteReceipt
<1>9. CASE CreateAssociation(p)
  BY <1>9 DEF CreateAssociation
<1>10. CASE RetireAssociation(p)
  BY <1>10 DEF RetireAssociation
<1>11. CASE WriteAssociation(p)
  BY <1>11 DEF WriteAssociation
<1>12. CASE CreateCase(p)
  BY <1>12 DEF CreateCase
<1>13. CASE UpdateCase(p)
  BY <1>13 DEF UpdateCase
<1>14. CASE ReplaceCase(p)
  BY <1>14 DEF ReplaceCase
<1>15. CASE Derive(p)
  BY <1>15 DEF Derive
<1>16. CASE Sweep(p)
  BY <1>16 DEF Sweep
<1>17. ASSUME NEW d \in Digest, Describe(p, d) PROVE OthersUntouched(p) /\ LockStep(p)
  BY <1>17 DEF Describe
<1>18. CASE Release(p)
  BY <1>18 DEF Release
<1> QED
  BY <1>1, <1>2, <1>3, <1>4, <1>5, <1>6, <1>7, <1>8, <1>9, <1>10, <1>11, <1>12, <1>13, <1>14, <1>15, <1>16, <1>17, <1>18 DEF File

\* A deletion step works under the lock.
LEMMA DeletionLockStep ==
  ASSUME TypeInv, NEW p \in Proc, Delete(p)
  PROVE  OthersUntouched(p) /\ LockStep(p)
<1> USE DEF TypeInv, TypeOK, OthersUntouched, LockStep
<1>1. CASE DeleteCase(p)
  BY <1>1 DEF DeleteCase
<1>2. CASE Probe(p)
  BY <1>2 DEF Probe
<1>3. ASSUME NEW id \in AssociationId, UnlinkAssociation(p, id) PROVE OthersUntouched(p) /\ LockStep(p)
  BY <1>3 DEF UnlinkAssociation, InPass
<1>4. ASSUME NEW id \in ReceiptId, UnlinkReceipt(p, id) PROVE OthersUntouched(p) /\ LockStep(p)
  BY <1>4 DEF UnlinkReceipt, InPass
<1>5. ASSUME NEW id \in SubmissionId, UnlinkSubmission(p, id) PROVE OthersUntouched(p) /\ LockStep(p)
  BY <1>5 DEF UnlinkSubmission, InPass
<1>6. ASSUME NEW id \in CaseId, UnlinkCase(p, id) PROVE OthersUntouched(p) /\ LockStep(p)
  BY <1>6 DEF UnlinkCase, InPass
<1>7. ASSUME NEW d \in Digest, UnlinkDerived(p, d) PROVE OthersUntouched(p) /\ LockStep(p)
  BY <1>7 DEF UnlinkDerived, InPass
<1>8. ASSUME NEW d \in Digest, UnlinkObject(p, d) PROVE OthersUntouched(p) /\ LockStep(p)
  BY <1>8 DEF UnlinkObject, InPass
<1>9. ASSUME NEW d \in Digest, RefuseObject(p, d) PROVE OthersUntouched(p) /\ LockStep(p)
  BY <1>9 DEF RefuseObject, InPass
<1>10. ASSUME NEW i \in DOMAIN Passes, RefuseUnlink(p, Passes[i])
      PROVE  OthersUntouched(p) /\ LockStep(p)
  BY <1>10 DEF RefuseUnlink, InPass
<1>11. CASE BeginPurge(p)
  BY <1>11 DEF BeginPurge
<1>12. ASSUME NEW e \in plan[p].events, UnlinkEvent(p, e) \/ RefuseEvent(p, e)
      PROVE  OthersUntouched(p) /\ LockStep(p)
  BY <1>12 DEF UnlinkEvent, RefuseEvent
<1>13. CASE EndDeletion(p)
  BY <1>13 DEF EndDeletion
<1> QED
  BY <1>1, <1>2, <1>3, <1>4, <1>5, <1>6, <1>7, <1>8, <1>9, <1>10, <1>11, <1>12, <1>13 DEF Delete

\* Every step of a process concerns that process and the lock.
LEMMA ProcessLockStep ==
  ASSUME TypeInv, NEW p \in Proc, Step(p) \/ Crash(p)
  PROVE  OthersUntouched(p) /\ LockStep(p)
<1>1. CASE Refuse(p)
  BY <1>1 DEF Refuse, TypeInv, TypeOK, OthersUntouched, LockStep, Operations, Writes
<1>2. CASE Crash(p)
  BY <1>2 DEF Crash, Working, TypeInv, TypeOK, OthersUntouched, LockStep
<1> QED BY <1>1, <1>2, FilingLockStep, DeletionLockStep DEF Step

\* The lock excludes every process but its holder, with the types.
LockInv == TypeInv /\ WriterHoldsLock

\* Every step keeps the exclusion.
LEMMA StepLockInv == LockInv /\ [Next]_vars => LockInv'
<1> SUFFICES ASSUME LockInv, [Next]_vars PROVE WriterHoldsLock'
  BY StepTypeInv DEF LockInv
<1> USE ConstantsAssumption DEF LockInv, WriterHoldsLock, Working
<1>1. ASSUME NEW p \in Proc, Step(p) \/ Crash(p) PROVE WriterHoldsLock'
  <2>1. OthersUntouched(p) /\ LockStep(p)
    BY <1>1, ProcessLockStep
  <2>2. \A q \in Proc \ {p} : pc[q] = "idle"
    BY <2>1 DEF LockStep
  <2>3. \A q \in Proc \ {p} : pc'[q] = "idle"
    BY <2>1, <2>2 DEF OthersUntouched
  <2>4. pc'[p] = "idle" \/ lock' = p
    BY <2>1 DEF LockStep
  <2> QED BY <2>3, <2>4
<1>2. CASE RemoveAbandonedLock
  BY <1>2 DEF RemoveAbandonedLock
<1>3. CASE UNCHANGED vars
  BY <1>3 DEF vars
<1> QED BY <1>1, <1>2, <1>3 DEF Next

\* WriterLock: a process inside a command created the lock file that is there,
\* so at most one process is inside, for any number of them.
THEOREM LockExcludes == Spec => []WriterHoldsLock
<1>1. Init => LockInv
  BY InitTypeInv DEF Init, LockInv, WriterHoldsLock, Working
<1>2. LockInv => WriterHoldsLock
  BY DEF LockInv
<1> QED BY <1>1, <1>2, StepLockInv, PTL DEF Spec

----------------------------------------------------------------------------
(* Which step does what *)

RecordPass(p) ==
  \/ \E id \in AssociationId : UnlinkAssociation(p, id)
  \/ \E id \in ReceiptId : UnlinkReceipt(p, id)
  \/ \E id \in SubmissionId : UnlinkSubmission(p, id)
  \/ \E id \in CaseId : UnlinkCase(p, id)
  \/ \E d \in Digest : UnlinkDerived(p, d)
  \/ \E n \in DOMAIN Passes : RefuseUnlink(p, Passes[n])

ObjectPass(p) ==
  \/ \E d \in Digest : UnlinkObject(p, d) \/ RefuseObject(p, d)
  \/ \E e \in plan[p].events : UnlinkEvent(p, e) \/ RefuseEvent(p, e)

\* The step that leaves a process where it is.
Arrivals(p) ==
  /\ pc'[p] = "store" => Import(p) \/ AddSubmission(p) \/ WriteEvent(p)
  /\ pc'[p] = "event" => StoreObject(p)
  /\ pc'[p] = "write_submission" => AddSubmission(p) \/ WriteEvent(p)
  /\ pc'[p] = "write_receipt" => AddReceipt(p)
  /\ pc'[p] = "write_case" => UpdateCase(p)
  /\ pc'[p] = "write_association" => CreateAssociation(p) \/ RetireAssociation(p)
  /\ pc'[p] = "describe" => Derive(p) \/ \E d \in Digest : Describe(p, d)
  /\ pc'[p] = "probe" => DeleteCase(p)
  /\ pc'[p] = "unlink" => Probe(p) \/ RecordPass(p)
  /\ pc'[p] = "purge" => BeginPurge(p) \/ ObjectPass(p)

\* The steps a process may take from where it is.
Departures(p) ==
  /\ pc[p] = "event" => WriteEvent(p) \/ Refuse(p) \/ Crash(p)
  /\ pc[p] = "unlink" => RecordPass(p) \/ BeginPurge(p) \/ Crash(p)
  /\ pc[p] = "purge" => ObjectPass(p) \/ EndDeletion(p) \/ Crash(p)

\* The steps that may change a variable.
Changes(p) ==
  /\ objects' # objects => StoreObject(p) \/ \E d \in Digest : UnlinkObject(p, d)
  /\ events' # events => WriteEvent(p) \/ \E e \in plan[p].events : UnlinkEvent(p, e)
  /\ cases' # cases =>
       CreateCase(p) \/ ReplaceCase(p) \/ \E id \in CaseId : UnlinkCase(p, id)
  /\ submissions' # submissions =>
       WriteSubmission(p) \/ \E id \in SubmissionId : UnlinkSubmission(p, id)
  /\ receipts' # receipts =>
       WriteReceipt(p) \/ \E id \in ReceiptId : UnlinkReceipt(p, id)
  /\ associations' # associations =>
       WriteAssociation(p) \/ \E id \in AssociationId : UnlinkAssociation(p, id)
  /\ derived' # derived =>
       \/ Sweep(p)
       \/ \E d \in Digest : Describe(p, d) \/ UnlinkDerived(p, d)
  /\ drawn' # drawn =>
       \/ WriteEvent(p) \/ CreateCase(p) \/ WriteSubmission(p) \/ WriteReceipt(p)
       \/ WriteAssociation(p)
  /\ strandedRecords \subseteq strandedRecords' /\ strandedObjects \subseteq strandedObjects'

\* Filing steps: one case per action.
LEMMA FilingMoves ==
  ASSUME TypeInv, NEW p \in Proc, File(p)
  PROVE  Arrivals(p) /\ Departures(p) /\ Changes(p)
<1>0. p \in DOMAIN pc /\ p \in DOMAIN plan
  BY DEF TypeInv, TypeOK
<1> USE <1>0 DEF Arrivals, Departures, Changes
<1>1. CASE \E op \in Ops : Acquire(p, op)
  BY <1>1, ConstantsAssumption DEF Acquire, Operations
<1>2. CASE Import(p) \/ AddSubmission(p) \/ AddReceipt(p)
  BY <1>2 DEF Import, AddSubmission, AddReceipt
<1>3. CASE StoreObject(p)
  BY <1>3 DEF StoreObject
<1>4. CASE WriteEvent(p)
  BY <1>4 DEF WriteEvent
<1>5. CASE WriteSubmission(p)
  BY <1>5 DEF WriteSubmission
<1>6. CASE WriteReceipt(p)
  BY <1>6 DEF WriteReceipt
<1>7. CASE CreateAssociation(p) \/ RetireAssociation(p)
  BY <1>7 DEF CreateAssociation, RetireAssociation
<1>8. CASE WriteAssociation(p)
  BY <1>8 DEF WriteAssociation
<1>9. CASE CreateCase(p)
  BY <1>9 DEF CreateCase
<1>10. CASE UpdateCase(p)
  BY <1>10 DEF UpdateCase
<1>11. CASE ReplaceCase(p)
  BY <1>11 DEF ReplaceCase
<1>12. CASE Derive(p)
  <2>1. /\ pc[p] = "derive" /\ pc' = [pc EXCEPT ![p] = "describe"]
        /\ UNCHANGED <<objects, records, drawn, strandedRecords, strandedObjects>>
    BY <1>12, Zenon DEF Derive
  <2>2. pc'[p] = "describe"
    BY <2>1
  <2> QED BY <1>12, <2>1, <2>2, Zenon
<1>13. CASE \E d \in Digest : Describe(p, d)
  BY <1>13 DEF Describe
<1>14. CASE Sweep(p)
  BY <1>14 DEF Sweep
<1>15. CASE Release(p)
  BY <1>15 DEF Release
<1> QED BY <1>1, <1>2, <1>3, <1>4, <1>5, <1>6, <1>7, <1>8, <1>9, <1>10, <1>11, <1>12,
           <1>13, <1>14, <1>15, Zenon DEF File

\* Deletion steps: one case per action.
LEMMA DeletionMoves ==
  ASSUME TypeInv, NEW p \in Proc, Delete(p)
  PROVE  Arrivals(p) /\ Departures(p) /\ Changes(p)
<1>0. p \in DOMAIN pc /\ p \in DOMAIN plan
  BY DEF TypeInv, TypeOK
<1> USE <1>0 DEF Arrivals, Departures, Changes
<1>1. CASE DeleteCase(p)
  BY <1>1 DEF DeleteCase
<1>2. CASE Probe(p)
  BY <1>2 DEF Probe
<1>3. CASE RecordPass(p)
  <2>1. ASSUME NEW id \in AssociationId, UnlinkAssociation(p, id)
        PROVE  Arrivals(p) /\ Departures(p) /\ Changes(p)
    BY <1>3, <2>1 DEF UnlinkAssociation, InPass
  <2>2. ASSUME NEW id \in ReceiptId, UnlinkReceipt(p, id)
        PROVE  Arrivals(p) /\ Departures(p) /\ Changes(p)
    BY <1>3, <2>2 DEF UnlinkReceipt, InPass
  <2>3. ASSUME NEW id \in SubmissionId, UnlinkSubmission(p, id)
        PROVE  Arrivals(p) /\ Departures(p) /\ Changes(p)
    BY <1>3, <2>3 DEF UnlinkSubmission, InPass
  <2>4. ASSUME NEW id \in CaseId, UnlinkCase(p, id)
        PROVE  Arrivals(p) /\ Departures(p) /\ Changes(p)
    BY <1>3, <2>4 DEF UnlinkCase, InPass
  <2>5. ASSUME NEW d \in Digest, UnlinkDerived(p, d)
        PROVE  Arrivals(p) /\ Departures(p) /\ Changes(p)
    BY <1>3, <2>5 DEF UnlinkDerived, InPass
  <2>6. ASSUME NEW n \in DOMAIN Passes, RefuseUnlink(p, Passes[n])
        PROVE  Arrivals(p) /\ Departures(p) /\ Changes(p)
    BY <1>3, <2>6 DEF RefuseUnlink, InPass
  <2> QED BY <1>3, <2>1, <2>2, <2>3, <2>4, <2>5, <2>6, Zenon DEF RecordPass
<1>4. CASE BeginPurge(p)
  BY <1>4 DEF BeginPurge
<1>5. CASE ObjectPass(p)
  <2>1. ASSUME NEW d \in Digest, UnlinkObject(p, d)
        PROVE  Arrivals(p) /\ Departures(p) /\ Changes(p)
    BY <1>5, <2>1 DEF UnlinkObject
  <2>2. ASSUME NEW d \in Digest, RefuseObject(p, d)
        PROVE  Arrivals(p) /\ Departures(p) /\ Changes(p)
    <3>1. /\ pc[p] = "purge" /\ pc' = pc
          /\ UNCHANGED <<objects, records, drawn, strandedRecords, strandedObjects>>
      BY <2>2, Zenon DEF RefuseObject
    <3> QED BY <1>5, <3>1, Zenon
  <2>3. ASSUME NEW e \in plan[p].events, UnlinkEvent(p, e)
        PROVE  Arrivals(p) /\ Departures(p) /\ Changes(p)
    BY <1>5, <2>3 DEF UnlinkEvent
  <2>4. ASSUME NEW e \in plan[p].events, RefuseEvent(p, e)
        PROVE  Arrivals(p) /\ Departures(p) /\ Changes(p)
    BY <1>5, <2>4 DEF RefuseEvent
  <2> QED BY <1>5, <2>1, <2>2, <2>3, <2>4, Zenon DEF ObjectPass
<1>6. CASE EndDeletion(p)
  BY <1>6 DEF EndDeletion
<1>7. \/ DeleteCase(p) \/ Probe(p) \/ RecordPass(p) \/ BeginPurge(p) \/ ObjectPass(p)
      \/ EndDeletion(p)
  BY Zenon DEF Delete, RecordPass, ObjectPass
<1> QED BY <1>1, <1>2, <1>3, <1>4, <1>5, <1>6, <1>7, Zenon

\* Every step of a process arrives, departs and changes as listed, and the
\* other processes are outside every command before and after it.
LEMMA Moves ==
  ASSUME LockInv, NEW p \in Proc, Step(p) \/ Crash(p)
  PROVE  /\ Arrivals(p) /\ Departures(p) /\ Changes(p)
         /\ \A q \in Proc \ {p} : pc[q] = "idle" /\ pc'[q] = "idle"
<1>1. TypeInv
  BY DEF LockInv
<1>2. \A q \in Proc \ {p} : pc[q] = "idle" /\ pc'[q] = "idle"
  BY ProcessLockStep, ConstantsAssumption
  DEF LockInv, WriterHoldsLock, Working, OthersUntouched, LockStep
<1> SUFFICES Arrivals(p) /\ Departures(p) /\ Changes(p)
  BY <1>2
<1>3. CASE File(p)
  BY <1>1, <1>3, FilingMoves
<1>4. CASE Delete(p)
  BY <1>1, <1>4, DeletionMoves
<1>5. CASE Refuse(p) \/ Crash(p)
  <2>1. /\ pc'[p] = "idle"
        /\ UNCHANGED <<objects, records, drawn>>
        /\ strandedRecords \subseteq strandedRecords' /\ strandedObjects \subseteq strandedObjects'
    BY <1>1, <1>5 DEF Refuse, Crash, TypeInv, TypeOK
  <2>2. Refuse(p) => pc[p] \notin {"unlink", "purge"}
    BY DEF Refuse, Writes, Operations
  <2> QED BY <1>5, <2>1, <2>2 DEF Arrivals, Departures, Changes
<1> QED BY <1>3, <1>4, <1>5 DEF Step

USE DEF Goto, Forget, DropLock, records, ghosts, locals

----------------------------------------------------------------------------
(* Sets of documents *)

\* The identifiers of a directory with one document more.
LEMMA IdsAdd ==
  ASSUME NEW docs, NEW doc
  PROVE  Ids(docs \cup {doc}) = Ids(docs) \cup {doc.id}
BY DEF Ids

\* What is left of a directory when one document is unlinked.
LEMMA IdsWithout ==
  ASSUME NEW docs, NEW id
  PROVE  /\ Without(docs, id) \subseteq docs
         /\ \A doc \in docs : doc.id # id => doc \in Without(docs, id)
         /\ Ids(Without(docs, id)) = Ids(docs) \ {id}
BY DEF Ids, Without

\* The files of a nonempty list are its first file and those of its rest.
LEMMA FirstAndRest ==
  ASSUME NEW S, NEW s \in Seq(S), s # <<>>
  PROVE  Contents(s) \subseteq {Head(s)} \cup Contents(Tail(s))
<1> SUFFICES ASSUME NEW i \in DOMAIN s, s[i] # Head(s)
             PROVE  \E j \in DOMAIN Tail(s) : Tail(s)[j] = s[i]
  BY DEF Contents
<1>1. Len(s) \in Nat /\ DOMAIN s = 1..Len(s)
  BY LenProperties
<1>2. /\ Tail(s) \in Seq(S) /\ Len(Tail(s)) = Len(s) - 1
      /\ \A j \in 1..Len(Tail(s)) : Tail(s)[j] = s[j + 1]
  BY HeadTailProperties
<1>3. i # 1
  OBVIOUS
<1>4. i - 1 \in 1..Len(Tail(s)) /\ DOMAIN Tail(s) = 1..Len(Tail(s))
  BY <1>1, <1>2, <1>3, LenProperties
<1> QED BY <1>1, <1>2, <1>4

----------------------------------------------------------------------------
(* What a plan takes, and what a pass changes of it *)

\* An association is a link of its own chain.
LEMMA ChainHoldsItself ==
  ASSUME NEW docs, NEW a \in docs
  PROVE  a \in Chain(docs, a)
BY DEF Chain

\* A plan that is not refused takes every association naming a departing
\* submission, and no receipt that an association it leaves is about.
LEMMA PlanTakesReferrers ==
  ASSUME NEW assocs, NEW recs, NEW going, Plannable(assocs, going),
         NEW a \in assocs, a \notin Doomed(assocs, going)
  PROVE  /\ a.candidates \cap going = {}
         /\ a.receipt \notin Ids(DoomedReceipts(recs, assocs, Doomed(assocs, going)))
<1>1. a.candidates \cap going = {}
  <2>1. ~Entangled(assocs, going, a)
    BY DEF Plannable
  <2>2. ~Departing(assocs, going, a)
    BY <2>1 DEF Entangled, Doomed
  <2> QED BY <2>2, ChainHoldsItself DEF Departing, Named
<1>2. ASSUME a.receipt \in Ids(DoomedReceipts(recs, assocs, Doomed(assocs, going)))
      PROVE  FALSE
  BY <1>2 DEF Ids, DoomedReceipts
<1> QED BY <1>1, <1>2

\* An object one of the remaining records names is not purged.
LEMMA PurgeSparesNamed ==
  ASSUME NEW subs, NEW goingSubs, NEW recs, NEW goingRecs
  PROVE  /\ \A s \in subs \ goingSubs :
              s.artefacts \cap Unreferenced(subs, goingSubs, recs, goingRecs) = {}
         /\ \A r \in recs \ goingRecs :
              r.artefact \notin Unreferenced(subs, goingSubs, recs, goingRecs)
BY Zenon DEF Unreferenced

\* A pass begins when the passes before it have nothing left.
LEMMA PassOrder ==
  ASSUME NEW p, NEW kind, InPass(p, kind)
  PROVE  /\ kind \in {"receipts", "submissions", "cases", "derived"}
              => plan[p].associations = {}
         /\ kind \in {"submissions", "cases", "derived"} => plan[p].receipts = {}
         /\ kind \in {"cases", "derived"} => plan[p].submissions = {}
         /\ kind = "derived" => plan[p].cases = {}
<1>1. PICK n \in DOMAIN Passes :
        Passes[n] = kind /\ \A m \in 1..(n - 1) : plan[p][Passes[m]] = {}
  BY DEF InPass
<1>2. n \in 1..5
  BY DEF Passes
<1> QED BY <1>1, <1>2 DEF Passes

\* The record pass has nothing left when none of the five plans it has.
LEMMA GonePlan ==
  ASSUME NEW p
  PROVE  RecordsGone(p) <=> /\ plan[p].associations = {} /\ plan[p].receipts = {}
                            /\ plan[p].submissions = {} /\ plan[p].cases = {}
                            /\ plan[p].derived = {}
<1>1. DOMAIN Passes = 1..5
  BY DEF Passes
<1> QED BY <1>1 DEF RecordsGone, Passes

\* An object step leaves the plans of the record passes as they are.
LEMMA GoneCarries ==
  ASSUME NEW p, RecordsGone(p),
         plan'[p].associations = plan[p].associations,
         plan'[p].receipts = plan[p].receipts,
         plan'[p].submissions = plan[p].submissions,
         plan'[p].cases = plan[p].cases, plan'[p].derived = plan[p].derived
  PROVE  RecordsGone(p)'
<1>1. DOMAIN Passes = 1..5
  BY DEF Passes
<1> QED BY <1>1 DEF RecordsGone, Passes

\* The plan case delete makes of what it listed.
Planned(p, c, subs, recs, assocs, evs, filed) ==
  \E going, doomed, recsGo :
    /\ going = {s \in subs : s.case = c}
    /\ doomed = Doomed(assocs, Ids(going))
    /\ recsGo = DoomedReceipts(recs, assocs, doomed)
    /\ Plannable(assocs, Ids(going))
    /\ plan'[p].associations = Ids(doomed) /\ plan'[p].receipts = Ids(recsGo)
    /\ plan'[p].submissions = Ids(going) /\ plan'[p].cases = {c}
    /\ \/ plan'[p].objects = {}
       \/ plan'[p].objects = Unreferenced(subs, going, recs, recsGo)
    /\ plan'[p].events = {e \in evs : e.digest \in plan'[p].objects}
    /\ plan'[p].derived = filed \cap plan'[p].objects

LEMMA PlanFound ==
  ASSUME TypeInv, NEW p \in Proc, DeleteCase(p)
  PROVE  /\ pc'[p] = "probe"
         /\ UNCHANGED <<objects, events, cases, submissions, receipts, associations, derived,
                        strandedRecords>>
         /\ \E c \in Ids(cases),
               subs \in Listings("submission", submissions),
               recs \in Listings("receipt", receipts),
               assocs \in Listings("association", associations),
               evs \in Listings("import_event", events),
               filed \in Listings("derived", derived) :
              Planned(p, c, subs, recs, assocs, evs, filed)
<1>0. /\ pc \in [Proc -> Stages] /\ plan \in [Proc -> Plan]
  BY DEF TypeInv, TypeOK
<1>1. PICK c \in Ids(cases), purge \in BOOLEAN,
           subs \in Listings("submission", submissions),
           recs \in Listings("receipt", receipts),
           assocs \in Listings("association", associations),
           evs \in Listings("import_event", events),
           filed \in Listings("derived", derived) :
        /\ Plannable(assocs, Ids({s \in subs : s.case = c}))
        /\ plan' = [plan EXCEPT ![p] = PlanOf(c, purge, subs, recs, assocs, evs, filed)]
  BY Zenon DEF DeleteCase
<1>2. /\ pc' = [pc EXCEPT ![p] = "probe"]
      /\ UNCHANGED <<objects, events, cases, submissions, receipts, associations, derived,
                     strandedRecords>>
  BY Zenon DEF DeleteCase
<1> DEFINE going  == {s \in subs : s.case = c}
           doomed == Doomed(assocs, Ids(going))
           recsGo == DoomedReceipts(recs, assocs, doomed)
           purged == IF purge THEN Unreferenced(subs, going, recs, recsGo) ELSE {}
<1>3. plan'[p] = PlanOf(c, purge, subs, recs, assocs, evs, filed)
  BY <1>0, <1>1
<1>4. /\ plan'[p].associations = Ids(doomed) /\ plan'[p].receipts = Ids(recsGo)
      /\ plan'[p].submissions = Ids(going) /\ plan'[p].cases = {c}
      /\ plan'[p].objects = purged
      /\ plan'[p].events = {e \in evs : e.digest \in purged}
      /\ plan'[p].derived = filed \cap purged
  BY <1>3 DEF PlanOf
<1>5. purged = {} \/ purged = Unreferenced(subs, going, recs, recsGo)
  OBVIOUS
<1>6. pc'[p] = "probe"
  BY <1>0, <1>2
<1>7. going = {s \in subs : s.case = c} /\ Plannable(assocs, Ids(going))
  BY <1>1
<1>8. doomed = Doomed(assocs, Ids(going)) /\ recsGo = DoomedReceipts(recs, assocs, doomed)
  OBVIOUS
<1> HIDE DEF going, doomed, recsGo, purged
<1>9. /\ plan'[p].associations = Ids(doomed) /\ plan'[p].receipts = Ids(recsGo)
      /\ plan'[p].submissions = Ids(going) /\ plan'[p].cases = {c}
      /\ \/ plan'[p].objects = {}
         \/ plan'[p].objects = Unreferenced(subs, going, recs, recsGo)
      /\ plan'[p].events = {e \in evs : e.digest \in plan'[p].objects}
      /\ plan'[p].derived = filed \cap plan'[p].objects
  BY <1>4, <1>5
<1>10. Planned(p, c, subs, recs, assocs, evs, filed)
  BY <1>7, <1>8, <1>9, Zenon DEF Planned
<1> QED BY <1>2, <1>6, <1>10, Zenon

\* Every document a record pass takes is of its plan, and goes when nothing is
\* left to take that may name it; every document of its plan that is left is
\* still to take, or it takes nothing that this document may name.
LEMMA RecordPassShrinks ==
  ASSUME TypeInv, NEW p \in Proc, RecordPass(p)
  PROVE  /\ pc[p] = "unlink" /\ pc'[p] = "unlink" /\ UNCHANGED <<objects, events>>
         /\ cases' \subseteq cases /\ submissions' \subseteq submissions
         /\ receipts' \subseteq receipts /\ associations' \subseteq associations
         /\ plan'[p].receipts \subseteq plan[p].receipts
         /\ plan'[p].submissions \subseteq plan[p].submissions
         /\ plan'[p].cases \subseteq plan[p].cases
         /\ plan'[p].objects \subseteq plan[p].objects
         /\ plan'[p].events \subseteq plan[p].events
         /\ \A c \in cases \ cases' : c.id \in plan[p].cases /\ plan[p].submissions = {}
         /\ \A s \in submissions \ submissions' :
              s.id \in plan[p].submissions /\ plan[p].associations = {}
         /\ \A r \in receipts \ receipts' :
              r.id \in plan[p].receipts /\ plan[p].associations = {}
         /\ \A s \in submissions' : s.id \in plan[p].submissions \ plan'[p].submissions =>
              plan'[p].cases = {} /\ plan'[p].objects = {}
         /\ \A r \in receipts' : r.id \in plan[p].receipts \ plan'[p].receipts =>
              plan'[p].objects = {} /\ plan'[p].events = {}
         /\ \A a \in associations' : a.id \in plan[p].associations \ plan'[p].associations =>
              plan'[p].receipts = {} /\ plan'[p].submissions = {}
<1>0. /\ pc \in [Proc -> Stages] /\ plan \in [Proc -> Plan] /\ plan[p] \in Plan
  BY DEF TypeInv, TypeOK
<1>1. ASSUME NEW id \in AssociationId, UnlinkAssociation(p, id)
      PROVE  /\ pc[p] = "unlink" /\ pc' = pc
             /\ plan'[p] = [plan[p] EXCEPT !.associations = @ \ {id}]
             /\ associations' = Without(associations, id)
             /\ UNCHANGED <<objects, events, cases, submissions, receipts>>
  BY <1>0, <1>1 DEF UnlinkAssociation, InPass
<1>2. ASSUME NEW id \in ReceiptId, UnlinkReceipt(p, id)
      PROVE  /\ pc[p] = "unlink" /\ pc' = pc /\ id \in plan[p].receipts
             /\ plan'[p] = [plan[p] EXCEPT !.receipts = @ \ {id}]
             /\ receipts' = Without(receipts, id) /\ plan[p].associations = {}
             /\ UNCHANGED <<objects, events, cases, submissions, associations>>
  BY <1>0, <1>2, PassOrder DEF UnlinkReceipt, InPass
<1>3. ASSUME NEW id \in SubmissionId, UnlinkSubmission(p, id)
      PROVE  /\ pc[p] = "unlink" /\ pc' = pc /\ id \in plan[p].submissions
             /\ plan'[p] = [plan[p] EXCEPT !.submissions = @ \ {id}]
             /\ submissions' = Without(submissions, id) /\ plan[p].associations = {}
             /\ UNCHANGED <<objects, events, cases, receipts, associations>>
  BY <1>0, <1>3, PassOrder DEF UnlinkSubmission, InPass
<1>4. ASSUME NEW id \in CaseId, UnlinkCase(p, id)
      PROVE  /\ pc[p] = "unlink" /\ pc' = pc /\ id \in plan[p].cases
             /\ plan'[p] = [plan[p] EXCEPT !.cases = @ \ {id}]
             /\ cases' = Without(cases, id) /\ plan[p].submissions = {}
             /\ UNCHANGED <<objects, events, submissions, receipts, associations>>
  BY <1>0, <1>4, PassOrder DEF UnlinkCase, InPass
<1>5. ASSUME NEW d \in Digest, UnlinkDerived(p, d)
      PROVE  /\ pc[p] = "unlink" /\ pc' = pc
             /\ plan'[p] = [plan[p] EXCEPT !.derived = @ \ {d}]
             /\ UNCHANGED <<objects, events, cases, submissions, receipts, associations>>
  BY <1>0, <1>5 DEF UnlinkDerived, InPass
<1>6. ASSUME NEW n \in DOMAIN Passes, RefuseUnlink(p, Passes[n])
      PROVE  \E kind \in {"associations", "receipts", "submissions", "cases", "derived"} :
               \E id \in plan[p][kind] :
                 /\ pc[p] = "unlink" /\ pc' = pc
                 /\ plan'[p] = [NoPlan EXCEPT ![kind] = plan[p][kind] \ {id}]
                 /\ kind # "associations" => plan[p].associations = {}
                 /\ kind \in {"submissions", "cases", "derived"} => plan[p].receipts = {}
                 /\ kind \in {"cases", "derived"} => plan[p].submissions = {}
                 /\ UNCHANGED <<objects, events, cases, submissions, receipts, associations>>
  <2>1. Passes[n] \in {"associations", "receipts", "submissions", "cases", "derived"}
    BY DEF Passes
  <2>2. PICK id \in plan[p][Passes[n]] :
          plan' = [plan EXCEPT ![p] = [NoPlan EXCEPT ![Passes[n]] = plan[p][Passes[n]] \ {id}]]
    BY <1>6 DEF RefuseUnlink
  <2>3. /\ pc[p] = "unlink" /\ pc' = pc /\ InPass(p, Passes[n])
        /\ UNCHANGED <<objects, events, cases, submissions, receipts, associations>>
    BY <1>6 DEF RefuseUnlink, InPass
  <2>4. plan'[p] = [NoPlan EXCEPT ![Passes[n]] = plan[p][Passes[n]] \ {id}]
    BY <1>0, <2>2
  <2> QED BY <2>1, <2>3, <2>4, PassOrder
<1> USE DEF Plan, Without
<1>7. CASE \E id \in AssociationId : UnlinkAssociation(p, id)
  <2>1. PICK id \in AssociationId : UnlinkAssociation(p, id)
    BY <1>7
  <2>2. /\ plan'[p].associations = plan[p].associations \ {id}
        /\ plan'[p].receipts = plan[p].receipts /\ plan'[p].cases = plan[p].cases
        /\ plan'[p].submissions = plan[p].submissions
        /\ plan'[p].objects = plan[p].objects /\ plan'[p].events = plan[p].events
    BY <1>0, <1>1, <2>1
  <2>3. pc'[p] = "unlink" /\ \A a \in associations' : a \in associations /\ a.id # id
    BY <1>1, <2>1
  <2> QED BY <1>1, <2>1, <2>2, <2>3
<1>8. CASE \E id \in ReceiptId : UnlinkReceipt(p, id)
  <2>1. PICK id \in ReceiptId : UnlinkReceipt(p, id)
    BY <1>8
  <2>2. /\ plan'[p].receipts = plan[p].receipts \ {id} /\ plan'[p].associations = plan[p].associations
        /\ plan'[p].submissions = plan[p].submissions /\ plan'[p].cases = plan[p].cases
        /\ plan'[p].objects = plan[p].objects /\ plan'[p].events = plan[p].events
    BY <1>0, <1>2, <2>1
  <2>3. pc'[p] = "unlink" /\ \A x \in receipts' : x \in receipts /\ x.id # id
    BY <1>2, <2>1
  <2> QED BY <1>2, <2>1, <2>2, <2>3
<1>9. CASE \E id \in SubmissionId : UnlinkSubmission(p, id)
  <2>1. PICK id \in SubmissionId : UnlinkSubmission(p, id)
    BY <1>9
  <2>2. /\ plan'[p].submissions = plan[p].submissions \ {id} /\ plan'[p].associations = plan[p].associations
        /\ plan'[p].receipts = plan[p].receipts /\ plan'[p].cases = plan[p].cases
        /\ plan'[p].objects = plan[p].objects /\ plan'[p].events = plan[p].events
    BY <1>0, <1>3, <2>1
  <2>3. pc'[p] = "unlink" /\ \A x \in submissions' : x \in submissions /\ x.id # id
    BY <1>3, <2>1
  <2> QED BY <1>3, <2>1, <2>2, <2>3
<1>10. CASE \E id \in CaseId : UnlinkCase(p, id)
  <2>1. PICK id \in CaseId : UnlinkCase(p, id)
    BY <1>10
  <2>2. /\ plan'[p].cases = plan[p].cases \ {id} /\ plan'[p].associations = plan[p].associations
        /\ plan'[p].receipts = plan[p].receipts /\ plan'[p].submissions = plan[p].submissions
        /\ plan'[p].objects = plan[p].objects /\ plan'[p].events = plan[p].events
    BY <1>0, <1>4, <2>1
  <2>3. pc'[p] = "unlink" /\ \A x \in cases' : x \in cases /\ x.id # id
    BY <1>4, <2>1
  <2> QED BY <1>4, <2>1, <2>2, <2>3
<1>11. CASE \E d \in Digest : UnlinkDerived(p, d)
  <2>1. PICK d \in Digest : UnlinkDerived(p, d)
    BY <1>11
  <2>2. /\ plan'[p].associations = plan[p].associations /\ plan'[p].receipts = plan[p].receipts
        /\ plan'[p].submissions = plan[p].submissions /\ plan'[p].cases = plan[p].cases
        /\ plan'[p].objects = plan[p].objects /\ plan'[p].events = plan[p].events
    BY <1>0, <1>5, <2>1
  <2>3. pc'[p] = "unlink"
    BY <1>5, <2>1
  <2> QED BY <1>5, <2>1, <2>2, <2>3
<1>12. CASE \E n \in DOMAIN Passes : RefuseUnlink(p, Passes[n])
  <2>1. PICK kind \in {"associations", "receipts", "submissions", "cases", "derived"} :
          \E id \in plan[p][kind] :
            /\ pc[p] = "unlink" /\ pc' = pc
            /\ plan'[p] = [NoPlan EXCEPT ![kind] = plan[p][kind] \ {id}]
            /\ kind # "associations" => plan[p].associations = {}
            /\ kind \in {"submissions", "cases", "derived"} => plan[p].receipts = {}
            /\ kind \in {"cases", "derived"} => plan[p].submissions = {}
            /\ UNCHANGED <<objects, events, cases, submissions, receipts, associations>>
    BY <1>6, <1>12
  <2>2. /\ plan'[p].objects = {} /\ plan'[p].events = {}
        /\ \/ plan'[p].cases = {}
           \/ kind = "cases" /\ plan'[p].cases \subseteq plan[p].cases
        /\ \/ plan'[p].receipts = {}
           \/ kind = "receipts" /\ plan'[p].receipts \subseteq plan[p].receipts
        /\ \/ plan'[p].submissions = {}
           \/ kind = "submissions" /\ plan'[p].submissions \subseteq plan[p].submissions
    BY <2>1 DEF NoPlan
  <2>3. pc'[p] = "unlink"
    BY <2>1
  <2> QED BY <2>1, <2>2, <2>3
<1> QED BY <1>7, <1>8, <1>9, <1>10, <1>11, <1>12, Zenon DEF RecordPass

\* What an object pass changes of the plan, and when it may.
LEMMA ObjectPassTakes ==
  ASSUME LockInv, NEW p \in Proc, ObjectPass(p)
  PROVE  /\ pc[p] = "purge" /\ pc'[p] = "purge" /\ UNCHANGED derived
         /\ plan'[p].associations = plan[p].associations
         /\ plan'[p].receipts = plan[p].receipts
         /\ plan'[p].submissions = plan[p].submissions
         /\ plan'[p].cases = plan[p].cases /\ plan'[p].derived = plan[p].derived
         /\ \/ \E d \in plan[p].objects :
                 /\ Current(p) = {} /\ plan'[p].objects = plan[p].objects \ {d}
                 /\ UNCHANGED <<events, strandedRecords>>
                 /\ \/ objects' = objects \ {d} /\ plan'[p].events = plan[p].events
                    \/ /\ objects' = objects
                       /\ plan'[p].events = {e \in plan[p].events : e.digest # d}
            \/ \E e \in Current(p) :
                 /\ UNCHANGED objects /\ plan'[p].objects = plan[p].objects
                 /\ plan'[p].events = plan[p].events \ {e}
                 /\ \/ events' = Without(events, e.id) /\ UNCHANGED strandedRecords
                    \/ events' = events /\ strandedRecords' = strandedRecords \cup {e.id}
<1>0. /\ pc \in [Proc -> Stages] /\ plan \in [Proc -> Plan]
  BY DEF LockInv, TypeInv, TypeOK
<1>1. ASSUME NEW d \in Digest, UnlinkObject(p, d)
      PROVE  /\ pc[p] = "purge" /\ pc' = pc /\ UNCHANGED <<derived, events, strandedRecords>>
             /\ Current(p) = {} /\ d \in plan[p].objects /\ objects' = objects \ {d}
             /\ plan'[p] = [plan[p] EXCEPT !.objects = @ \ {d}]
  BY <1>0, <1>1 DEF UnlinkObject
<1>2. ASSUME NEW d \in Digest, RefuseObject(p, d)
      PROVE  /\ pc[p] = "purge" /\ pc' = pc /\ UNCHANGED <<derived, events, strandedRecords>>
             /\ Current(p) = {} /\ d \in plan[p].objects /\ objects' = objects
             /\ plan'[p] = [plan[p] EXCEPT !.objects = @ \ {d},
                                           !.events = {e \in @ : e.digest # d}]
  BY <1>0, <1>2 DEF RefuseObject
<1>3. ASSUME NEW e \in plan[p].events, UnlinkEvent(p, e)
      PROVE  /\ pc[p] = "purge" /\ pc' = pc /\ UNCHANGED <<derived, objects, strandedRecords>>
             /\ e \in Current(p) /\ events' = Without(events, e.id)
             /\ plan'[p] = [plan[p] EXCEPT !.events = @ \ {e}]
  BY <1>0, <1>3 DEF UnlinkEvent
<1>4. ASSUME NEW e \in plan[p].events, RefuseEvent(p, e)
      PROVE  /\ pc[p] = "purge" /\ pc' = pc /\ UNCHANGED <<derived, objects, events>>
             /\ e \in Current(p) /\ strandedRecords' = strandedRecords \cup {e.id}
             /\ plan'[p] = [plan[p] EXCEPT !.events = @ \ {e}]
  BY <1>0, <1>4 DEF RefuseEvent
<1>5. plan[p] \in Plan
  BY <1>0
<1> USE DEF Plan
<1>6. CASE \E d \in Digest : UnlinkObject(p, d)
  BY <1>1, <1>5, <1>6
<1>7. CASE \E d \in Digest : RefuseObject(p, d)
  <2>1. PICK d \in Digest : RefuseObject(p, d)
    BY <1>7
  <2> DEFINE kept == {e \in plan[p].events : e.digest # d}
             left == [plan[p] EXCEPT !.objects = @ \ {d}]
  <2>2. plan'[p] = [left EXCEPT !.events = kept]
    BY <1>2, <2>1, Zenon
  <2>3. /\ left \in [associations : SUBSET AssociationId, receipts : SUBSET ReceiptId,
                    submissions : SUBSET SubmissionId, cases : SUBSET CaseId,
                    derived : SUBSET Digest, objects : SUBSET Digest,
                    events : SUBSET ImportEvent]
        /\ left.associations = plan[p].associations /\ left.receipts = plan[p].receipts
        /\ left.submissions = plan[p].submissions /\ left.cases = plan[p].cases
        /\ left.derived = plan[p].derived /\ left.objects = plan[p].objects \ {d}
    BY <1>5
  <2> HIDE DEF kept, left
  <2>4. /\ plan'[p].associations = plan[p].associations
        /\ plan'[p].receipts = plan[p].receipts
        /\ plan'[p].submissions = plan[p].submissions
        /\ plan'[p].cases = plan[p].cases /\ plan'[p].derived = plan[p].derived
        /\ plan'[p].objects = plan[p].objects \ {d} /\ plan'[p].events = kept
    BY <2>2, <2>3
  <2> QED BY <1>2, <2>1, <2>4, Zenon DEF kept
<1>8. CASE \E e \in plan[p].events : UnlinkEvent(p, e)
  BY <1>3, <1>5, <1>8
<1>9. CASE \E e \in plan[p].events : RefuseEvent(p, e)
  BY <1>4, <1>5, <1>9
<1> QED BY <1>6, <1>7, <1>8, <1>9, Zenon DEF ObjectPass

----------------------------------------------------------------------------
(* The inductive invariant of identity *)

\* The document case update read is still the one under its name, and what is to
\* replace it keeps that name; what an import has published is there; a purge
\* begins after the record passes.
InPlace(p) ==
  /\ pc[p] = "write_case" =>
       draft[p].stored \in cases /\ draft[p].case.id = draft[p].stored.id
  /\ pc[p] = "event" => Head(todo[p]) \in objects
  /\ pc[p] = "purge" => RecordsGone(p)

IdentityInv == LockInv /\ IdsUnique /\ \A p \in Proc : InPlace(p)

----------------------------------------------------------------------------
(* Identity: a record is written once *)

\* A directory loses documents, or gains one with an identifier never drawn.
Evolves(old, now) ==
  \/ now \subseteq old /\ drawn \subseteq drawn'
  \/ \E new : /\ now = old \cup {new}
              /\ new.id \notin drawn /\ drawn' = drawn \cup {new.id}

\* Such a directory keeps its identifiers apart, overwrites no document and
\* brings none back.
LEMMA EvolvedApart ==
  ASSUME NEW old, NEW now, Evolves(old, now), UniqueIds(old)
  PROVE  /\ Ids(now) \subseteq drawn'
         /\ \A a, b \in now : a.id = b.id => a = b
         /\ \A a \in old, b \in now : a.id = b.id => a = b
         /\ Ids(now) \cap drawn \subseteq Ids(old)
<1> USE DEF UniqueIds
<1>1. CASE now \subseteq old /\ drawn \subseteq drawn'
  BY <1>1 DEF Ids
<1>2. ASSUME NEW new, now = old \cup {new}, new.id \notin drawn, drawn' = drawn \cup {new.id}
      PROVE  /\ Ids(now) \subseteq drawn'
             /\ \A a, b \in now : a.id = b.id => a = b
             /\ \A a \in old, b \in now : a.id = b.id => a = b
             /\ Ids(now) \cap drawn \subseteq Ids(old)
  <2>1. \A a \in old : a.id \in drawn /\ a.id # new.id
    BY <1>2 DEF Ids
  <2> QED BY <1>2, <2>1, IdsAdd
<1> QED BY <1>1, <1>2 DEF Evolves

\* No step takes an identifier back.
LEMMA DrawnGrows ==
  ASSUME LockInv, NEW p \in Proc, Step(p) \/ Crash(p)
  PROVE  drawn \subseteq drawn'
<1>1. Changes(p)
  BY Moves
<1>2. CASE drawn' = drawn
  BY <1>2
<1>3. CASE \/ WriteEvent(p) \/ CreateCase(p) \/ WriteSubmission(p) \/ WriteReceipt(p)
           \/ WriteAssociation(p)
  BY <1>3 DEF WriteEvent, CreateCase, WriteSubmission, WriteReceipt, WriteAssociation
<1> QED BY <1>1, <1>2, <1>3 DEF Changes

\* Every directory of records evolves in every step, but for the one rewrite
\* there is.
LEMMA DirectoriesEvolve ==
  ASSUME LockInv, NEW p \in Proc, Step(p) \/ Crash(p)
  PROVE  /\ Evolves(events, events') /\ Evolves(submissions, submissions')
         /\ Evolves(receipts, receipts') /\ Evolves(associations, associations')
         /\ Evolves(cases, cases') \/ ReplaceCase(p)
<1>1. Changes(p) /\ drawn \subseteq drawn'
  BY Moves, DrawnGrows
<1>2. Evolves(events, events')
  <2>1. CASE WriteEvent(p)
    <3> DEFINE new == [id |-> NewId(EventId), digest |-> Head(todo[p])]
    <3>1. /\ events' = events \cup {new}
          /\ new.id \notin drawn /\ drawn' = drawn \cup {new.id}
      BY <2>1, NewIdIsFresh DEF WriteEvent
    <3> QED BY <3>1 DEF Evolves
  <2>2. CASE \E e \in plan[p].events : UnlinkEvent(p, e)
    BY <2>2, <1>1 DEF UnlinkEvent, Without, Evolves
  <2>3. CASE events' = events
    BY <2>3, <1>1 DEF Evolves
  <2> QED BY <1>1, <2>1, <2>2, <2>3 DEF Changes
<1>3. Evolves(submissions, submissions')
  <2>1. CASE WriteSubmission(p)
    <3> DEFINE new == [id |-> NewId(SubmissionId), case |-> draft[p].case,
                       artefacts |-> draft[p].artefacts]
    <3>1. /\ submissions' = submissions \cup {new}
          /\ new.id \notin drawn /\ drawn' = drawn \cup {new.id}
      BY <2>1, NewIdIsFresh DEF WriteSubmission
    <3> QED BY <3>1 DEF Evolves
  <2>2. CASE \E id \in SubmissionId : UnlinkSubmission(p, id)
    BY <2>2, <1>1 DEF UnlinkSubmission, Without, Evolves
  <2>3. CASE submissions' = submissions
    BY <2>3, <1>1 DEF Evolves
  <2> QED BY <1>1, <2>1, <2>2, <2>3 DEF Changes
<1>4. Evolves(receipts, receipts')
  <2>1. CASE WriteReceipt(p)
    <3> DEFINE new == [id |-> NewId(ReceiptId), artefact |-> draft[p].artefact,
                       event |-> draft[p].event]
    <3>1. /\ receipts' = receipts \cup {new}
          /\ new.id \notin drawn /\ drawn' = drawn \cup {new.id}
      BY <2>1, NewIdIsFresh DEF WriteReceipt
    <3> QED BY <3>1 DEF Evolves
  <2>2. CASE \E id \in ReceiptId : UnlinkReceipt(p, id)
    BY <2>2, <1>1 DEF UnlinkReceipt, Without, Evolves
  <2>3. CASE receipts' = receipts
    BY <2>3, <1>1 DEF Evolves
  <2> QED BY <1>1, <2>1, <2>2, <2>3 DEF Changes
<1>5. Evolves(associations, associations')
  <2>1. CASE WriteAssociation(p)
    <3> DEFINE new == [id |-> NewId(AssociationId), receipt |-> draft[p].receipt,
                       candidates |-> draft[p].candidates,
                       supersedes |-> draft[p].supersedes]
    <3>1. /\ associations' = associations \cup {new}
          /\ new.id \notin drawn /\ drawn' = drawn \cup {new.id}
      BY <2>1, NewIdIsFresh DEF WriteAssociation
    <3> QED BY <3>1 DEF Evolves
  <2>2. CASE \E id \in AssociationId : UnlinkAssociation(p, id)
    BY <2>2, <1>1 DEF UnlinkAssociation, Without, Evolves
  <2>3. CASE associations' = associations
    BY <2>3, <1>1 DEF Evolves
  <2> QED BY <1>1, <2>1, <2>2, <2>3 DEF Changes
<1>6. Evolves(cases, cases') \/ ReplaceCase(p)
  <2>1. CASE CreateCase(p)
    <3>1. PICK status \in Status : cases' = cases \cup {[id |-> NewId(CaseId), status |-> status]}
      BY <2>1 DEF CreateCase
    <3> DEFINE new == [id |-> NewId(CaseId), status |-> status]
    <3>2. /\ cases' = cases \cup {new}
          /\ new.id \notin drawn /\ drawn' = drawn \cup {new.id}
      BY <2>1, <3>1, NewIdIsFresh DEF CreateCase
    <3> QED BY <3>2 DEF Evolves
  <2>2. CASE \E id \in CaseId : UnlinkCase(p, id)
    BY <2>2, <1>1 DEF UnlinkCase, Without, Evolves
  <2>3. CASE cases' = cases
    BY <2>3, <1>1 DEF Evolves
  <2> QED BY <1>1, <2>1, <2>2, <2>3 DEF Changes
<1> QED BY <1>2, <1>3, <1>4, <1>5, <1>6

\* A rewrite puts a document where the one it replaces was, and draws nothing.
LEMMA RewriteApart ==
  ASSUME IdentityInv, NEW p \in Proc, ReplaceCase(p)
  PROVE  /\ Ids(cases') = Ids(cases) /\ drawn' = drawn
         /\ \A a, b \in cases' : a.id = b.id => a = b
<1>1. /\ cases' = Without(cases, draft[p].case.id) \cup {draft[p].case}
      /\ drawn' = drawn /\ draft[p].case.id \in Ids(cases)
  BY DEF ReplaceCase, IdentityInv, InPlace, Ids
<1>2. Ids(cases') = Ids(cases)
  BY <1>1 DEF Ids, Without
<1>3. \A a, b \in cases' : a.id = b.id => a = b
  BY <1>1 DEF IdentityInv, IdsUnique, UniqueIds, Without
<1> QED BY <1>1, <1>2, <1>3

\* A step that takes a process anywhere finds in place what it then relies on.
LEMMA InPlaceByStep ==
  ASSUME IdentityInv, NEW p \in Proc, Step(p) \/ Crash(p)
  PROVE  InPlace(p)'
<1>0. /\ LockInv /\ InPlace(p)
      /\ pc \in [Proc -> Stages] /\ draft \in [Proc -> Drafts]
  BY DEF IdentityInv, LockInv, TypeInv, TypeOK
<1>1. Arrivals(p)
  BY <1>0, Moves
<1>2. CASE pc'[p] = "write_case"
  <2>1. UpdateCase(p)
    BY <1>1, <1>2 DEF Arrivals
  <2>2. PICK c \in cases, status \in Status :
          draft' = [draft EXCEPT ![p] =
                      [stored |-> c, case |-> [c EXCEPT !.status = status]]]
    BY <2>1 DEF UpdateCase
  <2> QED BY <1>0, <1>2, <2>1, <2>2 DEF InPlace, UpdateCase
<1>3. CASE pc'[p] = "event"
  BY <1>1, <1>3 DEF Arrivals, StoreObject, InPlace
<1>4. CASE pc'[p] = "purge"
  <2>1. CASE BeginPurge(p)
    BY <1>4, <2>1 DEF BeginPurge, InPlace, RecordsGone
  <2>2. CASE ObjectPass(p)
    BY <1>0, <1>4, <2>2, ObjectPassTakes, GoneCarries DEF InPlace
  <2> QED BY <1>1, <1>4, <2>1, <2>2 DEF Arrivals
<1> QED BY <1>2, <1>3, <1>4 DEF InPlace

\* Every step keeps identifiers apart, and what a process relies on in place.
LEMMA StepIdentityInv == IdentityInv /\ [Next]_vars => IdentityInv'
<1> SUFFICES ASSUME IdentityInv, [Next]_vars
             PROVE  IdsUnique' /\ \A q \in Proc : InPlace(q)'
  BY StepLockInv DEF IdentityInv
<1>0. LockInv
  BY DEF IdentityInv
<1>1. ASSUME NEW p \in Proc, Step(p) \/ Crash(p)
      PROVE  IdsUnique' /\ \A q \in Proc : InPlace(q)'
  <2>1. IdsUnique'
    <3>1. /\ UniqueIds(events) /\ UniqueIds(cases) /\ UniqueIds(submissions)
          /\ UniqueIds(receipts) /\ UniqueIds(associations)
      BY DEF IdentityInv, IdsUnique
    <3>2. /\ UniqueIds(events)' /\ UniqueIds(submissions)'
          /\ UniqueIds(receipts)' /\ UniqueIds(associations)'
      BY <1>0, <1>1, <3>1, DirectoriesEvolve, EvolvedApart DEF UniqueIds, Ids
    <3>3. UniqueIds(cases)'
      BY <1>0, <1>1, <3>1, DirectoriesEvolve, EvolvedApart, RewriteApart DEF UniqueIds, Ids
    <3> QED BY <3>2, <3>3 DEF IdsUnique
  <2>2. \A q \in Proc \ {p} : InPlace(q)'
    BY <1>0, <1>1, Moves DEF InPlace
  <2> QED BY <1>1, <2>1, <2>2, InPlaceByStep
<1>2. CASE RemoveAbandonedLock \/ UNCHANGED vars
  BY <1>2 DEF RemoveAbandonedLock, vars, IdentityInv, IdsUnique, UniqueIds, Ids, InPlace,
              RecordsGone
<1> QED BY <1>1, <1>2 DEF Next

\* No step of Archive takes an identifier back.
LEMMA ArchiveDraws ==
  ASSUME IdentityInv, [Next]_vars
  PROVE  drawn \subseteq drawn'
<1>1. CASE RemoveAbandonedLock \/ UNCHANGED vars
  BY <1>1 DEF RemoveAbandonedLock, vars
<1> QED BY <1>1, DrawnGrows DEF Next, IdentityInv

LEMMA InitIdentityInv == Init => IdentityInv
<1> SUFFICES ASSUME Init PROVE IdentityInv
  OBVIOUS
<1>1. LockInv
  BY InitTypeInv DEF Init, LockInv, WriterHoldsLock, Working
<1>2. IdsUnique /\ \A p \in Proc : InPlace(p)
  BY DEF Init, IdsUnique, UniqueIds, Ids, InPlace
<1> QED BY <1>1, <1>2 DEF IdentityInv

\* write_record: an identifier names one record for good, whatever was
\* deleted since and whatever could not be listed.
THEOREM IdsAlwaysUnique == Spec => []IdsUnique
<1>1. IdentityInv => IdsUnique
  BY DEF IdentityInv
<1> QED BY <1>1, InitIdentityInv, StepIdentityInv, PTL DEF Spec

\* write_record, replace_record: a stored record is never overwritten, a
\* case's fields apart, and one that went does not come back.
THEOREM RecordsWrittenOnce == Spec => WriteOnce
<1> DEFINE Kept(old, now) == \A a \in old, b \in now : a.id = b.id => a = b
           Gone(old, now) == Ids(now) \cap drawn \subseteq Ids(old)
           Once == /\ Kept(events, events') /\ Kept(submissions, submissions')
                   /\ Kept(receipts, receipts') /\ Kept(associations, associations')
                   /\ Gone(events, events') /\ Gone(submissions, submissions')
                   /\ Gone(receipts, receipts') /\ Gone(associations, associations')
                   /\ Gone(cases, cases')
<1>1. ASSUME IdentityInv, NEW p \in Proc, Step(p) \/ Crash(p) PROVE Once
  <2>1. /\ UniqueIds(events) /\ UniqueIds(cases) /\ UniqueIds(submissions)
        /\ UniqueIds(receipts) /\ UniqueIds(associations) /\ LockInv
    BY <1>1 DEF IdentityInv, IdsUnique
  <2>2. /\ Kept(events, events') /\ Kept(submissions, submissions')
        /\ Kept(receipts, receipts') /\ Kept(associations, associations')
    BY <1>1, <2>1, DirectoriesEvolve, EvolvedApart
  <2>3. /\ Gone(events, events') /\ Gone(submissions, submissions')
        /\ Gone(receipts, receipts') /\ Gone(associations, associations')
    BY <1>1, <2>1, DirectoriesEvolve, EvolvedApart
  <2>4. Gone(cases, cases')
    BY <1>1, <2>1, DirectoriesEvolve, EvolvedApart, RewriteApart
  <2> QED BY <2>2, <2>3, <2>4
<1>2. ASSUME IdentityInv, RemoveAbandonedLock PROVE Once
  BY <1>2 DEF RemoveAbandonedLock, IdentityInv, IdsUnique, UniqueIds
<1>3. IdentityInv /\ [Next]_vars => Once \/ UNCHANGED vars
  BY <1>1, <1>2 DEF Next
<1>4. Once => /\ \A docs \in {<<events, events'>>, <<submissions, submissions'>>,
                              <<receipts, receipts'>>, <<associations, associations'>>} :
                   \A old \in docs[1], new \in docs[2] : old.id = new.id => old = new
              /\ (Ids(cases') \cup Ids(submissions') \cup Ids(receipts')
                    \cup Ids(associations') \cup Ids(events')) \cap drawn
                   \subseteq Ids(cases) \cup Ids(submissions) \cup Ids(receipts)
                               \cup Ids(associations) \cup Ids(events)
  OBVIOUS
<1> HIDE DEF Once
<1> QED BY <1>3, <1>4, InitIdentityInv, StepIdentityInv, PTL DEF Spec, WriteOnce

\* case update: a rewrite replaces the very document the change was made to, by
\* the one that carries the change; whatever else another command wrote to the
\* case, in between, would have made it another document.
THEOREM UpdatesNeverLost == Spec => NoLostUpdate
<1> DEFINE Replaced(p, old, new) ==
             pc[p] = "write_case" /\ draft[p] = [stored |-> old, case |-> new]
           Kept == \A old \in cases, new \in cases' :
                     old.id = new.id /\ old # new => \E p \in Proc : Replaced(p, old, new)
<1>1. ASSUME IdentityInv, NEW p \in Proc, Step(p) \/ Crash(p) PROVE Kept
  <2>0. LockInv /\ UniqueIds(cases) /\ InPlace(p)
    BY <1>1 DEF IdentityInv, IdsUnique
  <2>1. CASE Evolves(cases, cases')
    BY <2>0, <2>1, EvolvedApart
  <2>2. CASE ReplaceCase(p)
    <3>1. /\ pc[p] = "write_case" /\ draft[p] \in CaseDraft
          /\ cases' = Without(cases, draft[p].case.id) \cup {draft[p].case}
      BY <2>0, <2>2 DEF ReplaceCase, LockInv, TypeInv, TypeOK
    <3>2. draft[p].stored \in cases /\ draft[p].case.id = draft[p].stored.id
      BY <2>0, <3>1 DEF InPlace
    <3>3. ASSUME NEW old \in cases, NEW new \in cases', old.id = new.id, old # new
          PROVE  Replaced(p, old, new)
      <4>1. new = draft[p].case
        BY <2>0, <3>1, <3>3 DEF Without, UniqueIds
      <4>2. old = draft[p].stored
        BY <2>0, <3>2, <3>3, <4>1 DEF UniqueIds
      <4> QED BY <3>1, <4>1, <4>2 DEF CaseDraft
    <3> HIDE DEF Replaced
    <3> QED BY <3>3
  <2> QED BY <1>1, <2>0, <2>1, <2>2, DirectoriesEvolve
<1>2. ASSUME IdentityInv, RemoveAbandonedLock \/ UNCHANGED vars PROVE Kept
  BY <1>2 DEF RemoveAbandonedLock, vars, IdentityInv, IdsUnique, UniqueIds
<1>3. IdentityInv /\ [Next]_vars => Kept
  BY <1>1, <1>2 DEF Next
<1> QED BY <1>3, InitIdentityInv, StepIdentityInv, PTL DEF Spec, NoLostUpdate

----------------------------------------------------------------------------
(* Submissions *)

\* What a submission about to be written names is there, and a deletion leaves
\* no submission that names what it has still to unlink.
SubmissionHeld(p) ==
  /\ pc[p] \in {"store", "event"} /\ draft[p] # Nil =>
       /\ draft[p].case \in Ids(cases)
       /\ draft[p].artefacts \subseteq objects \cup Contents(todo[p])
  /\ pc[p] = "write_submission" =>
       draft[p].case \in Ids(cases) /\ draft[p].artefacts \subseteq objects
  /\ pc[p] \in {"probe", "unlink", "purge"} =>
       \A s \in submissions : s.id \notin plan[p].submissions =>
         s.case \notin plan[p].cases /\ s.artefacts \cap plan[p].objects = {}

SubmissionInv == IdentityInv /\ SubmissionsIntact /\ \A p \in Proc : SubmissionHeld(p)

\* The memory of the processes, function by function.
LEMMA ProcessTypes ==
  ASSUME IdentityInv
  PROVE  /\ pc \in [Proc -> Stages] /\ todo \in [Proc -> Seq(Digest)]
         /\ draft \in [Proc -> Drafts] /\ plan \in [Proc -> Plan]
         /\ \A p \in Proc : pc[p] \in {"store", "event"} => todo[p] # <<>>
         /\ \A p \in Proc : pc[p] \notin Drafting => draft[p] = Nil
         /\ LockInv /\ TypeInv /\ IdsUnique
BY DEF IdentityInv, LockInv, TypeInv, TypeOK, HasFile

\* submission add: what is to be recorded was found, or is stored first.
LEMMA FilesHeld ==
  ASSUME SubmissionInv, NEW p \in Proc,
         Import(p) \/ AddSubmission(p) \/ StoreObject(p) \/ WriteEvent(p)
  PROVE  SubmissionHeld(p)'
<1>0. IdentityInv /\ SubmissionHeld(p) /\ InPlace(p)
  BY DEF SubmissionInv, IdentityInv
<1> USE <1>0, ProcessTypes
<1>1. CASE Import(p)
  BY <1>1 DEF Import, Drafting, SubmissionHeld
<1>2. CASE AddSubmission(p)
  <2>1. PICK c \in Ids(cases), given \in SUBSET objects, files \in FileLists \cup {<<>>} :
          /\ todo' = [todo EXCEPT ![p] = files]
          /\ draft' = [draft EXCEPT ![p] =
               [case |-> c, artefacts |-> given \cup Contents(files)]]
          /\ Goto(p, IF files = <<>> THEN "write_submission" ELSE "store")
    BY <1>2 DEF AddSubmission
  <2>2. UNCHANGED <<objects, cases>>
    BY <1>2 DEF AddSubmission
  <2>3. /\ draft'[p].case = c
        /\ draft'[p].artefacts = given \cup Contents(files)
        /\ todo'[p] = files
        /\ pc'[p] = IF files = <<>> THEN "write_submission" ELSE "store"
    BY <2>1
  <2>4. files = <<>> => Contents(files) = {}
    BY EmptySeq DEF Contents
  <2> QED BY <2>2, <2>3, <2>4 DEF SubmissionHeld
<1>3. CASE StoreObject(p)
  BY <1>3 DEF StoreObject, SubmissionHeld
<1>4. CASE WriteEvent(p)
  <2>1. /\ pc[p] = "event" /\ todo[p] # <<>> /\ todo[p] \in Seq(Digest)
        /\ todo'[p] = Tail(todo[p]) /\ draft'[p] = draft[p]
        /\ pc'[p] = IF Len(todo[p]) > 1 THEN "store"
                    ELSE IF draft[p] = Nil THEN "done" ELSE "write_submission"
        /\ UNCHANGED <<objects, cases>>
    BY <1>4 DEF WriteEvent
  <2>2. Contents(todo[p]) \subseteq objects \cup Contents(todo'[p])
    BY <2>1, FirstAndRest DEF InPlace
  <2>3. ~(Len(todo[p]) > 1) => Contents(todo'[p]) = {}
    BY <2>1, HeadTailProperties, LenProperties, EmptySeq DEF Contents
  <2>4. draft[p] # Nil =>
          /\ draft[p].case \in Ids(cases)
          /\ draft[p].artefacts \subseteq objects \cup Contents(todo'[p])
    BY <2>1, <2>2 DEF SubmissionHeld
  <2> QED BY <2>1, <2>3, <2>4 DEF SubmissionHeld
<1> QED BY <1>1, <1>2, <1>3, <1>4

\* A step keeps what a process relies on of submissions.
LEMMA SubmissionHeldKept ==
  ASSUME SubmissionInv, "submission" \notin Unlistable, NEW p \in Proc, Step(p) \/ Crash(p)
  PROVE  SubmissionHeld(p)'
<1>0. /\ IdentityInv /\ LockInv /\ TypeInv /\ IdsUnique /\ SubmissionHeld(p)
      /\ pc \in [Proc -> Stages]
  BY ProcessTypes DEF SubmissionInv
<1>1. Arrivals(p)
  BY <1>0, Moves
<1>2. CASE pc'[p] \in {"store", "event", "write_submission"}
  BY <1>1, <1>2, FilesHeld DEF Arrivals
<1>3. CASE pc'[p] = "probe"
  <2>1. DeleteCase(p)
    BY <1>1, <1>3 DEF Arrivals
  <2>2. UNCHANGED submissions
    BY <1>0, <2>1, PlanFound
  <2>3. PICK c \in Ids(cases), recs \in Listings("receipt", receipts),
             assocs \in Listings("association", associations),
             evs \in Listings("import_event", events),
             filed \in Listings("derived", derived) :
          Planned(p, c, submissions, recs, assocs, evs, filed)
    BY <1>0, <2>1, PlanFound DEF Listings
  <2>4. PICK going, recsGo :
          /\ going = {s \in submissions : s.case = c}
          /\ plan'[p].submissions = Ids(going) /\ plan'[p].cases = {c}
          /\ \/ plan'[p].objects = {}
             \/ plan'[p].objects = Unreferenced(submissions, going, recs, recsGo)
    BY <2>3 DEF Planned
  <2>5. ASSUME NEW s \in submissions, s.id \notin plan'[p].submissions
        PROVE  s.case \notin plan'[p].cases /\ s.artefacts \cap plan'[p].objects = {}
    <3>1. s \in submissions \ going
      BY <2>4, <2>5 DEF Ids
    <3>2. s.artefacts \cap Unreferenced(submissions, going, recs, recsGo) = {}
      BY <3>1, PurgeSparesNamed
    <3> QED BY <2>4, <3>1, <3>2
  <2> QED BY <1>3, <2>2, <2>5 DEF SubmissionHeld
<1>4. CASE pc'[p] = "unlink"
  <2>1. CASE Probe(p)
    <3>1. pc[p] = "probe" /\ UNCHANGED <<plan, submissions>>
      BY <1>0, <1>4, <2>1 DEF Probe
    <3> QED BY <1>0, <1>4, <3>1 DEF SubmissionHeld
  <2>2. CASE RecordPass(p)
    BY <1>0, <1>4, <2>2, RecordPassShrinks DEF SubmissionHeld
  <2> QED BY <1>1, <1>4, <2>1, <2>2 DEF Arrivals
<1>5. CASE pc'[p] = "purge"
  <2>1. CASE BeginPurge(p)
    BY <1>0, <1>5, <2>1 DEF BeginPurge, SubmissionHeld
  <2>2. CASE ObjectPass(p)
    <3>1. /\ pc[p] = "purge" /\ plan'[p].submissions = plan[p].submissions
          /\ plan'[p].cases = plan[p].cases /\ plan'[p].objects \subseteq plan[p].objects
      BY <1>0, <2>2, ObjectPassTakes
    <3>2. UNCHANGED submissions
      BY <2>2, Zenon DEF ObjectPass, UnlinkObject, RefuseObject, UnlinkEvent, RefuseEvent
    <3> QED BY <1>0, <1>5, <3>1, <3>2 DEF SubmissionHeld
  <2> QED BY <1>1, <1>5, <2>1, <2>2 DEF Arrivals
<1> QED BY <1>2, <1>3, <1>4, <1>5 DEF SubmissionHeld

\* A step unlinks no case and no object that a submission it leaves names.
LEMMA SubmissionsKeptByStep ==
  ASSUME SubmissionInv, NEW p \in Proc, Step(p) \/ Crash(p)
  PROVE  SubmissionsIntact'
<1>0. /\ IdentityInv /\ LockInv /\ TypeInv /\ SubmissionHeld(p) /\ InPlace(p)
      /\ SubmissionsIntact
  BY ProcessTypes DEF SubmissionInv, IdentityInv
<1>1. Changes(p)
  BY <1>0, Moves
<1>2. CASE \E d \in Digest : UnlinkObject(p, d)
  <2>1. PICK d \in Digest : UnlinkObject(p, d)
    BY <1>2
  <2>2. /\ pc[p] = "purge" /\ d \in plan[p].objects /\ objects' = objects \ {d}
        /\ UNCHANGED <<cases, submissions>>
    BY <2>1 DEF UnlinkObject
  <2>3. plan[p].submissions = {}
    BY <1>0, <2>2, GonePlan DEF InPlace
  <2>4. \A s \in submissions : d \notin s.artefacts
    BY <1>0, <2>2, <2>3 DEF SubmissionHeld
  <2> QED BY <1>0, <2>2, <2>4 DEF SubmissionsIntact, Ids
<1>3. CASE \E id \in CaseId : UnlinkCase(p, id)
  <2>1. RecordPass(p)
    BY <1>3, Zenon DEF RecordPass
  <2>2. pc[p] = "unlink" /\ UNCHANGED <<objects, submissions>>
    BY <1>3 DEF UnlinkCase, InPass
  <2>3. \A c \in cases \ cases' : c.id \in plan[p].cases /\ plan[p].submissions = {}
    BY <1>0, <2>1, RecordPassShrinks
  <2>4. ASSUME NEW s \in submissions PROVE s.case \in Ids(cases')
    <3>1. PICK c \in cases : c.id = s.case
      BY <1>0 DEF SubmissionsIntact, Ids
    <3>2. c \in cases'
      BY <1>0, <2>2, <2>3, <3>1 DEF SubmissionHeld
    <3> QED BY <3>1, <3>2 DEF Ids
  <2> QED BY <1>0, <2>2, <2>4 DEF SubmissionsIntact
<1>4. CASE WriteSubmission(p)
  <2> DEFINE new == [id |-> NewId(SubmissionId), case |-> draft[p].case,
                     artefacts |-> draft[p].artefacts]
  <2>1. /\ pc[p] = "write_submission" /\ submissions' = submissions \cup {new}
        /\ UNCHANGED <<objects, cases>>
    BY <1>4 DEF WriteSubmission
  <2>2. new.case \in Ids(cases) /\ new.artefacts \subseteq objects
    BY <1>0, <2>1 DEF SubmissionHeld
  <2> HIDE DEF new
  <2> QED BY <1>0, <2>1, <2>2 DEF SubmissionsIntact
<1>5. CASE /\ ~ \E d \in Digest : UnlinkObject(p, d)
           /\ ~ \E id \in CaseId : UnlinkCase(p, id)
           /\ ~WriteSubmission(p)
  <2>1. objects \subseteq objects'
    BY <1>1, <1>5 DEF Changes, StoreObject
  <2>2. Ids(cases) \subseteq Ids(cases')
    <3>1. CreateCase(p) => cases \subseteq cases'
      BY DEF CreateCase
    <3> QED BY <1>0, <1>1, <1>5, <3>1, RewriteApart DEF Changes, Ids
  <2>3. submissions' \subseteq submissions
    BY <1>1, <1>5 DEF Changes, UnlinkSubmission, Without
  <2> QED BY <1>0, <2>1, <2>2, <2>3 DEF SubmissionsIntact
<1> QED BY <1>2, <1>3, <1>4, <1>5

LEMMA StepSubmissionInv ==
  ASSUME "submission" \notin Unlistable
  PROVE  SubmissionInv /\ [Next]_vars => SubmissionInv'
<1> SUFFICES ASSUME SubmissionInv, [Next]_vars PROVE SubmissionInv'
  OBVIOUS
<1>1. IdentityInv'
  BY StepIdentityInv DEF SubmissionInv
<1>2. ASSUME NEW p \in Proc, Step(p) \/ Crash(p) PROVE SubmissionInv'
  <2>1. \A q \in Proc \ {p} : pc'[q] = "idle"
    BY <1>2, Moves DEF SubmissionInv, IdentityInv
  <2>2. \A q \in Proc : SubmissionHeld(q)'
    BY <1>2, <2>1, SubmissionHeldKept DEF SubmissionHeld
  <2> QED BY <1>1, <1>2, <2>2, SubmissionsKeptByStep DEF SubmissionInv
<1>3. CASE RemoveAbandonedLock \/ UNCHANGED vars
  <2>1. UNCHANGED <<objects, cases, submissions, pc, todo, draft, plan>>
    BY <1>3 DEF RemoveAbandonedLock, vars
  <2> QED BY <1>1, <2>1 DEF SubmissionInv, SubmissionsIntact, SubmissionHeld, Ids, Contents
<1> QED BY <1>2, <1>3 DEF Next

\* submission add, case delete, purge: no submission names a case or an object
\* that is not there, if the submissions can be listed.
THEOREM SubmissionsAlwaysIntact ==
  ASSUME "submission" \notin Unlistable
  PROVE  Spec => []SubmissionsIntact
<1>1. Init => SubmissionInv
  BY InitIdentityInv DEF Init, SubmissionInv, SubmissionsIntact, SubmissionHeld
<1>2. SubmissionInv => SubmissionsIntact
  BY DEF SubmissionInv
<1> QED BY <1>1, <1>2, StepSubmissionInv, PTL DEF Spec

----------------------------------------------------------------------------
(* Receipts *)

\* The import event a receipt names is there and records the receipt's object.
Recorded(r, docs) == [id |-> r.event, digest |-> r.artefact] \in docs

LEMMA RecordedEvent ==
  ASSUME NEW r, NEW docs, Recorded(r, docs)
  PROVE  /\ \A now : docs \subseteq now => Recorded(r, now)
         /\ \A id : r.event # id => Recorded(r, Without(docs, id))
         /\ (\A a, b \in docs : a.id = b.id => a = b) =>
              \A e \in docs : e.id = r.event => e.digest = r.artefact
<1> DEFINE found == [id |-> r.event, digest |-> r.artefact]
<1>1. found \in docs
  BY DEF Recorded
<1>2. found.id = r.event /\ found.digest = r.artefact
  OBVIOUS
<1>3. \A now : Recorded(r, now) <=> found \in now
  BY DEF Recorded
<1> HIDE DEF found
<1> QED BY <1>1, <1>2, <1>3 DEF Without

\* What a receipt about to be written names is there, and a deletion leaves no
\* receipt whose object or import event it has still to unlink.
ReceiptHeld(p) ==
  /\ pc[p] = "write_receipt" =>
       draft[p].artefact \in objects /\ Recorded(draft[p], events)
  /\ pc[p] \in {"probe", "unlink", "purge"} =>
       \A r \in receipts : r.id \notin plan[p].receipts =>
         r.artefact \notin plan[p].objects /\ r.event \notin Ids(plan[p].events)

ReceiptsRecorded == \A r \in receipts : r.artefact \in objects /\ Recorded(r, events)

ReceiptInv == IdentityInv /\ ReceiptsRecorded /\ \A p \in Proc : ReceiptHeld(p)

\* A step keeps what a process relies on of receipts.
LEMMA ReceiptHeldKept ==
  ASSUME ReceiptInv, "receipt" \notin Unlistable, NEW p \in Proc, Step(p) \/ Crash(p)
  PROVE  ReceiptHeld(p)'
<1>0. /\ IdentityInv /\ LockInv /\ TypeInv /\ IdsUnique /\ ReceiptHeld(p) /\ ReceiptsRecorded
      /\ pc \in [Proc -> Stages] /\ draft \in [Proc -> Drafts]
  BY ProcessTypes DEF ReceiptInv
<1>1. Arrivals(p)
  BY <1>0, Moves
<1>2. CASE pc'[p] = "write_receipt"
  <2>1. AddReceipt(p)
    BY <1>1, <1>2 DEF Arrivals
  <2>2. PICK e \in events :
          /\ e.digest \in objects
          /\ draft' = [draft EXCEPT ![p] = [artefact |-> e.digest, event |-> e.id]]
    BY <2>1 DEF AddReceipt
  <2>3. [id |-> e.id, digest |-> e.digest] = e
    BY <1>0 DEF TypeInv, TypeOK, ImportEvent
  <2>4. draft'[p].artefact = e.digest /\ draft'[p].event = e.id
    BY <1>0, <2>2
  <2>5. UNCHANGED <<objects, events>>
    BY <2>1 DEF AddReceipt
  <2>6. Recorded(draft'[p], events)
    BY <2>3, <2>4 DEF Recorded
  <2> QED BY <1>2, <2>2, <2>4, <2>5, <2>6 DEF ReceiptHeld
<1>3. CASE pc'[p] = "probe"
  <2>1. DeleteCase(p)
    BY <1>1, <1>3 DEF Arrivals
  <2>2. UNCHANGED receipts
    BY <1>0, <2>1, PlanFound
  <2>3. PICK c \in Ids(cases), subs \in Listings("submission", submissions),
             assocs \in Listings("association", associations),
             evs \in Listings("import_event", events),
             filed \in Listings("derived", derived) :
          Planned(p, c, subs, receipts, assocs, evs, filed)
    BY <1>0, <2>1, PlanFound DEF Listings
  <2>4. PICK going, recsGo :
          /\ plan'[p].receipts = Ids(recsGo)
          /\ \/ plan'[p].objects = {}
             \/ plan'[p].objects = Unreferenced(subs, going, receipts, recsGo)
          /\ plan'[p].events = {e \in evs : e.digest \in plan'[p].objects}
    BY <2>3 DEF Planned
  <2>5. ASSUME NEW r \in receipts, r.id \notin plan'[p].receipts
        PROVE  r.artefact \notin plan'[p].objects /\ r.event \notin Ids(plan'[p].events)
    <3>1. r \in receipts \ recsGo
      BY <2>4, <2>5 DEF Ids
    <3>2. r.artefact \notin plan'[p].objects
      BY <2>4, <3>1, PurgeSparesNamed
    <3>3. \A e \in events : e.id = r.event => e.digest = r.artefact
      BY <1>0, RecordedEvent DEF ReceiptsRecorded, IdsUnique, UniqueIds
    <3>4. evs \subseteq events
      BY DEF Listings
    <3> QED BY <2>4, <3>2, <3>3, <3>4 DEF Ids
  <2> QED BY <1>3, <2>2, <2>5 DEF ReceiptHeld
<1>4. CASE pc'[p] = "unlink"
  <2>1. CASE Probe(p)
    <3>1. pc[p] = "probe" /\ UNCHANGED <<plan, receipts>>
      BY <1>0, <1>4, <2>1 DEF Probe
    <3> QED BY <1>0, <1>4, <3>1 DEF ReceiptHeld
  <2>2. CASE RecordPass(p)
    BY <1>0, <1>4, <2>2, RecordPassShrinks DEF ReceiptHeld, Ids
  <2> QED BY <1>1, <1>4, <2>1, <2>2 DEF Arrivals
<1>5. CASE pc'[p] = "purge"
  <2>1. CASE BeginPurge(p)
    BY <1>0, <1>5, <2>1 DEF BeginPurge, ReceiptHeld
  <2>2. CASE ObjectPass(p)
    <3>1. /\ pc[p] = "purge" /\ plan'[p].receipts = plan[p].receipts
          /\ plan'[p].objects \subseteq plan[p].objects
          /\ plan'[p].events \subseteq plan[p].events
      BY <1>0, <2>2, ObjectPassTakes
    <3>2. UNCHANGED receipts
      BY <2>2, Zenon DEF ObjectPass, UnlinkObject, RefuseObject, UnlinkEvent, RefuseEvent
    <3> QED BY <1>0, <1>5, <3>1, <3>2 DEF ReceiptHeld, Ids
  <2> QED BY <1>1, <1>5, <2>1, <2>2 DEF Arrivals
<1> QED BY <1>2, <1>3, <1>4, <1>5 DEF ReceiptHeld

\* A step unlinks no object and no import event that a receipt it leaves names.
LEMMA ReceiptsKeptByStep ==
  ASSUME ReceiptInv, NEW p \in Proc, Step(p) \/ Crash(p)
  PROVE  ReceiptsRecorded'
<1>0. /\ IdentityInv /\ LockInv /\ ReceiptHeld(p) /\ InPlace(p) /\ ReceiptsRecorded
  BY ProcessTypes DEF ReceiptInv, IdentityInv
<1>1. Changes(p)
  BY <1>0, Moves
<1>2. CASE \E d \in Digest : UnlinkObject(p, d)
  <2>1. PICK d \in Digest : UnlinkObject(p, d)
    BY <1>2
  <2>2. /\ pc[p] = "purge" /\ d \in plan[p].objects /\ objects' = objects \ {d}
        /\ UNCHANGED <<events, receipts>>
    BY <2>1 DEF UnlinkObject
  <2>3. plan[p].receipts = {}
    BY <1>0, <2>2, GonePlan DEF InPlace
  <2> QED BY <1>0, <2>2, <2>3 DEF ReceiptsRecorded, ReceiptHeld
<1>3. CASE \E e \in plan[p].events : UnlinkEvent(p, e)
  <2>1. PICK e \in plan[p].events : UnlinkEvent(p, e)
    BY <1>3
  <2>2. /\ pc[p] = "purge" /\ events' = Without(events, e.id)
        /\ UNCHANGED <<objects, receipts>>
    BY <2>1 DEF UnlinkEvent
  <2>3. plan[p].receipts = {} /\ e.id \in Ids(plan[p].events)
    BY <1>0, <2>2, GonePlan DEF InPlace, Ids
  <2>4. \A r \in receipts : r.event # e.id
    BY <1>0, <2>2, <2>3 DEF ReceiptHeld
  <2> QED BY <1>0, <2>2, <2>4, RecordedEvent DEF ReceiptsRecorded
<1>4. CASE WriteReceipt(p)
  <2> DEFINE new == [id |-> NewId(ReceiptId), artefact |-> draft[p].artefact,
                     event |-> draft[p].event]
  <2>1. /\ pc[p] = "write_receipt" /\ receipts' = receipts \cup {new}
        /\ UNCHANGED <<objects, events>>
    BY <1>4 DEF WriteReceipt
  <2>2. new.artefact \in objects /\ Recorded(new, events)
    BY <1>0, <2>1 DEF ReceiptHeld, Recorded
  <2> HIDE DEF new
  <2> QED BY <1>0, <2>1, <2>2 DEF ReceiptsRecorded
<1>5. CASE /\ ~ \E d \in Digest : UnlinkObject(p, d)
           /\ ~ \E e \in plan[p].events : UnlinkEvent(p, e)
           /\ ~WriteReceipt(p)
  <2>1. objects \subseteq objects' /\ events \subseteq events'
    BY <1>1, <1>5 DEF Changes, StoreObject, WriteEvent
  <2>2. receipts' \subseteq receipts
    BY <1>1, <1>5 DEF Changes, UnlinkReceipt, Without
  <2> QED BY <1>0, <2>1, <2>2, RecordedEvent DEF ReceiptsRecorded
<1> QED BY <1>2, <1>3, <1>4, <1>5

LEMMA StepReceiptInv ==
  ASSUME "receipt" \notin Unlistable
  PROVE  ReceiptInv /\ [Next]_vars => ReceiptInv'
<1> SUFFICES ASSUME ReceiptInv, [Next]_vars PROVE ReceiptInv'
  OBVIOUS
<1>1. IdentityInv'
  BY StepIdentityInv DEF ReceiptInv
<1>2. ASSUME NEW p \in Proc, Step(p) \/ Crash(p) PROVE ReceiptInv'
  <2>1. \A q \in Proc \ {p} : pc'[q] = "idle"
    BY <1>2, Moves DEF ReceiptInv, IdentityInv
  <2>2. \A q \in Proc \ {p} : ReceiptHeld(q)'
    BY <2>1 DEF ReceiptHeld
  <2> QED BY <1>1, <1>2, <2>2, ReceiptHeldKept, ReceiptsKeptByStep DEF ReceiptInv
<1>3. CASE RemoveAbandonedLock \/ UNCHANGED vars
  <2>1. UNCHANGED <<objects, events, receipts, pc, draft, plan>>
    BY <1>3 DEF RemoveAbandonedLock, vars
  <2> QED BY <1>1, <2>1 DEF ReceiptInv, ReceiptsRecorded, ReceiptHeld, Ids
<1> QED BY <1>2, <1>3 DEF Next

\* receipt add, purge: a receipt's object is stored, and the import event it
\* names is there and records that object, if the receipts can be listed.
THEOREM ReceiptsAlwaysIntact ==
  ASSUME "receipt" \notin Unlistable
  PROVE  Spec => []ReceiptsIntact
<1>1. Init => ReceiptInv
  BY InitIdentityInv DEF Init, ReceiptInv, ReceiptsRecorded, ReceiptHeld
<1>2. ReceiptInv => ReceiptsIntact
  BY Zenon DEF ReceiptInv, ReceiptsRecorded, Recorded, ReceiptsIntact
<1> QED BY <1>1, <1>2, StepReceiptInv, PTL DEF Spec

----------------------------------------------------------------------------
(* Associations *)

\* What an association about to be written names is there, and a deletion
\* leaves no association that names what it has still to unlink.
AssociationHeld(p) ==
  /\ pc[p] = "write_association" =>
       draft[p].receipt \in Ids(receipts) /\ draft[p].candidates \subseteq Ids(submissions)
  /\ pc[p] \in {"probe", "unlink"} =>
       \A a \in associations : a.id \notin plan[p].associations =>
         a.receipt \notin plan[p].receipts /\ a.candidates \cap plan[p].submissions = {}

AssociationInv == IdentityInv /\ AssociationsIntact /\ \A p \in Proc : AssociationHeld(p)

\* A step keeps what a process relies on of associations.
LEMMA AssociationHeldKept ==
  ASSUME AssociationInv, "association" \notin Unlistable, NEW p \in Proc,
         Step(p) \/ Crash(p)
  PROVE  AssociationHeld(p)'
<1>0. /\ IdentityInv /\ LockInv /\ TypeInv /\ IdsUnique /\ AssociationHeld(p)
      /\ AssociationsIntact /\ pc \in [Proc -> Stages] /\ draft \in [Proc -> Drafts]
  BY ProcessTypes DEF AssociationInv
<1>1. Arrivals(p)
  BY <1>0, Moves
<1>2. CASE pc'[p] = "write_association"
  <2>1. /\ draft'[p].receipt \in Ids(receipts) /\ draft'[p].candidates \subseteq Ids(submissions)
        /\ UNCHANGED <<receipts, submissions>>
    <3>1. CASE CreateAssociation(p)
      BY <1>0, <3>1 DEF CreateAssociation
    <3>2. CASE RetireAssociation(p)
      BY <1>0, <3>2 DEF RetireAssociation, AssociationsIntact
    <3> QED BY <1>1, <1>2, <3>1, <3>2 DEF Arrivals
  <2> QED BY <1>2, <2>1 DEF AssociationHeld, Ids
<1>3. CASE pc'[p] = "probe"
  <2>1. DeleteCase(p)
    BY <1>1, <1>3 DEF Arrivals
  <2>2. UNCHANGED associations
    BY <1>0, <2>1, PlanFound
  <2>3. PICK c \in Ids(cases), subs \in Listings("submission", submissions),
             recs \in Listings("receipt", receipts),
             evs \in Listings("import_event", events),
             filed \in Listings("derived", derived) :
          Planned(p, c, subs, recs, associations, evs, filed)
    BY <1>0, <2>1, PlanFound DEF Listings
  <2>4. PICK going, doomed, recsGo :
          /\ doomed = Doomed(associations, Ids(going))
          /\ recsGo = DoomedReceipts(recs, associations, doomed)
          /\ Plannable(associations, Ids(going))
          /\ plan'[p].associations = Ids(doomed) /\ plan'[p].receipts = Ids(recsGo)
          /\ plan'[p].submissions = Ids(going)
    BY <2>3 DEF Planned
  <2>5. ASSUME NEW a \in associations, a.id \notin plan'[p].associations
        PROVE  a.receipt \notin plan'[p].receipts /\ a.candidates \cap plan'[p].submissions = {}
    <3>1. a \notin doomed
      BY <2>4, <2>5 DEF Ids
    <3> QED BY <2>4, <3>1, PlanTakesReferrers
  <2> QED BY <1>3, <2>2, <2>5 DEF AssociationHeld
<1>4. CASE pc'[p] = "unlink"
  <2>1. CASE Probe(p)
    <3>1. pc[p] = "probe" /\ UNCHANGED <<plan, associations>>
      BY <1>0, <1>4, <2>1 DEF Probe
    <3> QED BY <1>0, <1>4, <3>1 DEF AssociationHeld
  <2>2. CASE RecordPass(p)
    BY <1>0, <1>4, <2>2, RecordPassShrinks DEF AssociationHeld
  <2> QED BY <1>1, <1>4, <2>1, <2>2 DEF Arrivals
<1> QED BY <1>2, <1>3, <1>4 DEF AssociationHeld

\* A step unlinks no receipt and no submission that an association it leaves
\* names.
LEMMA AssociationsKeptByStep ==
  ASSUME AssociationInv, NEW p \in Proc, Step(p) \/ Crash(p)
  PROVE  AssociationsIntact'
<1>0. /\ LockInv /\ TypeInv /\ AssociationHeld(p) /\ AssociationsIntact
  BY ProcessTypes DEF AssociationInv
<1>1. Changes(p)
  BY <1>0, Moves
<1>2. CASE RecordPass(p)
  <2>1. pc[p] = "unlink" /\ associations' \subseteq associations
    BY <1>0, <1>2, RecordPassShrinks
  <2>2. \A a \in associations, r \in receipts : r.id = a.receipt => r \in receipts'
    BY <1>0, <1>2, <2>1, RecordPassShrinks DEF AssociationHeld
  <2>3. \A a \in associations, s \in submissions : s.id \in a.candidates => s \in submissions'
    BY <1>0, <1>2, <2>1, RecordPassShrinks DEF AssociationHeld
  <2>4. ASSUME NEW a \in associations PROVE a.receipt \in Ids(receipts')
    <3>1. PICK r \in receipts : r.id = a.receipt
      BY <1>0 DEF AssociationsIntact, Ids
    <3> QED BY <2>2, <3>1 DEF Ids
  <2>5. ASSUME NEW a \in associations, NEW id \in a.candidates PROVE id \in Ids(submissions')
    <3>1. PICK s \in submissions : s.id = id
      BY <1>0 DEF AssociationsIntact, Ids
    <3> QED BY <2>3, <3>1 DEF Ids
  <2> QED BY <2>1, <2>4, <2>5 DEF AssociationsIntact
<1>3. CASE WriteAssociation(p)
  <2> DEFINE new == [id |-> NewId(AssociationId), receipt |-> draft[p].receipt,
                     candidates |-> draft[p].candidates,
                     supersedes |-> draft[p].supersedes]
  <2>1. /\ pc[p] = "write_association" /\ associations' = associations \cup {new}
        /\ UNCHANGED <<receipts, submissions>>
    BY <1>3 DEF WriteAssociation
  <2>2. new.receipt \in Ids(receipts) /\ new.candidates \subseteq Ids(submissions)
    BY <1>0, <2>1 DEF AssociationHeld
  <2> HIDE DEF new
  <2> QED BY <1>0, <2>1, <2>2 DEF AssociationsIntact
<1>4. CASE ~RecordPass(p) /\ ~WriteAssociation(p)
  <2>1. /\ ~ \E id \in AssociationId : UnlinkAssociation(p, id)
        /\ ~ \E id \in ReceiptId : UnlinkReceipt(p, id)
        /\ ~ \E id \in SubmissionId : UnlinkSubmission(p, id)
    BY <1>4, Zenon DEF RecordPass
  <2>2. receipts \subseteq receipts' /\ submissions \subseteq submissions'
    BY <1>1, <2>1 DEF Changes, WriteReceipt, WriteSubmission
  <2>3. associations' = associations
    BY <1>1, <1>4, <2>1 DEF Changes
  <2> QED BY <1>0, <2>2, <2>3 DEF AssociationsIntact, Ids
<1> QED BY <1>2, <1>3, <1>4

LEMMA StepAssociationInv ==
  ASSUME "association" \notin Unlistable
  PROVE  AssociationInv /\ [Next]_vars => AssociationInv'
<1> SUFFICES ASSUME AssociationInv, [Next]_vars PROVE AssociationInv'
  OBVIOUS
<1>1. IdentityInv'
  BY StepIdentityInv DEF AssociationInv
<1>2. ASSUME NEW p \in Proc, Step(p) \/ Crash(p) PROVE AssociationInv'
  <2>1. \A q \in Proc \ {p} : pc'[q] = "idle"
    BY <1>2, Moves DEF AssociationInv, IdentityInv
  <2>2. \A q \in Proc \ {p} : AssociationHeld(q)'
    BY <2>1 DEF AssociationHeld
  <2> QED BY <1>1, <1>2, <2>2, AssociationHeldKept, AssociationsKeptByStep DEF AssociationInv
<1>3. CASE RemoveAbandonedLock \/ UNCHANGED vars
  <2>1. UNCHANGED <<submissions, receipts, associations, pc, draft, plan>>
    BY <1>3 DEF RemoveAbandonedLock, vars
  <2> QED BY <1>1, <2>1 DEF AssociationInv, AssociationsIntact, AssociationHeld, Ids
<1> QED BY <1>2, <1>3 DEF Next

\* association create and retire, case delete: the receipt and every submission
\* an association names are there, if the associations can be listed.
THEOREM AssociationsAlwaysIntact ==
  ASSUME "association" \notin Unlistable
  PROVE  Spec => []AssociationsIntact
<1>1. Init => AssociationInv
  BY InitIdentityInv DEF Init, AssociationInv, AssociationsIntact, AssociationHeld
<1>2. AssociationInv => AssociationsIntact
  BY DEF AssociationInv
<1> QED BY <1>1, <1>2, StepAssociationInv, PTL DEF Spec
=============================================================================
