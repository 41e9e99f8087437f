---------------------------- MODULE CaseDeletion ----------------------------
(***************************************************************************)
(* case delete: plan over everything stored, probe, then unlink, records   *)
(* first and in the order of the references between the kinds, objects     *)
(* after the last record, each object's import events after the object.    *)
(***************************************************************************)
EXTENDS ArchiveState

----------------------------------------------------------------------------
(* Supersession chains *)

\* Faults: a chain is followed to newer records only, or to older ones only.
ChainClosedNewer(docs, S) == \A a \in S, b \in docs : Supersedes(b, a) => b \in S
ChainClosedOlder(docs, S) == \A a \in S, b \in docs : Supersedes(a, b) => b \in S

\* A set of associations no supersedes edge leaves or enters.
ChainClosed(docs, S) ==
  \A a \in S, b \in docs : Linked(a, b) => b \in S

\* The associations one merging pass after another joins to a: the smallest
\* closed set that holds it.  Chains::of computes it by relabelling positions.
Chain(docs, a) ==
  {b \in docs : \A S \in SUBSET docs : a \in S /\ ChainClosed(docs, S) => b \in S}

\* A set in which every record supersedes another of the set holds a cycle.
HoldsCycle(chain) ==
  \E S \in (SUBSET chain) \ {{}} : \A a \in S : \E b \in S : Supersedes(a, b)

Departing(docs, going, a) ==
  \E b \in Chain(docs, a) : Named(b) \cap going # {}

\* Fault: of the live records of a branched chain one is enough to let it go.
AssertedByEach(docs, going, a) ==
  \A b \in Chain(docs, a) : Superseded(docs, b) \/ ~(Named(b) \subseteq going)

Asserted(docs, going, a) ==
  \E b \in Chain(docs, a) : ~Superseded(docs, b) /\ ~(Named(b) \subseteq going)

Cyclic(docs, going, a) ==
  Departing(docs, going, a) /\ HoldsCycle(Chain(docs, a))

Entangled(docs, going, a) ==
  Departing(docs, going, a) /\ Asserted(docs, going, a)

Doomed(docs, going) ==
  {a \in docs : Departing(docs, going, a) /\ ~Asserted(docs, going, a)}

\* A receipt goes when an association ties it and every one that does goes.
DoomedReceipts(docs, assocs, doomed) ==
  {r \in docs : LET tied == {a \in assocs : a.receipt = r.id}
                IN tied # {} /\ tied \subseteq doomed}

\* Fault: what the remaining records name is not looked at.
NamedByGoing(subs, goingSubs, recs, goingRecs) ==
  (UNION {s.artefacts : s \in goingSubs}) \cup {r.artefact : r \in goingRecs}

\* Digests only departing records name.
Unreferenced(subs, goingSubs, recs, goingRecs) ==
  ((UNION {s.artefacts : s \in goingSubs}) \cup {r.artefact : r \in goingRecs})
    \ ((UNION {s.artefacts : s \in subs \ goingSubs})
         \cup {r.artefact : r \in recs \ goingRecs})

----------------------------------------------------------------------------
(* Planning *)

PlanOf(c, purge, subs, recs, assocs, evs, filed) ==
  LET going     == {s \in subs : s.case = c}
      doomed    == Doomed(assocs, Ids(going))
      goingRecs == DoomedReceipts(recs, assocs, doomed)
      purged    == IF purge THEN Unreferenced(subs, going, recs, goingRecs) ELSE {}
  IN [associations |-> Ids(doomed), receipts |-> Ids(goingRecs),
      submissions  |-> Ids(going),  cases    |-> {c},
      derived      |-> filed \cap purged,
      objects      |-> purged,
      events       |-> {e \in evs : e.digest \in purged}]

\* refuse_cycle and refuse_entangled: nothing is touched.
Plannable(assocs, going) ==
  \A a \in assocs : ~Cyclic(assocs, going, a) /\ ~Entangled(assocs, going, a)

DeleteCase(p) ==
  /\ pc[p] = "delete"
  /\ \E c \in Ids(cases), purge \in BOOLEAN,
        subs \in Listings("submission", submissions),
        recs \in Listings("receipt", receipts),
        assocs \in Listings("association", associations),
        evs \in Listings("import_event", events),
        filed \in Listings("derived", derived) :
       /\ Plannable(assocs, Ids({s \in subs : s.case = c}))
       /\ plan' = [plan EXCEPT ![p] = PlanOf(c, purge, subs, recs, assocs, evs, filed)]
  /\ Goto(p, "probe")
  /\ UNCHANGED <<lock, objects, records, drawn, todo, draft, ghosts>>

\* removable: the pass begins, or is refused while the archive is as it was.
Probe(p) ==
  /\ pc[p] = "probe"
  /\ \/ Goto(p, "unlink") /\ UNCHANGED plan
     \/ MayRefuse /\ Goto(p, "done") /\ plan' = [plan EXCEPT ![p] = NoPlan]
  /\ UNCHANGED <<lock, objects, records, drawn, todo, draft, ghosts>>

----------------------------------------------------------------------------
(* Unlinking *)

\* Faults: the case goes before what names it; derived facts are not in the plan.
PassesReversed == <<"cases", "submissions", "receipts", "associations", "derived">>
PassesWithoutDerived == <<"associations", "receipts", "submissions", "cases">>

\* The passes in their order: each begins when those before it have nothing left.
Passes == <<"associations", "receipts", "submissions", "cases", "derived">>

InPass(p, kind) ==
  /\ pc[p] = "unlink"
  /\ \E n \in DOMAIN Passes :
       Passes[n] = kind /\ \A m \in 1..(n - 1) : plan[p][Passes[m]] = {}

UnlinkAssociation(p, id) ==
  /\ InPass(p, "associations") /\ id \in plan[p].associations
  /\ associations' = Without(associations, id)
  /\ plan' = [plan EXCEPT ![p].associations = @ \ {id}]
  /\ UNCHANGED <<lock, objects, events, cases, submissions, receipts, derived,
                 drawn, pc, todo, draft, ghosts>>

UnlinkReceipt(p, id) ==
  /\ InPass(p, "receipts") /\ id \in plan[p].receipts
  /\ receipts' = Without(receipts, id)
  /\ plan' = [plan EXCEPT ![p].receipts = @ \ {id}]
  /\ UNCHANGED <<lock, objects, events, cases, submissions, associations, derived,
                 drawn, pc, todo, draft, ghosts>>

UnlinkSubmission(p, id) ==
  /\ InPass(p, "submissions") /\ id \in plan[p].submissions
  /\ submissions' = Without(submissions, id)
  /\ plan' = [plan EXCEPT ![p].submissions = @ \ {id}]
  /\ UNCHANGED <<lock, objects, events, cases, receipts, associations, derived,
                 drawn, pc, todo, draft, ghosts>>

UnlinkCase(p, id) ==
  /\ InPass(p, "cases") /\ id \in plan[p].cases
  /\ cases' = Without(cases, id)
  /\ plan' = [plan EXCEPT ![p].cases = @ \ {id}]
  /\ UNCHANGED <<lock, objects, events, submissions, receipts, associations, derived,
                 drawn, pc, todo, draft, ghosts>>

UnlinkDerived(p, d) ==
  /\ InPass(p, "derived") /\ d \in plan[p].derived
  /\ derived' = derived \ {d}
  /\ plan' = [plan EXCEPT ![p].derived = @ \ {d}]
  /\ UNCHANGED <<lock, objects, events, cases, submissions, receipts, associations,
                 drawn, pc, todo, draft, ghosts>>

\* Fault: a refused unlink is counted and the passes after it run all the same.
RefuseUnlinkAndGoOn(p, kind) ==
  /\ MayRefuse
  /\ InPass(p, kind)
  /\ \E id \in plan[p][kind] :
       /\ plan' = [plan EXCEPT ![p][kind] = @ \ {id}]
       /\ strandedRecords' =
            strandedRecords \cup IF kind = "associations" THEN {id} ELSE {}
  /\ UNCHANGED <<lock, objects, records, drawn, pc, todo, draft, strandedObjects>>

\* A refused unlink keeps its document and drops every later pass; the
\* documents of the same directory are still unlinked (unlink_documents).
RefuseUnlink(p, kind) ==
  /\ MayRefuse
  /\ InPass(p, kind)
  /\ \E id \in plan[p][kind] :
       /\ plan' = [plan EXCEPT ![p] = [NoPlan EXCEPT ![kind] = plan[p][kind] \ {id}]]
       /\ strandedRecords' =
            strandedRecords \cup IF kind = "associations" THEN {id} ELSE {}
  /\ UNCHANGED <<lock, objects, records, drawn, pc, todo, draft, strandedObjects>>

\* No pass over the records has anything left.
RecordsGone(p) == \A n \in DOMAIN Passes : plan[p][Passes[n]] = {}

\* The object pass begins when the record pass has nothing left and nothing
\* of it was refused.
BeginPurge(p) ==
  /\ pc[p] = "unlink"
  /\ RecordsGone(p)
  /\ Goto(p, "purge")
  /\ UNCHANGED <<lock, objects, records, drawn, locals, ghosts>>

\* Fault: the import events go before the object they name.
CurrentFirst(p) == plan[p].events

\* Import events of objects this purge has dealt with.
Current(p) == {e \in plan[p].events : e.digest \notin plan[p].objects}

\* Documents whose referents a deletion stopped now may have taken already.
Unfinished(p) ==
  (IF pc[p] = "unlink" THEN plan[p].associations ELSE {})
    \cup (IF pc[p] = "purge" THEN Ids(Current(p)) ELSE {})

UnlinkObject(p, d) ==
  /\ pc[p] = "purge" /\ Current(p) = {} /\ d \in plan[p].objects
  /\ objects' = objects \ {d}
  /\ plan' = [plan EXCEPT ![p].objects = @ \ {d}]
  /\ UNCHANGED <<lock, records, drawn, pc, todo, draft, ghosts>>

\* An object that will not go keeps its import events.
RefuseObject(p, d) ==
  /\ MayRefuse
  /\ pc[p] = "purge" /\ Current(p) = {} /\ d \in plan[p].objects
  /\ plan' = [plan EXCEPT ![p].objects = @ \ {d},
                          ![p].events = {e \in @ : e.digest # d}]
  /\ UNCHANGED <<lock, objects, records, drawn, pc, todo, draft, ghosts>>

UnlinkEvent(p, e) ==
  /\ pc[p] = "purge" /\ e \in Current(p)
  /\ events' = Without(events, e.id)
  /\ plan' = [plan EXCEPT ![p].events = @ \ {e}]
  /\ UNCHANGED <<lock, objects, cases, submissions, receipts, associations, derived,
                 drawn, pc, todo, draft, ghosts>>

\* The refusal is counted by unlink_records and dropped by its caller.
RefuseEvent(p, e) ==
  /\ MayRefuse
  /\ pc[p] = "purge" /\ e \in Current(p)
  /\ plan' = [plan EXCEPT ![p].events = @ \ {e}]
  /\ strandedRecords' = strandedRecords \cup {e.id}
  /\ UNCHANGED <<lock, objects, records, drawn, pc, todo, draft, strandedObjects>>

\* Fault: the purge ends with its last object.
EndAfterObjects(p) ==
  /\ pc[p] = "purge" /\ plan[p].objects = {}
  /\ plan' = [plan EXCEPT ![p] = NoPlan]
  /\ Goto(p, "done")
  /\ UNCHANGED <<lock, objects, records, drawn, todo, draft, ghosts>>

EndDeletion(p) ==
  /\ pc[p] = "purge" /\ plan[p].objects = {} /\ plan[p].events = {}
  /\ plan' = [plan EXCEPT ![p] = NoPlan]
  /\ Goto(p, "done")
  /\ UNCHANGED <<lock, objects, records, drawn, todo, draft, ghosts>>

Delete(p) ==
  \/ DeleteCase(p) \/ Probe(p)
  \/ \E id \in AssociationId : UnlinkAssociation(p, id)
  \/ \E id \in ReceiptId : UnlinkReceipt(p, id)
  \/ \E id \in SubmissionId : UnlinkSubmission(p, id)
  \/ \E id \in CaseId : UnlinkCase(p, id)
  \/ \E d \in Digest : UnlinkDerived(p, d) \/ UnlinkObject(p, d) \/ RefuseObject(p, d)
  \/ \E n \in DOMAIN Passes : RefuseUnlink(p, Passes[n])
  \/ BeginPurge(p)
  \/ \E e \in plan[p].events : UnlinkEvent(p, e) \/ RefuseEvent(p, e)
  \/ EndDeletion(p)
=============================================================================
