--------------------------- MODULE DeletionProofs ---------------------------
(***************************************************************************)
(* What commands may leave behind, for every number of processes,          *)
(* identifiers and contents: which references a deletion may break, and    *)
(* that nothing breaks another; that no statement which was withdrawn      *)
(* stands again, and none supersedes itself in a circle.                   *)
(*                                                                         *)
(* The argument has two parts.  A process's place in its command says      *)
(* which step brought it there and which steps can take it on (Arrivals,   *)
(* Departures), and each variable says who may change it (Changes).  And   *)
(* what a deletion planned stays a whole plan while it is carried out,     *)
(* as the other processes are outside every command.                       *)
(***************************************************************************)
EXTENDS ArchiveProofs

USE DEF Goto, Forget, DropLock, records, ghosts, locals

----------------------------------------------------------------------------
(* The inductive invariants *)

\* What an association about to be written supersedes is there, and a plan
\* takes the neighbours of a statement with it.
ChainHeld(p) ==
  /\ pc[p] = "write_association" => draft[p].supersedes \in {Nil} \cup Ids(associations)
  /\ pc[p] \in {"probe", "unlink"} =>
       \A a, b \in associations :
         Linked(a, b) /\ a.id \in plan[p].associations =>
           b.id \in plan[p].associations \cup strandedRecords

\* A statement supersedes one that is there, or is in a record pass, or was
\* left by one.
SuccessorsKept ==
  \A a \in associations :
    \/ a.supersedes \in {Nil} \cup Ids(associations)
    \/ a.id \in strandedRecords
    \/ \E p \in Proc : pc[p] = "unlink" /\ a.id \in plan[p].associations

SupersededDrawn == \A a \in associations : a.supersedes \in {Nil} \cup drawn

ChainInv ==
  /\ IdentityInv /\ NoCycle /\ SupersededDrawn /\ SuccessorsKept
  /\ \A p \in Proc : ChainHeld(p)

\* What a process stores, describes or purges is accounted for: a purge has
\* every event and every derived record of an object it is about to unlink.
ContentHeld(p) ==
  /\ pc[p] = "describe" => plan[p].objects \subseteq objects
  /\ pc[p] \in {"probe", "unlink"} => \A e \in plan[p].events : e.digest \in plan[p].objects
  /\ pc[p] = "purge" => \A e \in Current(p) : e.digest \notin objects
  /\ pc[p] \in {"probe", "unlink", "purge"} =>
       /\ plan[p].events \subseteq events
       /\ "import_event" \notin Unlistable =>
            \A e \in events : e.digest \in plan[p].objects => e \in plan[p].events
       /\ "derived" \notin Unlistable =>
            derived \cap plan[p].objects \subseteq plan[p].derived

\* An import event's object is stored, or in an object pass, or was left by one.
EventsKept ==
  \A e \in events :
    \/ e.digest \in objects
    \/ e.id \in strandedRecords
    \/ \E p \in Proc : pc[p] = "purge" /\ e.id \in Ids(Current(p))

ContentInv ==
  /\ IdentityInv /\ ObjectsRecorded
  /\ "import_event" \notin Unlistable => EventsKept
  /\ "derived" \notin Unlistable => DerivedDescribesStored
  /\ \A p \in Proc : ContentHeld(p)

----------------------------------------------------------------------------
(* Supersession: what chains and plans are made of *)

\* A record that supersedes nothing new closes no circle.
LEMMA NoCycleAdd ==
  ASSUME NEW docs, NEW new, NEW known, ~HoldsCycle(docs),
         \A a \in docs \cup {new} : a.supersedes \in known, new.id \notin known
  PROVE  ~HoldsCycle(docs \cup {new})
<1> SUFFICES ASSUME NEW S \in SUBSET (docs \cup {new}), S # {},
                    \A a \in S : \E b \in S : Supersedes(a, b)
             PROVE  FALSE
  BY DEF HoldsCycle
<1>1. \A a \in S : \E b \in S \ {new} : Supersedes(a, b)
  BY DEF Supersedes
<1> DEFINE T == S \ {new}
<1>2. T \in (SUBSET docs) \ {{}} /\ \A a \in T : \E b \in T : Supersedes(a, b)
  <2>1. PICK a \in S : TRUE
    OBVIOUS
  <2>2. T # {}
    BY <1>1, <2>1
  <2>3. T \subseteq docs
    OBVIOUS
  <2> QED BY <1>1, <2>2, <2>3
<1> HIDE DEF T
<1>3. HoldsCycle(docs)
  BY <1>2, Zenon DEF HoldsCycle
<1> QED BY <1>3

\* Two linked associations are of one chain.
LEMMA LinkedChains ==
  ASSUME NEW docs, NEW a \in docs, NEW b \in docs, Linked(a, b)
  PROVE  Chain(docs, a) = Chain(docs, b)
<1>1. \A S \in SUBSET docs : ChainClosed(docs, S) => (a \in S <=> b \in S)
  BY DEF ChainClosed, Linked
<1>2. ASSUME NEW x \in docs
      PROVE  (\A S \in SUBSET docs : a \in S /\ ChainClosed(docs, S) => x \in S)
               <=> (\A S \in SUBSET docs : b \in S /\ ChainClosed(docs, S) => x \in S)
  BY <1>1
<1>3. ASSUME NEW x PROVE x \in Chain(docs, a) <=> x \in Chain(docs, b)
  BY <1>2, Zenon DEF Chain
<1> QED BY <1>3, Zenon

\* A chain goes whole or stays whole.
LEMMA DoomedTogether ==
  ASSUME NEW docs, NEW going, NEW a \in Doomed(docs, going), NEW b \in docs, Linked(a, b)
  PROVE  b \in Doomed(docs, going)
<1>1. a \in docs
  BY DEF Doomed
<1>2. Chain(docs, a) = Chain(docs, b)
  BY <1>1, LinkedChains
<1> QED BY <1>2 DEF Doomed, Departing, Asserted

\* A record pass takes no statement but those of its plan, and each of those
\* is taken, or still to be taken, or left for good.
LEMMA RecordPassTakes ==
  ASSUME LockInv, NEW p \in Proc, RecordPass(p)
  PROVE  /\ pc[p] = "unlink" /\ pc'[p] = "unlink"
         /\ associations' \subseteq associations
         /\ plan'[p].associations \subseteq plan[p].associations
         /\ \A id \in plan[p].associations :
              \/ id \in plan'[p].associations \cup strandedRecords'
              \/ id \notin Ids(associations')
         /\ \A a \in associations : a.id \notin plan[p].associations => a \in associations'
<1>0. /\ pc \in [Proc -> Stages] /\ plan \in [Proc -> Plan]
  BY DEF LockInv, TypeInv, TypeOK
<1>1. ASSUME NEW id \in AssociationId, UnlinkAssociation(p, id)
      PROVE  /\ pc[p] = "unlink" /\ pc'[p] = "unlink"
             /\ associations' = Without(associations, id)
             /\ plan'[p].associations = plan[p].associations \ {id}
             /\ id \in plan[p].associations
  BY <1>0, <1>1 DEF UnlinkAssociation, InPass, Plan
<1>2. CASE \/ \E id \in ReceiptId : UnlinkReceipt(p, id)
           \/ \E id \in SubmissionId : UnlinkSubmission(p, id)
           \/ \E id \in CaseId : UnlinkCase(p, id)
           \/ \E d \in Digest : UnlinkDerived(p, d)
  <2>1. /\ pc[p] = "unlink" /\ pc' = pc
        /\ associations' = associations
    BY <1>2 DEF UnlinkReceipt, UnlinkSubmission, UnlinkCase, UnlinkDerived, InPass
  <2>2. plan'[p].associations = plan[p].associations
    BY <1>0, <1>2 DEF UnlinkReceipt, UnlinkSubmission, UnlinkCase, UnlinkDerived, Plan
  <2> QED BY <2>1, <2>2
<1>3. ASSUME NEW n \in DOMAIN Passes, RefuseUnlink(p, Passes[n])
      PROVE  /\ pc[p] = "unlink" /\ pc'[p] = "unlink"
             /\ associations' = associations
             /\ plan'[p].associations \subseteq plan[p].associations
             /\ plan[p].associations \subseteq plan'[p].associations \cup strandedRecords'
  <2> DEFINE kind == Passes[n]
  <2>1. kind \in {"associations", "receipts", "submissions", "cases", "derived"}
    BY DEF Passes
  <2>2. PICK id \in plan[p][kind] :
          /\ plan' = [plan EXCEPT ![p] = [NoPlan EXCEPT ![kind] = plan[p][kind] \ {id}]]
          /\ strandedRecords' =
               strandedRecords \cup IF kind = "associations" THEN {id} ELSE {}
    BY <1>3 DEF RefuseUnlink
  <2>3. kind # "associations" => plan[p].associations = {}
    BY <1>3, <2>1, PassOrder DEF RefuseUnlink
  <2>4. plan'[p].associations
          = IF kind = "associations" THEN plan[p].associations \ {id} ELSE {}
    BY <1>0, <2>1, <2>2 DEF NoPlan
  <2>5. /\ pc[p] = "unlink" /\ pc' = pc /\ associations' = associations
    BY <1>3 DEF RefuseUnlink, InPass
  <2> HIDE DEF kind
  <2> QED BY <2>2, <2>3, <2>4, <2>5
<1>4. CASE \E id \in AssociationId : UnlinkAssociation(p, id)
  <2>1. PICK id \in AssociationId : UnlinkAssociation(p, id)
    BY <1>4
  <2> QED BY <1>1, <2>1, IdsWithout
<1>5. CASE \E n \in DOMAIN Passes : RefuseUnlink(p, Passes[n])
  BY <1>3, <1>5
<1> QED BY <1>2, <1>4, <1>5 DEF RecordPass

\* What case delete, association create and association retire read gives a
\* chain that holds together.
LEMMA ChainFound ==
  ASSUME IdentityInv, NEW p \in Proc,
         DeleteCase(p) \/ CreateAssociation(p) \/ RetireAssociation(p)
  PROVE  ChainHeld(p)'
<1>0. TypeInv /\ pc \in [Proc -> Stages] /\ draft \in [Proc -> Drafts]
  BY DEF IdentityInv, LockInv, TypeInv, TypeOK
<1>1. CASE DeleteCase(p)
  <2>1. pc'[p] = "probe" /\ UNCHANGED <<associations, strandedRecords>>
    BY <1>0, <1>1, PlanFound, Zenon
  <2>2. PICK c \in Ids(cases),
             subs \in Listings("submission", submissions),
             recs \in Listings("receipt", receipts),
             assocs \in Listings("association", associations),
             evs \in Listings("import_event", events),
             filed \in Listings("derived", derived) :
          Planned(p, c, subs, recs, assocs, evs, filed)
    BY <1>0, <1>1, PlanFound, Zenon
  <2>3. PICK going : plan'[p].associations = Ids(Doomed(assocs, going))
    BY <2>2, Zenon DEF Planned
  <2>4. assocs \subseteq associations /\ (assocs # {} => assocs = associations)
    BY DEF Listings
  <2>5. ASSUME NEW a \in associations, NEW b \in associations, Linked(a, b),
               a.id \in plan'[p].associations
        PROVE  b.id \in plan'[p].associations
    <3>1. PICK d \in Doomed(assocs, going) : d.id = a.id
      BY <2>3, <2>5 DEF Ids
    <3>2. d \in assocs
      BY DEF Doomed
    <3>3. d = a
      BY <2>4, <3>1, <3>2 DEF IdentityInv, IdsUnique, UniqueIds
    <3>4. b \in Doomed(assocs, going)
      BY <2>4, <2>5, <3>2, <3>3, DoomedTogether
    <3> QED BY <2>3, <3>4 DEF Ids
  <2> QED BY <2>1, <2>5 DEF ChainHeld
<1>2. CASE CreateAssociation(p)
  <2>1. /\ draft'[p].supersedes \in {Nil} \cup Ids(associations)
        /\ pc'[p] = "write_association" /\ UNCHANGED associations
    BY <1>0, <1>2 DEF CreateAssociation, Ids
  <2> QED BY <2>1 DEF ChainHeld
<1>3. CASE RetireAssociation(p)
  <2>1. /\ draft'[p].supersedes \in {Nil} \cup Ids(associations)
        /\ pc'[p] = "write_association" /\ UNCHANGED associations
    BY <1>0, <1>3 DEF RetireAssociation, Ids
  <2> QED BY <2>1 DEF ChainHeld
<1> QED BY <1>1, <1>2, <1>3

----------------------------------------------------------------------------
(* Supersession: every step *)

\* A step keeps the neighbours of what a process relies on.
LEMMA ChainHeldKept ==
  ASSUME ChainInv, NEW p \in Proc, Step(p) \/ Crash(p)
  PROVE  ChainHeld(p)'
<1>0. IdentityInv /\ LockInv /\ ChainHeld(p)
  BY DEF ChainInv, IdentityInv
<1>1. Arrivals(p) /\ Changes(p)
  BY <1>0, Moves
<1>2. CASE pc'[p] \notin {"write_association", "probe", "unlink"}
  BY <1>2 DEF ChainHeld
<1>3. CASE pc'[p] \in {"write_association", "probe"}
  BY <1>0, <1>1, <1>3, ChainFound DEF Arrivals
<1>4. CASE pc'[p] = "unlink"
  <2>1. CASE Probe(p)
    <3>1. p \in DOMAIN pc
      BY <1>0 DEF LockInv, TypeInv, TypeOK
    <3>2. pc[p] = "probe" /\ UNCHANGED <<plan, associations, strandedRecords>>
      BY <1>4, <2>1, <3>1 DEF Probe
    <3> QED BY <1>0, <1>4, <3>2 DEF ChainHeld
  <2>2. CASE RecordPass(p)
    <3> SUFFICES ASSUME NEW a \in associations', NEW b \in associations', Linked(a, b),
                        a.id \in plan'[p].associations
                 PROVE  b.id \in plan'[p].associations \cup strandedRecords'
      BY <1>4 DEF ChainHeld
    <3>1. /\ pc[p] = "unlink" /\ a \in associations /\ b \in associations
          /\ a.id \in plan[p].associations
      BY <1>0, <2>2, RecordPassTakes
    <3>2. b.id \in plan[p].associations \cup strandedRecords
      BY <1>0, <3>1 DEF ChainHeld
    <3>3. b.id \in Ids(associations')
      BY DEF Ids
    <3>4. strandedRecords \subseteq strandedRecords'
      BY <1>1 DEF Changes
    <3> QED BY <1>0, <2>2, <3>2, <3>3, <3>4, RecordPassTakes
  <2> QED BY <1>1, <1>4, <2>1, <2>2 DEF Arrivals
<1> QED BY <1>2, <1>3, <1>4

\* A statement whose predecessor goes is in the same pass, or was left by it.
LEMMA SuccessorsKeptByStep ==
  ASSUME ChainInv, NEW p \in Proc, Step(p) \/ Crash(p)
  PROVE  SuccessorsKept'
<1>0. IdentityInv /\ LockInv /\ ChainHeld(p) /\ SuccessorsKept
  BY DEF ChainInv, IdentityInv
<1>1. /\ Departures(p) /\ Changes(p)
      /\ \A q \in Proc \ {p} : pc[q] = "idle" /\ pc'[q] = "idle"
  BY <1>0, Moves
<1>2. strandedRecords \subseteq strandedRecords'
  BY <1>1 DEF Changes
<1> SUFFICES ASSUME NEW a \in associations', a.supersedes \notin {Nil} \cup Ids(associations')
             PROVE  \/ a.id \in strandedRecords'
                    \/ pc'[p] = "unlink" /\ a.id \in plan'[p].associations
  BY DEF SuccessorsKept
<1>3. CASE pc[p] = "unlink"
  <2>1. CASE RecordPass(p)
    <3>1. a \in associations
      BY <1>0, <2>1, RecordPassTakes
    <3>2. a.id \in plan[p].associations \cup strandedRecords
      <4>1. CASE a.supersedes \in Ids(associations)
        <5>1. PICK b \in associations : b.id = a.supersedes
          BY <4>1 DEF Ids
        <5>2. b \notin associations'
          BY <5>1 DEF Ids
        <5>3. b.id \in plan[p].associations
          BY <1>0, <2>1, <5>2, RecordPassTakes
        <5>4. Linked(b, a)
          BY <5>1 DEF Linked, Supersedes
        <5> QED BY <1>0, <1>3, <3>1, <5>3, <5>4 DEF ChainHeld
      <4>2. CASE a.supersedes \notin Ids(associations)
        <5>1. \/ a.id \in strandedRecords
              \/ \E q \in Proc : pc[q] = "unlink" /\ a.id \in plan[q].associations
          BY <1>0, <3>1, <4>2 DEF SuccessorsKept
        <5> QED BY <1>1, <5>1
      <4> QED BY <4>1, <4>2
    <3>3. a.id \in Ids(associations')
      BY DEF Ids
    <3> QED BY <1>0, <1>2, <2>1, <3>2, <3>3, RecordPassTakes
  <2>2. CASE BeginPurge(p) \/ Crash(p)
    <3>1. associations' = associations
      BY <2>2 DEF BeginPurge, Crash
    <3>2. \/ a.id \in strandedRecords
          \/ \E q \in Proc : pc[q] = "unlink" /\ a.id \in plan[q].associations
      BY <1>0, <3>1 DEF SuccessorsKept
    <3>3. BeginPurge(p) => plan[p].associations = {}
      BY GonePlan DEF BeginPurge
    <3>4. Crash(p) => plan[p].associations \subseteq strandedRecords'
      BY <1>3 DEF Crash, Unfinished
    <3> QED BY <1>1, <1>2, <2>2, <3>2, <3>3, <3>4
  <2> QED BY <1>1, <1>3, <2>1, <2>2 DEF Departures
<1>4. CASE pc[p] # "unlink"
  <2>1. /\ a \in associations \/ a.supersedes \in {Nil} \cup Ids(associations)
        /\ Ids(associations) \subseteq Ids(associations')
    <3>1. CASE WriteAssociation(p)
      <4> DEFINE new == [id |-> NewId(AssociationId), receipt |-> draft[p].receipt,
                         candidates |-> draft[p].candidates,
                         supersedes |-> draft[p].supersedes]
      <4>1. /\ associations' = associations \cup {new}
            /\ new.supersedes \in {Nil} \cup Ids(associations)
        BY <1>0, <3>1 DEF WriteAssociation, ChainHeld
      <4> HIDE DEF new
      <4> QED BY <4>1 DEF Ids
    <3>2. CASE associations' = associations
      BY <3>2
    <3>3. ~ \E id \in AssociationId : UnlinkAssociation(p, id)
      BY <1>4 DEF UnlinkAssociation, InPass
    <3> QED BY <1>1, <3>1, <3>2, <3>3 DEF Changes
  <2>2. a \in associations /\ a.supersedes \notin {Nil} \cup Ids(associations)
    BY <2>1
  <2>3. \/ a.id \in strandedRecords
        \/ \E q \in Proc : pc[q] = "unlink" /\ a.id \in plan[q].associations
    BY <1>0, <2>2 DEF SuccessorsKept
  <2> QED BY <1>1, <1>2, <1>4, <2>3
<1> QED BY <1>3, <1>4

\* No record supersedes one that was never written, and none itself in a circle.
LEMMA NoCycleByStep ==
  ASSUME ChainInv, NEW p \in Proc, Step(p) \/ Crash(p)
  PROVE  NoCycle' /\ SupersededDrawn'
<1>0. IdentityInv /\ LockInv /\ ChainHeld(p) /\ NoCycle /\ SupersededDrawn
  BY DEF ChainInv, IdentityInv
<1>1. Changes(p) /\ drawn \subseteq drawn'
  BY <1>0, Moves, DrawnGrows
<1>2. CASE WriteAssociation(p)
  <2> DEFINE new == [id |-> NewId(AssociationId), receipt |-> draft[p].receipt,
                     candidates |-> draft[p].candidates,
                     supersedes |-> draft[p].supersedes]
  <2>1. /\ associations' = associations \cup {new}
        /\ new.id \notin drawn /\ new.id \in AssociationId
        /\ new.supersedes \in {Nil} \cup Ids(associations)
    BY <1>0, <1>2, NewIdIsFresh DEF WriteAssociation, ChainHeld
  <2> HIDE DEF new
  <2>2. Ids(associations) \subseteq drawn
    BY <1>0 DEF IdentityInv, IdsUnique, UniqueIds
  <2>3. \A a \in associations \cup {new} : a.supersedes \in {Nil} \cup drawn
    BY <1>0, <2>1, <2>2 DEF SupersededDrawn
  <2>4. new.id \notin {Nil} \cup drawn
    BY <2>1, ConstantsAssumption
  <2>5. NoCycle'
    BY <1>0, <2>1, <2>3, <2>4, NoCycleAdd DEF NoCycle
  <2> QED BY <1>1, <2>1, <2>3, <2>5 DEF SupersededDrawn
<1>3. CASE associations' \subseteq associations
  <2>1. NoCycle'
    BY <1>0, <1>3 DEF NoCycle, HoldsCycle
  <2> QED BY <1>0, <1>1, <1>3, <2>1 DEF SupersededDrawn
<1>4. CASE \E id \in AssociationId : UnlinkAssociation(p, id)
  BY <1>3, <1>4 DEF UnlinkAssociation, Without
<1> QED BY <1>1, <1>2, <1>3, <1>4 DEF Changes

LEMMA StepChainInv == ChainInv /\ [Next]_vars => ChainInv'
<1> SUFFICES ASSUME ChainInv, [Next]_vars PROVE ChainInv'
  OBVIOUS
<1>1. IdentityInv'
  BY StepIdentityInv DEF ChainInv
<1>2. ASSUME NEW p \in Proc, Step(p) \/ Crash(p) PROVE ChainInv'
  <2>1. \A q \in Proc : ChainHeld(q)'
    <3>1. \A q \in Proc \ {p} : pc'[q] = "idle"
      BY <1>2, Moves DEF ChainInv, IdentityInv
    <3> QED BY <1>2, <3>1, ChainHeldKept DEF ChainHeld
  <2> QED BY <1>1, <1>2, <2>1, SuccessorsKeptByStep, NoCycleByStep DEF ChainInv
<1>3. CASE RemoveAbandonedLock \/ UNCHANGED vars
  <2>1. UNCHANGED <<associations, drawn, pc, plan, draft, strandedRecords>>
    BY <1>3 DEF RemoveAbandonedLock, vars
  <2> QED BY <1>1, <2>1 DEF ChainInv, NoCycle, SupersededDrawn, SuccessorsKept, ChainHeld, Ids
<1> QED BY <1>2, <1>3 DEF Next

LEMMA InitChainInv == Init => ChainInv
<1> SUFFICES ASSUME Init PROVE ChainInv
  OBVIOUS
<1>1. NoCycle
  BY DEF Init, NoCycle, HoldsCycle
<1>2. SupersededDrawn /\ SuccessorsKept /\ \A p \in Proc : ChainHeld(p)
  BY DEF Init, SupersededDrawn, SuccessorsKept, ChainHeld
<1> QED BY <1>1, <1>2, InitIdentityInv DEF ChainInv

\* refuse_cycle's comment: no command writes a supersedes cycle.
THEOREM NeverCycle == Spec => []NoCycle
<1>1. ChainInv => NoCycle
  BY DEF ChainInv
<1> QED BY <1>1, InitChainInv, StepChainInv, PTL DEF Spec

\* case delete, killed or refused: a statement that supersedes a missing one
\* is in the record pass that took it, or was left by that pass.
THEOREM SupersessionAlwaysIntact == Spec => []SupersessionIntact
<1>1. ChainInv => SupersessionIntact
  BY DEF ChainInv, SuccessorsKept, SupersessionIntact, InFlight, Unfinished
<1> QED BY <1>1, InitChainInv, StepChainInv, PTL DEF Spec

\* case delete: a statement the user replaced or withdrew is not the latest
\* word again because its successor went, except while its own chain goes.
THEOREM WithdrawnForGood == Spec => WithdrawnStaysWithdrawn
<1> DEFINE Stays == \A a \in associations \cap associations' :
             Superseded(associations, a) =>
               Superseded(associations', a) \/ a.id \in InFlight \cup strandedRecords
<1>1. ASSUME ChainInv, NEW p \in Proc, Step(p) \/ Crash(p) PROVE Stays
  <2>0. LockInv /\ ChainHeld(p)
    BY <1>1 DEF ChainInv, IdentityInv
  <2> SUFFICES ASSUME NEW a \in associations, NEW b \in associations, b.supersedes = a.id,
                      b \notin associations'
               PROVE  a.id \in InFlight \cup strandedRecords
    BY DEF Superseded
  <2>1. \E id \in AssociationId : UnlinkAssociation(p, id)
    <3>1. Changes(p)
      BY <1>1, <2>0, Moves
    <3> QED BY <3>1 DEF Changes, WriteAssociation
  <2>2. RecordPass(p)
    BY <2>1 DEF RecordPass
  <2>3. pc[p] = "unlink" /\ b.id \in plan[p].associations
    BY <2>0, <2>2, RecordPassTakes
  <2>4. a.id \in plan[p].associations \cup strandedRecords
    BY <2>0, <2>3 DEF ChainHeld, Linked, Supersedes
  <2> QED BY <2>3, <2>4 DEF InFlight, Unfinished
<1>2. ASSUME ChainInv, RemoveAbandonedLock PROVE Stays
  BY <1>2 DEF RemoveAbandonedLock, Superseded
<1>3. ChainInv /\ [Next]_vars => Stays \/ UNCHANGED vars
  BY <1>1, <1>2 DEF Next
<1> HIDE DEF Stays
<1>4. ChainInv /\ [Next]_vars => [Stays]_vars
  BY <1>3
<1> QED BY <1>4, InitChainInv, StepChainInv, PTL DEF Spec, WithdrawnStaysWithdrawn, Stays

----------------------------------------------------------------------------
(* Contents: events, objects and derived records *)

\* A record pass touches neither objects nor events, keeps what it plans to do
\* with them or gives it up, and unlinks no derived record but its own.
LEMMA RecordPassSpares ==
  ASSUME LockInv, NEW p \in Proc, RecordPass(p)
  PROVE  /\ pc[p] = "unlink" /\ pc'[p] = "unlink"
         /\ UNCHANGED <<objects, events>> /\ derived' \subseteq derived
         /\ \/ /\ plan'[p].objects = plan[p].objects /\ plan'[p].events = plan[p].events
               /\ derived' \cap plan[p].derived \subseteq plan'[p].derived
            \/ plan'[p].objects = {} /\ plan'[p].events = {}
<1>0. /\ pc \in [Proc -> Stages] /\ plan \in [Proc -> Plan]
  BY DEF LockInv, TypeInv, TypeOK
<1>1. CASE \/ \E id \in AssociationId : UnlinkAssociation(p, id)
           \/ \E id \in ReceiptId : UnlinkReceipt(p, id)
           \/ \E id \in SubmissionId : UnlinkSubmission(p, id)
           \/ \E id \in CaseId : UnlinkCase(p, id)
  <2>1. /\ pc[p] = "unlink" /\ pc' = pc /\ UNCHANGED <<objects, events, derived>>
    BY <1>1 DEF UnlinkAssociation, UnlinkReceipt, UnlinkSubmission, UnlinkCase, InPass
  <2>2. /\ plan'[p].objects = plan[p].objects /\ plan'[p].events = plan[p].events
        /\ plan'[p].derived = plan[p].derived
    BY <1>0, <1>1 DEF UnlinkAssociation, UnlinkReceipt, UnlinkSubmission, UnlinkCase, Plan
  <2> QED BY <2>1, <2>2
<1>2. CASE \E d \in Digest : UnlinkDerived(p, d)
  <2>1. PICK d \in Digest : UnlinkDerived(p, d)
    BY <1>2
  <2>2. /\ pc[p] = "unlink" /\ pc' = pc /\ UNCHANGED <<objects, events>>
        /\ derived' = derived \ {d}
    BY <2>1 DEF UnlinkDerived, InPass
  <2>3. /\ plan'[p].objects = plan[p].objects /\ plan'[p].events = plan[p].events
        /\ plan'[p].derived = plan[p].derived \ {d}
    BY <1>0, <2>1 DEF UnlinkDerived, Plan
  <2> QED BY <2>2, <2>3
<1>3. ASSUME NEW n \in DOMAIN Passes, RefuseUnlink(p, Passes[n])
      PROVE  /\ pc[p] = "unlink" /\ pc'[p] = "unlink"
             /\ UNCHANGED <<objects, events, derived>>
             /\ plan'[p].objects = {} /\ plan'[p].events = {}
  <2> DEFINE kind == Passes[n]
  <2>1. kind \in {"associations", "receipts", "submissions", "cases", "derived"}
    BY DEF Passes
  <2>2. PICK id \in plan[p][kind] :
          plan' = [plan EXCEPT ![p] = [NoPlan EXCEPT ![kind] = plan[p][kind] \ {id}]]
    BY <1>3 DEF RefuseUnlink
  <2>3. /\ pc[p] = "unlink" /\ pc' = pc /\ UNCHANGED <<objects, events, derived>>
    BY <1>3 DEF RefuseUnlink, InPass
  <2>4. plan'[p].objects = {} /\ plan'[p].events = {}
    BY <1>0, <2>1, <2>2 DEF NoPlan
  <2> QED BY <2>3, <2>4
<1> QED BY <1>1, <1>2, <1>3 DEF RecordPass

\* What a process lists or plans gives a place that holds together.
LEMMA ContentFound ==
  ASSUME ContentInv, NEW p \in Proc,
         \/ Derive(p) \/ (\E d \in Digest : Describe(p, d))
         \/ DeleteCase(p)
  PROVE  ContentHeld(p)'
<1>0. TypeInv /\ pc \in [Proc -> Stages] /\ plan \in [Proc -> Plan]
  BY DEF ContentInv, IdentityInv, LockInv, TypeInv, TypeOK
<1>1. CASE Derive(p)
  <2>1. PICK filed \in Listings("derived", derived) :
          plan' = [plan EXCEPT ![p] = [NoPlan EXCEPT !.objects = objects,
                                                     !.derived = filed \ objects]]
    BY <1>1, Zenon DEF Derive
  <2>2. plan'[p].objects = objects
    BY <1>0, <2>1 DEF NoPlan
  <2>3. pc' = [pc EXCEPT ![p] = "describe"] /\ objects' = objects
    BY <1>1, Zenon DEF Derive
  <2> QED BY <1>0, <2>2, <2>3 DEF ContentHeld
<1>2. CASE \E d \in Digest : Describe(p, d)
  <2>1. /\ pc[p] = "describe" /\ pc' = pc /\ objects' = objects
        /\ plan'[p].objects \subseteq plan[p].objects
    BY <1>0, <1>2 DEF Describe, Plan
  <2>2. ContentHeld(p)
    BY DEF ContentInv
  <2> QED BY <2>1, <2>2 DEF ContentHeld
<1>3. CASE DeleteCase(p)
  <2>1. pc'[p] = "probe" /\ UNCHANGED <<events, derived>>
    BY <1>0, <1>3, PlanFound, Zenon
  <2>2. PICK c \in Ids(cases),
             subs \in Listings("submission", submissions),
             recs \in Listings("receipt", receipts),
             assocs \in Listings("association", associations),
             evs \in Listings("import_event", events),
             filed \in Listings("derived", derived) :
          Planned(p, c, subs, recs, assocs, evs, filed)
    BY <1>0, <1>3, PlanFound, Zenon
  <2>3. /\ plan'[p].events = {e \in evs : e.digest \in plan'[p].objects}
        /\ plan'[p].derived = filed \cap plan'[p].objects
    BY <2>2, Zenon DEF Planned
  <2> QED BY <2>1, <2>3 DEF ContentHeld, Listings
<1> QED BY <1>1, <1>2, <1>3

\* A record pass keeps the plan for the objects, or gives it up.
LEMMA RecordPassHolds ==
  ASSUME ContentInv, NEW p \in Proc, RecordPass(p)
  PROVE  ContentHeld(p)'
<1>1. LockInv /\ ContentHeld(p)
  BY DEF ContentInv, IdentityInv
<1>2. /\ pc[p] = "unlink" /\ pc'[p] = "unlink"
      /\ UNCHANGED <<objects, events>> /\ derived' \subseteq derived
      /\ \/ /\ plan'[p].objects = plan[p].objects /\ plan'[p].events = plan[p].events
            /\ derived' \cap plan[p].derived \subseteq plan'[p].derived
         \/ plan'[p].objects = {} /\ plan'[p].events = {}
  BY <1>1, RecordPassSpares
<1> QED BY <1>1, <1>2 DEF ContentHeld

\* An object pass keeps the events of the objects it has still to unlink.
LEMMA ObjectPassHolds ==
  ASSUME ContentInv, NEW p \in Proc, ObjectPass(p)
  PROVE  ContentHeld(p)'
<1>1. LockInv /\ ContentHeld(p) /\ IdsUnique
  BY DEF ContentInv, IdentityInv
<1>2. /\ pc[p] = "purge" /\ pc'[p] = "purge" /\ UNCHANGED derived
      /\ plan'[p].associations = plan[p].associations
      /\ plan'[p].receipts = plan[p].receipts
      /\ plan'[p].submissions = plan[p].submissions
      /\ plan'[p].cases = plan[p].cases /\ plan'[p].derived = plan[p].derived
  BY <1>1, ObjectPassTakes
<1>3. /\ plan[p].events \subseteq events
      /\ \A e \in Current(p) : e.digest \notin objects
      /\ "import_event" \notin Unlistable =>
           \A e \in events : e.digest \in plan[p].objects => e \in plan[p].events
      /\ "derived" \notin Unlistable => derived \cap plan[p].objects \subseteq plan[p].derived
  BY <1>1, <1>2 DEF ContentHeld
<1> SUFFICES
      /\ plan'[p].events \subseteq events' /\ plan'[p].objects \subseteq plan[p].objects
      /\ \A e \in plan'[p].events : e.digest \notin plan'[p].objects => e.digest \notin objects'
      /\ "import_event" \notin Unlistable =>
           \A e \in events' : e.digest \in plan'[p].objects => e \in plan'[p].events
  <2>1. "derived" \notin Unlistable => derived' \cap plan'[p].objects \subseteq plan'[p].derived
    BY <1>2, <1>3
  <2> QED BY <1>2, <2>1 DEF ContentHeld, Current
<1>4. CASE \E d \in plan[p].objects :
             /\ Current(p) = {} /\ plan'[p].objects = plan[p].objects \ {d}
             /\ UNCHANGED <<events, strandedRecords>>
             /\ \/ objects' = objects \ {d} /\ plan'[p].events = plan[p].events
                \/ /\ objects' = objects
                   /\ plan'[p].events = {e \in plan[p].events : e.digest # d}
  BY <1>3, <1>4 DEF Current
<1>5. CASE \E e \in Current(p) :
             /\ UNCHANGED objects /\ plan'[p].objects = plan[p].objects
             /\ plan'[p].events = plan[p].events \ {e}
             /\ \/ events' = Without(events, e.id) /\ UNCHANGED strandedRecords
                \/ events' = events /\ strandedRecords' = strandedRecords \cup {e.id}
  <2>1. PICK e \in Current(p) :
             /\ UNCHANGED objects /\ plan'[p].objects = plan[p].objects
             /\ plan'[p].events = plan[p].events \ {e}
             /\ events' = Without(events, e.id) \/ events' = events
    BY <1>5
  <2>2. e \in plan[p].events /\ e \in events /\ e.digest \notin plan[p].objects
    BY <1>3, <2>1 DEF Current
  <2>3. \A x \in events : x # e => x.id # e.id
    BY <1>1, <2>2 DEF IdsUnique, UniqueIds
  <2>4. events' \subseteq events /\ \A x \in events : x # e => x \in events'
    BY <2>1, <2>3 DEF Without
  <2> QED BY <1>3, <2>1, <2>2, <2>4 DEF Current
<1> QED BY <1>1, <1>4, <1>5, ObjectPassTakes

\* A step keeps what a process relies on of objects and their documents.
LEMMA ContentHeldKept ==
  ASSUME ContentInv, NEW p \in Proc, Step(p) \/ Crash(p)
  PROVE  ContentHeld(p)'
<1>0. LockInv /\ ContentHeld(p) /\ p \in DOMAIN pc
  BY DEF ContentInv, IdentityInv, LockInv, TypeInv, TypeOK
<1>1. Arrivals(p)
  BY <1>0, Moves
<1>2. CASE pc'[p] \in {"describe", "probe"}
  BY <1>1, <1>2, ContentFound DEF Arrivals
<1>3. CASE pc'[p] = "unlink"
  <2>1. CASE Probe(p)
    <3>1. pc[p] = "probe" /\ UNCHANGED <<plan, objects, events, derived>>
      BY <1>0, <1>3, <2>1 DEF Probe
    <3> QED BY <1>0, <1>3, <3>1 DEF ContentHeld
  <2> QED BY <1>1, <1>3, <2>1, RecordPassHolds DEF Arrivals
<1>4. CASE pc'[p] = "purge"
  <2>1. CASE BeginPurge(p)
    <3>1. /\ pc[p] = "unlink" /\ UNCHANGED <<plan, objects, events, derived>>
      BY <2>1 DEF BeginPurge
    <3>2. Current(p)' = {}
      BY <1>0, <3>1 DEF Current, ContentHeld
    <3> QED BY <1>0, <1>4, <3>1, <3>2 DEF ContentHeld
  <2> QED BY <1>1, <1>4, <2>1, ObjectPassHolds DEF Arrivals
<1>5. CASE pc'[p] \notin {"describe", "probe", "unlink", "purge"}
  BY <1>5 DEF ContentHeld
<1> QED BY <1>2, <1>3, <1>4, <1>5

\* A step leaves an object with an event, or accounts for it.
LEMMA ObjectsRecordedByStep ==
  ASSUME ContentInv, NEW p \in Proc, Step(p) \/ Crash(p)
  PROVE  ObjectsRecorded'
<1>0. LockInv /\ ContentHeld(p) /\ IdsUnique /\ ObjectsRecorded
  BY DEF ContentInv, IdentityInv
<1>1. /\ Departures(p) /\ Changes(p)
      /\ \A q \in Proc \ {p} : pc[q] = "idle" /\ pc'[q] = "idle"
  BY <1>0, Moves
<1>2. strandedObjects \subseteq strandedObjects'
  BY <1>1 DEF Changes
<1> SUFFICES ASSUME NEW d \in objects', d \notin strandedObjects'
             PROVE  (\E e \in events' : e.digest = d) \/ d \in Unrecorded(p)'
  BY DEF ObjectsRecorded
<1>3. \A q \in Proc : d \in Unrecorded(q) => q = p /\ pc[p] = "event" /\ d = Head(todo[p])
  BY <1>1 DEF Unrecorded
<1>4. d \in objects => \/ \E e \in events : e.digest = d
                       \/ d \in Unrecorded(p) /\ pc[p] = "event" /\ d = Head(todo[p])
  BY <1>0, <1>2, <1>3 DEF ObjectsRecorded
<1>5. CASE StoreObject(p)
  <2>1. /\ objects' = objects \cup {Head(todo[p])} /\ pc'[p] = "event" /\ pc[p] = "store"
        /\ UNCHANGED <<events, todo>>
    BY <1>0, <1>5 DEF StoreObject, LockInv, TypeInv, TypeOK
  <2> QED BY <1>4, <2>1 DEF Unrecorded
<1>6. CASE WriteEvent(p)
  <2> DEFINE new == [id |-> NewId(EventId), digest |-> Head(todo[p])]
  <2>1. events' = events \cup {new} /\ objects' = objects
    BY <1>6 DEF WriteEvent
  <2>2. new.digest = Head(todo[p])
    OBVIOUS
  <2> HIDE DEF new
  <2> QED BY <1>4, <2>1, <2>2
<1>7. CASE Refuse(p) \/ Crash(p)
  <2>1. UNCHANGED <<objects, events>> /\ Unrecorded(p) \subseteq strandedObjects'
    BY <1>7 DEF Refuse, Crash
  <2> QED BY <1>4, <2>1
<1>8. CASE pc[p] # "event" /\ ~StoreObject(p)
  <2>1. d \in objects
    <3>1. objects' # objects => \E x \in Digest : UnlinkObject(p, x)
      BY <1>1, <1>8 DEF Changes
    <3>2. (\E x \in Digest : UnlinkObject(p, x)) => objects' \subseteq objects
      BY DEF UnlinkObject
    <3> QED BY <3>1, <3>2
  <2>2. PICK e \in events : e.digest = d
    BY <1>4, <1>8, <2>1
  <2>3. CASE \E x \in plan[p].events : UnlinkEvent(p, x)
    <3>1. PICK x \in plan[p].events : UnlinkEvent(p, x)
      BY <2>3
    <3>2. pc[p] = "purge" /\ x \in Current(p) /\ events' = Without(events, x.id)
      BY <3>1 DEF UnlinkEvent
    <3>3. x \in events /\ x.digest \notin objects
      BY <1>0, <3>2 DEF ContentHeld
    <3>4. e.id # x.id
      BY <1>0, <2>1, <2>2, <3>3 DEF IdsUnique, UniqueIds
    <3> QED BY <2>2, <3>2, <3>4 DEF Without
  <2>4. CASE events' = events
    BY <2>2, <2>4
  <2>5. ~WriteEvent(p)
    BY <1>8 DEF WriteEvent
  <2> QED BY <1>1, <2>3, <2>4, <2>5 DEF Changes
<1> QED BY <1>1, <1>5, <1>6, <1>7, <1>8 DEF Departures

\* With every import event listed, a step leaves an event's object stored,
\* or the event in the object pass that took it, or left by that pass.
LEMMA EventsKeptByStep ==
  ASSUME ContentInv, "import_event" \notin Unlistable, NEW p \in Proc, Step(p) \/ Crash(p)
  PROVE  EventsKept'
<1>0. LockInv /\ ContentHeld(p) /\ IdsUnique /\ EventsKept
  BY DEF ContentInv, IdentityInv
<1>1. /\ Departures(p) /\ Changes(p)
      /\ \A q \in Proc \ {p} : pc[q] = "idle" /\ pc'[q] = "idle"
  BY <1>0, Moves
<1>2. strandedRecords \subseteq strandedRecords'
  BY <1>1 DEF Changes
<1> SUFFICES ASSUME NEW e \in events', e.digest \notin objects', e.id \notin strandedRecords'
             PROVE  pc'[p] = "purge" /\ e.id \in Ids(Current(p)')
  BY DEF EventsKept
<1>3. e \in events /\ e.digest \notin objects => pc[p] = "purge" /\ e.id \in Ids(Current(p))
  BY <1>0, <1>1, <1>2 DEF EventsKept
<1>4. CASE ObjectPass(p)
  <2>1. pc[p] = "purge" /\ pc'[p] = "purge"
    BY <1>0, <1>4, ObjectPassTakes
  <2>2. /\ plan[p].events \subseteq events
        /\ \A x \in events : x.digest \in plan[p].objects => x \in plan[p].events
    BY <1>0, <2>1 DEF ContentHeld
  <2>3. CASE \E d \in plan[p].objects :
               /\ Current(p) = {} /\ plan'[p].objects = plan[p].objects \ {d}
               /\ UNCHANGED events
               /\ \/ objects' = objects \ {d} /\ plan'[p].events = plan[p].events
                  \/ objects' = objects
    <3>1. e \in events /\ Ids(Current(p)) = {}
      BY <2>3 DEF Ids
    <3>2. /\ e.digest \in plan[p].objects /\ e.digest \notin plan'[p].objects
          /\ plan'[p].events = plan[p].events
      BY <1>3, <2>3, <3>1
    <3> QED BY <2>1, <2>2, <3>1, <3>2 DEF Current, Ids
  <2>4. CASE \E x \in Current(p) :
               /\ UNCHANGED objects /\ plan'[p].objects = plan[p].objects
               /\ plan'[p].events = plan[p].events \ {x}
               /\ \/ events' = Without(events, x.id)
                  \/ events' = events /\ strandedRecords' = strandedRecords \cup {x.id}
    <3>1. PICK x \in Current(p) :
               /\ UNCHANGED objects /\ plan'[p].objects = plan[p].objects
               /\ plan'[p].events = plan[p].events \ {x}
               /\ \/ events' = Without(events, x.id)
                  \/ events' = events /\ strandedRecords' = strandedRecords \cup {x.id}
      BY <2>4
    <3>2. e \in events /\ e.id # x.id
      BY <3>1 DEF Without
    <3>3. PICK y \in Current(p) : y.id = e.id
      BY <1>3, <3>1, <3>2 DEF Ids
    <3>4. y # x
      BY <3>2, <3>3
    <3>5. y \in Current(p)'
      BY <3>1, <3>3, <3>4 DEF Current
    <3> QED BY <2>1, <3>3, <3>5 DEF Ids
  <2>5. \/ \E d \in plan[p].objects :
               /\ Current(p) = {} /\ plan'[p].objects = plan[p].objects \ {d}
               /\ UNCHANGED events
               /\ \/ objects' = objects \ {d} /\ plan'[p].events = plan[p].events
                  \/ objects' = objects
        \/ \E x \in Current(p) :
               /\ UNCHANGED objects /\ plan'[p].objects = plan[p].objects
               /\ plan'[p].events = plan[p].events \ {x}
               /\ \/ events' = Without(events, x.id)
                  \/ events' = events /\ strandedRecords' = strandedRecords \cup {x.id}
    BY <1>0, <1>4, ObjectPassTakes
  <2> QED BY <2>3, <2>4, <2>5
<1>5. CASE ~ObjectPass(p)
  <2>1. objects \subseteq objects'
    <3>1. ~ \E d \in Digest : UnlinkObject(p, d)
      BY <1>5, Zenon DEF ObjectPass
    <3> QED BY <1>1, <3>1 DEF Changes, StoreObject
  <2>2. e \in events
    <3>1. CASE WriteEvent(p)
      <4> DEFINE new == [id |-> NewId(EventId), digest |-> Head(todo[p])]
      <4>1. events' = events \cup {new} /\ pc[p] = "event"
        BY <3>1 DEF WriteEvent
      <4>2. new.digest \in objects
        BY <4>1 DEF ContentInv, IdentityInv, InPlace
      <4> HIDE DEF new
      <4> QED BY <2>1, <4>1, <4>2
    <3>2. ~ \E x \in plan[p].events : UnlinkEvent(p, x)
      BY <1>5, Zenon DEF ObjectPass
    <3> QED BY <1>1, <3>1, <3>2 DEF Changes
  <2>3. pc[p] = "purge" /\ e.id \in Ids(Current(p))
    BY <1>3, <2>1, <2>2
  <2>4. CASE EndDeletion(p)
    BY <2>3, <2>4 DEF EndDeletion, Current, Ids
  <2>5. CASE Crash(p)
    BY <2>3, <2>5 DEF Crash, Unfinished
  <2> QED BY <1>1, <1>5, <2>3, <2>4, <2>5 DEF Departures
<1> QED BY <1>4, <1>5

\* With every derived record listed, a purge unlinks no object before them.
LEMMA DescribedStaysStored ==
  ASSUME ContentInv, "derived" \notin Unlistable, NEW p \in Proc, Step(p) \/ Crash(p)
  PROVE  DerivedDescribesStored'
<1>0. LockInv /\ ContentHeld(p) /\ derived \subseteq objects
  BY DEF ContentInv, IdentityInv, DerivedDescribesStored
<1>1. Changes(p)
  BY <1>0, Moves
<1>2. CASE \E d \in Digest : UnlinkObject(p, d)
  <2>1. PICK d \in Digest : UnlinkObject(p, d)
    BY <1>2
  <2>2. /\ pc[p] = "purge" /\ d \in plan[p].objects /\ objects' = objects \ {d}
        /\ derived' = derived
    BY <2>1 DEF UnlinkObject
  <2>3. RecordsGone(p)
    BY <2>2 DEF ContentInv, IdentityInv, InPlace
  <2>4. plan[p].derived = {} /\ derived \cap plan[p].objects \subseteq plan[p].derived
    BY <1>0, <2>2, <2>3, GonePlan DEF ContentHeld
  <2> QED BY <1>0, <2>2, <2>4 DEF DerivedDescribesStored
<1>3. CASE ~ \E d \in Digest : UnlinkObject(p, d)
  <2>1. objects \subseteq objects'
    BY <1>1, <1>3 DEF Changes, StoreObject
  <2>2. derived' \subseteq objects
    <3>1. CASE Sweep(p)
      BY <1>0, <3>1 DEF Sweep
    <3>2. CASE \E d \in Digest : Describe(p, d)
      BY <1>0, <3>2 DEF Describe, ContentHeld
    <3>3. CASE \E d \in Digest : UnlinkDerived(p, d)
      BY <1>0, <3>3 DEF UnlinkDerived
    <3> QED BY <1>0, <1>1, <3>1, <3>2, <3>3 DEF Changes
  <2> QED BY <2>1, <2>2 DEF DerivedDescribesStored
<1> QED BY <1>2, <1>3

LEMMA StepContentInv == ContentInv /\ [Next]_vars => ContentInv'
<1> SUFFICES ASSUME ContentInv, [Next]_vars PROVE ContentInv'
  OBVIOUS
<1>1. IdentityInv'
  BY StepIdentityInv DEF ContentInv
<1>2. ASSUME NEW p \in Proc, Step(p) \/ Crash(p) PROVE ContentInv'
  <2>1. \A q \in Proc : ContentHeld(q)'
    <3>1. \A q \in Proc \ {p} : pc'[q] = "idle"
      BY <1>2, Moves DEF ContentInv, IdentityInv
    <3> QED BY <1>2, <3>1, ContentHeldKept DEF ContentHeld
  <2>2. /\ ObjectsRecorded'
        /\ "import_event" \notin Unlistable => EventsKept'
        /\ "derived" \notin Unlistable => DerivedDescribesStored'
    BY <1>2, ObjectsRecordedByStep, EventsKeptByStep, DescribedStaysStored
  <2> QED BY <1>1, <2>1, <2>2 DEF ContentInv
<1>3. CASE RemoveAbandonedLock \/ UNCHANGED vars
  <2>1. /\ UNCHANGED <<objects, events, derived, pc, plan, todo>>
        /\ UNCHANGED <<strandedRecords, strandedObjects>>
    BY <1>3 DEF RemoveAbandonedLock, vars
  <2>2. \A p \in Proc : ContentHeld(p)'
    BY <2>1 DEF ContentInv, ContentHeld, Current
  <2>3. ObjectsRecorded'
    BY <2>1 DEF ContentInv, ObjectsRecorded, Unrecorded
  <2>4. EventsKept => EventsKept'
    BY <2>1 DEF EventsKept, Ids, Current
  <2>5. DerivedDescribesStored => DerivedDescribesStored'
    BY <2>1 DEF DerivedDescribesStored
  <2> QED BY <1>1, <2>2, <2>3, <2>4, <2>5 DEF ContentInv
<1> QED BY <1>2, <1>3 DEF Next

LEMMA InitContentInv == Init => ContentInv
<1> SUFFICES ASSUME Init PROVE ContentInv
  OBVIOUS
<1>1. ObjectsRecorded /\ EventsKept /\ DerivedDescribesStored
  BY DEF Init, ObjectsRecorded, EventsKept, DerivedDescribesStored
<1>2. \A p \in Proc : ContentHeld(p)
  BY DEF Init, ContentHeld
<1> QED BY <1>1, <1>2, InitIdentityInv DEF ContentInv

\* import, purge: a stored object has an import event, but for the one of an
\* import between its two writes, and one of an import that ended there.
THEOREM StoredIsRecorded == Spec => []ObjectsRecorded
<1>1. ContentInv => ObjectsRecorded
  BY DEF ContentInv
<1> QED BY <1>1, InitContentInv, StepContentInv, PTL DEF Spec

\* purge: an import event whose object is gone is in the object pass that
\* took it, or was left by that pass.  A purge that cannot list the events
\* does not know which they are.
THEOREM EventsAlwaysIntact ==
  ASSUME "import_event" \notin Unlistable
  PROVE  Spec => []EventsIntact
<1>1. ContentInv => EventsIntact
  BY DEF ContentInv, EventsKept, EventsIntact, InFlight, Unfinished
<1> QED BY <1>1, InitContentInv, StepContentInv, PTL DEF Spec

\* purge, archive derive: nothing is said about content that is gone.
THEOREM DescribedIsStored ==
  ASSUME "derived" \notin Unlistable
  PROVE  Spec => []DerivedDescribesStored
<1>1. ContentInv => DerivedDescribesStored
  BY DEF ContentInv
<1> QED BY <1>1, InitContentInv, StepContentInv, PTL DEF Spec

\* submission add, receipt add, association create and retire, derive, case
\* delete: with the directories of records listable, nothing that is filed names
\* what is not there, whatever is deleted, refused or killed beside it.
THEOREM ReferencesAlwaysIntact ==
  ASSUME {"submission", "receipt", "association", "derived"} \cap Unlistable = {}
  PROVE  Spec => []ReferencesIntact
<1>1. Spec => []SubmissionsIntact /\ []ReceiptsIntact /\ []AssociationsIntact
                /\ []DerivedDescribesStored
  BY SubmissionsAlwaysIntact, ReceiptsAlwaysIntact, AssociationsAlwaysIntact,
     DescribedIsStored
<1> QED BY <1>1, PTL DEF ReferencesIntact

----------------------------------------------------------------------------
(* Plans: what a deletion is about to unlink *)

\* Every chain case delete takes has none but superseded records and records
\* that name departing submissions, and no digest it takes is named by what
\* it saw and leaves.
LEMMA PlanSpares ==
  ASSUME IdentityInv, "receipt" \notin Unlistable, "submission" \notin Unlistable,
         NEW p \in Proc, DeleteCase(p)
  PROVE  /\ \A a \in associations : a.id \in plan'[p].associations =>
              Superseded(associations, a) \/ Named(a) \subseteq plan'[p].submissions
         /\ \A r \in receipts : r.id \notin plan'[p].receipts =>
              r.artefact \notin plan'[p].objects
         /\ \A s \in submissions : s.id \notin plan'[p].submissions =>
              s.artefacts \cap plan'[p].objects = {}
<1>0. TypeInv /\ IdsUnique
  BY DEF IdentityInv, LockInv
<1>1. PICK c \in Ids(cases),
           subs \in Listings("submission", submissions),
           recs \in Listings("receipt", receipts),
           assocs \in Listings("association", associations),
           evs \in Listings("import_event", events),
           filed \in Listings("derived", derived) :
        Planned(p, c, subs, recs, assocs, evs, filed)
  BY <1>0, PlanFound, Zenon
<1>2. /\ subs = submissions /\ recs = receipts
      /\ assocs \subseteq associations /\ (assocs # {} => assocs = associations)
  BY DEF Listings
<1>3. PICK going, doomed, recsGo :
        /\ doomed = Doomed(assocs, Ids(going))
        /\ plan'[p].associations = Ids(doomed) /\ plan'[p].receipts = Ids(recsGo)
        /\ plan'[p].submissions = Ids(going)
        /\ \/ plan'[p].objects = {}
           \/ plan'[p].objects = Unreferenced(subs, going, recs, recsGo)
  BY <1>1, Zenon DEF Planned
<1>4. ASSUME NEW a \in associations, a.id \in plan'[p].associations
      PROVE  Superseded(associations, a) \/ Named(a) \subseteq plan'[p].submissions
  <2>0. a.id \in Ids(doomed)
    BY <1>3, <1>4
  <2>1. PICK d \in doomed : d.id = a.id
    BY <2>0 DEF Ids
  <2>2. d \in assocs /\ ~Asserted(assocs, Ids(going), d)
    BY <1>3 DEF Doomed
  <2>3. d = a /\ assocs = associations
    BY <1>0, <1>2, <2>1, <2>2 DEF IdsUnique, UniqueIds
  <2> QED BY <1>3, <2>2, <2>3, ChainHoldsItself DEF Asserted
<1>5. ASSUME NEW r \in receipts, r.id \notin plan'[p].receipts
      PROVE  r.artefact \notin plan'[p].objects
  <2>1. r \in recs \ recsGo
    BY <1>2, <1>3, <1>5 DEF Ids
  <2> QED BY <1>3, <2>1, PurgeSparesNamed
<1>6. ASSUME NEW s \in submissions, s.id \notin plan'[p].submissions
      PROVE  s.artefacts \cap plan'[p].objects = {}
  <2>1. s \in subs \ going
    BY <1>2, <1>3, <1>6 DEF Ids
  <2> QED BY <1>3, <2>1, PurgeSparesNamed
<1> QED BY <1>4, <1>5, <1>6

\* plan::build: what a deletion is about to unlink belongs to its case alone.
\* One that cannot list the receipts or the submissions does not know what
\* else names an object.
THEOREM PlanAlwaysSpares ==
  ASSUME "receipt" \notin Unlistable, "submission" \notin Unlistable
  PROVE  Spec => []PlanSparesOthers
<1> DEFINE Spared == IdentityInv /\ PlanSparesOthers
<1>1. Init => Spared
  BY InitIdentityInv DEF Init, PlanSparesOthers
<1>2. Spared /\ [Next]_vars => Spared'
  <2> SUFFICES ASSUME Spared, [Next]_vars PROVE PlanSparesOthers'
    BY StepIdentityInv
  <2>1. ASSUME NEW p \in Proc, Step(p) \/ Crash(p) PROVE PlanSparesOthers'
    <3>1. /\ Arrivals(p) /\ \A q \in Proc \ {p} : pc'[q] = "idle"
      BY <2>1, Moves DEF IdentityInv
    <3> SUFFICES ASSUME DeleteCase(p) PROVE PlanSparesOthers'
      BY <3>1 DEF Arrivals, PlanSparesOthers
    <3>2. UNCHANGED <<associations, receipts, submissions>>
      BY Zenon DEF DeleteCase
    <3> QED BY <3>1, <3>2, PlanSpares DEF PlanSparesOthers, Superseded
  <2>2. CASE RemoveAbandonedLock \/ UNCHANGED vars
    BY <2>2 DEF RemoveAbandonedLock, vars, PlanSparesOthers, Superseded
  <2> QED BY <2>1, <2>2 DEF Next
<1>3. Spared => PlanSparesOthers
  OBVIOUS
<1> HIDE DEF Spared
<1> QED BY <1>1, <1>2, <1>3, PTL DEF Spec
=============================================================================
