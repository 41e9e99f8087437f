------------------------------ MODULE MCFiled -------------------------------
(***************************************************************************)
(* Archive started from archives that were filed before: two cases, one    *)
(* submission in each, two receipts, and statements about them.            *)
(***************************************************************************)
EXTENDS Archive

CONSTANTS c1, c2, s1, s2, r1, r2, a1, a2, a3, e1, e2, d1, d2, open

FiledAssociation(id, before) ==
  {a \in [id : {id}, receipt : {r1, r2}, candidates : SUBSET {s1, s2},
          supersedes : {Nil} \cup Ids(before)] :
     \A b \in before : Supersedes(a, b) => a.receipt = b.receipt}

\* What association create and retire leave: one statement after another,
\* each superseding nothing or one before it about the same receipt.
Histories ==
  UNION {UNION {{ {x, y, z} : z \in FiledAssociation(a3, {x, y}) } :
                  y \in FiledAssociation(a2, {x})} : x \in FiledAssociation(a1, {})}

FiledRecords ==
  /\ lock = Free
  /\ objects = {d1, d2}
  /\ events = {[id |-> e1, digest |-> d1], [id |-> e2, digest |-> d2]}
  /\ cases = {[id |-> c1, status |-> open], [id |-> c2, status |-> open]}
  /\ \E shared \in SUBSET {d2} :
       submissions = {[id |-> s1, case |-> c1, artefacts |-> {d1, d2}],
                      [id |-> s2, case |-> c2, artefacts |-> shared]}
  /\ \E d \in {d1, d2} :
       receipts = {[id |-> r1, artefact |-> d1, event |-> e1],
                   [id |-> r2, artefact |-> d, event |-> IF d = d1 THEN e1 ELSE e2]}
  /\ derived = {d1}
  /\ drawn = {c1, c2, s1, s2, r1, r2, e1, e2} \cup Ids(associations)
  /\ pc    = [p \in Proc |-> "idle"]
  /\ todo  = [p \in Proc |-> <<>>]
  /\ draft = [p \in Proc |-> Nil]
  /\ plan  = [p \in Proc |-> NoPlan]
  /\ strandedRecords = {} /\ strandedObjects = {}

AnyHistory   == associations \in Histories /\ FiledRecords
NoStatements == associations = {} /\ FiledRecords

\* Deletions after any history of statements.
DeletionSpec == AnyHistory /\ [][Next]_vars

\* The histories themselves, one statement at a time.
StatementsSpec == NoStatements /\ [][Next]_vars
=============================================================================
