----------------------------- MODULE MCReaders ------------------------------
(***************************************************************************)
(* The readers, IntegrityCheck and ArchiveViews, beside the commands of    *)
(* Archive, started from a filed archive: one case, its submission and a   *)
(* receipt about which statements were made.  One reader in a behaviour:   *)
(* readers write nothing, so one cannot matter to another.                 *)
(***************************************************************************)
EXTENDS IntegrityCheck, ArchiveViews

CONSTANTS c1, s1, r1, a1, a2, a3, e1, d1, open

VARIABLE reader

Statement(id, before) ==
  [id : {id}, receipt : {r1}, candidates : SUBSET {s1}, supersedes : {Nil} \cup Ids(before)]

\* What a view is read over: two statements, or three.
Histories ==
  LET one == {{x} : x \in Statement(a1, {})}
      two == UNION {{h \cup {y} : y \in Statement(a2, h)} : h \in one}
      three == UNION {{h \cup {z} : z \in Statement(a3, h)} : h \in two}
  IN two \cup three

\* What is checked: the one statement that the receipt answers the submission.
Answered ==
  {[id |-> a1, receipt |-> r1, candidates |-> {s1}, supersedes |-> Nil]}

FiledRecords ==
  /\ lock = Free
  /\ objects = {d1}
  /\ events = {[id |-> e1, digest |-> d1]}
  /\ cases = {[id |-> c1, status |-> open]}
  /\ submissions = {[id |-> s1, case |-> c1, artefacts |-> {d1}]}
  /\ receipts = {[id |-> r1, artefact |-> d1, event |-> e1]}
  /\ \/ reader = "check" /\ associations = Answered /\ derived = {d1}
     \/ reader = "view" /\ associations \in Histories /\ derived = {}
  /\ drawn = {c1, s1, r1, e1} \cup Ids(associations) \cup IF reader = "check" THEN {a3} ELSE {}
  /\ pc    = [p \in Proc |-> "idle"]
  /\ todo  = [p \in Proc |-> <<>>]
  /\ draft = [p \in Proc |-> Nil]
  /\ plan  = [p \in Proc |-> NoPlan]
  /\ strandedRecords = {} /\ strandedObjects = {}

\* Of the searches, those of one kind and of all.
SearchesAsked ==
  view'.op = "search" => Len(view'.of) \in {1, Cardinality(DOMAIN OnDisk)}

\* Beside a view nothing is killed: it sees of a kill that no step follows.
ReadersNext ==
  \/ Next /\ CheckWatches /\ ViewWatches /\ (reader = "view" => lock' # Abandoned)
  \/ reader = "check" /\ CheckMoves /\ UNCHANGED viewVars
  \/ reader = "view" /\ ViewMoves /\ SearchesAsked /\ UNCHANGED checkVars

FiledInit == FiledRecords /\ CheckInit /\ ViewInit

ReadersSpec ==
  /\ FiledInit
  /\ [][ReadersNext /\ UNCHANGED reader]_<<vars, checkVars, viewVars, reader>>
  /\ Fairness
=============================================================================
