--------------------------- MODULE DirectoryAnswers ---------------------------
(***************************************************************************)
(* What a command may say of the import events: whatever a reading of the  *)
(* whole import-event directory says at that moment.  There is no index    *)
(* here; it is for ImportIndex to show that one makes no difference.       *)
(***************************************************************************)
EXTENDS Integers, FiniteSets

CONSTANTS
  EventId,        \* identifiers of import events, ordered as their names sort
  Digest,         \* contents
  Time,           \* values of imported_at
  Malformed,      \* names of documents that are no import event
  Staged,         \* names of leftover staging files
  Nil

ASSUME DirectoryAssumption ==
  /\ EventId \subseteq Nat /\ Time \subseteq Nat
  /\ (Malformed \cup Staged) \cap EventId = {} /\ Malformed \cap Staged = {}
  /\ IsFiniteSet(Malformed)

VARIABLES
  events,         \* import events recorded in records/imports
  strays,         \* its other entries
  closed,         \* events whose document cannot be opened just now
  answer          \* what the last question was answered

Event == [id: EventId, digest: Digest, at: Time]

Ids(docs) == {e.id : e \in docs}

Of(docs, d) == {e \in docs : e.digest = d}

\* visit_records: the documents it accepts, and how many it does not.  A
\* staging file is neither.
Scan == [events     |-> {e \in events : e.id \notin closed},
         unreadable |-> Cardinality((strays \cap Malformed)
                                      \cup (closed \cap Ids(events)))]

----------------------------------------------------------------------------
(* The three questions *)

Before(e, f) == e.at < f.at \/ (e.at = f.at /\ e.id <= f.id)

Earliest(docs) == CHOOSE e \in docs : \A f \in docs : Before(e, f)

\* The history a duplicate import reports.
History(a, d) ==
  LET said == Of(a.events, d)
  IN [question |-> "history", of |-> {d}, count |-> Cardinality(said),
      first |-> IF said = {} THEN Nil ELSE Earliest(said).at]

\* record.malformed, which names no event.
Refused(question, ds) == [question |-> question, of |-> ds]

\* The import event a receipt records when none is named.
Resolved(a, d) ==
  IF a.unreadable > 0 THEN Refused("receipt", {d})
  ELSE [question |-> "receipt", of |-> {d},
        found |-> IF Of(a.events, d) = {} THEN {} ELSE {Earliest(Of(a.events, d)).id}]

\* The import events a purge of these digests takes with it.
Taken(a, ds) ==
  IF a.unreadable > 0 THEN Refused("purge", ds)
  ELSE [question |-> "purge", of |-> ds, found |-> Ids({e \in a.events : e.digest \in ds})]

----------------------------------------------------------------------------
Init ==
  /\ events = {} /\ strays \in SUBSET (Malformed \cup Staged) /\ closed = {}
  /\ answer = Nil

\* A question is answered from the directory as it is.
Answer ==
  /\ \/ \E d \in Digest : answer' = History(Scan, d) \/ answer' = Resolved(Scan, d)
     \/ \E ds \in SUBSET Digest : answer' = Taken(Scan, ds)
  /\ UNCHANGED <<events, strays, closed>>

\* What commands and the user do to the directory is not this module's matter.
\* An answer is given once.
Change == answer' = Nil

Next == Answer \/ Change

Spec == Init /\ [][Next]_<<events, strays, closed, answer>>
=============================================================================
