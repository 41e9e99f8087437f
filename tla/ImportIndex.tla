----------------------------- MODULE ImportIndex -----------------------------
(***************************************************************************)
(* The rebuildable index of import events, cache/import-events-by-digest,  *)
(* and the commands that read, rebuild and keep it: import, receipt add,   *)
(* and case delete with a purge; and a restore, which moves the directory  *)
(* on without it.  Every one of them holds the writer lock (Archive shows  *)
(* what that means), so there is one command at a time.  Between two       *)
(* commands the user may do to the files what the documents say is safe.   *)
(*                                                                         *)
(* The entry count and the newest time of a stamp are left out: they can   *)
(* only refuse an index, and so can every step of reading one, which       *)
(* Readings allows for.                                                    *)
(***************************************************************************)
EXTENDS DirectoryAnswers, Sequences

CONSTANTS
  Absent,         \* no index file, or none a reader accepts
  MaxFiles        \* bound on the files of one import

ASSUME IndexAssumption == MaxFiles \in Nat

VARIABLES
  objects,        \* digests stored
  index,          \* the index file
  copy,           \* a copy of an index file, kept somewhere else
  written,        \* history: every import event ever recorded
  pc,             \* where the command that runs is
  todo,           \* files it has still to store
  held,           \* the index it keeps in memory (Histories::index)
  folded,         \* whether it added to that (Histories::folded)
  plan            \* what a purge has still to unlink

directory == <<events, strays, closed>>
memory    == <<pc, todo, held, folded, plan>>
vars      == <<directory, answer, objects, index, copy, written, memory>>

Reading  == [events : SUBSET Event, unreadable : Nat]
Document == [source : SUBSET (EventId \cup Malformed \cup Staged), said : Reading]
NoPlan   == [objects |-> {}, events |-> {}]

----------------------------------------------------------------------------
(* Stamp, read, rebuild *)

\* Fault: the stamp an earlier version took, which counts and does not name.
StampOfCount == Cardinality(Ids(events) \cup strays)

\* A digest of the sorted entry names, leftover staging files among them.
Stamp == Ids(events) \cup strays

Current == index # Absent /\ index.source = Stamp

\* read_import_events.  A stamp that cannot be taken, or differs in a figure
\* left out here, is an index that is not there.
Readings == {Nil} \cup IF Current THEN {index.said} ELSE {}

\* Fault: the index is written without what could not be read.
WriteIndexCountless(a) ==
  index' \in {index, [source |-> Stamp, said |-> [a EXCEPT !.unreadable = 0]]}

\* write_import_events: stamped as it is written; a failure is dropped.
WriteIndex(a) == index' \in {index, [source |-> Stamp, said |-> a]}

\* import_events: what the index says or, after a scan, what the records say.
Consult(a) ==
  \/ a \in Readings \ {Nil} /\ UNCHANGED index
  \/ a = Scan /\ WriteIndex(a)

----------------------------------------------------------------------------
(* import *)

FileLists == UNION {[1..n -> Digest] : n \in 1..MaxFiles}

\* store_named up to the first file; Histories::opened takes what is current.
Import ==
  /\ pc = "idle"
  /\ todo' \in FileLists
  /\ held' \in Readings
  /\ folded' = FALSE
  /\ pc' = "store"
  /\ answer' = Nil
  /\ UNCHANGED <<directory, objects, index, copy, written, plan>>

StoreObject ==
  /\ pc = "store"
  /\ objects' = objects \cup {Head(todo)}
  /\ pc' = IF Head(todo) \in objects THEN "history" ELSE "event"
  /\ answer' = Nil
  /\ UNCHANGED <<directory, index, copy, written, todo, held, folded, plan>>

\* Histories::of: only a duplicate asks, and only the first one reads.
AskHistory ==
  /\ pc = "history"
  /\ \E a \in {Scan} \cup (Readings \ {Nil}) \cup ({held} \ {Nil}) :
       /\ IF held # Nil THEN a = held /\ UNCHANGED index ELSE Consult(a)
       /\ held' = a
       /\ answer' = History(a, Head(todo))
  /\ pc' = "event"
  /\ UNCHANGED <<directory, objects, copy, written, todo, folded, plan>>

\* Fault: an event the operation wrote is not folded into what it read.
FoldNothing(a, e) == a

\* ImportEvents::record.
Fold(a, e) == [a EXCEPT !.events = @ \cup {e}]

\* The rest of store_one.  The clock may be anywhere.
RecordEvent ==
  /\ pc = "event"
  /\ \E id \in EventId \ Ids(written), at \in Time :
       LET e == [id |-> id, digest |-> Head(todo), at |-> at] IN
         /\ events' = events \cup {e}
         /\ written' = written \cup {e}
         /\ held' = IF held = Nil THEN Nil ELSE Fold(held, e)
  /\ folded' = (held # Nil)
  /\ todo' = Tail(todo)
  /\ pc' = IF Len(todo) > 1 THEN "store" ELSE "save"
  /\ answer' = Nil
  /\ UNCHANGED <<strays, closed, objects, index, copy, plan>>

\* Fault: what the operation holds is written back whether it holds any or not.
SaveAlways ==
  /\ pc = "save"
  /\ WriteIndex(held)
  /\ held' = Nil /\ folded' = FALSE /\ pc' = "idle"
  /\ answer' = Nil
  /\ UNCHANGED <<directory, objects, copy, written, todo, plan>>

\* Histories::store, once every record is written.
Save ==
  /\ pc = "save"
  /\ IF held # Nil /\ folded THEN WriteIndex(held) ELSE UNCHANGED index
  /\ held' = Nil /\ folded' = FALSE /\ pc' = "idle"
  /\ answer' = Nil
  /\ UNCHANGED <<directory, objects, copy, written, todo, plan>>

----------------------------------------------------------------------------
(* receipt add *)

\* The record an event of the index names is there and records the digest.
Confirms(e, d) == \E f \in Scan.events : f.id = e.id /\ f.digest = d

\* resolve_import_event: confirmed before it is believed, and the records
\* read where it is not.
AddReceipt(d) ==
  /\ pc = "idle"
  /\ d \in objects
  /\ \E a \in {Scan} \cup (Readings \ {Nil}) :
       /\ Consult(a)
       /\ answer' = IF a.unreadable = 0 /\ (Of(a.events, d) = {} \/
                                            ~Confirms(Earliest(Of(a.events, d)), d))
                    THEN Resolved(Scan, d) ELSE Resolved(a, d)
  /\ UNCHANGED <<directory, objects, copy, written, memory>>

----------------------------------------------------------------------------
(* case delete --purge *)

\* plan::build and confirmed_events: the index is read and never written, and
\* what it names for the purged objects is confirmed.  Which objects go is
\* decided by other records.
PlanPurge(ds) ==
  /\ pc = "idle"
  /\ ds # {} /\ ds \subseteq objects
  /\ \E a \in {Scan} \cup (Readings \ {Nil}) :
       LET named == {e \in a.events : e.digest \in ds}
           b     == IF \A e \in named : Confirms(e, e.digest) THEN a ELSE Scan
       IN IF a.unreadable > 0 \/ b.unreadable > 0
          THEN answer' = Refused("purge", ds) /\ UNCHANGED <<pc, plan>>
          ELSE /\ answer' = Taken(b, ds)
               /\ plan' = [objects |-> ds, events |-> answer'.found]
               /\ pc' = "purge"
  /\ UNCHANGED <<directory, objects, index, copy, written, todo, held, folded>>

\* unlink_object: one that will not go keeps its import events.
PurgeObject(d) ==
  /\ pc = "purge" /\ d \in plan.objects
  /\ \/ /\ objects' = objects \ {d}
        /\ plan' = [plan EXCEPT !.objects = @ \ {d}]
     \/ /\ objects' = objects
        /\ plan' = [objects |-> plan.objects \ {d},
                    events  |-> plan.events \ Ids(Of(written, d))]
  /\ answer' = Nil
  /\ UNCHANGED <<directory, index, copy, written, pc, todo, held, folded>>

\* A refusal of an import event is dropped.
PurgeEvent(e) ==
  /\ pc = "purge" /\ e.id \in plan.events /\ e.digest \notin plan.objects
  /\ events' \in {events, events \ {e}}
  /\ plan' = [plan EXCEPT !.events = @ \ {e.id}]
  /\ answer' = Nil
  /\ UNCHANGED <<strays, closed, objects, index, copy, written, pc, todo, held, folded>>

EndPurge ==
  /\ pc = "purge" /\ plan = NoPlan
  /\ pc' = "idle"
  /\ answer' = Nil
  /\ UNCHANGED <<directory, objects, index, copy, written, todo, held, folded, plan>>

----------------------------------------------------------------------------
(* What else moves *)

\* export/restore publishes import events under the names they had, those of
\* this archive and those of any other, and leaves the index where it is.  A
\* name never stood for two events.
Restore(e) ==
  /\ pc = "idle"
  /\ e \notin events /\ (e.id \in Ids(written) => e \in written)
  /\ events' = events \cup {e}
  /\ written' = written \cup {e}
  /\ objects' = objects \cup {e.digest}
  /\ answer' = Nil
  /\ UNCHANGED <<strays, closed, index, copy, memory>>

\* A command errs or is killed: what it held is gone, what it wrote stays, and
\* with a record half written so does its staging file.
Stop ==
  /\ pc # "idle"
  /\ pc' = "idle" /\ todo' = <<>> /\ held' = Nil /\ folded' = FALSE
  /\ plan' = NoPlan
  /\ strays' \in {strays} \cup
       IF pc = "event" THEN {strays \cup {s} : s \in Staged} ELSE {}
  /\ answer' = Nil
  /\ UNCHANGED <<events, closed, objects, index, copy, written>>

\* The user loses the index, keeps a copy of it, or puts the copy back.
LoseIndex    == index' = Absent /\ UNCHANGED copy
KeepCopy     == copy' = index /\ UNCHANGED index
PutCopyBack  == index' = copy /\ UNCHANGED copy

Handle ==
  /\ pc = "idle"
  /\ LoseIndex \/ KeepCopy \/ PutCopyBack
  /\ answer' = Nil
  /\ UNCHANGED <<directory, objects, written, memory>>

\* A document that is no import event is put there or taken away, and so is a
\* leftover staging file.
Litter(s) ==
  /\ pc = "idle"
  /\ strays' = IF s \in strays THEN strays \ {s} ELSE strays \cup {s}
  /\ answer' = Nil
  /\ UNCHANGED <<events, closed, objects, index, copy, written, memory>>

\* A document's mode changes, which changes no name and no modification time.
ChangeMode(id) ==
  /\ pc = "idle"
  /\ id \in Ids(events)
  /\ closed' = IF id \in closed THEN closed \ {id} ELSE closed \cup {id}
  /\ answer' = Nil
  /\ UNCHANGED <<events, strays, objects, index, copy, written, memory>>

----------------------------------------------------------------------------
IndexInit ==
  /\ Init
  /\ objects = {} /\ index = Absent /\ copy = Absent /\ written = {}
  /\ pc = "idle" /\ todo = <<>> /\ held = Nil /\ folded = FALSE /\ plan = NoPlan

IndexNext ==
  \/ Import \/ StoreObject \/ AskHistory \/ RecordEvent \/ Save
  \/ \E d \in Digest : AddReceipt(d) \/ PurgeObject(d)
  \/ \E ds \in SUBSET Digest : PlanPurge(ds)
  \/ \E e \in written : PurgeEvent(e)
  \/ \E e \in Event : Restore(e)
  \/ EndPurge \/ Stop \/ Handle
  \/ \E s \in Malformed \cup Staged : Litter(s)

IndexSpec == IndexInit /\ [][IndexNext]_vars

\* The same with a user who changes the mode of documents as well.
ModesSpec == IndexInit /\ [][IndexNext \/ \E id \in EventId : ChangeMode(id)]_vars

----------------------------------------------------------------------------
(* Properties *)

IndexTypeOK ==
  /\ events \subseteq Event /\ written \subseteq Event
  /\ strays \subseteq Malformed \cup Staged
  /\ closed \subseteq EventId
  /\ objects \subseteq Digest
  /\ index \in Document \cup {Absent} /\ copy \in Document \cup {Absent}
  /\ pc \in {"idle", "store", "history", "event", "save", "purge"}
  /\ todo \in Seq(Digest)
  /\ held \in Reading \cup {Nil}
  /\ folded \in BOOLEAN
  /\ plan \in [objects : SUBSET Digest, events : SUBSET EventId]

\* cache/mod.rs, freshness: an index whose stamp is the directory's says what
\* reading every record of the directory says, whichever commands were cut
\* short since it was written and wherever the file came from.
CurrentIsScan == Current => index.said = Scan

\* Histories: what an import holds in memory stays what the directory says
\* while it adds to both, so what it saves is no older than the stamp it gets.
HeldIsScan == held # Nil => held = Scan

\* No question is answered otherwise than by reading the directory: the
\* import's history, the receipt's event, the purge's events, the refusals.
Directory == INSTANCE DirectoryAnswers
AnswersAreScans == Directory!Spec

\* archive-layout.md: the index carries the refusal a scan carries, with the
\* same count.
RefusesAsScan == Current => index.said.unreadable = Scan.unreadable
=============================================================================
