-------------------------- MODULE ImportIndexProofs --------------------------
(***************************************************************************)
(* Why an index of import events changes no answer.                        *)
(*                                                                         *)
(* The stamp of an index is the names of the directory, and an import      *)
(* event's document is written once under a name no other ever had.  So    *)
(* the names alone determine what a reading of the directory says: SaidOf. *)
(* Every index file there is or ever was says that of its own stamp        *)
(* (Faithful), which no command undoes, whatever else becomes of the       *)
(* directory; and an index whose stamp is the directory's says what the    *)
(* directory says.                                                         *)
(***************************************************************************)
EXTENDS ImportIndex, SequenceTheorems, FiniteSetTheorems, TLAPS

SaidOf(names) ==
  [events     |-> {e \in written : e.id \in names},
   unreadable |-> Cardinality(names \cap Malformed)]

Faithful(file) ==
  file # Absent =>
    /\ file.said = SaidOf(file.source)
    /\ file.source \subseteq Ids(written) \cup Malformed \cup Staged

DirectoryInv ==
  /\ written \subseteq Event /\ events \subseteq written
  /\ \A e, f \in written : e.id = f.id => e = f
  /\ strays \subseteq Malformed \cup Staged
  /\ closed = {}
  /\ objects \subseteq Digest

FilesInv == Faithful(index) /\ Faithful(copy)

HeldInv == held # Nil => pc \in {"store", "history", "event", "save"} /\ held = Scan

TodoInv ==
  /\ todo \in Seq(Digest)
  /\ pc \in {"store", "history", "event"} => todo # <<>>

IInv == DirectoryInv /\ FilesInv /\ HeldInv /\ TodoInv

----------------------------------------------------------------------------
\* What the names of a directory determine is what a reading of it says.
LEMMA StampDetermines ==
  ASSUME DirectoryInv
  PROVE  Scan = SaidOf(Stamp)
<1>1. {e \in written : e.id \in Stamp} = events
  BY DirectoryAssumption DEF DirectoryInv, Stamp, Ids, Event
<1>2. Stamp \cap Malformed = strays \cap Malformed
  BY DirectoryAssumption DEF DirectoryInv, Stamp, Ids, Event
<1>3. {e \in events : e.id \notin closed} = events
  BY DEF DirectoryInv
<1>4. (strays \cap Malformed) \cup (closed \cap Ids(events)) = strays \cap Malformed
  BY DEF DirectoryInv
<1> QED
  BY <1>1, <1>2, <1>3, <1>4 DEF Scan, SaidOf

LEMMA FaithfulCurrent ==
  ASSUME DirectoryInv, Faithful(index), Current
  PROVE  index.said = Scan
BY StampDetermines DEF Faithful, Current

\* An index a reader accepts, or one it writes, says what the directory says.
LEMMA ReadingIsScan ==
  ASSUME IInv, NEW a \in Readings, a # Nil
  PROVE  a = Scan
BY FaithfulCurrent DEF IInv, FilesInv, Readings

LEMMA WrittenFaithful ==
  ASSUME IInv, WriteIndex(Scan), UNCHANGED <<events, strays, written>>
  PROVE  Faithful(index)'
<1>1. CASE index' = index
  BY <1>1 DEF IInv, FilesInv, Faithful, SaidOf, Ids
<1>2. CASE index' = [source |-> Stamp, said |-> Scan]
  <2>1. Scan = SaidOf(Stamp)
    BY StampDetermines DEF IInv
  <2>2. Stamp \subseteq Ids(written) \cup Malformed \cup Staged
    BY DEF IInv, DirectoryInv, Stamp, Ids
  <2>3. index'.source = Stamp /\ index'.said = Scan
    BY <1>2
  <2>4. SaidOf(Stamp)' = SaidOf(Stamp) /\ Ids(written)' = Ids(written)
    BY DEF SaidOf, Ids, Stamp
  <2> QED
    BY <2>1, <2>2, <2>3, <2>4 DEF Faithful, SaidOf, Ids
<1> QED
  BY <1>1, <1>2 DEF WriteIndex

LEMMA ConsultedIsScan ==
  ASSUME IInv, NEW a, Consult(a), UNCHANGED <<events, strays, written>>
  PROVE  a = Scan /\ Faithful(index)'
<1>1. CASE a \in Readings \ {Nil} /\ UNCHANGED index
  <2>1. a = Scan
    BY <1>1, ReadingIsScan
  <2>2. Faithful(index)'
    BY <1>1 DEF IInv, FilesInv, Faithful, SaidOf, Ids
  <2> QED
    BY <2>1, <2>2
<1>2. CASE a = Scan /\ WriteIndex(a)
  BY <1>2, WrittenFaithful
<1> QED
  BY <1>1, <1>2 DEF Consult

----------------------------------------------------------------------------
(* Nothing a step leaves alone is lost *)

LEMMA FilesStay ==
  ASSUME FilesInv, UNCHANGED <<index, copy, written>>
  PROVE  FilesInv'
BY DEF FilesInv, Faithful, SaidOf, Ids

LEMMA ScanStays ==
  ASSUME UNCHANGED directory
  PROVE  Scan' = Scan
BY DEF directory, Scan, Ids

LEMMA TodoHead ==
  ASSUME TodoInv, pc \in {"store", "history", "event"}
  PROVE  /\ Head(todo) \in Digest /\ Tail(todo) \in Seq(Digest)
         /\ Len(todo) > 1 => Tail(todo) # <<>>
<1>1. todo \in Seq(Digest) /\ todo # <<>>
  BY DEF TodoInv
<1>2. Len(todo) \in Nat
  BY <1>1
<1>3. Tail(todo) \in Seq(Digest) /\ Len(Tail(todo)) = Len(todo) - 1
  BY <1>1, HeadTailProperties
<1>4. Len(todo) > 1 => Tail(todo) # <<>>
  <2> SUFFICES ASSUME Len(todo) > 1, Tail(todo) = <<>> PROVE FALSE
    OBVIOUS
  <2>1. Len(Tail(todo)) = 0
    BY EmptySeq
  <2>2. \A n \in Nat : n - 1 = 0 => ~(n > 1)
    OBVIOUS
  <2> QED
    BY <1>2, <1>3, <2>1, <2>2, Zenon
<1> QED
  BY <1>1, <1>3, <1>4, HeadTailProperties

LEMMA InitHolds == IndexInit => IInv
<1> SUFFICES ASSUME IndexInit PROVE IInv
  OBVIOUS
<1>1. DirectoryInv
  BY DEF IndexInit, Init, DirectoryInv
<1>2. FilesInv /\ HeldInv
  BY DEF IndexInit, FilesInv, Faithful, HeldInv
<1>3. TodoInv
  BY DEF IndexInit, TodoInv
<1> QED
  BY <1>1, <1>2, <1>3 DEF IInv

----------------------------------------------------------------------------
(* import *)

LEMMA ImportKeeps == ASSUME IInv, Import PROVE IInv'
<1>1. DirectoryInv'
  BY DEF IInv, DirectoryInv, Import, directory
<1>2. FilesInv'
  BY FilesStay DEF IInv, Import
<1>3. HeldInv'
  <2> SUFFICES ASSUME held' # Nil PROVE pc' = "store" /\ held' = Scan'
    BY DEF HeldInv
  <2>1. held' \in Readings
    BY DEF Import
  <2>2. held' = Scan
    BY <2>1, ReadingIsScan
  <2>3. Scan' = Scan
    BY ScanStays DEF Import
  <2> QED
    BY <2>2, <2>3 DEF Import
<1>4. TodoInv'
  <2>1. PICK n \in 1..MaxFiles : todo' \in [1..n -> Digest]
    BY DEF Import, FileLists
  <2>2. todo' \in Seq(Digest) /\ todo' # <<>>
    BY <2>1, IndexAssumption
  <2> QED
    BY <2>2 DEF TodoInv
<1> QED
  BY <1>1, <1>2, <1>3, <1>4 DEF IInv

LEMMA StoreObjectKeeps == ASSUME IInv, StoreObject PROVE IInv'
<1>1. Head(todo) \in Digest
  BY TodoHead DEF IInv, StoreObject
<1>2. DirectoryInv'
  BY <1>1 DEF IInv, DirectoryInv, StoreObject, directory
<1>3. FilesInv'
  BY FilesStay DEF IInv, StoreObject
<1>4. HeldInv'
  BY ScanStays DEF IInv, HeldInv, StoreObject
<1>5. TodoInv'
  BY DEF IInv, TodoInv, StoreObject
<1> QED
  BY <1>2, <1>3, <1>4, <1>5 DEF IInv

\* A duplicate is answered from a reading of the directory, held or not.
LEMMA HistoryIsScan ==
  ASSUME IInv, AskHistory
  PROVE  /\ answer' = History(Scan, Head(todo))
         /\ held' = Scan /\ Faithful(index)'
<1>1. PICK a :
        /\ IF held # Nil THEN a = held /\ UNCHANGED index ELSE Consult(a)
        /\ held' = a /\ answer' = History(a, Head(todo))
  BY DEF AskHistory
<1>2. UNCHANGED <<events, strays, written>>
  BY DEF AskHistory, directory
<1>3. CASE held # Nil
  <2>1. a = Scan
    BY <1>1, <1>3 DEF IInv, HeldInv
  <2>2. Faithful(index)'
    BY <1>1, <1>2, <1>3 DEF IInv, FilesInv, Faithful, SaidOf, Ids
  <2> QED
    BY <1>1, <2>1, <2>2
<1>4. CASE held = Nil
  <2>1. a = Scan /\ Faithful(index)'
    BY <1>1, <1>2, <1>4, ConsultedIsScan
  <2> QED
    BY <1>1, <2>1
<1> QED
  BY <1>3, <1>4

LEMMA AskHistoryKeeps == ASSUME IInv, AskHistory PROVE IInv'
<1>1. DirectoryInv'
  BY DEF IInv, DirectoryInv, AskHistory, directory
<1>2. FilesInv'
  <2>1. Faithful(copy)'
    BY DEF IInv, FilesInv, Faithful, SaidOf, Ids, AskHistory
  <2> QED
    BY <2>1, HistoryIsScan DEF FilesInv
<1>3. HeldInv'
  BY HistoryIsScan, ScanStays DEF HeldInv, AskHistory
<1>4. TodoInv'
  BY DEF IInv, TodoInv, AskHistory
<1> QED
  BY <1>1, <1>2, <1>3, <1>4 DEF IInv

\* No index file has a new event's name in its stamp, so each goes on saying
\* what it said.
LEMMA NewEventKeeps ==
  ASSUME IInv, NEW e \in Event, \A f \in written : f.id # e.id,
         events' = events \cup {e}, written' = written \cup {e},
         UNCHANGED <<strays, closed, index, copy>>, objects' \subseteq Digest
  PROVE  DirectoryInv' /\ FilesInv'
<1>0. DirectoryInv /\ e.id \in EventId
  BY DEF IInv, Event
<1>1. DirectoryInv'
  BY <1>0 DEF DirectoryInv
<1>2. ASSUME NEW W, Faithful(W), W # Absent
      PROVE  /\ W.said = [events     |-> {f \in written' : f.id \in W.source},
                          unreadable |-> Cardinality(W.source \cap Malformed)]
             /\ W.source \subseteq Ids(written') \cup Malformed \cup Staged
  <2>1. W.source \subseteq Ids(written) \cup Malformed \cup Staged
    BY <1>2 DEF Faithful
  <2>2. e.id \notin Ids(written)
    BY DEF Ids
  <2>3. e.id \notin W.source
    BY <1>0, <2>1, <2>2, DirectoryAssumption
  <2>4. {f \in written' : f.id \in W.source} = {f \in written : f.id \in W.source}
    BY <2>3
  <2>5. Ids(written) \subseteq Ids(written')
    BY DEF Ids
  <2> QED
    BY <1>2, <2>1, <2>4, <2>5 DEF Faithful, SaidOf
<1>3. Faithful(index)'
  BY <1>2 DEF IInv, FilesInv, Faithful, SaidOf, Ids
<1>4. Faithful(copy)'
  BY <1>2 DEF IInv, FilesInv, Faithful, SaidOf, Ids
<1> QED
  BY <1>1, <1>3, <1>4 DEF FilesInv

\* What an import holds gets the event the directory gets.
LEMMA RecordEventKeeps == ASSUME IInv, RecordEvent PROVE IInv'
<1>0. TodoInv /\ pc = "event" /\ DirectoryInv
  BY DEF IInv, RecordEvent
<1>1. PICK id \in EventId \ Ids(written), at \in Time :
        LET e == [id |-> id, digest |-> Head(todo), at |-> at]
        IN /\ events' = events \cup {e} /\ written' = written \cup {e}
           /\ held' = IF held = Nil THEN Nil ELSE Fold(held, e)
  BY DEF RecordEvent
<1> DEFINE e == [id |-> id, digest |-> Head(todo), at |-> at]
<1>2. e \in Event /\ e.id = id /\ id \in EventId
  BY <1>0, TodoHead DEF Event
<1>3. \A f \in written : f.id # id
  BY <1>1 DEF Ids
<1>4. UNCHANGED <<strays, closed, objects, index, copy>>
  BY DEF RecordEvent
<1>5. events' = events \cup {e} /\ written' = written \cup {e} /\ objects' \subseteq Digest
  BY <1>0, <1>1, <1>4 DEF DirectoryInv
<1>6. DirectoryInv' /\ FilesInv'
  <2> HIDE DEF e
  <2> QED
    BY <1>2, <1>3, <1>4, <1>5, NewEventKeeps
<1>7. HeldInv'
  <2> SUFFICES ASSUME held' # Nil
               PROVE  pc' \in {"store", "save"} /\ held' = Scan'
    BY DEF HeldInv
  <2>1. held = Scan /\ held' = Fold(Scan, e)
    BY <1>1 DEF IInv, HeldInv
  <2>2. Scan' = Fold(Scan, e)
    <3>1. {f \in events' : f.id \notin closed'} = {f \in events : f.id \notin closed} \cup {e}
      BY <1>0, <1>1, <1>4 DEF DirectoryInv
    <3>2. (strays' \cap Malformed) \cup (closed' \cap Ids(events'))
            = (strays \cap Malformed) \cup (closed \cap Ids(events))
      BY <1>0, <1>4 DEF DirectoryInv
    <3>3. \A A, n : Fold([events |-> A, unreadable |-> n], e)
                      = [events |-> A \cup {e}, unreadable |-> n]
      BY DEF Fold
    <3>4. Fold(Scan, e) =
            [events     |-> {f \in events : f.id \notin closed} \cup {e},
             unreadable |-> Cardinality((strays \cap Malformed)
                                          \cup (closed \cap Ids(events)))]
      BY <3>3 DEF Scan
    <3> QED
      BY <3>1, <3>2, <3>4 DEF Scan
  <2> QED
    BY <2>1, <2>2 DEF RecordEvent
<1>8. TodoInv'
  BY <1>0, TodoHead DEF TodoInv, RecordEvent
<1> QED
  BY <1>6, <1>7, <1>8 DEF IInv

LEMMA SaveKeeps == ASSUME IInv, Save PROVE IInv'
<1>1. UNCHANGED directory /\ UNCHANGED <<objects, copy, written, todo>>
  BY DEF Save
<1>2. DirectoryInv'
  BY <1>1 DEF IInv, DirectoryInv, directory
<1>3. FilesInv'
  <2>1. CASE held # Nil /\ folded
    <3>1. WriteIndex(Scan)
      BY <2>1 DEF Save, IInv, HeldInv
    <3>2. Faithful(index)'
      BY <1>1, <3>1, WrittenFaithful DEF directory
    <3> QED
      BY <1>1, <3>2 DEF IInv, FilesInv, Faithful, SaidOf, Ids
  <2>2. CASE ~(held # Nil /\ folded)
    BY <2>2, FilesStay DEF IInv, Save
  <2> QED
    BY <2>1, <2>2
<1>4. HeldInv' /\ TodoInv'
  BY DEF IInv, HeldInv, TodoInv, Save
<1> QED
  BY <1>2, <1>3, <1>4 DEF IInv

----------------------------------------------------------------------------
(* receipt add, case delete --purge *)

\* Whichever reading it takes, a receipt's event is the one the records give.
LEMMA ReceiptIsScan ==
  ASSUME IInv, NEW d, AddReceipt(d)
  PROVE  answer' = Resolved(Scan, d) /\ Faithful(index)'
<1>1. PICK a :
        /\ Consult(a)
        /\ answer' = IF a.unreadable = 0 /\ (Of(a.events, d) = {} \/
                                            ~Confirms(Earliest(Of(a.events, d)), d))
                     THEN Resolved(Scan, d) ELSE Resolved(a, d)
  BY DEF AddReceipt
<1>2. UNCHANGED <<events, strays, written>>
  BY DEF AddReceipt, directory
<1>3. a = Scan /\ Faithful(index)'
  BY <1>1, <1>2, ConsultedIsScan
<1> QED
  BY <1>1, <1>3

LEMMA AddReceiptKeeps ==
  ASSUME IInv, NEW d, AddReceipt(d)
  PROVE  IInv'
<1>1. DirectoryInv'
  BY DEF IInv, DirectoryInv, AddReceipt, directory
<1>2. FilesInv'
  <2>1. Faithful(copy)'
    BY DEF IInv, FilesInv, Faithful, SaidOf, Ids, AddReceipt
  <2> QED
    BY <2>1, ReceiptIsScan DEF FilesInv
<1>3. HeldInv' /\ TodoInv'
  BY ScanStays DEF IInv, HeldInv, TodoInv, AddReceipt, memory
<1> QED
  BY <1>1, <1>2, <1>3 DEF IInv

\* A purge takes the events the records give, or is refused where they refuse it.
LEMMA PurgeIsScan ==
  ASSUME IInv, NEW ds, PlanPurge(ds)
  PROVE  answer' = Taken(Scan, ds)
<1>1. PICK a \in {Scan} \cup (Readings \ {Nil}) :
        LET named == {e \in a.events : e.digest \in ds}
            b     == IF \A e \in named : Confirms(e, e.digest) THEN a ELSE Scan
        IN IF a.unreadable > 0 \/ b.unreadable > 0
           THEN answer' = Refused("purge", ds) /\ UNCHANGED <<pc, plan>>
           ELSE /\ answer' = Taken(b, ds)
                /\ plan' = [objects |-> ds, events |-> answer'.found]
                /\ pc' = "purge"
  BY DEF PlanPurge
<1>2. a = Scan
  BY ReadingIsScan
<1>3. IF Scan.unreadable > 0
      THEN answer' = Refused("purge", ds) ELSE answer' = Taken(Scan, ds)
  BY <1>1, <1>2
<1> QED
  BY <1>3 DEF Taken

LEMMA PlanPurgeKeeps ==
  ASSUME IInv, NEW ds, PlanPurge(ds)
  PROVE  IInv'
<1>1. pc = "idle" /\ UNCHANGED <<objects, index, copy, written, todo, held>>
      /\ UNCHANGED directory
  BY DEF PlanPurge
<1>2. pc' \in {"idle", "purge"}
  BY <1>1 DEF PlanPurge
<1>3. DirectoryInv'
  BY <1>1 DEF IInv, DirectoryInv, directory
<1>4. FilesInv'
  BY <1>1, FilesStay DEF IInv
<1>5. HeldInv' /\ TodoInv'
  BY <1>1, <1>2 DEF IInv, HeldInv, TodoInv
<1> QED
  BY <1>3, <1>4, <1>5 DEF IInv

LEMMA PurgeKeeps ==
  ASSUME IInv,
         (\E d \in Digest : PurgeObject(d)) \/ (\E e \in written : PurgeEvent(e)) \/ EndPurge
  PROVE  IInv'
<1>1. pc = "purge" /\ pc' \in {"purge", "idle"}
  BY DEF PurgeObject, PurgeEvent, EndPurge
<1>2. UNCHANGED <<strays, closed, index, copy, written, todo, held>>
  BY DEF PurgeObject, PurgeEvent, EndPurge, directory
<1>3. events' \subseteq events /\ objects' \subseteq objects
  BY DEF PurgeObject, PurgeEvent, EndPurge, directory
<1>4. DirectoryInv'
  BY <1>2, <1>3 DEF IInv, DirectoryInv
<1>5. FilesInv'
  BY <1>2, FilesStay DEF IInv
<1>6. HeldInv' /\ TodoInv'
  BY <1>1, <1>2 DEF IInv, HeldInv, TodoInv
<1> QED
  BY <1>4, <1>5, <1>6 DEF IInv

----------------------------------------------------------------------------
(* What else moves *)

\* A restored event is one that was here, or is new here.
LEMMA RestoreKeeps ==
  ASSUME IInv, NEW e \in Event, Restore(e)
  PROVE  IInv'
<1>1. /\ e.digest \in Digest /\ objects' = objects \cup {e.digest}
      /\ events' = events \cup {e} /\ written' = written \cup {e}
      /\ UNCHANGED <<strays, closed, index, copy, memory>> /\ pc = "idle"
  BY DEF Restore, Event
<1>2. objects' \subseteq Digest
  BY <1>1 DEF IInv, DirectoryInv
<1>3. DirectoryInv' /\ FilesInv'
  <2>1. CASE e \in written
    <3>1. written' = written
      BY <1>1, <2>1
    <3>2. DirectoryInv'
      BY <1>1, <1>2, <2>1, <3>1 DEF IInv, DirectoryInv
    <3> QED
      BY <1>1, <3>1, <3>2, FilesStay DEF IInv
  <2>2. CASE \A f \in written : f.id # e.id
    BY <1>1, <1>2, <2>2, NewEventKeeps
  <2> QED
    BY <2>1, <2>2 DEF Restore, Ids
<1>4. HeldInv' /\ TodoInv'
  BY <1>1 DEF IInv, HeldInv, TodoInv, memory
<1> QED
  BY <1>3, <1>4 DEF IInv

LEMMA StopKeeps == ASSUME IInv, Stop PROVE IInv'
<1>1. strays' \subseteq strays \cup Staged
  BY DEF Stop
<1>2. DirectoryInv'
  BY <1>1 DEF IInv, DirectoryInv, Stop
<1>3. FilesInv'
  BY FilesStay DEF IInv, Stop
<1>4. HeldInv' /\ TodoInv'
  BY DEF HeldInv, TodoInv, Stop
<1> QED
  BY <1>2, <1>3, <1>4 DEF IInv

\* An index put back was faithful when the copy was made, and is still.
LEMMA HandleKeeps == ASSUME IInv, Handle PROVE IInv'
<1>1. UNCHANGED directory /\ UNCHANGED <<objects, written, memory>>
  BY DEF Handle
<1>2. DirectoryInv'
  BY <1>1 DEF IInv, DirectoryInv, directory
<1>3. FilesInv'
  <2>1. CASE LoseIndex
    BY <1>1, <2>1 DEF IInv, FilesInv, Faithful, SaidOf, Ids, LoseIndex
  <2>2. CASE KeepCopy
    BY <1>1, <2>2 DEF IInv, FilesInv, Faithful, SaidOf, Ids, KeepCopy
  <2>3. CASE PutCopyBack
    BY <1>1, <2>3 DEF IInv, FilesInv, Faithful, SaidOf, Ids, PutCopyBack
  <2> QED
    BY <2>1, <2>2, <2>3 DEF Handle
<1>4. HeldInv' /\ TodoInv'
  BY <1>1, ScanStays DEF IInv, HeldInv, TodoInv, memory
<1> QED
  BY <1>2, <1>3, <1>4 DEF IInv

LEMMA LitterKeeps ==
  ASSUME IInv, NEW s \in Malformed \cup Staged, Litter(s)
  PROVE  IInv'
<1>1. strays' \subseteq strays \cup {s}
  BY DEF Litter
<1>2. DirectoryInv'
  BY <1>1 DEF IInv, DirectoryInv, Litter
<1>3. FilesInv'
  BY FilesStay DEF IInv, Litter
<1>4. HeldInv' /\ TodoInv'
  BY DEF IInv, HeldInv, TodoInv, Litter, memory
<1> QED
  BY <1>2, <1>3, <1>4 DEF IInv

LEMMA StepKeeps == ASSUME IInv, [IndexNext]_vars PROVE IInv'
<1>1. CASE UNCHANGED vars
  <2>1. DirectoryInv'
    BY <1>1 DEF IInv, DirectoryInv, vars, directory
  <2>2. FilesInv'
    BY <1>1, FilesStay DEF IInv, vars
  <2>3. HeldInv' /\ TodoInv'
    BY <1>1, ScanStays DEF IInv, HeldInv, TodoInv, vars, memory
  <2> QED
    BY <2>1, <2>2, <2>3 DEF IInv
<1>2. CASE Import \/ StoreObject \/ AskHistory \/ RecordEvent \/ Save
  BY <1>2, ImportKeeps, StoreObjectKeeps, AskHistoryKeeps, RecordEventKeeps, SaveKeeps
<1>3. CASE \E d \in Digest : AddReceipt(d)
  BY <1>3, AddReceiptKeeps
<1>4. CASE \E ds \in SUBSET Digest : PlanPurge(ds)
  BY <1>4, PlanPurgeKeeps
<1>5. CASE (\E d \in Digest : PurgeObject(d)) \/ (\E e \in written : PurgeEvent(e)) \/ EndPurge
  BY <1>5, PurgeKeeps
<1>6. CASE \E e \in Event : Restore(e)
  BY <1>6, RestoreKeeps
<1>7. CASE Stop \/ Handle
  BY <1>7, StopKeeps, HandleKeeps
<1>8. CASE \E s \in Malformed \cup Staged : Litter(s)
  BY <1>8, LitterKeeps
<1> QED
  BY <1>1, <1>2, <1>3, <1>4, <1>5, <1>6, <1>7, <1>8 DEF IndexNext

----------------------------------------------------------------------------
(* What the two specifications call by one name is one thing *)

LEMMA SameScan == Directory!Scan = Scan
BY DEF Directory!Scan, Scan, Directory!Ids, Ids, Directory!Cardinality, Cardinality

LEMMA SameHistory ==
  ASSUME NEW a, NEW d
  PROVE  Directory!History(a, d) = History(a, d)
BY DEF Directory!History, History, Directory!Earliest, Earliest,
       Directory!Before, Before, Directory!Of, Of, Directory!Cardinality, Cardinality

LEMMA SameResolved ==
  ASSUME NEW a, NEW d
  PROVE  Directory!Resolved(a, d) = Resolved(a, d)
BY DEF Directory!Resolved, Resolved, Directory!Refused, Refused,
       Directory!Earliest, Earliest, Directory!Before, Before, Directory!Of, Of

LEMMA SameTaken ==
  ASSUME NEW a, NEW ds
  PROVE  Directory!Taken(a, ds) = Taken(a, ds)
BY DEF Directory!Taken, Taken, Directory!Refused, Refused, Directory!Ids, Ids

\* A step that answers answers from the directory, which it leaves alone; any
\* other step only withdraws the answer.
LEMMA StepIsDirectoryStep ==
  ASSUME IInv, [IndexNext]_vars
  PROVE  [Directory!Next]_<<events, strays, closed, answer>>
<1>1. CASE AskHistory
  <2>1. Head(todo) \in Digest
    BY <1>1, TodoHead DEF IInv, AskHistory
  <2>2. answer' = Directory!History(Directory!Scan, Head(todo))
    BY <1>1, HistoryIsScan, SameScan, SameHistory
  <2>3. UNCHANGED <<events, strays, closed>>
    BY <1>1 DEF AskHistory, directory
  <2> QED
    BY <2>1, <2>2, <2>3 DEF Directory!Next, Directory!Answer
<1>2. ASSUME NEW d \in Digest, AddReceipt(d)
      PROVE  Directory!Next
  <2>1. answer' = Directory!Resolved(Directory!Scan, d)
    BY <1>2, ReceiptIsScan, SameScan, SameResolved
  <2>2. UNCHANGED <<events, strays, closed>>
    BY <1>2 DEF AddReceipt, directory
  <2> QED
    BY <2>1, <2>2 DEF Directory!Next, Directory!Answer
<1>3. ASSUME NEW ds \in SUBSET Digest, PlanPurge(ds)
      PROVE  Directory!Next
  <2>1. answer' = Directory!Taken(Directory!Scan, ds)
    BY <1>3, PurgeIsScan, SameScan, SameTaken
  <2>2. UNCHANGED <<events, strays, closed>>
    BY <1>3 DEF PlanPurge, directory
  <2> QED
    BY <2>1, <2>2 DEF Directory!Next, Directory!Answer
<1>4. CASE Import \/ StoreObject \/ RecordEvent \/ Save \/ EndPurge \/ Stop \/ Handle
  <2>1. answer' = Nil
    BY <1>4 DEF Import, StoreObject, RecordEvent, Save, EndPurge, Stop, Handle
  <2> QED
    BY <2>1 DEF Directory!Next, Directory!Change
<1>5. CASE \/ \E d \in Digest : PurgeObject(d)
           \/ \E e \in written : PurgeEvent(e)
           \/ \E e \in Event : Restore(e)
           \/ \E s \in Malformed \cup Staged : Litter(s)
  <2>1. answer' = Nil
    BY <1>5 DEF PurgeObject, PurgeEvent, Restore, Litter
  <2> QED
    BY <2>1 DEF Directory!Next, Directory!Change
<1>6. CASE UNCHANGED vars
  BY <1>6 DEF vars, directory
<1> QED
  BY <1>1, <1>2, <1>3, <1>4, <1>5, <1>6 DEF IndexNext

----------------------------------------------------------------------------
\* Every index file, in place or kept as a copy, says of its own stamp what a
\* reading of those names would, and what an import holds is the directory's.
THEOREM IndexHolds == IndexSpec => []IInv
<1>1. IInv /\ [IndexNext]_vars => IInv'
  BY StepKeeps
<1> QED
  BY InitHolds, <1>1, PTL DEF IndexSpec

\* An index whose stamp is the directory's says what a scan says, whatever was
\* cut short, restored, lost or put back since it was written (cache/mod.rs).
THEOREM CurrentIsScanAlways == IndexSpec => []CurrentIsScan
<1>1. IInv => CurrentIsScan
  BY FaithfulCurrent DEF IInv, FilesInv, CurrentIsScan
<1> QED
  BY <1>1, IndexHolds, PTL

\* An import that folds its own events into what it read holds, at every step,
\* what a scan says (cache::Histories).
THEOREM HeldIsScanAlways == IndexSpec => []HeldIsScan
<1>1. IInv => HeldIsScan
  BY DEF IInv, HeldInv, HeldIsScan
<1> QED
  BY <1>1, IndexHolds, PTL

\* The commands with an index implement commands that read the directory for
\* every question: no history, receipt, purge or refusal tells the two apart.
THEOREM AnswersAlwaysScans == IndexSpec => AnswersAreScans
<1>1. IndexInit => Directory!Init
  BY DEF IndexInit, Init, Directory!Init
<1>2. IInv /\ [IndexNext]_vars => [Directory!Next]_<<events, strays, closed, answer>>
  BY StepIsDirectoryStep
<1> QED
  BY <1>1, <1>2, IndexHolds, PTL DEF IndexSpec, AnswersAreScans, Directory!Spec

----------------------------------------------------------------------------
(* What the files and the commands hold *)

TypesInv ==
  /\ index \in Document \cup {Absent} /\ copy \in Document \cup {Absent}
  /\ pc \in {"idle", "store", "history", "event", "save", "purge"}
  /\ folded \in BOOLEAN
  /\ plan \in [objects : SUBSET Digest, events : SUBSET EventId]

LEMMA ScanTyped ==
  ASSUME DirectoryInv
  PROVE  Scan \in Reading /\ [source |-> Stamp, said |-> Scan] \in Document
<1>1. (strays \cap Malformed) \cup (closed \cap Ids(events)) = strays \cap Malformed
  BY DEF DirectoryInv
<1>2. Cardinality(strays \cap Malformed) \in Nat
  BY DirectoryAssumption, FS_Intersection, FS_CardinalityType
<1>3. {e \in events : e.id \notin closed} \subseteq Event
  BY DEF DirectoryInv
<1>4. Scan \in Reading
  BY <1>1, <1>2, <1>3 DEF Scan, Reading
<1>5. Stamp \subseteq EventId \cup Malformed \cup Staged
  BY DEF DirectoryInv, Stamp, Ids, Event
<1> HIDE DEF Stamp, Scan
<1> QED
  BY <1>4, <1>5 DEF Document

\* A step leaves an index file, moves one, or writes what it read.
LEMMA FilesMove ==
  ASSUME IInv, TypesInv, [IndexNext]_vars
  PROVE  index' \in Document \cup {Absent} /\ copy' \in Document \cup {Absent}
<1> DEFINE new == [source |-> Stamp, said |-> Scan]
<1>1. new \in Document
  BY ScanTyped DEF IInv
<1> HIDE DEF new
<1>2. ASSUME NEW a, Consult(a) PROVE index' \in {index, new}
  <2>1. CASE a = Scan /\ WriteIndex(a)
    BY <2>1 DEF WriteIndex, new
  <2> QED
    BY <1>2, <2>1 DEF Consult
<1>3. CASE AskHistory
  <2>1. index' \in {index, new}
    BY <1>2, <1>3 DEF AskHistory
  <2> QED
    BY <1>1, <1>3, <2>1 DEF AskHistory, TypesInv
<1>4. CASE Save
  <2>1. index' \in {index, new}
    BY <1>4 DEF Save, WriteIndex, IInv, HeldInv, new
  <2> QED
    BY <1>1, <1>4, <2>1 DEF Save, TypesInv
<1>5. CASE \E d \in Digest : AddReceipt(d)
  <2>1. index' \in {index, new} /\ copy' = copy
    BY <1>2, <1>5, Zenon DEF AddReceipt
  <2> QED
    BY <1>1, <2>1 DEF TypesInv
<1>6. CASE Handle
  BY <1>6 DEF Handle, LoseIndex, KeepCopy, PutCopyBack, TypesInv
<1>7. UNCHANGED <<index, copy>> => index' \in Document \cup {Absent} /\ copy' \in Document \cup {Absent}
  BY DEF TypesInv
<1>8. CASE \/ Import \/ StoreObject \/ RecordEvent \/ EndPurge \/ Stop
           \/ \E ds \in SUBSET Digest : PlanPurge(ds)
           \/ \E d \in Digest : PurgeObject(d)
           \/ \E e \in written : PurgeEvent(e)
           \/ \E e \in Event : Restore(e)
           \/ \E s \in Malformed \cup Staged : Litter(s)
           \/ UNCHANGED vars
  <2>1. UNCHANGED <<index, copy>>
    BY <1>8, Zenon DEF Import, StoreObject, RecordEvent, EndPurge, Stop, PlanPurge, PurgeObject,
                       PurgeEvent, Restore, Litter, vars
  <2> QED
    BY <1>7, <2>1
<1> QED
  BY <1>3, <1>4, <1>5, <1>6, <1>8, Zenon DEF IndexNext

LEMMA CommandMoves ==
  ASSUME IInv, TypesInv, [IndexNext]_vars
  PROVE  /\ pc' \in {"idle", "store", "history", "event", "save", "purge"}
         /\ folded' \in BOOLEAN
         /\ plan' \in [objects : SUBSET Digest, events : SUBSET EventId]
<1>0. NoPlan \in [objects : SUBSET Digest, events : SUBSET EventId]
  BY DEF NoPlan
<1>1. CASE Import \/ StoreObject \/ AskHistory \/ RecordEvent \/ Save
  <2>1. plan' = plan /\ pc' \in {"idle", "store", "history", "event", "save", "purge"}
    BY <1>1 DEF Import, StoreObject, AskHistory, RecordEvent, Save
  <2>2. folded' \in BOOLEAN
    BY <1>1, Zenon DEF Import, StoreObject, AskHistory, RecordEvent, Save, TypesInv
  <2> QED
    BY <2>1, <2>2 DEF TypesInv
<1>2. ASSUME NEW ds \in SUBSET Digest, PlanPurge(ds)
      PROVE  /\ pc' \in {"idle", "purge"} /\ folded' = folded
             /\ plan' \in [objects : SUBSET Digest, events : SUBSET EventId]
  <2>1. PICK a \in {Scan} \cup (Readings \ {Nil}) :
          LET named == {e \in a.events : e.digest \in ds}
              b     == IF \A e \in named : Confirms(e, e.digest) THEN a ELSE Scan
          IN IF a.unreadable > 0 \/ b.unreadable > 0
             THEN answer' = Refused("purge", ds) /\ UNCHANGED <<pc, plan>>
             ELSE /\ answer' = Taken(b, ds)
                  /\ plan' = [objects |-> ds, events |-> answer'.found]
                  /\ pc' = "purge"
    BY <1>2 DEF PlanPurge
  <2>2. a = Scan
    BY ReadingIsScan
  <2>3. CASE Scan.unreadable > 0
    <3>1. UNCHANGED <<pc, plan>>
      BY <2>1, <2>2, <2>3
    <3> QED
      BY <1>2, <3>1 DEF PlanPurge, TypesInv
  <2>4. CASE ~(Scan.unreadable > 0)
    <3> DEFINE taken == Ids({e \in Scan.events : e.digest \in ds})
    <3>1. plan' = [objects |-> ds, events |-> taken] /\ pc' = "purge"
      BY <2>1, <2>2, <2>4 DEF Taken
    <3>2. taken \subseteq EventId
      BY ScanTyped DEF IInv, Reading, Ids, Event
    <3> HIDE DEF taken
    <3> QED
      BY <1>2, <3>1, <3>2 DEF PlanPurge
  <2> QED
    BY <2>3, <2>4
<1>3. CASE \E ds \in SUBSET Digest : PlanPurge(ds)
  <2>1. PICK ds \in SUBSET Digest : PlanPurge(ds)
    BY <1>3
  <2> QED
    BY <1>2, <2>1, Zenon DEF TypesInv
<1>4. CASE \/ \E d \in Digest : PurgeObject(d)
           \/ \E e \in written : PurgeEvent(e)
           \/ EndPurge
  <2>1. pc' \in {"purge", "idle"} /\ folded' = folded
    BY <1>4 DEF PurgeObject, PurgeEvent, EndPurge
  <2>2. plan' \in [objects : SUBSET Digest, events : SUBSET EventId]
    BY <1>4 DEF PurgeObject, PurgeEvent, EndPurge, TypesInv
  <2> QED
    BY <2>1, <2>2 DEF TypesInv
<1>5. CASE Stop
  BY <1>0, <1>5 DEF Stop
<1>6. CASE \/ \E d \in Digest : AddReceipt(d)
           \/ \E e \in Event : Restore(e)
           \/ Handle \/ \E s \in Malformed \cup Staged : Litter(s)
           \/ UNCHANGED vars
  <2>1. UNCHANGED memory
    BY <1>6, Zenon DEF AddReceipt, Restore, Handle, Litter, vars
  <2> QED
    BY <2>1 DEF memory, TypesInv
<1> QED
  BY <1>1, <1>3, <1>4, <1>5, <1>6, Zenon DEF IndexNext

\* import, receipt add, case delete --purge: an index file is of the form its
\* reader accepts, and a command holds files, readings and plans of the archive.
THEOREM IndexTypesHold == IndexSpec => []IndexTypeOK
<1>1. IndexInit => TypesInv
  <2> SUFFICES ASSUME IndexInit PROVE TypesInv
    OBVIOUS
  <2>1. folded \in BOOLEAN
    BY Zenon DEF IndexInit
  <2>2. plan \in [objects : SUBSET Digest, events : SUBSET EventId]
    BY DEF IndexInit, NoPlan
  <2> QED
    BY <2>1, <2>2 DEF IndexInit, TypesInv
<1>2. IInv /\ TypesInv /\ [IndexNext]_vars => TypesInv'
  BY FilesMove, CommandMoves DEF TypesInv
<1>3. IInv /\ TypesInv => IndexTypeOK
  BY ScanTyped DEF IInv, DirectoryInv, HeldInv, TodoInv, TypesInv, IndexTypeOK
<1> QED
  BY <1>1, <1>2, <1>3, IndexHolds, PTL DEF IndexSpec
=============================================================================
