----------------------------- MODULE AtomicWrite -----------------------------
(***************************************************************************)
(* How a document reaches its path: staged under a name of its own, flushed*)
(* and closed, linked or renamed into place, and the directory flushed.    *)
(* One process writes at a time, under the archive's lock.  It may be      *)
(* killed between two steps, a call may be refused, readers hold no lock,  *)
(* and a power loss takes whatever was not flushed.                        *)
(*                                                                         *)
(* A document is the inode it is written in: every write makes a new one.  *)
(***************************************************************************)
EXTENDS Naturals

CONSTANTS
  Path,           \* paths in the directory
  Rewritable,     \* paths of the kinds replace_record and write_derived take
  ObjectPath,     \* paths named by the digest of what they hold
  Inode,          \* files that may ever be created: the bound on writes
  Reader,         \* processes that read without the lock
  Parts,          \* write calls one document takes
  Nil,            \* no file
  Torn            \* a file read when not whole

ASSUME WriteAssumption ==
  /\ Rewritable \subseteq Path /\ ObjectPath \subseteq Path \ Rewritable
  /\ Parts \in Nat \ {0}
  /\ Nil \notin Inode /\ Torn \notin Inode \cup {Nil}

VARIABLES
  entry,          \* the directory as processes see it
  disk,           \* the directory as it would be found after a power loss
  written,        \* parts each file holds
  synced,         \* parts of it that are flushed
  used,           \* files ever created
  pc,             \* where the writer is
  dest,           \* the path it writes
  staged,         \* the file under its staging name
  warned,         \* whether it has reported platform.no_directory_fsync
  changed,        \* whether it changed its path
  handle          \* the file each reader has open

writer == <<pc, dest, staged, warned, changed>>
vars   == <<entry, disk, written, synced, used, writer, handle>>

Init ==
  /\ entry = [p \in Path |-> Nil] /\ disk = entry
  /\ written = [i \in Inode |-> 0] /\ synced = written
  /\ used = {}
  /\ pc = "idle" /\ dest \in Path /\ staged = Nil
  /\ warned = FALSE /\ changed = FALSE
  /\ handle = [r \in Reader |-> Nil]

----------------------------------------------------------------------------
(* The writer *)

\* Staging::create: a name nothing has, in the archive.
Stage(p) ==
  /\ pc = "idle"
  /\ \E i \in Inode \ used : staged' = i /\ used' = used \cup {i}
  /\ dest' = p /\ pc' = "write" /\ warned' = FALSE /\ changed' = FALSE
  /\ UNCHANGED <<entry, disk, written, synced, handle>>

Write ==
  /\ pc = "write" /\ written[staged] < Parts
  /\ written' = [written EXCEPT ![staged] = @ + 1]
  /\ UNCHANGED <<entry, disk, synced, used, writer, handle>>

\* Fault: the staged file is closed and not flushed.
FinishUnflushed ==
  /\ pc = "write" /\ written[staged] = Parts
  /\ pc' = IF dest \in ObjectPath THEN "place" ELSE "publish"
  /\ UNCHANGED <<entry, disk, written, synced, used, dest, staged, warned, changed,
                 handle>>

\* sync_all, with the content written in full.
Finish ==
  /\ pc = "write" /\ written[staged] = Parts
  /\ synced' = [synced EXCEPT ![staged] = written[staged]]
  /\ pc' = IF dest \in ObjectPath THEN "place" ELSE "publish"
  /\ UNCHANGED <<entry, disk, written, used, dest, staged, warned, changed, handle>>

\* objects::place: content already stored is left as it is, without a flush;
\* the staging file goes with its guard.
FindStored ==
  /\ pc = "place" /\ entry[dest] # Nil
  /\ staged' = Nil /\ pc' = "done"
  /\ UNCHANGED <<entry, disk, written, synced, used, dest, warned, changed, handle>>

PlaceNew ==
  /\ pc = "place" /\ entry[dest] = Nil
  /\ pc' = "publish"
  /\ UNCHANGED <<entry, disk, written, synced, used, dest, staged, warned, changed,
                 handle>>

\* Fault: every document is put in place with a rename.
LinkOver ==
  /\ pc = "publish"
  /\ entry' = [entry EXCEPT ![dest] = staged]
  /\ pc' = "unstage" /\ changed' = TRUE
  /\ UNCHANGED <<disk, written, synced, used, dest, staged, warned, handle>>

\* Staging::publish: a hard link fails where the path is taken.
Link ==
  /\ pc = "publish"
  /\ entry[dest] = Nil
  /\ entry' = [entry EXCEPT ![dest] = staged]
  /\ pc' = "unstage" /\ changed' = TRUE
  /\ UNCHANGED <<disk, written, synced, used, dest, staged, warned, handle>>

\* The staging name goes, or stays unreported.
Unstage ==
  /\ pc = "unstage"
  /\ staged' = Nil /\ pc' = "flush"
  /\ UNCHANGED <<entry, disk, written, synced, used, dest, warned, changed, handle>>

\* Fault: a stored document is truncated and written again.
RewriteInPlace ==
  /\ pc = "publish" /\ dest \in Rewritable
  /\ IF entry[dest] = Nil
     THEN entry' = [entry EXCEPT ![dest] = staged] /\ UNCHANGED written
     ELSE written' = [written EXCEPT ![entry[dest]] = 0] /\ UNCHANGED entry
  /\ staged' = Nil /\ pc' = "flush" /\ changed' = TRUE
  /\ UNCHANGED <<disk, synced, used, dest, warned, handle>>

\* Staging::replace, of a rewritable kind: a rename takes the path whether it
\* is taken or not.
Rename ==
  /\ pc = "publish" /\ dest \in Rewritable
  /\ entry' = [entry EXCEPT ![dest] = staged]
  /\ staged' = Nil /\ pc' = "flush" /\ changed' = TRUE
  /\ UNCHANGED <<disk, written, synced, used, dest, warned, handle>>

\* A deletion unlinks a document, then flushes its directory.
Unlink(p) ==
  /\ pc = "idle" /\ entry[p] # Nil
  /\ entry' = [entry EXCEPT ![p] = Nil]
  /\ dest' = p /\ pc' = "flush" /\ warned' = FALSE /\ changed' = TRUE
  /\ UNCHANGED <<disk, written, synced, used, staged, handle>>

\* Fault: a directory flush that fails is passed over.
FlushUnreported ==
  /\ pc = "flush"
  /\ disk' \in {entry, disk}
  /\ pc' = "done"
  /\ UNCHANGED <<entry, written, synced, used, dest, staged, warned, changed, handle>>

\* sync_directory: the entries are durable, or the write is reported as weaker.
FlushDirectory ==
  /\ pc = "flush"
  /\ \/ disk' = entry /\ UNCHANGED warned
     \/ warned' = TRUE /\ UNCHANGED disk
  /\ pc' = "done"
  /\ UNCHANGED <<entry, written, synced, used, dest, staged, changed, handle>>

\* Fault: a refused write leaves its staging name.
AbandonStaged ==
  /\ pc \in {"write", "place", "publish"}
  /\ pc' = "idle"
  /\ UNCHANGED <<entry, disk, written, synced, used, dest, staged, warned, changed,
                 handle>>

\* A call is refused before the document is in place: the staging guard is
\* dropped and the command errs.
Abandon ==
  /\ pc \in {"write", "place", "publish"}
  /\ staged' = Nil /\ pc' = "idle"
  /\ UNCHANGED <<entry, disk, written, synced, used, dest, warned, changed, handle>>

Report ==
  /\ pc = "done"
  /\ pc' = "idle"
  /\ UNCHANGED <<entry, disk, written, synced, used, dest, staged, warned, changed,
                 handle>>

\* A killed writer leaves its staging name, which nothing adopts.
Kill ==
  /\ pc # "idle"
  /\ staged' = Nil /\ pc' = "idle"
  /\ UNCHANGED <<entry, disk, written, synced, used, dest, warned, changed, handle>>

----------------------------------------------------------------------------
(* Readers and the machine *)

\* read_document opens the path once and takes length and content from there.
Open(r, p) ==
  /\ handle' = [handle EXCEPT ![r] = entry[p]]
  /\ UNCHANGED <<entry, disk, written, synced, used, writer>>

PowerLoss ==
  /\ \E undone \in SUBSET {p \in Path : entry[p] # disk[p]},
        lost \in SUBSET {i \in Inode : written[i] # synced[i]} :
       /\ entry' = [p \in Path |-> IF p \in undone THEN disk[p] ELSE entry[p]]
       /\ written' = [i \in Inode |-> IF i \in lost THEN synced[i] ELSE written[i]]
  /\ disk' = entry' /\ synced' = written'
  /\ staged' = Nil /\ pc' = "idle"
  /\ handle' = [r \in Reader |-> Nil]
  /\ UNCHANGED <<used, dest, warned, changed>>

Next ==
  \/ \E p \in Path : Stage(p) \/ Unlink(p)
  \/ Write \/ Finish \/ FindStored \/ PlaceNew \/ Link \/ Unstage \/ Rename
  \/ FlushDirectory \/ Abandon \/ Report \/ Kill
  \/ \E r \in Reader, p \in Path : Open(r, p)
  \/ PowerLoss

Spec == Init /\ [][Next]_vars

----------------------------------------------------------------------------
(* Properties *)

TypeOK ==
  /\ entry \in [Path -> Inode \cup {Nil}] /\ disk \in [Path -> Inode \cup {Nil}]
  /\ written \in [Inode -> 0..Parts] /\ synced \in [Inode -> 0..Parts]
  /\ used \subseteq Inode
  /\ pc \in {"idle", "write", "place", "publish", "unstage", "flush", "done"}
  /\ dest \in Path
  /\ staged \in Inode \cup {Nil}
  /\ staged = Nil <=> pc \in {"idle", "flush", "done"}
  /\ warned \in BOOLEAN /\ changed \in BOOLEAN
  /\ handle \in [Reader -> Inode \cup {Nil}]

\* read_document: whatever is published, replaced or unlinked meanwhile, the
\* file a reader has open is a whole document and stays one.
ReadersSeeWhole == \A r \in Reader : handle[r] # Nil => written[handle[r]] = Parts

\* Staging::publish, replace and the deletion's flush: a change reported
\* without a warning is one a power loss does not undo.
ChangeIsDurable == pc = "done" /\ changed /\ ~warned => disk[dest] = entry[dest]

\* error-contract.md: an entry that may not be durable is reported at the
\* point of the write, whether the write made it or found it.
ReportedIsDurable == pc = "done" /\ ~warned => disk[dest] = entry[dest]

\* What a path with this file holds, to a reader with so many parts of it.
Held(file, parts) ==
  IF file = Nil THEN Nil ELSE IF parts[file] = Parts THEN file ELSE Torn

\* The paths promise what DocumentSlot says: whole documents, never replaced
\* but where rewritable, and undone whole by a power loss.
Slot == INSTANCE DocumentSlot WITH
          Document <- Inode,
          seen <- [p \in Path |-> Held(entry[p], written)],
          kept <- [p \in Path |-> Held(disk[p], synced)]

KeepsSlot == Slot!Spec
=============================================================================
