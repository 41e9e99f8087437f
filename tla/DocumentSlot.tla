---------------------------- MODULE DocumentSlot ----------------------------
(***************************************************************************)
(* What the atomic write promises of the paths of one directory: a path    *)
(* holds one whole document or nothing, a document is put where none was   *)
(* unless the path is one of a rewritable kind, and a power loss undoes an *)
(* entry that was not made durable, whole.                                 *)
(***************************************************************************)
CONSTANTS
  Path,           \* paths in the directory
  Rewritable,     \* paths of the kinds a document may be replaced in
  Document,       \* documents, each written once
  Nil             \* no document

VARIABLES
  seen,           \* what a reader of each path finds
  kept            \* what a power loss leaves there

Contents == [Path -> Document \cup {Nil}]

Init == seen = [p \in Path |-> Nil] /\ kept = seen

Publish(p, d) ==
  /\ seen[p] = Nil
  /\ seen' = [seen EXCEPT ![p] = d]
  /\ UNCHANGED kept

Replace(p, d) ==
  /\ p \in Rewritable
  /\ seen' = [seen EXCEPT ![p] = d]
  /\ UNCHANGED kept

Unlink(p) ==
  /\ seen' = [seen EXCEPT ![p] = Nil]
  /\ UNCHANGED kept

Flush == kept' = seen /\ UNCHANGED seen

\* Each entry is there as it was last seen or as it was last kept.
PowerLoss ==
  /\ seen' \in Contents
  /\ \A p \in Path : seen'[p] \in {seen[p], kept[p]}
  /\ kept' = seen'

Next ==
  \/ \E p \in Path, d \in Document : Publish(p, d) \/ Replace(p, d)
  \/ \E p \in Path : Unlink(p)
  \/ Flush
  \/ PowerLoss

Spec == Init /\ [][Next]_<<seen, kept>>
=============================================================================
