-------------------------------- MODULE Setup --------------------------------
(***************************************************************************)
(* An archive's directory: archive init, which makes it without the lock;  *)
(* what every command does to it before it takes the lock; and archive     *)
(* repair-permissions, which narrows what copy tooling widened.  Processes *)
(* run beside one another and are killed, and any of their calls may be    *)
(* refused.  No path here is a link, and all are on one filesystem.        *)
(***************************************************************************)
EXTENDS Naturals, Sequences

CONSTANTS
  Proc,
  Copied,         \* paths the user's copy tooling may widen
  Absent          \* what a path that is not there has for a mode

\* LAYOUT_DIRS: a directory comes after the one it is in.  Of the eleven, one
\* that holds directories, one in it that holds files, and one of files.
Layout == <<"objects", "objects/sha256", "cache">>

\* A file in each directory of files.
Holds == [d \in {"objects/sha256", "cache"} |->
            IF d = "cache" THEN "cached" ELSE "object"]

Dirs  == {Layout[n] : n \in DOMAIN Layout}
Files == {"object", "cached"}
Paths == {"root", "marker", "lock"} \cup Dirs \cup Files

Parent(path) ==
  CASE path = "objects/sha256" -> "objects"
    [] path = "object"         -> "objects/sha256"
    [] path = "cached"         -> "cache"
    [] OTHER                   -> "root"

Access == {"read", "write", "others"}
Owner  == {"read", "write"}

ASSUME SetupAssumption ==
  /\ Copied \subseteq Paths
  /\ Absent \notin Proc /\ \A m \in SUBSET Access : m # Absent

VARIABLES
  mode,           \* who may use each path: its owner to read, to write; others
  marker,         \* the init whose marker is there
  staged,         \* processes whose staging file is in the root
  run,            \* what each process runs, and how far it is
  widened         \* history: whether a path was widened since a repair began

setupVars == <<mode, marker, staged, run, widened>>

There(path) == mode[path] # Absent
May(access, path) == There(path) /\ access \in mode[path]
Wide(path) == May("others", path)

----------------------------------------------------------------------------
(* Commands *)

\* init, init_layout
InitSteps == <<"empty", "narrow", "stage", "publish", "layout", "done">>

\* What a command does to the directory: open_read_only, open, open and then the
\* lock, repair.
Steps(op) ==
  CASE op = "init"   -> InitSteps
    [] op = "read"   -> <<"inspect", "done">>
    [] op = "list"   -> <<"inspect", "layout", "done">>
    [] op = "write"  -> <<"inspect", "layout", "lock", "write", "done">>
    [] op = "repair" -> <<"identify", "lock", "repair", "done">>

Resting == [op |-> "none", step |-> 0, n |-> 1, missing |-> FALSE]

Running(p) == run[p].op # "none"

At(p, step) == Running(p) /\ Steps(run[p].op)[run[p].step] = step

Onwards(p) == run' = [run EXCEPT ![p].step = @ + 1, ![p].n = 1, ![p].missing = FALSE]

Start(p, op) ==
  /\ ~Running(p)
  /\ run' = [run EXCEPT ![p] = [Resting EXCEPT !.op = op, !.step = 1]]
  /\ UNCHANGED <<mode, marker, staged, widened>>

----------------------------------------------------------------------------
(* init *)

\* check_empty_for_init: one listing, before anything is written.
CheckEmpty(p) ==
  /\ At(p, "empty")
  /\ May("read", "root")
  /\ staged = {} /\ \A path \in Paths \ {"root"} : ~There(path)
  /\ Onwards(p)
  /\ UNCHANGED <<mode, marker, staged, widened>>

\* narrow_to_owner_only: not a mask but the whole mode, where it is too wide.
NarrowRoot(p) ==
  /\ At(p, "narrow")
  /\ mode' = IF Wide("root") THEN [mode EXCEPT !["root"] = Owner] ELSE mode
  /\ Onwards(p)
  /\ UNCHANGED <<marker, staged, widened>>

StageMarker(p) ==
  /\ At(p, "stage")
  /\ May("write", "root")
  /\ staged' = staged \cup {p}
  /\ Onwards(p)
  /\ UNCHANGED <<mode, marker, widened>>

\* Removing what the process staged, which may fail, and nothing says so.
Unstage(p) == staged' \in {staged, staged \ {p}}

\* Fault: the marker is put in place with a rename.
PublishMarkerOver(p) ==
  /\ At(p, "publish")
  /\ mode' = [mode EXCEPT !["marker"] = Owner]
  /\ marker' = p
  /\ Unstage(p)
  /\ Onwards(p)
  /\ UNCHANGED widened

\* write_document: a link, which a marker that is there refuses.
PublishMarker(p) ==
  /\ At(p, "publish")
  /\ ~There("marker")
  /\ mode' = [mode EXCEPT !["marker"] = Owner]
  /\ marker' = p
  /\ Unstage(p)
  /\ Onwards(p)
  /\ UNCHANGED widened

----------------------------------------------------------------------------
(* ensure_layout *)

NextDirectory(p) ==
  IF run[p].n = Len(Layout) THEN Onwards(p)
  ELSE run' = [run EXCEPT ![p].n = @ + 1, ![p].missing = FALSE]

\* Fault: a layout that has its first directory is taken to be whole.
LookDirectoryOnce(p) ==
  /\ At(p, "layout") /\ ~run[p].missing
  /\ IF There(Layout[run[p].n]) THEN Onwards(p)
                                ELSE run' = [run EXCEPT ![p].missing = TRUE]
  /\ UNCHANGED <<mode, marker, staged, widened>>

\* create_dir_owner_only looks first.
LookDirectory(p) ==
  /\ At(p, "layout") /\ ~run[p].missing
  /\ IF There(Layout[run[p].n]) THEN NextDirectory(p)
                                ELSE run' = [run EXCEPT ![p].missing = TRUE]
  /\ UNCHANGED <<mode, marker, staged, widened>>

\* Fault: a directory is created with the mode that directories get.
CreateDirectoryPlain(p) ==
  /\ At(p, "layout") /\ run[p].missing
  /\ ~There(Layout[run[p].n]) /\ May("write", Parent(Layout[run[p].n]))
  /\ mode' = [mode EXCEPT ![Layout[run[p].n]] = Access]
  /\ NextDirectory(p)
  /\ UNCHANGED <<marker, staged, widened>>

\* And then creates, which a directory made in between refuses.
CreateDirectory(p) ==
  /\ At(p, "layout") /\ run[p].missing
  /\ ~There(Layout[run[p].n]) /\ May("write", Parent(Layout[run[p].n]))
  /\ mode' = [mode EXCEPT ![Layout[run[p].n]] = Owner]
  /\ NextDirectory(p)
  /\ UNCHANGED <<marker, staged, widened>>

----------------------------------------------------------------------------
(* Opening *)

Identified == May("read", "root") /\ May("read", "marker")

\* Archive::inspect: the marker, then the modes.  The root, the marker, the
\* lock file and the layout are looked at; what they hold is not.
Inspect(p) ==
  /\ At(p, "inspect")
  /\ Identified
  /\ \A path \in Paths \ Files : ~Wide(path)
  /\ Onwards(p)
  /\ UNCHANGED <<mode, marker, staged, widened>>

\* repair: the marker alone.
Identify(p) ==
  /\ At(p, "identify")
  /\ Identified
  /\ Onwards(p)
  /\ UNCHANGED <<mode, marker, staged, widened>>

\* Fault: a lock that is there is taken over.
TakeLockOver(p) ==
  /\ At(p, "lock")
  /\ May("write", "root")
  /\ mode' = [mode EXCEPT !["lock"] = Owner]
  /\ widened' = IF run[p].op = "repair" THEN FALSE ELSE widened
  /\ Onwards(p)
  /\ UNCHANGED <<marker, staged>>

\* WriterLock::acquire
TakeLock(p) ==
  /\ At(p, "lock")
  /\ ~There("lock") /\ May("write", "root")
  /\ mode' = [mode EXCEPT !["lock"] = Owner]
  /\ widened' = IF run[p].op = "repair" THEN FALSE ELSE widened
  /\ Onwards(p)
  /\ UNCHANGED <<marker, staged>>

\* What a command writes, it writes for its owner; an object for reading.
WriteFile(p) ==
  /\ At(p, "write")
  /\ \E d \in DOMAIN Holds :
       LET file == Holds[d] IN
         /\ ~There(file) /\ May("write", d)
         /\ mode' = [mode EXCEPT ![file] = IF file = "object" THEN {"read"} ELSE Owner]
  /\ Onwards(p)
  /\ UNCHANGED <<marker, staged, widened>>

----------------------------------------------------------------------------
(* narrow_archive *)

\* Fault: the layout and what it holds, not the marker.
NarrowingLayoutOnly ==
  <<"root", "objects", "objects/sha256", "object", "cache", "cached">>

Narrowing == <<"root", "marker", "objects", "objects/sha256", "object", "cache", "cached">>

Mask(path) == IF path = "object" THEN {"read"} ELSE Owner

\* A path that is not there is passed over; a directory of files is listed
\* once its own mode is narrowed.
NarrowPath(p) ==
  /\ At(p, "repair")
  /\ LET path == Narrowing[run[p].n] IN
       /\ path \in Files /\ There(Parent(path)) => May("read", Parent(path))
       /\ mode' = IF There(path) THEN [mode EXCEPT ![path] = @ \cap Mask(path)] ELSE mode
  /\ IF run[p].n = Len(Narrowing) THEN Onwards(p)
     ELSE run' = [run EXCEPT ![p].n = @ + 1]
  /\ UNCHANGED <<marker, staged, widened>>

----------------------------------------------------------------------------
(* How a command ends *)

Holding(p) == run[p].op \in {"write", "repair"} /\ run[p].step > 0
                /\ \E k \in 1..(run[p].step - 1) : Steps(run[p].op)[k] = "lock"

\* The lock guard and the staging guard are dropped.  Either may fail to remove
\* its file, which is then left to the user.
CleanUp(p) ==
  /\ \/ Holding(p) /\ mode' = [mode EXCEPT !["lock"] = Absent]
     \/ UNCHANGED mode
  /\ IF At(p, "publish") THEN Unstage(p) ELSE UNCHANGED staged
  /\ run' = [run EXCEPT ![p] = Resting]
  /\ UNCHANGED <<marker, widened>>

Finish(p) == At(p, "done") /\ CleanUp(p)

\* A guard above does not hold, or a call is refused.
Refuse(p) == Running(p) /\ ~At(p, "done") /\ CleanUp(p)

Kill(p) ==
  /\ Running(p)
  /\ run' = [run EXCEPT ![p] = Resting]
  /\ UNCHANGED <<mode, marker, staged, widened>>

----------------------------------------------------------------------------
(* The user *)

Widen(path) ==
  /\ There(path)
  /\ mode' = [mode EXCEPT ![path] = @ \cup {"others"}]
  /\ widened' = TRUE
  /\ UNCHANGED <<marker, staged, run>>

\* A lock whose holder is gone, a staging file whose writer is gone.
TidyUp ==
  /\ \A p \in Proc : ~Running(p)
  /\ \/ There("lock") /\ mode' = [mode EXCEPT !["lock"] = Absent] /\ UNCHANGED staged
     \/ staged # {} /\ staged' = {} /\ UNCHANGED mode
  /\ UNCHANGED <<marker, run, widened>>

----------------------------------------------------------------------------
Init ==
  /\ \E root \in SUBSET Access : mode = [path \in Paths |-> IF path = "root" THEN root ELSE Absent]
  /\ marker = Absent /\ staged = {}
  /\ run = [p \in Proc |-> Resting]
  /\ widened = FALSE

Step(p) ==
  \/ \E op \in {"init", "read", "list", "write", "repair"} : Start(p, op)
  \/ CheckEmpty(p) \/ NarrowRoot(p) \/ StageMarker(p) \/ PublishMarker(p)
  \/ LookDirectory(p) \/ CreateDirectory(p)
  \/ Inspect(p) \/ Identify(p) \/ TakeLock(p) \/ WriteFile(p) \/ NarrowPath(p)
  \/ Finish(p) \/ Refuse(p) \/ Kill(p)

User == (\E path \in Copied : Widen(path)) \/ TidyUp

Next == (\E p \in Proc : Step(p)) \/ User

Spec == Init /\ [][Next]_setupVars

----------------------------------------------------------------------------
(* Properties *)

SetupTypeOK ==
  /\ DOMAIN mode = Paths /\ \A path \in Paths : There(path) => mode[path] \subseteq Access
  /\ marker \in Proc \cup {Absent}
  /\ staged \subseteq Proc
  /\ \A p \in Proc :
       /\ run[p].op \in {"none", "init", "read", "list", "write", "repair"}
       /\ run[p].step \in 0..6 /\ run[p].n \in 1..7
       /\ run[p].missing \in BOOLEAN
       /\ Holding(p) => There("lock") /\ \A q \in Proc \ {p} : ~Holding(q)
  /\ widened \in BOOLEAN

\* init: of several that found the directory empty, one makes the archive, and
\* its identifier is the one the marker keeps.
InitOwnsMarker ==
  \A p \in Proc :
    run[p].op = "init" /\ (At(p, "layout") \/ At(p, "done")) => marker = p

\* ensure_layout: a command that goes on to write, or reads what Archive::open
\* opened, or reports an archive made, finds every directory there, whichever
\* init was cut short before.
LayoutWhole ==
  \A p \in Proc :
    \/ run[p].op = "write" /\ (At(p, "lock") \/ At(p, "write") \/ At(p, "done"))
    \/ run[p].op \in {"init", "list"} /\ At(p, "done")
    => \A d \in Dirs : There(d)

\* narrow_archive: when a repair is done, an open finds nothing too wide, and
\* nor is any file, unless the user widened something while it ran.
RepairSuffices ==
  \A p \in Proc : run[p].op = "repair" /\ At(p, "done") /\ ~widened =>
    \A path \in Paths : ~Wide(path)

\* permissions.rs: nothing openPapir does gives others access, and a repair
\* gives nobody any.
NothingWidens ==
  [][\A p \in Proc : Step(p) =>
       \A path \in Paths :
         /\ mode'[path] # Absent /\ "others" \in mode'[path] => Wide(path)
         /\ At(p, "repair") /\ There(path) /\ mode'[path] # Absent =>
              mode'[path] \subseteq mode[path]]_setupVars
=============================================================================
