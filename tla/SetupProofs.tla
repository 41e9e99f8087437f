----------------------------- MODULE SetupProofs -----------------------------
(***************************************************************************)
(* Why inits and commands that race on a directory leave one archive, and  *)
(* a whole one.                                                            *)
(*                                                                         *)
(* A marker is linked only where there is none and is never taken away, so *)
(* the init that made it is the only one that gets past that step.  No     *)
(* command unlinks a directory of the layout, so what ensure_layout has    *)
(* found or made so far is still there when it has the rest (Laid).  The   *)
(* lock file goes only with its holder, or with nobody running.  A repair  *)
(* narrows every path in turn under that lock, and no step of a command    *)
(* widens one, so what it has passed is still narrow at its end            *)
(* (Narrowed).                                                             *)
(***************************************************************************)
EXTENDS Setup, TLAPS

Ops == {"none", "init", "read", "list", "write", "repair"}

\* The step that ends each command.
LastStep(op) ==
  CASE op = "none" -> 0 [] op = "init" -> 6 [] op = "read" -> 2
    [] op = "list" -> 3 [] op = "write" -> 5 [] op = "repair" -> 4

Laying(r) == (r.op = "init" /\ r.step = 5) \/ (r.op \in {"list", "write"} /\ r.step = 2)

Published(r) == r.op = "init" /\ r.step >= 5

\* The k-th directory is one that ensure_layout has passed.
Laid(r, k) ==
  \/ r.op = "init" /\ (r.step > 5 \/ (r.step = 5 /\ k < r.n))
  \/ r.op \in {"list", "write"} /\ (r.step > 2 \/ (r.step = 2 /\ k < r.n))

Locked(r) == (r.op = "write" /\ r.step > 3) \/ (r.op = "repair" /\ r.step > 2)

Modes == (SUBSET Access) \cup {Absent}

RunType == [op : Ops, step : 0..6, n : 1..7, missing : BOOLEAN]

GoodRun(r) ==
  /\ r \in RunType
  /\ r.op # "none" => r.step \in 1..LastStep(r.op)
  /\ Laying(r) => r.n \in 1..3

Typed ==
  /\ mode \in [Paths -> Modes]
  /\ run \in [Proc -> RunType] /\ \A p \in Proc : GoodRun(run[p])
  /\ marker \in Proc \cup {Absent} /\ staged \subseteq Proc /\ widened \in BOOLEAN

Owned ==
  /\ marker # Absent => There("marker")
  /\ \A p \in Proc : Published(run[p]) => marker = p

Whole == \A p \in Proc : \A k \in 1..3 : Laid(run[p], k) => There(Layout[k])

Exclusive ==
  \A p \in Proc : Locked(run[p]) =>
    There("lock") /\ \A q \in Proc \ {p} : ~Locked(run[q])

IInv == Typed /\ Owned /\ Whole /\ Exclusive

----------------------------------------------------------------------------
(* Where a command is *)

LEMMA LayoutIs ==
  /\ Len(Layout) = 3 /\ Dirs = {Layout[k] : k \in 1..3}
  /\ \A k \in 1..3 : Layout[k] \in Paths \ {"lock", "marker"}
<1>1. Len(Layout) = 3 /\ Layout[1] = "objects" /\ Layout[2] = "objects/sha256"
      /\ Layout[3] = "cache" /\ DOMAIN Layout = 1..3
  BY DEF Layout
<1>2. Dirs = {Layout[k] : k \in 1..3}
  BY <1>1 DEF Dirs
<1>3. {Layout[k] : k \in 1..3} \subseteq Paths
  BY <1>2 DEF Paths
<1>4. \A k \in 1..3 : k = 1 \/ k = 2 \/ k = 3
  OBVIOUS
<1> QED
  BY <1>1, <1>2, <1>3, <1>4

LEMMA OwnerIs ==
  /\ Owner \in Modes /\ Owner # Absent
  /\ \A m \in Modes \ {Absent} : m \subseteq Access
  /\ \A m \in SUBSET Access : m \in Modes /\ m # Absent
BY SetupAssumption DEF Owner, Access, Modes

LEMMA Where ==
  ASSUME NEW p \in Proc, GoodRun(run[p])
  PROVE  /\ At(p, "empty")    <=> run[p].op = "init" /\ run[p].step = 1
         /\ At(p, "narrow")   <=> run[p].op = "init" /\ run[p].step = 2
         /\ At(p, "stage")    <=> run[p].op = "init" /\ run[p].step = 3
         /\ At(p, "publish")  <=> run[p].op = "init" /\ run[p].step = 4
         /\ At(p, "layout")   <=> Laying(run[p])
         /\ At(p, "inspect")  <=> run[p].op \in {"read", "list", "write"} /\ run[p].step = 1
         /\ At(p, "identify") <=> run[p].op = "repair" /\ run[p].step = 1
         /\ At(p, "lock")     <=> \/ run[p].op = "write" /\ run[p].step = 3
                                  \/ run[p].op = "repair" /\ run[p].step = 2
         /\ At(p, "write")    <=> run[p].op = "write" /\ run[p].step = 4
         /\ At(p, "repair")   <=> run[p].op = "repair" /\ run[p].step = 3
         /\ At(p, "done")     <=> Running(p) /\ run[p].step = LastStep(run[p].op)
         /\ Holding(p)        <=> Locked(run[p])
<1> USE DEF At, Running, Laying
<1>0. run[p].op \in Ops /\ run[p].step \in 0..6
  BY DEF GoodRun, RunType
<1>1. CASE run[p].op = "none"
  BY <1>1 DEF Holding, Locked
<1>2. CASE run[p].op = "init"
  <2>1. run[p].step \in 1..6
    BY <1>2 DEF GoodRun, LastStep
  <2>2. Steps("init") = <<"empty", "narrow", "stage", "publish", "layout", "done">>
    BY DEF Steps, InitSteps
  <2> QED
    BY <1>2, <2>1, <2>2 DEF Holding, Locked, LastStep
<1>3. CASE run[p].op = "read"
  <2>1. run[p].step \in 1..2
    BY <1>3 DEF GoodRun, LastStep
  <2>2. Steps("read") = <<"inspect", "done">>
    BY DEF Steps
  <2> QED
    BY <1>3, <2>1, <2>2 DEF Holding, Locked, LastStep
<1>4. CASE run[p].op = "list"
  <2>1. run[p].step \in 1..3
    BY <1>4 DEF GoodRun, LastStep
  <2>2. Steps("list") = <<"inspect", "layout", "done">>
    BY DEF Steps
  <2> QED
    BY <1>4, <2>1, <2>2 DEF Holding, Locked, LastStep
<1>5. CASE run[p].op = "write"
  <2>1. run[p].step \in 1..5
    BY <1>5 DEF GoodRun, LastStep
  <2>2. Steps("write") = <<"inspect", "layout", "lock", "write", "done">>
    BY DEF Steps
  <2> QED
    BY <1>5, <2>1, <2>2 DEF Holding, Locked, LastStep
<1>6. CASE run[p].op = "repair"
  <2>1. run[p].step \in 1..4
    BY <1>6 DEF GoodRun, LastStep
  <2>2. Steps("repair") = <<"identify", "lock", "repair", "done">>
    BY DEF Steps
  <2> QED
    BY <1>6, <2>1, <2>2 DEF Holding, Locked, LastStep
<1> QED
  BY <1>0, <1>1, <1>2, <1>3, <1>4, <1>5, <1>6 DEF Ops

----------------------------------------------------------------------------
(* A step of p leaves the other processes as they are *)

\* What the next step of p has to keep, each for p alone.
LEMMA RunsKeep ==
  ASSUME Typed, NEW p \in Proc, NEW r, GoodRun(r), run' = [run EXCEPT ![p] = r]
  PROVE  run' \in [Proc -> RunType] /\ \A q \in Proc : GoodRun(run'[q])
<1>1. r \in RunType
  BY DEF GoodRun
<1> QED
  BY <1>1 DEF Typed

LEMMA OwnedKeeps ==
  ASSUME Typed, Owned, NEW p \in Proc, NEW r, run' = [run EXCEPT ![p] = r],
         Published(r) => Published(run[p]),
         marker' = marker, There("marker") => There("marker")'
  PROVE  Owned'
BY DEF Owned, Typed

LEMMA WholeKeeps ==
  ASSUME Typed, Whole, NEW p \in Proc, NEW r, run' = [run EXCEPT ![p] = r],
         \A k \in 1..3 : There(Layout[k]) => There(Layout[k])',
         \A k \in 1..3 : Laid(r, k) => Laid(run[p], k) \/ There(Layout[k])'
  PROVE  Whole'
<1> SUFFICES ASSUME NEW q \in Proc, NEW k \in 1..3, Laid(run'[q], k)
             PROVE  There(Layout[k])'
  BY DEF Whole, There
<1>1. CASE q = p
  <2>1. run'[q] = r
    BY <1>1 DEF Typed
  <2> QED
    BY <1>1, <2>1 DEF Whole
<1>2. CASE q # p
  <2>1. run'[q] = run[q]
    BY <1>2 DEF Typed
  <2> QED
    BY <2>1 DEF Whole
<1> QED
  BY <1>1, <1>2

LEMMA ExclusiveKeeps ==
  ASSUME Typed, Exclusive, NEW p \in Proc, NEW r, run' = [run EXCEPT ![p] = r],
         Locked(r) => Locked(run[p]),
         There("lock") => There("lock")'
  PROVE  Exclusive'
BY DEF Exclusive, Typed

LEMMA StepsOnTyped ==
  ASSUME NEW r \in RunType, NEW k \in 0..6, NEW n \in 1..7, NEW b \in BOOLEAN
  PROVE  [r EXCEPT !.step = k, !.n = n, !.missing = b] \in RunType
BY DEF RunType

LEMMA CountsOnTyped ==
  ASSUME NEW r \in RunType, NEW n \in 1..7, NEW b \in BOOLEAN
  PROVE  [r EXCEPT !.n = n, !.missing = b] \in RunType
BY DEF RunType

\* A step on from one that is not the last.
LEMMA OnwardsIs ==
  ASSUME Typed, NEW p \in Proc, run[p].op # "none", run[p].step < LastStep(run[p].op),
         Onwards(p)
  PROVE  \E r : /\ run' = [run EXCEPT ![p] = r] /\ GoodRun(r)
                /\ r.op = run[p].op /\ r.step = run[p].step + 1 /\ r.n = 1
<1> DEFINE r == [run[p] EXCEPT !.step = @ + 1, !.n = 1, !.missing = FALSE]
<1>1. run[p] \in RunType /\ GoodRun(run[p])
  BY DEF Typed
<1>2. run' = [run EXCEPT ![p] = r]
  BY DEF Onwards
<1>3. r.op = run[p].op /\ r.step = run[p].step + 1 /\ r.n = 1
  BY <1>1 DEF RunType
<1>4. LastStep(run[p].op) \in 0..6
  BY <1>1 DEF RunType, Ops, LastStep
<1>5. r.step \in 1..LastStep(r.op) /\ r.step \in 0..6
  BY <1>1, <1>3, <1>4 DEF GoodRun, RunType
<1>6. r \in RunType
  <2>1. run[p].step + 1 \in 0..6 /\ 1 \in 1..7 /\ FALSE \in BOOLEAN /\ run[p] \in RunType
    BY <1>1, <1>3, <1>5
  <2> QED
    BY <2>1, StepsOnTyped, Zenon
<1>7. GoodRun(r)
  BY <1>3, <1>5, <1>6 DEF GoodRun
<1> QED
  BY <1>2, <1>3, <1>7

Kept == \A path \in Paths : There(path) => There(path)'

\* A step on that publishes no marker, lays no directory and takes no lock.
LEMMA PlainStep ==
  ASSUME IInv, NEW p \in Proc,
         \/ At(p, "empty") \/ At(p, "narrow") \/ At(p, "stage") \/ At(p, "inspect")
         \/ At(p, "identify") \/ At(p, "write") \/ At(p, "repair"),
         Onwards(p), Kept,
         mode' \in [Paths -> Modes],
         marker' = marker, staged' \subseteq Proc, widened' = widened
  PROVE  IInv'
<1>0. Typed /\ Owned /\ Whole /\ Exclusive /\ GoodRun(run[p])
  BY DEF IInv, Typed
<1>1. \/ run[p].op = "init" /\ run[p].step \in 1..3
      \/ run[p].op \in {"read", "list", "write", "repair"} /\ run[p].step = 1
      \/ run[p].op = "write" /\ run[p].step = 4
      \/ run[p].op = "repair" /\ run[p].step = 3
  BY <1>0, Where
<1>2. run[p].op # "none" /\ run[p].step < LastStep(run[p].op)
  BY <1>1 DEF LastStep
<1>3. PICK r : /\ run' = [run EXCEPT ![p] = r] /\ GoodRun(r)
               /\ r.op = run[p].op /\ r.step = run[p].step + 1 /\ r.n = 1
  BY <1>0, <1>2, OnwardsIs
<1>4. Typed'
  BY <1>0, <1>3, RunsKeep DEF Typed
<1>5. Owned'
  <2>1. Published(r) => Published(run[p])
    BY <1>1, <1>3 DEF Published
  <2>2. There("marker") => There("marker")'
    BY DEF Kept, Paths
  <2> QED
    BY <1>0, <1>3, <2>1, <2>2, OwnedKeeps
<1>6. Whole'
  <2>1. \A k \in 1..3 : Laid(r, k) => Laid(run[p], k)
    BY <1>1, <1>3 DEF Laid
  <2>2. \A k \in 1..3 : There(Layout[k]) => There(Layout[k])'
    BY LayoutIs DEF Kept
  <2> QED
    BY <1>0, <1>3, <2>1, <2>2, WholeKeeps
<1>7. Exclusive'
  <2>1. Locked(r) => Locked(run[p])
    BY <1>1, <1>3 DEF Locked
  <2>2. There("lock") => There("lock")'
    BY DEF Kept, Paths
  <2> QED
    BY <1>0, <1>3, <2>1, <2>2, ExclusiveKeeps
<1> QED
  BY <1>4, <1>5, <1>6, <1>7 DEF IInv

----------------------------------------------------------------------------
(* init *)

LEMMA InitPlainKeeps ==
  ASSUME IInv, NEW p \in Proc, CheckEmpty(p) \/ NarrowRoot(p) \/ StageMarker(p)
  PROVE  IInv'
<1>0. mode \in [Paths -> Modes] /\ "root" \in Paths
      /\ Owner \in Modes /\ Owner # Absent /\ staged \subseteq Proc
  BY OwnerIs DEF IInv, Typed, Paths
<1>1. CASE CheckEmpty(p)
  <2>1. At(p, "empty") /\ Onwards(p) /\ UNCHANGED <<mode, marker, staged, widened>>
    BY <1>1 DEF CheckEmpty
  <2>2. Kept
    BY <2>1 DEF Kept, There
  <2> QED
    BY <1>0, <2>1, <2>2, PlainStep
<1>2. CASE NarrowRoot(p)
  <2>1. At(p, "narrow") /\ Onwards(p) /\ UNCHANGED <<marker, staged, widened>>
    BY <1>2 DEF NarrowRoot
  <2>2. mode' \in {mode, [mode EXCEPT !["root"] = Owner]}
    BY <1>2 DEF NarrowRoot
  <2>3. Kept
    BY <1>0, <2>2, SetupAssumption DEF Kept, There
  <2>4. mode' \in [Paths -> Modes]
    BY <1>0, <2>2
  <2> QED
    BY <1>0, <2>1, <2>3, <2>4, PlainStep
<1>3. CASE StageMarker(p)
  <2>1. At(p, "stage") /\ Onwards(p) /\ UNCHANGED <<mode, marker, widened>>
        /\ staged' \subseteq Proc
    BY <1>0, <1>3 DEF StageMarker
  <2>2. Kept
    BY <2>1 DEF Kept, There
  <2> QED
    BY <1>0, <2>1, <2>2, PlainStep
<1> QED
  BY <1>1, <1>2, <1>3

\* No marker was there, so no other init had published one.
LEMMA PublishMarkerKeeps ==
  ASSUME IInv, NEW p \in Proc, PublishMarker(p)
  PROVE  IInv'
<1>0. Typed /\ Owned /\ Whole /\ Exclusive /\ GoodRun(run[p])
  BY DEF IInv, Typed
<1>1. run[p].op = "init" /\ run[p].step = 4 /\ Onwards(p)
  BY <1>0, Where DEF PublishMarker
<1>2. PICK r : /\ run' = [run EXCEPT ![p] = r] /\ GoodRun(r)
               /\ r.op = run[p].op /\ r.step = run[p].step + 1 /\ r.n = 1
  BY <1>0, <1>1, OnwardsIs DEF LastStep
<1>3. mode' = [mode EXCEPT !["marker"] = Owner] /\ marker' = p /\ staged' \subseteq Proc
      /\ widened' = widened /\ ~There("marker")
  BY <1>0 DEF PublishMarker, Unstage, Typed
<1>4. mode \in [Paths -> Modes] /\ "marker" \in Paths /\ Owner \in Modes /\ Owner # Absent
  BY <1>0, OwnerIs DEF Typed, Paths
<1>5. mode' \in [Paths -> Modes]
  BY <1>3, <1>4
<1>6. There("marker")' /\ \A path \in Paths \ {"marker"} : mode'[path] = mode[path]
  BY <1>3, <1>4, SetupAssumption DEF There
<1>7. Typed'
  BY <1>0, <1>2, <1>3, <1>5, RunsKeep DEF Typed
<1>8. Owned'
  <2>1. \A q \in Proc : ~Published(run[q])
    BY <1>0, <1>3, SetupAssumption DEF Owned
  <2> SUFFICES ASSUME NEW q \in Proc, q # p PROVE ~Published(run'[q])
    BY <1>3, <1>6 DEF Owned
  <2> QED
    BY <1>0, <1>2, <2>1 DEF Typed
<1>9. Whole'
  <2>1. \A k \in 1..3 : ~Laid(r, k)
    BY <1>1, <1>2 DEF Laid
  <2>2. \A k \in 1..3 : There(Layout[k]) => There(Layout[k])'
    BY <1>6, LayoutIs DEF There
  <2> QED
    BY <1>0, <1>2, <2>1, <2>2, WholeKeeps
<1>10. Exclusive'
  <2>1. ~Locked(r)
    BY <1>1, <1>2 DEF Locked
  <2>2. There("lock") => There("lock")'
    BY <1>6 DEF There, Paths
  <2> QED
    BY <1>0, <1>2, <2>1, <2>2, ExclusiveKeeps
<1> QED
  BY <1>7, <1>8, <1>9, <1>10 DEF IInv

----------------------------------------------------------------------------
(* ensure_layout *)

\* The step of p within the layout: its new r passes no directory but the one
\* that is there now.
LEMMA LayingKeeps ==
  ASSUME IInv, NEW p \in Proc, Laying(run[p]), mode'[Layout[run[p].n]] # Absent, Kept,
         mode' \in [Paths -> Modes],
         UNCHANGED <<marker, staged, widened>>, NextDirectory(p)
  PROVE  IInv'
<1>0. Typed /\ Owned /\ Whole /\ Exclusive /\ GoodRun(run[p]) /\ run[p] \in RunType
      /\ run[p].n \in 1..3
  BY DEF IInv, Typed, GoodRun
<1>1. \E r : /\ run' = [run EXCEPT ![p] = r] /\ GoodRun(r) /\ r.op = run[p].op
             /\ \/ run[p].n = 3 /\ r.step = run[p].step + 1 /\ r.n = 1
                \/ r.step = run[p].step /\ r.n = run[p].n + 1
  <2>1. CASE run[p].n = 3
    <3>1. Onwards(p)
      BY <2>1, LayoutIs DEF NextDirectory
    <3>2. run[p].op # "none" /\ run[p].step < LastStep(run[p].op)
      BY DEF Laying, LastStep
    <3> QED
      BY <1>0, <2>1, <3>1, <3>2, OnwardsIs
  <2>2. CASE run[p].n # 3
    <3> DEFINE r == [run[p] EXCEPT !.n = run[p].n + 1, !.missing = FALSE]
    <3>1. run' = [run EXCEPT ![p] = r]
      BY <2>2, LayoutIs DEF NextDirectory
    <3>2. run[p].n + 1 \in 1..3
      BY <1>0, <2>2
    <3>3. r.op = run[p].op /\ r.step = run[p].step /\ r.n = run[p].n + 1
      BY <1>0 DEF RunType
    <3>4. run[p].n + 1 \in 1..7 /\ FALSE \in BOOLEAN /\ run[p] \in RunType
      BY <1>0, <3>2
    <3>5. r \in RunType
      BY <3>4, CountsOnTyped, Zenon
    <3>6. GoodRun(r)
      BY <1>0, <3>2, <3>3, <3>5 DEF GoodRun
    <3> QED
      BY <3>1, <3>3, <3>6
  <2> QED
    BY <2>1, <2>2
<1>2. PICK r : /\ run' = [run EXCEPT ![p] = r] /\ GoodRun(r) /\ r.op = run[p].op
               /\ \/ run[p].n = 3 /\ r.step = run[p].step + 1 /\ r.n = 1
                  \/ r.step = run[p].step /\ r.n = run[p].n + 1
  BY <1>1
<1>3. Typed'
  BY <1>0, <1>2, RunsKeep DEF Typed
<1>4. Owned'
  <2>1. Published(r) => Published(run[p])
    BY <1>2 DEF Published, Laying
  <2>2. There("marker") => There("marker")'
    BY DEF Kept, Paths
  <2> QED
    BY <1>0, <1>2, <2>1, <2>2, OwnedKeeps
<1>5. Whole'
  <2>1. \A k \in 1..3 : Laid(r, k) => Laid(run[p], k) \/ k = run[p].n
    BY <1>0, <1>2 DEF Laid, Laying
  <2>2. \A k \in 1..3 : There(Layout[k]) => There(Layout[k])'
    BY LayoutIs DEF Kept
  <2>3. \A k \in 1..3 : Laid(r, k) => Laid(run[p], k) \/ There(Layout[k])'
    BY <2>1 DEF There
  <2> QED
    BY <1>0, <1>2, <2>2, <2>3, WholeKeeps
<1>6. Exclusive'
  <2>1. ~Locked(r)
    BY <1>2 DEF Locked, Laying
  <2>2. There("lock") => There("lock")'
    BY DEF Kept, Paths
  <2> QED
    BY <1>0, <1>2, <2>1, <2>2, ExclusiveKeeps
<1> QED
  BY <1>3, <1>4, <1>5, <1>6 DEF IInv

\* To have found a directory missing passes none.
LEMMA MissingKeeps ==
  ASSUME IInv, NEW p \in Proc, run' = [run EXCEPT ![p].missing = TRUE],
         UNCHANGED <<mode, marker, staged, widened>>
  PROVE  IInv'
<1> DEFINE r == [run[p] EXCEPT !.missing = TRUE]
<1>0. Typed /\ Owned /\ Whole /\ Exclusive /\ GoodRun(run[p]) /\ run[p] \in RunType
  BY DEF IInv, Typed
<1>1. run' = [run EXCEPT ![p] = r]
  OBVIOUS
<1>2. r \in RunType /\ r.op = run[p].op /\ r.step = run[p].step /\ r.n = run[p].n
  BY <1>0 DEF RunType
<1>3. GoodRun(r)
  BY <1>0, <1>2 DEF GoodRun, Laying
<1> HIDE DEF r
<1>4. Typed'
  BY <1>0, <1>1, <1>3, RunsKeep DEF Typed
<1>5. Owned'
  BY <1>0, <1>1, <1>2, OwnedKeeps DEF Published, There
<1>6. Whole'
  BY <1>0, <1>1, <1>2, WholeKeeps DEF Laid, There
<1>7. Exclusive'
  BY <1>0, <1>1, <1>2, ExclusiveKeeps DEF Locked, There
<1> QED
  BY <1>4, <1>5, <1>6, <1>7 DEF IInv

LEMMA DirectoryKeeps ==
  ASSUME IInv, NEW p \in Proc, LookDirectory(p) \/ CreateDirectory(p)
  PROVE  IInv'
<1>0. mode \in [Paths -> Modes] /\ Owner \in Modes /\ Owner # Absent
      /\ GoodRun(run[p])
  BY OwnerIs DEF IInv, Typed
<1>1. Laying(run[p])
  BY <1>0, Where DEF LookDirectory, CreateDirectory
<1>2. Layout[run[p].n] \in Paths
  BY <1>0, <1>1, LayoutIs DEF GoodRun
<1>3. CASE LookDirectory(p)
  <2>1. UNCHANGED <<mode, marker, staged, widened>>
    BY <1>3 DEF LookDirectory
  <2>2. Kept
    BY <2>1 DEF Kept, There
  <2>3. CASE There(Layout[run[p].n])
    <3>1. NextDirectory(p) /\ mode'[Layout[run[p].n]] # Absent
      BY <1>2, <1>3, <2>2, <2>3 DEF LookDirectory, There
    <3> QED
      BY <1>0, <1>1, <2>1, <2>2, <3>1, LayingKeeps
  <2>4. CASE ~There(Layout[run[p].n])
    BY <1>3, <2>1, <2>4, MissingKeeps DEF LookDirectory
  <2> QED
    BY <2>3, <2>4
<1>4. CASE CreateDirectory(p)
  <2>1. /\ mode' = [mode EXCEPT ![Layout[run[p].n]] = Owner]
        /\ NextDirectory(p) /\ UNCHANGED <<marker, staged, widened>>
    BY <1>4 DEF CreateDirectory
  <2>2. mode' \in [Paths -> Modes]
    BY <1>0, <2>1
  <2>3. Kept
    BY <1>0, <2>1, SetupAssumption DEF Kept, There
  <2>4. mode'[Layout[run[p].n]] # Absent
    BY <1>0, <1>2, <2>1, SetupAssumption
  <2> QED
    BY <1>1, <2>1, <2>2, <2>3, <2>4, LayingKeeps DEF There
<1> QED
  BY <1>3, <1>4

----------------------------------------------------------------------------
(* Opening, locking, writing, repairing *)

LEMMA LookKeeps ==
  ASSUME IInv, NEW p \in Proc, Inspect(p) \/ Identify(p)
  PROVE  IInv'
<1>1. (At(p, "inspect") \/ At(p, "identify")) /\ Onwards(p)
      /\ UNCHANGED <<mode, marker, staged, widened>>
  BY DEF Inspect, Identify
<1>2. Kept /\ mode' \in [Paths -> Modes] /\ staged' \subseteq Proc
  BY <1>1 DEF Kept, There, IInv, Typed
<1> QED
  BY <1>1, <1>2, PlainStep

LEMMA WriteFileKeeps ==
  ASSUME IInv, NEW p \in Proc, WriteFile(p)
  PROVE  IInv'
<1>1. At(p, "write") /\ Onwards(p) /\ UNCHANGED <<marker, staged, widened>>
  BY DEF WriteFile
<1>2. PICK file, m : m \in SUBSET Access /\ mode' = [mode EXCEPT ![file] = m]
  <2>1. PICK d \in DOMAIN Holds :
          mode' = [mode EXCEPT ![Holds[d]] = IF Holds[d] = "object" THEN {"read"} ELSE Owner]
    BY DEF WriteFile
  <2>2. {"read"} \in SUBSET Access /\ Owner \in SUBSET Access
    BY DEF Access, Owner
  <2> QED
    BY <2>1, <2>2
<1>3. mode \in [Paths -> Modes] /\ m \in Modes /\ m # Absent /\ staged \subseteq Proc
  BY <1>2, OwnerIs DEF IInv, Typed
<1>4. Kept /\ mode' \in [Paths -> Modes]
  BY <1>2, <1>3 DEF Kept, There
<1> QED
  BY <1>1, <1>3, <1>4, PlainStep

\* A lock that is not there is taken by one.
LEMMA TakeLockKeeps ==
  ASSUME IInv, NEW p \in Proc, TakeLock(p)
  PROVE  IInv'
<1>0. Typed /\ Owned /\ Whole /\ Exclusive /\ GoodRun(run[p])
  BY DEF IInv, Typed
<1>1. /\ mode' = [mode EXCEPT !["lock"] = Owner] /\ ~There("lock") /\ Onwards(p)
      /\ widened' \in BOOLEAN /\ UNCHANGED <<marker, staged>>
  BY <1>0 DEF TakeLock, Typed
<1>2. (run[p].op = "write" /\ run[p].step = 3) \/ (run[p].op = "repair" /\ run[p].step = 2)
  BY <1>0, Where DEF TakeLock
<1>3. PICK r : /\ run' = [run EXCEPT ![p] = r] /\ GoodRun(r)
               /\ r.op = run[p].op /\ r.step = run[p].step + 1 /\ r.n = 1
  BY <1>0, <1>1, <1>2, OnwardsIs DEF LastStep
<1>4. mode \in [Paths -> Modes] /\ "lock" \in Paths /\ "marker" \in Paths
  BY <1>0 DEF Typed, Paths
<1>5. mode' \in [Paths -> Modes] /\ There("lock")'
      /\ \A path \in Paths \ {"lock"} : mode'[path] = mode[path]
  BY <1>1, <1>4, OwnerIs DEF There
<1>6. Typed'
  BY <1>0, <1>1, <1>3, <1>5, RunsKeep DEF Typed
<1>7. Owned'
  <2>1. ~Published(r)
    BY <1>2, <1>3 DEF Published
  <2>2. There("marker") => There("marker")'
    BY <1>4, <1>5 DEF There
  <2> QED
    BY <1>0, <1>1, <1>3, <2>1, <2>2, OwnedKeeps
<1>8. Whole'
  <2>1. \A k \in 1..3 : Laid(r, k) => Laid(run[p], k)
    BY <1>2, <1>3 DEF Laid
  <2>2. \A k \in 1..3 : There(Layout[k]) => There(Layout[k])'
    BY <1>5, LayoutIs DEF There
  <2> QED
    BY <1>0, <1>3, <2>1, <2>2, WholeKeeps
<1>9. Exclusive'
  <2>1. \A q \in Proc : ~Locked(run[q])
    BY <1>0, <1>1 DEF Exclusive
  <2>2. \A q \in Proc \ {p} : ~Locked(run'[q])
    BY <1>0, <1>3, <2>1 DEF Typed
  <2> QED
    BY <1>5, <2>2 DEF Exclusive
<1> QED
  BY <1>6, <1>7, <1>8, <1>9 DEF IInv

\* A repair takes nothing away but modes.
LEMMA NarrowPathKeeps ==
  ASSUME IInv, NEW p \in Proc, NarrowPath(p)
  PROVE  IInv'
<1>0. Typed /\ Owned /\ Whole /\ Exclusive /\ GoodRun(run[p]) /\ run[p] \in RunType
  BY DEF IInv, Typed
<1>1. At(p, "repair") /\ UNCHANGED <<marker, staged, widened>>
  BY DEF NarrowPath
<1>2. run[p].op = "repair" /\ run[p].step = 3
  BY <1>0, <1>1, Where
<1>3. Kept /\ mode' \in [Paths -> Modes]
  <2> DEFINE path == Narrowing[run[p].n]
  <2>1. mode' = IF There(path) THEN [mode EXCEPT ![path] = @ \cap Mask(path)] ELSE mode
    BY DEF NarrowPath
  <2>2. mode \in [Paths -> Modes]
    BY <1>0 DEF Typed
  <2>3. CASE There(path) /\ path \in Paths
    <3> DEFINE m == mode[path] \cap Mask(path)
    <3>1. mode[path] \in SUBSET Access
      BY <2>2, <2>3, OwnerIs DEF There
    <3>2. m \in SUBSET Access
      BY <3>1
    <3>3. m \in Modes /\ m # Absent
      BY <3>2, OwnerIs
    <3>4. mode' = [mode EXCEPT ![path] = m]
      BY <2>1, <2>3
    <3> QED
      BY <2>2, <3>3, <3>4 DEF Kept, There
  <2>4. CASE path \notin Paths \/ ~There(path)
    <3>1. mode' = mode
      BY <2>1, <2>2, <2>4
    <3> QED
      BY <2>2, <3>1 DEF Kept, There
  <2> QED
    BY <2>3, <2>4
<1>4. CASE Onwards(p)
  BY <1>0, <1>1, <1>3, <1>4, PlainStep DEF Typed
<1>5. CASE run[p].n # Len(Narrowing) /\ run' = [run EXCEPT ![p].n = @ + 1]
  <2> DEFINE r == [run[p] EXCEPT !.n = @ + 1]
  <2>1. Len(Narrowing) = 7
    BY DEF Narrowing
  <2>2. run[p].n + 1 \in 1..7
    BY <1>0, <1>5, <2>1 DEF RunType
  <2>3. r \in RunType /\ r.op = "repair" /\ r.step = 3
    BY <1>0, <1>2, <2>2 DEF RunType
  <2>4. run' = [run EXCEPT ![p] = r]
    BY <1>5
  <2> HIDE DEF r
  <2>5. GoodRun(r)
    BY <2>3 DEF GoodRun, Laying, LastStep
  <2>6. Typed'
    BY <1>0, <1>1, <1>3, <2>4, <2>5, RunsKeep DEF Typed
  <2>7. ~Published(r) /\ (\A k \in 1..3 : ~Laid(r, k)) /\ (Locked(r) => Locked(run[p]))
    BY <1>2, <2>3 DEF Published, Laid, Locked
  <2>8. /\ There("marker") => There("marker")'
        /\ There("lock") => There("lock")'
        /\ \A k \in 1..3 : There(Layout[k]) => There(Layout[k])'
    BY <1>3, LayoutIs DEF Kept, Paths
  <2>9. Owned'
    BY <1>0, <1>1, <2>4, <2>7, <2>8, OwnedKeeps
  <2>10. Whole'
    BY <1>0, <2>4, <2>7, <2>8, WholeKeeps
  <2>11. Exclusive'
    BY <1>0, <2>4, <2>7, <2>8, ExclusiveKeeps
  <2> QED
    BY <2>6, <2>9, <2>10, <2>11 DEF IInv
<1> QED
  BY <1>4, <1>5 DEF NarrowPath

----------------------------------------------------------------------------
(* Beginnings and ends *)

RestsOrStarts(r) ==
  /\ \/ r.op = "none" /\ r.step = 0
     \/ r.op \in Ops \ {"none"} /\ r.step = 1
  /\ r.n = 1 /\ r \in RunType

LEMMA RestingRests == RestsOrStarts(Resting)
<1>1. Resting.op = "none" /\ Resting.step = 0 /\ Resting.n = 1
  BY DEF Resting
<1>2. "none" \in Ops /\ 0 \in 0..6 /\ 1 \in 1..7 /\ FALSE \in BOOLEAN
  BY DEF Ops
<1>3. Resting \in RunType
  BY <1>2, Zenon DEF Resting, RunType
<1> QED
  BY <1>1, <1>3 DEF RestsOrStarts

LEMMA FreshRun ==
  ASSUME NEW r, RestsOrStarts(r)
  PROVE  GoodRun(r) /\ ~Published(r) /\ ~Locked(r) /\ \A k \in 1..3 : ~Laid(r, k)
BY DEF RestsOrStarts, GoodRun, Laying, Published, Locked, Laid, Ops, LastStep

\* A process that rests or begins has published, laid and locked nothing; a
\* lock that goes was its own.
LEMMA FreshKeeps ==
  ASSUME IInv, NEW p \in Proc, NEW r, RestsOrStarts(r), run' = [run EXCEPT ![p] = r],
         mode' = mode \/ (Locked(run[p]) /\ mode' = [mode EXCEPT !["lock"] = Absent]),
         staged' \subseteq Proc, UNCHANGED <<marker, widened>>
  PROVE  IInv'
<1>0. Typed /\ Owned /\ Whole /\ Exclusive /\ mode \in [Paths -> Modes]
  BY DEF IInv, Typed
<1>1. mode' \in [Paths -> Modes] /\ \A path \in Paths \ {"lock"} : mode'[path] = mode[path]
  BY <1>0 DEF Modes
<1>2. Typed'
  BY <1>0, <1>1, FreshRun, RunsKeep DEF Typed
<1>3. Owned'
  <2>1. There("marker") => There("marker")'
    BY <1>1 DEF There, Paths
  <2> QED
    BY <1>0, <2>1, FreshRun, OwnedKeeps
<1>4. Whole'
  <2>1. \A k \in 1..3 : There(Layout[k]) => There(Layout[k])'
    BY <1>1, LayoutIs DEF There
  <2> QED
    BY <1>0, <2>1, FreshRun, WholeKeeps
<1>5. Exclusive'
  <2>1. CASE mode' = mode
    BY <1>0, <2>1, FreshRun, ExclusiveKeeps DEF There
  <2>2. CASE Locked(run[p])
    <3>1. \A q \in Proc \ {p} : ~Locked(run[q])
      BY <1>0, <2>2 DEF Exclusive
    <3>2. \A q \in Proc : ~Locked(run'[q])
      BY <1>0, <3>1, FreshRun DEF Typed
    <3> QED
      BY <3>2 DEF Exclusive
  <2> QED
    BY <2>1, <2>2
<1> QED
  BY <1>2, <1>3, <1>4, <1>5 DEF IInv

LEMMA StartKeeps ==
  ASSUME IInv, NEW p \in Proc, NEW op \in {"init", "read", "list", "write", "repair"},
         Start(p, op)
  PROVE  IInv'
<1> DEFINE r == [Resting EXCEPT !.op = op, !.step = 1]
<1>1. Resting \in RunType /\ Resting.n = 1
  BY RestingRests DEF RestsOrStarts
<1>2. RestsOrStarts(r)
  <2>1. op \in Ops \ {"none"} /\ 1 \in 0..6
    BY DEF Ops
  <2>2. r \in RunType /\ r.op = op /\ r.step = 1 /\ r.n = 1
    BY <1>1, <2>1 DEF RunType
  <2> QED
    BY <2>1, <2>2 DEF RestsOrStarts
<1>3. run' = [run EXCEPT ![p] = r] /\ UNCHANGED <<mode, marker, staged, widened>>
  BY DEF Start
<1>4. staged' \subseteq Proc
  BY <1>3 DEF IInv, Typed
<1> QED
  BY <1>2, <1>3, <1>4, FreshKeeps

LEMMA EndKeeps ==
  ASSUME IInv, NEW p \in Proc, Finish(p) \/ Refuse(p) \/ Kill(p)
  PROVE  IInv'
<1>1. RestsOrStarts(Resting)
  BY RestingRests
<1>2. run' = [run EXCEPT ![p] = Resting] /\ UNCHANGED <<marker, widened>>
  BY DEF Finish, Refuse, Kill, CleanUp
<1>3. staged' \subseteq Proc
  BY DEF Finish, Refuse, Kill, CleanUp, Unstage, IInv, Typed
<1>4. Holding(p) <=> Locked(run[p])
  BY Where DEF IInv, Typed
<1>5. mode' = mode \/ (Locked(run[p]) /\ mode' = [mode EXCEPT !["lock"] = Absent])
  BY <1>4 DEF Finish, Refuse, Kill, CleanUp
<1> QED
  BY <1>1, <1>2, <1>3, <1>5, FreshKeeps

\* The user takes nothing away that a running process relies on.
LEMMA UserKeeps == ASSUME IInv, User PROVE IInv'
<1>0. Typed /\ Owned /\ Whole /\ Exclusive /\ mode \in [Paths -> Modes]
  BY DEF IInv, Typed
<1>1. UNCHANGED <<marker, run>> /\ staged' \subseteq Proc /\ widened' \in BOOLEAN
  BY <1>0 DEF User, Widen, TidyUp, Typed
<1>2. mode' \in [Paths -> Modes] /\ \A path \in Paths \ {"lock"} : There(path) => There(path)'
  <2>1. CASE \E path \in Copied : Widen(path)
    <3>1. PICK path \in Copied : Widen(path)
      BY <2>1
    <3> DEFINE m == mode[path] \cup {"others"}
    <3>2. path \in Paths /\ mode[path] # Absent
      BY <3>1, SetupAssumption DEF Widen, There
    <3>3. mode[path] \in SUBSET Access
      BY <1>0, <3>2, OwnerIs
    <3>4. m \in SUBSET Access
      BY <3>3 DEF Access
    <3>5. m \in Modes /\ m # Absent
      BY <3>4, OwnerIs
    <3>6. mode' = [mode EXCEPT ![path] = m]
      BY <3>1 DEF Widen
    <3> QED
      BY <1>0, <3>5, <3>6 DEF There
  <2>2. CASE TidyUp
    <3>1. mode' = mode \/ mode' = [mode EXCEPT !["lock"] = Absent]
      BY <2>2 DEF TidyUp
    <3>2. Absent \in Modes
      BY DEF Modes
    <3> QED
      BY <1>0, <3>1, <3>2 DEF There
  <2> QED
    BY <2>1, <2>2 DEF User
<1>3. Typed'
  BY <1>0, <1>1, <1>2 DEF Typed
<1>4. Owned'
  <2>1. There("marker") => There("marker")'
    BY <1>2 DEF Paths
  <2> QED
    BY <1>0, <1>1, <2>1 DEF Owned
<1>5. Whole'
  <2>1. \A k \in 1..3 : There(Layout[k]) => There(Layout[k])'
    BY <1>2, LayoutIs
  <2> QED
    BY <1>0, <1>1, <2>1 DEF Whole
<1>6. Exclusive'
  <2>1. CASE \E path \in Copied : Widen(path)
    <3>1. There("lock") => There("lock")'
      BY <1>0, <2>1, OwnerIs, SetupAssumption DEF Widen, There, Access
    <3> QED
      BY <1>0, <1>1, <3>1 DEF Exclusive
  <2>2. CASE TidyUp
    <3>1. \A p \in Proc : ~Locked(run[p])
      BY <2>2 DEF TidyUp, Running, Locked
    <3> QED
      BY <1>1, <3>1 DEF Exclusive
  <2> QED
    BY <2>1, <2>2 DEF User
<1> QED
  BY <1>3, <1>4, <1>5, <1>6 DEF IInv

LEMMA InitHolds == Init => IInv
<1> SUFFICES ASSUME Init PROVE IInv
  OBVIOUS
<1>1. RestsOrStarts(Resting)
  BY RestingRests
<1>2. mode \in [Paths -> Modes]
  BY DEF Init, Modes
<1>3. Resting \in RunType
  BY <1>1 DEF RestsOrStarts
<1>4. Typed
  BY <1>1, <1>2, <1>3, FreshRun DEF Init, Typed
<1>5. Owned /\ Whole /\ Exclusive
  BY <1>1, FreshRun DEF Init, Owned, Whole, Exclusive
<1> QED
  BY <1>4, <1>5 DEF IInv

LEMMA StepKeeps == ASSUME IInv, [Next]_setupVars PROVE IInv'
<1>1. CASE UNCHANGED setupVars
  BY <1>1 DEF setupVars, IInv, Typed, Owned, Whole, Exclusive, There
<1>2. ASSUME NEW p \in Proc, Step(p) PROVE IInv'
  BY <1>2, StartKeeps, InitPlainKeeps, PublishMarkerKeeps, DirectoryKeeps, LookKeeps,
     TakeLockKeeps, WriteFileKeeps, NarrowPathKeeps, EndKeeps DEF Step
<1>3. CASE User
  BY <1>3, UserKeeps
<1> QED
  BY <1>1, <1>2, <1>3 DEF Next

----------------------------------------------------------------------------
\* A marker once linked stays its init's, every directory that ensure_layout
\* has passed stays, and a lock is held by one.
THEOREM SetupHolds == Spec => []IInv
BY InitHolds, StepKeeps, PTL DEF Spec

\* Every variable of Setup keeps its type, and of any number of processes at
\* most one that writes or repairs holds the lock file that is there.
THEOREM SetupTyped == Spec => []SetupTypeOK
<1>1. ASSUME IInv PROVE SetupTypeOK
  <2>1. \A path \in Paths : There(path) => mode[path] \subseteq Access
    BY <1>1, OwnerIs DEF IInv, Typed, There
  <2>2. \A p \in Proc : Holding(p) <=> Locked(run[p])
    BY <1>1, Where DEF IInv, Typed
  <2>3. \A p \in Proc : run[p] \in RunType
    BY <1>1 DEF IInv, Typed
  <2> QED
    BY <1>1, <2>1, <2>2, <2>3 DEF IInv, Typed, Exclusive, SetupTypeOK, RunType, Ops
<1> QED
  BY <1>1, SetupHolds, PTL

\* Archive::init: of any number of inits that found the directory empty, the
\* one that goes past the marker is the one whose identifier it keeps.
THEOREM InitAlwaysOwnsMarker == Spec => []InitOwnsMarker
<1>1. ASSUME IInv, NEW p \in Proc, run[p].op = "init", At(p, "layout") \/ At(p, "done")
      PROVE  marker = p
  <2>1. run[p].step \in {5, 6}
    BY <1>1, Where DEF IInv, Typed, Laying, LastStep
  <2> QED
    BY <1>1, <2>1 DEF IInv, Owned, Published
<1>2. IInv => InitOwnsMarker
  BY <1>1 DEF InitOwnsMarker
<1> QED
  BY <1>2, SetupHolds, PTL

\* ensure_layout: whatever inits were cut short before, a command that goes on
\* to write, list or report an archive made finds the layout whole.
THEOREM LayoutAlwaysWhole == Spec => []LayoutWhole
<1>1. ASSUME IInv, NEW p \in Proc, NEW d \in Dirs,
             \/ run[p].op = "write" /\ (At(p, "lock") \/ At(p, "write") \/ At(p, "done"))
             \/ run[p].op \in {"init", "list"} /\ At(p, "done")
      PROVE  There(d)
  <2>1. \/ run[p].op = "write" /\ run[p].step > 2
        \/ run[p].op = "init" /\ run[p].step > 5
        \/ run[p].op = "list" /\ run[p].step > 2
    BY <1>1, Where DEF IInv, Typed, LastStep
  <2>2. PICK k \in 1..3 : d = Layout[k]
    BY LayoutIs
  <2>3. Laid(run[p], k)
    BY <2>1 DEF Laid
  <2> QED
    BY <1>1, <2>2, <2>3 DEF IInv, Whole
<1>2. IInv => LayoutWhole
  BY <1>1 DEF LayoutWhole
<1> QED
  BY <1>2, SetupHolds, PTL

----------------------------------------------------------------------------
(* What a repair has narrowed *)

\* What a repair has passed is narrow, unless the user widened something since.
Narrowed ==
  ~widened =>
    \A p \in Proc : run[p].op = "repair" /\ run[p].step > 2 =>
      /\ ~Wide("lock")
      /\ \A k \in 1..7 : run[p].step = 4 \/ k < run[p].n => ~Wide(Narrowing[k])

LEMMA NarrowingIs ==
  /\ Len(Narrowing) = 7 /\ \A k \in 1..7 : Narrowing[k] \in Paths
  /\ \A path \in Paths \ {"lock"} : \E k \in 1..7 : path = Narrowing[k]
<1>1. /\ Len(Narrowing) = 7 /\ Narrowing[1] = "root" /\ Narrowing[2] = "marker"
      /\ Narrowing[3] = "objects" /\ Narrowing[4] = "objects/sha256"
      /\ Narrowing[5] = "object" /\ Narrowing[6] = "cache" /\ Narrowing[7] = "cached"
  BY DEF Narrowing
<1>2. Layout[1] = "objects" /\ Layout[2] = "objects/sha256" /\ Layout[3] = "cache"
  BY DEF Layout
<1>3. Dirs = {"objects", "objects/sha256", "cache"}
  BY <1>2, LayoutIs
<1>4. Paths = {"root", "marker", "lock", "objects", "objects/sha256", "cache", "object", "cached"}
  BY <1>3 DEF Paths, Files
<1>5. \A k \in 1..7 : k = 1 \/ k = 2 \/ k = 3 \/ k = 4 \/ k = 5 \/ k = 6 \/ k = 7
  OBVIOUS
<1>6. \A k \in 1..7 : Narrowing[k] \in Paths
  BY <1>1, <1>4, <1>5
<1> QED
  BY <1>1, <1>4, <1>6

\* What a step does to the modes: nothing, or it takes a lock away, or gives a
\* path to its owner alone, or narrows one.
LEMMA ModesGiven ==
  ASSUME NEW p \in Proc, Step(p)
  PROVE  \/ mode' = mode \/ mode' = [mode EXCEPT !["lock"] = Absent]
         \/ \E path, m : m \in {Owner, {"read"}} /\ mode' = [mode EXCEPT ![path] = m]
         \/ NarrowPath(p)
<1>1. CASE (\E op \in {"init", "read", "list", "write", "repair"} : Start(p, op))
            \/ CheckEmpty(p) \/ StageMarker(p) \/ LookDirectory(p) \/ Inspect(p) \/ Identify(p)
            \/ Kill(p)
  BY <1>1 DEF Start, CheckEmpty, StageMarker, LookDirectory, Inspect, Identify, Kill
<1>2. CASE NarrowRoot(p) \/ PublishMarker(p) \/ CreateDirectory(p) \/ TakeLock(p)
  BY <1>2 DEF NarrowRoot, PublishMarker, CreateDirectory, TakeLock
<1>3. CASE WriteFile(p)
  <2>1. PICK d \in DOMAIN Holds :
          mode' = [mode EXCEPT ![Holds[d]] = IF Holds[d] = "object" THEN {"read"} ELSE Owner]
    BY <1>3 DEF WriteFile
  <2> QED
    BY <2>1
<1>4. CASE Finish(p) \/ Refuse(p)
  BY <1>4 DEF Finish, Refuse, CleanUp
<1> QED
  BY <1>1, <1>2, <1>3, <1>4, Zenon DEF Step

\* A narrowed path has no mode it did not have, and none for others.
LEMMA NarrowPathNarrows ==
  ASSUME IInv, NEW p \in Proc, NarrowPath(p)
  PROVE  \A path \in Paths :
           /\ There(path)' => There(path) /\ mode'[path] \subseteq mode[path]
           /\ path = Narrowing[run[p].n] => ~Wide(path)'
<1> DEFINE passed == Narrowing[run[p].n]
<1>1. mode \in [Paths -> Modes]
  BY DEF IInv, Typed
<1>2. mode' = IF There(passed) THEN [mode EXCEPT ![passed] = @ \cap Mask(passed)] ELSE mode
  BY DEF NarrowPath
<1>3. "others" \notin Mask(passed)
  BY DEF Mask, Owner
<1>4. passed = Narrowing[run[p].n]
  OBVIOUS
<1> HIDE DEF passed
<1>5. CASE There(passed)
  BY <1>1, <1>2, <1>3, <1>4, <1>5 DEF There, Wide, May
<1>6. CASE ~There(passed)
  BY <1>1, <1>2, <1>4, <1>6 DEF There, Wide, May
<1> QED
  BY <1>5, <1>6

\* No step gives others a path that was not theirs.
LEMMA StepNarrows ==
  ASSUME IInv, NEW p \in Proc, Step(p), NEW path \in Paths, Wide(path)'
  PROVE  Wide(path)
<1>1. mode \in [Paths -> Modes]
  BY DEF IInv, Typed
<1>2. CASE mode' = mode
  BY <1>2 DEF Wide, May, There
<1>3. CASE mode' = [mode EXCEPT !["lock"] = Absent]
  BY <1>1, <1>3 DEF Wide, May, There
<1>4. CASE \E f, m : m \in {Owner, {"read"}} /\ mode' = [mode EXCEPT ![f] = m]
  BY <1>1, <1>4 DEF Wide, May, There, Owner
<1>5. CASE NarrowPath(p)
  BY <1>5, NarrowPathNarrows DEF Wide, May
<1> QED
  BY <1>2, <1>3, <1>4, <1>5, ModesGiven

\* A repair in progress is at the path it says, or has just taken the lock.
LEMMA RepairMoves ==
  ASSUME IInv, NEW p \in Proc, Step(p), run'[p].op = "repair", run'[p].step > 2
  PROVE  \/ /\ TakeLock(p) /\ run[p].op = "repair"
            /\ run'[p].step = 3 /\ run'[p].n = 1
         \/ /\ NarrowPath(p) /\ run[p].op = "repair" /\ run[p].step = 3
            /\ \/ run'[p].step = 3 /\ run'[p].n = run[p].n + 1
               \/ run[p].n = 7
<1>0. Typed /\ GoodRun(run[p]) /\ run[p] \in RunType /\ run \in [Proc -> RunType]
  BY DEF IInv, Typed
<1>1. CASE \/ \E op \in {"init", "read", "list", "write", "repair"} : Start(p, op)
           \/ Finish(p) \/ Refuse(p) \/ Kill(p)
  <2>1. Resting.step = 0 /\ Resting.op = "none" /\ Resting \in RunType
    BY RestingRests DEF Resting, RestsOrStarts
  <2>2. CASE \E op \in {"init", "read", "list", "write", "repair"} : Start(p, op)
    <3>1. PICK op : run' = [run EXCEPT ![p] = [Resting EXCEPT !.op = op, !.step = 1]]
      BY <2>2, Zenon DEF Start
    <3>2. run'[p].step = 1
      BY <1>0, <2>1, <3>1 DEF RunType
    <3> QED
      BY <3>2
  <2>3. CASE Finish(p) \/ Refuse(p) \/ Kill(p)
    BY <1>0, <2>1, <2>3 DEF Finish, Refuse, Kill, CleanUp
  <2> QED
    BY <1>1, <2>2, <2>3
<1>2. Onwards(p) => run'[p].op = run[p].op /\ run'[p].step = run[p].step + 1 /\ run'[p].n = 1
  BY <1>0 DEF Onwards, RunType
<1>3. CASE CheckEmpty(p) \/ NarrowRoot(p) \/ StageMarker(p) \/ PublishMarker(p)
           \/ Inspect(p) \/ Identify(p) \/ WriteFile(p)
  <2>1. /\ Onwards(p)
        /\ \/ At(p, "empty") \/ At(p, "narrow") \/ At(p, "stage") \/ At(p, "publish")
           \/ At(p, "inspect") \/ At(p, "identify") \/ At(p, "write")
    BY <1>3 DEF CheckEmpty, NarrowRoot, StageMarker, PublishMarker, Inspect, Identify, WriteFile
  <2>2. run[p].op # "repair" \/ run[p].step = 1
    BY <1>0, <2>1, Where
  <2> QED
    BY <1>2, <2>1, <2>2
<1>4. CASE LookDirectory(p) \/ CreateDirectory(p)
  <2>1. Laying(run[p])
    BY <1>0, <1>4, Where DEF LookDirectory, CreateDirectory
  <2>2. run'[p].op = run[p].op
    BY <1>0, <1>4 DEF LookDirectory, CreateDirectory, NextDirectory, Onwards, RunType
  <2> QED
    BY <2>1, <2>2 DEF Laying
<1>5. CASE TakeLock(p)
  <2>1. At(p, "lock") /\ Onwards(p)
    BY <1>5 DEF TakeLock
  <2> QED
    BY <1>0, <1>2, <1>5, <2>1, Where
<1>6. CASE NarrowPath(p)
  <2>1. /\ At(p, "repair")
        /\ IF run[p].n = Len(Narrowing) THEN Onwards(p)
           ELSE run' = [run EXCEPT ![p].n = @ + 1]
    BY <1>6 DEF NarrowPath
  <2>2. run[p].op = "repair" /\ run[p].step = 3
    BY <1>0, <2>1, Where
  <2>3. CASE run[p].n = 7
    BY <1>6, <2>2, <2>3
  <2>4. CASE run' = [run EXCEPT ![p].n = @ + 1]
    BY <1>0, <1>6, <2>2, <2>4 DEF RunType
  <2> QED
    BY <2>1, <2>3, <2>4, NarrowingIs
<1> QED
  BY <1>1, <1>3, <1>4, <1>5, <1>6, Zenon DEF Step

\* What a repair has narrowed stays narrow, and while it holds the lock no other
\* repair begins.
LEMMA NarrowedKeeps ==
  ASSUME IInv, IInv', Narrowed, NEW p \in Proc, Step(p)
  PROVE  Narrowed'
<1>0. Typed /\ Exclusive /\ run \in [Proc -> RunType]
  BY DEF IInv, Typed
<1> SUFFICES ASSUME ~widened', NEW q \in Proc, run'[q].op = "repair", run'[q].step > 2
             PROVE  /\ ~Wide("lock")'
                    /\ \A k \in 1..7 : run'[q].step = 4 \/ k < run'[q].n => ~Wide(Narrowing[k])'
  BY DEF Narrowed
<1>1. \A path \in Paths : Wide(path)' => Wide(path)
  BY StepNarrows
<1>2. "lock" \in Paths /\ \A k \in 1..7 : Narrowing[k] \in Paths
  BY NarrowingIs DEF Paths
<1>3. CASE q # p
  <2>1. run'[q] = run[q]
    <3>1. \E r : run' = [run EXCEPT ![p] = r]
      BY DEF Step, Start, CheckEmpty, NarrowRoot, StageMarker, PublishMarker, LookDirectory,
         CreateDirectory, NextDirectory, Inspect, Identify, TakeLock, WriteFile, NarrowPath,
         Finish, Refuse, Kill, CleanUp, Onwards
    <3> QED
      BY <1>0, <1>3, <3>1
  <2>2. There("lock")
    BY <1>0, <2>1 DEF Exclusive, Locked
  <2>3. widened' = widened
    BY <2>2 DEF Step, Start, CheckEmpty, NarrowRoot, StageMarker, PublishMarker, LookDirectory,
       CreateDirectory, Inspect, Identify, TakeLock, WriteFile, NarrowPath,
       Finish, Refuse, Kill, CleanUp
  <2> QED
    BY <1>1, <1>2, <2>1, <2>3 DEF Narrowed
<1>4. CASE q = p
  <2>1. CASE TakeLock(p) /\ run'[p].step = 3 /\ run'[p].n = 1
    <3>1. mode' = [mode EXCEPT !["lock"] = Owner] /\ mode \in [Paths -> Modes]
      BY <1>0, <2>1 DEF TakeLock, Typed
    <3>2. ~Wide("lock")'
      BY <1>2, <3>1 DEF Wide, May, Owner
    <3> QED
      BY <1>4, <2>1, <3>2
  <2>2. CASE /\ NarrowPath(p) /\ run[p].op = "repair" /\ run[p].step = 3
             /\ \/ run'[p].step = 3 /\ run'[p].n = run[p].n + 1
                \/ run[p].n = 7
    <3>1. widened' = widened /\ run[p].n \in 1..7
      BY <1>0, <2>2 DEF NarrowPath, RunType
    <3>2. ~Wide("lock") /\ \A k \in 1..7 : k < run[p].n => ~Wide(Narrowing[k])
      BY <2>2, <3>1 DEF Narrowed
    <3>3. \A k \in 1..7 : k = run[p].n => ~Wide(Narrowing[k])'
      BY <1>2, <2>2, <3>1, NarrowPathNarrows
    <3>4. \A k \in 1..7 : k < run[p].n + 1 => ~Wide(Narrowing[k])'
      <4>1. \A k \in 1..7 : k < run[p].n + 1 => k < run[p].n \/ k = run[p].n
        BY <3>1
      <4> QED
        BY <1>1, <1>2, <3>2, <3>3, <4>1
    <3> QED
      BY <1>1, <1>2, <1>4, <2>2, <3>2, <3>4
  <2> QED
    BY <1>4, <2>1, <2>2, RepairMoves
<1> QED
  BY <1>3, <1>4

\* A user who takes a lock away does so with no repair running.
LEMMA UserKeepsNarrowed ==
  ASSUME IInv, Narrowed, User
  PROVE  Narrowed'
<1>1. CASE \E path \in Copied : Widen(path)
  BY <1>1 DEF Widen, Narrowed
<1>2. CASE TidyUp
  BY <1>2 DEF TidyUp, Running, Narrowed
<1> QED
  BY <1>1, <1>2 DEF User

LEMMA NarrowedHolds == Spec => [](IInv /\ Narrowed)
<1>1. Init => IInv /\ Narrowed
  <2> SUFFICES ASSUME Init PROVE Narrowed
    BY InitHolds
  <2> QED
    BY DEF Init, Narrowed, Resting
<1>2. IInv /\ Narrowed /\ [Next]_setupVars => (IInv /\ Narrowed)'
  <2> SUFFICES ASSUME IInv, Narrowed, [Next]_setupVars PROVE IInv' /\ Narrowed'
    OBVIOUS
  <2>1. IInv'
    BY StepKeeps
  <2>2. CASE UNCHANGED setupVars
    BY <2>1, <2>2 DEF setupVars, Narrowed, Wide, May, There
  <2>3. ASSUME NEW p \in Proc, Step(p) PROVE Narrowed'
    BY <2>1, <2>3, NarrowedKeeps
  <2>4. CASE User
    BY <2>1, <2>4, UserKeepsNarrowed
  <2> QED
    BY <2>1, <2>2, <2>3, <2>4 DEF Next
<1> QED
  BY <1>1, <1>2, PTL DEF Spec

\* repair: once a repair is done nothing in the archive is too wide, whatever
\* commands created beside it, unless the user widened something while it ran.
THEOREM RepairAlwaysSuffices == Spec => []RepairSuffices
<1>1. ASSUME IInv, Narrowed, ~widened, NEW p \in Proc, run[p].op = "repair", At(p, "done"),
             NEW path \in Paths
      PROVE  ~Wide(path)
  <2>1. run[p].step = 4
    BY <1>1, Where DEF IInv, Typed, LastStep
  <2> QED
    BY <1>1, <2>1, NarrowingIs DEF Narrowed
<1>2. IInv /\ Narrowed => RepairSuffices
  BY <1>1 DEF RepairSuffices
<1> QED
  BY <1>2, NarrowedHolds, PTL

\* permissions.rs: of any number of commands beside one another, none gives
\* others a path that was not theirs, and a repair adds nobody to any.
THEOREM NothingEverWidens == Spec => NothingWidens
<1> DEFINE Spares ==
      \A p \in Proc : Step(p) =>
        \A path \in Paths :
          /\ mode'[path] # Absent /\ "others" \in mode'[path] => Wide(path)
          /\ At(p, "repair") /\ There(path) /\ mode'[path] # Absent =>
               mode'[path] \subseteq mode[path]
<1>1. IInv /\ [Next]_setupVars => Spares
  <2> SUFFICES ASSUME IInv, NEW p \in Proc, Step(p), NEW path \in Paths
               PROVE  /\ mode'[path] # Absent /\ "others" \in mode'[path] => Wide(path)
                      /\ At(p, "repair") /\ There(path) /\ mode'[path] # Absent =>
                           mode'[path] \subseteq mode[path]
    OBVIOUS
  <2>1. mode'[path] # Absent /\ "others" \in mode'[path] => Wide(path)
    BY StepNarrows DEF Wide, May, There
  <2>2. ASSUME At(p, "repair") /\ There(path) /\ mode'[path] # Absent
        PROVE  mode'[path] \subseteq mode[path]
    <3>1. GoodRun(run[p]) /\ mode \in [Paths -> Modes]
      BY DEF IInv, Typed
    <3>2. run[p].op = "repair" /\ run[p].step = 3
      BY <2>2, <3>1, Where
    <3>3. CASE NarrowPath(p)
      BY <2>2, <3>3, NarrowPathNarrows DEF There
    <3>4. CASE Finish(p) \/ Refuse(p) \/ Kill(p)
      BY <2>2, <3>1, <3>4 DEF Finish, Refuse, Kill, CleanUp
    <3>5. CASE \/ \E op \in {"init", "read", "list", "write", "repair"} : Start(p, op)
               \/ CheckEmpty(p) \/ NarrowRoot(p) \/ StageMarker(p) \/ PublishMarker(p)
               \/ LookDirectory(p) \/ CreateDirectory(p)
               \/ Inspect(p) \/ Identify(p) \/ TakeLock(p) \/ WriteFile(p)
      <4>1. \/ ~Running(p) \/ At(p, "empty") \/ At(p, "narrow") \/ At(p, "stage")
            \/ At(p, "publish") \/ At(p, "layout") \/ At(p, "inspect") \/ At(p, "identify")
            \/ At(p, "lock") \/ At(p, "write")
        BY <3>5, Zenon DEF Start, CheckEmpty, NarrowRoot, StageMarker, PublishMarker,
           LookDirectory, CreateDirectory, Inspect, Identify, TakeLock, WriteFile
      <4> QED
        BY <3>1, <3>2, <4>1, Where DEF Running, Laying
    <3> QED
      BY <3>3, <3>4, <3>5, Zenon DEF Step
  <2> QED
    BY <2>1, <2>2
<1>2. Spec => [][Spares]_setupVars
  BY <1>1, SetupHolds, PTL DEF Spec
<1> QED
  BY <1>2, PTL DEF NothingWidens
=============================================================================
