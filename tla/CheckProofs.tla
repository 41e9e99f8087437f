----------------------------- MODULE CheckProofs -----------------------------
(***************************************************************************)
(* Why archive check misses no damage that stands while it runs, though it *)
(* takes no lock and no two of its listings are of one moment.             *)
(*                                                                         *)
(* A reference that dangles all the time has no target whenever its kind   *)
(* is listed, so the check never finds it (Unfound), and is itself there   *)
(* when its own record is read the second time (Judged).  An object that   *)
(* nothing names all the time is named by nothing that was collected       *)
(* (Unnamed) and is there when the walk passes it (Passed).                *)
(*                                                                         *)
(* And why it invents none: while nothing moves, what it has seen is what  *)
(* is there (Truthful), so what it reports is so.  As a check writes       *)
(* nothing, CheckSpec implies Spec (CheckedIsArchive), and what is known   *)
(* of Archive says which references may dangle at all.                     *)
(***************************************************************************)
EXTENDS IntegrityCheck, DeletionProofs

\* The fields of what the check has seen.
Shaped ==
  /\ DOMAIN checker = {"at", "read", "ids", "named", "cyclic", "unchecked", "left", "present",
                       "unlisted", "passed", "overlooked", "orphans", "dangling", "leftover"}
  /\ DOMAIN checker.ids = RecordKinds
  /\ checker.at \in {"idle", "collect", "walk", "resolve", "derived", "done"}
  /\ checker.read \in Nat
  /\ checker.at = "collect" => checker.read \in 0..4
  /\ checker.at = "resolve" => checker.read \in 0..3

StillThere ==
  /\ standing.dangling \subseteq Damage.dangling
  /\ standing.orphans \subseteq Damage.orphans

Unfound ==
  \A r \in standing.dangling :
    /\ r.to = "object" => r.target \notin checker.present
    /\ r.to # "object" => r.target \notin checker.ids[r.to]

Unnamed == \A d \in standing.orphans : d \notin checker.named

Excused(r) ==
  \/ r \in checker.dangling
  \/ r.from \in checker.overlooked
  \/ r.to = "object" /\ r.target \in checker.unlisted
  \/ r.to \in checker.unchecked

\* The references of the kind were judged.
Judged(kind) ==
  \/ checker.at \in {"derived", "done"}
  \/ checker.at = "resolve" /\ \E k \in 1..checker.read : Resolved[k] = kind

Found(d) == d \in checker.orphans \cup checker.unlisted \cup checker.passed \/ ~MayJudgeOrphans

Passed(d) ==
  \/ checker.at \in {"resolve", "derived", "done"}
  \/ checker.at = "walk" /\ d \notin checker.left

CheckInv ==
  /\ TypeInv
  /\ Shaped /\ StillThere /\ Unfound /\ Unnamed
  /\ \A r \in standing.dangling : Judged(r.from) => Excused(r)
  /\ \A d \in standing.orphans : Passed(d) => Found(d)

----------------------------------------------------------------------------
(* References *)

Judging == {"import_event", "submission", "receipt", "association"}

LEMMA KindsAre ==
  /\ Len(Resolved) = 4 /\ Judging = {Resolved[k] : k \in 1..4}
  /\ Resolved[1] = "import_event" /\ Resolved[2] = "submission"
  /\ Resolved[3] = "receipt" /\ Resolved[4] = "association"
  /\ \A k \in 1..5 : Collected[k] \in RecordKinds
<1>1. \A k \in 1..5 : k = 1 \/ k = 2 \/ k = 3 \/ k = 4 \/ k = 5
  OBVIOUS
<1>2. \A k \in 1..5 : Collected[k] \in RecordKinds
  BY <1>1 DEF Collected, RecordKinds
<1>3. /\ Len(Resolved) = 4 /\ Resolved[1] = "import_event" /\ Resolved[2] = "submission"
      /\ Resolved[3] = "receipt" /\ Resolved[4] = "association"
  BY DEF Resolved
<1>4. Judging = {Resolved[k] : k \in 1..4}
  <2>1. \A k \in 1..4 : k = 1 \/ k = 2 \/ k = 3 \/ k = 4
    OBVIOUS
  <2> QED
    BY <1>3, <2>1 DEF Judging
<1> QED
  BY <1>2, <1>3, <1>4

\* A reference is found among those of its own record's kind.
LEMMA ReferenceIs ==
  ASSUME NEW r \in AllReferences
  PROVE  /\ r.from \in Judging /\ r \in References(r.from)
         /\ r.to \in RecordKinds \cup {"object"}
<1>1. PICK kind \in RecordKinds : r \in References(kind)
  BY DEF AllReferences
<1>2. kind # "case"
  BY <1>1 DEF References
<1>3. r.from = kind /\ r.to \in RecordKinds \cup {"object"}
  <2>1. CASE kind = "import_event"
    BY <1>1, <2>1 DEF References, Refs, RecordKinds
  <2>2. CASE kind = "submission"
    BY <1>1, <2>2 DEF References, Refs, RecordKinds
  <2>3. CASE kind = "receipt"
    BY <1>1, <2>3 DEF References, Refs, RecordKinds
  <2>4. CASE kind = "association"
    BY <1>1, <2>4 DEF References, Refs, RecordKinds
  <2> QED
    BY <1>2, <2>1, <2>2, <2>3, <2>4 DEF RecordKinds
<1> QED
  BY <1>1, <1>2, <1>3 DEF RecordKinds, Judging

\* What stands is an object or a reference of the archive as it is now.
LEMMA StandingIs ==
  ASSUME StillThere
  PROVE  /\ \A r \in standing.dangling :
              r \in AllReferences /\ r.target \notin Stored(r.to)
         /\ \A d \in standing.orphans :
              d \in objects /\ \A r \in AllReferences : r.to = "object" => r.target # d
BY DEF StillThere, Damage

LEMMA NamesAre ==
  ASSUME StillThere, NEW kind \in RecordKinds, NEW d \in standing.orphans
  PROVE  d \notin {r.target : r \in {ref \in References(kind) : ref.to = "object"}}
<1>1. \A r \in References(kind) : r \in AllReferences
  BY DEF AllReferences
<1> QED
  BY <1>1, StandingIs

----------------------------------------------------------------------------
(* Steps of the check, which change nothing of the archive *)

\* What a step of the check has to keep: what it saw, and what it judged.
LEMMA StepOfCheck ==
  ASSUME CheckInv, UNCHANGED vars, UNCHANGED standing,
         Shaped', Unfound', Unnamed',
         \A r \in standing.dangling : Judged(r.from)' => Excused(r)',
         \A d \in standing.orphans : Passed(d)' => Found(d)'
  PROVE  CheckInv'
<1>1. TypeInv'
  BY StepTypeInv DEF CheckInv
<1>2. StillThere'
  <2>1. Damage' = Damage
    BY DEF Damage, AllReferences, References, Refs, Stored, Ids, Named, vars, records
  <2> QED
    BY <2>1 DEF CheckInv, StillThere
<1> QED
  BY <1>1, <1>2 DEF CheckInv

LEMMA CollectKeeps ==
  ASSUME CheckInv, UNCHANGED vars, UNCHANGED standing, CollectNext
  PROVE  CheckInv'
<1> DEFINE kind == Collected[checker.read + 1]
<1>0. /\ Shaped /\ StillThere /\ Unfound /\ Unnamed /\ checker.at = "collect"
      /\ checker.read \in 0..4 /\ kind \in RecordKinds
      /\ Collect(kind) \/ CollectNothing(kind)
  BY KindsAre DEF CheckInv, CollectNext, Shaped
<1>1. /\ checker'.read = checker.read + 1
      /\ checker'.present = checker.present /\ checker'.dangling = checker.dangling
      /\ \/ kind # "association" /\ checker'.at = "collect"
         \/ kind = "association" /\ checker'.at = "walk" /\ checker'.left = Digest
  BY <1>0 DEF Collect, CollectNothing, Shaped
<1>2. Shaped'
  <2>1. checker.read = 4 => kind = "association"
    BY DEF Collected
  <2>2. checker'.at = "collect" => checker'.read \in 0..4
    BY <1>0, <1>1, <2>1
  <2>3. DOMAIN checker' = DOMAIN checker /\ DOMAIN checker'.ids = RecordKinds
    BY <1>0 DEF Collect, CollectNothing, Shaped
  <2> QED
    BY <1>0, <1>1, <2>2, <2>3 DEF Shaped
<1>3. Unfound'
  <2> SUFFICES ASSUME NEW r \in standing.dangling, r.to # "object"
               PROVE  r.target \notin checker'.ids[r.to]
    BY <1>0, <1>1 DEF Unfound
  <2>1. r.to \in RecordKinds /\ r.target \notin Stored(r.to)
    BY <1>0, StandingIs, ReferenceIs
  <2>2. checker'.ids[r.to] \in {checker.ids[r.to], Stored(r.to)}
    <3>1. CASE Collect(kind)
      <4>1. checker'.ids = [checker.ids EXCEPT ![kind] = Stored(kind)]
        BY <1>0, <3>1 DEF Collect, Shaped
      <4> QED
        BY <1>0, <2>1, <4>1 DEF Shaped
    <3>2. CASE CollectNothing(kind)
      BY <1>0, <3>2 DEF CollectNothing, Shaped
    <3> QED
      BY <1>0, <3>1, <3>2
  <2> QED
    BY <1>0, <2>1, <2>2 DEF Unfound
<1>4. Unnamed'
  <2> SUFFICES ASSUME NEW d \in standing.orphans PROVE d \notin checker'.named
    BY DEF Unnamed
  <2>1. d \notin checker.named
    BY <1>0 DEF Unnamed
  <2>2. d \notin {r.target : r \in {ref \in References(kind) : ref.to = "object"}}
    BY <1>0, NamesAre
  <2>3. \/ checker'.named = checker.named
        \/ checker'.named = checker.named
             \cup {r.target : r \in {ref \in References(kind) : ref.to = "object"}}
    BY <1>0 DEF Collect, CollectNothing, Shaped
  <2> QED
    BY <2>1, <2>2, <2>3
<1>5. \A r \in standing.dangling : ~Judged(r.from)'
  BY <1>1 DEF Judged
<1>6. \A d \in standing.orphans : ~Passed(d)'
  <2>1. \A d \in standing.orphans : d \in Digest
    BY <1>0, StandingIs DEF CheckInv, TypeInv, TypeOK
  <2> QED
    BY <1>1, <2>1 DEF Passed
<1> QED
  BY <1>2, <1>3, <1>4, <1>5, <1>6, StepOfCheck

LEMMA WalkKeeps ==
  ASSUME CheckInv, UNCHANGED vars, UNCHANGED standing, WalkNext
  PROVE  CheckInv'
<1>0. /\ Shaped /\ StillThere /\ Unfound /\ Unnamed /\ checker.at = "walk"
      /\ \A d \in standing.orphans : Passed(d) => Found(d)
  BY DEF CheckInv, WalkNext
<1>1. PICK d \in checker.left : Look(d) \/ MissDirectory(d) \/ MissEntry(d)
  BY DEF WalkNext
<1> DEFINE w == Walked(d)
<1>2. /\ w.at = IF checker.left = {d} THEN "resolve" ELSE "walk"
      /\ w.left = checker.left \ {d} /\ w.read = 0
      /\ \A f \in {"ids", "named", "unchecked", "present", "unlisted", "passed", "orphans"} :
           w[f] = checker[f]
      /\ DOMAIN w = DOMAIN checker
  BY <1>0 DEF Walked, Shaped
<1>3. DOMAIN w = {"at", "read", "ids", "named", "cyclic", "unchecked", "left", "present",
                  "unlisted", "passed", "overlooked", "orphans", "dangling", "leftover"}
  BY <1>0, <1>2 DEF Shaped
<1>4. \/ d \notin objects /\ checker' = w
      \/ d \in objects /\ checker' = [w EXCEPT !.present = @ \cup {d},
                                       !.orphans = IF Orphan(d) THEN @ \cup {d} ELSE @]
      \/ checker' = [w EXCEPT !.unlisted = @ \cup {d}]
      \/ checker' = [w EXCEPT !.passed = @ \cup {d}]
  BY <1>1 DEF Look, MissDirectory, MissEntry
<1> HIDE DEF w
<1>5. /\ checker'.at = IF checker.left = {d} THEN "resolve" ELSE "walk"
      /\ checker'.left = checker.left \ {d} /\ checker'.read = 0
      /\ checker'.ids = checker.ids /\ checker'.named = checker.named
      /\ checker'.unchecked = checker.unchecked
      /\ DOMAIN checker' = DOMAIN checker
  BY <1>2, <1>3, <1>4
<1>6. /\ checker'.present \in {checker.present, checker.present \cup ({d} \cap objects)}
      /\ checker.orphans \subseteq checker'.orphans
      /\ checker.unlisted \subseteq checker'.unlisted
      /\ checker.passed \subseteq checker'.passed
  <2>1. CASE d \in objects /\ checker' = [w EXCEPT !.present = @ \cup {d},
                                       !.orphans = IF Orphan(d) THEN @ \cup {d} ELSE @]
    <3>1. checker'.present = checker.present \cup ({d} \cap objects)
      BY <1>2, <1>3, <2>1
    <3>2. checker.orphans \subseteq checker'.orphans
      BY <1>2, <1>3, <2>1
    <3>3. checker'.unlisted = checker.unlisted /\ checker'.passed = checker.passed
      BY <1>2, <1>3, <2>1
    <3> QED
      BY <3>1, <3>2, <3>3
  <2>2. CASE checker' \in {w, [w EXCEPT !.unlisted = @ \cup {d}],
                           [w EXCEPT !.passed = @ \cup {d}]}
    BY <1>2, <1>3, <2>2
  <2> QED
    BY <1>4, <2>1, <2>2
<1>7. d \in objects => \/ Orphan(d) => d \in checker'.orphans
                       \/ d \in checker'.unlisted \cup checker'.passed
  BY <1>2, <1>3, <1>4
<1>8. Shaped'
  BY <1>0, <1>5 DEF Shaped
<1>9. Unfound'
  <2> SUFFICES ASSUME NEW r \in standing.dangling, r.to = "object"
               PROVE  r.target \notin checker'.present
    BY <1>0, <1>5 DEF Unfound
  <2>1. r.target \notin objects
    BY <1>0, StandingIs DEF Stored
  <2> QED
    BY <1>0, <1>6, <2>1 DEF Unfound
<1>10. Unnamed'
  BY <1>0, <1>5 DEF Unnamed
<1>11. \A r \in standing.dangling : ~Judged(r.from)'
  BY <1>5 DEF Judged
<1>12. ASSUME NEW o \in standing.orphans, Passed(o)'
      PROVE  Found(o)'
  <2>1. o = d \/ o \notin checker.left
    BY <1>5, <1>12 DEF Passed
  <2>2. MayJudgeOrphans' <=> MayJudgeOrphans
    BY <1>5 DEF MayJudgeOrphans
  <2>3. CASE o = d
    <3>1. o \in objects /\ o \notin checker.named
      BY <1>0, StandingIs DEF Unnamed
    <3> QED
      BY <1>7, <2>2, <2>3, <3>1 DEF Orphan, Found
  <2>4. CASE o \notin checker.left
    BY <1>0, <1>6, <2>2, <2>4 DEF Passed, Found
  <2> QED
    BY <2>1, <2>3, <2>4
<1> QED
  BY <1>8, <1>9, <1>10, <1>11, <1>12, StepOfCheck

LEMMA ResolveKeeps ==
  ASSUME CheckInv, UNCHANGED vars, UNCHANGED standing, ResolveNext
  PROVE  CheckInv'
<1> DEFINE kind == Resolved[checker.read + 1]
<1>0. /\ Shaped /\ StillThere /\ Unfound /\ Unnamed /\ checker.at = "resolve"
      /\ checker.read \in 0..3 /\ kind \in Judging
      /\ \A r \in standing.dangling : Judged(r.from) => Excused(r)
      /\ \A d \in standing.orphans : Passed(d) => Found(d)
      /\ Resolve(kind) \/ ResolveNothing(kind)
  BY KindsAre DEF CheckInv, ResolveNext, Shaped
<1> DEFINE w == AfterResolving(kind)
<1>1. /\ w.read = checker.read + 1
      /\ w.at = IF kind = "association" THEN "derived" ELSE "resolve"
      /\ w.dangling = checker.dangling /\ w.overlooked = checker.overlooked
      /\ \A f \in {"ids", "named", "unchecked", "present", "unlisted", "passed", "orphans"} :
           w[f] = checker[f]
      /\ DOMAIN w = DOMAIN checker
  BY <1>0 DEF AfterResolving, Shaped
<1>2. \/ checker' = [w EXCEPT !.dangling = @ \cup {r \in References(kind) : Missing(r)}]
      \/ checker' = [w EXCEPT !.overlooked = @ \cup {kind}]
  <2>1. CASE Resolve(kind)
    BY <1>0, <1>1, <2>1 DEF Resolve, Shaped
  <2>2. CASE ResolveNothing(kind)
    BY <1>0, <1>1, <2>2 DEF ResolveNothing, Shaped
  <2> QED
    BY <1>0, <2>1, <2>2
<1>3. DOMAIN w = {"at", "read", "ids", "named", "cyclic", "unchecked", "left", "present",
                  "unlisted", "passed", "overlooked", "orphans", "dangling", "leftover"}
  BY <1>0, <1>1 DEF Shaped
<1> HIDE DEF w
<1>4. /\ checker'.read = checker.read + 1
      /\ checker'.at = IF kind = "association" THEN "derived" ELSE "resolve"
      /\ checker'.ids = checker.ids /\ checker'.named = checker.named
      /\ checker'.unchecked = checker.unchecked /\ checker'.present = checker.present
      /\ checker'.unlisted = checker.unlisted /\ checker'.passed = checker.passed
      /\ checker'.orphans = checker.orphans /\ DOMAIN checker' = DOMAIN checker
      /\ checker.dangling \subseteq checker'.dangling
      /\ checker.overlooked \subseteq checker'.overlooked
      /\ \/ {r \in References(kind) : Missing(r)} \subseteq checker'.dangling
         \/ kind \in checker'.overlooked
  BY <1>1, <1>2, <1>3
<1>5. Shaped'
  <2>1. kind = "association" \/ checker.read \in 0..2
    BY <1>0, KindsAre
  <2> QED
    BY <1>0, <1>4, <2>1 DEF Shaped
<1>6. Unfound' /\ Unnamed'
  BY <1>0, <1>4 DEF Unfound, Unnamed
<1>7. ASSUME NEW r \in standing.dangling, Judged(r.from)'
      PROVE  Excused(r)'
  <2>1. Excused(r) => Excused(r)'
    BY <1>4 DEF Excused
  <2>2. r \in References(r.from) /\ r.from \in Judging /\ r.to \in RecordKinds \cup {"object"}
    BY <1>0, StandingIs, ReferenceIs
  <2>3. r.from = kind \/ Judged(r.from)
    <3>1. PICK k \in 1..4 : r.from = Resolved[k]
      BY <2>2, KindsAre
    <3>2. k <= checker.read + 1
      <4>1. CASE kind = "association"
        BY <1>0, <3>1, <4>1, KindsAre
      <4>2. CASE kind # "association"
        <5>1. \E j \in 1..(checker.read + 1) : Resolved[j] = r.from
          BY <1>4, <1>7, <4>2 DEF Judged
        <5>2. \A i, j \in 1..4 : Resolved[i] = Resolved[j] => i = j
          BY KindsAre
        <5> QED
          BY <1>0, <3>1, <5>1, <5>2
      <4> QED
        BY <4>1, <4>2
    <3> QED
      BY <1>0, <3>1, <3>2 DEF Judged
  <2>4. CASE r.from = kind
    <3>1. Missing(r) \/ (r.to = "object" /\ r.target \in checker.unlisted)
          \/ r.to \in checker.unchecked
      BY <1>0 DEF Missing, Unfound
    <3> QED
      BY <1>4, <2>2, <2>4, <3>1 DEF Excused
  <2>5. CASE Judged(r.from)
    BY <1>0, <2>1, <2>5
  <2> QED
    BY <2>3, <2>4, <2>5
<1>8. ASSUME NEW d \in standing.orphans PROVE Found(d)'
  <2>1. Found(d)
    BY <1>0 DEF Passed
  <2> QED
    BY <1>4, <2>1 DEF Found, MayJudgeOrphans
<1> QED
  BY <1>5, <1>6, <1>7, <1>8, StepOfCheck

LEMMA ReportKeeps ==
  ASSUME CheckInv, UNCHANGED vars, UNCHANGED standing, Report
  PROVE  CheckInv'
<1>0. /\ Shaped /\ StillThere /\ Unfound /\ Unnamed /\ checker.at = "derived"
      /\ \A r \in standing.dangling : Judged(r.from) => Excused(r)
      /\ \A d \in standing.orphans : Passed(d) => Found(d)
  BY DEF CheckInv, Report
<1>1. PICK left : checker' = [checker EXCEPT !.at = "done", !.leftover = left]
  BY DEF Report
<1>2. /\ checker'.at = "done" /\ DOMAIN checker' = DOMAIN checker
      /\ \A f \in (DOMAIN checker) \ {"at", "leftover"} : checker'[f] = checker[f]
  BY <1>0, <1>1 DEF Shaped
<1>3. /\ checker'.ids = checker.ids /\ checker'.named = checker.named
      /\ checker'.unchecked = checker.unchecked /\ checker'.present = checker.present
      /\ checker'.unlisted = checker.unlisted /\ checker'.passed = checker.passed
      /\ checker'.orphans = checker.orphans /\ checker'.dangling = checker.dangling
      /\ checker'.overlooked = checker.overlooked /\ checker'.read = checker.read
  BY <1>0, <1>2 DEF Shaped
<1>4. Shaped'
  BY <1>0, <1>2, <1>3 DEF Shaped
<1>5. Unfound' /\ Unnamed'
  BY <1>0, <1>3 DEF Unfound, Unnamed
<1>6. ASSUME NEW r \in standing.dangling PROVE Excused(r)'
  <2>1. Excused(r)
    BY <1>0 DEF Judged
  <2> QED
    BY <1>3, <2>1 DEF Excused
<1>7. ASSUME NEW d \in standing.orphans PROVE Found(d)'
  <2>1. Found(d)
    BY <1>0 DEF Passed
  <2> QED
    BY <1>3, <2>1 DEF Found, MayJudgeOrphans
<1> QED
  BY <1>4, <1>5, <1>6, <1>7, StepOfCheck

----------------------------------------------------------------------------
(* A check begins, or a command moves beside it *)

\* A check that has read nothing has overlooked nothing.
LEMMA NothingRead ==
  ASSUME checker' = Idle \/ checker' = [Idle EXCEPT !.at = "collect"],
         TypeInv', StillThere',
         \A r \in standing'.dangling : r.to \in RecordKinds \cup {"object"}
  PROVE  CheckInv'
<1>0. /\ Idle.at = "idle" /\ Idle.read = 0 /\ Idle.ids = [kind \in RecordKinds |-> {}]
      /\ Idle.named = {} /\ Idle.present = {}
      /\ DOMAIN Idle = {"at", "read", "ids", "named", "cyclic", "unchecked", "left", "present",
                        "unlisted", "passed", "overlooked", "orphans", "dangling", "leftover"}
  BY DEF Idle
<1>1. /\ checker'.at \in {"idle", "collect"} /\ checker'.read = 0
      /\ checker'.ids = [kind \in RecordKinds |-> {}] /\ checker'.named = {}
      /\ checker'.present = {} /\ DOMAIN checker' = DOMAIN Idle
  BY <1>0
<1>2. Shaped'
  BY <1>0, <1>1 DEF Shaped
<1>3. Unfound'
  BY <1>1 DEF Unfound
<1>4. Unnamed'
  BY <1>1 DEF Unnamed
<1>5. \A r \in standing'.dangling : ~Judged(r.from)'
  BY <1>1 DEF Judged
<1>6. \A d \in standing'.orphans : ~Passed(d)'
  BY <1>1 DEF Passed
<1> QED
  BY <1>2, <1>3, <1>4, <1>5, <1>6 DEF CheckInv

LEMMA BeginKeeps ==
  ASSUME CheckInv, UNCHANGED vars, BeginCheck
  PROVE  CheckInv'
<1>1. checker' = [Idle EXCEPT !.at = "collect"] /\ standing' = Damage
  BY DEF BeginCheck
<1>2. TypeInv'
  BY StepTypeInv DEF CheckInv
<1>3. StillThere'
  <2>1. Damage' = Damage
    BY DEF Damage, AllReferences, References, Refs, Stored, Ids, Named, vars, records
  <2> QED
    BY <1>1, <2>1 DEF StillThere
<1>4. \A r \in standing'.dangling : r.to \in RecordKinds \cup {"object"}
  BY <1>1, ReferenceIs DEF Damage
<1> QED
  BY <1>1, <1>2, <1>3, <1>4, NothingRead

\* What a command mends no longer stands.
LEMMA WatchKeeps ==
  ASSUME CheckInv, [Next]_vars, CheckWatches
  PROVE  CheckInv'
<1>1. TypeInv'
  BY StepTypeInv DEF CheckInv
<1>2. StillThere'
  <2>1. standing' = NoDamage \/ standing' = Still(Damage')
    BY DEF CheckWatches
  <2> QED
    BY <2>1 DEF StillThere, Still, NoDamage
<1>3. CASE Running
  <2>1. checker' = checker
    BY <1>3 DEF CheckWatches
  <2>2. standing'.dangling \subseteq standing.dangling /\ standing'.orphans \subseteq standing.orphans
    BY <1>3 DEF CheckWatches, Still
  <2>3. Shaped' /\ Unfound' /\ Unnamed'
    BY <2>1, <2>2 DEF CheckInv, Shaped, Unfound, Unnamed
  <2>4. \A r \in standing'.dangling : Judged(r.from)' => Excused(r)'
    BY <2>1, <2>2 DEF CheckInv, Judged, Excused
  <2>5. \A d \in standing'.orphans : Passed(d)' => Found(d)'
    BY <2>1, <2>2 DEF CheckInv, Passed, Found, MayJudgeOrphans
  <2> QED
    BY <1>1, <1>2, <2>3, <2>4, <2>5 DEF CheckInv
<1>4. CASE ~Running
  <2>1. checker' = Idle /\ standing' = NoDamage
    BY <1>4 DEF CheckWatches
  <2>2. \A r \in standing'.dangling : r.to \in RecordKinds \cup {"object"}
    BY <2>1 DEF NoDamage
  <2> QED
    BY <1>1, <1>2, <2>1, <2>2, NothingRead
<1> QED
  BY <1>3, <1>4

LEMMA CheckInitHolds == Init /\ CheckInit => CheckInv
<1> SUFFICES ASSUME Init, CheckInit PROVE CheckInv
  OBVIOUS
<1>0. /\ Idle.at = "idle" /\ Idle.read = 0 /\ Idle.ids = [kind \in RecordKinds |-> {}]
      /\ DOMAIN Idle = {"at", "read", "ids", "named", "cyclic", "unchecked", "left", "present",
                        "unlisted", "passed", "overlooked", "orphans", "dangling", "leftover"}
  BY DEF Idle
<1>1. TypeInv
  BY InitTypeInv
<1>2. Shaped
  BY <1>0 DEF CheckInit, Shaped
<1>3. standing.dangling = {} /\ standing.orphans = {}
  BY DEF CheckInit, NoDamage
<1> QED
  BY <1>1, <1>2, <1>3 DEF CheckInv, StillThere, Unfound, Unnamed

LEMMA CheckStepKeeps ==
  ASSUME CheckInv, [CheckNext]_<<vars, checkVars>>
  PROVE  CheckInv'
<1>1. CASE Next /\ CheckWatches
  BY <1>1, WatchKeeps
<1>2. CASE CheckMoves
  <2>1. UNCHANGED vars
    BY <1>2 DEF CheckMoves
  <2>2. CASE BeginCheck
    BY <2>1, <2>2, BeginKeeps
  <2>3. CASE CheckStep /\ UNCHANGED <<standing, moved>>
    BY <2>1, <2>3, CollectKeeps, WalkKeeps, ResolveKeeps, ReportKeeps DEF CheckStep
  <2> QED
    BY <1>2, <2>2, <2>3 DEF CheckMoves
<1>3. CASE UNCHANGED <<vars, checkVars>>
  <2>1. UNCHANGED vars /\ checker' = checker /\ standing' = standing
    BY <1>3 DEF checkVars
  <2>2. Shaped' /\ Unfound' /\ Unnamed'
    BY <2>1 DEF CheckInv, Shaped, Unfound, Unnamed
  <2>3. \A r \in standing.dangling : Judged(r.from)' => Excused(r)'
    BY <2>1 DEF CheckInv, Judged, Excused
  <2>4. \A d \in standing.orphans : Passed(d)' => Found(d)'
    BY <2>1 DEF CheckInv, Passed, Found, MayJudgeOrphans
  <2> QED
    BY <2>1, <2>2, <2>3, <2>4, StepOfCheck
<1> QED
  BY <1>1, <1>2, <1>3 DEF CheckNext

----------------------------------------------------------------------------
\* integrity/mod.rs: whatever commands write, unlink or leave cut short beside
\* a check that takes no lock, a reference that dangles and an object nothing
\* names from its beginning to its end are in the report, or behind a listing
\* it was refused.
THEOREM StandingDamageAlwaysReported == CheckSpec => []StandingDamageReported
<1>1. CheckInv => StandingDamageReported
  <2> SUFFICES ASSUME CheckInv, Reported PROVE StandingDamageReported
    BY DEF StandingDamageReported
  <2>1. \A r \in standing.dangling : Excused(r)
    BY DEF CheckInv, Judged, Reported
  <2>2. \A d \in standing.orphans : Found(d)
    BY DEF CheckInv, Passed, Reported
  <2> QED
    BY <2>1, <2>2 DEF StandingDamageReported, Excused, Found
<1> QED
  BY <1>1, CheckInitHolds, CheckStepKeeps, PTL DEF CheckSpec

----------------------------------------------------------------------------
(* What a step of the check does to what it has seen *)

Fields == {"at", "read", "ids", "named", "cyclic", "unchecked", "left", "present",
           "unlisted", "passed", "overlooked", "orphans", "dangling", "leftover"}

\* The digests that records of a kind name.
ObjectsNamed(kind) == {r.target : r \in {ref \in References(kind) : ref.to = "object"}}

LEMMA CollectMoves ==
  ASSUME Shaped, CollectNext
  PROVE  \E kind \in RecordKinds :
           /\ kind = Collected[checker.read + 1] /\ checker.read \in 0..4
           /\ checker'.read = checker.read + 1
           /\ IF kind = "association" THEN checker'.at = "walk" /\ checker'.left = Digest
              ELSE checker'.at = "collect" /\ checker'.left = checker.left
           /\ \A f \in {"present", "unlisted", "passed", "overlooked", "orphans",
                        "dangling", "leftover"} : checker'[f] = checker[f]
           /\ \/ /\ checker'.ids = [checker.ids EXCEPT ![kind] = Stored(kind)]
                 /\ checker'.named = checker.named \cup ObjectsNamed(kind)
                 /\ checker'.cyclic = IF kind = "association" THEN HoldsCycle(associations)
                                      ELSE checker.cyclic
                 /\ checker'.unchecked = checker.unchecked
              \/ /\ checker'.ids = checker.ids /\ checker'.named = checker.named
                 /\ checker'.cyclic = checker.cyclic
                 /\ checker'.unchecked = checker.unchecked \cup {kind}
<1> DEFINE kind == Collected[checker.read + 1]
<1>1. /\ checker.at = "collect" /\ checker.read \in 0..4 /\ kind \in RecordKinds
      /\ Collect(kind) \/ CollectNothing(kind)
  BY KindsAre DEF CollectNext, Shaped
<1>2. DOMAIN checker = Fields
  BY DEF Shaped, Fields
<1>3. kind = Collected[checker.read + 1]
  OBVIOUS
<1> HIDE DEF kind
<1>4. CASE Collect(kind)
  <2> DEFINE cyclic == HoldsCycle(associations)
             named == checker.named \cup ObjectsNamed(kind)
             ids == [checker.ids EXCEPT ![kind] = Stored(kind)]
  <2>1. checker' = [checker EXCEPT
          !.ids = ids, !.named = named,
          !.cyclic = IF kind = "association" THEN cyclic ELSE @,
          !.read = @ + 1,
          !.at = IF kind = "association" THEN "walk" ELSE @,
          !.left = IF kind = "association" THEN Digest ELSE @]
    BY <1>2, <1>4 DEF Collect, ObjectsNamed, Fields
  <2> HIDE DEF cyclic, named, ids
  <2>2. /\ checker'.read = checker.read + 1
        /\ IF kind = "association" THEN checker'.at = "walk" /\ checker'.left = Digest
           ELSE checker'.at = "collect" /\ checker'.left = checker.left
        /\ \A f \in {"present", "unlisted", "passed", "overlooked", "orphans",
                     "dangling", "leftover"} : checker'[f] = checker[f]
        /\ checker'.ids = ids /\ checker'.named = named
        /\ checker'.cyclic = IF kind = "association" THEN cyclic ELSE checker.cyclic
        /\ checker'.unchecked = checker.unchecked
    BY <1>1, <1>2, <2>1 DEF Fields
  <2> QED
    BY <1>1, <1>3, <2>2 DEF cyclic, named, ids
<1>5. CASE CollectNothing(kind)
  <2>1. checker' = [checker EXCEPT
          !.unchecked = @ \cup {kind}, !.read = @ + 1,
          !.at = IF kind = "association" THEN "walk" ELSE @,
          !.left = IF kind = "association" THEN Digest ELSE @]
    BY <1>5 DEF CollectNothing
  <2>2. /\ checker'.read = checker.read + 1
        /\ IF kind = "association" THEN checker'.at = "walk" /\ checker'.left = Digest
           ELSE checker'.at = "collect" /\ checker'.left = checker.left
        /\ \A f \in {"present", "unlisted", "passed", "overlooked", "orphans",
                     "dangling", "leftover"} : checker'[f] = checker[f]
        /\ checker'.ids = checker.ids /\ checker'.named = checker.named
        /\ checker'.cyclic = checker.cyclic
        /\ checker'.unchecked = checker.unchecked \cup {kind}
    BY <1>1, <1>2, <2>1 DEF Fields
  <2> QED
    BY <1>1, <1>3, <2>2
<1> QED
  BY <1>1, <1>4, <1>5

LEMMA WalkMoves ==
  ASSUME Shaped, WalkNext
  PROVE  \E d \in checker.left :
           /\ checker.at = "walk"
           /\ checker'.at = IF checker.left = {d} THEN "resolve" ELSE "walk"
           /\ checker'.left = checker.left \ {d} /\ checker'.read = 0
           /\ \A f \in {"ids", "named", "cyclic", "unchecked", "overlooked", "dangling",
                        "leftover"} : checker'[f] = checker[f]
           /\ \/ /\ d \notin objects
                 /\ \A f \in {"present", "unlisted", "passed", "orphans"} :
                      checker'[f] = checker[f]
              \/ /\ d \in objects /\ checker'.present = checker.present \cup {d}
                 /\ checker'.orphans = IF Orphan(d) THEN checker.orphans \cup {d}
                                       ELSE checker.orphans
                 /\ checker'.unlisted = checker.unlisted /\ checker'.passed = checker.passed
              \/ /\ checker'.unlisted = checker.unlisted \cup {d}
                 /\ \A f \in {"present", "passed", "orphans"} : checker'[f] = checker[f]
              \/ /\ checker'.passed = checker.passed \cup {d}
                 /\ \A f \in {"present", "unlisted", "orphans"} : checker'[f] = checker[f]
<1>1. PICK d \in checker.left : Look(d) \/ MissDirectory(d) \/ MissEntry(d)
  BY DEF WalkNext
<1>2. checker.at = "walk" /\ DOMAIN checker = Fields
  BY DEF WalkNext, Shaped, Fields
<1> DEFINE w == Walked(d)
           orphan == Orphan(d)
<1> DEFINE at == IF checker.left = {d} THEN "resolve" ELSE checker.at
           left == checker.left \ {d}
<1>3. /\ w.at = IF checker.left = {d} THEN "resolve" ELSE "walk"
      /\ w.left = checker.left \ {d} /\ w.read = 0
      /\ \A f \in Fields \ {"at", "left", "read"} : w[f] = checker[f]
      /\ DOMAIN w = Fields
  <2>1. w = [checker EXCEPT !.left = left, !.at = at, !.read = 0]
    BY <1>2 DEF Walked, Fields
  <2>2. at = IF checker.left = {d} THEN "resolve" ELSE "walk"
    BY <1>2
  <2> HIDE DEF w, at
  <2>3. w.at = at /\ w.left = left /\ w.read = 0 /\ DOMAIN w = Fields
    BY <1>2, <2>1 DEF Fields
  <2>4. ASSUME NEW f \in Fields \ {"at", "left", "read"}  PROVE w[f] = checker[f]
    <3> HIDE DEF left
    <3> QED
      BY <1>2, <2>1, <2>4
  <2> QED
    BY <2>2, <2>3, <2>4
<1>4. \/ d \notin objects /\ checker' = w
      \/ d \in objects /\ checker' = [w EXCEPT !.present = @ \cup {d},
                                       !.orphans = IF orphan THEN @ \cup {d} ELSE @]
      \/ checker' = [w EXCEPT !.unlisted = @ \cup {d}]
      \/ checker' = [w EXCEPT !.passed = @ \cup {d}]
  BY <1>1 DEF Look, MissDirectory, MissEntry
<1>5. orphan <=> Orphan(d)
  OBVIOUS
<1> HIDE DEF w, orphan
<1>6. CASE d \notin objects /\ checker' = w
  BY <1>2, <1>3, <1>6 DEF Fields
<1>7. CASE d \in objects /\ checker' = [w EXCEPT !.present = @ \cup {d},
                                         !.orphans = IF orphan THEN @ \cup {d} ELSE @]
  <2>1. /\ checker'.present = checker.present \cup {d}
        /\ checker'.orphans = IF orphan THEN checker.orphans \cup {d} ELSE checker.orphans
        /\ \A f \in Fields \ {"present", "orphans"} : checker'[f] = w[f]
    BY <1>3, <1>7 DEF Fields
  <2> QED
    BY <1>2, <1>3, <1>5, <1>7, <2>1 DEF Fields
<1>8. CASE checker' = [w EXCEPT !.unlisted = @ \cup {d}]
  <2>1. /\ checker'.unlisted = checker.unlisted \cup {d}
        /\ \A f \in Fields \ {"unlisted"} : checker'[f] = w[f]
    BY <1>3, <1>8 DEF Fields
  <2> QED
    BY <1>2, <1>3, <2>1 DEF Fields
<1>9. CASE checker' = [w EXCEPT !.passed = @ \cup {d}]
  <2>1. /\ checker'.passed = checker.passed \cup {d}
        /\ \A f \in Fields \ {"passed"} : checker'[f] = w[f]
    BY <1>3, <1>9 DEF Fields
  <2> QED
    BY <1>2, <1>3, <2>1 DEF Fields
<1> QED
  BY <1>4, <1>6, <1>7, <1>8, <1>9

LEMMA ResolveMoves ==
  ASSUME Shaped, ResolveNext
  PROVE  \E kind \in Judging :
           /\ checker.at = "resolve" /\ checker'.read = checker.read + 1
           /\ checker'.at \in {"resolve", "derived"} /\ checker.read \in 0..3
           /\ \A f \in Fields \ {"read", "at", "dangling", "overlooked"} :
                checker'[f] = checker[f]
           /\ \/ /\ checker'.dangling =
                      checker.dangling \cup {r \in References(kind) : Missing(r)}
                 /\ checker'.overlooked = checker.overlooked
              \/ /\ checker'.dangling = checker.dangling
                 /\ checker'.overlooked = checker.overlooked \cup {kind}
<1> DEFINE kind == Resolved[checker.read + 1]
           found == {r \in References(kind) : Missing(r)}
           w == AfterResolving(kind)
<1>1. /\ checker.at = "resolve" /\ checker.read \in 0..3 /\ kind \in Judging
      /\ Resolve(kind) \/ ResolveNothing(kind)
  BY KindsAre DEF ResolveNext, Shaped
<1>2. DOMAIN checker = Fields
  BY DEF Shaped, Fields
<1> HIDE DEF kind
<1>3. /\ w.read = checker.read + 1 /\ w.at \in {"resolve", "derived"}
      /\ \A f \in Fields \ {"read", "at"} : w[f] = checker[f]
      /\ DOMAIN w = Fields
  BY <1>1, <1>2 DEF AfterResolving, Fields
<1>4. \/ checker' = [w EXCEPT !.dangling = @ \cup found]
      \/ checker' = [w EXCEPT !.overlooked = @ \cup {kind}]
  BY <1>1, <1>3 DEF Resolve, ResolveNothing, Fields
<1>5. found = {r \in References(kind) : Missing(r)}
  OBVIOUS
<1> HIDE DEF w, found
<1>6. CASE checker' = [w EXCEPT !.dangling = @ \cup found]
  <2>1. /\ checker'.dangling = checker.dangling \cup found
        /\ \A f \in Fields \ {"dangling"} : checker'[f] = w[f]
    BY <1>3, <1>6 DEF Fields
  <2> QED
    BY <1>1, <1>3, <1>5, <2>1 DEF Fields
<1>7. CASE checker' = [w EXCEPT !.overlooked = @ \cup {kind}]
  <2>1. /\ checker'.overlooked = checker.overlooked \cup {kind}
        /\ \A f \in Fields \ {"overlooked"} : checker'[f] = w[f]
    BY <1>3, <1>7 DEF Fields
  <2> QED
    BY <1>1, <1>3, <2>1 DEF Fields
<1> QED
  BY <1>4, <1>6, <1>7

LEMMA ReportMoves ==
  ASSUME Shaped, Report
  PROVE  /\ checker.at = "derived" /\ checker'.at = "done"
         /\ checker'.leftover \subseteq derived
         /\ \A f \in Fields \ {"at", "leftover"} : checker'[f] = checker[f]
<1>1. PICK filed \in Listings("derived", derived) :
        checker' = [checker EXCEPT !.at = "done",
                      !.leftover = filed \ (checker.present \cup checker.unlisted)]
  BY Zenon DEF Report
<1>2. checker.at = "derived" /\ DOMAIN checker = Fields
  BY DEF Report, Shaped, Fields
<1>3. filed \subseteq derived
  BY DEF Listings
<1>4. /\ checker'.at = "done"
      /\ checker'.leftover = filed \ (checker.present \cup checker.unlisted)
      /\ \A f \in Fields \ {"at", "leftover"} : checker'[f] = checker[f]
  BY <1>1, <1>2 DEF Fields
<1> QED
  BY <1>2, <1>3, <1>4

LEMMA IdleSees ==
  /\ DOMAIN Idle = Fields /\ Idle.at = "idle" /\ Idle.read = 0 /\ Idle.cyclic = FALSE
  /\ Idle.ids = [kind \in RecordKinds |-> {}]
  /\ \A f \in Fields \ {"at", "read", "ids", "cyclic"} : Idle[f] = {}
  /\ \A f \in Fields \ {"at"} : [Idle EXCEPT !.at = "collect"][f] = Idle[f]
  /\ [Idle EXCEPT !.at = "collect"].at = "collect"
<1>1. /\ DOMAIN Idle = Fields /\ Idle.at = "idle" /\ Idle.read = 0 /\ Idle.cyclic = FALSE
      /\ Idle.ids = [kind \in RecordKinds |-> {}]
      /\ Idle.named = {} /\ Idle.unchecked = {} /\ Idle.left = {} /\ Idle.present = {}
      /\ Idle.unlisted = {} /\ Idle.passed = {} /\ Idle.overlooked = {}
      /\ Idle.orphans = {} /\ Idle.dangling = {} /\ Idle.leftover = {}
  BY DEF Idle, Fields
<1>2. \A f \in Fields \ {"at", "read", "ids", "cyclic"} : Idle[f] = {}
  BY <1>1 DEF Fields
<1>3. \A f \in Fields \ {"at"} : [Idle EXCEPT !.at = "collect"][f] = Idle[f]
  BY <1>1
<1>4. [Idle EXCEPT !.at = "collect"].at = "collect"
  BY <1>1 DEF Fields
<1> QED
  BY <1>1, <1>2, <1>3, <1>4

\* The archive a step of the check looks at stays as it is.
LEMMA ArchiveStands ==
  ASSUME UNCHANGED vars
  PROVE  /\ Damage' = Damage /\ objects' = objects
         /\ \A kind : Stored(kind)' = Stored(kind) /\ References(kind)' = References(kind)
<1>1. /\ UNCHANGED <<objects, events, cases, submissions, receipts, associations>>
  BY DEF vars, records
<1>2. \A kind : Stored(kind)' = Stored(kind) /\ References(kind)' = References(kind)
  BY <1>1 DEF Stored, References, Refs, Ids, Named
<1>3. Damage' = Damage
  BY <1>1 DEF Damage, AllReferences, References, Refs, Stored, Ids, Named
<1> QED
  BY <1>1, <1>2, <1>3

\* Import events, submissions and receipts are what names objects.
LEMMA ObjectTargets ==
  ASSUME TypeOK, NEW r \in AllReferences, r.to = "object"
  PROVE  r.target \in Digest /\ r.from \in {"import_event", "submission", "receipt"}
<1>1. r.from \in Judging /\ r \in References(r.from)
  BY ReferenceIs
<1>2. CASE r.from = "import_event"
  BY <1>1, <1>2, SMTT(30) DEF References, Refs, TypeOK, ImportEvent
<1>3. CASE r.from = "submission"
  BY <1>1, <1>3, SMTT(30) DEF References, Refs, TypeOK, Submission
<1>4. CASE r.from = "receipt"
  BY <1>1, <1>4, SMTT(30) DEF References, Refs, TypeOK, Receipt
<1>5. r.from # "association"
  BY <1>1 DEF References, Refs
<1> QED
  BY <1>1, <1>2, <1>3, <1>4, <1>5 DEF Judging

LEMMA ObjectsNamedAre ==
  ASSUME TypeOK
  PROVE  \A kind \in RecordKinds : ObjectsNamed(kind) \subseteq Digest
<1>1. \A kind \in RecordKinds : References(kind) \subseteq AllReferences
  BY DEF AllReferences
<1> QED
  BY <1>1, ObjectTargets DEF ObjectsNamed

\* A check that moves lets every command do what it did without one.
LEMMA CheckOnlyReads ==
  ASSUME [CheckNext]_<<vars, checkVars>>
  PROVE  [Next]_vars
BY DEF CheckNext, CheckMoves

LEMMA CheckedIsArchive == CheckSpec => Spec
<1>1. [CheckNext]_<<vars, checkVars>> => [Next]_vars
  BY CheckOnlyReads
<1> QED
  BY <1>1, PTL DEF CheckSpec, Spec

LEMMA CheckInvHolds == CheckSpec => []CheckInv
BY CheckInitHolds, CheckStepKeeps, PTL DEF CheckSpec

LEMMA IdentityHolds == Spec => []IdentityInv
BY InitIdentityInv, StepIdentityInv, PTL DEF Spec

----------------------------------------------------------------------------
(* What a check holds *)

HeldDigests == {"named", "left", "present", "unlisted", "passed", "orphans", "leftover"}

LEMMA CollectedTypes ==
  ASSUME TypeOK, IdsUnique, Shaped, CheckTypeOK, CollectNext, UNCHANGED moved
  PROVE  /\ checker'.at \in {"collect", "walk"} /\ checker'.read \in 0..5
         /\ checker'.ids \in [RecordKinds -> SUBSET drawn]
         /\ \A part \in HeldDigests : checker'[part] \subseteq Digest
         /\ checker'.cyclic \in BOOLEAN
         /\ checker'.unchecked \cup checker'.overlooked \subseteq RecordKinds
<1>1. PICK kind \in RecordKinds :
        /\ checker.read \in 0..4 /\ checker'.read = checker.read + 1
        /\ IF kind = "association" THEN checker'.at = "walk" /\ checker'.left = Digest
           ELSE checker'.at = "collect" /\ checker'.left = checker.left
        /\ \A f \in {"present", "unlisted", "passed", "overlooked", "orphans",
                     "dangling", "leftover"} : checker'[f] = checker[f]
        /\ \/ /\ checker'.ids = [checker.ids EXCEPT ![kind] = Stored(kind)]
              /\ checker'.named = checker.named \cup ObjectsNamed(kind)
              /\ checker'.cyclic = IF kind = "association" THEN HoldsCycle(associations)
                                   ELSE checker.cyclic
              /\ checker'.unchecked = checker.unchecked
           \/ /\ checker'.ids = checker.ids /\ checker'.named = checker.named
              /\ checker'.cyclic = checker.cyclic
              /\ checker'.unchecked = checker.unchecked \cup {kind}
  BY CollectMoves, Zenon
<1>2. /\ checker.ids \in [RecordKinds -> SUBSET drawn] /\ checker.cyclic \in BOOLEAN
      /\ \A part \in HeldDigests : checker[part] \subseteq Digest
      /\ checker.unchecked \cup checker.overlooked \subseteq RecordKinds
  BY DEF CheckTypeOK, HeldDigests
<1>3. Stored(kind) \subseteq drawn /\ ObjectsNamed(kind) \subseteq Digest
  <2>1. Stored(kind) \subseteq drawn
    BY DEF IdsUnique, UniqueIds, Stored, RecordKinds
  <2> QED
    BY <2>1, ObjectsNamedAre
<1>4. checker'.at \in {"collect", "walk"} /\ checker'.read \in 0..5
  BY <1>1
<1>5. checker'.ids \in [RecordKinds -> SUBSET drawn]
  BY <1>1, <1>2, <1>3
<1>6. /\ checker'.named \subseteq Digest /\ checker'.left \subseteq Digest
      /\ checker'.present \subseteq Digest /\ checker'.unlisted \subseteq Digest
      /\ checker'.passed \subseteq Digest /\ checker'.orphans \subseteq Digest
      /\ checker'.leftover \subseteq Digest
  BY <1>1, <1>2, <1>3 DEF HeldDigests
<1>7. checker'.cyclic \in BOOLEAN
  BY <1>1, <1>2, Zenon DEF HoldsCycle
<1>8. checker'.unchecked \cup checker'.overlooked \subseteq RecordKinds
  BY <1>1, <1>2
<1> QED
  BY <1>4, <1>5, <1>6, <1>7, <1>8 DEF HeldDigests

LEMMA WalkedTypes ==
  ASSUME TypeOK, Shaped, CheckTypeOK, WalkNext
  PROVE  /\ checker'.at \in {"walk", "resolve"} /\ checker'.read \in 0..5
         /\ checker'.ids \in [RecordKinds -> SUBSET drawn]
         /\ \A part \in HeldDigests : checker'[part] \subseteq Digest
         /\ checker'.cyclic \in BOOLEAN
         /\ checker'.unchecked \cup checker'.overlooked \subseteq RecordKinds
<1>1. PICK d \in checker.left :
        /\ checker'.at = IF checker.left = {d} THEN "resolve" ELSE "walk"
        /\ checker'.left = checker.left \ {d} /\ checker'.read = 0
        /\ \A f \in {"ids", "named", "cyclic", "unchecked", "overlooked", "dangling",
                     "leftover"} : checker'[f] = checker[f]
        /\ \/ /\ d \notin objects
              /\ \A f \in {"present", "unlisted", "passed", "orphans"} :
                   checker'[f] = checker[f]
           \/ /\ d \in objects /\ checker'.present = checker.present \cup {d}
              /\ checker'.orphans = IF Orphan(d) THEN checker.orphans \cup {d}
                                    ELSE checker.orphans
              /\ checker'.unlisted = checker.unlisted /\ checker'.passed = checker.passed
           \/ /\ checker'.unlisted = checker.unlisted \cup {d}
              /\ \A f \in {"present", "passed", "orphans"} : checker'[f] = checker[f]
           \/ /\ checker'.passed = checker.passed \cup {d}
              /\ \A f \in {"present", "unlisted", "orphans"} : checker'[f] = checker[f]
  BY WalkMoves, Zenon
<1>2. /\ checker.ids \in [RecordKinds -> SUBSET drawn] /\ checker.cyclic \in BOOLEAN
      /\ \A part \in HeldDigests : checker[part] \subseteq Digest
      /\ checker.unchecked \cup checker.overlooked \subseteq RecordKinds
  BY DEF CheckTypeOK, HeldDigests
<1>3. d \in Digest
  BY <1>2 DEF HeldDigests
<1>4. /\ checker'.at \in {"walk", "resolve"} /\ checker'.read \in 0..5
      /\ checker'.ids = checker.ids /\ checker'.cyclic = checker.cyclic
      /\ checker'.unchecked = checker.unchecked /\ checker'.overlooked = checker.overlooked
      /\ checker'.named = checker.named /\ checker'.leftover = checker.leftover
      /\ checker'.left \subseteq checker.left
  BY <1>1
<1>5. /\ checker'.present \subseteq Digest /\ checker'.unlisted \subseteq Digest
      /\ checker'.passed \subseteq Digest /\ checker'.orphans \subseteq Digest
  BY <1>1, <1>2, <1>3 DEF HeldDigests
<1> QED
  BY <1>2, <1>4, <1>5 DEF HeldDigests

LEMMA ResolvedTypes ==
  ASSUME Shaped, CheckTypeOK, ResolveNext
  PROVE  /\ checker'.at \in {"resolve", "derived"} /\ checker'.read \in 0..5
         /\ checker'.ids \in [RecordKinds -> SUBSET drawn]
         /\ \A part \in HeldDigests : checker'[part] \subseteq Digest
         /\ checker'.cyclic \in BOOLEAN
         /\ checker'.unchecked \cup checker'.overlooked \subseteq RecordKinds
<1>1. PICK kind \in Judging :
        /\ checker'.read = checker.read + 1
        /\ checker'.at \in {"resolve", "derived"} /\ checker.read \in 0..3
        /\ \A f \in Fields \ {"read", "at", "dangling", "overlooked"} :
             checker'[f] = checker[f]
        /\ \/ checker'.overlooked = checker.overlooked
           \/ checker'.overlooked = checker.overlooked \cup {kind}
  BY ResolveMoves, Zenon
<1>2. kind \in RecordKinds
  BY DEF Judging, RecordKinds
<1> QED
  BY <1>1, <1>2 DEF CheckTypeOK, HeldDigests, Fields

LEMMA ReportedTypes ==
  ASSUME TypeOK, Shaped, CheckTypeOK, Report
  PROVE  /\ checker'.at = "done" /\ checker'.read \in 0..5
         /\ checker'.ids \in [RecordKinds -> SUBSET drawn]
         /\ \A part \in HeldDigests : checker'[part] \subseteq Digest
         /\ checker'.cyclic \in BOOLEAN
         /\ checker'.unchecked \cup checker'.overlooked \subseteq RecordKinds
<1>1. derived \subseteq Digest
  BY DEF TypeOK
<1> QED
  BY <1>1, ReportMoves DEF CheckTypeOK, HeldDigests, Fields

LEMMA NothingHeld ==
  \A known : \A saw \in {Idle, [Idle EXCEPT !.at = "collect"]} :
    /\ saw.at \in {"idle", "collect"} /\ saw.read = 0 /\ saw.cyclic = FALSE
    /\ saw.ids \in [RecordKinds -> SUBSET known]
    /\ \A part \in HeldDigests \cup {"unchecked", "overlooked", "dangling"} : saw[part] = {}
<1>1. ASSUME NEW part \in HeldDigests \cup {"unchecked", "overlooked", "dangling"}
      PROVE  /\ Idle[part] = {} /\ [Idle EXCEPT !.at = "collect"][part] = {}
  BY IdleSees DEF HeldDigests, Fields
<1>2. /\ [Idle EXCEPT !.at = "collect"].read = 0
      /\ [Idle EXCEPT !.at = "collect"].cyclic = FALSE
      /\ [Idle EXCEPT !.at = "collect"].ids = [kind \in RecordKinds |-> {}]
  BY IdleSees DEF Fields
<1>3. \A known : [kind \in RecordKinds |-> {}] \in [RecordKinds -> SUBSET known]
  OBVIOUS
<1> QED
  BY <1>1, <1>2, <1>3, IdleSees

LEMMA NothingTyped ==
  ASSUME checker' \in {Idle, [Idle EXCEPT !.at = "collect"]}, moved' \in BOOLEAN
  PROVE  CheckTypeOK'
<1>1. /\ checker'.at \in {"idle", "collect"} /\ checker'.read = 0 /\ checker'.cyclic = FALSE
      /\ checker'.ids \in [RecordKinds -> SUBSET drawn']
      /\ \A part \in HeldDigests \cup {"unchecked", "overlooked", "dangling"} :
           checker'[part] = {}
  BY NothingHeld, Zenon
<1>2. \A part \in HeldDigests : checker'[part] \subseteq Digest
  BY <1>1
<1>3. checker'.unchecked \cup checker'.overlooked \subseteq RecordKinds
  BY <1>1
<1>4. checker'.cyclic \in BOOLEAN
  BY <1>1, Zenon
<1>5. checker'.read \in 0..5
  BY <1>1
<1> QED
  BY <1>1, <1>2, <1>3, <1>4, <1>5 DEF CheckTypeOK, HeldDigests

LEMMA CheckTypesKept ==
  ASSUME IdentityInv, CheckInv, CheckTypeOK, [CheckNext]_<<vars, checkVars>>
  PROVE  CheckTypeOK'
<1>0. TypeOK /\ IdsUnique /\ Shaped
  BY DEF IdentityInv, LockInv, TypeInv, CheckInv
<1>1. drawn \subseteq drawn'
  BY CheckOnlyReads, ArchiveDraws
<1>2. CASE Next /\ CheckWatches
  <2>1. moved' \in BOOLEAN
    BY <1>2, Zenon DEF CheckWatches, Running
  <2>2. CASE checker' = checker
    BY <1>1, <2>1, <2>2 DEF CheckTypeOK
  <2>3. CASE checker' = Idle
    BY <2>1, <2>3, NothingTyped
  <2> QED
    BY <1>2, <2>2, <2>3 DEF CheckWatches
<1>3. CASE BeginCheck /\ UNCHANGED vars
  <2>1. checker' = [Idle EXCEPT !.at = "collect"] /\ moved' = FALSE
    BY <1>3 DEF BeginCheck
  <2> QED
    BY <2>1, NothingTyped
<1>4. CASE CheckStep /\ UNCHANGED <<standing, moved>> /\ UNCHANGED vars
  <2>1. drawn' = drawn /\ moved' = moved /\ moved \in BOOLEAN
    BY <1>4 DEF vars, CheckTypeOK
  <2>2. CASE CollectNext
    BY <1>0, <2>1, <2>2, CollectedTypes DEF CheckTypeOK, HeldDigests
  <2>3. CASE WalkNext
    BY <1>0, <2>1, <2>3, WalkedTypes DEF CheckTypeOK, HeldDigests
  <2>4. CASE ResolveNext
    BY <1>0, <2>1, <2>4, ResolvedTypes DEF CheckTypeOK, HeldDigests
  <2>5. CASE Report
    BY <1>0, <2>1, <2>5, ReportedTypes DEF CheckTypeOK, HeldDigests
  <2> QED
    BY <1>4, <2>2, <2>3, <2>4, <2>5 DEF CheckStep
<1>5. CASE UNCHANGED <<vars, checkVars>>
  BY <1>5 DEF vars, checkVars, CheckTypeOK
<1> QED
  BY <1>2, <1>3, <1>4, <1>5 DEF CheckNext, CheckMoves

\* archive check holds identifiers that were drawn and digests there are, and
\* no listing takes it past the end of what it lists.
THEOREM CheckTypeCorrect == CheckSpec => []CheckTypeOK
<1>1. CheckInit => CheckTypeOK
  <2> SUFFICES ASSUME CheckInit PROVE CheckTypeOK
    OBVIOUS
  <2>1. /\ checker.at \in {"idle", "collect"} /\ checker.read = 0 /\ checker.cyclic = FALSE
        /\ checker.ids \in [RecordKinds -> SUBSET drawn]
        /\ \A part \in HeldDigests \cup {"unchecked", "overlooked", "dangling"} :
             checker[part] = {}
    BY NothingHeld, Zenon DEF CheckInit
  <2>2. \A part \in HeldDigests : checker[part] \subseteq Digest
    BY <2>1
  <2>3. checker.unchecked \cup checker.overlooked \subseteq RecordKinds
    BY <2>1
  <2>4. checker.cyclic \in BOOLEAN
    BY <2>1, Zenon
  <2>5. checker.read \in 0..5
    BY <2>1
  <2> QED
    BY <2>1, <2>2, <2>3, <2>4, <2>5 DEF CheckTypeOK, HeldDigests, CheckInit
<1>2. CheckSpec => []IdentityInv /\ []CheckInv
  BY CheckedIsArchive, IdentityHolds, CheckInvHolds
<1> QED
  BY <1>1, <1>2, CheckTypesKept, PTL DEF CheckSpec

----------------------------------------------------------------------------
(* What a check says of an archive no command moves in *)

\* The directory of the kind was refused, or was collected as it is.
Seen(kind) ==
  \/ kind \in checker.unchecked
  \/ checker.ids[kind] = Stored(kind) /\ ObjectsNamed(kind) \subseteq checker.named

Collection(k) == checker.at = "collect" => k <= checker.read

\* What the check saw and reported is so.
Truthful ==
  /\ standing = Damage
  /\ \A k \in 1..5 : Collection(k) => Seen(Collected[k])
  /\ \A d \in objects : Passed(d) => d \in checker.present \cup checker.unlisted \cup checker.passed
  /\ checker.orphans \subseteq Damage.orphans
  /\ \A r \in checker.dangling : r \in Damage.dangling \/ r.target \in checker.passed
  /\ checker.cyclic => HoldsCycle(associations)

Undisturbed == checker.at # "idle" /\ ~moved

StillInv == Undisturbed => Truthful

\* The five directories hold every kind of record.
LEMMA CollectedAre ==
  /\ Collected[1] = "import_event" /\ Collected[2] = "case" /\ Collected[3] = "submission"
  /\ Collected[4] = "receipt" /\ Collected[5] = "association"
  /\ \A kind \in RecordKinds : \E k \in 1..5 : Collected[k] = kind
  /\ \A k \in 1..5 : Collected[k] = "association" => k = 5
<1>1. /\ Collected[1] = "import_event" /\ Collected[2] = "case" /\ Collected[3] = "submission"
      /\ Collected[4] = "receipt" /\ Collected[5] = "association"
  BY DEF Collected
<1>2. 1 \in 1..5 /\ 2 \in 1..5 /\ 3 \in 1..5 /\ 4 \in 1..5 /\ 5 \in 1..5
  OBVIOUS
<1>3. \A k \in 1..5 : k = 1 \/ k = 2 \/ k = 3 \/ k = 4 \/ k = 5
  OBVIOUS
<1>4. \A k \in 1..5 : Collected[k] = "association" => k = 5
  BY <1>1, <1>3
<1> QED
  BY <1>1, <1>2, <1>4 DEF RecordKinds

LEMMA CollectTells ==
  ASSUME Shaped, Truthful, CollectNext, UNCHANGED vars, UNCHANGED standing,
         TypeOK
  PROVE  Truthful'
<1>1. PICK kind \in RecordKinds :
        /\ kind = Collected[checker.read + 1] /\ checker.read \in 0..4
        /\ checker'.read = checker.read + 1
        /\ IF kind = "association" THEN checker'.at = "walk" /\ checker'.left = Digest
           ELSE checker'.at = "collect" /\ checker'.left = checker.left
        /\ \A f \in {"present", "unlisted", "passed", "overlooked", "orphans",
                     "dangling", "leftover"} : checker'[f] = checker[f]
        /\ \/ /\ checker'.ids = [checker.ids EXCEPT ![kind] = Stored(kind)]
              /\ checker'.named = checker.named \cup ObjectsNamed(kind)
              /\ checker'.cyclic = IF kind = "association" THEN HoldsCycle(associations)
                                   ELSE checker.cyclic
              /\ checker'.unchecked = checker.unchecked
           \/ /\ checker'.ids = checker.ids /\ checker'.named = checker.named
              /\ checker'.cyclic = checker.cyclic
              /\ checker'.unchecked = checker.unchecked \cup {kind}
  BY CollectMoves, Zenon
<1>2. /\ Damage' = Damage /\ objects' = objects /\ associations' = associations
      /\ \A k : Stored(k)' = Stored(k) /\ References(k)' = References(k)
  BY ArchiveStands DEF vars, records
<1>3. \A k : ObjectsNamed(k)' = ObjectsNamed(k)
  BY <1>2 DEF ObjectsNamed
<1>4. checker.at = "collect" /\ DOMAIN checker.ids = RecordKinds
  BY DEF CollectNext, Shaped
<1>5. ASSUME NEW k \in 1..5, Collection(k)' PROVE Seen(Collected[k])'
  <2> DEFINE seen == Collected[k]
  <2>1. seen \in RecordKinds /\ (seen = kind \/ Seen(seen))
    <3>1. k <= checker.read + 1
      <4>1. CASE checker'.at = "collect"
        BY <1>1, <1>5, <4>1 DEF Collection
      <4>2. CASE checker'.at # "collect"
        <5>1. kind = "association"
          BY <1>1, <4>2
        <5>2. checker.read + 1 \in 1..5
          BY <1>1
        <5>3. checker.read + 1 = 5
          BY <1>1, <5>1, <5>2, CollectedAre
        <5> QED
          BY <5>3
      <4> QED
        BY <4>1, <4>2
    <3>2. k = checker.read + 1 \/ k <= checker.read
      BY <1>1, <3>1
    <3> QED
      BY <1>1, <1>4, <3>2, KindsAre DEF Truthful, Collection
  <2> HIDE DEF seen
  <2>2. Seen(seen)'
    <3>1. CASE seen = kind
      BY <1>1, <1>2, <1>3, <1>4, <2>1, <3>1 DEF Seen
    <3>2. CASE seen # kind /\ Seen(seen)
      BY <1>1, <1>2, <1>3, <1>4, <2>1, <3>2 DEF Seen
    <3> QED
      BY <2>1, <3>1, <3>2
  <2> QED
    BY <2>2 DEF seen
<1>6. \A d \in objects : ~Passed(d)'
  <2>1. \A d \in objects : d \in Digest
    BY DEF TypeOK
  <2> QED
    BY <1>1, <2>1 DEF Passed
<1> QED
  BY <1>1, <1>2, <1>5, <1>6 DEF Truthful

\* An object called an orphan is one: nothing names it, as every directory that
\* could hold what names it was collected.
LEMMA OrphanIs ==
  ASSUME TypeOK, Shaped, Truthful, checker.at = "walk", NEW d \in objects, Orphan(d)
  PROVE  d \in Damage.orphans
<1>1. d \notin checker.named /\ MayJudgeOrphans
  BY DEF Orphan
<1>2. ASSUME NEW r \in AllReferences, r.to = "object" PROVE r.target # d
  <2>1. r.from \in {"import_event", "submission", "receipt"} /\ r \in References(r.from)
    BY <1>2, ObjectTargets, ReferenceIs
  <2>2. r.from \in RecordKinds /\ r.from \notin checker.unchecked
    BY <1>1, <2>1 DEF MayJudgeOrphans, RecordKinds
  <2>3. Seen(r.from)
    BY <2>2, CollectedAre DEF Truthful, Collection
  <2>4. r.target \in ObjectsNamed(r.from)
    BY <1>2, <2>1 DEF ObjectsNamed
  <2> QED
    BY <1>1, <2>2, <2>3, <2>4 DEF Seen
<1> QED
  BY <1>2 DEF Damage

LEMMA WalkTells ==
  ASSUME TypeOK, Shaped, Truthful, WalkNext, UNCHANGED vars, UNCHANGED standing
  PROVE  Truthful'
<1>1. PICK d \in checker.left :
        /\ checker.at = "walk"
        /\ checker'.at = IF checker.left = {d} THEN "resolve" ELSE "walk"
        /\ checker'.left = checker.left \ {d}
        /\ \A f \in {"ids", "named", "cyclic", "unchecked", "overlooked", "dangling",
                     "leftover"} : checker'[f] = checker[f]
        /\ \/ /\ d \notin objects
              /\ \A f \in {"present", "unlisted", "passed", "orphans"} :
                   checker'[f] = checker[f]
           \/ /\ d \in objects /\ checker'.present = checker.present \cup {d}
              /\ checker'.orphans = IF Orphan(d) THEN checker.orphans \cup {d}
                                    ELSE checker.orphans
              /\ checker'.unlisted = checker.unlisted /\ checker'.passed = checker.passed
           \/ /\ checker'.unlisted = checker.unlisted \cup {d}
              /\ \A f \in {"present", "passed", "orphans"} : checker'[f] = checker[f]
           \/ /\ checker'.passed = checker.passed \cup {d}
              /\ \A f \in {"present", "unlisted", "orphans"} : checker'[f] = checker[f]
  BY WalkMoves, Zenon
<1>2. /\ Damage' = Damage /\ objects' = objects /\ associations' = associations
      /\ \A k : Stored(k)' = Stored(k) /\ References(k)' = References(k)
  BY ArchiveStands DEF vars, records
<1>3. \A k : ObjectsNamed(k)' = ObjectsNamed(k)
  BY <1>2 DEF ObjectsNamed
<1>4. /\ checker'.ids = checker.ids /\ checker'.named = checker.named
      /\ checker'.unchecked = checker.unchecked /\ checker'.cyclic = checker.cyclic
      /\ checker'.dangling = checker.dangling /\ checker'.at \in {"walk", "resolve"}
      /\ checker.present \subseteq checker'.present
      /\ checker.unlisted \subseteq checker'.unlisted
      /\ checker.passed \subseteq checker'.passed
      /\ d \in objects => d \in checker'.present \cup checker'.unlisted \cup checker'.passed
  BY <1>1
<1>5. \A k \in 1..5 : Seen(Collected[k])'
  <2>1. \A k \in 1..5 : Seen(Collected[k])
    BY <1>1 DEF Truthful, Collection
  <2>2. \A kind : Seen(kind) => Seen(kind)'
    BY <1>2, <1>3, <1>4 DEF Seen
  <2>3. ASSUME NEW k \in 1..5 PROVE Seen(Collected[k])'
    <3> DEFINE kind == Collected[k]
    <3>1. Seen(kind)
      BY <2>1
    <3> HIDE DEF kind
    <3>2. Seen(kind)'
      BY <2>2, <3>1
    <3> QED
      BY <3>2 DEF kind
  <2> QED
    BY <2>3
<1>6. ASSUME NEW o \in objects, Passed(o)'
      PROVE  o \in checker'.present \cup checker'.unlisted \cup checker'.passed
  <2>1. o = d \/ o \notin checker.left
    BY <1>1, <1>6 DEF Passed
  <2>2. CASE o = d
    BY <1>4, <2>2
  <2>3. CASE o \notin checker.left
    BY <1>1, <1>4, <2>3 DEF Truthful, Passed
  <2> QED
    BY <2>1, <2>2, <2>3
<1>7. checker'.orphans \subseteq Damage.orphans
  <2>1. checker'.orphans \subseteq checker.orphans \cup {x \in {d} \cap objects : Orphan(x)}
    BY <1>1
  <2> QED
    BY <1>1, <2>1, OrphanIs DEF Truthful
<1>8. \A r \in checker'.dangling : r \in Damage.dangling \/ r.target \in checker'.passed
  BY <1>4 DEF Truthful
<1> QED
  BY <1>2, <1>4, <1>5, <1>6, <1>7, <1>8 DEF Truthful

LEMMA ResolveTells ==
  ASSUME TypeOK, Shaped, Truthful, ResolveNext, UNCHANGED vars, UNCHANGED standing
  PROVE  Truthful'
<1>1. PICK kind \in Judging :
        /\ checker.at = "resolve" /\ checker'.at \in {"resolve", "derived"}
        /\ \A f \in Fields \ {"read", "at", "dangling", "overlooked"} :
             checker'[f] = checker[f]
        /\ \/ checker'.dangling = checker.dangling \cup {r \in References(kind) : Missing(r)}
           \/ checker'.dangling = checker.dangling
  BY ResolveMoves, Zenon
<1>2. /\ Damage' = Damage /\ objects' = objects /\ associations' = associations
      /\ \A k : Stored(k)' = Stored(k) /\ References(k)' = References(k)
  BY ArchiveStands DEF vars, records
<1>3. \A k : ObjectsNamed(k)' = ObjectsNamed(k)
  BY <1>2 DEF ObjectsNamed
<1>4. /\ checker'.ids = checker.ids /\ checker'.named = checker.named
      /\ checker'.unchecked = checker.unchecked /\ checker'.cyclic = checker.cyclic
      /\ checker'.present = checker.present /\ checker'.unlisted = checker.unlisted
      /\ checker'.passed = checker.passed /\ checker'.orphans = checker.orphans
  BY <1>1 DEF Fields
<1>5. \A k \in 1..5 : Seen(Collected[k])
  BY <1>1 DEF Truthful, Collection
<1>6. \A k \in 1..5 : Seen(Collected[k])'
  <2>1. \A seen : Seen(seen) => Seen(seen)'
    BY <1>2, <1>3, <1>4 DEF Seen
  <2>2. ASSUME NEW k \in 1..5 PROVE Seen(Collected[k])'
    <3> DEFINE seen == Collected[k]
    <3>1. Seen(seen)
      BY <1>5
    <3> HIDE DEF seen
    <3>2. Seen(seen)'
      BY <2>1, <3>1
    <3> QED
      BY <3>2 DEF seen
  <2> QED
    BY <2>2
<1>7. \A d \in objects : d \in checker.present \cup checker.unlisted \cup checker.passed
  BY <1>1 DEF Truthful, Passed
<1>8. ASSUME NEW r \in References(kind), Missing(r)
      PROVE  r \in Damage.dangling \/ r.target \in checker.passed
  <2>1. r \in AllReferences /\ r.to \in RecordKinds \cup {"object"}
    <3>1. r \in AllReferences
      BY DEF AllReferences, Judging, RecordKinds
    <3> QED
      BY <3>1, ReferenceIs
  <2>2. CASE r.to = "object"
    BY <1>7, <1>8, <2>1, <2>2 DEF Missing, Damage, Stored
  <2>3. CASE r.to # "object"
    <3>1. r.to \notin checker.unchecked /\ r.target \notin checker.ids[r.to]
      BY <1>8, <2>3 DEF Missing
    <3>2. Seen(r.to)
      BY <1>5, <2>1, <2>3, CollectedAre
    <3> QED
      BY <2>1, <3>1, <3>2 DEF Seen, Damage
  <2> QED
    BY <2>2, <2>3
<1>9. \A r \in checker'.dangling : r \in Damage.dangling \/ r.target \in checker'.passed
  BY <1>1, <1>4, <1>8 DEF Truthful
<1> QED
  BY <1>2, <1>4, <1>6, <1>7, <1>9 DEF Truthful

LEMMA ReportTells ==
  ASSUME Shaped, Truthful, Report, UNCHANGED vars, UNCHANGED standing
  PROVE  Truthful'
<1>1. /\ checker.at = "derived" /\ checker'.at = "done"
      /\ \A f \in Fields \ {"at", "leftover"} : checker'[f] = checker[f]
  BY ReportMoves
<1>2. /\ Damage' = Damage /\ objects' = objects /\ associations' = associations
      /\ \A k : Stored(k)' = Stored(k) /\ References(k)' = References(k)
  BY ArchiveStands DEF vars, records
<1>3. \A k : ObjectsNamed(k)' = ObjectsNamed(k)
  BY <1>2 DEF ObjectsNamed
<1>4. /\ checker'.ids = checker.ids /\ checker'.named = checker.named
      /\ checker'.unchecked = checker.unchecked /\ checker'.cyclic = checker.cyclic
      /\ checker'.present = checker.present /\ checker'.unlisted = checker.unlisted
      /\ checker'.passed = checker.passed /\ checker'.orphans = checker.orphans
      /\ checker'.dangling = checker.dangling
  BY <1>1 DEF Fields
<1>5. \A k \in 1..5 : Seen(Collected[k])'
  <2>1. \A seen : Seen(seen) => Seen(seen)'
    BY <1>2, <1>3, <1>4 DEF Seen
  <2>2. ASSUME NEW k \in 1..5 PROVE Seen(Collected[k])'
    <3> DEFINE seen == Collected[k]
    <3>1. Seen(seen)
      BY <1>1 DEF Truthful, Collection
    <3> HIDE DEF seen
    <3>2. Seen(seen)'
      BY <2>1, <3>1
    <3> QED
      BY <3>2 DEF seen
  <2> QED
    BY <2>2
<1>6. \A d \in objects : d \in checker.present \cup checker.unlisted \cup checker.passed
  BY <1>1 DEF Truthful, Passed
<1> QED
  BY <1>2, <1>4, <1>5, <1>6 DEF Truthful

LEMMA BeginTells ==
  ASSUME BeginCheck, UNCHANGED vars
  PROVE  Truthful'
<1>1. checker' = [Idle EXCEPT !.at = "collect"] /\ standing' = Damage
  BY DEF BeginCheck
<1>2. Damage' = Damage
  BY ArchiveStands
<1>3. /\ checker'.at = "collect" /\ checker'.read = 0 /\ checker'.cyclic = FALSE
      /\ checker'.orphans = {} /\ checker'.dangling = {}
  BY <1>1, IdleSees, NothingHeld DEF HeldDigests
<1>4. \A k \in 1..5 : ~Collection(k)'
  BY <1>3 DEF Collection
<1>5. \A d \in objects' : ~Passed(d)'
  BY <1>3 DEF Passed
<1> QED
  BY <1>1, <1>2, <1>3, <1>4, <1>5 DEF Truthful

LEMMA StillKept ==
  ASSUME TypeOK, Shaped, StillInv, [CheckNext]_<<vars, checkVars>>
  PROVE  StillInv'
<1> SUFFICES ASSUME Undisturbed' PROVE Truthful'
  BY DEF StillInv
<1>1. CASE Next /\ CheckWatches
  <2>1. Running => ~Undisturbed'
    BY <1>1 DEF CheckWatches, Undisturbed
  <2>2. ~Running => checker'.at = "idle"
    BY <1>1, IdleSees DEF CheckWatches
  <2> QED
    BY <2>1, <2>2 DEF Undisturbed
<1>2. CASE BeginCheck /\ UNCHANGED vars
  BY <1>2, BeginTells
<1>3. CASE CheckStep /\ UNCHANGED <<standing, moved>> /\ UNCHANGED vars
  <2>1. checker.at # "idle" /\ moved' = moved
    <3>1. checker.at \in {"collect", "walk", "resolve", "derived"}
      BY <1>3, Zenon DEF CheckStep, CollectNext, WalkNext, ResolveNext, Report
    <3> QED
      BY <1>3, <3>1
  <2>2. Truthful
    BY <2>1 DEF StillInv, Undisturbed
  <2> QED
    BY <1>3, <2>2, CollectTells, WalkTells, ResolveTells, ReportTells DEF CheckStep
<1>4. CASE UNCHANGED <<vars, checkVars>>
  <2>1. UNCHANGED vars /\ checker' = checker /\ standing' = standing /\ moved' = moved
    BY <1>4 DEF checkVars
  <2>2. Truthful
    BY <2>1 DEF StillInv, Undisturbed
  <2>3. /\ Damage' = Damage /\ objects' = objects /\ associations' = associations
        /\ \A k : Stored(k)' = Stored(k) /\ References(k)' = References(k)
    BY <2>1, ArchiveStands DEF vars, records
  <2>4. \A seen : Seen(seen) => Seen(seen)'
    BY <2>1, <2>3 DEF Seen, ObjectsNamed
  <2>5. ASSUME NEW k \in 1..5, Collection(k)' PROVE Seen(Collected[k])'
    <3> DEFINE seen == Collected[k]
    <3>1. Seen(seen)
      BY <2>1, <2>2, <2>5 DEF Truthful, Collection
    <3> HIDE DEF seen
    <3>2. Seen(seen)'
      BY <2>4, <3>1
    <3> QED
      BY <3>2 DEF seen
  <2> QED
    BY <2>1, <2>2, <2>3, <2>5 DEF Truthful, Passed
<1> QED
  BY <1>1, <1>2, <1>3, <1>4 DEF CheckNext, CheckMoves

LEMMA StillHolds == CheckSpec => []StillInv
<1>1. CheckInit => StillInv
  BY IdleSees DEF CheckInit, StillInv, Undisturbed
<1>2. CheckInv => TypeOK /\ Shaped
  BY DEF CheckInv, TypeInv
<1> QED
  BY <1>1, <1>2, CheckInvHolds, StillKept, PTL DEF CheckSpec

\* holds, orphaned: with no command beside it, a check reports nothing that is
\* not so, however many listings it was refused.
THEOREM NothingEverInvented == CheckSpec => []NothingInvented
<1>1. StillInv => NothingInvented
  BY DEF StillInv, Undisturbed, Truthful, NothingInvented, Reported
<1> QED
  BY <1>1, StillHolds, PTL

\* What refers to something that is gone is in a deletion, or was left by one.
LEMMA DanglingIsLeft ==
  ASSUME SubmissionsIntact, ReceiptsIntact, AssociationsIntact, SupersessionIntact,
         EventsIntact, NEW r \in Damage.dangling
  PROVE  r.id \in strandedRecords \cup InFlight
<1>1. r \in AllReferences /\ r.target \notin Stored(r.to)
  BY DEF Damage
<1>2. r.from \in Judging /\ r \in References(r.from)
  BY <1>1, ReferenceIs
<1>3. CASE r.from = "import_event"
  BY <1>1, <1>2, <1>3 DEF References, Refs, Stored, EventsIntact
<1>4. CASE r.from = "submission"
  BY <1>1, <1>2, <1>4 DEF References, Refs, Stored, SubmissionsIntact
<1>5. CASE r.from = "receipt"
  <2>1. PICK receipt \in receipts :
          \/ r.to = "object" /\ r.target = receipt.artefact
          \/ r.to = "import_event" /\ r.target = receipt.event
    BY <1>2, <1>5 DEF References, Refs
  <2>2. /\ receipt.artefact \in objects
        /\ \E e \in events : e.id = receipt.event
    BY DEF ReceiptsIntact
  <2> QED
    BY <1>1, <2>1, <2>2 DEF Stored, Ids
<1>6. CASE r.from = "association"
  BY <1>1, <1>2, <1>6 DEF References, Refs, Stored, AssociationsIntact, SupersessionIntact, Named
<1> QED
  BY <1>2, <1>3, <1>4, <1>5, <1>6 DEF Judging

LEMMA OrphanIsLeft ==
  ASSUME ObjectsRecorded, NEW d \in Damage.orphans
  PROVE  d \in strandedObjects \cup UNION {Unrecorded(p) : p \in Proc}
<1>1. d \in objects /\ \A r \in AllReferences : r.to = "object" => r.target # d
  BY DEF Damage
<1>2. ASSUME NEW e \in events, e.digest = d PROVE FALSE
  <2> DEFINE r == [from |-> "import_event", id |-> e.id, to |-> "object", target |-> d]
  <2>1. r \in References("import_event")
    BY <1>2 DEF References, Refs
  <2>2. r \in AllReferences /\ r.to = "object" /\ r.target = d
    BY <2>1 DEF AllReferences, RecordKinds
  <2> QED
    BY <1>1, <2>2
<1> QED
  BY <1>1, <1>2 DEF ObjectsRecorded

\* archive check beside case delete, import and the rest: what commands leave
\* checks clean, but for what one that was cut short left behind and one that
\* still runs is about to write or unlink.
THEOREM OnlyLeftoversEverReported ==
  ASSUME Unlistable \cap {"import_event", "submission", "receipt", "association"} = {}
  PROVE  CheckSpec => []OnlyLeftoversReported
<1>1. /\ "import_event" \notin Unlistable /\ "submission" \notin Unlistable
      /\ "receipt" \notin Unlistable /\ "association" \notin Unlistable
  OBVIOUS
<1>2. ASSUME StillInv, SubmissionsIntact, ReceiptsIntact, AssociationsIntact,
             SupersessionIntact, EventsIntact, ObjectsRecorded, NoCycle
      PROVE  OnlyLeftoversReported
  <2> SUFFICES ASSUME Reported, ~moved, checker.passed = {} PROVE OnlyLeftoversReported
    BY DEF OnlyLeftoversReported
  <2>1. Truthful
    BY <1>2 DEF StillInv, Undisturbed, Reported
  <2>2. Verdict # "record.inconsistent"
    BY <1>2, <2>1 DEF Verdict, Truthful, NoCycle
  <2>3. \A r \in checker.dangling : r.id \in strandedRecords \cup InFlight
    BY <1>2, <2>1, DanglingIsLeft DEF Truthful
  <2>4. checker.orphans \subseteq strandedObjects \cup UNION {Unrecorded(p) : p \in Proc}
    BY <1>2, <2>1, OrphanIsLeft DEF Truthful
  <2> QED
    BY <2>2, <2>3, <2>4 DEF OnlyLeftoversReported
<1>3. Spec => []SubmissionsIntact /\ []ReceiptsIntact /\ []AssociationsIntact
  BY <1>1, SubmissionsAlwaysIntact, ReceiptsAlwaysIntact, AssociationsAlwaysIntact
<1>4. Spec => []EventsIntact
  BY <1>1, EventsAlwaysIntact
<1> QED
  BY <1>2, <1>3, <1>4, CheckedIsArchive, StillHolds, SupersessionAlwaysIntact,
     StoredIsRecorded, NeverCycle, PTL
=============================================================================
