--------------------------- MODULE IntegrityCheck ---------------------------
(***************************************************************************)
(* archive check: a reader that takes no lock and lists one directory      *)
(* after another while the commands of Archive write.  It collects the     *)
(* identifiers and digests of every record, walks the objects, reads the   *)
(* records once more to judge each reference, and reports.                 *)
(*                                                                         *)
(* What one file says of itself is left out: a record that does not parse, *)
(* an object whose bytes are not its digest's, a link in the store.        *)
(***************************************************************************)
EXTENDS Archive

CONSTANTS Unread      \* what the filesystem may refuse to show the check

RecordKinds == {"import_event", "case", "submission", "receipt", "association"}

ASSUME CheckAssumption ==
  /\ Unread \subseteq RecordKinds \cup {"directory", "object"}
  /\ IsFiniteSet(Digest)

VARIABLES
  checker,        \* what the check has seen and found
  standing,       \* history: what was wrong all the time since it began
  moved           \* history: whether a command took a step meanwhile

checkVars == <<checker, standing, moved>>

----------------------------------------------------------------------------
(* References *)

Refs(from, id, to, targets) ==
  {[from |-> from, id |-> id, to |-> to, target |-> t] : t \in targets}

References(kind) ==
  CASE kind = "import_event" ->
         UNION {Refs(kind, e.id, "object", {e.digest}) : e \in events}
    [] kind = "case" -> {}
    [] kind = "submission" ->
         UNION {Refs(kind, s.id, "case", {s.case})
                  \cup Refs(kind, s.id, "object", s.artefacts) : s \in submissions}
    [] kind = "receipt" ->
         UNION {Refs(kind, r.id, "object", {r.artefact})
                  \cup Refs(kind, r.id, "import_event", {r.event}) : r \in receipts}
    [] kind = "association" ->
         UNION {Refs(kind, a.id, "receipt", {a.receipt})
                  \cup Refs(kind, a.id, "submission", Named(a))
                  \cup Refs(kind, a.id, "association", {a.supersedes} \ {Nil}) :
                a \in associations}

Stored(kind) ==
  CASE kind = "import_event" -> Ids(events)
    [] kind = "case"         -> Ids(cases)
    [] kind = "submission"   -> Ids(submissions)
    [] kind = "receipt"      -> Ids(receipts)
    [] kind = "association"  -> Ids(associations)
    [] kind = "object"       -> objects

AllReferences == UNION {References(kind) : kind \in RecordKinds}

\* What is wrong with the archive as it is.
Damage ==
  [dangling |-> {r \in AllReferences : r.target \notin Stored(r.to)},
   orphans  |-> {d \in objects : \A r \in AllReferences : r.to = "object" => r.target # d}]

NoDamage == [dangling |-> {}, orphans |-> {}]

----------------------------------------------------------------------------
(* Collecting *)

Idle ==
  [at         |-> "idle",
   read       |-> 0,
   ids        |-> [kind \in RecordKinds |-> {}],   \* of the records collected
   named      |-> {},         \* the digests they name
   cyclic     |-> FALSE,      \* whether their supersedes edges hold a cycle
   unchecked  |-> {},         \* kinds that could not be listed
   left       |-> {},         \* paths of the store to walk
   present    |-> {},         \* objects walked
   unlisted   |-> {},         \* paths of the store that could not be listed
   passed     |-> {},         \* entries that could not be looked at
   overlooked |-> {},         \* kinds that could not be listed the second time
   orphans    |-> {},
   dangling   |-> {},
   leftover   |-> {}]         \* derived facts about no object

Running == checker.at \notin {"idle", "done"}

BeginCheck ==
  /\ ~Running
  /\ checker' = [Idle EXCEPT !.at = "collect"]
  /\ standing' = Damage
  /\ moved' = FALSE

\* collect: one directory of records.
Collected == <<"import_event", "case", "submission", "receipt", "association">>

\* Fault: an import event is kept under the digest it records.
CollectByDigest(kind) ==
  checker' = [checker EXCEPT
    !.ids[kind] = IF kind = "import_event" THEN {e.digest : e \in events} ELSE Stored(kind),
    !.named     = @ \cup {r.target : r \in {ref \in References(kind) : ref.to = "object"}},
    !.read      = @ + 1,
    !.at        = IF kind = "association" THEN "walk" ELSE @,
    !.left      = IF kind = "association" THEN Digest ELSE @]

Collect(kind) ==
  checker' = [checker EXCEPT
    !.ids[kind] = Stored(kind),
    !.named     = @ \cup {r.target : r \in {ref \in References(kind) : ref.to = "object"}},
    !.cyclic    = IF kind = "association" THEN HoldsCycle(associations) ELSE @,
    !.read      = @ + 1,
    !.at        = IF kind = "association" THEN "walk" ELSE @,
    !.left      = IF kind = "association" THEN Digest ELSE @]

CollectNothing(kind) ==
  /\ kind \in Unread
  /\ checker' = [checker EXCEPT
       !.unchecked = @ \cup {kind},
       !.read      = @ + 1,
       !.at        = IF kind = "association" THEN "walk" ELSE @,
       !.left      = IF kind = "association" THEN Digest ELSE @]

CollectNext ==
  /\ checker.at = "collect"
  /\ LET kind == Collected[checker.read + 1] IN Collect(kind) \/ CollectNothing(kind)

----------------------------------------------------------------------------
(* Walking the store *)

\* may_judge_orphans
MayJudgeOrphans == checker.unchecked \cap {"import_event", "submission", "receipt"} = {}

\* Fault: an object is an orphan because nothing that was read names it.
OrphanUnread(d) == d \notin checker.named

Orphan(d) == MayJudgeOrphans /\ d \notin checker.named

Walked(d) ==
  [checker EXCEPT !.left = @ \ {d}, !.at = IF checker.left = {d} THEN "resolve" ELSE @,
                  !.read = 0]

\* check_object
Look(d) ==
  checker' = IF d \notin objects THEN Walked(d)
             ELSE [Walked(d) EXCEPT !.present = @ \cup {d},
                                    !.orphans = IF Orphan(d) THEN @ \cup {d} ELSE @]

\* A fan-out directory that cannot be listed, and an entry whose metadata
\* cannot be read: the first is remembered, the second is counted.
MissDirectory(d) ==
  /\ "directory" \in Unread
  /\ checker' = [Walked(d) EXCEPT !.unlisted = @ \cup {d}]

MissEntry(d) ==
  /\ "object" \in Unread /\ d \in objects
  /\ checker' = [Walked(d) EXCEPT !.passed = @ \cup {d}]

WalkNext ==
  /\ checker.at = "walk"
  /\ \E d \in checker.left : Look(d) \/ MissDirectory(d) \/ MissEntry(d)

----------------------------------------------------------------------------
(* Resolving *)

\* References::holds, Store::holds: the answer is no only where a listing was
\* read.
Missing(r) ==
  IF r.to = "object" THEN r.target \notin checker.present \cup checker.unlisted
  ELSE r.to \notin checker.unchecked /\ r.target \notin checker.ids[r.to]

\* Fault: import events are passed over, as nothing names one but a receipt.
ResolvedWithoutEvents == <<"submission", "receipt", "association">>

Resolved == <<"import_event", "submission", "receipt", "association">>

AfterResolving(kind) ==
  [checker EXCEPT !.read = @ + 1, !.at = IF kind = "association" THEN "derived" ELSE @]

\* dangling: the records are read a second time.
Resolve(kind) ==
  checker' = [AfterResolving(kind) EXCEPT
                !.dangling = @ \cup {r \in References(kind) : Missing(r)}]

\* visit_records returns no record and says nothing.
ResolveNothing(kind) ==
  /\ kind \in Unread
  /\ checker' = [AfterResolving(kind) EXCEPT !.overlooked = @ \cup {kind}]

ResolveNext ==
  /\ checker.at = "resolve"
  /\ LET kind == Resolved[checker.read + 1] IN Resolve(kind) \/ ResolveNothing(kind)

\* derived_orphans, and the report.
Report ==
  /\ checker.at = "derived"
  /\ \E filed \in Listings("derived", derived) :
       checker' = [checker EXCEPT !.at = "done",
                     !.leftover = filed \ (checker.present \cup checker.unlisted)]

\* first_problem: a report with several names one.
Verdict ==
  IF checker.cyclic THEN "record.inconsistent"
  ELSE IF checker.dangling # {} THEN "integrity.dangling_reference"
  ELSE IF checker.orphans # {} THEN "integrity.orphan_object"
  ELSE "clean"

----------------------------------------------------------------------------
Still(damage) ==
  [dangling |-> standing.dangling \cap damage.dangling,
   orphans  |-> standing.orphans \cap damage.orphans]

\* A command moves beside a check: what it mended was not wrong all the time.
\* A report is given once.
CheckWatches ==
  /\ checker' = IF Running THEN checker ELSE Idle
  /\ standing' = IF Running THEN Still(Damage') ELSE NoDamage
  /\ moved' = Running

CheckStep == CollectNext \/ WalkNext \/ ResolveNext \/ Report

CheckMoves ==
  /\ BeginCheck \/ (CheckStep /\ UNCHANGED <<standing, moved>>)
  /\ UNCHANGED vars

CheckInit == checker = Idle /\ standing = NoDamage /\ moved = FALSE

CheckNext == (Next /\ CheckWatches) \/ CheckMoves

CheckSpec == Init /\ CheckInit /\ [][CheckNext]_<<vars, checkVars>>

----------------------------------------------------------------------------
(* Properties *)

CheckTypeOK ==
  /\ checker.at \in {"idle", "collect", "walk", "resolve", "derived", "done"}
  /\ checker.read \in 0..5
  /\ checker.ids \in [RecordKinds -> SUBSET drawn]
  /\ \A part \in {"named", "left", "present", "unlisted", "passed", "orphans",
                  "leftover"} : checker[part] \subseteq Digest
  /\ checker.cyclic \in BOOLEAN
  /\ checker.unchecked \cup checker.overlooked \subseteq RecordKinds
  /\ moved \in BOOLEAN

Reported == checker.at = "done"

\* integrity/mod.rs: damage that was there from the beginning of a check to
\* its end is in its report, whatever commands did beside it, unless a listing
\* it needed was refused.
StandingDamageReported ==
  Reported =>
    /\ \A r \in standing.dangling :
         \/ r \in checker.dangling
         \/ r.from \in checker.overlooked
         \/ r.to = "object" /\ r.target \in checker.unlisted
         \/ r.to \in checker.unchecked
    /\ \A d \in standing.orphans :
         d \in checker.orphans \cup checker.unlisted \cup checker.passed \/ ~MayJudgeOrphans

\* holds, orphaned: with no command beside it, nothing is in the report that
\* is not so, however many listings are refused.  An object whose entry alone
\* could not be looked at is the exception: Store::holds calls it missing.
NothingInvented ==
  Reported /\ ~moved =>
    /\ checker.orphans \subseteq standing.orphans
    /\ \A r \in checker.dangling : r \in standing.dangling \/ r.target \in checker.passed

\* What commands leave checks clean, but for what one that was cut short left
\* behind and one that still runs is about to write or unlink: no rule of the
\* check is stricter than what the commands keep to.
OnlyLeftoversReported ==
  Reported /\ ~moved /\ checker.passed = {} =>
    /\ Verdict # "record.inconsistent"
    /\ \A r \in checker.dangling : r.id \in strandedRecords \cup InFlight
    /\ checker.orphans \subseteq strandedObjects \cup UNION {Unrecorded(p) : p \in Proc}
=============================================================================
