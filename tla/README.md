# openPapir in TLA+

openPapir keeps a person's correspondence with offices: the documents
themselves, content-addressed, and small JSON records that say which case,
submission and receipt each belongs to. It is a command-line program with no
server and no database. Every command is a process of its own; what several of
them share is a directory tree, and what protects it is one lock file, a
procedure for writing one file, and the order in which files are written and
unlinked. This directory models that: what the commands read, write and
unlink, in which order, and what is left of the archive when they run beside
one another, are killed, or are refused by the filesystem.

Paths below are relative to `src/crates/openpapir-core/src/` unless they start
with `docs/`, which is `src/docs/`.

## 1. Inventory

| component | state it keeps | operations | what is hard | what makes it correct |
|---|---|---|---|---|
| writer lock (`archive/lock.rs`) | the file `lock` | `acquire` (create_new), drop of the guard (unlink, failure ignored) | a killed writer, a failed unlink: the file stays and nothing takes it over | one writer at a time; a command gives the lock back |
| atomic write (`archive/write.rs`, `archive/paths/permissions.rs`) | `staging/`, one directory entry | `Staging::create`, `publish` (hard link), `replace` (rename), `sync_directory` | kill or power loss between two calls; readers without the lock; a directory flush that fails | readers see whole documents; what is reported is durable, or a warning says it may not be |
| object store, import (`archive/objects.rs`, `archive/import.rs`) | `objects/sha256`, `records/imports` | `import`, `store_one`, `objects::store` | several files, one by one, no undo; object and event are two writes | every object has an import event, but for imports that ended between the two |
| record commands (`records/*.rs`) | `records/{cases,submissions,receipts,associations}` | create case, update case, add submission, add receipt, create and retire association; show, list, search | check first, write later; a rewrite of a whole record; chains of statements | references are whole; identifiers never reused; no lost update; chains stay on one receipt |
| derived metadata (`derived/`, `records/derived.rs`) | `records/derived` | `archive derive`: describe each object, sweep what describes nothing | a listing taken before the writes, objects that cannot be read | what is described is stored |
| case deletion (`deletion/`) | none of its own; a plan in memory | plan, refuse, probe, unlink kind by kind, purge | the plan over branched chains and shared objects; a kill or refusal in the middle, no undo | what stays names nothing that went; what belongs to another case stays |
| import-event index (`cache/mod.rs`, `Histories` of `archive/import.rs`) | `cache/import-events-by-digest`, a copy in the memory of an import | read, confirm, rebuild, fold, save | an index older than the directory, or one put back | a command answers what a scan of the records answers |
| restore (`export/restore/`) | none of its own | verify, probe for conflicts, store objects, stage, publish, undo | stages of one import undone after a refusal, not after a kill | a success is the whole export, a refusal leaves no trace, what was stored before stays |
| export (`export/`) | a destination directory | collect, copy, manifest | a reader without the lock, one directory after another | an export that is finished holds what its records name |
| integrity check (`integrity/`) | none | collect, walk the store, resolve, report | a reader without the lock, listings of different moments, listings refused | what stands is reported, nothing is invented |
| archive root (`archive/mod.rs`, `archive/paths/`, `export/repair.rs`) | the root, the layout, the marker, modes | `init`, `open`, `open_read_only`, `ensure_layout`, repair-permissions | two inits; init against a command; an init cut short | one archive, whole before it is used; modes only narrow |
| status, show, list, search (`status.rs`, `records/*.rs`) | none | list one record directory after another | a reader without the lock, listings of different moments | shows what stood, nothing that never did |
| caps, identifiers, clock (`archive/limits.rs`, `ident.rs`, `clock.rs`) | none | caps, 128 random bits, calendar | boundaries | equals its definition |
| diagnostics, command line (`error.rs`, `openpapir-cli`) | none | codes, parsing, envelopes | - | - |

How they interact: a command opens the archive, takes the lock, reads every
record it needs (`records::document::list_records`, no cache but the index of
import events), decides, and then writes through the atomic write, one file
after another. Nothing is called back and nothing waits: a command that finds
the lock taken errs at once (`lock.held`). Readers (`show`, `list`, `status`,
`search`, `check`, `export`) take no lock, and neither does `init`.
`PROJECT.json` lists, under "hazards", where each of these bites.

## 2. Modules

```
ArchiveState              the archive on disk and a process's memory
   |        \
 Filing   CaseDeletion    the commands that add; case delete
      \    /
      Archive             all of them, kills, refusals; the properties
      |- MCArchive, MCFiled
      |- Transfer         export and import of what Archive holds
      |    `- MCTransfer
      |- IntegrityCheck   archive check        \
      |- ArchiveViews     status, show, search  `- MCReaders
      `- ArchiveProofs
           |- TransferProofs (of Transfer)
           `- DeletionProofs
                |- CheckProofs (of IntegrityCheck)
                `- ViewProofs (of ArchiveViews)

DirectoryAnswers          what a reading of the import events answers
   ^ implements
ImportIndex               the same from an index
      |- MCIndex
      `- ImportIndexProofs

DocumentSlot              what a path of a directory promises
   ^ implements
AtomicWrite               how one is written
      `- AtomicWriteProofs

Setup                     the directory itself: init, open, repair
      `- SetupProofs
```

**ArchiveState.** A directory of records is the set of its documents; a
document is a record of the fields that other documents or a guard of the code
depend on, and its file name is `id`. A title, a label, an outcome or a
timestamp is read by no guard and left out. One `status` stands for all of a
case's mutable fields taken together, so two documents of a case are the same
only if no field differs. A process has `pc`, and in memory `todo` (files it has
still to store), `draft` (the record it has decided to write; for `case update`
the document it read beside the one it made of it, `stored` and `case` of
`update_record`) and `plan` (what a deletion has still to unlink). `drawn` makes identifiers fresh, as 128 random
bits do. Two history variables name what an early end left behind:
`strandedRecords` and `strandedObjects`; no guard reads them.

**Filing.** `Acquire` to `Release` around each command; one action up to the
decision and one per published document, because a kill or a refusal can fall
between any two of those. What a command checks before it writes is checked in
the first action and used in the later ones, so a check that goes stale would
show. `Import` and `AddSubmission --file` share `StoreObject` and `WriteEvent`,
as they share `store_one` in the code.

**CaseDeletion.** `DeleteCase` is `plan::build` with both refusals, over
listings that may come back empty where a directory is `Unlistable`
(`list_records` ignores that `read_dir` failed). A chain is defined by what it
is, the smallest set closed under supersedes edges, where `Chains::of` computes
it by relabelling. `Probe` is `removable`. Then one action per unlink, in the
passes of `apply::run`: `InPass` holds a kind back until the kinds before it
have nothing left. Inside a pass the order is free, since identifiers are
random. `RefuseUnlink` keeps the other documents of the same directory and drops
every later pass, as `unlink_documents` and its caller do together.

**Archive.** `Refuse` is every early return after the lock was taken, `Crash`
is a kill between two steps, and `RemoveAbandonedLock` is the user, as
`docs/archive-layout.md` tells them to. The properties are here.

**AtomicWrite and DocumentSlot.** Archive takes one write of a document for one
step. AtomicWrite opens that step: a staging file written in `Parts` calls,
flushed, linked (`publish`) or renamed (`replace`) into place, the directory
flushed, with a refusal, a kill or a power loss between any two, and readers
that keep a file open. `entry` and `written` are what processes see, `disk` and
`synced` what a power loss leaves; every entry and every file that was not
flushed is lost or kept on its own. DocumentSlot is the promise in terms of
whole documents, and `KeepsSlot` the refinement: `seen` is `entry` and `kept` is
`disk`, a document that is not whole being `Torn`, which no slot may hold.

**Transfer.** Beside Archive's processes, one exporter and one restorer, and one
destination, `bundle`, that is empty, partly written or whole: the manifest is
written last. The exporter takes no lock, so each record directory it lists is a
step of its own and a writer may move between two (`ReadKind`, in the order
`gather` and `gather_all` have); listing one directory is one step. Then
`Prepare` fixes which objects are wanted, each is copied in a step that needs it
to be there still, and a missing one ends the export. The restorer takes the
lock, probes, stores the objects, publishes kind by kind in the manifest's order
and then the events it adds (`RestoreOrder`). A refusal turns to the undo:
`Withdraw` for the documents, then `Discard` for the objects it created; each
unlink is best effort. A kill leaves everything. `left` is what is still to be
done; `wrote` is the `Placements` and `published` lists. `before` and
`spoilt`, and `withdrawn`, are history and no guard reads them, but for the bound
on `spoilt`. `MayAlter` lets an exported copy change between `verify` and
`store_all`: the store then files it under another digest.

**IntegrityCheck.** One reader beside Archive's processes, `checker`, and its
passes in the code's order: `Collect` one record directory per step, `Look` at
the objects of the store one at a time, `Resolve` the records a second time, one
directory per step, and `Report`. `Unread` names what the filesystem may refuse
to show: a record directory in the first pass (remembered in `unchecked`) or in
the second (nothing is said; `overlooked` is history), a fan-out directory
(`unlisted`), the metadata of an entry (`passed`). `Missing`, `Orphan` and
`MayJudgeOrphans` are the code's `holds`, `orphaned` and `may_judge_orphans`.
`standing` is what was wrong at every moment since the check began, and `moved`
whether a command took a step meanwhile; both are history.

**ArchiveViews.** The views, as a reader of the same kind: `Reads` is the order
in which each lists its directories and `Answer` what it makes of the listings.
`Holding` says the same of the archive as it is, without the code's walk of a
chain or its folds. `stood` and `held` are history: what was so at every, and at
some, moment of the reading. A search may be asked for any kinds and lists each
once, in the order of `KindOrder`. `ChainOf` is the walk of `chain_of`, which
starts from an identifier and not from a statement, in rounds of all the edges
(`Beyond`) where the code takes them one at a time; `ChainNow` is what the walk
is for, everything linked by edges in any set that no edge leaves. MCReaders puts
the two readers beside Archive, one in a behaviour: readers write nothing, so one
cannot matter to another.

**ImportIndex and DirectoryAnswers.** The directory of import events as an index
sees it: documents with a name, a digest and a time, `strays` (staging files and
documents that are no import event) and `closed` (documents that cannot be
opened just now). `Stamp` is the set of names, which is what the code's stamp is
a digest of. `Consult` is `import_events`; `AskHistory`, `RecordEvent` and `Save`
are `Histories`; `AddReceipt` is `resolve_import_event`; `PlanPurge` and
`PurgeEvent` are what a purge makes of it. `Restore` moves the directory on
without the index, by events of this archive or of another, `Stop` ends a command anywhere, and `Handle` is the user, who
loses the index, keeps a copy and puts it back. DirectoryAnswers has no index
and answers each question by a scan; `AnswersAreScans` is the refinement.

**Setup.** The directory by its paths and modes: of the eleven directories of
the layout three, one inside another, with a file in each that holds files. Each
process runs one command as a list of steps (`Steps`); each step is a call that
another process may come before, so `LookDirectory` and `CreateDirectory` are
two. However a command ends, the guards it dropped may have failed to remove the
lock or the staging file (`CleanUp`, `Unstage`), which then stays for the user.
`mode` is what the owner and others may do with a path. `Widen` is copy
tooling, `TidyUp` the user. `widened` is history.

An operator whose comment begins with "Fault:" is not part of any
specification. It is its neighbour with one plausible mistake, and each is
there to show that a property notices it: replacing the definition by its fault
makes the property fail ("mutants" in `PROJECT.json`).

## 3. Runs

| run | what it asks | distinct states |
|---|---|---|
| `lifecycle` | every writing command from an empty archive, two processes, killed and refused anywhere | 222 thousand |
| `deletion` | statements made, replaced and withdrawn, and case delete, with and without a purge, anywhere between, killed and refused | 1.5 million |
| `write` | one directory, three paths, a reader, power loss at any moment | 86 thousand |
| `transfer` | exports beside a deletion or a status change, imported again and again, refused, killed or given a changed copy | 954 thousand |
| `index` | imports, receipts, purges and restores over an index that is lost, left behind, kept aside and put back | 3.4 million |
| `readers` | `archive check` beside imports, withdrawals and deletions that are killed, with listings refused to the check; every view beside withdrawals and a deletion; the lock comes back | 523 thousand |
| `setup` | two processes that initialise, open, write and repair, killed and refused anywhere, while modes are widened | 912 thousand |
| `refused_unlink`, `unlistable`, `found_object`, `withdrawn`, `stale_refusal` | a sentence of the documentation the code does not keep (section 6) | up to the counterexample |

The longest, `readers`, takes about two minutes with two workers.

Bounds and why they are enough:

- `Proc`: two, where the lock is the question; more processes only wait outside
  the same lock. One in `deletion`, `readers` and `transfer`: what is asked there
  is about one command against an archive, or beside a reader, `LockExcludes`
  having been proved for any number of processes. Two in `setup`: `init` takes
  no lock, and what goes wrong there goes wrong between two.
- `Digest`: two contents, so that an object may be shared or not, and one file
  of an import may be stored while the next is not. `MaxFiles = 2` makes the
  second file the same as the first or another.
- identifier pools: they bound how many records are ever written. In
  `lifecycle` two import events let a second import of the same bytes be
  recorded; one of every other kind suffices, since every reference is from one
  kind to another. Where a kind refers to itself, the associations, `deletion`
  has three: one superseded twice, a chain of three, and a chain beside one
  alone are the three shapes that differ.
- `Status`: three values in `lifecycle`, so that what an update read, what it is
  about to write and what another update may have written in between can all
  differ. With two, a rewrite of a document nobody read would look like the
  change that was meant.
- `MCFiled` starts from two cases, a submission in each, objects shared or not,
  and receipts on one or two objects, so that every way of belonging to two
  cases occurs. These archives are ones the commands of `Filing` produce.
- `Parts = 2`: with one part no file is ever half written. Three paths: one
  written once, one rewritable, one named by its digest.
- `MCTransfer`: one case with one submission, and a receipt about which nothing
  was said, or something, or something withdrawn since: enough for an export to
  take all, part or none of the receipt. Two digests let one object be stored
  when an import begins and the other not. Three import events leave one for the
  objects an import creates, so that the second finds none and the import is
  refused with every record published, which is the longest undo. One process of
  Archive deletes or updates; its own kills and refusals are the subject of the
  other runs and switched off here. One export is taken in a behaviour, and one
  unlink of an undo fails.
- `MCIndex`: two events, so that one may be recorded, unlinked or restored while
  the other stays; two digests and two times, so that the earliest event of a
  digest may have the later name; one document that is no import event, and one
  leftover staging file, which a stamp names and a scan does not count. Imports
  of one or two files: the second may be a duplicate of the first, which is when
  an import holds an event it wrote itself. The clock may stand still or run
  backwards.
- `MCReaders`: one case, one submission, one receipt. The check starts from one
  statement, with room for its withdrawal, about one object: everything it joins
  occurs once, and a deletion with a purge takes all of it, pass by pass. Refusals
  of the commands are off here (`lifecycle` and `deletion` have them), kills are
  on. A view starts from every history of two or three statements, each naming the
  submission or nothing and superseding one before it or none: chains, forks and
  statements apart from each other. Beside it a statement may be withdrawn while
  an identifier is left, and nothing is killed, as all it could see of that is
  that no step follows; a search is of one kind or of all. Section 5 proves what
  the views promise with every command, kill, refusal and search.
- `Setup`: three directories of eleven. `ensure_layout` treats them alike but for
  the order, a directory after the one it is in. `Copied` has a path of each rule
  of `narrow_archive`: the root, the marker, an object, another file.
- Symmetry: processes, digests and statuses in `lifecycle`, digests in `index`;
  neither run has a liveness property, and nothing in the modules orders or names
  any of them.

Fairness: `Fairness`, in `ReadersSpec` and for `LockComesBack`, is weak fairness
of the steps of each started command, and nothing else: not that a command is
started, not that a reader goes on, not that the user removes a lock, and not
that a kill happens or does not. It is justified because nothing in a started
command waits: there is no blocking lock, no retry and no sleep, so a process
that is scheduled takes its next step or returns an error. Deadlock is checked
in every run.

## 4. Properties

Of the records, whatever is refused or killed: `SubmissionsIntact`,
`ReceiptsIntact`, `AssociationsIntact` (no record names what is not there),
`SupersessionIntact` and `EventsIntact` (the same for the two references a
deletion may break, with exactly the records it may leave broken),
`ObjectsRecorded`, `DerivedDescribesStored`; `IdsUnique`, under all of them, is
proved and has no run of its own. `deletion` asks each of these where cases share
objects and chains; `lifecycle` asks them together, as `ReferencesIntact`, where
`submission add`, `receipt add`, `association create` and `archive derive` check
first and write later beside another process. Of a deletion: `PlanSparesOthers`.
Of steps: `WriteOnce`, `NoLostUpdate` (what a rewrite replaces is the document it
was made from), `WithdrawnStaysWithdrawn`. Of the lock: `WriterHoldsLock`,
`LockComesBack`. Of an export and an import: `BundleHoldsNamed`, `RestoredWhole`,
`RestoreSparesStored`, `UndoRestores`, `SecondRestoreWritesNothing`. Of a write:
`ReadersSeeWhole`, `ChangeIsDurable`, `KeepsSlot`. Of the index: `CurrentIsScan`
(what a reader would accept is what a scan says), `HeldIsScan`, and above both
`AnswersAreScans`. Of the check: `StandingDamageReported`, `NothingInvented`,
`OnlyLeftoversReported` (what commands leave checks clean, but for what one cut
short left). Of the views: `NothingOverlooked`, `NothingMadeUp`. Of the
directory: `InitOwnsMarker`, `LayoutWhole`, `RepairSuffices`, `NothingWidens`.
Each is stated in words above its definition.

`SupersessionIntact` and `EventsIntact` are weaker than a reader may expect: a
deletion that is killed or refused does leave a statement that supersedes a
missing one, or an import event of a purged object. The history variables make
the exception exact: only what was in the pass that was cut short, never a
record of another case. `NothingInvented` has an exception for an object whose
metadata alone could not be read, and `NothingMadeUp` one for a statement that
went between the two readings of `association show`: section 6 says why.

## 5. Proofs

All eight proof modules hold for every value of the constants that satisfies the
assumption of the module they are about (`ConstantsAssumption`,
`CheckAssumption`, `TransferAssumption` and `DestinationAssumption`,
`WriteAssumption`, `DirectoryAssumption`, `IndexAssumption`, `SetupAssumption`):
which values differ from which, that bounds are numbers, and that a directory
has finitely many malformed documents and an archive finitely many contents.

**ArchiveProofs.** `TypeCorrect` is `Spec => []TypeOK`. `TypeOK` alone is not
inductive, as `StoreObject` takes the head of `todo`: `TypeInv` adds that a
process that stores has a file left. `LockExcludes` is
`Spec => []WriterHoldsLock`: a step of `p` either starts from an idle `p` and a
free lock, or from `p` holding the lock, and leaves the other processes as they
were (`OthersUntouched`, `LockStep`).

It also proves, once, how the state machine hangs together, which every later
invariant about Archive is built on. `Arrivals` says which action brings a
process to a place in its command, `Departures` which takes it on, `Changes`
which action a variable changes by, and `Moves` that each step of `p` is one of
these while every other process is idle before and after it: the lock is what
lets an invariant be checked for one process at a time. The table of a
preservation proof is then by place and by variable, not by the thirty actions.

Referential integrity is in the same module. `IdentityInv` comes first:
identifiers are unique, the document `case update` read is still the one under
its name, an import about to write an event has just stored that object, and a purge starts only
when the record passes are over (`InPlace`). From it follow `IdsAlwaysUnique`,
`RecordsWrittenOnce` (a directory loses documents or gains one with an identifier
never drawn, `Evolves`) and `UpdatesNeverLost` (a step in which a case changes is
a rename, and by unique identifiers what it replaces is what the update read),
with no assumption on what can be listed. Then one theorem for each kind of reference, `SubmissionsAlwaysIntact`,
`ReceiptsAlwaysIntact`, `AssociationsAlwaysIntact`. None is inductive: a command
that has decided and not yet written would break it if what it found went away,
and a deletion would if it unlinked something that stays referenced. So each has
its own strengthening about the one process inside a command (`SubmissionHeld`,
`ReceiptHeld`, `AssociationHeld`): what the draft names is there, and no record
that stays names anything the plan has still to unlink. That the plan is such
needs only how it is made (`PlanTakesReferrers`, `PurgeSparesNamed`), that the
passes go in order (`PassOrder`) and that a refused unlink drops the passes after
it; the recursion behind chains does not enter. Each theorem assumes that one
directory, that of the referring records, can be listed, and no other: an
unlistable directory of cases cannot break a submission. Without it the theorem
is false, which the run `unlistable` shows for one of them.

**DeletionProofs.** Which references a deletion may break, and that it breaks no
other. `ChainInv` adds to `IdentityInv` what is known of statements: whatever a
statement supersedes has been drawn (so a new one closes no circle), and two
linked statements are in the same plan, or the one that is not was left by a
refused unlink (`ChainHeld`), because a chain is doomed whole (`DoomedTogether`,
from the definition of a chain and no induction over it). `NeverCycle`, that no
command writes a circle, is what CheckProofs needs of that, as the check reports
one. `SupersessionAlwaysIntact` and `WithdrawnForGood` follow with no assumption: a
deletion that cannot list the associations takes none of them. `ContentInv` does
the same for objects: a plan has every event and every derived record of the
objects it takes, the events of an object go when the object is gone, and
nothing else unlinks an event (`ContentHeld`, `EventsKept`). From it
`StoredIsRecorded`, `EventsAlwaysIntact` (if the import events can be listed) and
`DescribedIsStored` (if the derived records can). `ReferencesAlwaysIntact` joins
the last with the three theorems of ArchiveProofs. `PlanAlwaysSpares` says of the
plan itself that no receipt and no submission it leaves names an object it takes,
and that no statement in force about a submission that stays is in it; it assumes
that receipts and submissions can be listed.

**AtomicWriteProofs.** `WriteTypes`; `ReadersAlwaysSeeWhole`;
`ChangesAreDurable`; and `ImplementsSlot`, `Spec => KeepsSlot`. The invariant:
every file under a path, now or after a power loss, is whole and flushed; the
staging file is under no path and in no reader's hands; and past `Finish` it is
flushed. A step maps to `Publish`, `Replace`, `Unlink`, `Flush` or `PowerLoss`
of the slot, or changes nothing there.

**ImportIndexProofs.** `AnswersAlwaysScans`, `IndexSpec => AnswersAreScans`: the
commands with an index implement commands without one; and the two invariants
under it, `CurrentIsScanAlways` and `HeldIsScanAlways`. The argument is that a
name is given to one import event and to no other, so the names of a directory
determine what a reading of it says (`SaidOf`, `StampDetermines`). Every index
file, in place or kept aside, says of its own stamp what those names determine
(`Faithful`), and no command can make that untrue of a file it does not write: a
new event has a name that is in no stamp. So an index whose stamp is the
directory's says what the directory says, however it came there.
`IndexTypesHold` types every file and what a command has in memory; it needs
that a count of malformed documents is a number. The proof of the rest needs
`closed = {}`, that a document does not change its mode: `stale_refusal` shows
what happens when one does.

**CheckProofs.** `StandingDamageAlwaysReported`, for `CheckSpec`, which is
IntegrityCheck beside Archive from an empty archive. A reference that dangles all
the time has no target whenever a directory is listed, so the check never finds
one (`Unfound`), and is itself there when its record is read the second time;
an object nothing names all the time is named by nothing collected (`Unnamed`).
What was judged or passed so far is in the report or behind a refused listing.
`CheckTypeCorrect` types what a check gathers. `NothingEverInvented` is about a
check with no command beside it: `Truthful` says, place by place, that what it
has seen is then what is there, or less where a listing was refused, and that
what it has judged is in `standing`. `OnlyLeftoversEverReported` joins that with
what is known of the archive: a check writes nothing, so `CheckSpec => Spec`
(`CheckedIsArchive`) and every invariant of ArchiveProofs and DeletionProofs
holds beside it. What dangles in such an archive is a statement or an event that
a deletion left, or is in hand. It assumes that the four directories of records
that refer to others can be listed, as `unlistable` shows it must.

**TransferProofs.** For `TransferSpec`, Archive with exports and imports of
exports beside it, from an empty archive (the run starts from a filed one, so as
to reach a restore within its bounds). A restore is one more holder of the lock,
and it writes documents under identifiers that were drawn before, so the first
part is `IdentityInv` again: either no restore is under way and it holds, or one
is and the archive is `Quiet`, every process between two commands, and stays so
(`RestoreStopsArchive`). For exports, `ExportHeld`: whatever was read has been
drawn, and from the copying of objects on, nothing is named that was not taken;
`BundlesHoldNamed` follows. For restores, `RestoreHeld` says of each kind of
document and of the objects that what was there is still there, that what the
restore wrote is apart from it, that the archive is no more than the two while
every unlink did its work (`Separate`), and that what the export holds is in the
archive or still to be written (`Accounted`). From these come `RestoresAreWhole`,
`RestoresSpareStored` and `UndosRestore`; `SecondRestoresWriteNothing` needs that
a restore of what is there has nothing to write but objects it then finds
(`NothingToWrite`). `RestoresKeepIdsUnique`: no restore brings an identifier into
a directory twice.

**SetupProofs.** `SetupTyped`, `InitAlwaysOwnsMarker`, `LayoutAlwaysWhole`,
`RepairAlwaysSuffices`, `NothingEverWidens`, for any number of processes. A
marker is linked only where there is none and never goes, so one init passes it
(`Owned`); a directory goes never, so what `ensure_layout` passed stays (`Laid`,
`Whole`); and the lock goes only with its holder or with nobody running
(`Exclusive`). A repair passes the paths one by one, and no step of any process
makes a narrow path wide (`StepNarrows`), so what it passed is narrow when it is
done, whatever ran beside it, unless the user widened one meanwhile
(`Narrowed`).

**ViewProofs.** `ViewsOverlookNothing` and `ViewsMakeNothingUp`, for `ViewSpec`:
a view beside Archive from an empty archive, any number of commands, killed and
refused. A directory loses documents or gains one with an identifier never drawn,
so what was listed and is still there is there as it was listed (`Keeps`). What
names a submission goes before it, so a submission that was listed and has gone
was named by nothing when it went (`StatusStays`), and what a listed statement
names was there when the statement was listed (`CaseListed`): that is why a
listing of one moment may be joined with one of another. `HasRead` says this of
each view between its listings, `Right` of its answer. Both theorems assume
`Readable`, that the directories of submissions, receipts and associations can be
listed; one that cannot is read as empty (section 6), and a view then does
overlook what is there. No command of Archive plans by the directory of cases, so
it is always listable in the model, and a search of it is the one listing for
which a failure is not modelled.

The chain of `association show` is the value of a recursive function, so its
proof is an induction, which the library states with an operator as a parameter.
`LeastNatural` and `AllNaturals` state it for a set of numbers instead, and are
proved from the least element of a set between two numbers. With them:
`WalkExists` (the function is what its definition says), `WalkStays` (the walk
leaves no set that no edge leaves) and `WalkEnds` (a round that reaches nothing
new is the last, and each that does follows an edge not followed before, so there
are no more rounds than statements). `ChainIsWhole` is the result, for any finite
set of statements, forks, gaps and circles included. `ChainsKeepToReceipts` is
about the archive: a statement and what it supersedes, or two that supersede the
same, there or gone, are about one receipt (`Tied`), so that the history of one
receipt holds the whole chain.

Only model-checked: `LockComesBack`, as liveness under fairness is out of the
prover's reach.

## 6. Where the code and its documents part

Each is a run TLC finds violated, with the quoted lines in `PROJECT.json`.

- `found_object`: an import that finds an object stored flushes nothing. If the
  import that put it there was killed before its own flush, the object is
  reported stored and recorded without a warning, and a power loss may take it.
- `refused_unlink`: the record pass is said to stop at the first refusal. It
  finishes the directory it is in, so a statement may stay whose predecessor
  went.
- `unlistable`: a record directory that cannot be listed counts as empty, and
  a purge plans from it: it removes an object that a stored receipt names.
- `withdrawn`: a case export takes the statements that name the case's
  submissions. A retirement names none, so it stays behind, and the case comes
  back with the withdrawn statement standing.
- `stale_refusal`: an index carries how many documents could not be read, and a
  document's mode moves no stamp. After the user mends one, commands go on
  refusing from the index.

Met while modelling and without a run of their own:

- `docs/architecture.md` (case import) says an interrupted import leaves the
  whole case or nothing of it. A refused one does, which `UndoRestores` shows;
  a killed one leaves the objects and records it had published. The comment of
  `withdraw` in `export/restore/publish.rs` says the same of an unlink that fails.
- An import that is killed after it stored an object and before it wrote the
  object's event never gets that event: the next import finds the object stored.
- A case export whose statements name submissions of two cases restores
  references to the other case, which may be gone: the import succeeds and
  `archive check` then reports them, where the documentation has it clean.
- An export is of no one moment: cases are read before submissions, and
  associations before receipts, so with a writer beside it an export may hold a
  submission whose case it lacks, or a statement without its receipt. Objects
  are the exception (`BundleHoldsNamed`).
- The unlink of an import event that is refused is dropped (`deletion/apply.rs:138`),
  where `docs/architecture.md:1972` has an event go with its object: the deletion
  reports success and the event stays. `EventsIntact` allows for it.
- `archive check` reads each record twice (`integrity/mod.rs:290`). A record
  written between the two, with what it names, is reported dangling on a sound
  archive; `NothingInvented` is therefore about a check with no command beside it.
- An object whose own metadata cannot be read is in neither `present` nor
  `unlisted`, so references to it are reported dangling, where the comment at
  `integrity/store.rs:50` has what could not be counted not judged. A record
  directory refused to the second pass alone is passed over without a mark.
- `association show` reads the statement and then the history. If a withdrawn
  statement is deleted with its withdrawal in between, it is shown as live, in a
  chain of no record (`records/association.rs:662`).
- A listing beside a deletion may be refused with `record.malformed` on a sound
  archive, as a document that is gone when it is opened counts as unreadable
  (`records/document.rs:331`). `Refused` of ArchiveViews is that.
- A directory that cannot be listed contributes no hit to a search, and no
  warning; one that cannot be listed while an index is rebuilt leaves an empty
  index under a stamp that may be the directory's later.
- `narrow_to_owner_only` gives a root that is too wide the mode 0700, so a root
  of 0555 gains its owner's write bit, where the comment at
  `archive/paths/permissions.rs:62` says it never widens. `NothingWidens` is
  about others' access, and about the repair for all of it.
- `create_dir_owner_only` looks and then creates: a directory another process
  makes in between refuses the command, where the comment at
  `archive/paths/permissions.rs:22` has an existing one ignored.
- An `init` killed after it staged its marker leaves the staging file, and every
  later `init` there is refused as not empty.

## 7. Not modelled

- Parsing, envelopes, wording, exit codes: no state.
- Symbolic-link and ownership checks, several filesystems, platforms without
  permission bits: here every one is a refusal like any other, and `MayRefuse`
  allows one anywhere. Modes are in Setup, and only there.
- Documents edited by hand, and references of another form than a digest: every
  run starts from what the commands write.
- What a derived record says, what a query matches, the order of a listing, the
  counts of a report, a contradictory outcome of a statement.
- What one file says of itself to `archive check`: a record that does not parse,
  an object whose bytes are not its digest's.
- The count of entries and the newest time in a stamp: they can only refuse an
  index, and every step of reading one may refuse it.
- The calendar of `clock.rs`, the retention window, the caps of `limits.rs`:
  planned below.
- Archive has no power loss: AtomicWrite has one for one directory.

## 8. Plan

In this order:

1. **PurgeDurability**: the durable directories of objects and of records
   together, for the order in which a deletion flushes them.
2. Pure algorithms against their definitions over bounded inputs: `Chains::of`
   by relabelling against `Chain`, with cycles; the order of an association
   history; the calendar of `clock.rs` and the retention window; the caps of
   `limits.rs`.
3. Proofs of those algorithms by the induction of ViewProofs (`AllNaturals`):
   `Chains::of` first, whose relabelling is a fold over the statements.
