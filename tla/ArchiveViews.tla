---------------------------- MODULE ArchiveViews ----------------------------
(***************************************************************************)
(* The commands that only show records: archive status, case show,         *)
(* submission show, receipt show and association list, association show,   *)
(* case list and receipt list, and search. They take no lock; each lists   *)
(* one directory after another while the commands of Archive write and     *)
(* unlink, and answers from listings that may never have been the archive  *)
(* at one moment.                                                          *)
(*                                                                         *)
(* What a view says beyond identifiers is left out: titles, counts,        *)
(* derived facts, the retention window, the order of a listing, what a     *)
(* query matches. A contradictory statement, which status alone passes     *)
(* over, is left out with the outcomes.                                    *)
(***************************************************************************)
EXTENDS Archive

VARIABLES
  view,           \* the view that is being read, or its answer
  stood,          \* history: what was so at every moment of the reading
  held            \* history: what was so at some moment of it

viewVars == <<view, stood, held>>

\* The directories a view lists, in its order, once it has read the one document
\* it was asked for.  A search is asked for the kinds it lists.
Reads ==
  [status      |-> <<"case", "submission", "receipt", "association">>,
   case        |-> <<"submission", "association", "receipt">>,
   submission  |-> <<"association">>,
   receipt     |-> <<"association">>,
   association |-> <<"association">>]

\* The order of the kinds: a search lists those it was asked for in it.
KindOrder == [association |-> 1, case |-> 2, receipt |-> 3, submission |-> 4]

\* selected: sorted, each kind once, and every kind if none was asked for.
Searches ==
  {kinds \in UNION {[1..n -> DOMAIN KindOrder] : n \in 1..4} :
     \A i, j \in DOMAIN kinds : i < j => KindOrder[kinds[i]] < KindOrder[kinds[j]]}

ReadsOf(op, of) == IF op = "search" THEN of ELSE Reads[op]

OnDisk == [case |-> cases, submission |-> submissions, receipt |-> receipts,
           association |-> associations]

Unseen == [case |-> {}, submission |-> {}, receipt |-> {}, association |-> {}]

NoView == [at |-> "none", op |-> Nil, of |-> Nil, read |-> 0, seen |-> Unseen, shown |-> {}]

Viewing == view.at = "reading"

----------------------------------------------------------------------------
(* What a view says of the records it was given *)

\* is_live, superseded_ids
Live(assocs) == {a \in assocs : ~Superseded(assocs, a)}

Naming(assocs, s) == {a \in assocs : s \in Named(a)}

\* named_submissions, reminders: the submissions still without a receipt.
Reminders(subs, assocs) == {s \in Ids(subs) : Naming(Live(assocs), s) = {}}

\* case_receipts, named_of: a live statement about a receipt that is listed,
\* and a submission of the case that it names.
CaseReceipts(c, subs, assocs, recs) ==
  {told \in Live(assocs) \X {s \in subs : s.case = c} :
     told[1].receipt \in Ids(recs) /\ told[2].id \in Named(told[1])}

\* submission show: what names it, and which of that is live.
Assertions(s, assocs) ==
  {<<a, IF a \in Live(assocs) THEN "live" ELSE "superseded">> : a \in Naming(assocs, s)}

HistoryOf(r, assocs) == {a \in assocs : a.receipt = r}

\* Fault: the walk follows a chain back and not on.
BeyondBack(reached, history) ==
  reached \cup ({a.supersedes : a \in {b \in history : b.id \in reached}} \ {Nil})

\* One round of the walk: along every supersedes edge, in either direction.
Beyond(reached, history) ==
  reached \cup ({a.supersedes : a \in {b \in history : b.id \in reached}} \ {Nil})
          \cup Ids({a \in history : a.supersedes \in reached})

\* chain_of: everything linked with a statement.  The walk begins at its
\* identifier, which the listing may no longer hold, and each round follows an
\* edge that none before it did, or is the last.
ChainOf(id, history) ==
  LET Reached[n \in Nat] ==
        IF n = 0 THEN {id} ELSE Beyond(Reached[n - 1], history)
  IN {a \in history : a.id \in Reached[Cardinality(history)]}

\* association show: the chain, and whether the statement is its live head.
\* is_live asks only that nothing listed supersedes it.
ShownChain(a, history) ==
  (ChainOf(a.id, history) \X {"chain"})
    \cup IF Superseded(history, a) THEN {} ELSE {<<a, "live">>}

Answer(op, of, seen) ==
  CASE op = "status"      -> Reminders(seen.submission, seen.association)
    [] op = "case"        -> CaseReceipts(of, seen.submission, seen.association, seen.receipt)
    [] op = "submission"  -> Assertions(of, seen.association)
    [] op = "receipt"     -> HistoryOf(of, seen.association)
    [] op = "association" -> ShownChain(of, HistoryOf(of.receipt, seen.association))
    [] op = "search"      -> UNION {Ids(seen[kind]) : kind \in DOMAIN seen}

----------------------------------------------------------------------------
(* What is so, whoever reads it *)

HeadNow(a) == \A b \in associations : ~Supersedes(b, a)

AnsweredNow(s) == \E a \in associations : HeadNow(a) /\ s.id \in Named(a)

\* No supersedes edge leads into these identifiers or out of them.
Whole(assocs, linked) ==
  \A a \in assocs : a.supersedes # Nil => (a.id \in linked <=> a.supersedes \in linked)

\* Everything linked with a statement, through statements that are gone as well.
ChainNow(a) ==
  {b \in associations :
     \A linked \in SUBSET AssociationId :
       a.id \in linked /\ Whole(associations, linked) => b.id \in linked}

Holding(op, of) ==
  CASE op = "status"      -> Ids({s \in submissions : ~AnsweredNow(s)})
    [] op = "case"        -> {told \in associations \X submissions :
                                /\ told[2].case = of /\ told[2].id \in Named(told[1])
                                /\ HeadNow(told[1]) /\ told[1].receipt \in Ids(receipts)}
    [] op = "submission"  -> {<<a, IF HeadNow(a) THEN "live" ELSE "superseded">> :
                                a \in {b \in associations : of \in Named(b)}}
    [] op = "receipt"     -> {a \in associations : a.receipt = of}
    [] op = "association" -> (ChainNow(of) \X {"chain"})
                               \cup {<<a, "live">> : a \in {of} \cap {b \in associations : HeadNow(b)}}
    [] op = "search"      -> UNION {Ids(OnDisk[of[k]]) : k \in DOMAIN of}

----------------------------------------------------------------------------
(* Reading *)

Begin(op, of) ==
  /\ view' = [NoView EXCEPT !.at = "reading", !.op = op, !.of = of]
  /\ stood' = Holding(op, of)
  /\ held' = Holding(op, of)

\* read_record: the document a view is about is there, or the view is refused.
\* A search of one kind stands for case list and receipt list as well.
BeginView ==
  /\ ~Viewing
  /\ \/ Begin("status", Nil)
     \/ \E kinds \in Searches : Begin("search", kinds)
     \/ \E c \in Ids(cases) : Begin("case", c)
     \/ \E s \in Ids(submissions) : Begin("submission", s)
     \/ \E r \in Ids(receipts) : Begin("receipt", r)
     \/ \E a \in associations : Begin("association", a)

\* case_receipts returns at once for a case without submissions.
Last(v) ==
  \/ v.read = Len(ReadsOf(v.op, v.of))
  \/ v.op = "case" /\ \A s \in v.seen.submission : s.case # v.of

List(kind) ==
  \E docs \in Listings(kind, OnDisk[kind]) :
    LET next == [view EXCEPT !.seen[kind] = docs, !.read = @ + 1]
    IN view' = IF Last(next)
               THEN [next EXCEPT !.at = "shown", !.shown = Answer(view.op, view.of, next.seen)]
               ELSE next

\* list_records: a document that is unlinked between read_dir and its own
\* opening, or cannot be read, makes the listing record.malformed.
Refused ==
  /\ MayRefuse \/ \E p \in Proc : pc[p] = "unlink"
  /\ view' = NoView

ReadNext ==
  /\ Viewing
  /\ List(ReadsOf(view.op, view.of)[view.read + 1]) \/ Refused

ViewMoves ==
  /\ BeginView \/ (ReadNext /\ UNCHANGED <<stood, held>>)
  /\ UNCHANGED vars

\* A command moves beside a reading.  An answer is given once.
ViewWatches ==
  /\ view' = IF Viewing THEN view ELSE NoView
  /\ stood' = IF Viewing THEN stood \cap Holding(view.op, view.of)' ELSE {}
  /\ held' = IF Viewing THEN held \cup Holding(view.op, view.of)' ELSE {}

ViewInit == view = NoView /\ stood = {} /\ held = {}

ViewSpec == Init /\ ViewInit /\ [][(Next /\ ViewWatches) \/ ViewMoves]_<<vars, viewVars>>

----------------------------------------------------------------------------
(* Properties *)

Shown == view.at = "shown"

\* status.rs, case.rs show_record: what was so from the beginning of a reading
\* to its end is in the answer, whatever commands did between its listings.
NothingOverlooked == Shown => stood \subseteq view.shown

\* The same readings: nothing is in the answer that was not so at some moment,
\* though no lock kept the listings together.  A deletion unlinks statements
\* before what they name, and one is written after it.  The exception is a
\* statement that went between association show's two readings: it may say of
\* one that was withdrawn, and is gone with its withdrawal, that it is live.
MistakenlyLive ==
  IF view.op = "association" /\ view.of \notin view.seen.association
  THEN {<<view.of, "live">>} ELSE {}

NothingMadeUp == Shown => view.shown \subseteq held \cup MistakenlyLive
=============================================================================
