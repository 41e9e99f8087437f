----------------------------- MODULE ViewProofs -----------------------------
(***************************************************************************)
(* Why a view says nothing that never was and misses nothing that stood    *)
(* while it was read, though it takes no lock and lists one directory      *)
(* after another.                                                          *)
(*                                                                         *)
(* A directory loses documents or gains one with an identifier never       *)
(* drawn, so what was listed is not to be had otherwise later (Keeps).     *)
(* What names a submission goes before it, so one that was listed and went *)
(* was named by nothing when it went (StatusStays); what a listed          *)
(* statement names was there when it was listed (CaseListed).              *)
(*                                                                         *)
(* The chain of association show is walked over the statements about one   *)
(* receipt.  The walk ends where no edge leads on (ChainIsWhole), which is *)
(* shown by induction on its rounds, and no edge leads to another receipt  *)
(* (Tied), so the walk finds what is linked in the whole archive.          *)
(***************************************************************************)
EXTENDS ArchiveViews, DeletionProofs, FiniteSetTheorems

----------------------------------------------------------------------------
(* Induction *)

\* A set of naturals that has one has a least one: the intervals 0..k up to one
\* of its members are finite sets, and inclusion of those is well founded.
LEMMA LeastNatural ==
  ASSUME NEW T \in SUBSET Nat, T # {}
  PROVE  \E x \in T : \A y \in T : x <= y
<1>1. PICK t \in T : TRUE
  OBVIOUS
<1> DEFINE Upto == 0..t
           Intervals == {0..k : k \in {n \in T : n <= t}}
<1>2. IsWellFoundedOn(StrictSubsetOrdering(Upto), SUBSET Upto)
  <2>1. IsFiniteSet(Upto)
    BY FS_Interval
  <2> HIDE DEF Upto
  <2> QED BY <2>1, FS_StrictSubsetOrderingWellFounded, FS_FiniteSubsetsOfFinite
<1>3. Intervals \subseteq SUBSET Upto /\ Intervals # {}
  BY <1>1
<1>4. \E x \in Intervals : \A y \in Intervals : <<y, x>> \notin StrictSubsetOrdering(Upto)
  <2> HIDE DEF Intervals, Upto
  <2> QED BY <1>2, <1>3, WFMin
<1>5. PICK k \in T : k <= t /\ \A y \in Intervals : <<y, 0..k>> \notin StrictSubsetOrdering(Upto)
  BY <1>4
<1>6. ASSUME NEW y \in T, y < k PROVE FALSE
  <2>1. 0..y \in Intervals
    BY <1>5, <1>6
  <2>2. 0..y \subseteq 0..k /\ 0..y # 0..k /\ 0..k \subseteq Upto
    BY <1>5, <1>6
  <2> QED BY <1>5, <2>1, <2>2 DEF StrictSubsetOrdering
<1> QED BY <1>5, <1>6

\* A set of naturals that holds zero and the successor of each of its members
\* holds all: what it left out would have a least member.
LEMMA AllNaturals ==
  ASSUME NEW S, 0 \in S, \A n \in Nat : n \in S => n + 1 \in S
  PROVE  Nat \subseteq S
<1> SUFFICES ASSUME NEW m \in Nat, m \notin S PROVE FALSE
  OBVIOUS
<1>1. PICK x \in Nat \ S : \A y \in Nat \ S : x <= y
  <2> DEFINE T == Nat \ S
  <2>1. T \in SUBSET Nat /\ T # {}
    OBVIOUS
  <2> HIDE DEF T
  <2>2. \E x \in T : \A y \in T : x <= y
    BY <2>1, LeastNatural
  <2> QED BY <2>2 DEF T
<1> QED BY <1>1

----------------------------------------------------------------------------
(* The walk along a chain *)

\* The first rounds of the walk from a statement.
Begun(walk, id, history, m) ==
  walk[0] = {id} /\ \A n \in 1..m : walk[n] = Beyond(walk[n - 1], history)

\* The walk of chain_of is a function: every round has one before it.
LEMMA WalkBegins ==
  ASSUME NEW id, NEW history
  PROVE  \A m \in Nat : \E walk : Begun(walk, id, history, m)
<1> DEFINE S == {m \in Nat : \E walk : Begun(walk, id, history, m)}
<1>1. 0 \in S
  <2>1. Begun([n \in Nat |-> {id}], id, history, 0)
    BY DEF Begun
  <2> QED BY <2>1
<1>2. ASSUME NEW m \in Nat, NEW walk, Begun(walk, id, history, m) PROVE m + 1 \in S
  <2> DEFINE more == [n \in Nat |-> IF n = m + 1 THEN Beyond(walk[m], history) ELSE walk[n]]
  <2>1. more[0] = {id}
    BY <1>2 DEF Begun
  <2>2. ASSUME NEW n \in 1..(m + 1) PROVE more[n] = Beyond(more[n - 1], history)
    BY <1>2, <2>2 DEF Begun
  <2>3. Begun(more, id, history, m + 1)
    <3> HIDE DEF more
    <3> QED BY <2>1, <2>2 DEF Begun
  <2> QED BY <2>3
<1> QED
  <2>1. \A m \in Nat : m \in S => m + 1 \in S
    BY <1>2
  <2> HIDE DEF S
  <2>2. Nat \subseteq S
    BY <1>1, <2>1, AllNaturals
  <2> QED BY <2>2 DEF S

\* Two walks from one statement agree as far as both go.
LEMMA WalksAgree ==
  ASSUME NEW id, NEW history
  PROVE  \A m \in Nat : \A f, g :
           Begun(f, id, history, m) /\ Begun(g, id, history, m) => f[m] = g[m]
<1> DEFINE S == {m \in Nat : \A f, g :
                   Begun(f, id, history, m) /\ Begun(g, id, history, m) => f[m] = g[m]}
<1>1. 0 \in S
  BY DEF Begun
<1>2. ASSUME NEW m \in Nat, m \in S PROVE m + 1 \in S
  <2> SUFFICES ASSUME NEW f, NEW g, Begun(f, id, history, m + 1), Begun(g, id, history, m + 1)
               PROVE  f[m + 1] = g[m + 1]
    OBVIOUS
  <2>1. Begun(f, id, history, m) /\ Begun(g, id, history, m)
    BY DEF Begun
  <2>2. f[m] = g[m]
    BY <1>2, <2>1
  <2>3. f[m + 1] = Beyond(f[m], history) /\ g[m + 1] = Beyond(g[m], history)
    BY DEF Begun
  <2> QED BY <2>2, <2>3
<1> QED
  <2>1. \A m \in Nat : m \in S => m + 1 \in S
    BY <1>2
  <2> HIDE DEF S
  <2>2. Nat \subseteq S
    BY <1>1, <2>1, AllNaturals
  <2> QED BY <2>2 DEF S

IsWalk(walk, id, history) ==
  walk = [n \in Nat |-> IF n = 0 THEN {id} ELSE Beyond(walk[n - 1], history)]

\* So the recursive function of chain_of has a value.
LEMMA WalkExists ==
  ASSUME NEW id, NEW history
  PROVE  \E walk : IsWalk(walk, id, history)
<1> DEFINE parts == [m \in Nat |-> CHOOSE walk : Begun(walk, id, history, m)]
           whole == [m \in Nat |-> parts[m][m]]
<1>1. \A m \in Nat : Begun(parts[m], id, history, m)
  <2>1. \A m \in Nat : Begun(CHOOSE walk : Begun(walk, id, history, m), id, history, m)
    BY WalkBegins
  <2> QED BY <2>1
<1> HIDE DEF parts
<1>2. whole[0] = {id}
  BY <1>1 DEF Begun
<1>3. ASSUME NEW m \in Nat, m # 0 PROVE whole[m] = Beyond(whole[m - 1], history)
  <2>1. m - 1 \in Nat /\ Begun(parts[m], id, history, m - 1)
    BY <1>1, <1>3 DEF Begun
  <2>2. parts[m][m - 1] = parts[m - 1][m - 1]
    BY <1>1, <2>1, WalksAgree
  <2>3. parts[m][m] = Beyond(parts[m][m - 1], history)
    BY <1>1, <1>3 DEF Begun
  <2> QED BY <2>1, <2>2, <2>3
<1>4. whole = [n \in Nat |-> IF n = 0 THEN {id} ELSE Beyond(whole[n - 1], history)]
  <2>1. whole = [n \in Nat |-> whole[n]]
    OBVIOUS
  <2>2. \A n \in Nat : n # 0 => whole[n] = Beyond(whole[n - 1], history)
    BY <1>3
  <2> HIDE DEF whole
  <2> QED BY <1>2, <2>1, <2>2
<1> QED BY <1>4 DEF IsWalk

\* A walk: its rounds, and the last one that chain_of asks for.
Walk(walk, id, history) ==
  walk[0] = {id} /\ \A n \in Nat : walk[n + 1] = Beyond(walk[n], history)

\* The chain is what a walk has reached after as many rounds as there are
\* statements.
LEMMA ChainWalked ==
  ASSUME NEW id, NEW history
  PROVE  \E walk : /\ Walk(walk, id, history)
                   /\ ChainOf(id, history) =
                        {a \in history : a.id \in walk[Cardinality(history)]}
<1> DEFINE walked == CHOOSE walk : IsWalk(walk, id, history)
<1>1. IsWalk(walked, id, history)
  BY WalkExists
<1>2. ChainOf(id, history) = {a \in history : a.id \in walked[Cardinality(history)]}
  BY DEF ChainOf, IsWalk
<1>3. Walk(walked, id, history)
  <2> HIDE DEF walked
  <2> QED BY <1>1 DEF Walk, IsWalk
<1> QED BY <1>2, <1>3

----------------------------------------------------------------------------
(* What the walk reaches *)

\* What no edge leads out of, a walk that starts in it does not leave.
LEMMA WalkStays ==
  ASSUME NEW history, NEW linked, Whole(history, linked), Nil \notin linked,
         NEW id \in linked, NEW walk, Walk(walk, id, history)
  PROVE  \A n \in Nat : walk[n] \subseteq linked
<1> DEFINE S == {n \in Nat : walk[n] \subseteq linked}
<1>1. 0 \in S
  BY DEF Walk
<1>2. ASSUME NEW n \in Nat, walk[n] \subseteq linked PROVE n + 1 \in S
  <2>1. Beyond(walk[n], history) \subseteq linked
    BY <1>2 DEF Beyond, Whole, Ids
  <2> QED BY <2>1 DEF Walk
<1> QED
  <2>1. \A n \in Nat : n \in S => n + 1 \in S
    BY <1>2
  <2> HIDE DEF S
  <2>2. Nat \subseteq S
    BY <1>1, <2>1, AllNaturals
  <2> QED BY <2>2 DEF S

\* The statements both of whose identifiers were reached.
Followed(reached, history) ==
  {a \in history : a.id \in reached /\ a.supersedes \in reached}

\* A round that is not the last follows one statement more.
LEMMA RoundFollows ==
  ASSUME NEW history, IsFiniteSet(history), NEW reached,
         ~Whole(history, reached)
  PROVE  Cardinality(Followed(reached, history)) + 1
           <= Cardinality(Followed(Beyond(reached, history), history))
<1> DEFINE before == Followed(reached, history)
           after == Followed(Beyond(reached, history), history)
<1>1. PICK a \in history : a.supersedes # Nil /\ ~(a.id \in reached <=> a.supersedes \in reached)
  BY DEF Whole
<1>2. a \notin before /\ a \in after /\ before \subseteq after
  BY <1>1 DEF Followed, Beyond, Ids
<1>3. before \subseteq history /\ after \subseteq history
  BY DEF Followed
<1> HIDE DEF before, after
<1>4. IsFiniteSet(before) /\ IsFiniteSet(after)
  BY <1>3, FS_Subset
<1>5. IsFiniteSet(before \cup {a}) /\ Cardinality(before \cup {a}) = Cardinality(before) + 1
  BY <1>2, <1>4, FS_AddElement
<1>6. Cardinality(before \cup {a}) <= Cardinality(after)
  BY <1>2, <1>4, FS_Subset
<1> QED BY <1>5, <1>6 DEF before, after

\* After as many rounds as there are statements, no edge leads out of what was
\* reached: each round but the last has followed one that none before it had.
LEMMA WalkEnds ==
  ASSUME NEW history \in SUBSET Association, IsFiniteSet(history),
         NEW id \in AssociationId, NEW walk, Walk(walk, id, history)
  PROVE  /\ Whole(history, walk[Cardinality(history)])
         /\ walk[Cardinality(history)] \subseteq AssociationId
<1> DEFINE S == {n \in Nat : \/ Whole(history, walk[n])
                             \/ n <= Cardinality(Followed(walk[n], history))}
<1>1. \A n \in Nat : walk[n] \subseteq AssociationId
  <2>1. Whole(history, AssociationId)
    BY DEF Whole, Association
  <2> QED BY <2>1, WalkStays, ConstantsAssumption
<1>2. \A reached : /\ IsFiniteSet(Followed(reached, history))
                   /\ Cardinality(Followed(reached, history)) \in Nat
                   /\ Cardinality(Followed(reached, history)) <= Cardinality(history)
                   /\ Cardinality(Followed(reached, history)) = Cardinality(history) =>
                        Followed(reached, history) = history
  <2> SUFFICES ASSUME NEW reached
               PROVE  /\ IsFiniteSet(Followed(reached, history))
                      /\ Cardinality(Followed(reached, history)) \in Nat
                      /\ Cardinality(Followed(reached, history)) <= Cardinality(history)
                      /\ Cardinality(Followed(reached, history)) = Cardinality(history) =>
                           Followed(reached, history) = history
    OBVIOUS
  <2>1. Followed(reached, history) \subseteq history
    BY DEF Followed
  <2> QED BY <2>1, FS_Subset, FS_CardinalityType
<1>3. 0 \in S
  BY <1>2
<1>4. ASSUME NEW n \in Nat, n \in S PROVE n + 1 \in S
  <2>1. walk[n + 1] = Beyond(walk[n], history)
    BY DEF Walk
  <2>2. CASE Whole(history, walk[n])
    <3>1. Beyond(walk[n], history) = walk[n]
      BY <1>1, <2>2, ConstantsAssumption DEF Beyond, Whole, Ids
    <3> QED BY <2>1, <2>2, <3>1
  <2>3. CASE ~Whole(history, walk[n])
    <3>1. Cardinality(Followed(walk[n], history)) + 1
            <= Cardinality(Followed(walk[n + 1], history))
      BY <2>1, <2>3, RoundFollows
    <3> QED BY <1>2, <1>4, <2>3, <3>1
  <2> QED BY <2>2, <2>3
<1>5. Cardinality(history) \in S
  <2>1. \A n \in Nat : n \in S => n + 1 \in S
    BY <1>4
  <2> HIDE DEF S
  <2>2. Nat \subseteq S
    BY <1>3, <2>1, AllNaturals
  <2> QED BY <2>2, FS_CardinalityType
<1>6. CASE Cardinality(history) <= Cardinality(Followed(walk[Cardinality(history)], history))
  <2>1. Followed(walk[Cardinality(history)], history) = history
    BY <1>2, <1>6, FS_CardinalityType
  <2> QED BY <1>1, <2>1, FS_CardinalityType DEF Followed, Whole
<1> QED BY <1>1, <1>5, <1>6, FS_CardinalityType

\* chain_of finds all that is linked with a statement and nothing else: what is
\* in every set of identifiers that holds the one it starts from and that no
\* edge leads out of.  It does so for every finite history, forks and gaps in a
\* chain and circles included.
THEOREM ChainIsWhole ==
  ASSUME NEW history \in SUBSET Association, IsFiniteSet(history), NEW id \in AssociationId
  PROVE  /\ \A linked \in SUBSET AssociationId : id \in linked /\ Whole(history, linked) =>
              \A a \in ChainOf(id, history) : a.id \in linked
         /\ \E linked \in SUBSET AssociationId :
              /\ id \in linked /\ Whole(history, linked)
              /\ ChainOf(id, history) = {a \in history : a.id \in linked}
<1>1. PICK walk : /\ Walk(walk, id, history)
                  /\ ChainOf(id, history) = {a \in history : a.id \in walk[Cardinality(history)]}
  BY ChainWalked
<1>2. Cardinality(history) \in Nat
  BY FS_CardinalityType
<1>3. ASSUME NEW linked \in SUBSET AssociationId, id \in linked, Whole(history, linked)
      PROVE  walk[Cardinality(history)] \subseteq linked
  BY <1>1, <1>2, <1>3, WalkStays, ConstantsAssumption
<1>4. id \in walk[Cardinality(history)]
  <2> DEFINE S == {n \in Nat : id \in walk[n]}
  <2>1. 0 \in S
    BY <1>1 DEF Walk
  <2>2. \A n \in Nat : n \in S => n + 1 \in S
    <3>1. \A reached : reached \subseteq Beyond(reached, history)
      BY DEF Beyond
    <3> QED BY <1>1, <3>1 DEF Walk
  <2> HIDE DEF S
  <2>3. Nat \subseteq S
    BY <2>1, <2>2, AllNaturals
  <2> QED BY <1>2, <2>3 DEF S
<1> QED BY <1>1, <1>3, <1>4, WalkEnds

----------------------------------------------------------------------------
(* Chains keep to a receipt *)

\* A statement that supersedes another, or what another supersedes, is about
\* the same receipt, whether what they supersede is there or gone.
Tied ==
  \A a, b \in associations :
    Supersedes(a, b) \/ (a.supersedes = b.supersedes /\ a.supersedes # Nil) =>
      a.receipt = b.receipt

\* What is about to be written supersedes one of the same receipt.
TiedHeld(p) ==
  pc[p] = "write_association" /\ draft[p].supersedes # Nil =>
    \E a \in associations : a.id = draft[p].supersedes /\ a.receipt = draft[p].receipt

HistoryInv ==
  ChainInv /\ IsFiniteSet(associations) /\ Tied /\ \A p \in Proc : TiedHeld(p)

\* What is written when the associations change: nothing, or one statement.
LEMMA StatementWritten ==
  ASSUME HistoryInv, NEW p \in Proc, Step(p) \/ Crash(p)
  PROVE  \/ associations' \subseteq associations
         \/ \E new : /\ associations' = associations \cup {new}
                     /\ new.id \notin drawn /\ new.id \in AssociationId
                     /\ UNCHANGED <<submissions, receipts, cases>>
                     /\ new.supersedes # Nil =>
                          \E a \in associations : a.id = new.supersedes /\ a.receipt = new.receipt
<1>0. IdentityInv /\ LockInv /\ TiedHeld(p)
  BY DEF HistoryInv, ChainInv, IdentityInv
<1>1. Changes(p)
  BY <1>0, Moves
<1>2. CASE WriteAssociation(p)
  <2> DEFINE new == [id |-> NewId(AssociationId), receipt |-> draft[p].receipt,
                     candidates |-> draft[p].candidates,
                     supersedes |-> draft[p].supersedes]
  <2>1. /\ associations' = associations \cup {new} /\ new.id \notin drawn
        /\ new.id \in AssociationId
        /\ UNCHANGED <<submissions, receipts, cases>> /\ pc[p] = "write_association"
    BY <1>2, NewIdIsFresh DEF WriteAssociation
  <2>2. new.supersedes # Nil =>
          \E a \in associations : a.id = new.supersedes /\ a.receipt = new.receipt
    BY <1>0, <2>1 DEF TiedHeld
  <2> HIDE DEF new
  <2> QED BY <2>1, <2>2
<1>3. CASE \E id \in AssociationId : UnlinkAssociation(p, id)
  BY <1>3 DEF UnlinkAssociation, Without
<1> QED BY <1>1, <1>2, <1>3 DEF Changes

\* A step leaves the statements tied, and finitely many.
LEMMA TiedByStep ==
  ASSUME HistoryInv, NEW p \in Proc, Step(p) \/ Crash(p)
  PROVE  Tied' /\ IsFiniteSet(associations')
<1>0. /\ UniqueIds(associations) /\ Tied /\ IsFiniteSet(associations) /\ SupersededDrawn
      /\ associations \subseteq Association /\ Nil \notin AssociationId
  BY ConstantsAssumption
  DEF HistoryInv, ChainInv, IdentityInv, IdsUnique, LockInv, TypeInv, TypeOK
<1>1. CASE associations' \subseteq associations
  BY <1>0, <1>1, FS_Subset DEF Tied, Supersedes
<1>2. ASSUME NEW new, associations' = associations \cup {new}, new.id \notin drawn,
             new.id \in AssociationId,
             new.supersedes # Nil =>
               \E a \in associations : a.id = new.supersedes /\ a.receipt = new.receipt
      PROVE  Tied' /\ IsFiniteSet(associations')
  <2>1. \A a \in associations : a.supersedes # new.id \/ a.supersedes = Nil
    BY <1>0, <1>2 DEF SupersededDrawn
  <2>2. \A a \in associations : a.id \in drawn
    BY <1>0 DEF UniqueIds, Ids
  <2>3. ASSUME NEW a \in associations,
               \/ Supersedes(new, a)
               \/ Supersedes(a, new)
               \/ new.supersedes = a.supersedes /\ new.supersedes # Nil
        PROVE  a.receipt = new.receipt
    <3>1. new.supersedes # Nil /\ ~Supersedes(a, new)
      BY <1>0, <1>2, <2>1, <2>3 DEF Supersedes, Association
    <3>2. PICK b \in associations : b.id = new.supersedes /\ b.receipt = new.receipt
      BY <1>2, <3>1
    <3>3. CASE Supersedes(new, a)
      BY <1>0, <3>2, <3>3 DEF UniqueIds, Supersedes
    <3>4. CASE new.supersedes = a.supersedes
      BY <1>0, <3>2, <3>4 DEF Tied, Supersedes
    <3> QED BY <2>3, <3>1, <3>3, <3>4
  <2>4. Tied'
    BY <1>0, <1>2, <2>3 DEF Tied, Supersedes
  <2> QED BY <1>0, <1>2, <2>4, FS_AddElement
<1> QED BY <1>1, <1>2, StatementWritten

\* A command that is about to write a statement found what it supersedes.
LEMMA TiedHeldByStep ==
  ASSUME HistoryInv, NEW p \in Proc, Step(p) \/ Crash(p), NEW q \in Proc
  PROVE  TiedHeld(q)'
<1>0. LockInv /\ TypeInv
  BY DEF HistoryInv, ChainInv, IdentityInv, LockInv
<1>1. Arrivals(p) /\ \A r \in Proc \ {p} : pc'[r] = "idle"
  BY <1>0, Moves
<1>2. SUFFICES ASSUME pc'[q] = "write_association" PROVE TiedHeld(q)'
  BY DEF TiedHeld
<1>3. q = p /\ (CreateAssociation(p) \/ RetireAssociation(p))
  BY <1>1, <1>2 DEF Arrivals
<1>4. draft \in [Proc -> Drafts] /\ Nil \notin AssociationId
  BY <1>0, ConstantsAssumption DEF TypeInv, TypeOK
<1>5. \E new : /\ draft' = [draft EXCEPT ![p] = new] /\ associations' = associations
               /\ new.supersedes # Nil =>
                    \E a \in associations : a.id = new.supersedes /\ a.receipt = new.receipt
  <2>1. CASE CreateAssociation(p)
    <3>1. PICK r \in Ids(receipts), named \in SUBSET Ids(submissions) :
            \E s \in {Nil} \cup Ids({a \in associations : a.receipt = r}) :
              draft' = [draft EXCEPT ![p] = [receipt |-> r, candidates |-> named, supersedes |-> s]]
      BY <2>1, Zenon DEF CreateAssociation
    <3>2. PICK s \in {Nil} \cup Ids({a \in associations : a.receipt = r}) :
            draft' = [draft EXCEPT ![p] = [receipt |-> r, candidates |-> named, supersedes |-> s]]
      BY <3>1, Zenon
    <3> DEFINE new == [receipt |-> r, candidates |-> named, supersedes |-> s]
    <3>3. associations' = associations
      BY <2>1, Zenon DEF CreateAssociation, records
    <3>4. new.supersedes # Nil =>
            \E a \in associations : a.id = new.supersedes /\ a.receipt = new.receipt
      BY <3>2 DEF Ids
    <3> QED BY <3>2, <3>3, <3>4, Zenon
  <2>2. CASE RetireAssociation(p)
    <3>1. PICK a \in associations :
            draft' = [draft EXCEPT ![p] =
                        [receipt |-> a.receipt, candidates |-> {}, supersedes |-> a.id]]
      BY <2>2, Zenon DEF RetireAssociation
    <3> DEFINE new == [receipt |-> a.receipt, candidates |-> {}, supersedes |-> a.id]
    <3>2. associations' = associations
      BY <2>2, Zenon DEF RetireAssociation, records
    <3>3. new.supersedes # Nil =>
            \E b \in associations : b.id = new.supersedes /\ b.receipt = new.receipt
      OBVIOUS
    <3> QED BY <3>1, <3>2, <3>3, Zenon
  <2> QED BY <1>3, <2>1, <2>2
<1>6. PICK new : /\ draft' = [draft EXCEPT ![p] = new] /\ associations' = associations
                 /\ new.supersedes # Nil =>
                      \E a \in associations : a.id = new.supersedes /\ a.receipt = new.receipt
  BY <1>5
<1> QED BY <1>3, <1>4, <1>6 DEF TiedHeld

\* Every step of a command keeps what is known of the statements.
LEMMA StepHistoryInv == HistoryInv /\ [Next]_vars => HistoryInv'
<1> SUFFICES ASSUME HistoryInv, [Next]_vars PROVE HistoryInv'
  OBVIOUS
<1>1. ChainInv'
  BY StepChainInv DEF HistoryInv
<1>2. ASSUME NEW p \in Proc, Step(p) \/ Crash(p) PROVE HistoryInv'
  BY <1>1, <1>2, TiedByStep, TiedHeldByStep DEF HistoryInv
<1>3. CASE RemoveAbandonedLock \/ UNCHANGED vars
  <2>1. UNCHANGED <<associations, pc, draft>>
    BY <1>3 DEF RemoveAbandonedLock, vars, records, locals
  <2> QED BY <1>1, <2>1 DEF HistoryInv, Tied, TiedHeld, Supersedes
<1> QED BY <1>2, <1>3 DEF Next

\* An empty archive has no statements.
LEMMA InitHistoryInv == Init => HistoryInv
<1> SUFFICES ASSUME Init PROVE HistoryInv
  OBVIOUS
<1>1. associations = {} /\ pc = [p \in Proc |-> "idle"]
  BY DEF Init
<1>2. Tied /\ IsFiniteSet(associations) /\ \A p \in Proc : TiedHeld(p)
  BY <1>1, FS_EmptySet DEF Tied, TiedHeld
<1> QED BY <1>2, InitChainInv DEF HistoryInv

\* association create, retire: a statement supersedes only one about its own
\* receipt, and what supersedes the same one, gone or not, is about it as well.
THEOREM ChainsKeepToReceipts == Spec => []Tied
<1>1. HistoryInv => Tied
  BY DEF HistoryInv
<1> QED BY <1>1, InitHistoryInv, StepHistoryInv, PTL DEF Spec

\* A statement that a view was asked for: it is there, or it is gone for good
\* and what supersedes it is about its receipt.
Asked(a) ==
  /\ a \in Association /\ a.id \in drawn
  /\ \A b \in associations : /\ b.id = a.id => b = a
                             /\ b.supersedes = a.id => b.receipt = a.receipt

\* association show, chain_of: what the walk over one receipt's statements
\* finds is what is linked with the statement in the whole archive.
LEMMA ChainOfReceipt ==
  ASSUME HistoryInv, NEW of, Asked(of)
  PROVE  ChainOf(of.id, HistoryOf(of.receipt, associations)) = ChainNow(of)
<1> DEFINE history == HistoryOf(of.receipt, associations)
<1>0. /\ Tied /\ UniqueIds(associations) /\ IsFiniteSet(associations)
      /\ associations \in SUBSET Association
  BY DEF HistoryInv, ChainInv, IdentityInv, IdsUnique, LockInv, TypeInv, TypeOK
<1>1. history \in SUBSET Association /\ IsFiniteSet(history) /\ of.id \in AssociationId
  BY <1>0, FS_Subset DEF HistoryOf, Association, Asked
<1> DEFINE kept == {id \in AssociationId :
                      \A b \in associations : b.id = id \/ b.supersedes = id => b.receipt = of.receipt}
<1>2. of.id \in kept
  BY <1>1 DEF Asked
<1>3. Whole(history, kept)
  <2> SUFFICES ASSUME NEW a \in associations, a.receipt = of.receipt, a.supersedes # Nil
               PROVE  a.id \in kept /\ a.supersedes \in kept
    BY DEF Whole, HistoryOf
  <2>1. a.id \in AssociationId /\ a.supersedes \in AssociationId
    BY <1>0 DEF Association
  <2>2. ASSUME NEW b \in associations, b.id = a.id \/ b.supersedes = a.id
        PROVE  b.receipt = of.receipt
    BY <1>0, <2>2 DEF Tied, Supersedes, UniqueIds
  <2>3. ASSUME NEW b \in associations, b.id = a.supersedes \/ b.supersedes = a.supersedes
        PROVE  b.receipt = of.receipt
    BY <1>0, <2>3 DEF Tied, Supersedes
  <2> QED BY <2>1, <2>2, <2>3
<1>4. kept \in SUBSET AssociationId
  OBVIOUS
<1>5. PICK linked \in SUBSET AssociationId :
        /\ of.id \in linked /\ Whole(history, linked)
        /\ ChainOf(of.id, history) = {a \in history : a.id \in linked}
  <2> HIDE DEF history
  <2> QED BY <1>1, ChainIsWhole
<1>6. \A some \in SUBSET AssociationId : of.id \in some /\ Whole(history, some) =>
        \A a \in ChainOf(of.id, history) : a.id \in some
  <2> HIDE DEF history
  <2> QED BY <1>1, ChainIsWhole
<1>7. ASSUME NEW some \in SUBSET AssociationId, of.id \in some, Whole(associations, some)
      PROVE  \A a \in ChainOf(of.id, history) : a.id \in some
  <2>1. Whole(history, some)
    BY <1>7 DEF Whole, HistoryOf
  <2> HIDE DEF history
  <2> QED BY <1>6, <1>7, <2>1
<1> DEFINE both == linked \cap kept
<1>8. of.id \in both /\ both \in SUBSET AssociationId
  BY <1>2, <1>5
<1>9. Whole(associations, both)
  <2> SUFFICES ASSUME NEW a \in associations, a.supersedes # Nil
               PROVE  a.id \in both <=> a.supersedes \in both
    BY DEF Whole
  <2>1. a.id \in kept \/ a.supersedes \in kept => a \in history
    BY DEF HistoryOf
  <2> QED BY <1>3, <1>5, <2>1 DEF Whole
<1>10. ChainOf(of.id, history) \subseteq ChainNow(of)
  <2>1. ChainOf(of.id, history) \subseteq associations
    BY DEF ChainOf, HistoryOf
  <2> QED BY <1>7, <2>1 DEF ChainNow
<1>11. ASSUME NEW a \in ChainNow(of) PROVE a \in ChainOf(of.id, history)
  <2>1. a \in associations /\ a.id \in both
    BY <1>8, <1>9, <1>11 DEF ChainNow
  <2>2. a \in history
    BY <2>1 DEF HistoryOf
  <2> QED BY <1>5, <2>1, <2>2
<1> QED BY <1>10, <1>11

----------------------------------------------------------------------------
(* A listing of a view *)

Listed == {"case", "submission", "receipt", "association"}

ViewShape ==
  /\ DOMAIN view = {"at", "op", "of", "read", "seen", "shown"}
  /\ DOMAIN view.seen = Listed
  /\ view.at \in {"none", "reading", "shown"}
  /\ Viewing => /\ view.op \in DOMAIN Reads \cup {"search"}
                /\ view.op = "search" => view.of \in Searches
                /\ view.read \in 0..(Len(ReadsOf(view.op, view.of)) - 1)

\* What each view lists, in which order.
LEMMA ReadsAre ==
  /\ DOMAIN OnDisk = Listed
  /\ DOMAIN Reads = {"status", "case", "submission", "receipt", "association"}
  /\ Len(Reads["status"]) = 4 /\ Reads["status"][2] = "submission"
  /\ Reads["status"][1] = "case" /\ Reads["status"][3] = "receipt"
  /\ Reads["status"][4] = "association"
  /\ Len(Reads["case"]) = 3 /\ Reads["case"][1] = "submission"
  /\ Reads["case"][2] = "association" /\ Reads["case"][3] = "receipt"
  /\ \A op \in {"submission", "receipt", "association"} :
       Len(Reads[op]) = 1 /\ Reads[op][1] = "association"
BY DEF OnDisk, Listed, Reads

\* A search lists one kind after another, at least one.
LEMMA SearchesAre ==
  \A of \in Searches :
    Len(of) \in Nat \ {0} /\ DOMAIN of = 1..Len(of) /\ \A k \in 1..Len(of) : of[k] \in Listed
<1>1. DOMAIN KindOrder = Listed
  BY DEF KindOrder, Listed
<1>2. ASSUME NEW n \in 1..4, NEW of \in [1..n -> Listed]
      PROVE  Len(of) \in Nat \ {0} /\ DOMAIN of = 1..Len(of) /\ \A k \in 1..Len(of) : of[k] \in Listed
  <2>1. of \in Seq(Listed) /\ Len(of) = n
    OBVIOUS
  <2> QED BY <2>1
<1> QED BY <1>1, <1>2 DEF Searches

\* The kind that a view lists next.
NextKind == ReadsOf(view.op, view.of)[view.read + 1]

\* A view that is being read has a directory to list.
LEMMA NextKindListed ==
  ASSUME ViewShape, Viewing
  PROVE  NextKind \in Listed /\ Len(ReadsOf(view.op, view.of)) \in Nat \ {0}
<1>0. view.read \in 0..(Len(ReadsOf(view.op, view.of)) - 1)
  BY DEF ViewShape
<1>1. CASE view.op = "search"
  <2>1. ReadsOf(view.op, view.of) = view.of /\ view.of \in Searches
    BY <1>1 DEF ViewShape, ReadsOf
  <2>2. Len(view.of) \in Nat \ {0} /\ \A k \in 1..Len(view.of) : view.of[k] \in Listed
    BY <2>1, SearchesAre
  <2>3. view.read + 1 \in 1..Len(view.of)
    BY <1>0, <2>1, <2>2
  <2> QED BY <2>1, <2>2, <2>3 DEF NextKind
<1>2. CASE view.op = "status"
  <2>1. ReadsOf(view.op, view.of) = Reads["status"]
    BY <1>2 DEF ReadsOf
  <2>2. view.read \in 0..3
    BY <1>0, <2>1, ReadsAre
  <2>3. view.read = 0 \/ view.read = 1 \/ view.read = 2 \/ view.read = 3
    BY <2>2
  <2> QED BY <2>1, <2>3, ReadsAre DEF NextKind, Listed
<1>3. CASE view.op = "case"
  <2>1. ReadsOf(view.op, view.of) = Reads["case"]
    BY <1>3 DEF ReadsOf
  <2>2. view.read \in 0..2
    BY <1>0, <2>1, ReadsAre
  <2>3. view.read = 0 \/ view.read = 1 \/ view.read = 2
    BY <2>2
  <2> QED BY <2>1, <2>3, ReadsAre DEF NextKind, Listed
<1>4. CASE view.op \in {"submission", "receipt", "association"}
  <2>1. ReadsOf(view.op, view.of) = Reads[view.op]
    BY <1>4 DEF ReadsOf
  <2>2. Len(Reads[view.op]) = 1 /\ Reads[view.op][1] = "association"
    BY <1>4, ReadsAre
  <2>3. view.read = 0
    BY <1>0, <2>1, <2>2
  <2> QED BY <2>1, <2>2, <2>3 DEF NextKind, Listed
<1> QED BY <1>1, <1>2, <1>3, <1>4, ReadsAre DEF ViewShape

\* A listing is the directory of the moment, if that can be listed, and the
\* last one is followed by the answer.
LEMMA ListReads ==
  ASSUME ViewShape, Viewing, List(NextKind)
  PROVE  /\ DOMAIN view' = DOMAIN view /\ DOMAIN view'.seen = Listed
         /\ view'.op = view.op /\ view'.of = view.of /\ view'.read = view.read + 1
         /\ view'.seen[NextKind] \in Listings(NextKind, OnDisk[NextKind])
         /\ \A kind \in Listed \ {NextKind} : view'.seen[kind] = view.seen[kind]
         /\ \/ Last(view') /\ view'.at = "shown"
               /\ view'.shown = Answer(view.op, view.of, view'.seen)
            \/ ~Last(view') /\ view'.at = "reading"
<1>1. NextKind \in Listed
  BY NextKindListed
<1>2. PICK docs \in Listings(NextKind, OnDisk[NextKind]) :
        LET next == [view EXCEPT !.seen[NextKind] = docs, !.read = @ + 1]
        IN view' = IF Last(next)
                   THEN [next EXCEPT !.at = "shown", !.shown = Answer(view.op, view.of, next.seen)]
                   ELSE next
  BY Zenon DEF List
<1> DEFINE next == [view EXCEPT !.seen[NextKind] = docs, !.read = @ + 1]
<1>3. view' = IF Last(next)
              THEN [next EXCEPT !.at = "shown", !.shown = Answer(view.op, view.of, next.seen)]
              ELSE next
  BY <1>2
<1>4. /\ DOMAIN next = DOMAIN view /\ next.at = view.at /\ next.op = view.op /\ next.of = view.of
      /\ next.read = view.read + 1 /\ DOMAIN next.seen = Listed /\ next.seen[NextKind] = docs
      /\ \A kind \in Listed \ {NextKind} : next.seen[kind] = view.seen[kind]
  BY <1>1 DEF ViewShape
<1> HIDE DEF next
<1>5. /\ DOMAIN view' = DOMAIN next /\ view'.op = next.op /\ view'.of = next.of
      /\ view'.read = next.read /\ view'.seen = next.seen
      /\ view'.at = IF Last(next) THEN "shown" ELSE next.at
      /\ Last(next) => view'.shown = Answer(view.op, view.of, next.seen)
  BY <1>3, <1>4 DEF ViewShape
<1>6. Last(view') <=> Last(next)
  BY <1>5 DEF Last
<1> QED BY <1>4, <1>5, <1>6 DEF Viewing

----------------------------------------------------------------------------
(* A step of a command beside a reading *)

\* No document of the directory is rewritten, and none that was drawn comes back.
Keeps(old, now) ==
  /\ \A a \in old, b \in now : a.id = b.id => a = b
  /\ Ids(now) \cap drawn \subseteq Ids(old)

\* What a step of a command may do to the directories a view lists.
LEMMA RecordsMove ==
  ASSUME IdentityInv, [Next]_vars
  PROVE  /\ Keeps(submissions, submissions') /\ Keeps(receipts, receipts')
         /\ Keeps(associations, associations')
         /\ Ids(cases') \cap drawn \subseteq Ids(cases) /\ drawn \subseteq drawn'
         /\ UNCHANGED submissions \/ UNCHANGED associations
<1>0. /\ UniqueIds(submissions) /\ UniqueIds(receipts) /\ UniqueIds(associations)
      /\ UniqueIds(cases) /\ LockInv
  BY DEF IdentityInv, IdsUnique
<1>1. ASSUME NEW p \in Proc, Step(p) \/ Crash(p)
      PROVE  /\ Keeps(submissions, submissions') /\ Keeps(receipts, receipts')
             /\ Keeps(associations, associations')
             /\ Ids(cases') \cap drawn \subseteq Ids(cases) /\ drawn \subseteq drawn'
             /\ UNCHANGED submissions \/ UNCHANGED associations
  <2>1. /\ Evolves(submissions, submissions') /\ Evolves(receipts, receipts')
        /\ Evolves(associations, associations')
        /\ Evolves(cases, cases') \/ ReplaceCase(p)
    BY <1>0, <1>1, DirectoriesEvolve
  <2>2. /\ Keeps(submissions, submissions') /\ Keeps(receipts, receipts')
        /\ Keeps(associations, associations')
    BY <1>0, <2>1, EvolvedApart DEF Keeps
  <2>3. Ids(cases') \cap drawn \subseteq Ids(cases)
    BY <1>0, <2>1, EvolvedApart, RewriteApart
  <2>4. UNCHANGED submissions \/ UNCHANGED associations
    <3>1. Changes(p)
      BY <1>0, <1>1, Moves
    <3>2. CASE WriteSubmission(p)
      BY <3>2 DEF WriteSubmission
    <3>3. CASE \E id \in SubmissionId : UnlinkSubmission(p, id)
      BY <3>3 DEF UnlinkSubmission
    <3> QED BY <3>1, <3>2, <3>3 DEF Changes
  <2> QED BY <1>0, <1>1, <2>2, <2>3, <2>4, DrawnGrows
<1>2. CASE RemoveAbandonedLock \/ UNCHANGED vars
  <2>1. UNCHANGED <<submissions, receipts, associations, cases, drawn>>
    BY <1>2 DEF RemoveAbandonedLock, vars, records
  <2> QED BY <1>0, <2>1 DEF Keeps, UniqueIds
<1> QED BY <1>1, <1>2 DEF Next

\* The statement that association show was asked for.
ChainRead == view.op = "association" => Asked(view.of)

\* What is known of the statement that was asked for stays known.
LEMMA AskedStays ==
  ASSUME HistoryInv, [Next]_vars, NEW a, Asked(a)
  PROVE  Asked(a)'
<1>0. IdentityInv /\ Nil \notin AssociationId
  BY ConstantsAssumption DEF HistoryInv, ChainInv
<1>1. /\ Keeps(associations, associations') /\ drawn \subseteq drawn'
  BY <1>0, RecordsMove
<1>2. ASSUME NEW b \in associations', b.id = a.id PROVE b = a
  <2>1. b.id \in Ids(associations) /\ b.id \in drawn
    BY <1>1, <1>2 DEF Keeps, Asked, Ids
  <2> QED BY <1>1, <1>2, <2>1 DEF Keeps, Asked, Ids
<1>3. ASSUME NEW b \in associations', b.supersedes = a.id PROVE b.receipt = a.receipt
  <2>1. ASSUME NEW p \in Proc, Step(p) \/ Crash(p) PROVE b.receipt = a.receipt
    <3>1. CASE associations' \subseteq associations
      BY <1>3, <3>1 DEF Asked
    <3>2. ASSUME NEW new, associations' = associations \cup {new},
                 new.supersedes # Nil =>
                   \E c \in associations : c.id = new.supersedes /\ c.receipt = new.receipt
          PROVE  b.receipt = a.receipt
      BY <1>0, <1>3, <3>2 DEF Asked, Association
    <3> QED BY <2>1, <3>1, <3>2, StatementWritten
  <2>2. CASE RemoveAbandonedLock \/ UNCHANGED vars
    <3>1. UNCHANGED associations
      BY <2>2 DEF RemoveAbandonedLock, vars, records
    <3> QED BY <1>3, <3>1 DEF Asked
  <2> QED BY <2>1, <2>2 DEF Next
<1> QED BY <1>1, <1>2, <1>3 DEF Asked

----------------------------------------------------------------------------
(* What a view has read *)

\* archive status: the submissions it listed are there or were unanswered when
\* they went, and those that were unanswered all along are among them.
StatusRead ==
  view.op = "status" /\ view.read \in 2..3 =>
    /\ stood \subseteq Ids(view.seen.submission)
    /\ Ids(view.seen.submission) \subseteq Ids(submissions) \cup held

\* case show: what it listed of submissions is not to be had otherwise later,
\* and what it listed of statements was so when it listed them.
CaseRead ==
  view.op = "case" =>
    /\ view.read \in 1..2 =>
         /\ \E s \in view.seen.submission : s.case = view.of
         /\ \A s \in view.seen.submission :
              s.id \in drawn /\ \A t \in submissions : t.id = s.id => t = s
         /\ \A told \in stood : told[2] \in view.seen.submission
    /\ view.read = 2 =>
         /\ \A told \in stood : told[1] \in Live(view.seen.association)
         /\ \A a \in Live(view.seen.association), s \in view.seen.submission :
              s.case = view.of /\ s.id \in Named(a) => <<a, s>> \in held

\* search: what stands of a kind it has listed was in the listing.
SearchRead ==
  view.op = "search" =>
    /\ \A kind \in Listed : Ids(view.seen[kind]) \subseteq held
    /\ \A k \in 1..view.read :
         stood \cap Ids(OnDisk[view.of[k]]) \subseteq Ids(view.seen[view.of[k]])

HasRead == StatusRead /\ CaseRead /\ SearchRead /\ ChainRead

Watched ==
  stood \subseteq Holding(view.op, view.of) /\ Holding(view.op, view.of) \subseteq held

ViewInv ==
  /\ HistoryInv /\ AssociationInv /\ ViewShape
  /\ Viewing => Watched /\ HasRead
  /\ NothingOverlooked /\ NothingMadeUp

\* What a view is to say, one kind of view at a time.
LEMMA HoldingIs ==
  ASSUME NEW of
  PROVE  /\ Holding("status", of) = Ids({s \in submissions : ~AnsweredNow(s)})
         /\ Holding("search", of) = UNION {Ids(OnDisk[of[k]]) : k \in DOMAIN of}
         /\ \A told : told \in Holding("case", of) <=>
              /\ told \in associations \X submissions
              /\ told[2].case = of /\ told[2].id \in Named(told[1])
              /\ HeadNow(told[1]) /\ told[1].receipt \in Ids(receipts)
         /\ Holding("submission", of) =
              {<<a, IF HeadNow(a) THEN "live" ELSE "superseded">> :
                 a \in {b \in associations : of \in Named(b)}}
         /\ Holding("receipt", of) = {a \in associations : a.receipt = of}
         /\ Holding("association", of) =
              (ChainNow(of) \X {"chain"})
                 \cup {<<a, "live">> : a \in {of} \cap {b \in associations : HeadNow(b)}}
BY DEF Holding

\* A submission that was listed and went was unanswered when it went: what
\* names a submission goes before it.
LEMMA StatusStays ==
  ASSUME ViewInv, Viewing, UNCHANGED view, [Next]_vars, ViewWatches, AssociationsIntact'
  PROVE  StatusRead'
<1> SUFFICES ASSUME view.op = "status", view.read \in 2..3
             PROVE  /\ stood' \subseteq Ids(view.seen.submission)
                    /\ Ids(view.seen.submission) \subseteq Ids(submissions') \cup held'
  BY DEF StatusRead
<1>0. /\ stood \subseteq Ids(view.seen.submission)
      /\ Ids(view.seen.submission) \subseteq Ids(submissions) \cup held
      /\ Ids({s \in submissions : ~AnsweredNow(s)}) \subseteq held
      /\ stood' \subseteq stood /\ held \subseteq held'
  BY HoldingIs DEF ViewInv, HasRead, StatusRead, Watched, ViewWatches
<1>1. IdentityInv
  BY DEF ViewInv, HistoryInv, ChainInv
<1>2. UNCHANGED submissions \/ UNCHANGED associations
  BY <1>1, RecordsMove
<1>3. ASSUME NEW s \in submissions, s.id \notin Ids(submissions'), UNCHANGED associations
      PROVE  s.id \in held
  <2>1. ~AnsweredNow(s)
    BY <1>3 DEF AssociationsIntact, AnsweredNow, Named
  <2> QED BY <1>0, <2>1 DEF Ids
<1> QED BY <1>0, <1>2, <1>3 DEF Ids

\* What case show listed of submissions stays as it was, where it stays.
LEMMA CaseStays ==
  ASSUME ViewInv, Viewing, UNCHANGED view, [Next]_vars, ViewWatches
  PROVE  CaseRead'
<1> SUFFICES ASSUME view.op = "case" PROVE CaseRead'
  BY DEF CaseRead
<1>0. CaseRead /\ stood' \subseteq stood /\ held \subseteq held'
  BY DEF ViewInv, HasRead, ViewWatches
<1>1. Keeps(submissions, submissions') /\ drawn \subseteq drawn'
  BY RecordsMove DEF ViewInv, HistoryInv, ChainInv
<1>2. ASSUME view.read \in 1..2, NEW s \in view.seen.submission
      PROVE  s.id \in drawn' /\ \A t \in submissions' : t.id = s.id => t = s
  <2>1. s.id \in drawn /\ \A t \in submissions : t.id = s.id => t = s
    BY <1>0, <1>2 DEF CaseRead
  <2>2. ASSUME NEW t \in submissions', t.id = s.id PROVE t = s
    BY <1>1, <2>1, <2>2 DEF Keeps, Ids
  <2> QED BY <1>1, <2>1, <2>2
<1> QED BY <1>0, <1>2 DEF CaseRead, Live

\* No document comes back, so nothing that stands moves to a listed kind.
LEMMA SearchStays ==
  ASSUME ViewInv, Viewing, UNCHANGED view, [Next]_vars, ViewWatches
  PROVE  SearchRead'
<1> SUFFICES ASSUME view.op = "search" PROVE SearchRead'
  BY DEF SearchRead
<1>0. /\ SearchRead /\ stood' \subseteq stood /\ held \subseteq held'
      /\ stood \subseteq Holding("search", view.of) /\ view.of \in Searches
      /\ view.read \in 0..(Len(view.of) - 1)
  BY DEF ViewInv, HasRead, Watched, ViewWatches, ViewShape, ReadsOf
<1>1. /\ Keeps(submissions, submissions') /\ Keeps(receipts, receipts')
      /\ Keeps(associations, associations') /\ Ids(cases') \cap drawn \subseteq Ids(cases)
      /\ UniqueIds(submissions) /\ UniqueIds(receipts) /\ UniqueIds(associations)
      /\ UniqueIds(cases)
  BY RecordsMove DEF ViewInv, HistoryInv, ChainInv, IdentityInv, IdsUnique
<1>2. \A kind \in Listed : /\ Ids(OnDisk[kind]) \subseteq drawn
                           /\ Ids(OnDisk'[kind]) \cap drawn \subseteq Ids(OnDisk[kind])
  BY <1>1 DEF Listed, OnDisk, Keeps, UniqueIds
<1>3. stood \subseteq drawn
  <2>1. Holding("search", view.of) = UNION {Ids(OnDisk[view.of[k]]) : k \in DOMAIN view.of}
    BY HoldingIs
  <2>2. \A k \in DOMAIN view.of : Ids(OnDisk[view.of[k]]) \subseteq drawn
    BY <1>0, <1>2, SearchesAre
  <2> QED BY <1>0, <2>1, <2>2
<1>4. ASSUME NEW k \in 1..view.read
      PROVE  stood' \cap Ids(OnDisk'[view.of[k]]) \subseteq Ids(view.seen[view.of[k]])
  <2>1. view.of[k] \in Listed
    BY <1>0, SearchesAre
  <2>2. stood \cap Ids(OnDisk[view.of[k]]) \subseteq Ids(view.seen[view.of[k]])
    BY <1>0 DEF SearchRead
  <2> QED BY <1>0, <1>2, <1>3, <2>1, <2>2
<1> QED BY <1>0, <1>4 DEF SearchRead

\* A step of a command beside a reading keeps the invariant.
LEMMA WatchStep ==
  ASSUME ViewInv, [Next]_vars, ViewWatches, "association" \notin Unlistable
  PROVE  ViewInv'
<1>1. HistoryInv' /\ AssociationInv'
  BY StepHistoryInv, StepAssociationInv DEF ViewInv
<1>2. CASE Viewing
  <2>1. /\ UNCHANGED view /\ stood' = stood \cap Holding(view.op, view.of)'
        /\ held' = held \cup Holding(view.op, view.of)'
    BY <1>2 DEF ViewWatches
  <2>2. ViewShape' /\ Viewing'
    BY <1>2, <2>1 DEF ViewInv, ViewShape, Viewing, Reads, ReadsOf, Searches, KindOrder, Listed
  <2>3. Watched'
    BY <2>1 DEF Watched
  <2>4. ChainRead'
    BY <1>2, <2>1, AskedStays DEF ViewInv, HasRead, ChainRead
  <2>5. HasRead'
    BY <1>1, <1>2, <2>1, <2>4, StatusStays, CaseStays, SearchStays DEF HasRead, AssociationInv
  <2>6. ~Shown'
    BY <2>2 DEF Viewing, Shown
  <2> QED BY <1>1, <2>2, <2>3, <2>5, <2>6 DEF ViewInv, NothingOverlooked, NothingMadeUp
<1>3. CASE ~Viewing
  <2>1. view' = NoView
    BY <1>3 DEF ViewWatches
  <2>2. ViewShape' /\ ~Viewing' /\ ~Shown'
    BY <2>1 DEF ViewShape, NoView, Unseen, Listed, Viewing, Shown
  <2> QED BY <1>1, <2>2 DEF ViewInv, NothingOverlooked, NothingMadeUp
<1> QED BY <1>2, <1>3

----------------------------------------------------------------------------
(* A reading: it changes nothing of the archive *)

\* What a view is to say does not change while no command moves.
LEMMA HoldingSame ==
  ASSUME UNCHANGED vars
  PROVE  Holding(view.op, view.of)' = Holding(view'.op, view'.of)
<1>1. UNCHANGED <<submissions, receipts, associations, cases>>
  BY DEF vars, records
<1> QED BY <1>1 DEF Holding, AnsweredNow, HeadNow, ChainNow, Whole, OnDisk, Supersedes, Named, Ids

\* Every directory a view reads can be listed.
Readable == {"submission", "receipt", "association"} \cap Unlistable = {}

\* In an archive whose directories can be read, a listing is the directory.
LEMMA ListingIs ==
  ASSUME ViewShape, Viewing, Readable, List(NextKind)
  PROVE  /\ view'.seen[NextKind] = OnDisk[NextKind]
         /\ \A kind \in Listed \ {NextKind} : view'.seen[kind] = view.seen[kind]
         /\ view'.op = view.op /\ view'.of = view.of /\ view'.read = view.read + 1
         /\ Shown' => Last(view') /\ view'.shown = Answer(view.op, view.of, view'.seen)
         /\ Shown' \/ (~Last(view') /\ view'.at = "reading")
<1>1. NextKind \in Listed
  BY NextKindListed
<1>2. NextKind \notin Unlistable
  BY <1>1, ConstantsAssumption DEF Listed, Readable, Kinds
<1>3. view'.seen[NextKind] = OnDisk[NextKind]
  BY <1>2, ListReads DEF Listings
<1> QED BY <1>3, ListReads DEF Shown

\* A statement is the latest word where nothing supersedes it.
LEMMA LiveIsHead == Live(associations) = {a \in associations : HeadNow(a)}
BY DEF Live, HeadNow, Superseded, Supersedes

\* What a listing of a view has to keep: the archive is as it was, and the
\* reading goes on or has come to its answer.
Reading(op) ==
  /\ ViewInv /\ Viewing /\ view.op = op /\ Readable /\ List(NextKind)
  /\ UNCHANGED <<vars, stood, held>>

Right == NothingOverlooked /\ NothingMadeUp

\* archive status: each listing keeps what it is to keep, and the last one
\* gives the right answer.
LEMMA StatusListed ==
  ASSUME Reading("status")
  PROVE  StatusRead' /\ Right'
<1> USE DEF Reading
<1>0. /\ ViewShape /\ StatusRead /\ Watched /\ UNCHANGED <<submissions, associations>>
      /\ view.read \in 0..3 /\ NextKind = Reads["status"][view.read + 1]
  <2>1. ViewShape /\ StatusRead /\ Watched
    BY DEF ViewInv, HasRead
  <2>2. UNCHANGED <<submissions, associations>>
    BY DEF vars, records
  <2>3. ReadsOf(view.op, view.of) = Reads["status"]
    BY DEF ReadsOf
  <2>4. view.read \in 0..3
    <3>1. view.read \in 0..(Len(ReadsOf(view.op, view.of)) - 1)
      BY <2>1 DEF ViewShape
    <3>2. Len(ReadsOf(view.op, view.of)) = 4
      BY <2>3, ReadsAre
    <3>3. view.read \in 0..(4 - 1)
      BY <3>1, <3>2, Zenon
    <3> QED BY <3>3
  <2> QED BY <2>1, <2>2, <2>3, <2>4 DEF NextKind
<1>1. /\ view'.seen[NextKind] = OnDisk[NextKind]
      /\ \A kind \in Listed \ {NextKind} : view'.seen[kind] = view.seen[kind]
      /\ view'.op = "status" /\ view'.read = view.read + 1
      /\ Shown' => view'.shown = Reminders(view'.seen.submission, view'.seen.association)
      /\ Shown' => view'.read = 4
  BY <1>0, ListingIs, ReadsAre DEF Answer, Last, ReadsOf
<1>2. /\ stood \subseteq Ids({s \in submissions : ~AnsweredNow(s)})
      /\ Ids({s \in submissions : ~AnsweredNow(s)}) \subseteq held
  BY <1>0, HoldingIs DEF Watched
<1>3. CASE view.read = 0
  BY <1>1, <1>3 DEF StatusRead, Right, NothingOverlooked, NothingMadeUp
<1>4. CASE view.read = 1
  <2>1. view'.seen.submission = submissions
    BY <1>0, <1>1, <1>4, ReadsAre DEF OnDisk
  <2>2. stood \subseteq Ids(submissions)
    BY <1>2 DEF Ids
  <2> QED BY <1>0, <1>1, <1>4, <2>1, <2>2 DEF StatusRead, Right, NothingOverlooked, NothingMadeUp
<1>5. CASE view.read = 2
  <2>1. view'.seen.submission = view.seen.submission
    BY <1>0, <1>1, <1>5, ReadsAre DEF Listed
  <2> QED BY <1>0, <1>1, <1>5, <2>1 DEF StatusRead, Right, NothingOverlooked, NothingMadeUp
<1>6. CASE view.read = 3
  <2>1. view'.seen.submission = view.seen.submission /\ view'.seen.association = associations
    BY <1>0, <1>1, <1>6, ReadsAre DEF Listed, OnDisk
  <2>2. /\ stood \subseteq Ids(view.seen.submission)
        /\ Ids(view.seen.submission) \subseteq Ids(submissions) \cup held
    BY <1>0, <1>6 DEF StatusRead
  <2>3. Reminders(view.seen.submission, associations) =
          {id \in Ids(view.seen.submission) : \A a \in associations : HeadNow(a) => id \notin Named(a)}
    BY LiveIsHead DEF Reminders, Naming
  <2>4. stood \subseteq Reminders(view.seen.submission, associations)
    BY <1>2, <2>2, <2>3 DEF Ids, AnsweredNow
  <2>5. Reminders(view.seen.submission, associations) \subseteq held
    BY <1>2, <2>2, <2>3 DEF Ids, AnsweredNow
  <2> QED BY <1>1, <1>6, <2>1, <2>4, <2>5 DEF StatusRead, Right, NothingOverlooked, NothingMadeUp
<1> QED BY <1>0, <1>3, <1>4, <1>5, <1>6

\* case show: the same, of three listings or of one for a case without
\* submissions.
LEMMA CaseListed ==
  ASSUME Reading("case")
  PROVE  (~Shown => CaseRead)' /\ Right'
<1> USE DEF Reading
<1>0. /\ ViewShape /\ CaseRead /\ Watched /\ AssociationsIntact /\ UniqueIds(submissions)
      /\ UNCHANGED <<submissions, receipts, associations, drawn>>
      /\ view.read \in 0..2 /\ NextKind = Reads["case"][view.read + 1]
  <2>1. ViewShape /\ CaseRead /\ Watched /\ AssociationsIntact /\ UniqueIds(submissions)
    BY DEF ViewInv, HasRead, AssociationInv, IdentityInv, IdsUnique
  <2>2. UNCHANGED <<submissions, receipts, associations, drawn>>
    BY DEF vars, records
  <2>3. ReadsOf(view.op, view.of) = Reads["case"]
    BY DEF ReadsOf
  <2>4. view.read \in 0..2
    <3>1. view.read \in 0..(Len(ReadsOf(view.op, view.of)) - 1)
      BY <2>1 DEF ViewShape
    <3>2. Len(ReadsOf(view.op, view.of)) = 3
      BY <2>3, ReadsAre
    <3>3. view.read \in 0..(3 - 1)
      BY <3>1, <3>2, Zenon
    <3> QED BY <3>3
  <2> QED BY <2>1, <2>2, <2>3, <2>4 DEF NextKind
<1>1. /\ view'.seen[NextKind] = OnDisk[NextKind]
      /\ \A kind \in Listed \ {NextKind} : view'.seen[kind] = view.seen[kind]
      /\ view'.op = "case" /\ view'.of = view.of /\ view'.read = view.read + 1
      /\ Shown' => view'.shown = CaseReceipts(view.of, view'.seen.submission,
                                              view'.seen.association, view'.seen.receipt)
      /\ Shown' => view'.read = 3 \/ \A s \in view'.seen.submission : s.case # view.of
      /\ Shown' \/ \E s \in view'.seen.submission : s.case = view.of
  BY <1>0, ListingIs, ReadsAre DEF Answer, Last, ReadsOf
<1>2. \A told : told \in CaseReceipts(view.of, view'.seen.submission,
                                      view'.seen.association, view'.seen.receipt) <=>
        /\ told \in Live(view'.seen.association) \X view'.seen.submission
        /\ told[2].case = view.of /\ told[2].id \in Named(told[1])
        /\ told[1].receipt \in Ids(view'.seen.receipt)
  BY DEF CaseReceipts
<1>3. /\ \A told \in stood :
           /\ told \in associations \X submissions
           /\ told[2].case = view.of /\ told[2].id \in Named(told[1])
           /\ HeadNow(told[1]) /\ told[1].receipt \in Ids(receipts)
      /\ \A a \in associations, s \in submissions :
           s.case = view.of /\ s.id \in Named(a) /\ HeadNow(a) /\ a.receipt \in Ids(receipts)
             => <<a, s>> \in held
  BY <1>0, HoldingIs DEF Watched
<1>4. CASE view.read = 0
  <2>1. view'.seen.submission = submissions
    BY <1>0, <1>1, <1>4, ReadsAre DEF OnDisk
  <2>2. \A s \in submissions : s.id \in drawn /\ \A t \in submissions : t.id = s.id => t = s
    BY <1>0 DEF UniqueIds, Ids
  <2>3. \A told \in stood : told[2] \in submissions
    BY <1>3
  <2>4. Shown' => view'.shown = {} /\ stood = {}
    BY <1>1, <1>2, <1>3, <1>4, <2>1
  <2>5. Right'
    BY <2>4 DEF Right, NothingOverlooked, NothingMadeUp
  <2>6. ~Shown' => CaseRead'
    BY <1>0, <1>1, <1>4, <2>1, <2>2, <2>3 DEF CaseRead
  <2> QED BY <2>5, <2>6
<1>5. CASE view.read = 1
  <2>1. view'.seen.submission = view.seen.submission /\ view'.seen.association = associations
    BY <1>0, <1>1, <1>5, ReadsAre DEF Listed, OnDisk
  <2>2. /\ \E s \in view.seen.submission : s.case = view.of
        /\ \A s \in view.seen.submission :
             s.id \in drawn /\ \A t \in submissions : t.id = s.id => t = s
        /\ \A told \in stood : told[2] \in view.seen.submission
    BY <1>0, <1>5 DEF CaseRead
  <2>3. \A told \in stood : told[1] \in Live(associations)
    BY <1>3, LiveIsHead
  <2>4. ASSUME NEW a \in Live(associations), NEW s \in view.seen.submission,
               s.case = view.of, s.id \in Named(a)
        PROVE  <<a, s>> \in held
    <3>1. a \in associations /\ HeadNow(a)
      BY LiveIsHead
    <3>2. s \in submissions /\ a.receipt \in Ids(receipts)
      BY <1>0, <2>2, <2>4, <3>1 DEF AssociationsIntact, Named, Ids
    <3> QED BY <1>3, <2>4, <3>1, <3>2
  <2>5. ~Shown'
    BY <1>1, <1>5, <2>1, <2>2
  <2> QED BY <1>0, <1>1, <1>5, <2>1, <2>2, <2>3, <2>4, <2>5
    DEF Right, NothingOverlooked, NothingMadeUp, CaseRead, Live
<1>6. CASE view.read = 2
  <2>1. /\ view'.seen.submission = view.seen.submission
        /\ view'.seen.association = view.seen.association /\ view'.seen.receipt = receipts
    BY <1>0, <1>1, <1>6, ReadsAre DEF Listed, OnDisk
  <2>2. /\ \A told \in stood : told[2] \in view.seen.submission
        /\ \A told \in stood : told[1] \in Live(view.seen.association)
        /\ \A a \in Live(view.seen.association), s \in view.seen.submission :
             s.case = view.of /\ s.id \in Named(a) => <<a, s>> \in held
    BY <1>0, <1>6 DEF CaseRead
  <2> DEFINE said == CaseReceipts(view.of, view'.seen.submission,
                                  view'.seen.association, view'.seen.receipt)
  <2>3. stood \subseteq said
    <3> SUFFICES ASSUME NEW told \in stood PROVE told \in said
      OBVIOUS
    <3>1. told = <<told[1], told[2]>>
      BY <1>3
    <3>2. told \in Live(view.seen.association) \X view.seen.submission
      BY <2>2, <3>1
    <3> QED BY <1>2, <1>3, <2>1, <3>2
  <2>4. said \subseteq held
    <3> SUFFICES ASSUME NEW told \in said PROVE told \in held
      OBVIOUS
    <3>1. /\ told \in Live(view.seen.association) \X view.seen.submission
          /\ told[2].case = view.of /\ told[2].id \in Named(told[1])
      BY <1>2, <2>1
    <3>2. told = <<told[1], told[2]>>
      BY <3>1
    <3> QED BY <2>2, <3>1, <3>2
  <2> HIDE DEF said
  <2>5. Shown' => view'.shown = said
    BY <1>1 DEF said
  <2> QED BY <1>0, <1>1, <1>6, <2>3, <2>4, <2>5 DEF Right, NothingOverlooked, NothingMadeUp, CaseRead
<1> QED BY <1>0, <1>4, <1>5, <1>6

\* search: the same, of as many listings as kinds were asked for.
LEMMA SearchListed ==
  ASSUME Reading("search")
  PROVE  SearchRead' /\ Right'
<1> USE DEF Reading
<1>0. /\ ViewShape /\ SearchRead /\ Watched /\ view.of \in Searches
      /\ UNCHANGED <<cases, submissions, receipts, associations>>
      /\ ReadsOf(view.op, view.of) = view.of
      /\ view.read \in 0..(Len(view.of) - 1) /\ NextKind = view.of[view.read + 1]
  <2>1. ViewShape /\ SearchRead /\ Watched
    BY DEF ViewInv, HasRead
  <2>2. UNCHANGED <<cases, submissions, receipts, associations>>
    BY DEF vars, records
  <2>3. ReadsOf(view.op, view.of) = view.of /\ view.of \in Searches
    BY <2>1 DEF ReadsOf, ViewShape
  <2>4. view.read \in 0..(Len(view.of) - 1)
    BY <2>1, <2>3 DEF ViewShape
  <2> QED BY <2>1, <2>2, <2>3, <2>4 DEF NextKind
<1>1. /\ Len(view.of) \in Nat \ {0} /\ DOMAIN view.of = 1..Len(view.of)
      /\ \A k \in 1..Len(view.of) : view.of[k] \in Listed
  BY <1>0, SearchesAre
<1>2. /\ view'.seen[NextKind] = OnDisk[NextKind]
      /\ \A kind \in Listed \ {NextKind} : view'.seen[kind] = view.seen[kind]
      /\ view'.op = "search" /\ view'.of = view.of /\ view'.read = view.read + 1
      /\ DOMAIN view'.seen = Listed
      /\ Shown' => view'.shown = UNION {Ids(view'.seen[kind]) : kind \in DOMAIN view'.seen}
      /\ Shown' => view'.read = Len(view.of)
  BY <1>0, ListingIs, ListReads DEF Answer, Last, ReadsOf
<1>3. NextKind \in Listed /\ view.read + 1 \in 1..Len(view.of) /\ OnDisk' = OnDisk
  BY <1>0, <1>1 DEF OnDisk
<1>4. /\ UNION {Ids(OnDisk[view.of[k]]) : k \in DOMAIN view.of} \subseteq held
      /\ stood \subseteq UNION {Ids(OnDisk[view.of[k]]) : k \in DOMAIN view.of}
  <2>1. Holding("search", view.of) = UNION {Ids(OnDisk[view.of[k]]) : k \in DOMAIN view.of}
    BY HoldingIs
  <2> QED BY <1>0, <2>1 DEF Watched
<1>5. \A kind \in Listed : Ids(view'.seen[kind]) \subseteq held
  <2>1. Ids(OnDisk[NextKind]) \subseteq held
    BY <1>0, <1>1, <1>3, <1>4
  <2> QED BY <1>0, <1>2, <2>1 DEF SearchRead
<1>6. ASSUME NEW k \in 1..view'.read
      PROVE  stood \cap Ids(OnDisk[view.of[k]]) \subseteq Ids(view'.seen[view.of[k]])
  <2>1. CASE view.of[k] = NextKind
    BY <1>2, <2>1
  <2>2. CASE view.of[k] # NextKind
    <3>1. k \in 1..view.read /\ view.of[k] \in Listed
      BY <1>0, <1>1, <1>2, <1>6, <2>2
    <3> QED BY <1>0, <1>2, <2>2, <3>1 DEF SearchRead
  <2> QED BY <2>1, <2>2
<1>7. SearchRead'
  BY <1>2, <1>3, <1>5, <1>6 DEF SearchRead
<1>8. ASSUME Shown' PROVE stood \subseteq view'.shown /\ view'.shown \subseteq held
  <2>1. view'.shown = UNION {Ids(view'.seen[kind]) : kind \in Listed}
    BY <1>2, <1>8
  <2>2. view'.shown \subseteq held
    BY <1>5, <2>1
  <2>3. ASSUME NEW id \in stood PROVE id \in view'.shown
    <3>1. PICK k \in 1..Len(view.of) : id \in Ids(OnDisk[view.of[k]])
      BY <1>1, <1>4
    <3>2. k \in 1..view'.read /\ view.of[k] \in Listed
      BY <1>1, <1>2, <1>8
    <3> QED BY <1>6, <2>1, <3>1, <3>2
  <2> QED BY <2>2, <2>3
<1> QED BY <1>7, <1>8 DEF Right, NothingOverlooked, NothingMadeUp

\* A view that lists one directory answers from that moment.  What association
\* show says beyond it is of a statement that is gone.
LEMMA OneListed ==
  ASSUME NEW op \in {"submission", "receipt", "association"}, Reading(op)
  PROVE  Right'
<1> USE DEF Reading
<1>0. /\ ViewShape /\ HistoryInv /\ Watched /\ ChainRead
  BY DEF ViewInv, HasRead
<1>1. /\ view.op = op /\ ReadsOf(view.op, view.of) = Reads[op]
      /\ Len(Reads[op]) = 1 /\ Reads[op][1] = "association"
  BY ReadsAre DEF ReadsOf
<1>2. view.read = 0 /\ NextKind = "association"
  <2>1. view.read \in 0..(Len(ReadsOf(view.op, view.of)) - 1)
    BY <1>0 DEF ViewShape
  <2> QED BY <1>1, <2>1 DEF NextKind
<1>3. /\ view'.seen.association = associations /\ view'.op = op /\ view'.of = view.of
      /\ Shown' => view'.shown = Answer(op, view.of, view'.seen)
  BY <1>0, <1>1, <1>2, ListingIs DEF OnDisk
<1>4. stood \subseteq Holding(op, view.of) /\ Holding(op, view.of) \subseteq held
  BY <1>0, <1>1 DEF Watched
<1>5. CASE op = "submission"
  <2>1. Answer(op, view.of, view'.seen) = Assertions(view.of, associations)
    BY <1>3, <1>5 DEF Answer
  <2>2. Assertions(view.of, associations) = Holding(op, view.of)
    <3>1. Holding(op, view.of) =
            {<<a, IF HeadNow(a) THEN "live" ELSE "superseded">> :
               a \in {b \in associations : view.of \in Named(b)}}
      BY <1>5, HoldingIs
    <3>2. \A a \in associations : a \in Live(associations) <=> HeadNow(a)
      BY LiveIsHead
    <3> QED BY <3>1, <3>2 DEF Assertions, Naming
  <2> QED BY <1>3, <1>4, <2>1, <2>2 DEF Right, NothingOverlooked, NothingMadeUp
<1>6. CASE op = "receipt"
  <2>1. Answer(op, view.of, view'.seen) = HistoryOf(view.of, associations)
    BY <1>3, <1>6 DEF Answer
  <2>2. HistoryOf(view.of, associations) = Holding(op, view.of)
    BY <1>6, HoldingIs DEF HistoryOf
  <2> QED BY <1>3, <1>4, <2>1, <2>2 DEF Right, NothingOverlooked, NothingMadeUp
<1>7. CASE op = "association"
  <2> DEFINE history == HistoryOf(view.of.receipt, associations)
             alive == {<<a, "live">> : a \in {view.of} \cap {b \in associations : HeadNow(b)}}
  <2>1. Answer(op, view.of, view'.seen) = ShownChain(view.of, history)
    BY <1>3, <1>7 DEF Answer
  <2>2. Asked(view.of)
    BY <1>0, <1>1, <1>7 DEF ChainRead
  <2>3. ChainOf(view.of.id, history) = ChainNow(view.of)
    BY <1>0, <2>2, ChainOfReceipt
  <2>4. Superseded(history, view.of) <=> Superseded(associations, view.of)
    BY <2>2 DEF Superseded, HistoryOf, Asked
  <2>5. Holding(op, view.of) = (ChainNow(view.of) \X {"chain"}) \cup alive
    BY <1>7, HoldingIs
  <2>6. alive = IF view.of \in associations /\ ~Superseded(associations, view.of)
                THEN {<<view.of, "live">>} ELSE {}
    BY DEF HeadNow, Superseded, Supersedes
  <2> HIDE DEF history, alive
  <2>7. ShownChain(view.of, history) =
          (ChainNow(view.of) \X {"chain"})
             \cup IF Superseded(associations, view.of) THEN {} ELSE {<<view.of, "live">>}
    BY <2>3, <2>4 DEF ShownChain
  <2>8. Holding(op, view.of) \subseteq ShownChain(view.of, history)
    BY <2>5, <2>6, <2>7
  <2>9. ShownChain(view.of, history) \subseteq Holding(op, view.of) \cup MistakenlyLive'
    <3>1. view.of \notin associations => MistakenlyLive' = {<<view.of, "live">>}
      BY <1>3, <1>7 DEF MistakenlyLive
    <3> QED BY <2>5, <2>6, <2>7, <3>1
  <2> QED BY <1>3, <1>4, <2>1, <2>8, <2>9 DEF Right, NothingOverlooked, NothingMadeUp
<1> QED BY <1>5, <1>6, <1>7

\* A listing keeps the shape of a view, and what it was to say.
LEMMA ListingKeeps ==
  ASSUME ViewInv, Viewing, Readable, List(NextKind), UNCHANGED <<vars, stood, held>>
  PROVE  ViewShape' /\ Watched'
<1>0. /\ ViewShape /\ Watched /\ view.op \in DOMAIN Reads \cup {"search"}
      /\ view.op = "search" => view.of \in Searches
      /\ view.read \in 0..(Len(ReadsOf(view.op, view.of)) - 1)
      /\ Len(ReadsOf(view.op, view.of)) \in Nat
  BY NextKindListed DEF ViewInv, ViewShape
<1>1. /\ DOMAIN view' = DOMAIN view /\ DOMAIN view'.seen = Listed
      /\ view'.op = view.op /\ view'.of = view.of /\ view'.read = view.read + 1
      /\ view'.at \in {"reading", "shown"}
      /\ view'.at = "reading" => ~Last(view')
  BY <1>0, ListReads
<1>2. view'.at = "reading" => view'.read # Len(ReadsOf(view.op, view.of))
  BY <1>1 DEF Last
<1>3. view'.at = "reading" => view'.read \in 0..(Len(ReadsOf(view.op, view.of)) - 1)
  BY <1>0, <1>1, <1>2
<1>4. ViewShape'
  <2>1. Reads' = Reads /\ Searches' = Searches /\ Listed' = Listed
    BY DEF Reads, Searches, KindOrder, Listed
  <2>2. ReadsOf(view.op, view.of)' = ReadsOf(view.op, view.of)
    BY <1>1 DEF ReadsOf, Reads
  <2> QED BY <1>0, <1>1, <1>3, <2>1, <2>2 DEF ViewShape, Viewing
<1>5. Holding(view.op, view.of)' = Holding(view.op, view.of)
  BY <1>1, HoldingSame
<1> QED BY <1>0, <1>4, <1>5 DEF Watched

\* A listing, or its refusal, keeps the invariant.
LEMMA ReadStep ==
  ASSUME ViewInv, Readable, ReadNext, UNCHANGED <<vars, stood, held>>
  PROVE  ViewInv'
<1>1. HistoryInv' /\ AssociationInv'
  BY StepHistoryInv, StepAssociationInv DEF ViewInv, Readable
<1>2. Viewing /\ (List(NextKind) \/ Refused)
  BY DEF ReadNext, NextKind
<1>3. CASE Refused
  <2>1. view' = NoView
    BY <1>3 DEF Refused
  <2>2. ViewShape' /\ ~Viewing' /\ ~Shown'
    BY <2>1 DEF ViewShape, NoView, Unseen, Listed, Viewing, Shown
  <2> QED BY <1>1, <2>2 DEF ViewInv, NothingOverlooked, NothingMadeUp
<1>4. CASE List(NextKind)
  <2>1. ViewShape' /\ Watched'
    BY <1>2, <1>4, ListingKeeps
  <2>2. view'.op = view.op /\ view'.of = view.of
    BY <1>2, <1>4, ListReads DEF ViewInv
  <2>3. ChainRead'
    BY <1>2, <2>2, AskedStays DEF ViewInv, HasRead, ChainRead
  <2>4. Viewing' => ~Shown'
    BY DEF Viewing, Shown
  <2>5. Reading(view.op)
    BY <1>2, <1>4 DEF Reading
  <2>6. /\ StatusRead' \/ view.op = "status"
        /\ CaseRead' \/ view.op = "case"
        /\ SearchRead' \/ view.op = "search"
    BY <2>2 DEF StatusRead, CaseRead, SearchRead
  <2>7. CASE view.op = "status"
    BY <1>1, <2>1, <2>3, <2>5, <2>6, <2>7, StatusListed DEF ViewInv, HasRead, Right
  <2>8. CASE view.op = "case"
    BY <1>1, <2>1, <2>3, <2>4, <2>5, <2>6, <2>8, CaseListed DEF ViewInv, HasRead, Right
  <2>9. CASE view.op = "search"
    BY <1>1, <2>1, <2>3, <2>5, <2>6, <2>9, SearchListed DEF ViewInv, HasRead, Right
  <2>10. CASE view.op \in {"submission", "receipt", "association"}
    BY <1>1, <2>1, <2>3, <2>5, <2>6, <2>10, OneListed DEF ViewInv, HasRead, Right
  <2> QED BY <1>2, <2>7, <2>8, <2>9, <2>10, ReadsAre DEF ViewInv, ViewShape
<1> QED BY <1>2, <1>3, <1>4

\* A view that begins has said nothing and read nothing.
LEMMA Begins ==
  ASSUME ViewInv, UNCHANGED vars, HistoryInv', AssociationInv', NEW op, NEW of, Begin(op, of),
         op \in DOMAIN Reads \cup {"search"}, op = "search" => of \in Searches,
         op = "association" => of \in associations
  PROVE  ViewInv'
<1>1. /\ view' = [NoView EXCEPT !.at = "reading", !.op = op, !.of = of]
      /\ stood' = Holding(op, of) /\ held' = Holding(op, of)
  BY DEF Begin
<1>2. /\ DOMAIN view' = {"at", "op", "of", "read", "seen", "shown"}
      /\ view'.at = "reading" /\ view'.op = op /\ view'.of = of /\ view'.read = 0
      /\ view'.seen = Unseen
  BY <1>1 DEF NoView
<1>3. ReadsOf(op, of) = ReadsOf(view.op, view.of)' /\ Len(ReadsOf(op, of)) \in Nat \ {0}
  <2>1. Reads' = Reads
    BY DEF Reads
  <2>2. ReadsOf(op, of) = ReadsOf(view.op, view.of)'
    BY <1>2, <2>1 DEF ReadsOf
  <2>3. CASE op = "search"
    BY <2>2, <2>3, SearchesAre DEF ReadsOf
  <2>4. CASE op # "search"
    <3>1. Len(Reads[op]) \in {1, 3, 4}
      BY <2>4, ReadsAre
    <3>2. ReadsOf(op, of) = Reads[op]
      BY <2>4 DEF ReadsOf
    <3>3. \A n \in {1, 3, 4} : n \in Nat \ {0}
      OBVIOUS
    <3>4. Len(ReadsOf(op, of)) \in Nat \ {0}
      BY <3>1, <3>2, <3>3, Zenon
    <3> QED BY <2>2, <3>4
  <2> QED BY <2>3, <2>4
<1>4. ViewShape'
  <2>1. 0 \in 0..(Len(ReadsOf(op, of)) - 1)
    BY <1>3
  <2>2. DOMAIN Unseen = Listed
    BY DEF Unseen, Listed
  <2>3. Reads' = Reads /\ Searches' = Searches /\ Listed' = Listed
    BY DEF Reads, Searches, KindOrder, Listed
  <2> QED BY <1>2, <1>3, <2>1, <2>2, <2>3 DEF ViewShape
<1>5. Watched'
  <2>1. Holding(view.op, view.of)' = Holding(op, of)
    BY <1>2, HoldingSame
  <2> QED BY <1>1, <2>1 DEF Watched
<1>6. ChainRead'
  <2>1. UNCHANGED <<associations, drawn>>
    BY DEF vars, records
  <2>2. ASSUME of \in associations PROVE Asked(of)
    BY <2>2 DEF ViewInv, HistoryInv, ChainInv, IdentityInv, IdsUnique, UniqueIds, Ids, LockInv,
                TypeInv, TypeOK, Tied, Supersedes, Asked
  <2> QED BY <1>2, <2>1, <2>2 DEF ChainRead, Asked
<1>7. StatusRead' /\ CaseRead' /\ SearchRead'
  <2>1. \A kind \in Listed : Unseen[kind] = {}
    BY DEF Unseen, Listed
  <2> QED BY <1>2, <2>1 DEF StatusRead, CaseRead, SearchRead, Ids
<1>8. ~Shown'
  BY <1>2 DEF Shown
<1> QED BY <1>4, <1>5, <1>6, <1>7, <1>8 DEF ViewInv, HasRead, NothingOverlooked, NothingMadeUp

\* Each of the views begins so.
LEMMA BeginStep ==
  ASSUME ViewInv, "association" \notin Unlistable, BeginView, UNCHANGED vars
  PROVE  ViewInv'
<1>1. HistoryInv' /\ AssociationInv'
  BY StepHistoryInv, StepAssociationInv DEF ViewInv
<1>2. PICK op \in DOMAIN Reads \cup {"search"} :
        \E of : /\ Begin(op, of)
                /\ op = "search" => of \in Searches
                /\ op = "association" => of \in associations
  BY ReadsAre DEF BeginView
<1> QED BY <1>1, <1>2, Begins

----------------------------------------------------------------------------
(* The views *)

\* At first nothing is read.
LEMMA ViewInitHolds == Init /\ ViewInit => ViewInv
<1> SUFFICES ASSUME Init, ViewInit PROVE ViewInv
  OBVIOUS
<1>1. ViewShape /\ ~Viewing /\ ~Shown
  BY DEF ViewInit, ViewShape, NoView, Unseen, Listed, Viewing, Shown
<1>2. AssociationInv
  BY InitIdentityInv DEF Init, AssociationInv, AssociationsIntact, AssociationHeld
<1> QED BY <1>1, <1>2, InitHistoryInv DEF ViewInv, NothingOverlooked, NothingMadeUp

\* Every step of ViewSpec keeps the invariant.
LEMMA ViewStepHolds ==
  ASSUME Readable
  PROVE  ViewInv /\ [(Next /\ ViewWatches) \/ ViewMoves]_<<vars, viewVars>> => ViewInv'
<1> SUFFICES ASSUME ViewInv, [(Next /\ ViewWatches) \/ ViewMoves]_<<vars, viewVars>>
             PROVE  ViewInv'
  OBVIOUS
<1>0. "association" \notin Unlistable
  BY DEF Readable
<1>1. CASE Next /\ ViewWatches
  BY <1>0, <1>1, WatchStep
<1>2. CASE ViewMoves
  BY <1>0, <1>2, BeginStep, ReadStep DEF ViewMoves
<1>3. CASE UNCHANGED <<vars, viewVars>>
  <2>1. HistoryInv' /\ AssociationInv'
    BY <1>0, <1>3, StepHistoryInv, StepAssociationInv DEF ViewInv
  <2>2. Holding(view.op, view.of)' = Holding(view.op, view.of)
    BY <1>3, HoldingSame DEF viewVars
  <2> QED
    BY <1>3, <2>1, <2>2 DEF vars, records, viewVars, ViewInv, ViewShape, Watched, HasRead,
       StatusRead, CaseRead, SearchRead, ChainRead, Asked, OnDisk, NothingOverlooked,
       NothingMadeUp, MistakenlyLive, Shown, Viewing
<1> QED BY <1>1, <1>2, <1>3

\* status, show, list and search: what was so from the beginning of a reading
\* to its end is in the answer, whatever commands did between its listings.
THEOREM ViewsOverlookNothing ==
  ASSUME Readable
  PROVE  ViewSpec => []NothingOverlooked
<1>1. ViewInv => NothingOverlooked
  BY DEF ViewInv
<1> QED BY <1>1, ViewInitHolds, ViewStepHolds, PTL DEF ViewSpec

\* The same readings: nothing is in an answer that was not so at some moment
\* of the reading, a withdrawn statement that is gone apart.
THEOREM ViewsMakeNothingUp ==
  ASSUME Readable
  PROVE  ViewSpec => []NothingMadeUp
<1>1. ViewInv => NothingMadeUp
  BY DEF ViewInv
<1> QED BY <1>1, ViewInitHolds, ViewStepHolds, PTL DEF ViewSpec
=============================================================================
