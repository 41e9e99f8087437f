----------------------------- MODULE MCTransfer -----------------------------
(***************************************************************************)
(* Transfer started from a filed archive: one case, its submission, and a  *)
(* receipt about which nothing was stated, or something, or something that *)
(* was withdrawn since.                                                    *)
(***************************************************************************)
EXTENDS Transfer

CONSTANTS c1, s1, r1, a1, a2, e1, e2, d1, d2, open

Statement  == [id |-> a1, receipt |-> r1, candidates |-> {s1}, supersedes |-> Nil]
Withdrawal == [id |-> a2, receipt |-> r1, candidates |-> {}, supersedes |-> a1]

Filed ==
  /\ lock = Free
  /\ objects = {d1, d2}
  /\ events = {[id |-> e1, digest |-> d1], [id |-> e2, digest |-> d2]}
  /\ cases = {[id |-> c1, status |-> open]}
  /\ submissions = {[id |-> s1, case |-> c1, artefacts |-> {d1}]}
  /\ receipts = {[id |-> r1, artefact |-> d2, event |-> e2]}
  /\ associations \in {{}, {Statement}, {Statement, Withdrawal}}
  /\ derived = {}
  /\ drawn = {c1, s1, r1, a1, a2, e1, e2}
  /\ pc    = [p \in Proc |-> "idle"]
  /\ todo  = [p \in Proc |-> <<>>]
  /\ draft = [p \in Proc |-> Nil]
  /\ plan  = [p \in Proc |-> NoPlan]
  /\ strandedRecords = {} /\ strandedObjects = {}
  /\ bundle = Absent /\ exporter = NoExport /\ withdrawn = {} /\ restorer = NoRestore

FiledTransferSpec == Filed /\ [][TransferNext]_allVars
=============================================================================
