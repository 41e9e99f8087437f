CONSTANTS
  Proc = {p1, p2}
  Digest = {d1, d2}
  CaseId = {c1}
  SubmissionId = {s1}
  ReceiptId = {r1}
  AssociationId = {a1}
  EventId = {e1, e2}
  Status = {open, closed, retitled}
  Nil = Nil
  Free = Free
  Abandoned = Abandoned
  MaxFiles = 2
  Ops = {"import", "submission", "receipt", "association", "retire", "create_case", "update_case", "delete", "derive"}
  MayCrash = TRUE
  MayRefuse = TRUE
  Unlistable = {}
SPECIFICATION Spec
SYMMETRY Symmetry
INVARIANTS
  TypeOK
  WriterHoldsLock
  ObjectsRecorded
  ReferencesIntact
PROPERTIES
  WriteOnce
  NoLostUpdate
