CONSTANTS
  c1 = c1  s1 = s1  r1 = r1  a1 = a1  a2 = a2  e1 = e1  e2 = e2
  d1 = d1  d2 = d2  open = open
  Proc = {p1}
  Digest = {d1, d2}
  CaseId = {c1}
  SubmissionId = {s1}
  ReceiptId = {r1}
  AssociationId = {a1, a2}
  EventId = {e1, e2, e3}
  Status = {open}
  Nil = Nil
  Free = Free
  Abandoned = Abandoned
  MaxFiles = 1
  Ops = {"delete"}
  MayCrash = FALSE
  MayRefuse = FALSE
  Unlistable = {}
  Restorer = Restorer
  Everything = Everything
  Absent = Absent
  Partial = Partial
  MayFail = FALSE
  MayAlter = FALSE
SPECIFICATION FiledTransferSpec
INVARIANTS
  WithdrawnStaysOut
