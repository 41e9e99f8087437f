CONSTANTS
  c1 = c1  c2 = c2  s1 = s1  s2 = s2  r1 = r1  r2 = r2
  a1 = a1  a2 = a2  a3 = a3  e1 = e1  e2 = e2  d1 = d1  d2 = d2
  open = open
  Proc = {p1}
  Digest = {d1, d2}
  CaseId = {c1, c2}
  SubmissionId = {s1, s2}
  ReceiptId = {r1, r2}
  AssociationId = {a1, a2, a3}
  EventId = {e1, e2}
  Status = {open}
  Nil = Nil
  Free = Free
  Abandoned = Abandoned
  MaxFiles = 1
  Ops = {"delete"}
  MayCrash = FALSE
  MayRefuse = FALSE
  Unlistable = {"receipt"}
SPECIFICATION DeletionSpec
PROPERTIES
  PurgeTakesUnreferenced
