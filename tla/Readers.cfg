CONSTANTS
  c1 = c1  s1 = s1  r1 = r1  a1 = a1  a2 = a2  a3 = a3  e1 = e1  d1 = d1  open = open
  Proc = {p1}
  Digest = {d1}
  CaseId = {c1}
  SubmissionId = {s1}
  ReceiptId = {r1}
  AssociationId = {a1, a2, a3}
  EventId = {e1}
  Status = {open}
  Nil = Nil
  Free = Free
  Abandoned = Abandoned
  MaxFiles = 1
  Ops = {"import", "retire", "delete"}
  MayCrash = TRUE
  MayRefuse = FALSE
  Unlistable = {}
  Unread = {"import_event", "directory", "object"}
SPECIFICATION ReadersSpec
INVARIANTS
  CheckTypeOK
  StandingDamageReported
  NothingInvented
  OnlyLeftoversReported
  NothingOverlooked
  NothingMadeUp
PROPERTIES
  LockComesBack
