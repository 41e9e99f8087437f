CONSTANTS
  Path = {record, case, object}
  Rewritable = {case}
  ObjectPath = {object}
  Inode = {i1, i2, i3}
  Reader = {r}
  Parts = 2
  Nil = Nil
  Torn = Torn
SPECIFICATION Spec
INVARIANTS
  ReportedIsDurable
