CONSTANTS
  Proc = {p1, p2}
  Copied = {"root", "marker", "object", "cached"}
  Absent = Absent
SPECIFICATION Spec
INVARIANTS
  SetupTypeOK
  InitOwnsMarker
  LayoutWhole
  RepairSuffices
PROPERTIES
  NothingWidens
