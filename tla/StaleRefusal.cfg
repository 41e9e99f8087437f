CONSTANTS
  EventId = {1, 2}
  Digest = {d1, d2}
  Time = {1, 2}
  Malformed = {bad}
  Staged = {leftover}
  Nil = Nil
  Absent = Absent
  MaxFiles = 2
SPECIFICATION ModesSpec
INVARIANTS
  RefusesAsScan
