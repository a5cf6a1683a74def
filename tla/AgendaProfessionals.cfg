\* Two professionals, one slot: who ends up on whose agenda.
CONSTANTS
  Professional = {p1, p2}
  Appt = {a1, a2}
  Block = {}
  Req = {r1, r2}
  Horizon = 2
  DayLength = 3
  Duration = {2}
  None = None
SPECIFICATION Spec
SYMMETRY Symmetry
CHECK_DEADLOCK FALSE
INVARIANTS OverlapOnlyConcurrent
PROPERTIES CancelIsFinal
