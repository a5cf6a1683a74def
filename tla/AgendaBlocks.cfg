\* Two days that can be blocked, bookings of one and of two days.
CONSTANTS
  Professional = {p1}
  Appt = {a1}
  Block = {b1, b2}
  Req = {r1, r2}
  Horizon = 2
  DayLength = 1
  Duration = {1, 2}
  None = None
SPECIFICATION Spec
SYMMETRY Symmetry
CHECK_DEADLOCK FALSE
INVARIANTS BlockedOnlyConcurrent BlocksOverlapOnlyConcurrent
PROPERTIES UnblockTakesRun
CONSTRAINT NoMoves
