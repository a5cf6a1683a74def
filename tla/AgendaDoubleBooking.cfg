\* The comment "conflict check" is not kept: two requests check, then both write.
CONSTANTS
  Professional = {p1}
  Appt = {a1, a2}
  Block = {}
  Req = {r1, r2}
  Horizon = 2
  DayLength = 3
  Duration = {2}
  None = None
SPECIFICATION Spec
CHECK_DEADLOCK FALSE
INVARIANT NoDoubleBooking
