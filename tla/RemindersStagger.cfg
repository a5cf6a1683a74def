\* The constants of the code: five minutes of grace, three of tolerance, two of
\* stagger.  A pass three minutes late pushes the WhatsApp out of the tolerance.
CONSTANTS
  Appt = {a1}
  Job <- TwoJobs
  Worker = {w1}
  Token = {t1}
  Ttl = 2
  Start <- OneStart
  Offset <- OffsetTen
  Grace = 5
  Tolerance = 3
  Stagger = 2
  Batch = 300
  Horizon = 8
  MaxMoves = 0
  MaxPasses = 2
  None = None
SPECIFICATION Spec
CHECK_DEADLOCK FALSE
INVARIANTS SkippedOnlyIfMoved
