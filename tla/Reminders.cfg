\* Two passes on two instances, a lease of two minutes, pages of two rows; the
\* appointment may be booked, confirmed, canceled and moved once in between.
CONSTANTS
  Appt = {a1}
  Job <- FourJobs
  Worker = {w1, w2}
  Token = {t1, t2}
  Ttl = 2
  Start <- TwoStarts
  Offset <- OffsetThree
  Grace = 1
  Tolerance = 1
  Stagger = 1
  Batch = 2
  Horizon = 4
  MaxMoves = 1
  MaxPasses = 2
  None = None
SPECIFICATION Spec
SYMMETRY Symmetry
CHECK_DEADLOCK FALSE
INVARIANTS TwiceOnlyUnsure EverySlotHasJobs
PROPERTIES ReminderIsCurrent NeverTogether
