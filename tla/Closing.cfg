\* Two instances, two appointments, pages of one row, one write of the
\* api-gateway at any moment.
CONSTANTS
  Appt <- TwoAppointments
  Professional = {p1, p2}
  Worker = {w1, w2}
  Horizon = 1
  Grace = 0
  Batch = 1
  MaxQueue = 1
  MaxWrites = 1
  None = None
SPECIFICATION FairSpec
CHECK_DEADLOCK FALSE
INVARIANTS CompletedIsPaid ExactlyOneIncome FewLeftBehind
PROPERTIES DueIsClosed
