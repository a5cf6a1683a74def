\* Two instances handle three events, two rows, one repeated delivery.
CONSTANTS
  Worker = {w1, w2}
  Row = {r1, r2}
  Trial = 1
  Period = 1
  Intro = {TRUE}
  Buffer = 0
  MaxEvents = 3
  MaxRepeats = 1
  Horizon = 2
SPECIFICATION Spec
SYMMETRY Symmetry
CHECK_DEADLOCK FALSE
INVARIANTS NoFreeRide InSync OneSubscription
PROPERTIES SweepOnlyExpired
