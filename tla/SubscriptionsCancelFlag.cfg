\* One instance handles three events in the order the store sent them.
CONSTANTS
  Worker = {w1}
  Row = {r1, r2}
  Trial = 1
  Period = 1
  Intro = {FALSE}
  Buffer = 0
  MaxEvents = 3
  MaxRepeats = 0
  Horizon = 2
SPECIFICATION Spec
SYMMETRY Symmetry
CHECK_DEADLOCK FALSE
INVARIANTS CancelFlagIsTrue
