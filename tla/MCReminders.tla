---------------------------- MODULE MCReminders ----------------------------
(* Small instances of Reminders for TLC.                                   *)
EXTENDS Reminders, TLC

\* Two slots whose reminders are due in the first and the second minute.
TwoStarts == {4, 5}
OneStart == {11}
OffsetThree == {3}
OffsetTen == {10}
FourJobs == 1 .. 4
TwoJobs == 1 .. 2

Symmetry == Permutations(Worker) \cup Permutations(Token)
=============================================================================
