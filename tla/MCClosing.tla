----------------------------- MODULE MCClosing -----------------------------
(* A small instance of Closing for TLC.                                    *)
EXTENDS Closing

\* Two appointments and pages of one row: one boundary inside a run.
TwoAppointments == 1 .. 2
=============================================================================
