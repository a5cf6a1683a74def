------------------------------ MODULE MCAgenda ------------------------------
(* Small instances of Agenda for TLC.                                      *)
EXTENDS Agenda, TLC

\* Rows, professionals and requests are only compared for equality.
Symmetry == Permutations(Appt) \cup Permutations(Block)
              \cup Permutations(Req) \cup Permutations(Professional)

\* Bound of the runs about multi-day blocks: no appointment is moved.
NoMoves == \A r \in Req : req[r].op \notin Moving
=============================================================================
