---------------------------- MODULE MCSessions ----------------------------
(* Small instances of Sessions for TLC.                                    *)
EXTENDS Sessions, TLC

\* Calls are only compared for equality.
Symmetry == Permutations(Calls)

\* Bound: one lock that runs out, one token that is never listed; both excuse
\* what follows.
FewMishaps == Cardinality(overrun) <= 1 /\ Cardinality(unlisted) <= 1

MCSessionsSpec == SessionsInit /\ [][SessionsNext /\ FewMishaps']_sessionVars
=============================================================================
