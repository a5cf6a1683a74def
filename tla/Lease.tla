------------------------------- MODULE Lease -------------------------------
(***************************************************************************)
(* What a distributed lock with a time to live promises: it has at most    *)
(* one owner, and an owner loses it only by giving it back itself, by      *)
(* dying or by letting its time run out.  Every step names the worker that *)
(* makes it, so that one who comes too late (Idle) can not pass for the    *)
(* owner: the next owner keeps the lock, and the time he took it for.      *)
(***************************************************************************)
EXTENDS Naturals

CONSTANTS Worker, Ttl, Nobody, Dead

VARIABLES owner,  \* a worker, Nobody, or Dead: an owner that can not give it back
          left,   \* time until the lock is free by itself
          mover   \* the worker that made the last step; Nobody: time did

vars == <<owner, left, mover>>

Init == owner = Nobody /\ left = 0 /\ mover = Nobody

Take(p) == /\ owner = Nobody
           /\ owner' \in {p, Dead}
           /\ left' \in Ttl

Extend(p) == /\ owner = p
             /\ left' \in Ttl
             /\ UNCHANGED owner

Give(p) == /\ owner = p
           /\ owner' = Nobody
           /\ left' = 0

Die(p) == /\ owner = p
          /\ owner' = Dead
          /\ UNCHANGED left

\* Any other step of a worker: it waits, gives up, or no longer owns the lock.
Idle(p) == UNCHANGED <<owner, left>>

Pass == /\ left' = IF left > 0 THEN left - 1 ELSE 0
        /\ owner' = IF left = 1 THEN Nobody ELSE owner
        /\ mover' = Nobody

Next == \/ Pass
        \/ \E p \in Worker : /\ mover' = p
                             /\ Take(p) \/ Extend(p) \/ Give(p) \/ Die(p) \/ Idle(p)

Spec == Init /\ [][Next]_vars

=============================================================================
