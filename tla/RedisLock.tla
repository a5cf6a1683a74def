----------------------------- MODULE RedisLock -----------------------------
(***************************************************************************)
(* RedisLockService: a lock kept in one Redis key.  The key is set with    *)
(* SET NX EX and a random token; release and renew are Lua scripts that    *)
(* compare the token first.  Redis runs a command or a script at once, so  *)
(* each is one step; the worker that called may die around it.             *)
(* Jobs that use the lock are written in their own modules; here a holder  *)
(* does nothing but renew and release.                                     *)
(***************************************************************************)
EXTENDS Naturals

CONSTANTS
  Worker,    \* processes that use the lock
  Token,     \* values of randomUUID(), none used twice while it matters
  Ttl,       \* times to live that callers ask for
  MaxWait,   \* maxWaitMs of acquire
  None       \* no token; not waiting

ASSUME TtlAssumption == Ttl \subseteq Nat \ {0}
ASSUME WaitAssumption == MaxWait \in Nat
ASSUME TokenAssumption == None \notin Token \cup Nat
ASSUME WorkerAssumption == "nobody" \notin Worker /\ "dead" \notin Worker

VARIABLES
  key,       \* the Redis key: its token (None: no key) and its time to live
  handle,    \* the token in the handle a worker holds
  patience,  \* time a worker in acquire still waits
  actor      \* auxiliary: the worker that made the last step; Nobody: time did

vars == <<key, handle, patience, actor>>

Nobody == "nobody"
Dead == "dead"

NoKey == [token |-> None, left |-> 0]

TypeOK == /\ key \in [token : Token \cup {None}, left : Nat]
          /\ handle \in [Worker -> Token \cup {None}]
          /\ patience \in [Worker -> 0 .. MaxWait \cup {None}]
          /\ actor \in Worker \cup {Nobody}

Init == /\ key = NoKey
        /\ handle = [p \in Worker |-> None]
        /\ patience = [p \in Worker |-> None]
        /\ actor = Nobody

-----------------------------------------------------------------------------
Free == key.token = None
Fresh(t) == t # key.token /\ \A p \in Worker : handle[p] # t
Owns(p) == handle[p] # None /\ key.token = handle[p]

\* SET key token NX EX ttl, on a free key.
SetNx(t) == \E ttl \in Ttl : key' = [token |-> t, left |-> ttl]

\* A free key: the worker gets a handle, or dies (or loses the reply) after the
\* command ran and leaves a key nobody can release.
Grab(p) ==
  /\ Free
  /\ \E t \in Token : /\ Fresh(t)
                      /\ SetNx(t)
                      /\ handle' \in {handle, [handle EXCEPT ![p] = t]}
  /\ patience' = [patience EXCEPT ![p] = None]

\* On a key that is taken tryAcquire returns null and nothing changes.
TryAcquire(p) ==
  /\ handle[p] = None /\ patience[p] = None
  /\ Grab(p)

\* acquire: attempts go on until one succeeds or the deadline has passed.
Acquire(p) ==
  /\ handle[p] = None /\ patience[p] = None
  /\ patience' = [patience EXCEPT ![p] = MaxWait]
  /\ UNCHANGED <<key, handle>>

\* Mutant: the deadline is never looked at.
AttemptForever(p) == patience[p] # None /\ Grab(p)

Attempt(p) ==
  /\ patience[p] # None
  /\ \/ Grab(p)
     \/ /\ ~ Free
        /\ patience[p] = 0
        /\ patience' = [patience EXCEPT ![p] = None]
        /\ UNCHANGED <<key, handle>>

\* LUA_RENEW; callers ignore the result.
Renew(p) ==
  /\ handle[p] # None
  /\ IF Owns(p) THEN \E ttl \in Ttl : key' = [key EXCEPT !.left = ttl]
     ELSE UNCHANGED key
  /\ UNCHANGED <<handle, patience>>

\* Mutant: DEL without comparing the token.
ReleaseBlind(p) ==
  /\ handle[p] # None
  /\ key' = NoKey
  /\ handle' = [handle EXCEPT ![p] = None]
  /\ UNCHANGED patience

\* LUA_RELEASE: a key that meanwhile belongs to another is left alone.
Release(p) ==
  /\ handle[p] # None
  /\ key' = IF Owns(p) THEN NoKey ELSE key
  /\ handle' = [handle EXCEPT ![p] = None]
  /\ UNCHANGED patience

\* The worker dies, or its release fails: the handle is gone, the key stays.
Lose(p) ==
  /\ handle[p] # None \/ patience[p] # None
  /\ handle' = [handle EXCEPT ![p] = None]
  /\ patience' = [patience EXCEPT ![p] = None]
  /\ UNCHANGED key

\* Time passes: Redis expires the key, waiting workers approach their deadline.
Tick ==
  /\ key.left > 0 \/ \E p \in Worker : patience[p] \notin {None, 0}
  /\ key' = IF key.left > 1 THEN [key EXCEPT !.left = @ - 1]
            ELSE IF key.left = 1 THEN NoKey ELSE key
  /\ patience' = [p \in Worker |-> IF patience[p] \in {None, 0} THEN patience[p]
                                   ELSE patience[p] - 1]
  /\ actor' = Nobody
  /\ UNCHANGED handle

By(p) == actor' = p

Next == \/ Tick
        \/ \E p \in Worker : /\ By(p)
                             /\ \/ TryAcquire(p) \/ Acquire(p) \/ Attempt(p)
                                \/ Renew(p) \/ Release(p) \/ Lose(p)

Spec == Init /\ [][Next]_vars

\* Time passes, a worker that waits goes on trying.
Fairness == WF_vars(Tick) /\ \A p \in Worker : WF_vars(By(p) /\ Attempt(p))

FairSpec == Spec /\ Fairness

-----------------------------------------------------------------------------
\* The abstract lock behind the key: its owner is the worker whose handle holds
\* the key's token; a key whose token nobody holds belongs to the dead.
Owner == IF Free THEN Nobody
         ELSE IF \E p \in Worker : Owns(p) THEN CHOOSE p \in Worker : Owns(p)
         ELSE Dead

Promise == INSTANCE Lease WITH owner <- Owner, left <- key.left, mover <- actor

\* Whatever a worker does with the handle of a key it lost (a late renew, a late
\* release), it leaves the key alone, whoever has it now.
LateCallsDoNothing ==
  [][\A p \in Worker : By(p) /\ handle[p] # None /\ ~ Owns(p) => UNCHANGED key]_vars

\* The service keeps the promise of a lease: only the owner's own release or
\* death, or its time running out, ends its ownership, only the owner prolongs
\* it, and a call that comes too late never touches the next owner's key.
IsLease == Promise!Spec /\ LateCallsDoNothing

\* acquire gives up: no worker waits for ever on a key that others keep taking.
WaitEnds == \A p \in Worker : patience[p] # None ~> patience[p] = None

\* A key left behind by a dead worker does not block the job for ever.
DeadIsFreed == Owner = Dead ~> Owner # Dead

\* Nobody waits for the lock for ever, and no key is held for ever by the dead.
NobodyIsStuck == WaitEnds /\ DeadIsFreed

=============================================================================
