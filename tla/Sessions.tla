------------------------------ MODULE Sessions ------------------------------
(***************************************************************************)
(* The refresh tokens of one user: TokenService, and the handlers that     *)
(* call it (login, refresh, logout, logout of all devices, the sign-on     *)
(* link from the application to the web portal).                           *)
(*                                                                         *)
(* Every Redis command is a step of its own.  All calls of an instance of  *)
(* the api-gateway share one Redis connection, hence one set of watched    *)
(* keys: EXEC and UNWATCH of any call end the watch of every other.        *)
(* Tokens are numbered in the order in which they are signed.  A token     *)
(* names its user and its key, so the comparison with the stored hash      *)
(* never fails for a token the service signed and is left out.             *)
(***************************************************************************)
EXTENDS Integers, FiniteSets

CONSTANTS
    Calls,      \* requests being served
    MaxTokens,  \* bound: tokens signed
    MaxLinks,   \* bound: sign-on links
    MaxCalls,   \* bound: calls served
    NoOne       \* no owner, no call

ASSUME BoundsAssumption == MaxTokens \in Nat /\ MaxLinks \in Nat /\ MaxCalls \in Nat

VARIABLES
    signed,   \* number of tokens signed
    store,    \* tokens whose key refresh:<jti> exists
    members,  \* the set refresh:user:<id>
    lock,     \* the owner of lock:refresh:<jti>
    watched,  \* keys the connection watches
    dirty,    \* a watched key was changed
    call,     \* what each call is doing
    served,   \* number of calls taken on
    links,    \* sign-on links created and not consumed
    made,     \* number of links made
    handed,   \* tokens whose owner has received them
    parent,   \* the token a token was rotated from (0: a login)
    revoked,  \* tokens a logout has removed
    overrun,  \* tokens whose lock expired while a rotation held it
    unlisted, \* tokens stored whose call died before it listed them
    blinded   \* calls whose watch was ended by another call

sessionVars == <<signed, store, members, lock, watched, dirty, call, served,
                 links, made, handed, parent, revoked, overrun, unlisted, blinded>>

Tokens == 1..MaxTokens
Places == {"get", "delete", "unlist", "store", "list", "watch", "compare",
           "exec", "fallback", "unwatch", "revoke", "forget", "members", "sweep", "drop"}

Call == [at : Places, old : Tokens \cup {0}, new : Tokens \cup {0},
         todo : SUBSET Tokens, late : BOOLEAN]

ASSUME NoOneAssumption == NoOne \notin Calls \cup Call

SessionsTypeOK ==
    /\ signed \in 0..MaxTokens /\ made \in 0..MaxLinks /\ served \in 0..MaxCalls
    /\ store \subseteq Tokens /\ members \subseteq Tokens /\ handed \subseteq Tokens
    /\ lock \in [Tokens -> Calls \cup {NoOne}]
    /\ watched \subseteq Tokens /\ dirty \in BOOLEAN
    /\ \A c \in Calls : call[c] = NoOne \/ call[c] \in Call
    /\ links \subseteq 1..MaxLinks
    /\ parent \in [Tokens -> Tokens \cup {0}]
    /\ revoked \subseteq Tokens /\ overrun \subseteq Tokens
    /\ unlisted \subseteq Tokens /\ blinded \subseteq Calls

SessionsInit ==
    /\ signed = 0 /\ made = 0 /\ served = 0
    /\ store = {} /\ members = {} /\ handed = {}
    /\ lock = [t \in Tokens |-> NoOne]
    /\ watched = {} /\ dirty = FALSE
    /\ call = [c \in Calls |-> NoOne]
    /\ links = {}
    /\ parent = [t \in Tokens |-> 0]
    /\ revoked = {} /\ overrun = {} /\ unlisted = {} /\ blinded = {}

Is(c, place) == call[c] # NoOne /\ call[c].at = place
Goto(c, place) ==
    call' = [call EXCEPT ![c].at = place] /\ UNCHANGED served
Done(c) == call' = [call EXCEPT ![c] = NoOne] /\ UNCHANGED served
Enter(c, place, old, new, todo) ==
    /\ call[c] = NoOne /\ served < MaxCalls
    /\ served' = served + 1
    /\ call' = [call EXCEPT ![c] =
          [at |-> place, old |-> old, new |-> new, todo |-> todo,
           late |-> old \in revoked]]

-----------------------------------------------------------------------------
(* signAndStoreRefreshToken, for a login or at the end of a rotation.      *)

Sign(from) ==
    /\ signed < MaxTokens
    /\ signed' = signed + 1
    /\ parent' = [parent EXCEPT ![signed + 1] = from]

(* Login of the professional or the client, once the password was right.   *)
Login(c) ==
    /\ Sign(0)
    /\ Enter(c, "store", 0, signed + 1, {})
    /\ UNCHANGED <<store, members, lock, watched, dirty, links, made, handed,
                   revoked, overrun, unlisted, blinded>>

StoreToken(c) ==
    /\ Is(c, "store")
    /\ store' = store \cup {call[c].new}
    /\ Goto(c, "list")
    /\ UNCHANGED <<signed, members, lock, watched, dirty, links, made, handed,
                   parent, revoked, overrun, unlisted, blinded>>

(* The token is listed under its user; a login answers, a rotation goes on *)
(* to release its lock.                                                    *)
ListToken(c) ==
    /\ Is(c, "list")
    /\ members' = members \cup {call[c].new}
    /\ handed' = handed \cup {call[c].new}
    /\ IF call[c].old = 0 THEN Done(c) ELSE Goto(c, "watch")
    /\ UNCHANGED <<signed, store, lock, watched, dirty, links, made, parent,
                   revoked, overrun, unlisted, blinded>>

-----------------------------------------------------------------------------
(* rotateRefreshToken.                                                     *)

\* Mutant: nobody looks at the answer of SET NX.
LockIgnored(t) == TRUE

LockIsFree(t) == lock[t] = NoOne

(* SET NX EX; without the lock the client is told to try again.            *)
Rotate(c, t) ==
    /\ LockIsFree(t)
    /\ Enter(c, "get", t, 0, {})
    /\ lock' = [lock EXCEPT ![t] = c]
    /\ dirty' = (dirty \/ t \in watched)
    /\ UNCHANGED <<signed, store, members, watched, links, made, handed,
                   parent, revoked, overrun, unlisted, blinded>>

GetToken(c) ==
    /\ Is(c, "get")
    /\ Goto(c, IF call[c].old \in store THEN "delete" ELSE "watch")
    /\ UNCHANGED <<signed, store, members, lock, watched, dirty, links, made,
                   handed, parent, revoked, overrun, unlisted, blinded>>

DeleteOld(c) ==
    /\ Is(c, "delete")
    /\ store' = store \ {call[c].old}
    /\ Goto(c, "unlist")
    /\ UNCHANGED <<signed, members, lock, watched, dirty, links, made, handed,
                   parent, revoked, overrun, unlisted, blinded>>

(* The old token leaves the set and the new one is signed.                 *)
UnlistOld(c) ==
    /\ Is(c, "unlist")
    /\ members' = members \ {call[c].old}
    /\ Sign(call[c].old)
    /\ call' = [call EXCEPT ![c].at = "store", ![c].new = signed + 1]
    /\ UNCHANGED <<served, store, lock, watched, dirty, links, made, handed, revoked,
                   overrun, unlisted, blinded>>

-----------------------------------------------------------------------------
(* releaseJtiLock: WATCH, GET, MULTI DEL EXEC, UNWATCH.                    *)

Watch(c) ==
    /\ Is(c, "watch")
    /\ watched' = watched \cup {call[c].old}
    /\ blinded' = blinded \ {c}
    /\ Goto(c, "compare")
    /\ UNCHANGED <<signed, store, members, lock, dirty, links, made, handed,
                   parent, revoked, overrun, unlisted>>

Compare(c) ==
    /\ Is(c, "compare")
    /\ Goto(c, IF lock[call[c].old] = c THEN "exec" ELSE "unwatch")
    /\ UNCHANGED <<signed, store, members, lock, watched, dirty, links, made,
                   handed, parent, revoked, overrun, unlisted, blinded>>

(* Every other call that is between its WATCH and its EXEC loses its watch.*)
EndWatches(c) ==
    /\ watched' = {}
    /\ dirty' = FALSE
    /\ blinded' = blinded \cup {d \in Calls \ {c} : Is(d, "compare") \/ Is(d, "exec")}

\* Mutant: a plain DEL in place of the transaction.
Regardless == TRUE

Unchanged == ~dirty

Exec(c) ==
    /\ Is(c, "exec")
    /\ lock' = IF Unchanged THEN [lock EXCEPT ![call[c].old] = NoOne] ELSE lock
    /\ EndWatches(c)
    /\ Goto(c, "unwatch")
    /\ UNCHANGED <<signed, store, members, links, made, handed, parent,
                   revoked, overrun, unlisted>>

Unwatch(c) ==
    /\ Is(c, "unwatch")
    /\ EndWatches(c)
    /\ Done(c)
    /\ UNCHANGED <<signed, store, members, lock, links, made, handed, parent,
                   revoked, overrun, unlisted>>

(* An error in a rotation still releases the lock (finally).               *)
FailRotation(c) ==
    /\ call[c] # NoOne /\ call[c].old # 0
    /\ call[c].at \in {"get", "delete", "unlist", "store", "list"}
    /\ Goto(c, "watch")
    /\ unlisted' = IF Is(c, "list") THEN unlisted \cup {call[c].new} ELSE unlisted
    /\ UNCHANGED <<signed, store, members, lock, watched, dirty, links, made,
                   handed, parent, revoked, overrun, blinded>>

(* An error in a release: the lock is deleted whoever holds it.            *)
FailRelease(c) ==
    /\ call[c] # NoOne /\ call[c].at \in {"watch", "compare", "exec"}
    /\ Goto(c, "fallback")
    /\ UNCHANGED <<signed, store, members, lock, watched, dirty, links, made,
                   handed, parent, revoked, overrun, unlisted, blinded>>

Fallback(c) ==
    /\ Is(c, "fallback")
    /\ lock' = [lock EXCEPT ![call[c].old] = NoOne]
    /\ dirty' = (dirty \/ (lock[call[c].old] # NoOne /\ call[c].old \in watched))
    /\ Goto(c, "unwatch")
    /\ UNCHANGED <<signed, store, members, watched, links, made, handed, parent,
                   revoked, overrun, unlisted, blinded>>

(* The lock's five seconds are over.                                       *)
LockExpires(t) ==
    /\ lock[t] # NoOne
    /\ lock' = [lock EXCEPT ![t] = NoOne]
    /\ dirty' = (dirty \/ t \in watched)
    /\ overrun' = IF call[lock[t]] # NoOne /\ call[lock[t]].old = t
                  THEN overrun \cup {t} ELSE overrun
    /\ UNCHANGED <<signed, store, members, watched, call, served, links, made, handed,
                   parent, revoked, unlisted, blinded>>

-----------------------------------------------------------------------------
(* Logout.                                                                 *)

(* revokeByRefreshToken: the key, then the set.                            *)
Logout(c, t) ==
    /\ Enter(c, "revoke", t, 0, {})
    /\ UNCHANGED <<signed, store, members, lock, watched, dirty, links, made,
                   handed, parent, revoked, overrun, unlisted, blinded>>

\* Mutant: the set first, so that a call that dies leaves a key no list names.
RevokeMemberFirst(c) ==
    /\ Is(c, "revoke")
    /\ members' = members \ {call[c].old}
    /\ Goto(c, "forget")
    /\ UNCHANGED <<signed, store, lock, watched, dirty, links, made, handed,
                   parent, revoked, overrun, unlisted, blinded>>

RevokeKey(c) ==
    /\ Is(c, "revoke")
    /\ store' = store \ {call[c].old}
    /\ revoked' = revoked \cup {call[c].old}
    /\ Goto(c, "forget")
    /\ UNCHANGED <<signed, members, lock, watched, dirty, links, made, handed,
                   parent, overrun, unlisted, blinded>>

RevokeMember(c) ==
    /\ Is(c, "forget")
    /\ members' = members \ {call[c].old}
    /\ Done(c)
    /\ UNCHANGED <<signed, store, lock, watched, dirty, links, made, handed,
                   parent, revoked, overrun, unlisted, blinded>>

(* revokeAllForUser: SMEMBERS once, then a DEL and a SREM for each.        *)
LogoutAll(c) ==
    /\ Enter(c, "sweep", 0, 0, members)
    /\ UNCHANGED <<signed, store, members, lock, watched, dirty, links, made,
                   handed, parent, revoked, overrun, unlisted, blinded>>

SweepKey(c) ==
    /\ Is(c, "sweep")
    /\ IF call[c].todo = {}
       THEN Done(c) /\ UNCHANGED <<store, revoked>>
       ELSE \E t \in call[c].todo :
              /\ store' = store \ {t}
              /\ revoked' = revoked \cup {t}
              /\ call' = [call EXCEPT ![c].at = "drop", ![c].old = t]
              /\ UNCHANGED served
    /\ UNCHANGED <<signed, members, lock, watched, dirty, links, made, handed,
                   parent, overrun, unlisted, blinded>>

SweepMember(c) ==
    /\ Is(c, "drop")
    /\ members' = members \ {call[c].old}
    /\ call' = [call EXCEPT ![c].at = "sweep", ![c].old = 0,
                            ![c].todo = call[c].todo \ {call[c].old}]
    /\ UNCHANGED <<served, signed, store, lock, watched, dirty, links, made, handed,
                   parent, revoked, overrun, unlisted, blinded>>

-----------------------------------------------------------------------------
(* The sign-on link: one random code in Redis; a script reads and deletes  *)
(* it at once, and the browser gets a session of its own.                  *)
CreateLink ==
    /\ made < MaxLinks
    /\ made' = made + 1
    /\ links' = links \cup {made + 1}
    /\ UNCHANGED <<signed, store, members, lock, watched, dirty, call, served, handed,
                   parent, revoked, overrun, unlisted, blinded>>

ConsumeLink(c, l) ==
    /\ l \in links
    /\ links' = links \ {l}
    /\ Sign(0)
    /\ Enter(c, "store", 0, signed + 1, {})
    /\ UNCHANGED <<store, members, lock, watched, dirty, made, handed, revoked,
                   overrun, unlisted, blinded>>

LinkExpires(l) ==
    /\ l \in links
    /\ links' = links \ {l}
    /\ UNCHANGED <<signed, store, members, lock, watched, dirty, call, served, made,
                   handed, parent, revoked, overrun, unlisted, blinded>>

(* A call ends with an error that nothing handles, or its process dies.    *)
Die(c) ==
    /\ call[c] # NoOne
    /\ Done(c)
    /\ unlisted' = IF Is(c, "list") THEN unlisted \cup {call[c].new} ELSE unlisted
    /\ UNCHANGED <<signed, store, members, lock, watched, dirty, links, made,
                   handed, parent, revoked, overrun, blinded>>

SessionsNext ==
    \/ \E c \in Calls :
         \/ Login(c) \/ StoreToken(c) \/ ListToken(c)
         \/ GetToken(c) \/ DeleteOld(c) \/ UnlistOld(c)
         \/ Watch(c) \/ Compare(c) \/ Exec(c) \/ Unwatch(c)
         \/ FailRotation(c) \/ FailRelease(c) \/ Fallback(c)
         \/ RevokeKey(c) \/ RevokeMember(c)
         \/ LogoutAll(c) \/ SweepKey(c) \/ SweepMember(c)
         \/ Die(c)
         \/ \E t \in handed : Rotate(c, t) \/ Logout(c, t)
         \/ \E l \in links : ConsumeLink(c, l)
    \/ \E t \in Tokens : LockExpires(t)
    \/ CreateLink \/ \E l \in links : LinkExpires(l)

SessionsSpec == SessionsInit /\ [][SessionsNext]_sessionVars

-----------------------------------------------------------------------------
(* One token is exchanged for one token, however many clients present it   *)
(* at once.  The lock has five seconds and nothing renews it: a rotation   *)
(* that outlives it can be repeated.                                       *)
RotatedOnce ==
    \A t, u \in Tokens :
        t # u /\ parent[t] = parent[u] /\ parent[t] # 0 => parent[t] \in overrun

(* What a logout removed stays removed.  A rotation that read the key      *)
(* before still hands out its successor; one that starts after the removal *)
(* does not get past the read, although revokeAllForUser works on a        *)
(* snapshot and shares no lock with the rotations.                         *)
RevokedStaysRevoked ==
    \A c \in Calls : Is(c, "delete") => ~call[c].late

(* revokeAllForUser finds every live token: a key exists only while its    *)
(* token is in the set of the user, but for a token being issued and one   *)
(* whose call died between the key and the set.                            *)
LiveTokensListed ==
    \A t \in store :
        \/ t \in members \cup unlisted
        \/ \E c \in Calls : Is(c, "list") /\ call[c].new = t

(* Revoking reaches every token, and what it reached stays revoked.        *)
RevocationHolds == RevokedStaysRevoked /\ LiveTokensListed

(* The transaction of a release deletes the lock of another rotation only  *)
(* if its own expired and another release on the shared connection ended   *)
(* its watch: the comparison is stale by then and EXEC does not notice.    *)
ReleasesOwnLock ==
    [][\A c \in Calls :
          Is(c, "exec") /\ lock[call[c].old] # c
              /\ lock'[call[c].old] # lock[call[c].old]
              /\ call'[c] # call[c]
          => call[c].old \in overrun /\ c \in blinded]_sessionVars
=============================================================================
