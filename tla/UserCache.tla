----------------------------- MODULE UserCache -----------------------------
(***************************************************************************)
(* The cached user of the guards.  Every authenticated request first loads *)
(* its user through one Redis key that lives a day (RedisService); the     *)
(* handler then acts on that copy: its push token, its selected business,  *)
(* its name.  Registering a push token and selecting a business write the  *)
(* row and delete the key, both at once; editing the profile writes the    *)
(* row and leaves the key alone.                                           *)
(*                                                                         *)
(* One user; each query and each Redis command is a step of its own.       *)
(***************************************************************************)
EXTENDS Integers, FiniteSets

CONSTANTS
    Users,       \* requests of the user being served
    PushTokens, Businesses,
    Names,       \* names a user may have; NoName is one of them
    NoName,      \* a name that is empty or blank
    Missing      \* no key, no request

ASSUME NamesAssumption == NoName \in Names
VARIABLES
    stored,   \* the user's row with its selected business
    cached,   \* the Redis key
    request   \* what each request is doing

cacheVars == <<stored, cached, request>>

UserRow == [push : PushTokens, business : Businesses, name : Names]
Fields == {"push", "business", "name"}
Task == {"update", "clear"}

(* clean: no writer was at work while the copy was made.                   *)
Copy(x, clean) == [user |-> x, clean |-> clean]

Request ==
    [at : {"drop", "read", "fill", "handle", "work"}, user : UserRow, clean : BOOLEAN,
     field : Fields, value : UNION {PushTokens, Businesses, Names}, todo : SUBSET Task]

ASSUME RequestApart == Missing \notin Request

UserCacheTypeOK ==
    /\ stored \in UserRow
    /\ cached = Missing \/ cached \in [user : UserRow, clean : BOOLEAN]
    /\ \A c \in Users : request[c] = Missing \/ request[c] \in Request

UserCacheInit ==
    /\ stored \in UserRow
    /\ cached = Missing
    /\ request = [c \in Users |-> Missing]

On(c, place) == request[c] # Missing /\ request[c].at = place
Working == {c \in Users : On(c, "work")}

(* The request with nothing to write.                                      *)
Reading(place, x, clean) ==
    [at |-> place, user |-> x, clean |-> clean, field |-> "name", value |-> NoName, todo |-> {}]

-----------------------------------------------------------------------------
(* getCurrentUserProfessionalFromRequest and its twin for customers.       *)

Usable(x) == x.user.name # NoName

(* A hit is used if it has a name; any other value is deleted and read     *)
(* anew.                                                                   *)
Lookup(c) ==
    /\ request[c] = Missing
    /\ request' = [request EXCEPT ![c] =
          IF cached = Missing THEN Reading("read", stored, FALSE)
          ELSE IF Usable(cached) THEN Reading("handle", cached.user, cached.clean)
          ELSE Reading("drop", stored, FALSE)]
    /\ UNCHANGED <<stored, cached>>

DropKey(c) ==
    /\ On(c, "drop")
    /\ cached' = Missing
    /\ request' = [request EXCEPT ![c].at = "read"]
    /\ UNCHANGED stored

ReadUser(c) ==
    /\ On(c, "read")
    /\ request' = [request EXCEPT ![c] = Reading("fill", stored, Working = {})]
    /\ UNCHANGED <<stored, cached>>

FillKey(c) ==
    /\ On(c, "fill")
    /\ cached' = Copy(request[c].user, request[c].clean)
    /\ request' = [request EXCEPT ![c].at = "handle"]
    /\ UNCHANGED stored

KeyOfUserExpires ==
    /\ cached # Missing
    /\ cached' = Missing
    /\ UNCHANGED <<stored, request>>

-----------------------------------------------------------------------------
(* The handlers.                                                           *)

(* Every copy that is being made while c writes may miss the write.        *)
StartWriting(c, field, value, todo) ==
    request' = [d \in Users |->
        IF d = c THEN [request[c] EXCEPT !.at = "work", !.field = field,
                                         !.value = value, !.todo = todo]
        ELSE IF On(d, "fill") THEN [request[d] EXCEPT !.clean = FALSE]
        ELSE request[d]]

(* Nothing to do when the copy has that token already.                     *)
RegisterPushToken(c) ==
    /\ On(c, "handle")
    /\ \E p \in PushTokens \ {request[c].user.push} :
          StartWriting(c, "push", p, {"update", "clear"})
    /\ UNCHANGED <<stored, cached>>

\* Mutant: the selection does not delete the key.
SelectWithoutClear(c) ==
    /\ On(c, "handle")
    /\ \E b \in Businesses : StartWriting(c, "business", b, {"update"})
    /\ UNCHANGED <<stored, cached>>

SelectCurrentBusiness(c) ==
    /\ On(c, "handle")
    /\ \E b \in Businesses : StartWriting(c, "business", b, {"update", "clear"})
    /\ UNCHANGED <<stored, cached>>

(* An empty name is not written.                                           *)
EditProfile(c) ==
    /\ On(c, "handle")
    /\ \E n \in Names \ {NoName} : StartWriting(c, "name", n, {"update"})
    /\ UNCHANGED <<stored, cached>>

AfterTask(c, task) ==
    request' = [request EXCEPT ![c] =
        IF request[c].todo = {task} THEN Missing
        ELSE [request[c] EXCEPT !.todo = request[c].todo \ {task}]]

(* The update and the deletion run at the same time (Promise.all).         *)
UpdateUser(c) ==
    /\ On(c, "work") /\ "update" \in request[c].todo
    /\ stored' = [stored EXCEPT ![request[c].field] = request[c].value]
    /\ AfterTask(c, "update")
    /\ UNCHANGED cached

ClearKey(c) ==
    /\ On(c, "work") /\ "clear" \in request[c].todo
    /\ cached' = Missing
    /\ AfterTask(c, "clear")
    /\ UNCHANGED stored

(* A request returns, fails or dies.  A writer that fails half way may     *)
(* leave the row changed and the key in place.                             *)
EndRequest(c) ==
    /\ request[c] # Missing
    /\ request' = [request EXCEPT ![c] = Missing]
    /\ cached' = IF On(c, "work") /\ cached # Missing
                 THEN [cached EXCEPT !.clean = FALSE] ELSE cached
    /\ UNCHANGED stored

UserCacheNext ==
    \/ \E c \in Users :
         \/ Lookup(c) \/ DropKey(c) \/ ReadUser(c) \/ FillKey(c)
         \/ RegisterPushToken(c) \/ SelectCurrentBusiness(c) \/ EditProfile(c)
         \/ UpdateUser(c) \/ ClearKey(c) \/ EndRequest(c)
    \/ KeyOfUserExpires

UserCacheSpec == UserCacheInit /\ [][UserCacheNext]_cacheVars

-----------------------------------------------------------------------------
(* What the handlers are told of the push token and of the selected        *)
(* business is the row, unless the copy was made while a write of them was *)
(* under way or that write failed half way: the deletion may run before    *)
(* the update, and a read from before the update may be stored after it.   *)
CleanIsFresh ==
    cached # Missing /\ cached.clean /\ Working = {} =>
        cached.user.push = stored.push /\ cached.user.business = stored.business
=============================================================================
