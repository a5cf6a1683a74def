--------------------------- MODULE Accounts_proofs ----------------------------
(***************************************************************************)
(* Accounts and the user cache, for any number of requests, calls,         *)
(* consumers and repeated deliveries.                                      *)
(*                                                                         *)
(* The cache: a copy made while nobody wrote is the row, whatever the      *)
(* order in which requests fill the key, delete it and update the row.     *)
(* The argument is about who is still at work: a writer spoils every copy  *)
(* that is being made when he starts; the copy already in the key he       *)
(* deletes himself, or has deleted before his update (CacheInv).           *)
(*                                                                         *)
(* The codes: a code has one row, and everybody who handles it names the   *)
(* request and the address of that row (CodesSound).  Who judged a wrong   *)
(* guess read a counter that had not reached its limit, so the misses to   *)
(* come are fewer than the calls (MissesCounted).  A telephone request has *)
(* one consumer and one user (PhoneRows, OneOwner); a handler that writes  *)
(* has a validated one (WorkFits), and a request that was changed is over, *)
(* so that only a second handler could change it again (ChangedIsOver).    *)
(***************************************************************************)
EXTENDS Accounts, UserCache, FiniteSetTheorems, TLAPS

Fresh(x) == x.push = stored.push /\ x.business = stored.business

RequestsOK ==
    /\ DOMAIN request = Users
    /\ \A c \in Users : request[c] # Missing =>
          /\ request[c].field = "push" => request[c].value \in PushTokens
          /\ request[c].field = "business" => request[c].value \in Businesses
          /\ request[c].field = "name" => request[c].value \in Names

\* No copy under way is clean while somebody writes.
FillsSpoiled ==
    Working # {} => \A d \in Users : On(d, "fill") => ~ request[d].clean

\* A clean copy under way is the row.
FillsFresh ==
    \A d \in Users : On(d, "fill") /\ request[d].clean => Fresh(request[d].user)

Clearing == \E c \in Users : On(c, "work") /\ "clear" \in request[c].todo

\* The key is the row, or a writer has yet to delete it.
KeyFresh ==
    cached # Missing /\ cached.clean => Fresh(cached.user) \/ Clearing

\* A writer whose deletion is over has left no clean key behind.
ClearedFirst ==
    \A c \in Users :
        On(c, "work") /\ request[c].field # "name" /\ "clear" \notin request[c].todo =>
            cached = Missing \/ ~ cached.clean

CacheInv ==
    /\ UserCacheTypeOK /\ RequestsOK
    /\ FillsSpoiled /\ FillsFresh /\ KeyFresh /\ ClearedFirst

-----------------------------------------------------------------------------
(* What becomes of a request.                                              *)

LEMMA ReadingOK ==
  ASSUME NEW place \in {"drop", "read", "fill", "handle"}, NEW x \in UserRow, NEW clean \in BOOLEAN
  PROVE  /\ Reading(place, x, clean) \in Request
         /\ Reading(place, x, clean) # Missing
         /\ Reading(place, x, clean).at = place
         /\ Reading(place, x, clean).user = x
         /\ Reading(place, x, clean).clean = clean
         /\ Reading(place, x, clean).field = "name"
         /\ Reading(place, x, clean).value = NoName
<1>1. Reading(place, x, clean) \in Request
  BY NamesAssumption DEF Reading, Request, Fields, Task
<1> QED BY <1>1, RequestApart DEF Reading

LEMMA PlaceOK ==
  ASSUME NEW r \in Request, NEW place \in {"read", "handle"}
  PROVE  /\ [r EXCEPT !.at = place] \in Request
         /\ [r EXCEPT !.at = place].at = place
         /\ [r EXCEPT !.at = place].field = r.field
         /\ [r EXCEPT !.at = place].value = r.value
BY DEF Request

LEMMA SpoiltOK ==
  ASSUME NEW r \in Request
  PROVE  /\ [r EXCEPT !.clean = FALSE] \in Request
         /\ [r EXCEPT !.clean = FALSE].at = r.at
         /\ [r EXCEPT !.clean = FALSE].clean = FALSE
         /\ [r EXCEPT !.clean = FALSE].field = r.field
         /\ [r EXCEPT !.clean = FALSE].value = r.value
BY DEF Request

LEMMA TodoOK ==
  ASSUME NEW r \in Request, NEW task
  PROVE  LET w == [r EXCEPT !.todo = r.todo \ {task}]
         IN  /\ w \in Request /\ w.at = r.at /\ w.field = r.field /\ w.value = r.value
             /\ w.todo = r.todo \ {task}
BY DEF Request

-----------------------------------------------------------------------------
(* The steps.  Most of them touch one request and leave the writers alone. *)

LEMMA LookupInv ==
  ASSUME CacheInv, NEW c \in Users, Lookup(c) PROVE CacheInv'
<1>1. PICK place \in {"drop", "read", "handle"}, x \in UserRow, clean \in BOOLEAN :
        request' = [request EXCEPT ![c] = Reading(place, x, clean)]
  <2>1. CASE cached = Missing
    BY <2>1 DEF Lookup, CacheInv, UserCacheTypeOK
  <2>2. CASE cached # Missing
    <3>1. cached.user \in UserRow /\ cached.clean \in BOOLEAN /\ stored \in UserRow
      BY <2>2 DEF CacheInv, UserCacheTypeOK
    <3> QED BY <2>2, <3>1 DEF Lookup
  <2> QED BY <2>1, <2>2
<1>2. request[c] = Missing /\ stored' = stored /\ cached' = cached
  BY DEF Lookup
<1> DEFINE r == Reading(place, x, clean)
<1>3. r \in Request /\ r.at \notin {"fill", "work"} /\ r.field = "name" /\ r.value \in Names
  BY ReadingOK, NamesAssumption
<1>4. /\ DOMAIN request' = Users /\ request'[c] = r
      /\ \A d \in Users \ {c} : request'[d] = request[d]
  BY <1>1 DEF CacheInv, RequestsOK
<1> HIDE DEF r
<1>5. UserCacheTypeOK' /\ RequestsOK'
  BY <1>2, <1>3, <1>4 DEF CacheInv, UserCacheTypeOK, RequestsOK
<1>6. \A d \in Users : /\ On(d, "fill")' => On(d, "fill") /\ request'[d] = request[d]
                       /\ On(d, "work")' <=> On(d, "work")
                       /\ On(d, "work") => request'[d] = request[d]
  BY <1>2, <1>3, <1>4 DEF On
<1>7. Working' = Working
  BY <1>6 DEF Working
<1>8. FillsSpoiled' /\ FillsFresh' /\ KeyFresh' /\ ClearedFirst'
  BY <1>2, <1>6, <1>7 DEF CacheInv, FillsSpoiled, FillsFresh, KeyFresh, Clearing, ClearedFirst, Fresh
<1> QED BY <1>5, <1>8 DEF CacheInv

LEMMA DropKeyInv ==
  ASSUME CacheInv, NEW c \in Users, DropKey(c) PROVE CacheInv'
<1> DEFINE r == [request[c] EXCEPT !.at = "read"]
<1>1. /\ request[c] # Missing /\ request[c].at = "drop"
      /\ cached' = Missing /\ stored' = stored
      /\ request' = [request EXCEPT ![c] = r]
  BY DEF DropKey, On
<1>2. request[c] \in Request
  BY <1>1 DEF CacheInv, UserCacheTypeOK
<1>3. /\ r \in Request /\ r.at = "read" /\ r.field = request[c].field /\ r.value = request[c].value
  BY <1>2, PlaceOK
<1>4. /\ DOMAIN request' = Users /\ request'[c] = r
      /\ \A d \in Users \ {c} : request'[d] = request[d]
  BY <1>1 DEF CacheInv, RequestsOK
<1> HIDE DEF r
<1>5. UserCacheTypeOK' /\ RequestsOK'
  BY <1>1, <1>3, <1>4 DEF CacheInv, UserCacheTypeOK, RequestsOK
<1>6. \A d \in Users : /\ On(d, "fill")' => On(d, "fill") /\ request'[d] = request[d]
                       /\ On(d, "work")' <=> On(d, "work")
  BY <1>1, <1>3, <1>4 DEF On
<1>7. Working' = Working
  BY <1>6 DEF Working
<1>8. FillsSpoiled' /\ FillsFresh' /\ KeyFresh' /\ ClearedFirst'
  BY <1>1, <1>6, <1>7 DEF CacheInv, FillsSpoiled, FillsFresh, KeyFresh, ClearedFirst, Fresh
<1> QED BY <1>5, <1>8 DEF CacheInv

\* The copy is clean only when nobody writes.
LEMMA ReadUserInv ==
  ASSUME CacheInv, NEW c \in Users, ReadUser(c) PROVE CacheInv'
<1> DEFINE r == Reading("fill", stored, Working = {})
<1>1. /\ request[c] # Missing /\ request[c].at = "read"
      /\ cached' = cached /\ stored' = stored
      /\ request' = [request EXCEPT ![c] = r]
  BY DEF ReadUser, On
<1>2. stored \in UserRow
  BY DEF CacheInv, UserCacheTypeOK
<1>3. /\ r \in Request /\ r.at = "fill" /\ r.field = "name" /\ r.value \in Names
      /\ r.user = stored /\ r.clean = (Working = {})
  BY <1>2, ReadingOK, NamesAssumption
<1>4. /\ DOMAIN request' = Users /\ request'[c] = r
      /\ \A d \in Users \ {c} : request'[d] = request[d]
  BY <1>1 DEF CacheInv, RequestsOK
<1> HIDE DEF r
<1>5. UserCacheTypeOK' /\ RequestsOK'
  BY <1>1, <1>3, <1>4 DEF CacheInv, UserCacheTypeOK, RequestsOK
<1>6. \A d \in Users : /\ d # c => request'[d] = request[d]
                       /\ On(d, "work")' <=> On(d, "work")
                       /\ On(d, "work") => request'[d] = request[d]
  BY <1>1, <1>3, <1>4 DEF On
<1>7. Working' = Working
  BY <1>6 DEF Working
<1>8. FillsSpoiled'
  BY <1>3, <1>4, <1>6, <1>7 DEF CacheInv, FillsSpoiled, On
<1>9. FillsFresh'
  BY <1>1, <1>3, <1>4, <1>6 DEF CacheInv, FillsFresh, Fresh, On
<1>10. KeyFresh' /\ ClearedFirst'
  BY <1>1, <1>6 DEF CacheInv, KeyFresh, Clearing, ClearedFirst, Fresh
<1> QED BY <1>5, <1>8, <1>9, <1>10 DEF CacheInv

\* What is stored is what was read; if clean, nobody is at work.
LEMMA FillKeyInv ==
  ASSUME CacheInv, NEW c \in Users, FillKey(c) PROVE CacheInv'
<1> DEFINE r == [request[c] EXCEPT !.at = "handle"]
<1>1. /\ On(c, "fill") /\ request[c] # Missing /\ request[c].at = "fill"
      /\ cached' = Copy(request[c].user, request[c].clean) /\ stored' = stored
      /\ request' = [request EXCEPT ![c] = r]
  BY DEF FillKey, On
<1>2. request[c] \in Request
  BY <1>1 DEF CacheInv, UserCacheTypeOK
<1>3. /\ r \in Request /\ r.at = "handle" /\ r.field = request[c].field /\ r.value = request[c].value
  BY <1>2, PlaceOK
<1>4. /\ DOMAIN request' = Users /\ request'[c] = r
      /\ \A d \in Users \ {c} : request'[d] = request[d]
  BY <1>1 DEF CacheInv, RequestsOK
<1> HIDE DEF r
<1>5. /\ cached'.user = request[c].user /\ cached'.clean = request[c].clean
      /\ cached' \in [user : UserRow, clean : BOOLEAN]
  BY <1>1, <1>2 DEF Copy, Request
<1>6. UserCacheTypeOK' /\ RequestsOK'
  BY <1>1, <1>3, <1>4, <1>5 DEF CacheInv, UserCacheTypeOK, RequestsOK
<1>7. \A d \in Users : /\ On(d, "fill")' => On(d, "fill") /\ request'[d] = request[d]
                       /\ On(d, "work")' <=> On(d, "work")
                       /\ On(d, "work") => request'[d] = request[d]
  BY <1>1, <1>3, <1>4 DEF On
<1>8. Working' = Working
  BY <1>7 DEF Working
<1>9. FillsSpoiled' /\ FillsFresh'
  BY <1>1, <1>7, <1>8 DEF CacheInv, FillsSpoiled, FillsFresh, Fresh
<1>10. KeyFresh'
  BY <1>1, <1>5 DEF CacheInv, FillsFresh, KeyFresh, Fresh
<1>11. ClearedFirst'
  <2>1. ASSUME NEW d \in Users, On(d, "work") PROVE ~ cached'.clean
    BY <1>1, <1>5, <2>1 DEF CacheInv, FillsSpoiled, Working
  <2> QED BY <1>7, <2>1 DEF ClearedFirst
<1> QED BY <1>6, <1>9, <1>10, <1>11 DEF CacheInv

\* He spoils the copies that are being made; the key he is to delete, unless
\* it is only the name he writes.
LEMMA StartsInv ==
  ASSUME CacheInv, NEW c \in Users, NEW field \in Fields, NEW value, NEW todo \in SUBSET Task,
         On(c, "handle"), StartWriting(c, field, value, todo), UNCHANGED <<stored, cached>>,
         field = "push" => value \in PushTokens,
         field = "business" => value \in Businesses,
         field = "name" => value \in Names,
         field # "name" => "clear" \in todo
  PROVE  CacheInv'
<1> DEFINE w == [request[c] EXCEPT !.at = "work", !.field = field, !.value = value, !.todo = todo]
<1> DEFINE spoilt(d) == [request[d] EXCEPT !.clean = FALSE]
<1>1. request[c] # Missing /\ request[c].at = "handle"
  BY DEF On
<1>2. /\ DOMAIN request' = Users /\ request'[c] = w
      /\ \A d \in Users \ {c} : request'[d] = IF On(d, "fill") THEN spoilt(d) ELSE request[d]
  BY DEF StartWriting
<1>3. value \in UNION {PushTokens, Businesses, Names}
  BY DEF Fields
<1>4. w \in Request /\ w.at = "work" /\ w.field = field /\ w.value = value /\ w.todo = todo
  <2>1. request[c] \in Request
    BY <1>1 DEF CacheInv, UserCacheTypeOK
  <2> QED BY <1>3, <2>1 DEF Request
<1>5. ASSUME NEW d \in Users, On(d, "fill")
      PROVE  /\ spoilt(d) \in Request /\ spoilt(d).at = "fill" /\ spoilt(d).clean = FALSE
             /\ spoilt(d).field = request[d].field /\ spoilt(d).value = request[d].value
  <2>1. request[d] \in Request /\ request[d].at = "fill"
    BY <1>5 DEF On, CacheInv, UserCacheTypeOK
  <2> QED BY <2>1, SpoiltOK
<1> HIDE DEF w, spoilt
<1>6. UserCacheTypeOK'
  BY <1>2, <1>4, <1>5 DEF CacheInv, UserCacheTypeOK
<1>7. RequestsOK'
  <2>1. ASSUME NEW d \in Users \ {c}, request'[d] # Missing
        PROVE  /\ request[d] # Missing
               /\ request'[d].field = request[d].field /\ request'[d].value = request[d].value
    BY <1>2, <1>5, <2>1 DEF On
  <2> QED BY <1>2, <1>4, <2>1 DEF CacheInv, RequestsOK
<1>8. \A d \in Users \ {c} : On(d, "fill")' => request'[d].clean = FALSE
  BY <1>2, <1>5 DEF On
<1>9. ~ On(c, "fill")'
  BY <1>2, <1>4 DEF On
<1>10. \A d \in Users \ {c} : /\ On(d, "work") => request'[d] = request[d] /\ On(d, "work")'
                              /\ On(d, "work")' => On(d, "work")
  BY <1>2, <1>5 DEF On
<1>11. FillsSpoiled' /\ FillsFresh'
  BY <1>8, <1>9 DEF FillsSpoiled, FillsFresh
<1>12. ~ On(c, "work")
  BY <1>1 DEF On
<1>13. KeyFresh'
  BY <1>10, <1>12 DEF CacheInv, KeyFresh, Clearing, Fresh
<1>14. ClearedFirst'
  BY <1>2, <1>4, <1>10 DEF CacheInv, ClearedFirst
<1> QED BY <1>6, <1>7, <1>11, <1>13, <1>14 DEF CacheInv

\* What is left of a request when one of its tasks is done.
LEMMA AfterTaskOK ==
  ASSUME CacheInv, NEW c \in Users, On(c, "work"), NEW task, AfterTask(c, task)
  PROVE  /\ DOMAIN request' = Users
         /\ \A d \in Users \ {c} : request'[d] = request[d]
         /\ \A d \in Users : request'[d] # Missing => request'[d] \in Request
         /\ RequestsOK'
         /\ request'[c] # Missing =>
               /\ request'[c].at = "work" /\ request'[c].field = request[c].field
               /\ request'[c].todo = request[c].todo \ {task}
         /\ request'[c] = Missing => request[c].todo = {task}
<1> DEFINE w == [request[c] EXCEPT !.todo = request[c].todo \ {task}]
<1>1. request[c] \in Request /\ request[c] # Missing /\ request[c].at = "work"
  BY DEF On, CacheInv, UserCacheTypeOK
<1>2. /\ w \in Request /\ w.at = "work" /\ w.field = request[c].field /\ w.value = request[c].value
      /\ w.todo = request[c].todo \ {task}
  BY <1>1, TodoOK
<1>3. w # Missing
  BY <1>2, RequestApart
<1>4. /\ DOMAIN request' = Users
      /\ request'[c] = IF request[c].todo = {task} THEN Missing ELSE w
      /\ \A d \in Users \ {c} : request'[d] = request[d]
  BY DEF AfterTask, CacheInv, RequestsOK
<1> HIDE DEF w
<1>5. \A d \in Users : request'[d] # Missing => request'[d] \in Request
  BY <1>2, <1>4 DEF CacheInv, UserCacheTypeOK
<1>6. RequestsOK'
  BY <1>1, <1>2, <1>4 DEF CacheInv, RequestsOK
<1> QED BY <1>2, <1>3, <1>4, <1>5, <1>6

\* While he is at work no copy under way is clean, and the key is unclean or
\* still to be deleted by him; a name is nobody's concern.
LEMMA UpdateUserInv ==
  ASSUME CacheInv, NEW c \in Users, UpdateUser(c) PROVE CacheInv'
<1>1. /\ On(c, "work") /\ AfterTask(c, "update") /\ cached' = cached
      /\ stored' = [stored EXCEPT ![request[c].field] = request[c].value]
  BY DEF UpdateUser
<1>2. /\ \A d \in Users \ {c} : request'[d] = request[d]
      /\ \A d \in Users : request'[d] # Missing => request'[d] \in Request
      /\ RequestsOK'
      /\ request'[c] # Missing =>
            /\ request'[c].at = "work" /\ request'[c].field = request[c].field
            /\ request'[c].todo = request[c].todo \ {"update"}
      /\ request'[c] = Missing => request[c].todo = {"update"}
  BY <1>1, AfterTaskOK
<1>3. request[c] # Missing /\ request[c].at = "work" /\ request[c].field \in Fields
  BY <1>1 DEF On, CacheInv, UserCacheTypeOK, Request
<1>4. stored \in UserRow
  BY DEF CacheInv, UserCacheTypeOK
<1>5. stored' \in UserRow
  BY <1>1, <1>3, <1>4 DEF CacheInv, RequestsOK, UserRow, Fields
<1>6. request[c].field = "name" => stored'.push = stored.push /\ stored'.business = stored.business
  BY <1>1, <1>4 DEF UserRow
<1>7. UserCacheTypeOK'
  BY <1>1, <1>2, <1>5 DEF CacheInv, UserCacheTypeOK
<1>8. \A d \in Users : On(d, "fill")' => On(d, "fill") /\ request'[d] = request[d]
  BY <1>2, <1>3 DEF On
<1>9. \A d \in Users : On(d, "fill") => ~ request[d].clean
  BY <1>1 DEF CacheInv, FillsSpoiled, Working
<1>10. FillsSpoiled' /\ FillsFresh'
  BY <1>8, <1>9 DEF FillsSpoiled, FillsFresh
<1>11. Clearing => Clearing'
  <2> SUFFICES ASSUME NEW d \in Users, On(d, "work"), "clear" \in request[d].todo PROVE Clearing'
    BY DEF Clearing
  <2>1. CASE d = c
    BY <1>2, <2>1 DEF Clearing, On
  <2>2. CASE d # c
    BY <1>2, <2>2 DEF Clearing, On
  <2> QED BY <2>1, <2>2
<1>12. KeyFresh'
  <2>1. CASE request[c].field = "name"
    BY <1>1, <1>6, <1>11, <2>1 DEF CacheInv, KeyFresh, Fresh
  <2>2. CASE "clear" \in request[c].todo
    BY <1>1, <1>11, <2>2 DEF Clearing, KeyFresh
  <2>3. CASE request[c].field # "name" /\ "clear" \notin request[c].todo
    BY <1>1, <2>3 DEF CacheInv, ClearedFirst, KeyFresh
  <2> QED BY <2>1, <2>2, <2>3
<1>13. ClearedFirst'
  <2> SUFFICES ASSUME NEW d \in Users, On(d, "work")', request'[d].field # "name",
                      "clear" \notin request'[d].todo
               PROVE  cached = Missing \/ ~ cached.clean
    BY <1>1 DEF ClearedFirst
  <2>1. On(d, "work") /\ request[d].field # "name" /\ "clear" \notin request[d].todo
    BY <1>2, <1>3 DEF On
  <2> QED BY <2>1 DEF CacheInv, ClearedFirst
<1> QED BY <1>2, <1>7, <1>10, <1>12, <1>13 DEF CacheInv

LEMMA ClearKeyInv ==
  ASSUME CacheInv, NEW c \in Users, ClearKey(c) PROVE CacheInv'
<1>1. /\ On(c, "work") /\ AfterTask(c, "clear") /\ cached' = Missing /\ stored' = stored
  BY DEF ClearKey
<1>2. /\ \A d \in Users \ {c} : request'[d] = request[d]
      /\ \A d \in Users : request'[d] # Missing => request'[d] \in Request
      /\ RequestsOK'
      /\ request'[c] # Missing => request'[c].at = "work"
  BY <1>1, AfterTaskOK
<1>3. UserCacheTypeOK'
  BY <1>1, <1>2 DEF CacheInv, UserCacheTypeOK
<1>4. \A d \in Users : On(d, "fill")' => On(d, "fill") /\ request'[d] = request[d]
  BY <1>2 DEF On
<1>5. \A d \in Users : On(d, "fill") => ~ request[d].clean
  BY <1>1 DEF CacheInv, FillsSpoiled, Working
<1>6. FillsSpoiled' /\ FillsFresh' /\ KeyFresh' /\ ClearedFirst'
  BY <1>1, <1>4, <1>5 DEF FillsSpoiled, FillsFresh, KeyFresh, ClearedFirst
<1> QED BY <1>2, <1>3, <1>6 DEF CacheInv

\* A writer that stops half way leaves a key that is not clean.
LEMMA EndRequestInv ==
  ASSUME CacheInv, NEW c \in Users, EndRequest(c) PROVE CacheInv'
<1>1. /\ request' = [request EXCEPT ![c] = Missing] /\ stored' = stored
      /\ cached' = IF On(c, "work") /\ cached # Missing
                   THEN [cached EXCEPT !.clean = FALSE] ELSE cached
  BY DEF EndRequest
<1>2. /\ DOMAIN request' = Users /\ request'[c] = Missing
      /\ \A d \in Users \ {c} : request'[d] = request[d]
  BY <1>1 DEF CacheInv, RequestsOK
<1>3. /\ cached # Missing => cached \in [user : UserRow, clean : BOOLEAN]
      /\ cached' # cached => cached' \in [user : UserRow, clean : BOOLEAN] /\ cached'.clean = FALSE
  BY <1>1 DEF CacheInv, UserCacheTypeOK
<1>4. UserCacheTypeOK' /\ RequestsOK'
  BY <1>1, <1>2, <1>3 DEF CacheInv, UserCacheTypeOK, RequestsOK
<1>5. \A d \in Users : /\ On(d, "fill")' => On(d, "fill") /\ request'[d] = request[d]
                       /\ On(d, "work")' => On(d, "work") /\ request'[d] = request[d]
                       /\ d # c /\ On(d, "work") => On(d, "work")' /\ request'[d] = request[d]
  BY <1>2 DEF On
<1>6. Working' \subseteq Working
  BY <1>5 DEF Working
<1>7. FillsSpoiled' /\ FillsFresh'
  BY <1>1, <1>5, <1>6 DEF CacheInv, FillsSpoiled, FillsFresh, Fresh
<1>8. KeyFresh'
  <2>1. CASE On(c, "work")
    <3>1. cached' # Missing => cached'.clean = FALSE
      BY <1>1, <1>3, <2>1
    <3> QED BY <3>1 DEF KeyFresh
  <2>2. CASE ~ On(c, "work")
    <3>1. Clearing => Clearing'
      BY <1>5, <2>2 DEF Clearing
    <3> QED BY <1>1, <2>2, <3>1 DEF CacheInv, KeyFresh, Fresh
  <2> QED BY <2>1, <2>2
<1>9. ClearedFirst'
  BY <1>3, <1>5 DEF CacheInv, ClearedFirst
<1> QED BY <1>4, <1>7, <1>8, <1>9 DEF CacheInv

LEMMA ExpiresInv ==
  ASSUME CacheInv, KeyOfUserExpires PROVE CacheInv'
BY DEF KeyOfUserExpires, CacheInv, UserCacheTypeOK, RequestsOK, FillsSpoiled, FillsFresh, KeyFresh,
       ClearedFirst, Working, Fresh, On

-----------------------------------------------------------------------------
\* Nothing is cached and nobody is at work.
THEOREM CacheInitInv == UserCacheInit => CacheInv
BY DEF UserCacheInit, CacheInv, UserCacheTypeOK, RequestsOK, FillsSpoiled, FillsFresh, KeyFresh,
       ClearedFirst, Working, On

\* Every step keeps the clean copies true.
THEOREM CacheNextInv == CacheInv /\ [UserCacheNext]_cacheVars => CacheInv'
<1> SUFFICES ASSUME CacheInv, [UserCacheNext]_cacheVars PROVE CacheInv'
  OBVIOUS
<1>1. ASSUME NEW c \in Users, Lookup(c) PROVE CacheInv'
  BY <1>1, LookupInv
<1>2. ASSUME NEW c \in Users, DropKey(c) PROVE CacheInv'
  BY <1>2, DropKeyInv
<1>3. ASSUME NEW c \in Users, ReadUser(c) PROVE CacheInv'
  BY <1>3, ReadUserInv
<1>4. ASSUME NEW c \in Users, FillKey(c) PROVE CacheInv'
  BY <1>4, FillKeyInv
<1>5. ASSUME NEW c \in Users, RegisterPushToken(c) PROVE CacheInv'
  <2>1. PICK p \in PushTokens : StartWriting(c, "push", p, {"update", "clear"})
    BY <1>5 DEF RegisterPushToken
  <2>2. On(c, "handle") /\ UNCHANGED <<stored, cached>>
    BY <1>5 DEF RegisterPushToken
  <2> QED BY <2>1, <2>2, StartsInv DEF Fields, Task
<1>6. ASSUME NEW c \in Users, SelectCurrentBusiness(c) PROVE CacheInv'
  <2>1. PICK b \in Businesses : StartWriting(c, "business", b, {"update", "clear"})
    BY <1>6 DEF SelectCurrentBusiness
  <2>2. On(c, "handle") /\ UNCHANGED <<stored, cached>>
    BY <1>6 DEF SelectCurrentBusiness
  <2> QED BY <2>1, <2>2, StartsInv DEF Fields, Task
<1>7. ASSUME NEW c \in Users, EditProfile(c) PROVE CacheInv'
  <2>1. PICK n \in Names : StartWriting(c, "name", n, {"update"})
    BY <1>7 DEF EditProfile
  <2>2. On(c, "handle") /\ UNCHANGED <<stored, cached>>
    BY <1>7 DEF EditProfile
  <2> QED BY <2>1, <2>2, StartsInv DEF Fields, Task
<1>8. ASSUME NEW c \in Users, UpdateUser(c) PROVE CacheInv'
  BY <1>8, UpdateUserInv
<1>9. ASSUME NEW c \in Users, ClearKey(c) PROVE CacheInv'
  BY <1>9, ClearKeyInv
<1>10. ASSUME NEW c \in Users, EndRequest(c) PROVE CacheInv'
  BY <1>10, EndRequestInv
<1>11. CASE KeyOfUserExpires
  BY <1>11, ExpiresInv
<1>12. CASE UNCHANGED cacheVars
  BY <1>12 DEF cacheVars, CacheInv, UserCacheTypeOK, RequestsOK, FillsSpoiled, FillsFresh, KeyFresh,
               Clearing, ClearedFirst, Working, Fresh, On
<1> QED BY <1>1, <1>2, <1>3, <1>4, <1>5, <1>6, <1>7, <1>8, <1>9, <1>10, <1>11, <1>12 DEF UserCacheNext

\* The cache, the row and every request are well typed, and every clean copy
\* is the row or about to be deleted.
THEOREM CacheInductive == UserCacheSpec => []CacheInv
<1> QED BY CacheInitInv, CacheNextInv, PTL DEF UserCacheSpec

\* For any number of requests: once nobody is writing, a copy made while
\* nobody wrote shows the push token and the business of the row.
THEOREM CleanStaysFresh == UserCacheSpec => []CleanIsFresh
<1>1. CacheInv => CleanIsFresh
  BY DEF CacheInv, CleanIsFresh, KeyFresh, Clearing, Working, Fresh
<1> QED BY <1>1, CacheInductive, PTL
-----------------------------------------------------------------------------
(* What is behind the codes.                                               *)

\* Every code was paid for by a message.
CodesPaid == IsFiniteSet(queue) /\ codes + Cardinality(queue) <= deliveries

\* A code that is not generated yet is nowhere.
CodesGenerated ==
    /\ \A r \in Requests : row[r] # Idle => row[r].code <= codes
    /\ \A s \in Senders : sender[s] # Idle => sender[s].code <= codes
    /\ \A c \in Callers : caller[c] # Idle => caller[c].code <= codes
    /\ \A d \in inbox : d[2] <= codes
    /\ \A k \in Code : k > codes => misses[k] = 0

\* A code has one row, whose request and address are those of everybody who
\* handles the code.
CodeHasOneRow ==
    /\ \A q, r \in Requests :
          row[q] # Idle /\ row[r] # Idle /\ row[q].code = row[r].code => q = r
    /\ \A s \in Senders, r \in Requests :
          sender[s] # Idle /\ row[r] # Idle /\ sender[s].code = row[r].code =>
              sender[s].msg.req = r /\ sender[s].msg.to = row[r].to
    /\ \A c \in Callers, r \in Requests :
          caller[c] # Idle /\ row[r] # Idle /\ caller[c].code = row[r].code => caller[c].req = r
    /\ \A d \in inbox, r \in Requests :
          row[r] # Idle /\ row[r].code = d[2] => row[r].to = d[1]

\* Who handles a request has a row to update.
RowsStay ==
    /\ \A s \in Senders : sender[s] # Idle => row[sender[s].msg.req] # Idle
    /\ \A c \in Callers : caller[c] # Idle => row[caller[c].req] # Idle

\* A code that is about to be consumed was received.
ConsumedIsReceived ==
    \A c \in Callers : At(c, "consume") => \E a \in Addresses : <<a, caller[c].code>> \in inbox

CodesSound == CodesGenerated /\ CodeHasOneRow /\ RowsStay /\ ConsumedIsReceived

\* The calls that judged a wrong guess against code k and did not count it yet.
Uncounted(k) == {c \in Callers : At(c, "miss") /\ caller[c].code = k}

MissesCounted ==
    /\ \A r \in Requests : row[r] # Idle => misses[row[r].code] <= row[r].attempts
    /\ \A k \in Code : misses[k] + Cardinality(Uncounted(k)) <= MaxAttempts - 1 + Cardinality(Callers)

-----------------------------------------------------------------------------
(* The steps of Codes, as the handlers of Accounts use them.               *)

Quit(c) == /\ Leave(c)
           /\ UNCHANGED <<row, queue, sender, deliveries, codes, inbox, misses,
                          spent, misproved, interrupted>>

\* The steps that update a row by id.
Edit == \/ \E s \in Senders : Record(s)
        \/ \E r \in Requests : Expire(r)
        \/ \E c \in Callers : SafeExpire(c) \/ BlockRecord(c) \/ Miss(c) \/ Consume(c)

Ask == \E r \in Requests, a \in Addresses :
          (r \in PhoneRequests => FreshRequest(r)) /\ Publish(r, a)

Judge == \E c \in Callers, r \in Requests, guess \in Guesses : Validate(c, r, guess)

CodeMove == \/ Ask \/ Edit \/ Judge
            \/ \E s \in Senders : Take(s) \/ Deliver(s) \/ Crash(s)
            \/ \E c \in Callers : Quit(c)
            \/ UNCHANGED codeVars

RowsKept == \A q \in Requests :
    IF row[q] = Idle THEN row'[q] = Idle
    ELSE /\ row'[q] \in CodeRow
         /\ row'[q].to = row[q].to /\ row'[q].code = row[q].code
         /\ row'[q].attempts >= row[q].attempts

SendersKept == \A s \in Senders :
    \/ sender'[s] = Idle
    \/ /\ sender[s] # Idle /\ sender'[s] # Idle
       /\ sender'[s].msg = sender[s].msg /\ sender'[s].code = sender[s].code

CallersKept == \A c \in Callers :
    \/ caller'[c] = Idle
    \/ /\ caller[c] # Idle /\ caller'[c] # Idle
       /\ caller'[c].req = caller[c].req /\ caller'[c].code = caller[c].code
       /\ caller'[c].at \in {"consume", "miss"} => caller'[c].at = caller[c].at

\* A row that is updated stays a row with its address and its code.
LEMMA RowKept ==
  ASSUME CodesTypeOK, NEW r \in Requests, row[r] # Idle, NEW x \in CodeRow,
         x.to = row[r].to, x.code = row[r].code, x.attempts >= row[r].attempts,
         row' = [row EXCEPT ![r] = x]
  PROVE  RowsKept /\ row' \in [Requests -> CodeRow \cup {Idle}]
<1>1. row \in [Requests -> CodeRow \cup {Idle}] /\ row[r] \in CodeRow
  BY DEF CodesTypeOK
<1>2. row' \in [Requests -> CodeRow \cup {Idle}]
  BY <1>1
<1>3. \A q \in Requests : row[q] # Idle => row[q].attempts >= row[q].attempts
  BY <1>1 DEF CodeRow
<1>4. \A q \in Requests : IF row[q] = Idle THEN row'[q] = Idle
                          ELSE /\ row'[q] \in CodeRow
                               /\ row'[q].to = row[q].to /\ row'[q].code = row[q].code
                               /\ row'[q].attempts >= row[q].attempts
  <2> TAKE q \in Requests
  <2>1. CASE q = r
    BY <2>1, <1>1
  <2>2. CASE q # r
    BY <2>2, <1>1, <1>3
  <2> QED
    BY <2>1, <2>2
<1> QED
  BY <1>2, <1>4 DEF RowsKept

\* The new row of an update, and its fields.
LEMMA RowEdits ==
  ASSUME NEW x \in CodeRow, NEW st \in Statuses
  PROVE  /\ \E y \in CodeRow :
              /\ y = [x EXCEPT !.status = st]
              /\ y.to = x.to /\ y.code = x.code /\ y.attempts >= x.attempts
              /\ y.valid = x.valid /\ y.status = st
         /\ \E y \in CodeRow :
              /\ y = [x EXCEPT !.status = st, !.active = FALSE]
              /\ y.to = x.to /\ y.code = x.code /\ y.attempts >= x.attempts
              /\ y.valid = x.valid /\ y.status = st
         /\ \E y \in CodeRow :
              /\ y = [x EXCEPT !.expired = TRUE]
              /\ y.to = x.to /\ y.code = x.code /\ y.attempts >= x.attempts
              /\ y.valid = x.valid /\ y.status = x.status
         /\ \E y \in CodeRow :
              /\ y = [x EXCEPT !.attempts = x.attempts + 1]
              /\ y.to = x.to /\ y.code = x.code /\ y.attempts = x.attempts + 1
              /\ y.attempts >= x.attempts /\ y.valid = x.valid /\ y.status = x.status
         /\ \E y \in CodeRow :
              /\ y = [x EXCEPT !.status = "VALIDATED", !.valid = TRUE,
                               !.active = FALSE, !.attempts = x.attempts + 1]
              /\ y.to = x.to /\ y.code = x.code /\ y.attempts = x.attempts + 1
              /\ y.attempts >= x.attempts /\ y.valid = TRUE /\ y.status = "VALIDATED"
<1>1. x.attempts \in Nat /\ x.attempts + 1 \in Nat /\ x.attempts >= x.attempts
      /\ x.attempts + 1 >= x.attempts /\ "VALIDATED" \in Statuses
  BY DEF CodeRow, Statuses
<1>2. PICK n : n = x.attempts + 1 /\ n \in Nat /\ n >= x.attempts
  BY <1>1
<1>3. /\ [x EXCEPT !.status = st] \in CodeRow
      /\ [x EXCEPT !.status = st, !.active = FALSE] \in CodeRow
      /\ [x EXCEPT !.expired = TRUE] \in CodeRow
  BY DEF CodeRow
<1>4. [x EXCEPT !.attempts = n] \in CodeRow
  BY <1>2 DEF CodeRow
<1>5. [x EXCEPT !.status = "VALIDATED", !.valid = TRUE, !.active = FALSE, !.attempts = n] \in CodeRow
  BY <1>1, <1>2 DEF CodeRow
<1>6. \A y \in {[x EXCEPT !.status = st], [x EXCEPT !.status = st, !.active = FALSE]} :
        /\ y.to = x.to /\ y.code = x.code /\ y.attempts = x.attempts
        /\ y.valid = x.valid /\ y.status = st
  BY DEF CodeRow
<1>7. LET y == [x EXCEPT !.expired = TRUE]
      IN  /\ y.to = x.to /\ y.code = x.code /\ y.attempts = x.attempts
          /\ y.valid = x.valid /\ y.status = x.status
  BY DEF CodeRow
<1>8. LET y == [x EXCEPT !.attempts = n]
      IN  /\ y.to = x.to /\ y.code = x.code /\ y.attempts = n
          /\ y.valid = x.valid /\ y.status = x.status
  BY DEF CodeRow
<1>9. LET y == [x EXCEPT !.status = "VALIDATED", !.valid = TRUE, !.active = FALSE, !.attempts = n]
      IN  /\ y.to = x.to /\ y.code = x.code /\ y.attempts = n
          /\ y.valid = TRUE /\ y.status = "VALIDATED"
  BY DEF CodeRow
<1>10. x.attempts + 1 = n
  BY <1>2
<1>11. \E y \in CodeRow : /\ y = [x EXCEPT !.status = st]
              /\ y.to = x.to /\ y.code = x.code /\ y.attempts >= x.attempts
              /\ y.valid = x.valid /\ y.status = st
  BY <1>1, <1>3, <1>6
<1>12. \E y \in CodeRow : /\ y = [x EXCEPT !.status = st, !.active = FALSE]
              /\ y.to = x.to /\ y.code = x.code /\ y.attempts >= x.attempts
              /\ y.valid = x.valid /\ y.status = st
  BY <1>1, <1>3, <1>6
<1>13. \E y \in CodeRow : /\ y = [x EXCEPT !.expired = TRUE]
              /\ y.to = x.to /\ y.code = x.code /\ y.attempts >= x.attempts
              /\ y.valid = x.valid /\ y.status = x.status
  BY <1>1, <1>3, <1>7
<1>14. \E y \in CodeRow : /\ y = [x EXCEPT !.attempts = n]
              /\ y.to = x.to /\ y.code = x.code /\ y.attempts = n
              /\ y.attempts >= x.attempts /\ y.valid = x.valid /\ y.status = x.status
  BY <1>2, <1>4, <1>8
<1>15. \E y \in CodeRow :
              /\ y = [x EXCEPT !.status = "VALIDATED", !.valid = TRUE,
                               !.active = FALSE, !.attempts = n]
              /\ y.to = x.to /\ y.code = x.code /\ y.attempts = n
              /\ y.attempts >= x.attempts /\ y.valid = TRUE /\ y.status = "VALIDATED"
  BY <1>2, <1>5, <1>9
<1> QED
  BY <1>10, <1>11, <1>12, <1>13, <1>14, <1>15

\* Each update by id, as the row it writes.
LEMMA EditShape ==
  ASSUME CodesTypeOK, CodesSound, Edit
  PROVE  /\ \/ row' = row
            \/ \E r \in Requests, x \in CodeRow :
                 /\ row[r] # Idle /\ row' = [row EXCEPT ![r] = x]
                 /\ x.to = row[r].to /\ x.code = row[r].code
                 /\ x.attempts >= row[r].attempts
                 /\ \/ x.valid = row[r].valid
                    \/ x.valid = TRUE /\ \E c \in Callers : Consume(c) /\ r = caller[c].req
                 /\ \/ x.status = row[r].status \/ x.status = "FAILED"
                    \/ x.status = "VALIDATED" /\ \E c \in Callers : Consume(c) /\ r = caller[c].req
                    \/ \E s \in Senders : Record(s) /\ r = sender[s].msg.req
         /\ UNCHANGED <<queue, deliveries, codes, inbox, interrupted>>
<1>0. /\ row \in [Requests -> CodeRow \cup {Idle}]
      /\ \A r \in Requests : row[r] # Idle => row[r] \in CodeRow /\ row[r].attempts \in Nat
      /\ \A s \in Senders : sender[s] # Idle =>
            sender[s].msg.req \in Requests /\ row[sender[s].msg.req] # Idle
      /\ \A c \in Callers : caller[c] # Idle =>
            caller[c].req \in Requests /\ row[caller[c].req] # Idle
  BY DEF CodesTypeOK, CodesSound, RowsStay, CodeRow, Sending, Message, Judging
<1>1. ASSUME NEW s \in Senders, Record(s)
      PROVE  \E r \in Requests, x \in CodeRow :
                 /\ row[r] # Idle /\ row' = [row EXCEPT ![r] = x]
                 /\ x.to = row[r].to /\ x.code = row[r].code
                 /\ x.attempts >= row[r].attempts /\ x.valid = row[r].valid
                 /\ r = sender[s].msg.req
  <2>1. PICK st \in Statuses : row' = [row EXCEPT ![sender[s].msg.req].status = st]
    BY <1>1 DEF Record, Statuses
  <2>2. PICK r \in Requests : r = sender[s].msg.req /\ row[r] # Idle
    BY <1>0, <1>1 DEF Record
  <2>3. row' = [row EXCEPT ![r] = [row[r] EXCEPT !.status = st]]
    BY <2>1, <2>2
  <2>4. row[r] \in CodeRow /\ st \in Statuses
    BY <2>1, <2>2, <1>0
  <2>5. PICK y \in CodeRow :
          /\ y = [row[r] EXCEPT !.status = st]
          /\ y.to = row[r].to /\ y.code = row[r].code /\ y.attempts >= row[r].attempts
          /\ y.valid = row[r].valid /\ y.status = st
    BY <2>4, RowEdits
  <2> QED
    BY <2>2, <2>3, <2>5
<1>2. ASSUME NEW r \in Requests, Expire(r)
      PROVE  \E x \in CodeRow :
                 /\ row[r] # Idle /\ row' = [row EXCEPT ![r] = x]
                 /\ x.to = row[r].to /\ x.code = row[r].code
                 /\ x.attempts >= row[r].attempts /\ x.valid = row[r].valid
                 /\ x.status = row[r].status
  <2>1. row[r] # Idle /\ row' = [row EXCEPT ![r] = [row[r] EXCEPT !.expired = TRUE]]
    BY <1>2 DEF Expire
  <2>2. row[r] \in CodeRow /\ "SENT" \in Statuses
    BY <2>1, <1>0 DEF Statuses
  <2>3. PICK y \in CodeRow :
          /\ y = [row[r] EXCEPT !.expired = TRUE]
          /\ y.to = row[r].to /\ y.code = row[r].code /\ y.attempts >= row[r].attempts
          /\ y.valid = row[r].valid /\ y.status = row[r].status
    BY <2>2, RowEdits
  <2> QED
    BY <2>1, <2>3
<1>3. ASSUME NEW c \in Callers, SafeExpire(c) \/ BlockRecord(c)
      PROVE  \/ row' = row
             \/ \E r \in Requests, x \in CodeRow :
                 /\ row[r] # Idle /\ row' = [row EXCEPT ![r] = x]
                 /\ x.to = row[r].to /\ x.code = row[r].code
                 /\ x.attempts >= row[r].attempts /\ x.valid = row[r].valid
                 /\ x.status = "FAILED"
  <2>1. PICK r \in Requests : r = caller[c].req /\ row[r] # Idle
    BY <1>0, <1>3 DEF SafeExpire, BlockRecord, At
  <2>2. row' = row \/ row' = [row EXCEPT ![r] = [row[r] EXCEPT !.status = "FAILED", !.active = FALSE]]
    BY <1>3, <2>1, <1>0 DEF SafeExpire, BlockRecord
  <2>3. row[r] \in CodeRow /\ "FAILED" \in Statuses
    BY <2>1, <1>0 DEF Statuses
  <2>4. PICK y \in CodeRow :
          /\ y = [row[r] EXCEPT !.status = "FAILED", !.active = FALSE]
          /\ y.to = row[r].to /\ y.code = row[r].code /\ y.attempts >= row[r].attempts
          /\ y.valid = row[r].valid /\ y.status = "FAILED"
    BY <2>3, RowEdits
  <2> QED
    BY <2>1, <2>2, <2>4
<1>4. ASSUME NEW c \in Callers, Miss(c)
      PROVE  \E r \in Requests, x \in CodeRow :
                 /\ row[r] # Idle /\ row' = [row EXCEPT ![r] = x]
                 /\ x.to = row[r].to /\ x.code = row[r].code
                 /\ x.attempts >= row[r].attempts /\ x.valid = row[r].valid
                 /\ x.status = row[r].status
  <2>1. PICK r \in Requests : r = caller[c].req /\ row[r] # Idle
    BY <1>0, <1>4 DEF Miss, At
  <2>2. row' = [row EXCEPT ![r] = [row[r] EXCEPT !.attempts = row[r].attempts + 1]]
    BY <1>4, <2>1, <1>0 DEF Miss, Increased
  <2>3. row[r] \in CodeRow /\ "SENT" \in Statuses
    BY <2>1, <1>0 DEF Statuses
  <2>4. PICK y \in CodeRow :
          /\ y = [row[r] EXCEPT !.attempts = row[r].attempts + 1]
          /\ y.to = row[r].to /\ y.code = row[r].code /\ y.attempts >= row[r].attempts
          /\ y.valid = row[r].valid /\ y.status = row[r].status
    BY <2>3, RowEdits
  <2> QED
    BY <2>1, <2>2, <2>4
<1>5. ASSUME NEW c \in Callers, Consume(c)
      PROVE  \E r \in Requests, x \in CodeRow :
                 /\ row[r] # Idle /\ row' = [row EXCEPT ![r] = x]
                 /\ x.to = row[r].to /\ x.code = row[r].code
                 /\ x.attempts >= row[r].attempts /\ r = caller[c].req
                 /\ x.valid = TRUE /\ x.status = "VALIDATED"
  <2>1. PICK r \in Requests : r = caller[c].req /\ row[r] # Idle
    BY <1>0, <1>5 DEF Consume, At
  <2>2. row' = [row EXCEPT ![r] =
             [row[r] EXCEPT !.status = "VALIDATED", !.valid = TRUE,
                            !.active = FALSE, !.attempts = row[r].attempts + 1]]
    BY <1>5, <2>1, <1>0 DEF Consume
  <2>3. row[r] \in CodeRow /\ "SENT" \in Statuses
    BY <2>1, <1>0 DEF Statuses
  <2>4. PICK y \in CodeRow :
          /\ y = [row[r] EXCEPT !.status = "VALIDATED", !.valid = TRUE,
                                !.active = FALSE, !.attempts = row[r].attempts + 1]
          /\ y.to = row[r].to /\ y.code = row[r].code /\ y.attempts = row[r].attempts + 1
          /\ y.attempts >= row[r].attempts /\ y.valid = TRUE /\ y.status = "VALIDATED"
    BY <2>3, RowEdits
  <2> QED
    BY <2>1, <2>2, <2>4
<1>6. UNCHANGED <<queue, deliveries, codes, inbox, interrupted>>
  BY DEF Edit, Record, Expire, SafeExpire, BlockRecord, Miss, Consume
<1>7. CASE \E s \in Senders : Record(s)
  BY <1>1, <1>6, <1>7
<1>8. CASE \E r \in Requests : Expire(r)
  BY <1>2, <1>6, <1>8
<1>9. CASE \E c \in Callers : SafeExpire(c) \/ BlockRecord(c)
  BY <1>3, <1>6, <1>9
<1>10. CASE \E c \in Callers : Miss(c)
  BY <1>4, <1>6, <1>10
<1>11. CASE \E c \in Callers : Consume(c)
  <2>1. PICK c \in Callers : Consume(c)
    BY <1>11
  <2>2. PICK r \in Requests, x \in CodeRow :
                 /\ row[r] # Idle /\ row' = [row EXCEPT ![r] = x]
                 /\ x.to = row[r].to /\ x.code = row[r].code
                 /\ x.attempts >= row[r].attempts /\ r = caller[c].req
                 /\ x.valid = TRUE /\ x.status = "VALIDATED"
    BY <1>5, <2>1
  <2>3. /\ x.valid = TRUE /\ \E d \in Callers : Consume(d) /\ r = caller[d].req
        /\ x.status = "VALIDATED" /\ \E d \in Callers : Consume(d) /\ r = caller[d].req
    BY <2>1, <2>2
  <2> QED
    BY <1>6, <2>2, <2>3
<1> QED
  BY <1>7, <1>8, <1>9, <1>10, <1>11 DEF Edit
-----------------------------------------------------------------------------
\* A consumer or a call that goes on keeps its message, its request and its code.
LEMMA SenderMoves ==
  ASSUME CodesTypeOK, NEW s \in Senders, sender[s] # Idle,
         \/ sender' = [sender EXCEPT ![s] = Idle]
         \/ sender' = [sender EXCEPT ![s].at = "record"]
  PROVE  SendersKept /\ sender' \in [Senders -> Sending \cup {Idle}]
<1>1. sender \in [Senders -> Sending \cup {Idle}] /\ sender[s] \in Sending
  BY DEF CodesTypeOK
<1>2. CASE sender' = [sender EXCEPT ![s] = Idle]
  BY <1>1, <1>2 DEF SendersKept
<1>3. CASE sender' = [sender EXCEPT ![s].at = "record"]
  <2>1. PICK x : x = [sender[s] EXCEPT !.at = "record"]
    OBVIOUS
  <2>2. x \in Sending /\ x.msg = sender[s].msg /\ x.code = sender[s].code
    BY <1>1, <2>1 DEF Sending
  <2>3. x # Idle /\ sender' = [sender EXCEPT ![s] = x]
    BY <1>3, <2>1, <2>2, IdleApart
  <2>4. \A t \in Senders : t # s => sender'[t] = sender[t]
    BY <1>1, <2>3
  <2>5. sender'[s] = x
    BY <1>1, <2>3
  <2> QED
    BY <1>1, <2>2, <2>3, <2>4, <2>5 DEF SendersKept
<1> QED
  BY <1>2, <1>3

LEMMA CallerMoves ==
  ASSUME CodesTypeOK, NEW c \in Callers,
         \/ caller' = [caller EXCEPT ![c] = Idle]
         \/ /\ caller[c] # Idle
            /\ \E p \in {"block", "valid"} : caller' = [caller EXCEPT ![c].at = p]
  PROVE  CallersKept /\ caller' \in [Callers -> Judging \cup {Idle}]
<1>1. caller \in [Callers -> Judging \cup {Idle}]
  BY DEF CodesTypeOK
<1>2. CASE caller' = [caller EXCEPT ![c] = Idle]
  BY <1>1, <1>2 DEF CallersKept
<1>3. CASE caller[c] # Idle /\ \E p \in {"block", "valid"} : caller' = [caller EXCEPT ![c].at = p]
  <2>0. caller[c] \in Judging
    BY <1>1, <1>3
  <2>1. PICK p \in {"block", "valid"} : caller' = [caller EXCEPT ![c].at = p]
    BY <1>3
  <2>2. PICK x : x = [caller[c] EXCEPT !.at = p]
    OBVIOUS
  <2>3. x \in Judging /\ x.req = caller[c].req /\ x.code = caller[c].code /\ x.at = p
    BY <2>0, <2>1, <2>2 DEF Judging
  <2>4. x # Idle /\ caller' = [caller EXCEPT ![c] = x]
    BY <2>1, <2>2, <2>3, IdleApart
  <2>5. caller'[c] = x /\ \A d \in Callers : d # c => caller'[d] = caller[d]
    BY <1>1, <2>4
  <2> QED
    BY <1>1, <1>3, <2>1, <2>3, <2>4, <2>5 DEF CallersKept
<1> QED
  BY <1>2, <1>3

LEMMA Unmoved ==
  ASSUME CodesTypeOK
  PROVE  /\ row' = row => RowsKept
         /\ sender' = sender => SendersKept
         /\ caller' = caller => CallersKept
<1>1. row' = row => RowsKept
  <2>1. \A q \in Requests : row[q] # Idle => row[q] \in CodeRow /\ row[q].attempts >= row[q].attempts
    BY DEF CodesTypeOK, CodeRow
  <2> QED
    BY <2>1 DEF RowsKept
<1> QED
  BY <1>1 DEF SendersKept, CallersKept

\* The steps that generate no code, receive none and judge none.
Calm == \/ Ask \/ Edit \/ UNCHANGED codeVars
        \/ \E s \in Senders : Crash(s)
        \/ \E c \in Callers : Quit(c)

LEMMA CalmKeeps ==
  ASSUME CodesTypeOK, CodesSound, Calm
  PROVE  /\ RowsKept /\ SendersKept /\ CallersKept
         /\ UNCHANGED <<codes, inbox>>
         /\ row' \in [Requests -> CodeRow \cup {Idle}]
         /\ sender' \in [Senders -> Sending \cup {Idle}]
         /\ caller' \in [Callers -> Judging \cup {Idle}]
<1>0. /\ row \in [Requests -> CodeRow \cup {Idle}]
      /\ sender \in [Senders -> Sending \cup {Idle}]
      /\ caller \in [Callers -> Judging \cup {Idle}]
  BY DEF CodesTypeOK
<1>1. CASE Ask \/ UNCHANGED codeVars
  <2>1. UNCHANGED <<row, sender, caller, codes, inbox>>
    BY <1>1 DEF Ask, Publish, codeVars
  <2> QED
    BY <2>1, <1>0, Unmoved
<1>2. CASE \E s \in Senders : Crash(s)
  <2>1. PICK s \in Senders : sender[s] # Idle /\ sender' = [sender EXCEPT ![s] = Idle]
                             /\ UNCHANGED <<row, caller, codes, inbox>>
    BY <1>2 DEF Crash
  <2> QED
    BY <2>1, <1>0, Unmoved, SenderMoves
<1>3. CASE \E c \in Callers : Quit(c)
  <2>1. PICK c \in Callers : caller' = [caller EXCEPT ![c] = Idle]
                             /\ UNCHANGED <<row, sender, codes, inbox>>
    BY <1>3 DEF Quit, Leave
  <2> QED
    BY <2>1, <1>0, Unmoved, CallerMoves
<1>4. CASE Edit
  <2>1. RowsKept /\ row' \in [Requests -> CodeRow \cup {Idle}] /\ UNCHANGED <<codes, inbox>>
    <3>1. UNCHANGED <<codes, inbox>>
      BY <1>4, EditShape
    <3>2. CASE row' = row
      BY <3>1, <3>2, <1>0, Unmoved
    <3>3. CASE \E r \in Requests, x \in CodeRow :
                 /\ row[r] # Idle /\ row' = [row EXCEPT ![r] = x]
                 /\ x.to = row[r].to /\ x.code = row[r].code
                 /\ x.attempts >= row[r].attempts
      BY <3>1, <3>3, RowKept
    <3> QED
      BY <3>2, <3>3, <1>4, EditShape
  <2>2. SendersKept /\ sender' \in [Senders -> Sending \cup {Idle}]
    <3>1. CASE \E s \in Senders : Record(s)
      BY <3>1, SenderMoves DEF Record
    <3>2. CASE ~ \E s \in Senders : Record(s)
      <4>1. sender' = sender
        BY <3>2, <1>4 DEF Edit, Expire, SafeExpire, BlockRecord, Miss, Consume
      <4> QED
        BY <4>1, <1>0, Unmoved
    <3> QED
      BY <3>1, <3>2
  <2>3. CallersKept /\ caller' \in [Callers -> Judging \cup {Idle}]
    <3>1. CASE (\E s \in Senders : Record(s)) \/ (\E r \in Requests : Expire(r))
      <4>1. caller' = caller
        BY <3>1 DEF Record, Expire
      <4> QED
        BY <4>1, <1>0, Unmoved
    <3>2. CASE \E c \in Callers : SafeExpire(c) \/ BlockRecord(c) \/ Miss(c) \/ Consume(c)
      <4>1. PICK c \in Callers : SafeExpire(c) \/ BlockRecord(c) \/ Miss(c) \/ Consume(c)
        BY <3>2
      <4>2. \/ caller' = [caller EXCEPT ![c] = Idle]
            \/ /\ caller[c] # Idle
               /\ \E p \in {"block", "valid"} : caller' = [caller EXCEPT ![c].at = p]
        BY <4>1 DEF SafeExpire, BlockRecord, Miss, Consume, Leave, At
      <4> QED
        BY <4>2, CallerMoves
    <3> QED
      BY <3>1, <3>2, <1>4 DEF Edit
  <2> QED
    BY <2>1, <2>2, <2>3
<1> QED
  BY <1>1, <1>2, <1>3, <1>4 DEF Calm

\* Such steps keep what is known of the codes.
LEMMA SoundCalm ==
  ASSUME CodesTypeOK, CodesSound, Calm
  PROVE  CodeHasOneRow' /\ RowsStay' /\ ConsumedIsReceived'
<1>0. /\ RowsKept /\ SendersKept /\ CallersKept /\ UNCHANGED <<codes, inbox>>
      /\ row' \in [Requests -> CodeRow \cup {Idle}]
      /\ \A s \in Senders : sender[s] # Idle => sender[s].msg.req \in Requests
      /\ \A c \in Callers : caller[c] # Idle => caller[c].req \in Requests
  BY CalmKeeps DEF CodesTypeOK, Sending, Message, Judging
<1>1. \A q \in Requests : row'[q] # Idle => /\ row[q] # Idle
                                            /\ row'[q].to = row[q].to /\ row'[q].code = row[q].code
  BY <1>0 DEF RowsKept
<1>2. \A s \in Senders : sender'[s] # Idle =>
        sender[s] # Idle /\ sender'[s].msg = sender[s].msg /\ sender'[s].code = sender[s].code
  BY <1>0 DEF SendersKept
<1>3. \A c \in Callers : caller'[c] # Idle =>
        /\ caller[c] # Idle /\ caller'[c].req = caller[c].req /\ caller'[c].code = caller[c].code
        /\ caller'[c].at = "consume" => caller[c].at = "consume"
  BY <1>0 DEF CallersKept
<1>4. CodeHasOneRow'
  BY <1>0, <1>1, <1>2, <1>3 DEF CodesSound, CodeHasOneRow
<1>5. RowsStay'
  <2>1. \A q \in Requests : row[q] # Idle => row'[q] # Idle
    BY <1>0, IdleApart DEF RowsKept
  <2> QED
    BY <1>0, <1>2, <1>3, <2>1 DEF CodesSound, RowsStay
<1>6. ConsumedIsReceived'
  BY <1>0, <1>3 DEF CodesSound, ConsumedIsReceived, At
<1> QED
  BY <1>4, <1>5, <1>6
-----------------------------------------------------------------------------
\* A generated code, and what its transaction leaves of the other rows.
LEMMA StoreShape ==
  ASSUME CodesTypeOK, NEW m \in Message, NEW k \in Code, Store(m, k)
  PROVE  /\ row' \in [Requests -> CodeRow \cup {Idle}]
         /\ row'[m.req] = NewRow(m.to, k)
         /\ \A r \in Requests \ {m.req} :
              /\ row'[r] = Idle <=> row[r] = Idle
              /\ row[r] # Idle => /\ row'[r].to = row[r].to /\ row'[r].code = row[r].code
                                  /\ row'[r].attempts = row[r].attempts
                                  /\ row'[r].status = row[r].status /\ row'[r].valid = row[r].valid
<1>1. m.req \in Requests /\ m.to \in Addresses
  BY DEF Message
<1>2. NewRow(m.to, k) \in CodeRow
  BY <1>1 DEF NewRow, CodeRow, Statuses
<1>3. \A r \in Requests : row[r] # Idle =>
        /\ [row[r] EXCEPT !.active = FALSE] \in CodeRow
        /\ [row[r] EXCEPT !.active = FALSE].to = row[r].to
        /\ [row[r] EXCEPT !.active = FALSE].code = row[r].code
        /\ [row[r] EXCEPT !.active = FALSE].attempts = row[r].attempts
        /\ [row[r] EXCEPT !.active = FALSE].status = row[r].status
        /\ [row[r] EXCEPT !.active = FALSE].valid = row[r].valid
  BY DEF CodesTypeOK, CodeRow
<1>4. \A r \in Requests :
        row'[r] = IF r = m.req THEN NewRow(m.to, k)
                  ELSE IF row[r] # Idle /\ SameChannel(r, m.req) /\ row[r].to = m.to
                       THEN [row[r] EXCEPT !.active = FALSE] ELSE row[r]
  BY DEF Store
<1>5. \A r \in Requests : row'[r] \in CodeRow \cup {Idle}
  BY <1>2, <1>3, <1>4 DEF CodesTypeOK
<1>6. row' \in [Requests -> CodeRow \cup {Idle}]
  BY <1>5 DEF Store
<1>7. \A r \in Requests \ {m.req} :
        /\ row'[r] = Idle <=> row[r] = Idle
        /\ row[r] # Idle => /\ row'[r].to = row[r].to /\ row'[r].code = row[r].code
                            /\ row'[r].attempts = row[r].attempts
                            /\ row'[r].status = row[r].status /\ row'[r].valid = row[r].valid
  <2> TAKE r \in Requests \ {m.req}
  <2>1. CASE row'[r] = row[r]
    BY <2>1
  <2>2. CASE row'[r] = [row[r] EXCEPT !.active = FALSE] /\ row[r] # Idle
    <3>1. row'[r] # Idle
      BY <1>3, <2>2, IdleApart
    <3> QED
      BY <1>3, <2>2, <3>1
  <2> QED
    BY <1>4, <2>1, <2>2
<1>8. row'[m.req] = NewRow(m.to, k)
  BY <1>1, <1>4
<1> QED
  BY <1>6, <1>7, <1>8

\* A consumer takes a message: it generates a code, or drops the message.
LEMMA TakeShape ==
  ASSUME CodesTypeOK, CodesPaid, NEW s \in Senders, Take(s)
  PROVE  /\ sender[s] = Idle /\ CodesPaid'
         /\ \E m \in queue :
              /\ queue' = queue \ {m} /\ m \in Message
              /\ \/ /\ MayStore(m.req) /\ codes + 1 \in Code /\ codes' = codes + 1
                    /\ Store(m, codes + 1)
                    /\ sender' = [sender EXCEPT ![s] =
                         [msg |-> m, code |-> codes + 1, at |-> "send"]]
                    /\ [msg |-> m, code |-> codes + 1, at |-> "send"] \in Sending
                 \/ ~ MayStore(m.req) /\ UNCHANGED <<row, codes, sender>>
         /\ UNCHANGED <<caller, deliveries, inbox, misses, spent, misproved, interrupted>>
<1>1. PICK m \in queue :
        /\ queue' = queue \ {m}
        /\ IF MayStore(m.req)
           THEN /\ codes' = codes + 1
                /\ Store(m, codes + 1)
                /\ sender' = [sender EXCEPT ![s] = [msg |-> m, code |-> codes + 1, at |-> "send"]]
           ELSE UNCHANGED <<row, codes, sender>>
  BY DEF Take
<1>2. /\ IsFiniteSet(queue) /\ codes + Cardinality(queue) <= deliveries
      /\ codes \in Nat /\ deliveries \in Nat /\ deliveries <= MaxDeliveries /\ m \in Message
  BY DeliveriesAssumption DEF CodesPaid, CodesTypeOK
<1>3. /\ IsFiniteSet(queue \ {m}) /\ Cardinality(queue \ {m}) = Cardinality(queue) - 1
      /\ Cardinality(queue) \in Nat /\ Cardinality(queue \ {m}) \in Nat
  BY <1>1, <1>2, FS_RemoveElement, FS_CardinalityType
<1>4. codes + 1 \in Code
  BY <1>2, <1>3, DeliveriesAssumption DEF Code
<1>5. CodesPaid'
  <2>1. deliveries' = deliveries /\ codes' \in {codes, codes + 1}
    BY <1>1 DEF Take
  <2> QED
    BY <1>1, <1>2, <1>3, <2>1 DEF CodesPaid
<1>6. [msg |-> m, code |-> codes + 1, at |-> "send"] \in Sending
  BY <1>2, <1>4 DEF Sending
<1> QED
  BY <1>1, <1>2, <1>4, <1>5, <1>6 DEF Take

LEMMA SoundTake ==
  ASSUME CodesTypeOK, CodesPaid, CodesSound, NEW s \in Senders, Take(s)
  PROVE  CodesSound'
<1>1. PICK m \in queue :
        /\ m \in Message
        /\ \/ /\ codes + 1 \in Code /\ codes' = codes + 1 /\ Store(m, codes + 1)
              /\ sender' = [sender EXCEPT ![s] = [msg |-> m, code |-> codes + 1, at |-> "send"]]
              /\ [msg |-> m, code |-> codes + 1, at |-> "send"] \in Sending
           \/ UNCHANGED <<row, codes, sender>>
  BY TakeShape
<1>2. UNCHANGED <<caller, deliveries, inbox, misses>>
  BY TakeShape
<1>3. CASE UNCHANGED <<row, codes, sender>>
  BY <1>2, <1>3 DEF CodesSound, CodesGenerated, CodeHasOneRow, RowsStay, ConsumedIsReceived, At
<1>4. CASE /\ codes + 1 \in Code /\ codes' = codes + 1 /\ Store(m, codes + 1)
           /\ sender' = [sender EXCEPT ![s] = [msg |-> m, code |-> codes + 1, at |-> "send"]]
           /\ [msg |-> m, code |-> codes + 1, at |-> "send"] \in Sending
  <2>0. PICK k \in Code : k = codes + 1
    BY <1>4
  <2>1. /\ row' \in [Requests -> CodeRow \cup {Idle}]
        /\ row'[m.req] = NewRow(m.to, k)
        /\ \A r \in Requests \ {m.req} :
              /\ row'[r] = Idle <=> row[r] = Idle
              /\ row[r] # Idle => row'[r].to = row[r].to /\ row'[r].code = row[r].code
    BY <1>1, <1>4, <2>0, StoreShape
  <2>2. row'[m.req].code = k /\ row'[m.req].to = m.to /\ m.req \in Requests
        /\ row'[m.req] # Idle
    <3>1. m.to \in Addresses /\ m.req \in Requests
      BY <1>1 DEF Message
    <3>2. NewRow(m.to, k).code = k /\ NewRow(m.to, k).to = m.to /\ NewRow(m.to, k) \in CodeRow
      BY <2>0, <3>1 DEF NewRow, CodeRow, Statuses
    <3> QED
      BY <2>1, <3>1, <3>2, IdleApart
  <2>3. /\ sender \in [Senders -> Sending \cup {Idle}]
        /\ codes \in Nat /\ k > codes /\ codes' = k /\ k \in Nat
    BY <2>0, <1>4, DeliveriesAssumption DEF CodesTypeOK
  <2>4. /\ sender'[s].msg = m /\ sender'[s].code = k /\ sender'[s].at = "send" /\ sender'[s] # Idle
        /\ \A t \in Senders \ {s} : sender'[t] = sender[t]
    BY <1>4, <2>0, <2>3, IdleApart
  <2>5. /\ \A r \in Requests : row[r] # Idle => row[r].code \in Code
        /\ \A t \in Senders : sender[t] # Idle => sender[t].code \in Code
        /\ \A c \in Callers : caller[c] # Idle => caller[c].code \in Code
        /\ \A d \in inbox : d[2] \in Code
    BY DEF CodesTypeOK, CodeRow, Sending, Judging
  <2>6. /\ \A r \in Requests : row[r] # Idle => row[r].code # k /\ row[r].code <= k
        /\ \A t \in Senders : sender[t] # Idle => sender[t].code # k /\ sender[t].code <= k
        /\ \A c \in Callers : caller[c] # Idle => caller[c].code # k /\ caller[c].code <= k
        /\ \A d \in inbox : d[2] # k /\ d[2] <= k
    BY <2>3, <2>5 DEF CodesSound, CodesGenerated, Code
  <2>7. CodesGenerated'
    <3>1. \A j \in Code : j > codes' => j > codes
      BY <2>3 DEF Code
    <3>2. /\ \A r \in Requests : row'[r] # Idle => row'[r].code <= k
          /\ \A t \in Senders : sender'[t] # Idle => sender'[t].code <= k
      BY <2>1, <2>2, <2>3, <2>4, <2>6
    <3> QED
      BY <1>2, <2>3, <2>6, <3>1, <3>2 DEF CodesSound, CodesGenerated, Code
  <2>8. CodeHasOneRow'
    <3>1. \A q, r \in Requests :
            row'[q] # Idle /\ row'[r] # Idle /\ row'[q].code = row'[r].code => q = r
      BY <2>1, <2>2, <2>6 DEF CodesSound, CodeHasOneRow
    <3>2. \A t \in Senders, r \in Requests :
            sender'[t] # Idle /\ row'[r] # Idle /\ sender'[t].code = row'[r].code =>
              sender'[t].msg.req = r /\ sender'[t].msg.to = row'[r].to
      <4> TAKE t \in Senders, r \in Requests
      <4>1. CASE t = s
        BY <4>1, <2>1, <2>2, <2>4, <2>6
      <4>2. CASE t # s /\ r = m.req
        BY <4>2, <2>2, <2>4, <2>6
      <4>3. CASE t # s /\ r # m.req
        BY <4>3, <2>1, <2>4 DEF CodesSound, CodeHasOneRow
      <4> QED
        BY <4>1, <4>2, <4>3
    <3>3. \A c \in Callers, r \in Requests :
            caller'[c] # Idle /\ row'[r] # Idle /\ caller'[c].code = row'[r].code
              => caller'[c].req = r
      BY <1>2, <2>1, <2>2, <2>6 DEF CodesSound, CodeHasOneRow
    <3>4. \A d \in inbox', r \in Requests :
            row'[r] # Idle /\ row'[r].code = d[2] => row'[r].to = d[1]
      BY <1>2, <2>1, <2>2, <2>6 DEF CodesSound, CodeHasOneRow
    <3> QED
      BY <3>1, <3>2, <3>3, <3>4 DEF CodeHasOneRow
  <2>9. RowsStay'
    <3>1. /\ \A t \in Senders : sender[t] # Idle => sender[t].msg.req \in Requests
          /\ \A c \in Callers : caller[c] # Idle => caller[c].req \in Requests
      BY DEF CodesTypeOK, Sending, Message, Judging
    <3>2. \A r \in Requests : row[r] # Idle => row'[r] # Idle
      BY <2>1, <2>2
    <3> QED
      BY <1>2, <2>2, <2>4, <3>1, <3>2 DEF CodesSound, RowsStay
  <2>10. ConsumedIsReceived'
    BY <1>2 DEF CodesSound, ConsumedIsReceived, At
  <2> QED
    BY <2>7, <2>8, <2>9, <2>10 DEF CodesSound
<1> QED
  BY <1>1, <1>3, <1>4

\* A code goes out to the address of its row.
LEMMA SoundDeliver ==
  ASSUME CodesTypeOK, CodesSound, NEW s \in Senders, Deliver(s)
  PROVE  /\ CodesSound'
         /\ sender' \in [Senders -> Sending \cup {Idle}] /\ inbox' \subseteq Addresses \X Code
<1>1. /\ sender[s] # Idle /\ sender' = [sender EXCEPT ![s].at = "record"]
      /\ inbox' = inbox \cup {<<sender[s].msg.to, sender[s].code>>}
      /\ UNCHANGED <<row, caller, codes, misses>>
  BY DEF Deliver
<1>2. SendersKept /\ sender' \in [Senders -> Sending \cup {Idle}]
  BY <1>1, SenderMoves
<1>3. \A t \in Senders : sender'[t] # Idle =>
        sender[t] # Idle /\ sender'[t].msg = sender[t].msg /\ sender'[t].code = sender[t].code
  BY <1>2 DEF SendersKept
<1>4. /\ sender[s].msg.to \in Addresses /\ sender[s].code \in Code
  BY <1>1 DEF CodesTypeOK, Sending, Message
<1>5. PICK d : d = <<sender[s].msg.to, sender[s].code>>
  OBVIOUS
<1>6. d \in Addresses \X Code /\ d[1] = sender[s].msg.to /\ d[2] = sender[s].code
      /\ inbox' = inbox \cup {d}
  BY <1>1, <1>4, <1>5
<1>7. inbox' \subseteq Addresses \X Code
  BY <1>6 DEF CodesTypeOK
<1>8. CodesGenerated'
  BY <1>1, <1>3, <1>6 DEF CodesSound, CodesGenerated
<1>9. CodeHasOneRow'
  BY <1>1, <1>3, <1>6 DEF CodesSound, CodeHasOneRow
<1>10. RowsStay'
  BY <1>1, <1>3 DEF CodesSound, RowsStay
<1>11. ConsumedIsReceived'
  BY <1>1 DEF CodesSound, ConsumedIsReceived, At
<1> QED
  BY <1>2, <1>7, <1>8, <1>9, <1>10, <1>11 DEF CodesSound

\* What a call has read when it judges a guess.
LEMMA JudgeShape ==
  ASSUME CodesTypeOK, NEW c \in Callers, NEW r \in Requests, NEW guess \in Guesses,
         Validate(c, r, guess)
  PROVE  /\ caller[c] = Idle /\ row[r] # Idle /\ row[r] \in CodeRow
         /\ caller' \in [Callers -> Judging \cup {Idle}]
         /\ caller'[c] # Idle /\ caller'[c].req = r /\ caller'[c].code = row[r].code
         /\ caller'[c].at \in {"expire", "block", "miss", "consume"}
         /\ caller'[c].at \in {"miss", "consume"} =>
              row[r].status = "SENT" /\ row[r].attempts < MaxAttempts
         /\ caller'[c].at = "consume" => \E a \in Addresses : <<a, row[r].code>> \in inbox
         /\ \A d \in Callers \ {c} : caller'[d] = caller[d]
         /\ UNCHANGED <<row, queue, sender, deliveries, codes, inbox,
                        misses, spent, misproved, interrupted>>
<1> DEFINE v == Verdict(row[r], guess)
<1>1. /\ row[r] # Idle /\ caller[c] = Idle /\ v # "refused"
      /\ caller' = [caller EXCEPT ![c] = [req |-> r, code |-> row[r].code, at |-> v]]
      /\ UNCHANGED <<row, queue, sender, deliveries, codes, inbox,
                     misses, spent, misproved, interrupted>>
  BY DEF Validate
<1>2. row[r] \in CodeRow
  BY <1>1 DEF CodesTypeOK
<1>3. /\ v \in {"expire", "block", "miss", "consume"}
      /\ v \in {"miss", "consume"} => row[r].status = "SENT" /\ ~ (row[r].attempts >= MaxAttempts)
      /\ v = "consume" => row[r].code = guess
  BY <1>1 DEF Verdict
<1>4. v \in {"miss", "consume"} => row[r].attempts < MaxAttempts
  BY <1>2, <1>3, AttemptsAssumption DEF CodeRow
<1>5. v = "consume" => \E a \in Addresses : <<a, row[r].code>> \in inbox
  <2> SUFFICES ASSUME v = "consume" PROVE \E a \in Addresses : <<a, row[r].code>> \in inbox
    OBVIOUS
  <2>1. guess = row[r].code /\ guess \in Code /\ guess # 0
    BY <1>2, <1>3 DEF CodeRow, Code
  <2>2. PICK d \in inbox : d[2] = guess
    BY <2>1 DEF Guesses
  <2>3. d[1] \in Addresses /\ d = <<d[1], d[2]>>
    BY <2>2 DEF CodesTypeOK
  <2> QED
    BY <2>1, <2>2, <2>3
<1> HIDE DEF v
<1>6. PICK x : x = [req |-> r, code |-> row[r].code, at |-> v]
  OBVIOUS
<1>7. x \in Judging /\ x.req = r /\ x.code = row[r].code /\ x.at = v
  BY <1>2, <1>3, <1>6 DEF Judging, CodeRow
<1>8. x # Idle /\ caller' = [caller EXCEPT ![c] = x] /\ caller \in [Callers -> Judging \cup {Idle}]
  BY <1>1, <1>6, <1>7, IdleApart DEF CodesTypeOK
<1> QED
  BY <1>1, <1>2, <1>3, <1>4, <1>5, <1>7, <1>8

LEMMA SoundJudge ==
  ASSUME CodesTypeOK, CodesSound, Judge
  PROVE  CodesSound' /\ caller' \in [Callers -> Judging \cup {Idle}]
<1>1. PICK c \in Callers, r \in Requests, guess \in Guesses : Validate(c, r, guess)
  BY DEF Judge
<1>2. /\ row[r] # Idle
      /\ caller' \in [Callers -> Judging \cup {Idle}]
      /\ caller'[c] # Idle /\ caller'[c].req = r /\ caller'[c].code = row[r].code
      /\ caller'[c].at = "consume" => \E a \in Addresses : <<a, row[r].code>> \in inbox
      /\ \A d \in Callers \ {c} : caller'[d] = caller[d]
      /\ UNCHANGED <<row, sender, codes, inbox, misses>>
  BY <1>1, JudgeShape
<1>3. CodesGenerated'
  BY <1>2 DEF CodesSound, CodesGenerated
<1>4. CodeHasOneRow'
  BY <1>2 DEF CodesSound, CodeHasOneRow
<1>5. RowsStay'
  BY <1>2 DEF CodesSound, RowsStay
<1>6. ConsumedIsReceived'
  BY <1>2 DEF CodesSound, ConsumedIsReceived, At
<1> QED
  BY <1>2, <1>3, <1>4, <1>5, <1>6 DEF CodesSound
-----------------------------------------------------------------------------
LEMMA GeneratedCalm ==
  ASSUME CodesTypeOK, CodesSound, Calm
  PROVE  CodesGenerated' /\ misses' \in [Code -> Nat]
<1>0. /\ RowsKept /\ SendersKept /\ CallersKept /\ UNCHANGED <<codes, inbox>>
      /\ misses \in [Code -> Nat]
  BY CalmKeeps DEF CodesTypeOK
<1>1. /\ \A r \in Requests : row'[r] # Idle => row'[r].code <= codes
      /\ \A s \in Senders : sender'[s] # Idle => sender'[s].code <= codes
      /\ \A c \in Callers : caller'[c] # Idle => caller'[c].code <= codes
  BY <1>0 DEF RowsKept, SendersKept, CallersKept, CodesSound, CodesGenerated
<1>2. /\ misses' \in [Code -> Nat]
      /\ \A k \in Code : k > codes => misses'[k] = 0
  <2>1. CASE misses' = misses
    BY <1>0, <2>1 DEF CodesSound, CodesGenerated
  <2>2. CASE \E c \in Callers : Miss(c)
    <3>1. PICK c \in Callers : Miss(c)
      BY <2>2
    <3>2. PICK k \in Code : k = caller[c].code /\ k <= codes
      BY <3>1 DEF Miss, At, CodesTypeOK, Judging, CodesSound, CodesGenerated
    <3>3. misses' = [misses EXCEPT ![k] = misses[k] + 1] /\ misses[k] \in Nat
      BY <1>0, <3>1, <3>2 DEF Miss
    <3>4. codes \in Nat /\ \A j \in Code : j > codes => j # k
      BY <3>2, DeliveriesAssumption DEF CodesTypeOK, Code
    <3> QED
      BY <1>0, <3>3, <3>4 DEF CodesSound, CodesGenerated
  <2>3. misses' = misses \/ \E c \in Callers : Miss(c)
    BY DEF Calm, Ask, Publish, Edit, Record, Expire, SafeExpire, BlockRecord, Consume, codeVars,
           Crash, Quit
  <2> QED
    BY <2>1, <2>2, <2>3
<1> QED
  BY <1>0, <1>1, <1>2 DEF CodesSound, CodesGenerated

\* The queue holds no more messages than were published or delivered again.
LEMMA PaidCalm ==
  ASSUME CodesTypeOK, CodesPaid, CodesSound, Calm
  PROVE  /\ CodesPaid' /\ queue' \subseteq Message /\ deliveries' \in 0..MaxDeliveries
         /\ interrupted' \subseteq Requests
<1>0. /\ IsFiniteSet(queue) /\ codes + Cardinality(queue) <= deliveries
      /\ codes \in Nat /\ deliveries \in Nat /\ deliveries <= MaxDeliveries /\ codes' = codes
      /\ queue \subseteq Message /\ Cardinality(queue) \in Nat /\ MaxDeliveries \in Nat
      /\ interrupted \subseteq Requests
  <2>1. codes' = codes
    BY CalmKeeps
  <2> QED
    BY <2>1, DeliveriesAssumption, FS_CardinalityType DEF CodesPaid, CodesTypeOK
<1>1. CASE UNCHANGED <<queue, deliveries, interrupted>>
  BY <1>0, <1>1 DEF CodesPaid, CodesTypeOK
<1>2. CASE \E m \in Message : /\ deliveries < MaxDeliveries /\ deliveries' = deliveries + 1
                              /\ queue' = queue \cup {m} /\ interrupted' \subseteq Requests
  <2>1. PICK m \in Message : /\ deliveries < MaxDeliveries /\ deliveries' = deliveries + 1
                             /\ queue' = queue \cup {m} /\ interrupted' \subseteq Requests
    BY <1>2
  <2>2. /\ IsFiniteSet(queue \cup {m})
        /\ Cardinality(queue \cup {m}) \in {Cardinality(queue), Cardinality(queue) + 1}
    BY <1>0, FS_AddElement
  <2> QED
    BY <1>0, <2>1, <2>2 DEF CodesPaid
<1>3. CASE Ask
  <2>1. PICK r \in Requests, a \in Addresses : Publish(r, a)
    BY <1>3 DEF Ask
  <2>2. [req |-> r, to |-> a] \in Message
    BY DEF Message
  <2> QED
    BY <1>0, <1>2, <2>1, <2>2 DEF Publish
<1>4. CASE \E s \in Senders : Crash(s)
  <2>1. PICK s \in Senders : Crash(s)
    BY <1>4
  <2>2. sender[s].msg \in Message /\ sender[s].msg.req \in Requests
    BY <2>1 DEF Crash, CodesTypeOK, Sending, Message
  <2> QED
    BY <1>0, <1>2, <2>1, <2>2 DEF Crash
<1>5. UNCHANGED <<queue, deliveries, interrupted>> \/ Ask \/ \E s \in Senders : Crash(s)
  BY DEF Calm, Edit, Record, Expire, SafeExpire, BlockRecord, Miss, Consume, codeVars, Quit
<1> QED
  BY <1>1, <1>3, <1>4, <1>5

LEMMA ProofsCalm ==
  ASSUME CodesTypeOK, CodesSound, Calm
  PROVE  spent' \subseteq Code /\ misproved' \subseteq Addresses
<1>1. CASE \E c \in Callers : Consume(c)
  <2>1. PICK c \in Callers : Consume(c)
    BY <1>1
  <2>2. /\ caller[c] \in Judging /\ row[caller[c].req] \in CodeRow
    BY <2>1 DEF Consume, At, CodesTypeOK, CodesSound, RowsStay, Judging
  <2>3. caller[c].code \in Code /\ row[caller[c].req].to \in Addresses
    BY <2>2 DEF Judging, CodeRow
  <2>4. /\ spent' = spent \cup {caller[c].code}
        /\ misproved' \in {misproved, misproved \cup {row[caller[c].req].to}}
    BY <2>1 DEF Consume
  <2> QED
    BY <2>3, <2>4 DEF CodesTypeOK
<1>2. CASE UNCHANGED <<spent, misproved>>
  BY <1>2 DEF CodesTypeOK
<1>3. UNCHANGED <<spent, misproved>> \/ \E c \in Callers : Consume(c)
  BY DEF Calm, Ask, Publish, Edit, Record, Expire, SafeExpire, BlockRecord, Miss, codeVars,
         Crash, Quit
<1> QED
  BY <1>1, <1>2, <1>3

CodesInv == CodesTypeOK /\ CodesPaid /\ CodesSound

LEMMA CodesInvInit == CodesInit => CodesInv
<1> SUFFICES ASSUME CodesInit PROVE CodesInv
  OBVIOUS
<1>1. 0 \in 0..MaxDeliveries /\ 0 \in Nat
  BY DeliveriesAssumption
<1>2. CodesTypeOK
  BY <1>1 DEF CodesInit, CodesTypeOK
<1>3. CodesPaid
  BY FS_EmptySet DEF CodesInit, CodesPaid
<1>4. CodesSound
  BY DEF CodesInit, CodesSound, CodesGenerated, CodeHasOneRow, RowsStay, ConsumedIsReceived, At
<1> QED
  BY <1>2, <1>3, <1>4 DEF CodesInv

LEMMA CodesInvStep == CodesInv /\ CodeMove => CodesInv'
<1> SUFFICES ASSUME CodesTypeOK, CodesPaid, CodesSound, CodeMove PROVE CodesInv'
  BY DEF CodesInv
<1>1. CASE Calm
  <2>1. CodesSound' /\ CodesPaid'
    BY <1>1, SoundCalm, GeneratedCalm, PaidCalm DEF CodesSound
  <2>2. CodesTypeOK'
    <3>1. codes' = codes /\ inbox' = inbox
      BY <1>1, CalmKeeps
    <3> QED
      BY <1>1, <3>1, CalmKeeps, GeneratedCalm, PaidCalm, ProofsCalm DEF CodesTypeOK
  <2> QED
    BY <2>1, <2>2 DEF CodesInv
<1>2. CASE \E s \in Senders : Take(s)
  <2>1. PICK s \in Senders : Take(s)
    BY <1>2
  <2>2. CodesSound' /\ CodesPaid'
    BY <2>1, SoundTake, TakeShape
  <2>3. PICK m \in queue :
              /\ queue' = queue \ {m} /\ m \in Message
              /\ \/ /\ codes + 1 \in Code /\ codes' = codes + 1
                    /\ Store(m, codes + 1)
                    /\ sender' = [sender EXCEPT ![s] =
                         [msg |-> m, code |-> codes + 1, at |-> "send"]]
                    /\ [msg |-> m, code |-> codes + 1, at |-> "send"] \in Sending
                 \/ UNCHANGED <<row, codes, sender>>
    BY <2>1, TakeShape
  <2>4. UNCHANGED <<caller, deliveries, inbox, misses, spent, misproved, interrupted>>
    BY <2>1, TakeShape
  <2>5. /\ row' \in [Requests -> CodeRow \cup {Idle}]
        /\ sender' \in [Senders -> Sending \cup {Idle}]
        /\ codes' \in 0..MaxDeliveries
    <3>1. CASE UNCHANGED <<row, codes, sender>>
      BY <3>1 DEF CodesTypeOK
    <3>2. CASE /\ codes + 1 \in Code /\ codes' = codes + 1 /\ Store(m, codes + 1)
               /\ sender' = [sender EXCEPT ![s] = [msg |-> m, code |-> codes + 1, at |-> "send"]]
               /\ [msg |-> m, code |-> codes + 1, at |-> "send"] \in Sending
      <4>1. row' \in [Requests -> CodeRow \cup {Idle}]
        BY <2>3, <3>2, StoreShape
      <4>2. codes' \in 0..MaxDeliveries
        BY <3>2, DeliveriesAssumption DEF Code
      <4> QED
        BY <3>2, <4>1, <4>2 DEF CodesTypeOK
    <3> QED
      BY <2>3, <3>1, <3>2
  <2>6. queue' \subseteq Message
    BY <2>3 DEF CodesTypeOK
  <2>7. CodesTypeOK'
    BY <2>4, <2>5, <2>6 DEF CodesTypeOK
  <2> QED
    BY <2>2, <2>7 DEF CodesInv
<1>3. CASE \E s \in Senders : Deliver(s)
  <2>1. PICK s \in Senders : Deliver(s)
    BY <1>3
  <2>2. /\ CodesSound'
        /\ sender' \in [Senders -> Sending \cup {Idle}] /\ inbox' \subseteq Addresses \X Code
    BY <2>1, SoundDeliver
  <2>3. UNCHANGED <<row, queue, caller, deliveries, codes, misses, spent, misproved, interrupted>>
    BY <2>1 DEF Deliver
  <2> QED
    BY <2>2, <2>3 DEF CodesInv, CodesTypeOK, CodesPaid
<1>4. CASE Judge
  <2>1. UNCHANGED <<row, queue, sender, deliveries, codes, inbox,
                    misses, spent, misproved, interrupted>>
    BY <1>4 DEF Judge, Validate
  <2> QED
    BY <1>4, <2>1, SoundJudge DEF CodesInv, CodesTypeOK, CodesPaid
<1> QED
  BY <1>1, <1>2, <1>3, <1>4 DEF CodeMove, Calm

-----------------------------------------------------------------------------
(* The attempts counter.                                                   *)

LEMMA UncountedFinite ==
  ASSUME NEW k
  PROVE  /\ IsFiniteSet(Uncounted(k)) /\ Cardinality(Uncounted(k)) \in Nat
         /\ Cardinality(Uncounted(k)) <= Cardinality(Callers)
         /\ IsFiniteSet(Uncounted(k)') /\ Cardinality(Uncounted(k)') \in Nat
         /\ Cardinality(Uncounted(k)') <= Cardinality(Callers)
         /\ Uncounted(k)' \subseteq Uncounted(k) =>
              Cardinality(Uncounted(k)') <= Cardinality(Uncounted(k))
         /\ \A c \in Uncounted(k) : Uncounted(k)' \subseteq Uncounted(k) \ {c} =>
              Cardinality(Uncounted(k)') <= Cardinality(Uncounted(k)) - 1
<1>1. Uncounted(k) \subseteq Callers /\ Uncounted(k)' \subseteq Callers
  BY DEF Uncounted
<1> HIDE DEF Uncounted
<1>2. /\ IsFiniteSet(Uncounted(k)) /\ Cardinality(Uncounted(k)) <= Cardinality(Callers)
      /\ IsFiniteSet(Uncounted(k)') /\ Cardinality(Uncounted(k)') <= Cardinality(Callers)
  BY <1>1, CallersFinite, FS_Subset
<1>3. Cardinality(Uncounted(k)) \in Nat /\ Cardinality(Uncounted(k)') \in Nat
  BY <1>2, FS_CardinalityType
<1>4. Uncounted(k)' \subseteq Uncounted(k) =>
        Cardinality(Uncounted(k)') <= Cardinality(Uncounted(k))
  BY <1>2, FS_Subset
<1>5. ASSUME NEW c \in Uncounted(k), Uncounted(k)' \subseteq Uncounted(k) \ {c}
      PROVE  Cardinality(Uncounted(k)') <= Cardinality(Uncounted(k)) - 1
  <2>1. /\ IsFiniteSet(Uncounted(k) \ {c})
        /\ Cardinality(Uncounted(k) \ {c}) = Cardinality(Uncounted(k)) - 1
    BY <1>2, FS_RemoveElement
  <2>2. Cardinality(Uncounted(k)') <= Cardinality(Uncounted(k) \ {c})
    BY <1>5, <2>1, FS_Subset
  <2> QED
    BY <2>1, <2>2
<1> QED
  BY <1>2, <1>3, <1>4, <1>5
-----------------------------------------------------------------------------
\* A counted miss was pending, and the row that still has its code counts it too.
LEMMA MissShape ==
  ASSUME CodesInv, NEW c \in Callers, Miss(c)
  PROVE  \E k \in Code, r \in Requests, x \in CodeRow :
           /\ k = caller[c].code /\ r = caller[c].req /\ c \in Uncounted(k)
           /\ row[r] # Idle /\ row' = [row EXCEPT ![r] = x]
           /\ x.code = row[r].code /\ x.attempts = row[r].attempts + 1
           /\ misses' = [misses EXCEPT ![k] = misses[k] + 1]
           /\ \A d \in Callers : d # c => caller'[d] = caller[d]
           /\ caller'[c] # Idle => caller'[c].at = "block"
<1>1. /\ caller[c] # Idle /\ caller[c].at = "miss" /\ caller[c] \in Judging
      /\ caller \in [Callers -> Judging \cup {Idle}]
      /\ row \in [Requests -> CodeRow \cup {Idle}] /\ row[caller[c].req] # Idle
  BY DEF Miss, At, CodesInv, CodesTypeOK, CodesSound, RowsStay
<1>2. PICK k \in Code, r \in Requests : k = caller[c].code /\ r = caller[c].req
  BY <1>1 DEF Judging
<1>3. row[r] \in CodeRow /\ "SENT" \in Statuses
  BY <1>1, <1>2 DEF Statuses
<1>4. PICK x \in CodeRow :
        /\ x = [row[r] EXCEPT !.attempts = row[r].attempts + 1]
        /\ x.to = row[r].to /\ x.code = row[r].code /\ x.attempts = row[r].attempts + 1
        /\ x.attempts >= row[r].attempts /\ x.valid = row[r].valid /\ x.status = row[r].status
  BY <1>3, RowEdits
<1>5. /\ row' = [row EXCEPT ![r] = [row[r] EXCEPT !.attempts = row[r].attempts + 1]]
      /\ misses' = [misses EXCEPT ![k] = misses[k] + 1]
      /\ \/ caller' = [caller EXCEPT ![c].at = "block"]
         \/ caller' = [caller EXCEPT ![c] = Idle]
  BY <1>1, <1>2 DEF Miss, Increased, Leave
<1>6. c \in Uncounted(k)
  BY <1>1, <1>2 DEF Uncounted, At
<1>7. /\ \A d \in Callers : d # c => caller'[d] = caller[d]
      /\ caller'[c] # Idle => caller'[c].at = "block"
  <2>1. [caller[c] EXCEPT !.at = "block"].at = "block"
    BY <1>1 DEF Judging
  <2> QED
    BY <1>1, <1>5, <2>1
<1> QED
  BY <1>1, <1>2, <1>4, <1>5, <1>6, <1>7

LEMMA CountedMiss ==
  ASSUME CodesInv, MissesCounted, NEW c \in Callers, Miss(c)
  PROVE  MissesCounted'
<1>1. PICK k \in Code, r \in Requests, x \in CodeRow :
           /\ k = caller[c].code /\ r = caller[c].req /\ c \in Uncounted(k)
           /\ row[r] # Idle /\ row' = [row EXCEPT ![r] = x]
           /\ x.code = row[r].code /\ x.attempts = row[r].attempts + 1
           /\ misses' = [misses EXCEPT ![k] = misses[k] + 1]
           /\ \A d \in Callers : d # c => caller'[d] = caller[d]
           /\ caller'[c] # Idle => caller'[c].at = "block"
  BY MissShape
<1>2. /\ row \in [Requests -> CodeRow \cup {Idle}] /\ misses \in [Code -> Nat]
      /\ \A q \in Requests : row[q] # Idle => row[q].code \in Code /\ row[q].attempts \in Nat
  BY DEF CodesInv, CodesTypeOK, CodeRow
<1>3. \A q \in Requests : row[q] # Idle /\ row[q].code = k => q = r
  BY <1>1 DEF CodesInv, CodesSound, CodeHasOneRow, Uncounted, At
<1>4. \A q \in Requests : row'[q] # Idle => misses'[row'[q].code] <= row'[q].attempts
  <2> SUFFICES ASSUME NEW q \in Requests, row'[q] # Idle
               PROVE  misses'[row'[q].code] <= row'[q].attempts
    OBVIOUS
  <2>1. row[q] # Idle /\ misses[row[q].code] <= row[q].attempts
    BY <1>1, <1>2 DEF MissesCounted
  <2>2. CASE q = r
    <3>1. row'[q] = x
      BY <1>1, <1>2, <2>2
    <3>2. misses'[x.code] \in {misses[x.code], misses[x.code] + 1}
      BY <1>1, <1>2
    <3> QED
      BY <1>1, <1>2, <2>1, <2>2, <3>1, <3>2
  <2>3. CASE q # r
    BY <1>1, <1>2, <1>3, <2>1, <2>3
  <2> QED
    BY <2>2, <2>3
<1>5. ASSUME NEW j \in Code
      PROVE  misses'[j] + Cardinality(Uncounted(j)') <= MaxAttempts - 1 + Cardinality(Callers)
  <2>1. Uncounted(j)' \subseteq Uncounted(j) \ {c}
    BY <1>1 DEF Uncounted, At
  <2>2. misses[j] + Cardinality(Uncounted(j)) <= MaxAttempts - 1 + Cardinality(Callers)
    BY DEF MissesCounted
  <2>3. /\ Cardinality(Uncounted(j)) \in Nat /\ Cardinality(Uncounted(j)') \in Nat
        /\ Cardinality(Callers) \in Nat
    BY UncountedFinite, CallersFinite, FS_CardinalityType
  <2>4. CASE j = k
    <3>1. Cardinality(Uncounted(j)') <= Cardinality(Uncounted(j)) - 1
      BY <1>1, <2>1, <2>4, UncountedFinite
    <3>2. misses'[j] = misses[j] + 1 /\ misses[j] \in Nat
      BY <1>1, <1>2, <2>4
    <3> QED
      BY <2>2, <2>3, <3>1, <3>2, AttemptsAssumption
  <2>5. CASE j # k
    <3>1. Cardinality(Uncounted(j)') <= Cardinality(Uncounted(j))
      BY <2>1, UncountedFinite
    <3>2. misses'[j] = misses[j] /\ misses[j] \in Nat
      BY <1>1, <1>2, <2>5
    <3> QED
      BY <2>2, <2>3, <3>1, <3>2, AttemptsAssumption
  <2> QED
    BY <2>4, <2>5
<1> QED
  BY <1>4, <1>5 DEF MissesCounted

\* A call that is about to count a miss read a row with attempts left.
LEMMA CountedJudge ==
  ASSUME CodesInv, MissesCounted, Judge
  PROVE  MissesCounted'
<1>1. PICK c \in Callers, r \in Requests, guess \in Guesses : Validate(c, r, guess)
  BY DEF Judge
<1>2. /\ row[r] # Idle /\ row[r] \in CodeRow
      /\ caller'[c].code = row[r].code
      /\ caller'[c].at \in {"miss", "consume"} => row[r].attempts < MaxAttempts
      /\ \A d \in Callers \ {c} : caller'[d] = caller[d]
      /\ UNCHANGED <<row, misses>>
  BY <1>1, JudgeShape DEF CodesInv
<1>3. misses \in [Code -> Nat] /\ row[r].code \in Code /\ row[r].attempts \in Nat
  BY <1>2 DEF CodesInv, CodesTypeOK, CodeRow
<1>4. ASSUME NEW j \in Code
      PROVE  misses[j] + Cardinality(Uncounted(j)') <= MaxAttempts - 1 + Cardinality(Callers)
  <2>1. /\ Cardinality(Uncounted(j)) \in Nat /\ Cardinality(Uncounted(j)') \in Nat
        /\ Cardinality(Callers) \in Nat /\ misses[j] \in Nat
        /\ Cardinality(Uncounted(j)') <= Cardinality(Callers)
        /\ misses[j] + Cardinality(Uncounted(j)) <= MaxAttempts - 1 + Cardinality(Callers)
    BY <1>3, UncountedFinite, CallersFinite, FS_CardinalityType DEF MissesCounted
  <2>2. CASE j = row[r].code /\ caller'[c].at = "miss"
    <3>1. misses[j] <= row[r].attempts /\ row[r].attempts < MaxAttempts
      BY <1>2, <2>2 DEF MissesCounted
    <3> QED
      BY <1>3, <2>1, <3>1, AttemptsAssumption
  <2>3. CASE ~ (j = row[r].code /\ caller'[c].at = "miss")
    <3>1. Uncounted(j)' \subseteq Uncounted(j)
      BY <1>2, <2>3 DEF Uncounted, At
    <3>2. Cardinality(Uncounted(j)') <= Cardinality(Uncounted(j))
      BY <3>1, UncountedFinite
    <3> QED
      BY <2>1, <3>2, AttemptsAssumption
  <2> QED
    BY <2>2, <2>3
<1> QED
  BY <1>2, <1>4 DEF MissesCounted

\* The other steps count nothing; a new code starts with no miss.
LEMMA CountedRest ==
  ASSUME CodesInv, MissesCounted, CodeMove, ~ Judge, ~ \E c \in Callers : Miss(c)
  PROVE  MissesCounted'
<1>1. misses' = misses
  BY DEF CodeMove, Ask, Publish, Edit, Record, Expire, SafeExpire, BlockRecord, Consume, codeVars,
         Crash, Quit, Take, Deliver
<1>2. CallersKept
  <2>1. CASE Calm
    BY <2>1, CalmKeeps DEF CodesInv
  <2>2. CASE \E s \in Senders : Take(s) \/ Deliver(s)
    <3>1. caller' = caller
      BY <2>2 DEF Take, Deliver
    <3> QED
      BY <3>1, Unmoved DEF CodesInv
  <2> QED
    BY <2>1, <2>2 DEF CodeMove, Calm
<1>3. misses \in [Code -> Nat] /\ \A r \in Requests : row[r] # Idle =>
        row[r].code \in Code /\ row[r].attempts \in Nat
  BY DEF CodesInv, CodesTypeOK, CodeRow
<1>4. \A r \in Requests : row'[r] # Idle => misses[row'[r].code] <= row'[r].attempts
  <2>1. CASE RowsKept
    <3> SUFFICES ASSUME NEW r \in Requests, row'[r] # Idle
                 PROVE  misses[row'[r].code] <= row'[r].attempts
      OBVIOUS
    <3>1. /\ row[r] # Idle /\ row'[r].code = row[r].code /\ row'[r].attempts >= row[r].attempts
          /\ row'[r].attempts \in Nat
      BY <2>1 DEF RowsKept, CodeRow
    <3>2. misses[row[r].code] <= row[r].attempts
      BY <3>1 DEF MissesCounted
    <3> QED
      BY <1>3, <3>1, <3>2
  <2>2. CASE \E m \in Message, k \in Code : k = codes + 1 /\ Store(m, k)
    <3>1. PICK m \in Message, k \in Code : k = codes + 1 /\ Store(m, k)
      BY <2>2
    <3>2. /\ row'[m.req] = NewRow(m.to, k)
          /\ \A r \in Requests \ {m.req} :
              /\ row'[r] = Idle <=> row[r] = Idle
              /\ row[r] # Idle => row'[r].code = row[r].code /\ row'[r].attempts = row[r].attempts
      BY <3>1, StoreShape DEF CodesInv
    <3>3. k > codes
      BY <3>1, DeliveriesAssumption DEF CodesInv, CodesTypeOK, Code
    <3>4. misses[k] = 0
      BY <3>3 DEF CodesInv, CodesSound, CodesGenerated
    <3>5. row'[m.req].code = k /\ row'[m.req].attempts = 0
      BY <3>2 DEF NewRow
    <3> QED
      BY <3>2, <3>4, <3>5 DEF MissesCounted
  <2>3. RowsKept \/ \E m \in Message, k \in Code : k = codes + 1 /\ Store(m, k)
    <3>1. CASE Calm
      BY <3>1, CalmKeeps DEF CodesInv
    <3>2. CASE \E s \in Senders : Take(s)
      <4>1. PICK s \in Senders : Take(s)
        BY <3>2
      <4>2. \E m \in queue : m \in Message /\ ((codes + 1 \in Code /\ Store(m, codes + 1)) \/ row' = row)
        BY <4>1, TakeShape DEF CodesInv
      <4> QED
        BY <4>2, Unmoved DEF CodesInv
    <3>3. CASE \E s \in Senders : Deliver(s)
      BY <3>3, Unmoved DEF CodesInv, Deliver
    <3> QED
      BY <3>1, <3>2, <3>3 DEF CodeMove, Calm
  <2> QED
    BY <2>1, <2>2, <2>3
<1>5. ASSUME NEW j \in Code
      PROVE  misses[j] + Cardinality(Uncounted(j)') <= MaxAttempts - 1 + Cardinality(Callers)
  <2>1. Uncounted(j)' \subseteq Uncounted(j)
    BY <1>2 DEF CallersKept, Uncounted, At
  <2>2. /\ Cardinality(Uncounted(j)) \in Nat /\ Cardinality(Uncounted(j)') \in Nat
        /\ Cardinality(Callers) \in Nat /\ misses[j] \in Nat
        /\ misses[j] + Cardinality(Uncounted(j)) <= MaxAttempts - 1 + Cardinality(Callers)
        /\ Cardinality(Uncounted(j)') <= Cardinality(Uncounted(j))
    BY <1>3, <2>1, UncountedFinite, CallersFinite, FS_CardinalityType DEF MissesCounted
  <2> QED
    BY <2>2, AttemptsAssumption
<1> QED
  BY <1>1, <1>4, <1>5 DEF MissesCounted

LEMMA CountedStep == CodesInv /\ MissesCounted /\ CodeMove => MissesCounted'
BY CountedMiss, CountedJudge, CountedRest

LEMMA CountedInit == CodesInit => MissesCounted
<1> SUFFICES ASSUME CodesInit PROVE MissesCounted
  OBVIOUS
<1>1. \A k : Uncounted(k) = {}
  BY DEF CodesInit, Uncounted, At
<1>2. Cardinality({}) = 0 /\ Cardinality(Callers) \in Nat
  BY CallersFinite, FS_EmptySet, FS_CardinalityType
<1>3. \A k \in Code : misses[k] + Cardinality(Uncounted(k)) <= MaxAttempts - 1 + Cardinality(Callers)
  BY <1>1, <1>2, AttemptsAssumption DEF CodesInit
<1>4. \A r \in Requests : row[r] = Idle
  BY DEF CodesInit
<1> QED
  BY <1>3, <1>4 DEF MissesCounted

LEMMA CountedBounds == CodesInv /\ MissesCounted => GuessesBounded
<1> SUFFICES ASSUME CodesInv, MissesCounted, NEW k \in Code
             PROVE  misses[k] <= MaxAttempts + Cardinality(Callers) - 1
  BY DEF GuessesBounded
<1>1. /\ Cardinality(Uncounted(k)) \in Nat /\ Cardinality(Callers) \in Nat /\ misses[k] \in Nat
      /\ misses[k] + Cardinality(Uncounted(k)) <= MaxAttempts - 1 + Cardinality(Callers)
  BY UncountedFinite, CallersFinite, FS_CardinalityType DEF MissesCounted, CodesInv, CodesTypeOK
<1> QED
  BY <1>1, AttemptsAssumption
-----------------------------------------------------------------------------
(* The handlers of Accounts, as steps of Codes.                            *)

LEMMA HandlersMove ==
  ASSUME [AccountsNext]_accountVars
  PROVE  CodeMove
<1>1. CASE UNCHANGED accountVars
  BY <1>1 DEF accountVars, CodeMove
<1>2. CASE PlainStep
  <2>1. SendMailToken \/ SendPhoneToken => Ask
    BY RequestsApart DEF SendMailToken, SendPhoneToken, Ask, Requests
  <2> QED
    BY <1>2, <2>1 DEF PlainStep, CodeMove, Edit, Judge
<1>3. CASE Passwords
  <2>1. ASSUME NEW kind \in Kinds, NEW r \in PhoneRequests, NEW u \in Addresses,
               RequestChange(kind, r, u)
        PROVE  CodeMove
    BY <2>1 DEF RequestChange, CodeMove, Ask, Requests
  <2>2. ASSUME NEW c \in Callers, NEW r \in PhoneRequests, NEW guess \in Guesses,
               ValidateReset(c, r, guess) \/ \E u \in Addresses : ConfirmUpdate(c, r, guess, u)
        PROVE  CodeMove
    BY <2>2 DEF ValidateReset, ConfirmUpdate, CodeMove, Judge, Requests
  <2>3. ASSUME NEW c \in Callers, MarkValidated(c) \/ WriteConfirmed(c)
        PROVE  CodeMove
    BY <2>3 DEF MarkValidated, WriteConfirmed, Answer, CodeMove, Quit
  <2>4. ASSUME NEW c \in Callers,
               WritePassword(c) \/ DeleteKey(c) \/ \E r \in PhoneRequests : ResetPassword(c, r)
        PROVE  CodeMove
    BY <2>4 DEF WritePassword, DeleteKey, ResetPassword, CodeMove
  <2>5. ASSUME NEW r \in PhoneRequests, KeyExpires(r)
        PROVE  CodeMove
    BY <2>5 DEF KeyExpires, CodeMove
  <2> QED
    BY <1>3, <2>1, <2>2, <2>3, <2>4, <2>5 DEF Passwords
<1>4. CASE SigningUp
  BY <1>4 DEF SigningUp, SignUp, CreateBusiness, CreateProfile, SelectBusiness, CodeMove
<1>5. CASE \E c \in Callers : Stop(c)
  BY <1>5 DEF Stop, CodeMove, Quit
<1> QED
  BY <1>1, <1>2, <1>3, <1>4, <1>5 DEF AccountsNext

LEMMA JobOK ==
  ASSUME NEW d \in {"reset", "update", "write", "delete", "signup", "profile", "select"},
         NEW r \in Requests \cup {Idle}, NEW u \in Addresses
  PROVE  /\ [do |-> d, req |-> r, user |-> u] \in Job
         /\ [do |-> d, req |-> r, user |-> u] # Idle
<1>1. [do |-> d, req |-> r, user |-> u] \in Job
  BY DEF Job
<1> QED
  BY <1>1, NoKeyNoJob

\* A handler that goes on keeps its request and its user.
LEMMA JobMoves ==
  ASSUME AccountsTypeOK, NEW c \in Callers, work[c] # Idle,
         NEW d \in {"delete", "profile", "select"}, work' = [work EXCEPT ![c].do = d]
  PROVE  /\ work' \in [Callers -> Job \cup {Idle}]
         /\ work'[c] # Idle /\ work'[c].do = d
         /\ work'[c].req = work[c].req /\ work'[c].user = work[c].user
         /\ \A e \in Callers : e # c => work'[e] = work[e]
<1>1. work \in [Callers -> Job \cup {Idle}] /\ work[c] \in Job
  BY DEF AccountsTypeOK
<1>2. PICK x : x = [work[c] EXCEPT !.do = d]
  OBVIOUS
<1>3. x \in Job /\ x.do = d /\ x.req = work[c].req /\ x.user = work[c].user
  BY <1>1, <1>2 DEF Job
<1>4. x # Idle /\ work' = [work EXCEPT ![c] = x]
  BY <1>2, <1>3, NoKeyNoJob
<1> QED
  BY <1>1, <1>3, <1>4
-----------------------------------------------------------------------------
(* What becomes of rows, consumers and calls.                              *)

Consumed(r) == \E c \in Callers : Consume(c) /\ r = caller[c].req
Recorded(r) == \E s \in Senders : Record(s) /\ r = sender[s].msg.req

RowsFollow == \A r \in Requests : row[r] # Idle =>
    /\ row'[r].valid = row[r].valid \/ (row'[r].valid = TRUE /\ Consumed(r))
    /\ \/ row'[r].status = row[r].status \/ row'[r].status = "FAILED"
       \/ row'[r].status = "VALIDATED" /\ Consumed(r)
       \/ Recorded(r)

CallersFollow == \A c \in Callers :
    caller'[c] # Idle /\ caller'[c].at = "valid" => caller[c].at = "valid" \/ Consume(c)

\* The steps that neither store a code nor judge one.
Rest == CodeMove /\ ~ Judge /\ ~ \E s \in Senders : Take(s)

LEMMA RestRows ==
  ASSUME CodesInv, Rest
  PROVE  RowsFollow
<1>1. CASE row' = row
  BY <1>1 DEF RowsFollow
<1>2. CASE Edit
  <2>1. CASE row' = row
    BY <2>1 DEF RowsFollow
  <2>2. CASE \E r \in Requests, x \in CodeRow :
                 /\ row[r] # Idle /\ row' = [row EXCEPT ![r] = x]
                 /\ \/ x.valid = row[r].valid
                    \/ x.valid = TRUE /\ \E c \in Callers : Consume(c) /\ r = caller[c].req
                 /\ \/ x.status = row[r].status \/ x.status = "FAILED"
                    \/ x.status = "VALIDATED" /\ \E c \in Callers : Consume(c) /\ r = caller[c].req
                    \/ \E s \in Senders : Record(s) /\ r = sender[s].msg.req
    <3>1. PICK r \in Requests, x \in CodeRow :
                 /\ row[r] # Idle /\ row' = [row EXCEPT ![r] = x]
                 /\ x.valid = row[r].valid \/ (x.valid = TRUE /\ Consumed(r))
                 /\ \/ x.status = row[r].status \/ x.status = "FAILED"
                    \/ x.status = "VALIDATED" /\ Consumed(r)
                    \/ Recorded(r)
      BY <2>2 DEF Consumed, Recorded
    <3>2. row'[r] = x /\ \A q \in Requests : q # r => row'[q] = row[q]
      BY <3>1 DEF CodesInv, CodesTypeOK
    <3> QED
      BY <3>1, <3>2 DEF RowsFollow
  <2> QED
    BY <1>2, <2>1, <2>2, EditShape DEF CodesInv
<1> QED
  BY <1>1, <1>2 DEF Rest, CodeMove, Ask, Publish, Deliver, Crash, Quit, codeVars

LEMMA RestKeeps ==
  ASSUME CodesInv, Rest
  PROVE  /\ RowsKept /\ SendersKept /\ CallersKept
         /\ RowsFollow /\ CallersFollow
<1>1. Calm => RowsKept /\ SendersKept /\ CallersKept
  BY CalmKeeps DEF CodesInv
<1>2. ASSUME \E s \in Senders : Deliver(s)
      PROVE  RowsKept /\ SendersKept /\ CallersKept
  <2>1. PICK s \in Senders : Deliver(s)
    BY <1>2
  <2>2. sender[s] # Idle /\ sender' = [sender EXCEPT ![s].at = "record"] /\ UNCHANGED <<row, caller>>
    BY <2>1 DEF Deliver
  <2> QED
    BY <2>2, SenderMoves, Unmoved DEF CodesInv
<1>3. RowsKept /\ SendersKept /\ CallersKept
  BY <1>1, <1>2 DEF Rest, CodeMove, Calm
<1>4. CallersFollow
  <2>0. caller \in [Callers -> Judging \cup {Idle}]
    BY DEF CodesInv, CodesTypeOK
  <2>1. CASE UNCHANGED caller
    BY <2>1 DEF CallersFollow
  <2>2. ASSUME NEW c \in Callers, caller' = [caller EXCEPT ![c] = Idle]
        PROVE  CallersFollow
    BY <2>0, <2>2 DEF CallersFollow
  <2>3. ASSUME NEW c \in Callers, Miss(c), caller' = [caller EXCEPT ![c].at = "block"]
        PROVE  CallersFollow
    <3>1. caller[c] \in Judging
      BY <2>0, <2>3 DEF Miss, At
    <3>2. caller'[c].at = "block" /\ \A d \in Callers : d # c => caller'[d] = caller[d]
      BY <2>0, <2>3, <3>1 DEF Judging
    <3> QED
      BY <3>2 DEF CallersFollow
  <2>4. ASSUME NEW c \in Callers, Consume(c)
        PROVE  CallersFollow
    <3>1. \A d \in Callers : d # c => caller'[d] = caller[d]
      BY <2>0, <2>4 DEF Consume
    <3> QED
      BY <2>4, <3>1 DEF CallersFollow
  <2>5. \/ UNCHANGED caller
        \/ \E c \in Callers : caller' = [caller EXCEPT ![c] = Idle]
        \/ \E c \in Callers : Miss(c) /\ caller' = [caller EXCEPT ![c].at = "block"]
        \/ \E c \in Callers : Consume(c)
    <3>1. \A c \in Callers : SafeExpire(c) \/ BlockRecord(c) \/ Quit(c) => caller' = [caller EXCEPT ![c] = Idle]
      BY DEF SafeExpire, BlockRecord, Quit, Leave
    <3>2. \A c \in Callers : Miss(c) => \/ caller' = [caller EXCEPT ![c].at = "block"]
                                        \/ caller' = [caller EXCEPT ![c] = Idle]
      BY DEF Miss, Leave
    <3>3. \A s \in Senders : Record(s) \/ Deliver(s) \/ Crash(s) => UNCHANGED caller
      BY DEF Record, Deliver, Crash
    <3>4. Ask \/ UNCHANGED codeVars \/ (\E r \in Requests : Expire(r)) => UNCHANGED caller
      BY DEF Ask, Publish, codeVars, Expire
    <3> QED
      BY <3>1, <3>2, <3>3, <3>4 DEF Rest, CodeMove, Edit
  <2> QED
    BY <2>1, <2>2, <2>3, <2>4, <2>5
<1> QED
  BY <1>3, <1>4, RestRows

\* The consumer s has generated the code that the message m asks for: a request
\* by telephone has no row yet, and the other rows stay as they are.
Stored(s, m) ==
    /\ m \in Message /\ queue' = queue \ {m}
    /\ m.req \in PhoneRequests => row[m.req] = Idle
    /\ row'[m.req] # Idle /\ row'[m.req].to = m.to
    /\ row'[m.req].status = "PENDING" /\ row'[m.req].valid = FALSE
    /\ \A r \in Requests \ {m.req} :
          /\ row'[r] = Idle <=> row[r] = Idle
          /\ row[r] # Idle => /\ row'[r].to = row[r].to /\ row'[r].code = row[r].code
                              /\ row'[r].status = row[r].status /\ row'[r].valid = row[r].valid
    /\ sender'[s] # Idle /\ sender'[s].msg = m
    /\ \A t \in Senders \ {s} : sender'[t] = sender[t]

LEMMA TakeRow ==
  ASSUME CodesInv, NEW s \in Senders, Take(s)
  PROVE  /\ sender[s] = Idle
         /\ \E m \in queue :
              \/ Stored(s, m)
              \/ UNCHANGED <<row, sender>> /\ queue' = queue \ {m} /\ row[m.req] # Idle
         /\ UNCHANGED <<caller, deliveries, inbox, misses, spent, misproved, interrupted>>
<1>1. sender[s] = Idle /\ UNCHANGED <<caller, deliveries, inbox, misses, spent, misproved, interrupted>>
  BY TakeShape DEF CodesInv
<1>2. PICK m \in queue :
              /\ queue' = queue \ {m} /\ m \in Message
              /\ \/ /\ MayStore(m.req) /\ codes + 1 \in Code /\ codes' = codes + 1
                    /\ Store(m, codes + 1)
                    /\ sender' = [sender EXCEPT ![s] =
                         [msg |-> m, code |-> codes + 1, at |-> "send"]]
                    /\ [msg |-> m, code |-> codes + 1, at |-> "send"] \in Sending
                 \/ ~ MayStore(m.req) /\ UNCHANGED <<row, codes, sender>>
  BY TakeShape DEF CodesInv
<1>3. m.req \in Requests /\ m.to \in Addresses /\ sender \in [Senders -> Sending \cup {Idle}]
  BY <1>2 DEF Message, CodesInv, CodesTypeOK
<1>4. CASE ~ MayStore(m.req) /\ UNCHANGED <<row, codes, sender>>
  <2>1. row[m.req] # Idle
    BY <1>4 DEF MayStore
  <2> QED
    BY <1>1, <1>2, <1>4, <2>1
<1>5. CASE /\ MayStore(m.req) /\ codes + 1 \in Code
           /\ Store(m, codes + 1)
           /\ sender' = [sender EXCEPT ![s] = [msg |-> m, code |-> codes + 1, at |-> "send"]]
           /\ [msg |-> m, code |-> codes + 1, at |-> "send"] \in Sending
  <2>1. PICK k \in Code : k = codes + 1
    BY <1>5
  <2>2. /\ row'[m.req] = NewRow(m.to, k)
        /\ \A r \in Requests \ {m.req} :
              /\ row'[r] = Idle <=> row[r] = Idle
              /\ row[r] # Idle => /\ row'[r].to = row[r].to /\ row'[r].code = row[r].code
                                  /\ row'[r].status = row[r].status /\ row'[r].valid = row[r].valid
    BY <1>2, <1>5, <2>1, StoreShape DEF CodesInv
  <2>3. NewRow(m.to, k) \in CodeRow
    BY <1>3 DEF NewRow, CodeRow, Statuses
  <2>4. /\ row'[m.req] # Idle /\ row'[m.req] \in CodeRow
        /\ row'[m.req].to = m.to /\ row'[m.req].status = "PENDING" /\ row'[m.req].valid = FALSE
    <3>1. /\ NewRow(m.to, k).to = m.to /\ NewRow(m.to, k).status = "PENDING"
          /\ NewRow(m.to, k).valid = FALSE /\ NewRow(m.to, k) # Idle
      BY <2>3, IdleApart DEF NewRow
    <3> QED
      BY <2>2, <2>3, <3>1
  <2>5. PICK x \in Sending : x = [msg |-> m, code |-> codes + 1, at |-> "send"]
    BY <1>5
  <2>6. sender'[s] = x /\ x # Idle /\ x.msg = m /\ \A t \in Senders \ {s} : sender'[t] = sender[t]
    BY <1>3, <1>5, <2>5, IdleApart
  <2>7. m.req \in PhoneRequests => row[m.req] = Idle
    BY <1>5, RequestsApart DEF MayStore
  <2>8. Stored(s, m)
    BY <1>2, <2>2, <2>4, <2>6, <2>7 DEF Stored
  <2> QED
    BY <1>1, <1>2, <2>8
<1> QED
  BY <1>2, <1>4, <1>5
-----------------------------------------------------------------------------
(* The telephone: a request has one row, which one consumer wrote.         *)

Used == {"SENT", "VALIDATED"}

OneSender ==
    \A s, t \in Senders :
        /\ sender[s] # Idle /\ sender[t] # Idle
        /\ sender[s].msg.req = sender[t].msg.req /\ sender[s].msg.req \in PhoneRequests
        => s = t

\* What is being sent was not judged yet, and is not used.
SendingIsNew ==
    \A s \in Senders : sender[s] # Idle /\ sender[s].msg.req \in PhoneRequests =>
        /\ row[sender[s].msg.req].status \notin Used
        /\ \A c \in Callers : At(c, "consume") \/ At(c, "valid") => caller[c].req # sender[s].msg.req

\* A call has the code of the row; once it is valid the row is.
JudgedIsRow ==
    \A c \in Callers : caller[c] # Idle /\ caller[c].req \in PhoneRequests =>
        /\ caller[c].code = row[caller[c].req].code
        /\ caller[c].at = "valid" => /\ row[caller[c].req].valid
                                     /\ row[caller[c].req].status \notin {"PENDING", "SENT"}

\* A validated row was validated with the code that its address received.
ValidIsReceived ==
    \A r \in PhoneRequests : row[r] # Idle /\ row[r].valid => <<row[r].to, row[r].code>> \in inbox

PhoneRows == OneSender /\ SendingIsNew /\ JudgedIsRow /\ ValidIsReceived

\* What a consumed code says of the row that still has it.
LEMMA ConsumeShape ==
  ASSUME CodesInv, NEW c \in Callers, Consume(c)
  PROVE  /\ caller[c] # Idle /\ caller[c].at = "consume"
         /\ caller[c].req \in Requests /\ row[caller[c].req] # Idle
         /\ row'[caller[c].req].valid = TRUE /\ row'[caller[c].req].status = "VALIDATED"
         /\ \A q \in Requests : q # caller[c].req => row'[q] = row[q]
         /\ spent' = spent \cup {caller[c].code}
         /\ IF row[caller[c].req].code = caller[c].code
            THEN /\ misproved' = misproved
                 /\ <<row[caller[c].req].to, row[caller[c].req].code>> \in inbox
            ELSE misproved' = misproved \cup {row[caller[c].req].to}
         /\ UNCHANGED <<queue, sender, inbox>>
<1>1. /\ caller[c] # Idle /\ caller[c].at = "consume" /\ caller[c] \in Judging
      /\ row[caller[c].req] # Idle /\ row \in [Requests -> CodeRow \cup {Idle}]
  BY DEF Consume, At, CodesInv, CodesTypeOK, CodesSound, RowsStay
<1>2. PICK r \in Requests : r = caller[c].req
  BY <1>1 DEF Judging
<1>3. row[r] \in CodeRow /\ "SENT" \in Statuses
  BY <1>1, <1>2 DEF Statuses
<1>4. PICK y \in CodeRow :
          /\ y = [row[r] EXCEPT !.status = "VALIDATED", !.valid = TRUE,
                                !.active = FALSE, !.attempts = row[r].attempts + 1]
          /\ y.to = row[r].to /\ y.code = row[r].code /\ y.attempts = row[r].attempts + 1
          /\ y.attempts >= row[r].attempts /\ y.valid = TRUE /\ y.status = "VALIDATED"
  BY <1>3, RowEdits
<1>5. /\ row' = [row EXCEPT ![r] = [row[r] EXCEPT !.status = "VALIDATED", !.valid = TRUE,
                                !.active = FALSE, !.attempts = row[r].attempts + 1]]
      /\ spent' = spent \cup {caller[c].code}
      /\ misproved' = IF row[r].code = caller[c].code THEN misproved ELSE misproved \cup {row[r].to}
      /\ UNCHANGED <<queue, sender, inbox>>
  BY <1>2 DEF Consume
<1>6. row' = [row EXCEPT ![r] = y]
  BY <1>4, <1>5
<1>7. row'[r] = y /\ \A q \in Requests : q # r => row'[q] = row[q]
  BY <1>1, <1>6
<1>8. row[r].code = caller[c].code => <<row[r].to, row[r].code>> \in inbox
  <2> SUFFICES ASSUME row[r].code = caller[c].code PROVE <<row[r].to, row[r].code>> \in inbox
    OBVIOUS
  <2>1. PICK a \in Addresses : <<a, caller[c].code>> \in inbox
    BY <1>1 DEF CodesInv, CodesSound, ConsumedIsReceived, At
  <2>2. PICK d \in inbox : d = <<a, caller[c].code>>
    BY <2>1
  <2>3. row[r].to = d[1]
    BY <1>1, <1>2, <2>2 DEF CodesInv, CodesSound, CodeHasOneRow
  <2> QED
    BY <2>2, <2>3
<1> QED
  BY <1>1, <1>2, <1>4, <1>5, <1>7, <1>8

LEMMA PhoneRest ==
  ASSUME CodesInv, PhoneRows, Rest
  PROVE  PhoneRows'
<1>0. /\ RowsKept /\ SendersKept /\ CallersKept /\ RowsFollow /\ CallersFollow
      /\ \A s \in Senders : sender[s] # Idle =>
            sender[s].msg.req \in Requests /\ row[sender[s].msg.req] # Idle
      /\ \A c \in Callers : caller[c] # Idle =>
            caller[c].req \in Requests /\ row[caller[c].req] # Idle
  BY RestKeeps DEF CodesInv, CodesTypeOK, CodesSound, RowsStay, Sending, Message, Judging
<1>1. \A r \in Requests : row[r] # Idle =>
        row'[r] # Idle /\ row'[r].to = row[r].to /\ row'[r].code = row[r].code
  BY <1>0, IdleApart DEF RowsKept
<1>2. \A s \in Senders : sender'[s] # Idle =>
        sender[s] # Idle /\ sender'[s].msg = sender[s].msg
  BY <1>0 DEF SendersKept
<1>3. \A c \in Callers : caller'[c] # Idle =>
        /\ caller[c] # Idle /\ caller'[c].req = caller[c].req /\ caller'[c].code = caller[c].code
        /\ caller'[c].at = "consume" => caller[c].at = "consume"
        /\ caller'[c].at = "valid" => caller[c].at = "valid" \/ Consume(c)
  BY <1>0 DEF CallersKept, CallersFollow
<1>4. \A c \in Callers : Consume(c) => caller[c] # Idle /\ caller[c].at = "consume"
  BY DEF Consume, At
<1>5. \A s \in Senders : Record(s) => sender[s] # Idle /\ sender'[s] = Idle
  BY DEF Record, CodesInv, CodesTypeOK
<1>6. OneSender'
  BY <1>2 DEF PhoneRows, OneSender
<1>7. SendingIsNew'
  <2> SUFFICES ASSUME NEW s \in Senders, sender'[s] # Idle, sender'[s].msg.req \in PhoneRequests
               PROVE  /\ row'[sender'[s].msg.req].status \notin Used
                      /\ \A c \in Callers : At(c, "consume")' \/ At(c, "valid")' =>
                            caller'[c].req # sender'[s].msg.req
    BY DEF SendingIsNew
  <2>1. PICK r \in PhoneRequests : r = sender'[s].msg.req /\ r = sender[s].msg.req
                                   /\ sender[s] # Idle /\ r \in Requests /\ row[r] # Idle
    BY <1>0, <1>2 DEF Requests
  <2>2. /\ row[r].status \notin Used
        /\ \A c \in Callers : At(c, "consume") \/ At(c, "valid") => caller[c].req # r
    BY <2>1 DEF PhoneRows, SendingIsNew
  <2>3. ~ Recorded(r)
    BY <1>5, <2>1 DEF PhoneRows, OneSender, Recorded
  <2>4. ~ Consumed(r)
    BY <1>4, <2>2 DEF Consumed, At
  <2>5. row'[r].status \notin Used
    BY <1>0, <2>1, <2>2, <2>3, <2>4 DEF RowsFollow, Used
  <2> QED
    BY <1>3, <1>4, <2>1, <2>2, <2>5 DEF At
<1>8. JudgedIsRow'
  <2> SUFFICES ASSUME NEW c \in Callers, caller'[c] # Idle, caller'[c].req \in PhoneRequests
               PROVE  /\ caller'[c].code = row'[caller'[c].req].code
                      /\ caller'[c].at = "valid" =>
                           /\ row'[caller'[c].req].valid
                           /\ row'[caller'[c].req].status \notin {"PENDING", "SENT"}
    BY DEF JudgedIsRow
  <2>1. PICK r \in PhoneRequests : /\ r = caller'[c].req /\ r = caller[c].req
                                   /\ caller[c] # Idle /\ r \in Requests /\ row[r] # Idle
    BY <1>0, <1>3 DEF Requests
  <2>2. caller'[c].code = row'[r].code
    BY <1>1, <1>3, <2>1 DEF PhoneRows, JudgedIsRow
  <2>3. CASE Consume(c)
    BY <2>1, <2>2, <2>3, ConsumeShape
  <2>4. CASE caller'[c].at = "valid" /\ caller[c].at = "valid"
    <3>1. row[r].valid /\ row[r].status \notin {"PENDING", "SENT"}
      BY <2>1, <2>4 DEF PhoneRows, JudgedIsRow
    <3>2. ~ Recorded(r)
      BY <1>5, <2>1, <2>4 DEF Recorded, PhoneRows, SendingIsNew, At
    <3> QED
      BY <1>0, <2>1, <2>2, <3>1, <3>2 DEF RowsFollow
  <2> QED
    BY <1>3, <2>1, <2>2, <2>3, <2>4
<1>9. ValidIsReceived'
  <2> SUFFICES ASSUME NEW r \in PhoneRequests, row'[r] # Idle, row'[r].valid
               PROVE  <<row'[r].to, row'[r].code>> \in inbox'
    BY DEF ValidIsReceived
  <2>1. r \in Requests /\ row[r] # Idle /\ row'[r].to = row[r].to /\ row'[r].code = row[r].code
    BY <1>0 DEF RowsKept, Requests
  <2>2. inbox \subseteq inbox'
    BY DEF Rest, CodeMove, Ask, Publish, Edit, Record, Expire, SafeExpire, BlockRecord, Miss, Consume,
           Deliver, Crash, Quit, codeVars
  <2>3. CASE row[r].valid
    BY <2>1, <2>2, <2>3 DEF PhoneRows, ValidIsReceived
  <2>4. CASE Consumed(r)
    <3>1. PICK c \in Callers : Consume(c) /\ r = caller[c].req
      BY <2>4 DEF Consumed
    <3>2. caller[c] # Idle /\ row[r].code = caller[c].code
      BY <1>4, <3>1 DEF PhoneRows, JudgedIsRow
    <3>3. <<row[r].to, row[r].code>> \in inbox
      BY <3>1, <3>2, ConsumeShape
    <3> QED
      BY <2>1, <2>2, <3>3
  <2> QED
    BY <1>0, <2>1, <2>3, <2>4 DEF RowsFollow
<1> QED
  BY <1>6, <1>7, <1>8, <1>9 DEF PhoneRows
-----------------------------------------------------------------------------
LEMMA PhoneTake ==
  ASSUME CodesInv, PhoneRows, NEW s \in Senders, Take(s)
  PROVE  PhoneRows'
<1>0. /\ \A t \in Senders : sender[t] # Idle =>
            sender[t].msg.req \in Requests /\ row[sender[t].msg.req] # Idle
      /\ \A c \in Callers : caller[c] # Idle =>
            caller[c].req \in Requests /\ row[caller[c].req] # Idle
  BY DEF CodesInv, CodesTypeOK, CodesSound, RowsStay, Sending, Message, Judging
<1>1. UNCHANGED <<caller, inbox>>
  BY TakeRow
<1>2. CASE UNCHANGED <<row, sender>>
  BY <1>1, <1>2 DEF PhoneRows, OneSender, SendingIsNew, JudgedIsRow, ValidIsReceived, At
<1>3. CASE \E m \in queue : Stored(s, m)
  <2>0. PICK m \in queue : Stored(s, m)
    BY <1>3
  <2>1. /\ m.req \in PhoneRequests => row[m.req] = Idle
        /\ row'[m.req].to = m.to /\ row'[m.req].status = "PENDING" /\ row'[m.req].valid = FALSE
        /\ \A r \in Requests \ {m.req} :
             /\ row'[r] = Idle <=> row[r] = Idle
             /\ row[r] # Idle => /\ row'[r].to = row[r].to /\ row'[r].code = row[r].code
                                 /\ row'[r].status = row[r].status /\ row'[r].valid = row[r].valid
        /\ sender'[s] # Idle /\ sender'[s].msg = m
        /\ \A t \in Senders \ {s} : sender'[t] = sender[t]
    BY <2>0 DEF Stored
  <2>2. \A r \in PhoneRequests : row[r] # Idle =>
          /\ r \in Requests \ {m.req}
          /\ row'[r] # Idle /\ row'[r].to = row[r].to /\ row'[r].code = row[r].code
          /\ row'[r].status = row[r].status /\ row'[r].valid = row[r].valid
    BY <2>1 DEF Requests
  <2>3. OneSender'
    BY <1>0, <2>1 DEF PhoneRows, OneSender
  <2>4. SendingIsNew'
    <3> SUFFICES ASSUME NEW t \in Senders, sender'[t] # Idle, sender'[t].msg.req \in PhoneRequests
                 PROVE  /\ row'[sender'[t].msg.req].status \notin Used
                        /\ \A c \in Callers : At(c, "consume")' \/ At(c, "valid")' =>
                              caller'[c].req # sender'[t].msg.req
      BY DEF SendingIsNew
    <3>1. CASE t = s
      BY <1>0, <1>1, <2>1, <3>1 DEF Used, At
    <3>2. CASE t # s
      BY <1>0, <1>1, <2>1, <2>2, <3>2 DEF PhoneRows, SendingIsNew, At
    <3> QED
      BY <3>1, <3>2
  <2>5. JudgedIsRow'
    BY <1>0, <1>1, <2>2 DEF PhoneRows, JudgedIsRow
  <2>6. ValidIsReceived'
    <3> SUFFICES ASSUME NEW r \in PhoneRequests, row'[r] # Idle, row'[r].valid
                 PROVE  <<row'[r].to, row'[r].code>> \in inbox'
      BY DEF ValidIsReceived
    <3>1. CASE r = m.req
      BY <2>1, <3>1
    <3>2. CASE r # m.req
      BY <1>1, <2>1, <2>2, <3>2 DEF PhoneRows, ValidIsReceived, Requests
    <3> QED
      BY <3>1, <3>2
  <2> QED
    BY <2>3, <2>4, <2>5, <2>6 DEF PhoneRows
<1> QED
  BY <1>2, <1>3, TakeRow

LEMMA PhoneJudge ==
  ASSUME CodesInv, PhoneRows, Judge
  PROVE  PhoneRows'
<1>1. PICK c \in Callers, r \in Requests, guess \in Guesses : Validate(c, r, guess)
  BY DEF Judge
<1>2. /\ row[r] # Idle
      /\ caller'[c] # Idle /\ caller'[c].req = r /\ caller'[c].code = row[r].code
      /\ caller'[c].at \in {"expire", "block", "miss", "consume"}
      /\ caller'[c].at \in {"miss", "consume"} => row[r].status = "SENT"
      /\ \A d \in Callers \ {c} : caller'[d] = caller[d]
      /\ UNCHANGED <<row, queue, sender, inbox>>
  BY <1>1, JudgeShape DEF CodesInv
<1>3. OneSender' /\ ValidIsReceived'
  BY <1>2 DEF PhoneRows, OneSender, ValidIsReceived
<1>4. SendingIsNew'
  BY <1>2 DEF PhoneRows, SendingIsNew, Used, At
<1>5. JudgedIsRow'
  BY <1>2 DEF PhoneRows, JudgedIsRow
<1> QED
  BY <1>3, <1>4, <1>5 DEF PhoneRows

LEMMA PhoneStep == CodesInv /\ PhoneRows /\ CodeMove => PhoneRows'
BY PhoneRest, PhoneTake, PhoneJudge DEF Rest

LEMMA PhoneInit == CodesInit => PhoneRows
BY DEF CodesInit, PhoneRows, OneSender, SendingIsNew, JudgedIsRow, ValidIsReceived, Requests

\* What was received, spent or misproved stays so.
LEMMA ProofsGrow ==
  ASSUME CodeMove
  PROVE  inbox \subseteq inbox' /\ spent \subseteq spent' /\ misproved \subseteq misproved'
<1>1. CASE Edit
  BY <1>1 DEF Edit, Record, Expire, SafeExpire, BlockRecord, Miss, Consume
<1>2. CASE \E s \in Senders : Take(s) \/ Deliver(s) \/ Crash(s)
  BY <1>2 DEF Take, Deliver, Crash
<1>3. CASE Ask \/ Judge \/ UNCHANGED codeVars \/ \E c \in Callers : Quit(c)
  BY <1>3 DEF Ask, Publish, Judge, Validate, codeVars, Quit
<1> QED
  BY <1>1, <1>2, <1>3 DEF CodeMove

\* A row that has become valid was consumed or was valid.
LEMMA ProvenStep ==
  ASSUME CodesInv, ValidatedIsProven, CodeMove
  PROVE  ValidatedIsProven'
<1> SUFFICES ASSUME NEW r \in Requests, row'[r] # Idle, row'[r].valid
             PROVE  \/ <<row'[r].to, row'[r].code>> \in inbox' /\ row'[r].code \in spent'
                    \/ row'[r].to \in misproved'
  BY DEF ValidatedIsProven
<1>1. ASSUME row[r] # Idle, row'[r].to = row[r].to, row'[r].code = row[r].code,
             row[r].valid \/ Consumed(r)
      PROVE  \/ <<row'[r].to, row'[r].code>> \in inbox' /\ row'[r].code \in spent'
             \/ row'[r].to \in misproved'
  <2>1. CASE row[r].valid
    BY <1>1, <2>1, ProofsGrow DEF ValidatedIsProven
  <2>2. CASE Consumed(r)
    <3>1. PICK c \in Callers : Consume(c) /\ r = caller[c].req
      BY <2>2 DEF Consumed
    <3>2. /\ spent' = spent \cup {caller[c].code} /\ inbox' = inbox
          /\ IF row[r].code = caller[c].code
             THEN <<row[r].to, row[r].code>> \in inbox
             ELSE misproved' = misproved \cup {row[r].to}
      BY <3>1, ConsumeShape
    <3> QED
      BY <1>1, <3>2
  <2> QED
    BY <1>1, <2>1, <2>2
<1>2. CASE Rest
  <2>1. row[r] # Idle /\ row'[r].to = row[r].to /\ row'[r].code = row[r].code
    BY <1>2, RestKeeps DEF RowsKept
  <2>2. row[r].valid \/ Consumed(r)
    BY <1>2, <2>1, RestKeeps DEF RowsFollow
  <2> QED
    BY <1>1, <2>1, <2>2
<1>3. CASE Judge
  <2>1. row' = row
    BY <1>3 DEF Judge, Validate
  <2> QED
    BY <1>1, <2>1
<1>4. CASE \E s \in Senders : Take(s)
  <2>1. PICK s \in Senders : Take(s)
    BY <1>4
  <2>2. row' = row \/ \E m \in queue : Stored(s, m)
    BY <2>1, TakeRow
  <2>3. row[r] # Idle /\ row'[r].to = row[r].to /\ row'[r].code = row[r].code /\ row[r].valid
    BY <2>2 DEF Stored
  <2> QED
    BY <1>1, <2>3
<1> QED
  BY <1>2, <1>3, <1>4 DEF Rest

\* A request that was asked for stays so; its telephone row stays as it was sent.
Asked(r) == row[r] # Idle \/ \E m \in queue : m.req = r

LEMMA RequestsLast ==
  ASSUME CodesInv, CodeMove, NEW r \in Requests
  PROVE  /\ row[r] # Idle => row'[r] # Idle
         /\ row[r] # Idle /\ r \in PhoneRequests =>
              row'[r].to = row[r].to /\ (row[r].valid => row'[r].valid)
         /\ Asked(r) => Asked(r)'
<1>1. CASE Rest
  <2>1. row[r] # Idle => row'[r] # Idle /\ row'[r].to = row[r].to
    BY <1>1, RestKeeps, IdleApart DEF RowsKept
  <2>2. row[r] # Idle => (row[r].valid => row'[r].valid)
    BY <1>1, RestKeeps DEF RowsFollow
  <2>3. queue \subseteq queue'
    BY <1>1 DEF Rest, CodeMove, Ask, Publish, Edit, Record, Expire, SafeExpire, BlockRecord, Miss,
                Consume, Deliver, Crash, Quit, codeVars
  <2> QED
    BY <2>1, <2>2, <2>3 DEF Asked
<1>2. CASE Judge
  <2>1. UNCHANGED <<row, queue>>
    BY <1>2 DEF Judge, Validate
  <2> QED
    BY <2>1 DEF Asked
<1>3. CASE \E s \in Senders : Take(s)
  <2>1. PICK s \in Senders : Take(s)
    BY <1>3
  <2>2. PICK m \in queue :
          \/ Stored(s, m)
          \/ UNCHANGED <<row, sender>> /\ queue' = queue \ {m} /\ row[m.req] # Idle
    BY <2>1, TakeRow
  <2>3. /\ queue' = queue \ {m} /\ row'[m.req] # Idle
        /\ row[r] # Idle /\ (r # m.req \/ r \in PhoneRequests) =>
             row'[r] # Idle /\ row'[r].to = row[r].to /\ row'[r].valid = row[r].valid
    BY <2>2 DEF Stored
  <2> QED
    BY <2>3 DEF Asked
<1> QED
  BY <1>1, <1>2, <1>3 DEF Rest
-----------------------------------------------------------------------------
(* The handlers.                                                           *)

OnPassword == {"reset", "update", "write", "delete"}

\* A handler that is busy with a password has a telephone request that was sent;
\* it writes only after the request was validated; and it waits for no code
\* unless it resets or updates, for the code of its own request.
WorkFits ==
    \A c \in Callers : work[c] # Idle =>
        /\ work[c].do \in OnPassword => work[c].req \in PhoneRequests /\ row[work[c].req] # Idle
        /\ work[c].do \notin OnPassword => work[c].req = Idle
        /\ work[c].do \in {"write", "delete"} => row[work[c].req].valid
        /\ work[c].do \notin {"reset", "update"} => caller[c] = Idle
        /\ caller[c] # Idle => caller[c].req = work[c].req

\* Calls that handlers wait for go on as they are.
CallersHeld == \A c \in Callers : work[c] # Idle /\ caller'[c] # Idle =>
    /\ caller[c] # Idle /\ caller'[c].req = caller[c].req
    /\ caller'[c].at = "consume" => caller[c].at = "consume"
    /\ caller'[c].at = "valid" => caller[c].at = "valid" \/ Consume(c)

\* A handler's own step: it begins, goes on or ends, and nobody else moves.
OthersRest(c) == \A d \in Callers \ {c} : work'[d] = work[d] /\ caller'[d] = caller[d]

Ends(c) == work'[c] = Idle /\ caller'[c] = Idle

GoesOn(c) ==
    /\ work[c] # Idle /\ work'[c] # Idle
    /\ work'[c].req = work[c].req /\ work'[c].user = work[c].user
    /\ <<work[c].do, work'[c].do>> \in
          {<<"write", "delete">>, <<"signup", "profile">>, <<"profile", "select">>}
    /\ caller'[c] = caller[c]

Begins(c) ==
    /\ work[c] = Idle /\ caller[c] = Idle /\ work'[c] # Idle
    /\ \/ /\ work'[c].do \in {"reset", "update"}
          /\ \E r \in PhoneRequests, guess \in Guesses :
                /\ Validate(c, r, guess) /\ work'[c].req = r
                /\ work'[c].do = "reset" => key[r] # Idle /\ work'[c].user = key[r].user
       \/ /\ work'[c].do = "write" /\ caller'[c] = Idle
          /\ \E r \in PhoneRequests : /\ KeyAllows(r) /\ work'[c].req = r
                                      /\ work'[c].user = key[r].user
       \/ /\ work'[c].do = "signup" /\ caller'[c] = Idle /\ work'[c].req = Idle
          /\ work'[c].user \in Addresses /\ MailValidated(work'[c].user)

HandlerMoves(c) ==
    /\ OthersRest(c)
    /\ Ends(c) \/ GoesOn(c) \/ Begins(c)
    /\ UNCHANGED <<row, queue, sender, inbox, spent, misproved>>

LEMMA BeginShape ==
  ASSUME AccountsTypeOK, NEW c \in Callers, work[c] = Idle,
         NEW d \in {"reset", "update", "write", "signup"},
         NEW r \in Requests \cup {Idle}, NEW u \in Addresses,
         work' = [work EXCEPT ![c] = [do |-> d, req |-> r, user |-> u]]
  PROVE  /\ work' \in [Callers -> Job \cup {Idle}]
         /\ work'[c] # Idle /\ work'[c].do = d /\ work'[c].req = r /\ work'[c].user = u
         /\ \A e \in Callers \ {c} : work'[e] = work[e]
<1>1. work \in [Callers -> Job \cup {Idle}]
  BY DEF AccountsTypeOK
<1>2. PICK x \in Job : x = [do |-> d, req |-> r, user |-> u] /\ x # Idle
  BY JobOK
<1> QED
  BY <1>1, <1>2

\* A call's answer, or its end without one.
LEMMA LeaveShape ==
  ASSUME CodesInv, NEW c \in Callers, Leave(c)
  PROVE  caller'[c] = Idle /\ \A d \in Callers \ {c} : caller'[d] = caller[d]
BY DEF Leave, CodesInv, CodesTypeOK

LEMMA FinishShape ==
  ASSUME AccountsTypeOK, NEW c \in Callers, Finish(c)
  PROVE  /\ work' \in [Callers -> Job \cup {Idle}]
         /\ work'[c] = Idle /\ \A d \in Callers \ {c} : work'[d] = work[d]
BY DEF Finish, AccountsTypeOK

LEMMA PlainCalls ==
  ASSUME CodesInv, AccountsTypeOK, PlainStep \/ UNCHANGED caller
  PROVE  CallersHeld
<1>1. CASE UNCHANGED caller
  BY <1>1 DEF CallersHeld
<1>2. CASE \E c \in Callers, r \in Requests, guess \in Guesses : Free(c) /\ Validate(c, r, guess)
  <2>1. PICK c \in Callers, r \in Requests, guess \in Guesses : Free(c) /\ Validate(c, r, guess)
    BY <1>2
  <2>2. \A d \in Callers \ {c} : caller'[d] = caller[d]
    BY <2>1, JudgeShape DEF CodesInv
  <2> QED
    BY <2>1, <2>2 DEF CallersHeld, Free
<1>3. CASE PlainStep /\ Rest
  BY <1>3, RestKeeps DEF CallersKept, CallersFollow, CallersHeld
<1>4. CASE \E s \in Senders : Take(s)
  BY <1>1, <1>4 DEF Take
<1>5. CASE PlainStep /\ ~ Rest
  <2>1. CodeMove
    BY <1>5, HandlersMove DEF AccountsNext
  <2>2. Judge \/ \E s \in Senders : Take(s)
    BY <1>5, <2>1 DEF Rest
  <2>3. CASE Judge
    <3>1. PICK c \in Callers, r \in Requests, guess \in Guesses : Validate(c, r, guess)
      BY <2>3 DEF Judge
    <3>2. caller'[c] # Idle /\ caller[c] = Idle
      BY <3>1, JudgeShape DEF CodesInv
    <3>3. ~ UNCHANGED caller
      BY <3>2
    <3>4. \/ \E e \in Callers : SafeExpire(e) \/ BlockRecord(e) \/ Miss(e) \/ Consume(e)
          \/ \E e \in Callers, q \in Requests, g \in Guesses : Free(e) /\ Validate(e, q, g)
      BY <1>5, <3>3 DEF PlainStep, SendMailToken, SendPhoneToken, Publish, Take, Deliver, Record, Crash, Expire
    <3>5. CASE \E e \in Callers : SafeExpire(e) \/ BlockRecord(e) \/ Miss(e) \/ Consume(e)
      <4>1. PICK e \in Callers : SafeExpire(e) \/ BlockRecord(e) \/ Miss(e) \/ Consume(e)
        BY <3>5
      <4>2. caller[e] # Idle
        BY <4>1 DEF SafeExpire, BlockRecord, Miss, Consume, At
      <4>3. \A d \in Callers \ {e} : caller'[d] = caller[d]
        BY <4>1 DEF SafeExpire, BlockRecord, Miss, Consume, Leave, CodesInv, CodesTypeOK
      <4> QED
        BY <3>2, <4>2, <4>3
    <3> QED
      BY <1>2, <3>4, <3>5
  <2> QED
    BY <1>4, <2>2, <2>3
<1> QED
  BY <1>1, <1>3, <1>5
-----------------------------------------------------------------------------
\* The steps that no handler of Accounts makes.
Beside == work' = work /\ CallersHeld

LEMMA JudgeByHandler ==
  ASSUME CodesInv, AccountsTypeOK, NEW c \in Callers, NEW r \in PhoneRequests, NEW guess \in Guesses,
         NEW what \in {"reset", "update"}, NEW u \in Addresses,
         Free(c), Validate(c, r, guess), Begin(c, what, r, u),
         what = "reset" => key[r] # Idle /\ u = key[r].user
  PROVE  HandlerMoves(c) /\ work' \in [Callers -> Job \cup {Idle}]
<1>1. r \in Requests
  BY DEF Requests
<1>2. /\ work' \in [Callers -> Job \cup {Idle}]
      /\ work'[c] # Idle /\ work'[c].do = what /\ work'[c].req = r /\ work'[c].user = u
      /\ \A e \in Callers \ {c} : work'[e] = work[e]
  BY <1>1, BeginShape DEF Begin, Free
<1>3. /\ \A d \in Callers \ {c} : caller'[d] = caller[d]
      /\ UNCHANGED <<row, queue, sender, inbox, spent, misproved>>
  BY <1>1, JudgeShape DEF CodesInv
<1>4. Begins(c)
  BY <1>2 DEF Begins, Free
<1> QED
  BY <1>2, <1>3, <1>4 DEF HandlerMoves, OthersRest

LEMMA PasswordHandler ==
  ASSUME CodesInv, AccountsTypeOK, WorkFits, Passwords
  PROVE  /\ work' \in [Callers -> Job \cup {Idle}]
         /\ Beside \/ \E c \in Callers : HandlerMoves(c)
<1>1. ASSUME NEW kind \in Kinds, NEW r \in PhoneRequests, NEW u \in Addresses,
             RequestChange(kind, r, u)
      PROVE  work' = work /\ caller' = caller
  BY <1>1 DEF RequestChange, Publish
<1>2. ASSUME NEW r \in PhoneRequests, KeyExpires(r)
      PROVE  work' = work /\ caller' = caller
  BY <1>2 DEF KeyExpires, codeVars
<1>3. ASSUME work' = work, caller' = caller
      PROVE  work' \in [Callers -> Job \cup {Idle}] /\ Beside
  BY <1>3, PlainCalls DEF Beside, AccountsTypeOK
<1>4. ASSUME NEW c \in Callers, NEW r \in PhoneRequests, NEW guess \in Guesses,
             ValidateReset(c, r, guess)
      PROVE  HandlerMoves(c) /\ work' \in [Callers -> Job \cup {Idle}]
  <2>1. key[r] \in Key
    BY <1>4 DEF ValidateReset, AccountsTypeOK, Requests
  <2>2. key[r].user \in Addresses
    BY <2>1 DEF Key
  <2> QED
    BY <1>4, <2>2, JudgeByHandler DEF ValidateReset
<1>5. ASSUME NEW c \in Callers, NEW r \in PhoneRequests, NEW guess \in Guesses, NEW u \in Addresses,
             ConfirmUpdate(c, r, guess, u)
      PROVE  HandlerMoves(c) /\ work' \in [Callers -> Job \cup {Idle}]
  BY <1>5, JudgeByHandler DEF ConfirmUpdate
<1>6. ASSUME NEW c \in Callers, NEW r \in PhoneRequests, ResetPassword(c, r)
      PROVE  HandlerMoves(c) /\ work' \in [Callers -> Job \cup {Idle}]
  <2>1. key[r] \in Key /\ r \in Requests
    BY <1>6 DEF ResetPassword, KeyAllows, AccountsTypeOK, Requests
  <2>2. key[r].user \in Addresses
    BY <2>1 DEF Key
  <2>3. /\ work' \in [Callers -> Job \cup {Idle}]
        /\ work'[c] # Idle /\ work'[c].do = "write" /\ work'[c].req = r /\ work'[c].user = key[r].user
        /\ \A e \in Callers \ {c} : work'[e] = work[e]
    BY <1>6, <2>1, <2>2, BeginShape DEF ResetPassword, Begin, Free
  <2>4. UNCHANGED codeVars /\ KeyAllows(r) /\ Free(c)
    BY <1>6 DEF ResetPassword
  <2>5. Begins(c)
    BY <2>3, <2>4 DEF Begins, Free, codeVars
  <2> QED
    BY <2>3, <2>4, <2>5 DEF HandlerMoves, OthersRest, codeVars
<1>7. ASSUME NEW c \in Callers, MarkValidated(c) \/ WriteConfirmed(c)
      PROVE  HandlerMoves(c) /\ work' \in [Callers -> Job \cup {Idle}]
  <2>1. Leave(c) /\ Finish(c) /\ UNCHANGED <<row, queue, sender, inbox, spent, misproved>>
    BY <1>7 DEF MarkValidated, WriteConfirmed, Answer
  <2> QED
    BY <2>1, LeaveShape, FinishShape DEF HandlerMoves, OthersRest, Ends
<1>8. ASSUME NEW c \in Callers, WritePassword(c)
      PROVE  HandlerMoves(c) /\ work' \in [Callers -> Job \cup {Idle}]
  <2>1. work[c] # Idle /\ work[c].do = "write" /\ work' = [work EXCEPT ![c].do = "delete"]
        /\ UNCHANGED codeVars
    BY <1>8 DEF WritePassword, Does
  <2> QED
    BY <2>1, JobMoves DEF HandlerMoves, OthersRest, GoesOn, codeVars
<1>9. ASSUME NEW c \in Callers, DeleteKey(c)
      PROVE  HandlerMoves(c) /\ work' \in [Callers -> Job \cup {Idle}]
  <2>1. Does(c, "delete") /\ Finish(c) /\ UNCHANGED codeVars
    BY <1>9 DEF DeleteKey
  <2>2. caller[c] = Idle
    BY <2>1 DEF Does, WorkFits
  <2> QED
    BY <2>1, <2>2, FinishShape DEF HandlerMoves, OthersRest, Ends, codeVars
<1> QED
  BY <1>1, <1>2, <1>3, <1>4, <1>5, <1>6, <1>7, <1>8, <1>9 DEF Passwords

LEMMA SignUpHandler ==
  ASSUME CodesInv, AccountsTypeOK, WorkFits, SigningUp
  PROVE  /\ work' \in [Callers -> Job \cup {Idle}]
         /\ \E c \in Callers : HandlerMoves(c)
<1>1. ASSUME NEW c \in Callers, NEW a \in Addresses, SignUp(c, a)
      PROVE  HandlerMoves(c) /\ work' \in [Callers -> Job \cup {Idle}]
  <2>1. /\ work' \in [Callers -> Job \cup {Idle}]
        /\ work'[c] # Idle /\ work'[c].do = "signup" /\ work'[c].req = Idle /\ work'[c].user = a
        /\ \A e \in Callers \ {c} : work'[e] = work[e]
    BY <1>1, BeginShape DEF SignUp, Free
  <2>2. UNCHANGED codeVars /\ MailValidated(a) /\ Free(c)
    BY <1>1 DEF SignUp
  <2>3. Begins(c)
    BY <2>1, <2>2 DEF Begins, Free, codeVars
  <2> QED
    BY <2>1, <2>2, <2>3 DEF HandlerMoves, OthersRest, codeVars
<1>2. ASSUME NEW c \in Callers, NEW d \in {"profile", "select"}, work[c] # Idle,
             <<work[c].do, d>> \in {<<"signup", "profile">>, <<"profile", "select">>},
             work' = [work EXCEPT ![c].do = d], UNCHANGED codeVars
      PROVE  HandlerMoves(c) /\ work' \in [Callers -> Job \cup {Idle}]
  BY <1>2, JobMoves DEF HandlerMoves, OthersRest, GoesOn, codeVars
<1>3. ASSUME NEW c \in Callers, work[c] # Idle, work[c].do \in {"signup", "select"},
             Finish(c), UNCHANGED codeVars
      PROVE  HandlerMoves(c) /\ work' \in [Callers -> Job \cup {Idle}]
  <2>1. caller[c] = Idle
    BY <1>3 DEF WorkFits
  <2> QED
    BY <1>3, <2>1, FinishShape DEF HandlerMoves, OthersRest, Ends, codeVars
<1>4. ASSUME NEW c \in Callers, CreateBusiness(c) \/ CreateProfile(c) \/ SelectBusiness(c)
      PROVE  HandlerMoves(c) /\ work' \in [Callers -> Job \cup {Idle}]
  <2>1. CASE CreateBusiness(c)
    BY <1>2, <1>3, <2>1 DEF CreateBusiness, Does
  <2>2. CASE CreateProfile(c)
    BY <1>2, <2>2 DEF CreateProfile, Does
  <2>3. CASE SelectBusiness(c)
    BY <1>3, <2>3 DEF SelectBusiness, Does
  <2> QED
    BY <1>4, <2>1, <2>2, <2>3
<1> QED
  BY <1>1, <1>4 DEF SigningUp

LEMMA HandlerShape ==
  ASSUME CodesInv, AccountsTypeOK, WorkFits, [AccountsNext]_accountVars
  PROVE  /\ work' \in [Callers -> Job \cup {Idle}]
         /\ Beside \/ \E c \in Callers : HandlerMoves(c)
<1>1. CASE PlainStep \/ UNCHANGED accountVars
  <2>1. work' = work /\ (PlainStep \/ UNCHANGED caller)
    BY <1>1 DEF PlainStep, ownVars, accountVars, codeVars
  <2> QED
    BY <2>1, PlainCalls DEF Beside, AccountsTypeOK
<1>2. CASE \E c \in Callers : Stop(c)
  <2>1. PICK c \in Callers : /\ Leave(c) /\ Finish(c)
                             /\ UNCHANGED <<row, queue, sender, inbox, spent, misproved>>
    BY <1>2 DEF Stop
  <2> QED
    BY <2>1, LeaveShape, FinishShape DEF HandlerMoves, OthersRest, Ends
<1> QED
  BY <1>1, <1>2, PasswordHandler, SignUpHandler DEF AccountsNext
-----------------------------------------------------------------------------
(* The data of the handlers.                                               *)

LEMMA KeyShape ==
  ASSUME AccountsTypeOK, WorkFits, [AccountsNext]_accountVars
  PROVE  /\ key' \in [Requests -> Key \cup {Idle}]
         /\ \A r \in Requests :
              \/ key'[r] = key[r] \/ key'[r] = Idle
              \/ \E kind \in Kinds, u \in Addresses :
                    /\ RequestChange(kind, r, u) /\ r \in PhoneRequests
                    /\ key'[r] # Idle /\ key'[r].user = u /\ key'[r].valid = FALSE
              \/ \E c \in Callers :
                    /\ MarkValidated(c) /\ work[c].req = r
                    /\ key'[r] # Idle /\ key'[r].user = work[c].user
<1>0. key \in [Requests -> Key \cup {Idle}] /\ work \in [Callers -> Job \cup {Idle}]
  BY DEF AccountsTypeOK
<1>1. CASE UNCHANGED key
  BY <1>0, <1>1
<1>2. ASSUME NEW kind \in Kinds, NEW r \in PhoneRequests, NEW u \in Addresses,
             RequestChange(kind, r, u)
      PROVE  /\ key' \in [Requests -> Key \cup {Idle}]
             /\ key'[r] # Idle /\ key'[r].user = u /\ key'[r].valid = FALSE
             /\ \A q \in Requests : q # r => key'[q] = key[q]
  <2>1. PICK x : x = [kind |-> kind, user |-> u, valid |-> FALSE]
    OBVIOUS
  <2>2. x \in Key /\ x.user = u /\ x.valid = FALSE /\ x # Idle
    <3>1. x \in Key /\ x.user = u /\ x.valid = FALSE
      BY <2>1 DEF Key
    <3> QED
      BY <3>1, NoKeyNoJob
  <2>3. key' = [key EXCEPT ![r] = x] /\ r \in Requests
    BY <1>2, <2>1 DEF RequestChange, Requests
  <2> QED
    BY <1>0, <2>2, <2>3
<1>3. ASSUME NEW c \in Callers, MarkValidated(c)
      PROVE  /\ key' \in [Requests -> Key \cup {Idle}]
             /\ work[c].req \in Requests
             /\ key'[work[c].req] # Idle /\ key'[work[c].req].user = work[c].user
             /\ \A q \in Requests : q # work[c].req => key'[q] = key[q]
  <2>1. work[c] # Idle /\ work[c] \in Job /\ work[c].do = "reset"
    BY <1>0, <1>3 DEF MarkValidated, Does
  <2>2. work[c].req \in Requests /\ work[c].user \in Addresses
    BY <2>1 DEF WorkFits, OnPassword, Requests, Job
  <2>3. PICK x : x = [kind |-> "reset", user |-> work[c].user, valid |-> TRUE]
    OBVIOUS
  <2>4. x \in Key /\ x.user = work[c].user /\ x # Idle
    <3>1. x \in Key /\ x.user = work[c].user
      BY <2>2, <2>3 DEF Key, Kinds
    <3> QED
      BY <3>1, NoKeyNoJob
  <2>5. key' = [key EXCEPT ![work[c].req] = x]
    BY <1>3, <2>3 DEF MarkValidated
  <2> QED
    BY <1>0, <2>2, <2>4, <2>5
<1>4. ASSUME NEW r, key' = [key EXCEPT ![r] = Idle]
      PROVE  /\ key' \in [Requests -> Key \cup {Idle}]
             /\ \A q \in Requests : key'[q] = key[q] \/ key'[q] = Idle
  BY <1>0, <1>4
<1>5. \/ UNCHANGED key
      \/ \E r : key' = [key EXCEPT ![r] = Idle]
      \/ \E kind \in Kinds, r \in PhoneRequests, u \in Addresses : RequestChange(kind, r, u)
      \/ \E c \in Callers : MarkValidated(c)
  <2>1. PlainStep \/ UNCHANGED accountVars => UNCHANGED key
    BY DEF PlainStep, accountVars, ownVars
  <2>2. SigningUp => UNCHANGED key
    BY DEF SigningUp, SignUp, CreateBusiness, CreateProfile, SelectBusiness
  <2>3. (\E c \in Callers : Stop(c)) => UNCHANGED key
    BY DEF Stop
  <2>4. Passwords =>
          \/ UNCHANGED key
          \/ \E r : key' = [key EXCEPT ![r] = Idle]
          \/ \E kind \in Kinds, r \in PhoneRequests, u \in Addresses : RequestChange(kind, r, u)
          \/ \E c \in Callers : MarkValidated(c)
    BY DEF Passwords, ValidateReset, ConfirmUpdate, ResetPassword, WritePassword, DeleteKey,
           WriteConfirmed, KeyExpires
  <2> QED
    BY <2>1, <2>2, <2>3, <2>4 DEF AccountsNext
<1>6. CASE \E r : key' = [key EXCEPT ![r] = Idle]
  BY <1>4, <1>6
<1>7. CASE \E kind \in Kinds, r \in PhoneRequests, u \in Addresses : RequestChange(kind, r, u)
  <2>1. PICK kind \in Kinds, r \in PhoneRequests, u \in Addresses : RequestChange(kind, r, u)
    BY <1>7
  <2>2. /\ key' \in [Requests -> Key \cup {Idle}]
        /\ key'[r] # Idle /\ key'[r].user = u /\ key'[r].valid = FALSE
        /\ \A q \in Requests : q # r => key'[q] = key[q]
    BY <1>2, <2>1
  <2>3. \A q \in Requests :
          \/ key'[q] = key[q]
          \/ \E k \in Kinds, v \in Addresses :
                /\ RequestChange(k, q, v) /\ q \in PhoneRequests
                /\ key'[q] # Idle /\ key'[q].user = v /\ key'[q].valid = FALSE
    <3> SUFFICES ASSUME NEW q \in Requests, q = r
                 PROVE  \E k \in Kinds, v \in Addresses :
                          /\ RequestChange(k, q, v) /\ q \in PhoneRequests
                          /\ key'[q] # Idle /\ key'[q].user = v /\ key'[q].valid = FALSE
      BY <2>2
    <3>1. RequestChange(kind, q, u) /\ key'[q] # Idle /\ key'[q].user = u /\ key'[q].valid = FALSE
      BY <2>1, <2>2
    <3> QED
      BY <3>1
  <2> QED
    BY <2>2, <2>3
<1>8. CASE \E c \in Callers : MarkValidated(c)
  <2>1. PICK c \in Callers : MarkValidated(c)
    BY <1>8
  <2>2. /\ key' \in [Requests -> Key \cup {Idle}]
        /\ key'[work[c].req] # Idle /\ key'[work[c].req].user = work[c].user
        /\ \A q \in Requests : q # work[c].req => key'[q] = key[q]
    BY <1>3, <2>1
  <2>3. \A q \in Requests :
          \/ key'[q] = key[q]
          \/ \E d \in Callers : /\ MarkValidated(d) /\ work[d].req = q
                                 /\ key'[q] # Idle /\ key'[q].user = work[d].user
    BY <2>1, <2>2
  <2> QED
    BY <2>2, <2>3
<1> QED
  BY <1>1, <1>5, <1>6, <1>7, <1>8

LEMMA ChangesShape ==
  ASSUME AccountsTypeOK, WorkFits, [AccountsNext]_accountVars
  PROVE  /\ changes' \in [Requests -> 0..2]
         /\ \/ changes' = changes
            \/ \E c \in Callers, r \in PhoneRequests :
                 /\ WritePassword(c) \/ WriteConfirmed(c)
                 /\ r = work[c].req /\ r \in Requests
                 /\ changes'[r] = OneMore(changes[r])
                 /\ \A q \in Requests : q # r => changes'[q] = changes[q]
<1>0. changes \in [Requests -> 0..2]
  BY DEF AccountsTypeOK
<1>1. ASSUME NEW c \in Callers, WritePassword(c) \/ WriteConfirmed(c)
      PROVE  /\ changes' \in [Requests -> 0..2]
             /\ \E r \in PhoneRequests :
                 /\ r = work[c].req /\ r \in Requests
                 /\ changes'[r] = OneMore(changes[r])
                 /\ \A q \in Requests : q # r => changes'[q] = changes[q]
  <2>1. PICK r \in PhoneRequests : r = work[c].req /\ r \in Requests
    BY <1>1 DEF WritePassword, WriteConfirmed, Does, WorkFits, OnPassword, Requests
  <2>2. PICK n : n = OneMore(changes[r])
    OBVIOUS
  <2>3. n \in 0..2
    BY <1>0, <2>1, <2>2 DEF OneMore
  <2>4. changes' = [changes EXCEPT ![r] = n]
    BY <1>1, <2>1, <2>2 DEF WritePassword, WriteConfirmed
  <2> QED
    BY <1>0, <2>1, <2>2, <2>3, <2>4
<1>2. changes' = changes \/ \E c \in Callers : WritePassword(c) \/ WriteConfirmed(c)
  <2>1. PlainStep \/ UNCHANGED accountVars => changes' = changes
    BY DEF PlainStep, accountVars, ownVars
  <2>2. SigningUp \/ (\E c \in Callers : Stop(c)) => changes' = changes
    BY DEF SigningUp, SignUp, CreateBusiness, CreateProfile, SelectBusiness, Stop
  <2>3. Passwords => changes' = changes \/ \E c \in Callers : WritePassword(c) \/ WriteConfirmed(c)
    BY DEF Passwords, RequestChange, ValidateReset, ConfirmUpdate, ResetPassword, MarkValidated,
           DeleteKey, KeyExpires
  <2> QED
    BY <2>1, <2>2, <2>3 DEF AccountsNext
<1> QED
  BY <1>0, <1>1, <1>2

LEMMA EntangledShape ==
  ASSUME AccountsTypeOK, WorkFits, [AccountsNext]_accountVars
  PROVE  entangled \subseteq entangled' /\ entangled' \subseteq Requests
<1>0. entangled \subseteq Requests
  BY DEF AccountsTypeOK
<1>1. ASSUME NEW c \in Callers, NEW what, NEW r \in PhoneRequests, NEW u, Begin(c, what, r, u)
      PROVE  entangled \subseteq entangled' /\ entangled' \subseteq Requests
  BY <1>0, <1>1 DEF Begin, Requests
<1>2. ASSUME NEW c \in Callers, Stop(c)
      PROVE  entangled \subseteq entangled' /\ entangled' \subseteq Requests
  BY <1>0, <1>2 DEF Stop, Does, WorkFits, OnPassword, Requests
<1>3. ASSUME Passwords, entangled' # entangled
      PROVE  \E c \in Callers, what \in {"reset", "update", "write"}, r \in PhoneRequests : \E u :
               Begin(c, what, r, u)
  BY <1>3 DEF Passwords, RequestChange, ValidateReset, ConfirmUpdate, ResetPassword, MarkValidated,
           WritePassword, WriteConfirmed, DeleteKey, KeyExpires
<1>4. PlainStep \/ SigningUp \/ UNCHANGED accountVars => entangled' = entangled
  BY DEF PlainStep, SigningUp, SignUp, CreateBusiness, CreateProfile, SelectBusiness, accountVars, ownVars
<1> QED
  BY <1>0, <1>1, <1>2, <1>3, <1>4 DEF AccountsNext

LEMMA AccountShape ==
  ASSUME AccountsTypeOK, [AccountsNext]_accountVars
  PROVE  /\ account' \in [Addresses -> Stages]
         /\ \A a \in Addresses : account'[a] # "none" =>
              \/ account[a] # "none"
              \/ \E c \in Callers : /\ work[c] # Idle /\ work[c].user = a
                                    /\ work[c].do \in {"signup", "profile", "select"}
<1>0. account \in [Addresses -> Stages]
  BY DEF AccountsTypeOK
<1>1. CASE UNCHANGED account
  BY <1>0, <1>1
<1>2. ASSUME NEW c \in Callers, NEW st \in {"business", "profile", "complete"},
             work[c] # Idle, work[c].do \in {"signup", "profile", "select"},
             account' = [account EXCEPT ![work[c].user] = st]
      PROVE  /\ account' \in [Addresses -> Stages]
             /\ \A a \in Addresses : account'[a] # "none" => account[a] # "none" \/ work[c].user = a
  BY <1>0, <1>2 DEF Stages
<1>3. \/ UNCHANGED account
      \/ \E c \in Callers, st \in {"business", "profile", "complete"} :
            /\ work[c] # Idle /\ work[c].do \in {"signup", "profile", "select"}
            /\ account' = [account EXCEPT ![work[c].user] = st]
  <2>1. PlainStep \/ UNCHANGED accountVars \/ (\E c \in Callers : Stop(c)) => UNCHANGED account
    BY DEF PlainStep, accountVars, ownVars, Stop
  <2>2. Passwords => UNCHANGED account
    BY DEF Passwords, RequestChange, ValidateReset, ConfirmUpdate, ResetPassword, MarkValidated,
           WritePassword, WriteConfirmed, DeleteKey, KeyExpires
  <2>3. ASSUME SigningUp
        PROVE  \/ UNCHANGED account
               \/ \E c \in Callers, st \in {"business", "profile", "complete"} :
                     /\ work[c] # Idle /\ work[c].do \in {"signup", "profile", "select"}
                     /\ account' = [account EXCEPT ![work[c].user] = st]
    <3>1. ASSUME NEW c \in Callers, CreateBusiness(c), ~ UNCHANGED account
          PROVE  /\ work[c] # Idle /\ work[c].do = "signup"
                 /\ account' = [account EXCEPT ![work[c].user] = "business"]
      BY <3>1 DEF CreateBusiness, Does
    <3>2. ASSUME NEW c \in Callers, CreateProfile(c)
          PROVE  /\ work[c] # Idle /\ work[c].do = "profile"
                 /\ account' = [account EXCEPT ![work[c].user] = "profile"]
      BY <3>2 DEF CreateProfile, Does
    <3>3. ASSUME NEW c \in Callers, SelectBusiness(c)
          PROVE  /\ work[c] # Idle /\ work[c].do = "select"
                 /\ account' = [account EXCEPT ![work[c].user] = "complete"]
      BY <3>3 DEF SelectBusiness, Does
    <3>4. \A c \in Callers, a \in Addresses : SignUp(c, a) => UNCHANGED account
      BY DEF SignUp
    <3> QED
      BY <2>3, <3>1, <3>2, <3>3, <3>4 DEF SigningUp
  <2> QED
    BY <2>1, <2>2, <2>3 DEF AccountsNext
<1> QED
  BY <1>1, <1>2, <1>3

LEMMA AccountsTypes ==
  ASSUME CodesInv, AccountsTypeOK, WorkFits, [AccountsNext]_accountVars
  PROVE  AccountsTypeOK'
BY HandlerShape, KeyShape, ChangesShape, EntangledShape, AccountShape DEF AccountsTypeOK

-----------------------------------------------------------------------------
(* What a handler knows of its request.                                    *)

KeyMeansAsked == \A r \in Requests : key[r] # Idle => r \in PhoneRequests /\ Asked(r)

ValidKeyIsProven == \A r \in PhoneRequests : KeyAllows(r) => row[r] # Idle /\ row[r].valid

LEMMA WorkFitsStep ==
  ASSUME CodesInv, AccountsTypeOK, WorkFits, ValidKeyIsProven, PhoneRows, [AccountsNext]_accountVars
  PROVE  WorkFits'
<1>1. CASE Beside
  <2>1. \A r \in PhoneRequests : row[r] # Idle => row'[r] # Idle /\ (row[r].valid => row'[r].valid)
    BY HandlersMove, RequestsLast DEF Requests
  <2> SUFFICES ASSUME NEW c \in Callers, work[c] # Idle
               PROVE  /\ work[c].do \in OnPassword => work[c].req \in PhoneRequests /\ row'[work[c].req] # Idle
                      /\ work[c].do \notin OnPassword => work[c].req = Idle
                      /\ work[c].do \in {"write", "delete"} => row'[work[c].req].valid
                      /\ work[c].do \notin {"reset", "update"} => caller'[c] = Idle
                      /\ caller'[c] # Idle => caller'[c].req = work[c].req
    BY <1>1 DEF Beside, WorkFits
  <2>2. caller'[c] # Idle => caller[c] # Idle /\ caller'[c].req = caller[c].req
    BY <1>1 DEF Beside, CallersHeld
  <2> QED
    BY <2>1, <2>2 DEF WorkFits, OnPassword
<1>2. ASSUME NEW c \in Callers, HandlerMoves(c)
      PROVE  WorkFits'
  <2>0. row' = row /\ \A d \in Callers \ {c} : work'[d] = work[d] /\ caller'[d] = caller[d]
    BY <1>2 DEF HandlerMoves, OthersRest
  <2>1. CASE Ends(c)
    BY <2>0, <2>1 DEF Ends, WorkFits
  <2>2. CASE GoesOn(c)
    <3>1. /\ work'[c].do \in OnPassword <=> work[c].do \in OnPassword
          /\ work'[c].do \in {"write", "delete"} => work[c].do = "write"
          /\ work[c].do \notin {"reset", "update"} /\ work'[c].do \notin {"reset", "update"}
      BY <2>2 DEF GoesOn, OnPassword
    <3> QED
      BY <2>0, <2>2, <3>1 DEF GoesOn, WorkFits
  <2>3. CASE Begins(c)
    <3>1. CASE work'[c].do \in {"reset", "update"}
      <4>1. PICK r \in PhoneRequests, guess \in Guesses : Validate(c, r, guess) /\ work'[c].req = r
        BY <2>3, <3>1 DEF Begins
      <4>2. row[r] # Idle /\ caller'[c] # Idle /\ caller'[c].req = r
        BY <4>1, JudgeShape DEF CodesInv, Requests
      <4> QED
        BY <2>0, <3>1, <4>1, <4>2 DEF WorkFits, OnPassword
    <3>2. CASE work'[c].do = "write"
      <4>1. caller'[c] = Idle /\ \E r \in PhoneRequests : KeyAllows(r) /\ work'[c].req = r
        BY <2>3, <3>2 DEF Begins
      <4> QED
        BY <2>0, <3>2, <4>1 DEF WorkFits, OnPassword, ValidKeyIsProven
    <3>3. CASE work'[c].do = "signup"
      <4>1. caller'[c] = Idle /\ work'[c].req = Idle
        BY <2>3, <3>3 DEF Begins
      <4> QED
        BY <2>0, <3>3, <4>1 DEF WorkFits, OnPassword
    <3> QED
      BY <2>3, <3>1, <3>2, <3>3 DEF Begins
  <2> QED
    BY <1>2, <2>1, <2>2, <2>3 DEF HandlerMoves
<1> QED
  BY <1>1, <1>2, HandlerShape
-----------------------------------------------------------------------------
\* A handler that marks its key validated has a valid telephone code.
LEMMA MarkShape ==
  ASSUME CodesInv, PhoneRows, WorkFits, NEW c \in Callers,
         MarkValidated(c) \/ WriteConfirmed(c), NEW r, r = work[c].req
  PROVE  /\ r \in PhoneRequests /\ r \in Requests /\ work[c] # Idle
         /\ work[c].do \in {"reset", "update"}
         /\ caller[c] # Idle /\ caller[c].at = "valid" /\ caller[c].req = r
         /\ row[r] # Idle /\ row[r].valid /\ row[r].status \notin {"PENDING", "SENT"}
<1>1. work[c] # Idle /\ work[c].do \in {"reset", "update"} /\ caller[c] # Idle /\ caller[c].at = "valid"
  BY DEF MarkValidated, WriteConfirmed, Does, At
<1>2. r \in PhoneRequests /\ r \in Requests /\ caller[c].req = r /\ row[r] # Idle
  BY <1>1 DEF WorkFits, OnPassword, Requests
<1> QED
  BY <1>1, <1>2 DEF PhoneRows, JudgedIsRow

LEMMA KeyAskedStep ==
  ASSUME CodesInv, AccountsTypeOK, WorkFits, PhoneRows, KeyMeansAsked, [AccountsNext]_accountVars
  PROVE  KeyMeansAsked'
<1> SUFFICES ASSUME NEW r \in Requests, key'[r] # Idle
             PROVE  r \in PhoneRequests /\ Asked(r)'
  BY DEF KeyMeansAsked
<1>1. Asked(r) => Asked(r)'
  BY HandlersMove, RequestsLast
<1>2. CASE key'[r] = key[r]
  BY <1>1, <1>2 DEF KeyMeansAsked
<1>3. CASE \E kind \in Kinds, u \in Addresses : RequestChange(kind, r, u) /\ r \in PhoneRequests
  <2>1. PICK u \in Addresses : queue' = queue \cup {[req |-> r, to |-> u]}
    BY <1>3 DEF RequestChange, Publish
  <2>2. [req |-> r, to |-> u] \in queue' /\ [req |-> r, to |-> u].req = r
    BY <2>1
  <2> QED
    BY <1>3, <2>2 DEF Asked
<1>4. CASE \E c \in Callers : MarkValidated(c) /\ work[c].req = r
  <2>1. r \in PhoneRequests /\ row[r] # Idle
    BY <1>4, MarkShape
  <2> QED
    BY <1>1, <2>1 DEF Asked
<1> QED
  BY <1>2, <1>3, <1>4, KeyShape

LEMMA ValidKeyStep ==
  ASSUME CodesInv, AccountsTypeOK, WorkFits, PhoneRows, ValidKeyIsProven, [AccountsNext]_accountVars
  PROVE  ValidKeyIsProven'
<1> SUFFICES ASSUME NEW r \in PhoneRequests, KeyAllows(r)'
             PROVE  row'[r] # Idle /\ row'[r].valid
  BY DEF ValidKeyIsProven
<1>0. r \in Requests /\ key'[r] # Idle /\ key'[r].kind = "reset" /\ key'[r].valid
  BY DEF KeyAllows, Requests
<1>1. row[r] # Idle /\ row[r].valid
  <2>1. CASE key'[r] = key[r]
    BY <1>0, <2>1 DEF ValidKeyIsProven, KeyAllows
  <2>2. CASE \E c \in Callers : MarkValidated(c) /\ work[c].req = r
    BY <2>2, MarkShape
  <2>3. CASE key'[r].valid = FALSE
    BY <1>0, <2>3
  <2> QED
    BY <1>0, <2>1, <2>2, <2>3, KeyShape
<1> QED
  BY <1>0, <1>1, HandlersMove, RequestsLast

\* Who a telephone request belongs to: every trace of it names one user.
Claims(r, a) ==
    \/ \E m \in queue : m.req = r /\ m.to = a
    \/ \E s \in Senders : sender[s] # Idle /\ sender[s].msg.req = r /\ sender[s].msg.to = a
    \/ row[r] # Idle /\ row[r].to = a
    \/ key[r] # Idle /\ key[r].user = a
    \/ \E c \in Callers : work[c] # Idle /\ work[c].req = r
                          /\ work[c].do # "update" /\ work[c].user = a

OneOwner == \A r \in PhoneRequests, a, b \in Addresses : Claims(r, a) /\ Claims(r, b) => a = b

LEMMA FreshUnclaimed ==
  ASSUME CodesInv, WorkFits, KeyMeansAsked, NEW r \in PhoneRequests, NEW a, FreshRequest(r)
  PROVE  ~ Claims(r, a)
<1>1. r \in Requests /\ r # Idle /\ row[r] = Idle /\ ~ Asked(r)
  BY IdleApart DEF FreshRequest, Asked, Requests
<1>2. key[r] = Idle
  BY <1>1 DEF KeyMeansAsked
<1>3. \A c \in Callers : work[c] # Idle => work[c].req # r
  BY <1>1 DEF WorkFits
<1> QED
  BY <1>1, <1>2, <1>3 DEF Claims, FreshRequest

\* The sending of a code names nobody new.
LEMMA SendingClaims ==
  ASSUME CodesInv, CodeMove, NEW r \in PhoneRequests, NEW a \in Addresses,
         \/ \E m \in queue' : m.req = r /\ m.to = a
         \/ \E s \in Senders : sender'[s] # Idle /\ sender'[s].msg.req = r /\ sender'[s].msg.to = a
         \/ row'[r] # Idle /\ row'[r].to = a
  PROVE  Claims(r, a) \/ (FreshRequest(r) /\ Publish(r, a))
<1>0. r \in Requests
  BY DEF Requests
<1>1. CASE \E s \in Senders : Take(s)
  <2>1. PICK s \in Senders, m \in queue :
          /\ sender[s] = Idle
          /\ \/ Stored(s, m)
             \/ UNCHANGED <<row, sender>> /\ queue' = queue \ {m} /\ row[m.req] # Idle
    BY <1>1, TakeRow
  <2>2. CASE Stored(s, m)
    BY <1>0, <2>1, <2>2 DEF Stored, Claims
  <2>3. CASE UNCHANGED <<row, sender>> /\ queue' = queue \ {m}
    BY <2>3 DEF Claims
  <2> QED
    BY <2>1, <2>2, <2>3
<1>2. CASE Judge
  BY <1>2 DEF Judge, Validate, Claims
<1>3. CASE Rest
  <2>1. CASE row'[r] # Idle /\ row'[r].to = a
    BY <1>0, <1>3, <2>1, RestKeeps DEF RowsKept, Claims
  <2>2. CASE \E s \in Senders : sender'[s] # Idle /\ sender'[s].msg.req = r /\ sender'[s].msg.to = a
    BY <1>3, <2>2, RestKeeps DEF SendersKept, Claims
  <2>3. CASE \E m \in queue' : m.req = r /\ m.to = a
    <3>1. CASE \E s \in Senders : Crash(s)
      BY <2>3, <3>1 DEF Crash, Claims
    <3>2. CASE Ask
      <4>1. PICK q \in Requests, u \in Addresses :
              (q \in PhoneRequests => FreshRequest(q)) /\ Publish(q, u)
        BY <3>2 DEF Ask
      <4>2. queue' = queue \cup {[req |-> q, to |-> u]}
        BY <4>1 DEF Publish
      <4>3. PICK m \in queue' : m.req = r /\ m.to = a
        BY <2>3
      <4>4. CASE m \in queue
        BY <4>3, <4>4 DEF Claims
      <4>5. CASE m = [req |-> q, to |-> u]
        BY <4>1, <4>3, <4>5
      <4> QED
        BY <4>2, <4>3, <4>4, <4>5
    <3>3. CASE queue' = queue
      BY <2>3, <3>3 DEF Claims
    <3> QED
      BY <1>3, <3>1, <3>2, <3>3 DEF Rest, CodeMove, Edit, Record, Expire, SafeExpire, BlockRecord,
                                    Miss, Consume, Deliver, Quit, codeVars
  <2> QED
    BY <2>1, <2>2, <2>3
<1> QED
  BY <1>1, <1>2, <1>3, HandlersMove DEF Rest

LEMMA ClaimsStep ==
  ASSUME CodesInv, AccountsTypeOK, WorkFits, PhoneRows, [AccountsNext]_accountVars,
         NEW r \in PhoneRequests, NEW a \in Addresses, Claims(r, a)'
  PROVE  Claims(r, a) \/ (FreshRequest(r) /\ Publish(r, a))
<1>0. r \in Requests /\ r # Idle /\ CodeMove
  BY IdleApart, HandlersMove DEF Requests
<1>1. CASE \/ \E m \in queue' : m.req = r /\ m.to = a
           \/ \E s \in Senders : sender'[s] # Idle /\ sender'[s].msg.req = r /\ sender'[s].msg.to = a
           \/ row'[r] # Idle /\ row'[r].to = a
  BY <1>0, <1>1, SendingClaims
<1>2. CASE key'[r] # Idle /\ key'[r].user = a
  <2>1. CASE key'[r] = key[r]
    BY <1>2, <2>1 DEF Claims
  <2>2. CASE \E kind \in Kinds, u \in Addresses : RequestChange(kind, r, u) /\ key'[r].user = u
    BY <1>2, <2>2 DEF RequestChange
  <2>3. CASE \E c \in Callers : MarkValidated(c) /\ work[c].req = r /\ key'[r].user = work[c].user
    BY <1>2, <2>3 DEF MarkValidated, Does, Claims
  <2> QED
    BY <1>0, <1>2, <2>1, <2>2, <2>3, KeyShape
<1>3. CASE \E c \in Callers : work'[c] # Idle /\ work'[c].req = r
                              /\ work'[c].do # "update" /\ work'[c].user = a
  <2>1. PICK c \in Callers : work'[c] # Idle /\ work'[c].req = r
                             /\ work'[c].do # "update" /\ work'[c].user = a
    BY <1>3
  <2>2. CASE work'[c] = work[c]
    BY <2>1, <2>2 DEF Claims
  <2>3. CASE HandlerMoves(c)
    <3>1. CASE GoesOn(c)
      BY <2>1, <3>1 DEF GoesOn, Claims
    <3>2. CASE Begins(c)
      BY <1>0, <2>1, <3>2 DEF Begins, KeyAllows, Claims
    <3> QED
      BY <2>1, <2>3, <3>1, <3>2 DEF HandlerMoves, Ends
  <2> QED
    BY <2>2, <2>3, HandlerShape DEF Beside, HandlerMoves, OthersRest
<1> QED
  BY <1>1, <1>2, <1>3 DEF Claims

LEMMA OneOwnerStep ==
  ASSUME CodesInv, AccountsTypeOK, WorkFits, PhoneRows, KeyMeansAsked, OneOwner,
         [AccountsNext]_accountVars
  PROVE  OneOwner'
<1> SUFFICES ASSUME NEW r \in PhoneRequests, NEW a \in Addresses, NEW b \in Addresses,
                    Claims(r, a)', Claims(r, b)'
             PROVE  a = b
  BY DEF OneOwner
<1>1. /\ Claims(r, a) \/ (FreshRequest(r) /\ Publish(r, a))
      /\ Claims(r, b) \/ (FreshRequest(r) /\ Publish(r, b))
  BY ClaimsStep
<1>2. CASE ~ FreshRequest(r)
  BY <1>1, <1>2 DEF OneOwner
<1>3. CASE FreshRequest(r)
  <2>1. Publish(r, a) /\ Publish(r, b)
    BY <1>1, <1>3, FreshUnclaimed
  <2>2. /\ queue' = queue \cup {[req |-> r, to |-> a]}
        /\ [req |-> r, to |-> b] \in queue'
    BY <2>1 DEF Publish
  <2>3. [req |-> r, to |-> b] \notin queue
    BY <1>3 DEF FreshRequest
  <2> QED
    BY <2>2, <2>3
<1> QED
  BY <1>2, <1>3

-----------------------------------------------------------------------------
(* Accounts.                                                               *)

SignUpIsProven ==
    \A c \in Callers : work[c] # Idle /\ work[c].do \in {"signup", "profile", "select"} =>
        Proven(work[c].user) \/ work[c].user \in misproved

LEMMA SignUpStep ==
  ASSUME CodesInv, AccountsTypeOK, WorkFits, ValidatedIsProven, SignUpIsProven,
         [AccountsNext]_accountVars
  PROVE  SignUpIsProven'
<1>1. /\ \A a : Proven(a) => Proven(a)'
      /\ misproved \subseteq misproved'
  BY HandlersMove, ProofsGrow DEF Proven
<1> SUFFICES ASSUME NEW c \in Callers, work'[c] # Idle, work'[c].do \in {"signup", "profile", "select"}
             PROVE  \E a : a = work'[c].user /\ (Proven(a)' \/ a \in misproved')
  BY DEF SignUpIsProven, Proven
<1>2. PICK a : a = work'[c].user
  OBVIOUS
<1>3. Proven(a) \/ a \in misproved
  <2>1. CASE work'[c] = work[c]
    BY <1>2, <2>1 DEF SignUpIsProven
  <2>2. CASE HandlerMoves(c)
    <3>1. CASE GoesOn(c)
      BY <1>2, <3>1 DEF GoesOn, SignUpIsProven
    <3>2. CASE Begins(c)
      <4>1. MailValidated(a)
        BY <1>2, <3>2 DEF Begins
      <4>2. PICK r \in MailRequests : row[r] # Idle /\ row[r].to = a /\ row[r].valid
        BY <4>1 DEF MailValidated
      <4> QED
        BY <4>2 DEF ValidatedIsProven, Proven, Requests
    <3> QED
      BY <2>2, <3>1, <3>2 DEF HandlerMoves, Ends
  <2> QED
    BY <2>1, <2>2, HandlerShape DEF Beside, HandlerMoves, OthersRest
<1> QED
  BY <1>1, <1>2, <1>3

LEMMA AddressProvenStep ==
  ASSUME AccountsTypeOK, SignUpIsProven, AccountAddressProven, [AccountsNext]_accountVars
  PROVE  AccountAddressProven'
<1>1. /\ \A a : Proven(a) => Proven(a)'
      /\ misproved \subseteq misproved'
  BY HandlersMove, ProofsGrow DEF Proven
<1>2. \A a \in Addresses : account'[a] # "none" => Proven(a) \/ a \in misproved
  BY AccountShape DEF SignUpIsProven, AccountAddressProven
<1> QED
  BY <1>1, <1>2 DEF AccountAddressProven
-----------------------------------------------------------------------------
(* The invariant, and what it says of a change of a password.              *)

AccountsInv ==
    /\ CodesInv /\ MissesCounted /\ PhoneRows /\ ValidatedIsProven
    /\ AccountsTypeOK /\ WorkFits /\ KeyMeansAsked /\ ValidKeyIsProven /\ OneOwner
    /\ SignUpIsProven /\ AccountAddressProven

LEMMA AccountsInvInit == AccountsInit => AccountsInv
<1> SUFFICES ASSUME AccountsInit PROVE AccountsInv
  OBVIOUS
<1>1. CodesInv /\ MissesCounted /\ PhoneRows
  BY CodesInvInit, CountedInit, PhoneInit DEF AccountsInit
<1>2. /\ \A r \in Requests : row[r] = Idle /\ key[r] = Idle /\ ~ KeyAllows(r)
      /\ \A c \in Callers : work[c] = Idle
      /\ \A a \in Addresses : account[a] = "none"
      /\ queue = {} /\ \A s \in Senders : sender[s] = Idle
  BY DEF AccountsInit, CodesInit, KeyAllows
<1>3. ValidatedIsProven /\ WorkFits /\ KeyMeansAsked /\ SignUpIsProven /\ AccountAddressProven
  BY <1>2 DEF ValidatedIsProven, WorkFits, KeyMeansAsked, SignUpIsProven, AccountAddressProven
<1>4. ValidKeyIsProven /\ OneOwner
  BY <1>2 DEF ValidKeyIsProven, OneOwner, Claims, Requests
<1>5. AccountsTypeOK
  BY DEF AccountsInit, AccountsTypeOK, Stages
<1> QED
  BY <1>1, <1>3, <1>4, <1>5 DEF AccountsInv

LEMMA AccountsInvStep == AccountsInv /\ [AccountsNext]_accountVars => AccountsInv'
<1> SUFFICES ASSUME AccountsInv, [AccountsNext]_accountVars PROVE AccountsInv'
  OBVIOUS
<1>1. CodeMove
  BY HandlersMove
<1>2. CodesInv' /\ MissesCounted' /\ PhoneRows' /\ ValidatedIsProven'
  BY <1>1, CodesInvStep, CountedStep, PhoneStep, ProvenStep DEF AccountsInv
<1>3. AccountsTypeOK' /\ WorkFits' /\ KeyMeansAsked' /\ ValidKeyIsProven'
  BY AccountsTypes, WorkFitsStep, KeyAskedStep, ValidKeyStep DEF AccountsInv
<1>4. OneOwner' /\ SignUpIsProven' /\ AccountAddressProven'
  BY OneOwnerStep, SignUpStep, AddressProvenStep DEF AccountsInv
<1> QED
  BY <1>2, <1>3, <1>4 DEF AccountsInv

LEMMA AccountsAlways == AccountsSpec => []AccountsInv
BY AccountsInvInit, AccountsInvStep, PTL DEF AccountsSpec

\* The tables, the queue, the calls and the handlers hold what they should.
THEOREM AccountsTypeCorrect == AccountsSpec => [](CodesTypeOK /\ AccountsTypeOK)
<1>1. AccountsInv => CodesTypeOK /\ AccountsTypeOK
  BY DEF AccountsInv, CodesInv
<1> QED
  BY <1>1, AccountsAlways, PTL

\* For any number of overlapping calls, a code is compared with at most
\* MaxAttempts wrong guesses and one more for each further call.
THEOREM GuessesBoundedTheorem == AccountsSpec => []GuessesBounded
<1>1. AccountsInv => GuessesBounded
  BY CountedBounds DEF AccountsInv
<1> QED
  BY <1>1, AccountsAlways, PTL

LEMMA ChangeIsProven == AccountsInv => ChangeNeedsCode
<1> SUFFICES ASSUME AccountsInv, NEW c \in Callers,
                    Does(c, "write") \/ (Does(c, "update") /\ At(c, "valid") /\ MayWrite(c))
             PROVE  /\ row[work[c].req] # Idle /\ row[work[c].req].valid
                    /\ <<work[c].user, row[work[c].req].code>> \in inbox
  BY DEF ChangeNeedsCode
<1>1. work[c] # Idle /\ work[c].do \in {"write", "update"} /\ work[c] \in Job
  BY DEF Does, AccountsInv, AccountsTypeOK
<1>2. PICK r \in PhoneRequests : r = work[c].req /\ r \in Requests /\ row[r] # Idle
  BY <1>1 DEF AccountsInv, WorkFits, OnPassword, Requests
<1>3. row[r].valid
  <2>1. CASE Does(c, "write")
    BY <1>2, <2>1 DEF Does, AccountsInv, WorkFits
  <2>2. CASE At(c, "valid")
    BY <1>1, <1>2, <2>2 DEF At, AccountsInv, WorkFits, PhoneRows, JudgedIsRow
  <2> QED
    BY <2>1, <2>2
<1>4. <<row[r].to, row[r].code>> \in inbox
  BY <1>2, <1>3 DEF AccountsInv, PhoneRows, ValidIsReceived
<1>5. row[r].to = work[c].user
  <2>1. row[r].to \in Addresses /\ work[c].user \in Addresses
    BY <1>1, <1>2 DEF AccountsInv, CodesInv, CodesTypeOK, CodeRow, Job
  <2>2. Claims(r, row[r].to)
    BY <1>2 DEF Claims
  <2>3. Claims(r, work[c].user)
    BY <1>1, <1>2 DEF Claims, MayWrite, Does
  <2> QED
    BY <2>1, <2>2, <2>3 DEF AccountsInv, OneOwner
<1> QED
  BY <1>2, <1>3, <1>4, <1>5

\* A validated row, an account and a change of a password rest on a code that
\* its own address received and gave back, for any number of overlapping calls,
\* consumers and repeated deliveries; the one exception are the addresses of rows
\* that were renewed under a call which had read them before (misproved).
THEOREM NothingUnprovenTheorem == AccountsSpec => []NothingUnproven
<1>1. AccountsInv => NothingUnproven
  BY ChangeIsProven DEF AccountsInv, NothingUnproven
<1> QED
  BY <1>1, AccountsAlways, PTL
-----------------------------------------------------------------------------
(* One change per request.                                                 *)

\* A request is over: no further call will find its code valid.
Over(r) ==
    /\ row[r] # Idle /\ row[r].status \notin {"PENDING", "SENT"}
    /\ \A s \in Senders : sender[s] # Idle => sender[s].msg.req # r

OnRequest(c, r) == work[c] # Idle /\ work[c].req = r

\* A request that is not entangled has one handler.
OneWorker ==
    \A r \in PhoneRequests \ entangled : \A c, d \in Callers :
        OnRequest(c, r) /\ OnRequest(d, r) => c = d

WriteWhenOver ==
    /\ \A c \in Callers : Does(c, "write") \/ Does(c, "delete") => Over(work[c].req)
    /\ \A r \in PhoneRequests : KeyAllows(r) => Over(r)

\* Once it changed a password no handler of it can do so again, unless by a key
\* that is about to be deleted.
ChangedIsOver ==
    \A r \in PhoneRequests \ entangled : changes[r] > 0 =>
        /\ Over(r)
        /\ \A c \in Callers : OnRequest(c, r) =>
              work[c].do # "write" /\ ~ At(c, "consume") /\ ~ At(c, "valid")
        /\ KeyAllows(r) => \E c \in Callers : Does(c, "delete") /\ work[c].req = r

ChangedOnce ==
    /\ \A r \in MailRequests : changes[r] = 0
    /\ \A r \in PhoneRequests \ entangled : changes[r] \in {0, 1}

OnceInv == OneWorker /\ WriteWhenOver /\ ChangedIsOver /\ ChangedOnce

LEMMA OverLasts ==
  ASSUME CodesInv, CodeMove, NEW r \in PhoneRequests, Over(r)
  PROVE  Over(r)'
<1>0. r \in Requests /\ row[r] # Idle /\ row[r].status \notin {"PENDING", "SENT"}
      /\ \A s \in Senders : sender[s] # Idle => sender[s].msg.req # r
  BY DEF Over, Requests
<1>1. CASE Rest
  <2>1. row'[r] # Idle
    BY <1>0, <1>1, HandlersMove, RequestsLast
  <2>2. ~ Recorded(r)
    BY <1>0 DEF Recorded, Record
  <2>3. row'[r].status \notin {"PENDING", "SENT"}
    BY <1>0, <1>1, <2>2, RestKeeps DEF RowsFollow
  <2>4. \A s \in Senders : sender'[s] # Idle => sender'[s].msg.req # r
    BY <1>0, <1>1, RestKeeps DEF SendersKept
  <2> QED
    BY <2>1, <2>3, <2>4 DEF Over
<1>2. CASE Judge
  BY <1>2 DEF Judge, Validate, Over
<1>3. CASE \E s \in Senders : Take(s)
  <2>1. PICK s \in Senders, m \in queue :
          Stored(s, m) \/ UNCHANGED <<row, sender>>
    BY <1>3, TakeRow
  <2> QED
    BY <1>0, <2>1 DEF Stored, Over
<1> QED
  BY <1>1, <1>2, <1>3 DEF Rest

\* A code that was found valid is that of a request which is over.
LEMMA ValidIsOver ==
  ASSUME CodesInv, PhoneRows, WorkFits, NEW c \in Callers,
         MarkValidated(c) \/ WriteConfirmed(c), NEW r, r = work[c].req
  PROVE  Over(r)
<1>1. /\ r \in PhoneRequests /\ caller[c] # Idle /\ caller[c].at = "valid" /\ caller[c].req = r
      /\ row[r] # Idle /\ row[r].status \notin {"PENDING", "SENT"}
  BY MarkShape
<1>2. \A s \in Senders : sender[s] # Idle => sender[s].msg.req # r
  BY <1>1 DEF PhoneRows, SendingIsNew, At
<1> QED
  BY <1>1, <1>2 DEF Over

\* A handler that begins marks its request when another one is at work on it.
LEMMA BeginEntangles ==
  ASSUME AccountsInv, [AccountsNext]_accountVars, NEW c \in Callers, Begins(c), HandlerMoves(c),
         NEW d \in Callers, NEW r \in PhoneRequests, OnRequest(d, r), work'[c].req = r
  PROVE  r \in entangled'
<1>0. r # Idle /\ r \in Requests
  BY IdleApart DEF Requests
<1>1. /\ work[c] = Idle /\ work'[c] # Idle /\ work'[c].do \in {"reset", "update", "write"}
  BY <1>0 DEF Begins
<1>2. /\ ~ PlainStep /\ ~ UNCHANGED accountVars /\ ~ SigningUp
      /\ ~ \E e \in Callers : Stop(e)
  <2>1. PlainStep \/ UNCHANGED accountVars => work' = work
    BY DEF PlainStep, accountVars, ownVars
  <2>2. ASSUME \E e \in Callers : Stop(e) PROVE work'[c] = Idle \/ work'[c] = work[c]
    BY <2>2 DEF Stop, Finish, AccountsInv, AccountsTypeOK
  <2>3. ASSUME SigningUp PROVE work'[c] = Idle \/ work'[c].do \notin {"reset", "update", "write"}
                               \/ work'[c] = work[c]
    <3>1. ASSUME NEW e \in Callers, NEW a \in Addresses, SignUp(e, a)
          PROVE  work'[c] = work[c] \/ work'[c].do = "signup"
      BY <3>1 DEF SignUp, AccountsInv, AccountsTypeOK
    <3>2. ASSUME NEW e \in Callers, CreateBusiness(e) \/ CreateProfile(e) \/ SelectBusiness(e)
          PROVE  work'[c] = Idle
      <4>1. work[e] # Idle
        BY <3>2 DEF CreateBusiness, CreateProfile, SelectBusiness, Does
      <4>2. work'[c] = work[c]
        BY <1>1, <3>2, <4>1 DEF CreateBusiness, CreateProfile, SelectBusiness, Finish, AccountsInv, AccountsTypeOK
      <4> QED
        BY <1>1, <4>2
    <3> QED
      BY <2>3, <3>1, <3>2 DEF SigningUp
  <2> QED
    BY <1>1, <2>1, <2>2, <2>3
<1>3. Passwords
  BY <1>2 DEF AccountsNext
<1>4. \E e \in Callers, what \in {"reset", "update", "write"}, q \in PhoneRequests : \E u :
         Begin(e, what, q, u) /\ work[e] = Idle
  <2>1. ASSUME NEW e \in Callers, MarkValidated(e) \/ WritePassword(e) \/ DeleteKey(e) \/ WriteConfirmed(e)
        PROVE  work'[c] = work[c]
    <3>1. work[e] # Idle
      BY <2>1 DEF MarkValidated, WritePassword, DeleteKey, WriteConfirmed, Does
    <3> QED
      BY <1>1, <2>1, <3>1 DEF MarkValidated, WritePassword, DeleteKey, WriteConfirmed, Finish,
                              AccountsInv, AccountsTypeOK
  <2>2. ASSUME (\E kind \in Kinds, q \in PhoneRequests, u \in Addresses : RequestChange(kind, q, u))
               \/ (\E q \in PhoneRequests : KeyExpires(q))
        PROVE  work'[c] = work[c]
    BY <2>2 DEF RequestChange, KeyExpires
  <2> QED
    BY <1>1, <1>3, <2>1, <2>2 DEF Passwords, ValidateReset, ConfirmUpdate, ResetPassword, Free
<1>9. PICK e \in Callers, what \in {"reset", "update", "write"}, q \in PhoneRequests :
         \E u : Begin(e, what, q, u) /\ work[e] = Idle
  BY <1>4
<1>5. PICK u : Begin(e, what, q, u) /\ work[e] = Idle
  BY <1>9
<1>6. work' = [work EXCEPT ![e] = [do |-> what, req |-> q, user |-> u]]
  BY <1>5 DEF Begin
<1>7. e = c /\ q = r
  BY <1>1, <1>6 DEF AccountsInv, AccountsTypeOK
<1> QED
  BY <1>5, <1>7 DEF Begin, OnRequest
-----------------------------------------------------------------------------
LEMMA OneWorkerStep ==
  ASSUME AccountsInv, OneWorker, [AccountsNext]_accountVars
  PROVE  OneWorker'
<1> SUFFICES ASSUME NEW r \in PhoneRequests, r \notin entangled', NEW c \in Callers, NEW d \in Callers,
                    OnRequest(c, r)', OnRequest(d, r)'
             PROVE  c = d
  BY DEF OneWorker
<1>0. r \notin entangled /\ r # Idle
  BY EntangledShape, IdleApart DEF AccountsInv, Requests
<1>1. CASE OnRequest(c, r) /\ OnRequest(d, r)
  BY <1>0, <1>1 DEF OneWorker
<1>2. ASSUME NEW e \in Callers, OnRequest(e, r)', ~ OnRequest(e, r)
      PROVE  Begins(e) /\ HandlerMoves(e) /\ work'[e].req = r
             /\ \A f \in Callers \ {e} : work'[f] = work[f]
  <2>1. work'[e] # work[e]
    BY <1>2 DEF OnRequest
  <2>2. HandlerMoves(e)
    BY <2>1, HandlerShape DEF AccountsInv, Beside, HandlerMoves, OthersRest
  <2> QED
    BY <1>2, <2>2 DEF HandlerMoves, OthersRest, Ends, GoesOn, OnRequest
<1>3. ASSUME NEW e \in Callers, NEW f \in Callers, e # f,
             OnRequest(e, r)', ~ OnRequest(e, r), OnRequest(f, r)'
      PROVE  FALSE
  <2>1. Begins(e) /\ HandlerMoves(e) /\ work'[e].req = r /\ work'[f] = work[f]
    BY <1>2, <1>3
  <2>2. OnRequest(f, r)
    BY <1>3, <2>1 DEF OnRequest
  <2>3. r \in entangled'
    BY <2>1, <2>2, BeginEntangles
  <2> QED
    BY <2>3
<1> QED
  BY <1>1, <1>3

\* The last step of a handler that deletes its key, or a stop before it.
LEMMA DeleterEnds ==
  ASSUME AccountsInv, [AccountsNext]_accountVars, NEW c \in Callers, NEW r \in PhoneRequests,
         Does(c, "delete"), work[c].req = r, work'[c] # work[c]
  PROVE  r \in entangled' \/ key'[r] = Idle
<1>1. work[c] # Idle /\ work[c].do = "delete" /\ r \in Requests
  BY DEF Does, Requests
<1>2. CASE Stop(c)
  BY <1>2 DEF Stop
<1>3. CASE DeleteKey(c)
  BY <1>1, <1>3 DEF DeleteKey, AccountsInv, AccountsTypeOK
<1>4. Stop(c) \/ DeleteKey(c)
  <2>0. work \in [Callers -> Job \cup {Idle}]
    BY DEF AccountsInv, AccountsTypeOK
  <2>1. PlainStep \/ UNCHANGED accountVars => work' = work
    BY DEF PlainStep, accountVars, ownVars
  <2>2. ASSUME NEW e \in Callers, e # c, Stop(e) \/ DeleteKey(e) PROVE work'[c] = work[c]
    BY <2>0, <2>2 DEF Stop, DeleteKey, Finish
  <2>3. ASSUME NEW e \in Callers, MarkValidated(e) \/ WritePassword(e) \/ WriteConfirmed(e)
        PROVE  work'[c] = work[c]
    <3>1. e # c
      BY <1>1, <2>3 DEF MarkValidated, WritePassword, WriteConfirmed, Does
    <3> QED
      BY <2>0, <2>3, <3>1 DEF MarkValidated, WritePassword, WriteConfirmed, Finish
  <2>4. ASSUME NEW e \in Callers, NEW what, NEW q, NEW u, Begin(e, what, q, u), work[e] = Idle
        PROVE  work'[c] = work[c]
    <3>1. e # c
      BY <1>1, <2>4
    <3> QED
      BY <2>0, <2>4, <3>1 DEF Begin
  <2>5. ASSUME SigningUp PROVE work'[c] = work[c]
    <3>1. ASSUME NEW e \in Callers,
                 (\E a \in Addresses : SignUp(e, a)) \/ CreateBusiness(e) \/ CreateProfile(e) \/ SelectBusiness(e)
          PROVE  work'[c] = work[c]
      <4>1. e # c
        BY <1>1, <3>1 DEF SignUp, Free, CreateBusiness, CreateProfile, SelectBusiness, Does
      <4> QED
        BY <2>0, <3>1, <4>1 DEF SignUp, CreateBusiness, CreateProfile, SelectBusiness, Finish
    <3> QED
      BY <2>5, <3>1 DEF SigningUp
  <2>6. ASSUME Passwords PROVE work'[c] = work[c] \/ DeleteKey(c)
    <3>1. CASE \E e \in Callers : \E what, q, u : Begin(e, what, q, u) /\ work[e] = Idle
      BY <2>4, <3>1
    <3>2. CASE work' = work
      BY <3>2
    <3>3. CASE \E e \in Callers : MarkValidated(e) \/ WritePassword(e) \/ WriteConfirmed(e) \/ DeleteKey(e)
      BY <2>2, <2>3, <3>3
    <3> QED
      BY <2>6, <3>1, <3>2, <3>3 DEF Passwords, RequestChange, KeyExpires, ValidateReset, ConfirmUpdate,
                                    ResetPassword, Free
  <2> QED
    BY <2>1, <2>2, <2>5, <2>6 DEF AccountsNext
<1> QED
  BY <1>2, <1>3, <1>4

LEMMA WriteWhenOverStep ==
  ASSUME AccountsInv, WriteWhenOver, [AccountsNext]_accountVars
  PROVE  WriteWhenOver'
<1>0. \A r \in PhoneRequests : Over(r) => Over(r)'
  BY HandlersMove, OverLasts DEF AccountsInv
<1>1. ASSUME NEW c \in Callers, Does(c, "write")' \/ Does(c, "delete")'
      PROVE  \E r \in PhoneRequests : work'[c].req = r /\ Over(r)'
  <2>1. CASE work'[c] = work[c]
    <3>1. work[c] # Idle /\ work[c].do \in {"write", "delete"}
      BY <1>1, <2>1 DEF Does
    <3>2. work[c].req \in PhoneRequests /\ Over(work[c].req)
      BY <3>1 DEF Does, WriteWhenOver, AccountsInv, WorkFits, OnPassword
    <3> QED
      BY <1>0, <2>1, <3>2
  <2>2. CASE HandlerMoves(c)
    <3>1. CASE GoesOn(c)
      <4>1. work[c] # Idle /\ work[c].do = "write" /\ work'[c].req = work[c].req
        BY <1>1, <3>1 DEF GoesOn, Does
      <4>2. work[c].req \in PhoneRequests /\ Over(work[c].req)
        BY <4>1 DEF Does, WriteWhenOver, AccountsInv, WorkFits, OnPassword
      <4> QED
        BY <1>0, <4>1, <4>2
    <3>2. CASE Begins(c)
      BY <1>0, <1>1, <3>2 DEF Begins, Does, WriteWhenOver
    <3> QED
      BY <1>1, <2>2, <3>1, <3>2 DEF HandlerMoves, Ends, Does
  <2> QED
    BY <2>1, <2>2, HandlerShape DEF AccountsInv, Beside, HandlerMoves, OthersRest
<1>2. ASSUME NEW r \in PhoneRequests, KeyAllows(r)'
      PROVE  Over(r)'
  <2>0. r \in Requests /\ key'[r] # Idle /\ key'[r].kind = "reset" /\ key'[r].valid
    BY <1>2 DEF KeyAllows, Requests
  <2>1. CASE key'[r] = key[r]
    BY <1>0, <2>0, <2>1 DEF KeyAllows, WriteWhenOver
  <2>2. CASE \E c \in Callers : MarkValidated(c) /\ work[c].req = r
    BY <1>0, <2>2, ValidIsOver DEF AccountsInv
  <2>3. CASE key'[r].valid = FALSE
    BY <2>0, <2>3
  <2> QED
    BY <2>0, <2>1, <2>2, <2>3, KeyShape DEF AccountsInv
<1> QED
  BY <1>1, <1>2 DEF WriteWhenOver
-----------------------------------------------------------------------------
\* A change of a password: by the one handler of a request that was not changed.
LEMMA ChangeStep ==
  ASSUME AccountsInv, OnceInv, [AccountsNext]_accountVars,
         NEW c \in Callers, WritePassword(c) \/ WriteConfirmed(c),
         NEW r \in PhoneRequests, r = work[c].req, r \notin entangled
  PROVE  /\ changes[r] = 0 /\ Over(r)
         /\ \A e \in Callers : OnRequest(e, r)' => e = c /\ work'[c].do = "delete" /\ caller'[c] = Idle
         /\ KeyAllows(r)' => work'[c] # Idle /\ work'[c].do = "delete" /\ work'[c].req = r
<1>0. /\ work[c] # Idle /\ OnRequest(c, r) /\ r \in Requests
      /\ changes[r] \in 0..2 /\ work \in [Callers -> Job \cup {Idle}]
      /\ caller \in [Callers -> Judging \cup {Idle}]
  BY DEF WritePassword, WriteConfirmed, Does, OnRequest, Requests, AccountsInv, AccountsTypeOK,
         CodesInv, CodesTypeOK
<1>1. changes[r] = 0
  <2>1. ~ changes[r] > 0
    BY <1>0 DEF OnceInv, ChangedIsOver, WritePassword, WriteConfirmed, Does
  <2> QED
    BY <1>0, <2>1
<1>2. \A e \in Callers : OnRequest(e, r) => e = c
  BY <1>0 DEF OnceInv, OneWorker
<1>3. CASE WritePassword(c)
  <2>1. Does(c, "write") /\ work' = [work EXCEPT ![c].do = "delete"] /\ UNCHANGED caller
    BY <1>3 DEF WritePassword, codeVars
  <2>2. Over(r) /\ caller[c] = Idle
    BY <2>1 DEF OnceInv, WriteWhenOver, AccountsInv, WorkFits, Does
  <2>3. /\ work'[c] # Idle /\ work'[c].do = "delete" /\ work'[c].req = r
        /\ \A e \in Callers : e # c => work'[e] = work[e]
    BY <1>0, <2>1, JobMoves DEF AccountsInv
  <2> QED
    BY <1>1, <1>2, <2>1, <2>2, <2>3 DEF OnRequest
<1>4. CASE WriteConfirmed(c)
  <2>1. Finish(c) /\ UNCHANGED key /\ MayWrite(c)
    BY <1>4 DEF WriteConfirmed
  <2>2. /\ work'[c] = Idle /\ \A e \in Callers \ {c} : work'[e] = work[e]
    BY <2>1, FinishShape DEF AccountsInv
  <2>3. ~ KeyAllows(r)'
    BY <2>1 DEF MayWrite, KeyAllows
  <2>4. Over(r)
    BY <1>4, ValidIsOver DEF AccountsInv
  <2> QED
    BY <1>1, <1>2, <2>2, <2>3, <2>4 DEF OnRequest
<1> QED
  BY <1>3, <1>4

LEMMA ChangedOnceStep ==
  ASSUME AccountsInv, OnceInv, [AccountsNext]_accountVars
  PROVE  ChangedOnce'
<1>0. entangled \subseteq entangled'
  BY EntangledShape DEF AccountsInv
<1>1. CASE changes' = changes
  BY <1>0, <1>1 DEF OnceInv, ChangedOnce
<1>2. CASE \E c \in Callers, r \in PhoneRequests :
             /\ WritePassword(c) \/ WriteConfirmed(c)
             /\ r = work[c].req
             /\ changes'[r] = OneMore(changes[r])
             /\ \A q \in Requests : q # r => changes'[q] = changes[q]
  <2>1. PICK c \in Callers, r \in PhoneRequests :
             /\ WritePassword(c) \/ WriteConfirmed(c)
             /\ r = work[c].req
             /\ changes'[r] = OneMore(changes[r])
             /\ \A q \in Requests : q # r => changes'[q] = changes[q]
    BY <1>2
  <2>2. r \notin entangled => changes'[r] = 1
    BY <2>1, ChangeStep DEF OneMore
  <2>3. \A q \in MailRequests : q # r
    BY RequestsApart
  <2> QED
    BY <1>0, <2>1, <2>2, <2>3 DEF OnceInv, ChangedOnce, Requests
<1> QED
  BY <1>1, <1>2, ChangesShape DEF AccountsInv

\* What is left to the handlers of a request that was changed.
LEMMA ChangedStays ==
  ASSUME AccountsInv, OnceInv, [AccountsNext]_accountVars,
         NEW r \in PhoneRequests, r \notin entangled', changes[r] > 0,
         NEW c \in Callers, OnRequest(c, r)'
  PROVE  work'[c].do # "write" /\ ~ At(c, "consume")' /\ ~ At(c, "valid")'
<1>0. /\ r \notin entangled /\ r # Idle /\ r \in Requests /\ Over(r)
      /\ OnRequest(c, r) => work[c].do # "write" /\ ~ At(c, "consume") /\ ~ At(c, "valid")
      /\ KeyAllows(r) => \E d \in Callers : OnRequest(d, r)
  BY EntangledShape, IdleApart DEF AccountsInv, OnceInv, ChangedIsOver, Requests, OnRequest, Does
<1>1. CASE Beside
  <2>1. OnRequest(c, r)
    BY <1>1 DEF Beside, OnRequest
  <2>2. ~ Consume(c)
    BY <1>0, <2>1 DEF Consume
  <2> QED
    BY <1>0, <1>1, <2>1, <2>2 DEF Beside, CallersHeld, OnRequest, At
<1>2. ASSUME NEW d \in Callers, HandlerMoves(d), d # c
      PROVE  work'[c].do # "write" /\ ~ At(c, "consume")' /\ ~ At(c, "valid")'
  BY <1>0, <1>2 DEF HandlerMoves, OthersRest, OnRequest, At
<1>3. CASE HandlerMoves(c)
  <2>1. CASE GoesOn(c)
    BY <1>0, <2>1 DEF GoesOn, OnRequest, At
  <2>2. CASE Begins(c)
    <3>1. CASE work'[c].do \in {"reset", "update"}
      <4>1. PICK q \in PhoneRequests, guess \in Guesses : Validate(c, q, guess) /\ work'[c].req = q
        BY <2>2, <3>1 DEF Begins
      <4>2. q = r
        BY <4>1 DEF OnRequest
      <4>3. /\ caller'[c].at \in {"expire", "block", "miss", "consume"}
            /\ caller'[c].at = "consume" => row[r].status = "SENT"
        BY <1>0, <4>1, <4>2, JudgeShape DEF AccountsInv, CodesInv
      <4> QED
        BY <1>0, <3>1, <4>3 DEF Over, At
    <3>2. CASE work'[c].do = "write"
      <4>1. KeyAllows(r)
        BY <2>2, <3>2 DEF Begins, OnRequest
      <4>2. PICK d \in Callers : OnRequest(d, r)
        BY <1>0, <4>1
      <4> QED
        BY <1>3, <2>2, <4>2, BeginEntangles DEF OnRequest
    <3>3. CASE work'[c].do = "signup"
      BY <1>0, <2>2, <3>3 DEF Begins, OnRequest
    <3> QED
      BY <2>2, <3>1, <3>2, <3>3 DEF Begins
  <2> QED
    BY <1>3, <2>1, <2>2 DEF HandlerMoves, Ends, OnRequest
<1> QED
  BY <1>1, <1>2, <1>3, HandlerShape DEF AccountsInv

LEMMA ChangedIsOverStep ==
  ASSUME AccountsInv, OnceInv, [AccountsNext]_accountVars
  PROVE  ChangedIsOver'
<1> SUFFICES ASSUME NEW r \in PhoneRequests, r \notin entangled', changes'[r] > 0
             PROVE  /\ Over(r)'
                    /\ \A c \in Callers : OnRequest(c, r)' =>
                          work'[c].do # "write" /\ ~ At(c, "consume")' /\ ~ At(c, "valid")'
                    /\ KeyAllows(r)' => \E c \in Callers : Does(c, "delete")' /\ work'[c].req = r
  BY DEF ChangedIsOver
<1>0. /\ r \notin entangled /\ r \in Requests
      /\ Over(r) => Over(r)'
  BY EntangledShape, HandlersMove, OverLasts DEF AccountsInv, Requests
<1>1. CASE changes'[r] # changes[r]
  <2>1. PICK c \in Callers : (WritePassword(c) \/ WriteConfirmed(c)) /\ r = work[c].req
    BY <1>0, <1>1, ChangesShape DEF AccountsInv
  <2>2. /\ Over(r)
        /\ \A e \in Callers : OnRequest(e, r)' => e = c /\ work'[c].do = "delete" /\ caller'[c] = Idle
        /\ KeyAllows(r)' => work'[c] # Idle /\ work'[c].do = "delete" /\ work'[c].req = r
    BY <1>0, <2>1, ChangeStep
  <2> QED
    BY <1>0, <2>2 DEF At, Does
<1>2. CASE changes'[r] = changes[r]
  <2>1. changes[r] > 0
    BY <1>2
  <2>2. Over(r) /\ (KeyAllows(r) => \E c \in Callers : Does(c, "delete") /\ work[c].req = r)
        /\ \A c \in Callers : OnRequest(c, r) => ~ At(c, "valid")
    BY <1>0, <2>1 DEF OnceInv, ChangedIsOver
  <2>3. ASSUME KeyAllows(r)' PROVE \E c \in Callers : Does(c, "delete")' /\ work'[c].req = r
    <3>0. key'[r] # Idle /\ key'[r].kind = "reset" /\ key'[r].valid
      BY <2>3 DEF KeyAllows
    <3>1. CASE key'[r] = key[r]
      <4>1. PICK c \in Callers : Does(c, "delete") /\ work[c].req = r
        BY <2>2, <3>0, <3>1 DEF KeyAllows
      <4>2. work'[c] = work[c]
        BY <3>0, <4>1, DeleterEnds
      <4> QED
        BY <4>1, <4>2 DEF Does
    <3>2. CASE \E c \in Callers : MarkValidated(c) /\ work[c].req = r
      BY <2>2, <3>2 DEF MarkValidated, OnRequest, Does
    <3>3. CASE key'[r].valid = FALSE
      BY <3>0, <3>3
    <3> QED
      BY <1>0, <3>0, <3>1, <3>2, <3>3, KeyShape DEF AccountsInv
  <2> QED
    BY <1>0, <2>1, <2>2, <2>3, ChangedStays
<1> QED
  BY <1>1, <1>2

LEMMA OnceInit == AccountsInit => OnceInv
<1> SUFFICES ASSUME AccountsInit PROVE OnceInv
  OBVIOUS
<1>1. /\ \A r \in Requests : key[r] = Idle /\ changes[r] = 0
      /\ \A c \in Callers : work[c] = Idle
  BY DEF AccountsInit
<1>2. \A r \in PhoneRequests : ~ KeyAllows(r) /\ ~ (changes[r] > 0)
  BY <1>1 DEF KeyAllows, Requests
<1>3. OneWorker /\ WriteWhenOver /\ ChangedIsOver
  BY <1>1, <1>2 DEF OneWorker, WriteWhenOver, ChangedIsOver, OnRequest, Does
<1>4. ChangedOnce
  BY <1>1 DEF ChangedOnce, Requests
<1> QED
  BY <1>3, <1>4 DEF OnceInv

\* A request changes a password once, for any number of overlapping calls, unless
\* two of them worked on it at once or one was cut short before it deleted the key.
THEOREM OneChangeTheorem == AccountsSpec => []OneChangePerRequest
<1>1. OnceInv /\ AccountsInv /\ [AccountsNext]_accountVars => OnceInv'
  BY OneWorkerStep, WriteWhenOverStep, ChangedIsOverStep, ChangedOnceStep DEF OnceInv
<1>2. OnceInv => OneChangePerRequest
  BY DEF OnceInv, ChangedOnce, OneChangePerRequest, Requests
<1> QED
  BY <1>1, <1>2, OnceInit, AccountsAlways, PTL DEF AccountsSpec
=============================================================================
