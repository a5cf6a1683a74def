---------------------------- MODULE Redis_proofs ----------------------------
(***************************************************************************)
(* Theorems about what is kept in Redis: the refresh tokens and the        *)
(* distributed lock.  They share no variable.                              *)
(*                                                                         *)
(* Refresh tokens.  A token is rotated once, a logout is final, and a      *)
(* release leaves the locks of others alone, for any number of calls and   *)
(* tokens.  The invariant says what each call at work may rely on          *)
(* (CallOK): it holds the lock of the token it rotates, unless that lock   *)
(* ran out; a token that is about to be signed again has no successor yet; *)
(* and a release whose watch stands notices that the lock has changed      *)
(* hands.                                                                  *)
(***************************************************************************)
EXTENDS Sessions, RedisLock, TLAPS

Issuing(c) == Is(c, "store") \/ Is(c, "list")

Rotating == {"get", "delete", "unlist", "store", "list", "watch", "compare", "exec", "fallback"}
OfToken == {"get", "delete", "unlist", "watch", "compare", "exec", "fallback", "revoke", "forget", "drop"}

\* What call c, doing r, may rely on.
CallOK(c, r) ==
    /\ r \in Call
    /\ r.todo \subseteq handed
    /\ r.at \in OfToken => r.old # 0
    /\ r.old # 0 => r.old \in handed
    /\ r.at \in {"unlist", "forget", "drop"} => r.old \notin store
    /\ r.at = "get" /\ r.late = TRUE => r.old \in revoked
    /\ r.at = "delete" => r.late = FALSE
    /\ r.at \in Rotating /\ r.old # 0 /\ r.old \notin overrun => lock[r.old] = c
    /\ r.at \in {"delete", "unlist"} /\ r.old \notin overrun => \A t \in Tokens : parent[t] # r.old
    /\ r.at \in {"compare", "exec"} /\ c \notin blinded =>
          r.old \in watched /\ (r.at = "exec" /\ lock[r.old] # c => dirty)

CallsOK == DOMAIN call = Calls /\ \A c \in Calls : call[c] # NoOne => CallOK(c, call[c])

\* A token on its way into the store is nobody else's and has not been used.
IssuingOK ==
    \A c \in Calls : Issuing(c) =>
        /\ call[c].new \in 1 .. signed /\ call[c].new \notin handed
        /\ \A d \in Calls \ {c} : Issuing(d) => call[d].new # call[c].new

Numbered ==
    /\ handed \subseteq 1 .. signed /\ members \subseteq handed
    /\ revoked \subseteq handed /\ revoked \cap store = {}
    /\ \A t \in Tokens : parent[t] # 0 => t \in 1 .. signed /\ parent[t] \in handed \ store

SessionsInv ==
    /\ SessionsTypeOK /\ CallsOK /\ IssuingOK /\ Numbered
    /\ RotatedOnce /\ LiveTokensListed

-----------------------------------------------------------------------------
(* What becomes of the calls.                                              *)

LEMMA TokenFacts ==
  /\ Tokens \subseteq Nat /\ 0 \notin Tokens
  /\ \A n \in 0 .. MaxTokens : 1 .. n \subseteq Tokens
BY BoundsAssumption DEF Tokens

LEMMA RecordOK ==
  ASSUME NEW r \in Call, NEW place \in Places
  PROVE  /\ [r EXCEPT !.at = place] \in Call
         /\ [r EXCEPT !.at = place].at = place
         /\ [r EXCEPT !.at = place].old = r.old
         /\ [r EXCEPT !.at = place].new = r.new
         /\ [r EXCEPT !.at = place].todo = r.todo
         /\ [r EXCEPT !.at = place].late = r.late
BY DEF Call

LEMMA GotoOK ==
  ASSUME CallsOK, NEW c \in Calls, call[c] # NoOne, NEW place \in Places, Goto(c, place)
  PROVE  /\ DOMAIN call' = Calls /\ \A d \in Calls \ {c} : call'[d] = call[d]
         /\ call'[c] \in Call /\ call'[c] # NoOne
         /\ call'[c].at = place /\ call'[c].old = call[c].old /\ call'[c].new = call[c].new
         /\ call'[c].todo = call[c].todo /\ call'[c].late = call[c].late
         /\ served' = served
<1> DEFINE r == [call[c] EXCEPT !.at = place]
<1>1. call[c] \in Call
  BY DEF CallsOK, CallOK
<1>2. /\ r \in Call /\ r.at = place /\ r.old = call[c].old /\ r.new = call[c].new
      /\ r.todo = call[c].todo /\ r.late = call[c].late
  BY <1>1, RecordOK
<1>3. call' = [call EXCEPT ![c] = r] /\ served' = served
  BY DEF Goto
<1> HIDE DEF r
<1>4. r # NoOne
  BY <1>2, NoOneAssumption
<1> QED BY <1>2, <1>3, <1>4 DEF CallsOK

LEMMA DoneOK ==
  ASSUME CallsOK, NEW c \in Calls, Done(c)
  PROVE  /\ DOMAIN call' = Calls /\ \A d \in Calls \ {c} : call'[d] = call[d]
         /\ call'[c] = NoOne /\ served' = served
BY DEF CallsOK, Done

LEMMA EnterOK ==
  ASSUME SessionsTypeOK, CallsOK, NEW c \in Calls, NEW place \in Places, NEW old \in Tokens \cup {0},
         NEW new \in Tokens \cup {0}, NEW todo \in SUBSET Tokens, Enter(c, place, old, new, todo)
  PROVE  /\ DOMAIN call' = Calls /\ \A d \in Calls \ {c} : call'[d] = call[d]
         /\ call[c] = NoOne
         /\ call'[c] \in Call /\ call'[c] # NoOne
         /\ call'[c].at = place /\ call'[c].old = old /\ call'[c].new = new
         /\ call'[c].todo = todo
         /\ call'[c].late = TRUE => old \in revoked
         /\ served' \in 0 .. MaxCalls
<1> DEFINE r == [at |-> place, old |-> old, new |-> new, todo |-> todo, late |-> old \in revoked]
<1>1. r \in Call
  BY DEF Call
<1>2. /\ r.at = place /\ r.old = old /\ r.new = new /\ r.todo = todo
      /\ r.late = TRUE => old \in revoked
  OBVIOUS
<1>3. call' = [call EXCEPT ![c] = r] /\ call[c] = NoOne
  BY DEF Enter
<1>4. served \in 0 .. MaxCalls /\ served < MaxCalls /\ served' = served + 1
  BY DEF Enter, SessionsTypeOK
<1>5. served' \in 0 .. MaxCalls
  BY <1>4, BoundsAssumption
<1> HIDE DEF r
<1>6. r # NoOne
  BY <1>1, NoOneAssumption
<1> QED BY <1>1, <1>2, <1>3, <1>5, <1>6 DEF CallsOK

-----------------------------------------------------------------------------
(* Steps that change one call, or none, and no token, lock or watch.       *)
LEMMA MovedInv ==
  ASSUME SessionsInv, NEW c \in Calls,
         DOMAIN call' = Calls, \A d \in Calls \ {c} : call'[d] = call[d],
         UNCHANGED <<signed, store, members, lock, watched, dirty, handed, parent, revoked,
                     overrun, blinded>>,
         served' \in 0 .. MaxCalls, made' \in 0 .. MaxLinks, links' \subseteq 1 .. MaxLinks,
         unlisted \subseteq unlisted', unlisted' \subseteq Tokens,
         Is(c, "list") => call[c].new \in unlisted',
         call'[c] # NoOne => CallOK(c, call'[c]) /\ call'[c].at \notin {"store", "list"}
  PROVE  SessionsInv'
<1>1. SessionsTypeOK'
  <2>1. \A d \in Calls : call'[d] = NoOne \/ call'[d] \in Call
    BY DEF SessionsInv, SessionsTypeOK, CallOK
  <2> QED BY <2>1 DEF SessionsInv, SessionsTypeOK
<1>2. CallsOK'
  BY DEF SessionsInv, CallsOK, CallOK
<1>3. \A d \in Calls : Issuing(d)' => d # c /\ Issuing(d) /\ call'[d] = call[d]
  BY DEF Issuing, Is
<1>4. IssuingOK'
  BY <1>3 DEF SessionsInv, IssuingOK
<1>5. Numbered' /\ RotatedOnce'
  BY DEF SessionsInv, Numbered, RotatedOnce
<1>6. LiveTokensListed'
  <2> SUFFICES ASSUME NEW t \in store, t \notin members \cup unlisted'
               PROVE  \E d \in Calls : Is(d, "list")' /\ call'[d].new = t
    BY DEF LiveTokensListed
  <2>1. PICK d \in Calls : Is(d, "list") /\ call[d].new = t
    BY DEF SessionsInv, LiveTokensListed
  <2>2. d # c
    BY <2>1
  <2> QED BY <2>1, <2>2 DEF Is
<1> QED BY <1>1, <1>2, <1>4, <1>5, <1>6 DEF SessionsInv

\* The key was read: no logout came before, and nothing was signed from it.
LEMMA GetTokenInv ==
  ASSUME SessionsInv, NEW c \in Calls, GetToken(c) PROVE SessionsInv'
<1> DEFINE place == IF call[c].old \in store THEN "delete" ELSE "watch"
<1>1. /\ call[c] # NoOne /\ call[c].at = "get" /\ Goto(c, place) /\ ~ Is(c, "list")
      /\ UNCHANGED <<signed, store, members, lock, watched, dirty, links, made, handed,
                     parent, revoked, overrun, unlisted, blinded>>
  BY DEF GetToken, Is
<1>2. place \in Places
  BY DEF Places
<1>3. /\ DOMAIN call' = Calls /\ \A d \in Calls \ {c} : call'[d] = call[d]
      /\ call'[c] \in Call /\ call'[c] # NoOne
      /\ call'[c].at = place /\ call'[c].old = call[c].old
      /\ call'[c].todo = call[c].todo /\ call'[c].late = call[c].late
      /\ served' = served
  BY <1>1, <1>2, GotoOK DEF SessionsInv
<1>4. CallOK(c, call[c])
  BY <1>1 DEF SessionsInv, CallsOK
<1>5. call[c].old \in store => call[c].late = FALSE /\ \A t \in Tokens : parent[t] # call[c].old
  <2>1. call[c].late \in BOOLEAN /\ call[c].old # 0 /\ (call[c].late = TRUE => call[c].old \in revoked)
    BY <1>1, <1>4 DEF CallOK, OfToken, Call
  <2> QED BY <2>1 DEF SessionsInv, Numbered
<1>6. CallOK(c, call'[c])
  BY <1>1, <1>3, <1>4, <1>5 DEF CallOK, OfToken, Rotating
<1>7. call'[c].at \notin {"store", "list"}
  BY <1>3
<1> HIDE DEF place
<1> QED BY <1>1, <1>3, <1>6, <1>7, MovedInv DEF SessionsInv, SessionsTypeOK

LEMMA CompareInv ==
  ASSUME SessionsInv, NEW c \in Calls, Compare(c) PROVE SessionsInv'
<1> DEFINE place == IF lock[call[c].old] = c THEN "exec" ELSE "unwatch"
<1>1. /\ call[c] # NoOne /\ call[c].at = "compare" /\ Goto(c, place) /\ ~ Is(c, "list")
      /\ UNCHANGED <<signed, store, members, lock, watched, dirty, links, made, handed,
                     parent, revoked, overrun, unlisted, blinded>>
  BY DEF Compare, Is
<1>2. place \in Places
  BY DEF Places
<1>3. /\ DOMAIN call' = Calls /\ \A d \in Calls \ {c} : call'[d] = call[d]
      /\ call'[c] \in Call /\ call'[c] # NoOne
      /\ call'[c].at = place /\ call'[c].old = call[c].old
      /\ call'[c].todo = call[c].todo /\ call'[c].late = call[c].late
      /\ served' = served
  BY <1>1, <1>2, GotoOK DEF SessionsInv
<1>4. CallOK(c, call[c])
  BY <1>1 DEF SessionsInv, CallsOK
<1>5. CallOK(c, call'[c])
  BY <1>1, <1>3, <1>4 DEF CallOK, OfToken, Rotating
<1>6. call'[c].at \notin {"store", "list"}
  BY <1>3
<1> HIDE DEF place
<1> QED BY <1>1, <1>3, <1>5, <1>6, MovedInv DEF SessionsInv, SessionsTypeOK

LEMMA FailRotationInv ==
  ASSUME SessionsInv, NEW c \in Calls, FailRotation(c) PROVE SessionsInv'
<1>1. /\ call[c] # NoOne /\ call[c].old # 0
      /\ call[c].at \in {"get", "delete", "unlist", "store", "list"} /\ Goto(c, "watch")
      /\ UNCHANGED <<signed, store, members, lock, watched, dirty, links, made,
                     handed, parent, revoked, overrun, blinded>>
      /\ unlisted' = IF Is(c, "list") THEN unlisted \cup {call[c].new} ELSE unlisted
  BY DEF FailRotation
<1>2. /\ DOMAIN call' = Calls /\ \A d \in Calls \ {c} : call'[d] = call[d]
      /\ call'[c] \in Call /\ call'[c] # NoOne
      /\ call'[c].at = "watch" /\ call'[c].old = call[c].old
      /\ call'[c].todo = call[c].todo /\ call'[c].late = call[c].late
      /\ served' = served
  BY <1>1, GotoOK DEF SessionsInv, Places
<1>3. CallOK(c, call[c])
  BY <1>1 DEF SessionsInv, CallsOK
<1>4. CallOK(c, call'[c])
  BY <1>1, <1>2, <1>3 DEF CallOK, OfToken, Rotating
<1>5. Is(c, "list") => call[c].new \in Tokens
  BY TokenFacts DEF Issuing, SessionsInv, IssuingOK, SessionsTypeOK
<1> QED BY <1>1, <1>2, <1>4, <1>5, MovedInv DEF SessionsInv, SessionsTypeOK

LEMMA FailReleaseInv ==
  ASSUME SessionsInv, NEW c \in Calls, FailRelease(c) PROVE SessionsInv'
<1>1. /\ call[c] # NoOne /\ call[c].at \in {"watch", "compare", "exec"} /\ Goto(c, "fallback")
      /\ ~ Is(c, "list")
      /\ UNCHANGED <<signed, store, members, lock, watched, dirty, links, made,
                     handed, parent, revoked, overrun, unlisted, blinded>>
  BY DEF FailRelease, Is
<1>2. /\ DOMAIN call' = Calls /\ \A d \in Calls \ {c} : call'[d] = call[d]
      /\ call'[c] \in Call /\ call'[c] # NoOne
      /\ call'[c].at = "fallback" /\ call'[c].old = call[c].old
      /\ call'[c].todo = call[c].todo /\ call'[c].late = call[c].late
      /\ served' = served
  BY <1>1, GotoOK DEF SessionsInv, Places
<1>3. CallOK(c, call[c])
  BY <1>1 DEF SessionsInv, CallsOK
<1>4. CallOK(c, call'[c])
  BY <1>1, <1>2, <1>3 DEF CallOK, OfToken, Rotating
<1> QED BY <1>1, <1>2, <1>4, MovedInv DEF SessionsInv, SessionsTypeOK

LEMMA DieInv ==
  ASSUME SessionsInv, NEW c \in Calls, Die(c) PROVE SessionsInv'
<1>1. /\ Done(c)
      /\ UNCHANGED <<signed, store, members, lock, watched, dirty, links, made,
                     handed, parent, revoked, overrun, blinded>>
      /\ unlisted' = IF Is(c, "list") THEN unlisted \cup {call[c].new} ELSE unlisted
  BY DEF Die
<1>2. /\ DOMAIN call' = Calls /\ \A d \in Calls \ {c} : call'[d] = call[d]
      /\ call'[c] = NoOne /\ served' = served
  BY <1>1, DoneOK DEF SessionsInv
<1>3. Is(c, "list") => call[c].new \in Tokens
  BY TokenFacts DEF Issuing, SessionsInv, IssuingOK, SessionsTypeOK
<1> QED BY <1>1, <1>2, <1>3, MovedInv DEF SessionsInv, SessionsTypeOK

\* A logout is of a token its owner has, or of all that are listed.
LEMMA LogoutInv ==
  ASSUME SessionsInv, NEW c \in Calls, LogoutAll(c) \/ \E t \in handed : Logout(c, t) PROVE SessionsInv'
<1>1. PICK place \in {"revoke", "sweep"}, old \in handed \cup {0}, todo \in SUBSET members :
        /\ Enter(c, place, old, 0, todo)
        /\ place = "revoke" => old # 0
        /\ UNCHANGED <<signed, store, members, lock, watched, dirty, links, made, handed,
                       parent, revoked, overrun, unlisted, blinded>>
  <2>1. CASE LogoutAll(c)
    <3>1. Enter(c, "sweep", 0, 0, members)
      BY <2>1 DEF LogoutAll
    <3> QED BY <2>1, <3>1 DEF LogoutAll
  <2>2. ASSUME NEW t \in handed, Logout(c, t)
        PROVE  /\ Enter(c, "revoke", t, 0, {}) /\ t # 0
               /\ UNCHANGED <<signed, store, members, lock, watched, dirty, links, made, handed,
                              parent, revoked, overrun, unlisted, blinded>>
    BY <2>2, TokenFacts DEF Logout, SessionsInv, SessionsTypeOK
  <2>3. {} \in SUBSET members
    OBVIOUS
  <2> QED BY <2>1, <2>2, <2>3
<1>2. place \in Places /\ old \in Tokens \cup {0} /\ todo \in SUBSET Tokens /\ todo \subseteq handed
  BY DEF Places, SessionsInv, SessionsTypeOK, Numbered
<1>3. /\ DOMAIN call' = Calls /\ \A d \in Calls \ {c} : call'[d] = call[d]
      /\ call[c] = NoOne
      /\ call'[c] \in Call /\ call'[c] # NoOne
      /\ call'[c].at = place /\ call'[c].old = old /\ call'[c].todo = todo
      /\ served' \in 0 .. MaxCalls
  BY <1>1, <1>2, EnterOK DEF SessionsInv
<1>4. CallOK(c, call'[c]) /\ call'[c].at \notin {"store", "list"}
  BY <1>1, <1>2, <1>3 DEF CallOK, OfToken, Rotating
<1>5. ~ Is(c, "list")
  BY <1>3 DEF Is
<1> QED BY <1>1, <1>3, <1>4, <1>5, MovedInv DEF SessionsInv, SessionsTypeOK

-----------------------------------------------------------------------------
(* Signing: at a login, or from the token that is being rotated.           *)
LEMMA SignedInv ==
  ASSUME SessionsInv, NEW c \in Calls, NEW from \in Tokens \cup {0}, Sign(from),
         DOMAIN call' = Calls, \A d \in Calls \ {c} : call'[d] = call[d],
         ~ Issuing(c), call'[c] \in Call, call'[c] # NoOne,
         call'[c].at = "store", call'[c].old = from, call'[c].new = signed + 1,
         call'[c].todo \subseteq handed,
         from # 0 => Is(c, "unlist") /\ call[c].old = from,
         UNCHANGED <<store, lock, watched, dirty, handed, revoked, overrun, unlisted, blinded>>,
         served' \in 0 .. MaxCalls, made' \in 0 .. MaxLinks, links' \subseteq 1 .. MaxLinks,
         members' \subseteq members, members \cap store \subseteq members'
  PROVE  SessionsInv'
<1> DEFINE n == signed + 1
<1>1. signed \in 0 .. MaxTokens /\ signed < MaxTokens /\ signed' = n
  BY DEF Sign, SessionsInv, SessionsTypeOK
<1>2. /\ signed \in Nat /\ n \in Tokens /\ n \in 0 .. MaxTokens /\ n \notin 1 .. signed
      /\ 1 .. signed \subseteq 1 .. n /\ n \in 1 .. n
  BY <1>1, BoundsAssumption DEF Tokens
<1>3. parent \in [Tokens -> Tokens \cup {0}] /\ parent' = [parent EXCEPT ![n] = from]
  BY DEF Sign, SessionsInv, SessionsTypeOK
<1> HIDE DEF n
<1>4. /\ parent' \in [Tokens -> Tokens \cup {0}] /\ parent'[n] = from
      /\ \A t \in Tokens \ {n} : parent'[t] = parent[t]
  BY <1>2, <1>3
<1>5. parent[n] = 0
  BY <1>2 DEF SessionsInv, Numbered
<1>6. call'[c].new = n
  BY DEF n
<1>7. from # 0 => CallOK(c, call[c]) /\ call[c].at = "unlist"
  BY DEF Is, SessionsInv, CallsOK
<1>8. from # 0 => /\ from \in handed \ store
                  /\ from \notin overrun => lock[from] = c /\ \A t \in Tokens : parent[t] # from
  BY <1>7 DEF CallOK, Rotating
<1>9. SessionsTypeOK'
  <2>1. \A d \in Calls : call'[d] = NoOne \/ call'[d] \in Call
    BY DEF SessionsInv, SessionsTypeOK
  <2>2. members' \subseteq Tokens
    BY DEF SessionsInv, SessionsTypeOK
  <2> QED BY <1>1, <1>2, <1>4, <2>1, <2>2 DEF SessionsInv, SessionsTypeOK
<1>10. CallsOK'
  <2>1. CallOK(c, call[c])'
    BY <1>8 DEF CallOK, OfToken, Rotating
  <2>2. ASSUME NEW d \in Calls \ {c}, call[d] # NoOne PROVE CallOK(d, call[d])'
    <3>1. CallOK(d, call[d]) /\ call'[d] = call[d]
      BY <2>2 DEF SessionsInv, CallsOK
    <3>2. call[d].at \in {"delete", "unlist"} /\ call[d].old \notin overrun =>
             \A t \in Tokens : parent'[t] # call[d].old
      <4> SUFFICES ASSUME call[d].at \in {"delete", "unlist"}, call[d].old \notin overrun
                   PROVE  \A t \in Tokens : parent'[t] # call[d].old
        OBVIOUS
      <4>1. call[d].old # 0 /\ lock[call[d].old] = d /\ \A t \in Tokens : parent[t] # call[d].old
        BY <3>1 DEF CallOK, OfToken, Rotating
      <4>2. from # call[d].old
        BY <1>8, <4>1, <2>2
      <4> QED BY <1>4, <4>1, <4>2
    <3> QED BY <3>1, <3>2 DEF CallOK
  <2> QED BY <2>1, <2>2 DEF CallsOK
<1>11. IssuingOK'
  <2>1. n \in 1 .. signed' /\ n \notin handed
    BY <1>1, <1>2 DEF SessionsInv, Numbered
  <2>2. \A d \in Calls \ {c} : Issuing(d)' <=> Issuing(d)
    BY DEF Issuing, Is
  <2>3. \A d \in Calls \ {c} : Issuing(d) =>
          call[d].new \in 1 .. signed' /\ call[d].new # n /\ call[d].new \notin handed
    BY <1>1, <1>2 DEF SessionsInv, IssuingOK
  <2> QED BY <1>6, <2>1, <2>2, <2>3 DEF SessionsInv, IssuingOK
<1>12. Numbered'
  BY <1>1, <1>2, <1>4, <1>8 DEF SessionsInv, Numbered
<1>13. RotatedOnce'
  <2> SUFFICES ASSUME NEW t \in Tokens, NEW u \in Tokens, t # u, parent'[t] = parent'[u], parent'[t] # 0
               PROVE  parent'[t] \in overrun
    BY DEF RotatedOnce
  <2>1. CASE t # n /\ u # n
    BY <1>4, <2>1 DEF SessionsInv, RotatedOnce
  <2>2. CASE t = n
    BY <1>4, <1>8, <2>2
  <2>3. CASE u = n
    BY <1>4, <1>8, <2>3
  <2> QED BY <2>1, <2>2, <2>3
<1>14. LiveTokensListed'
  <2> SUFFICES ASSUME NEW t \in store, t \notin members' \cup unlisted
               PROVE  \E d \in Calls : Is(d, "list")' /\ call'[d].new = t
    BY DEF LiveTokensListed
  <2>1. PICK d \in Calls : Is(d, "list") /\ call[d].new = t
    BY DEF SessionsInv, LiveTokensListed
  <2>2. d # c
    BY <2>1 DEF Issuing
  <2> QED BY <2>1, <2>2 DEF Is
<1> QED BY <1>9, <1>10, <1>11, <1>12, <1>13, <1>14 DEF SessionsInv

LEMMA LoginInv ==
  ASSUME SessionsInv, NEW c \in Calls, Login(c) \/ \E l \in links : ConsumeLink(c, l) PROVE SessionsInv'
<1>1. /\ Sign(0) /\ Enter(c, "store", 0, signed + 1, {})
      /\ UNCHANGED <<store, members, lock, watched, dirty, handed, revoked, overrun, unlisted, blinded>>
      /\ made' = made /\ links' \subseteq links
  BY DEF Login, ConsumeLink
<1>2. signed + 1 \in Tokens
  BY <1>1, BoundsAssumption DEF Sign, SessionsInv, SessionsTypeOK, Tokens
<1>3. /\ DOMAIN call' = Calls /\ \A d \in Calls \ {c} : call'[d] = call[d]
      /\ call[c] = NoOne
      /\ call'[c] \in Call /\ call'[c] # NoOne
      /\ call'[c].at = "store" /\ call'[c].old = 0 /\ call'[c].new = signed + 1
      /\ call'[c].todo = {} /\ served' \in 0 .. MaxCalls
  <2>1. "store" \in Places /\ 0 \in Tokens \cup {0} /\ {} \in SUBSET Tokens /\ SessionsTypeOK /\ CallsOK
    BY DEF Places, SessionsInv
  <2>2. Enter(c, "store", 0, signed + 1, {})
    BY <1>1
  <2> QED BY <2>1, <2>2, <1>2, EnterOK
<1>4. ~ Issuing(c)
  BY <1>3 DEF Issuing, Is
<1>5. made' \in 0 .. MaxLinks /\ links' \subseteq 1 .. MaxLinks
  BY <1>1 DEF SessionsInv, SessionsTypeOK
<1> QED BY <1>1, <1>3, <1>4, <1>5, SignedInv

LEMMA UnlistOldInv ==
  ASSUME SessionsInv, NEW c \in Calls, UnlistOld(c) PROVE SessionsInv'
<1> DEFINE r == [call[c] EXCEPT !.at = "store", !.new = signed + 1]
<1>1. /\ Is(c, "unlist") /\ call[c] # NoOne /\ call[c].at = "unlist"
      /\ Sign(call[c].old) /\ members' = members \ {call[c].old}
      /\ call' = [call EXCEPT ![c] = r]
      /\ UNCHANGED <<served, store, lock, watched, dirty, links, made, handed, revoked,
                     overrun, unlisted, blinded>>
  BY DEF UnlistOld, Is
<1>2. signed + 1 \in Tokens
  BY <1>1, BoundsAssumption DEF Sign, SessionsInv, SessionsTypeOK, Tokens
<1>3. CallOK(c, call[c])
  BY <1>1 DEF SessionsInv, CallsOK
<1>4. call[c] \in Call /\ call[c].old # 0 /\ call[c].old \notin store /\ call[c].todo \subseteq handed
  BY <1>1, <1>3 DEF CallOK, OfToken
<1>5. /\ r \in Call /\ r.at = "store" /\ r.old = call[c].old /\ r.new = signed + 1
      /\ r.todo = call[c].todo
  BY <1>2, <1>4 DEF Call, Places
<1>6. call[c].old \in Tokens
  BY <1>4 DEF Call
<1> HIDE DEF r
<1>7. /\ DOMAIN call' = Calls /\ call'[c] = r /\ \A d \in Calls \ {c} : call'[d] = call[d]
  BY <1>1 DEF SessionsInv, CallsOK
<1>8. r # NoOne
  BY <1>5, NoOneAssumption
<1>9. ~ Issuing(c)
  BY <1>1 DEF Issuing, Is
<1>10. members' \subseteq members /\ members \cap store \subseteq members'
  BY <1>1, <1>4
<1>11. served' \in 0 .. MaxCalls /\ made' \in 0 .. MaxLinks /\ links' \subseteq 1 .. MaxLinks
  BY <1>1 DEF SessionsInv, SessionsTypeOK
<1> QED BY <1>1, <1>4, <1>5, <1>6, <1>7, <1>8, <1>9, <1>10, <1>11, SignedInv

-----------------------------------------------------------------------------
(* The new token is stored, then listed and handed over.                   *)
LEMMA StoreTokenInv ==
  ASSUME SessionsInv, NEW c \in Calls, StoreToken(c) PROVE SessionsInv'
<1>1. /\ call[c] # NoOne /\ call[c].at = "store" /\ Goto(c, "list")
      /\ store' = store \cup {call[c].new}
      /\ UNCHANGED <<signed, members, lock, watched, dirty, links, made, handed,
                     parent, revoked, overrun, unlisted, blinded>>
  BY DEF StoreToken, Is
<1>2. /\ DOMAIN call' = Calls /\ \A d \in Calls \ {c} : call'[d] = call[d]
      /\ call'[c] \in Call /\ call'[c] # NoOne
      /\ call'[c].at = "list" /\ call'[c].old = call[c].old /\ call'[c].new = call[c].new
      /\ call'[c].todo = call[c].todo /\ served' = served
  BY <1>1, GotoOK DEF SessionsInv, Places
<1>3. Issuing(c)
  BY <1>1 DEF Issuing, Is
<1>4. call[c].new \in 1 .. signed /\ call[c].new \notin handed
  BY <1>3 DEF SessionsInv, IssuingOK
<1>5. call[c].new \in Tokens
  BY <1>4, TokenFacts DEF SessionsInv, SessionsTypeOK
<1>6. SessionsTypeOK'
  <2>1. \A d \in Calls : call'[d] = NoOne \/ call'[d] \in Call
    BY <1>2 DEF SessionsInv, SessionsTypeOK
  <2> QED BY <1>1, <1>2, <1>5, <2>1 DEF SessionsInv, SessionsTypeOK
<1>7. CallsOK'
  <2>1. CallOK(c, call[c])'
    BY <1>1, <1>2 DEF SessionsInv, CallsOK, CallOK, OfToken, Rotating
  <2>2. ASSUME NEW d \in Calls \ {c}, call[d] # NoOne PROVE CallOK(d, call[d])'
    <3>1. CallOK(d, call[d]) /\ call'[d] = call[d]
      BY <1>2, <2>2 DEF SessionsInv, CallsOK
    <3>2. call[d].at \in {"unlist", "forget", "drop"} => call[d].old \notin store'
      BY <1>1, <1>4, <3>1 DEF CallOK, OfToken
    <3> QED BY <1>1, <3>1, <3>2 DEF CallOK
  <2> QED BY <1>2, <2>1, <2>2 DEF CallsOK
<1>8. \A d \in Calls : Issuing(d)' => Issuing(d) /\ call'[d].new = call[d].new
  BY <1>2, <1>3 DEF Issuing, Is
<1>9. IssuingOK'
  BY <1>1, <1>8 DEF SessionsInv, IssuingOK
<1>10. Numbered' /\ RotatedOnce'
  BY <1>1, <1>4 DEF SessionsInv, Numbered, RotatedOnce
<1>11. LiveTokensListed'
  <2> SUFFICES ASSUME NEW t \in store', t \notin members \cup unlisted
               PROVE  \E d \in Calls : Is(d, "list")' /\ call'[d].new = t
    BY <1>1 DEF LiveTokensListed
  <2>1. CASE t = call[c].new
    BY <1>2, <2>1 DEF Is
  <2>2. CASE t # call[c].new
    <3>1. PICK d \in Calls : Is(d, "list") /\ call[d].new = t
      BY <1>1, <2>2 DEF SessionsInv, LiveTokensListed
    <3> QED BY <1>1, <1>2, <3>1 DEF Is
  <2> QED BY <2>1, <2>2
<1> QED BY <1>6, <1>7, <1>9, <1>10, <1>11 DEF SessionsInv

LEMMA ListTokenInv ==
  ASSUME SessionsInv, NEW c \in Calls, ListToken(c) PROVE SessionsInv'
<1>1. /\ call[c] # NoOne /\ call[c].at = "list"
      /\ members' = members \cup {call[c].new} /\ handed' = handed \cup {call[c].new}
      /\ IF call[c].old = 0 THEN Done(c) ELSE Goto(c, "watch")
      /\ UNCHANGED <<signed, store, lock, watched, dirty, links, made, parent,
                     revoked, overrun, unlisted, blinded>>
  BY DEF ListToken, Is
<1>2. /\ DOMAIN call' = Calls /\ \A d \in Calls \ {c} : call'[d] = call[d]
      /\ call'[c] # NoOne =>
            /\ call[c].old # 0 /\ call'[c] \in Call
            /\ call'[c].at = "watch" /\ call'[c].old = call[c].old
            /\ call'[c].todo = call[c].todo
      /\ served' = served
  <2>1. CASE call[c].old = 0
    BY <1>1, <2>1, DoneOK DEF SessionsInv
  <2>2. CASE call[c].old # 0
    BY <1>1, <2>2, GotoOK DEF SessionsInv, Places
  <2> QED BY <2>1, <2>2
<1>3. Issuing(c)
  BY <1>1 DEF Issuing, Is
<1>4. /\ call[c].new \in 1 .. signed
      /\ \A d \in Calls \ {c} : Issuing(d) => call[d].new # call[c].new
  BY <1>3 DEF SessionsInv, IssuingOK
<1>5. call[c].new \in Tokens
  BY <1>4, TokenFacts DEF SessionsInv, SessionsTypeOK
<1>6. SessionsTypeOK'
  <2>1. \A d \in Calls : call'[d] = NoOne \/ call'[d] \in Call
    BY <1>2 DEF SessionsInv, SessionsTypeOK
  <2> QED BY <1>1, <1>2, <1>5, <2>1 DEF SessionsInv, SessionsTypeOK
<1>7. CallsOK'
  <2>1. ASSUME call'[c] # NoOne PROVE CallOK(c, call[c])'
    <3>1. CallOK(c, call[c])
      BY <1>1 DEF SessionsInv, CallsOK
    <3> QED BY <1>1, <1>2, <2>1, <3>1 DEF CallOK, OfToken, Rotating
  <2>2. ASSUME NEW d \in Calls \ {c}, call[d] # NoOne PROVE CallOK(d, call[d])'
    <3>1. CallOK(d, call[d]) /\ call'[d] = call[d]
      BY <1>2, <2>2 DEF SessionsInv, CallsOK
    <3> QED BY <1>1, <3>1 DEF CallOK
  <2> QED BY <1>2, <2>1, <2>2 DEF CallsOK
<1>8. \A d \in Calls : Issuing(d)' => d # c /\ Issuing(d) /\ call'[d] = call[d]
  BY <1>2 DEF Issuing, Is
<1>9. IssuingOK'
  BY <1>1, <1>4, <1>8 DEF SessionsInv, IssuingOK
<1>10. Numbered' /\ RotatedOnce'
  BY <1>1, <1>4 DEF SessionsInv, Numbered, RotatedOnce
<1>11. LiveTokensListed'
  <2> SUFFICES ASSUME NEW t \in store, t \notin members' \cup unlisted
               PROVE  \E d \in Calls : Is(d, "list")' /\ call'[d].new = t
    BY <1>1 DEF LiveTokensListed
  <2>1. PICK d \in Calls : Is(d, "list") /\ call[d].new = t
    BY <1>1 DEF SessionsInv, LiveTokensListed
  <2>2. d # c
    BY <1>1, <2>1
  <2> QED BY <1>2, <2>1, <2>2 DEF Is
<1> QED BY <1>6, <1>7, <1>9, <1>10, <1>11 DEF SessionsInv

-----------------------------------------------------------------------------
(* Steps that issue no token: keys are deleted, locks and watches change.  *)
LEMMA QuietInv ==
  ASSUME SessionsInv, SessionsTypeOK', CallsOK', Numbered',
         \A d \in Calls : Issuing(d)' => Issuing(d) /\ call'[d] = call[d],
         \A d \in Calls : Is(d, "list") => Is(d, "list")' /\ call'[d] = call[d],
         UNCHANGED <<signed, handed, parent, unlisted>>,
         overrun \subseteq overrun', store' \subseteq store, members \cap store' \subseteq members'
  PROVE  SessionsInv'
<1>1. IssuingOK'
  BY DEF SessionsInv, IssuingOK
<1>2. RotatedOnce'
  BY DEF SessionsInv, RotatedOnce
<1>3. LiveTokensListed'
  <2> SUFFICES ASSUME NEW t \in store', t \notin members' \cup unlisted
               PROVE  \E d \in Calls : Is(d, "list")' /\ call'[d].new = t
    BY DEF LiveTokensListed
  <2>1. PICK d \in Calls : Is(d, "list") /\ call[d].new = t
    BY DEF SessionsInv, LiveTokensListed
  <2> QED BY <2>1
<1> QED BY <1>1, <1>2, <1>3 DEF SessionsInv

\* A key is deleted, and some tokens taken from the list.
LEMMA ShrinksInv ==
  ASSUME SessionsInv, NEW c \in Calls,
         DOMAIN call' = Calls, \A d \in Calls \ {c} : call'[d] = call[d],
         call[c] # NoOne, call[c].at \notin {"store", "list"},
         call'[c] # NoOne => call'[c].at \notin {"store", "list"} /\ CallOK(c, call[c])',
         UNCHANGED <<signed, lock, watched, dirty, served, links, made, handed,
                     parent, overrun, unlisted, blinded>>,
         store' \subseteq store, members' \subseteq members, members \cap store' \subseteq members',
         revoked \subseteq revoked', revoked' \subseteq handed, revoked' \cap store' = {}
  PROVE  SessionsInv'
<1>1. SessionsTypeOK'
  <2>1. \A d \in Calls : call'[d] = NoOne \/ call'[d] \in Call
    BY DEF SessionsInv, SessionsTypeOK, CallOK
  <2>2. store' \subseteq Tokens /\ members' \subseteq Tokens /\ revoked' \subseteq Tokens
    BY DEF SessionsInv, SessionsTypeOK
  <2> QED BY <2>1, <2>2 DEF SessionsInv, SessionsTypeOK
<1>2. CallsOK'
  <2>1. ASSUME NEW d \in Calls \ {c}, call[d] # NoOne PROVE CallOK(d, call[d])'
    <3>1. CallOK(d, call[d]) /\ call'[d] = call[d]
      BY <2>1 DEF SessionsInv, CallsOK
    <3> QED BY <3>1 DEF CallOK
  <2> QED BY <2>1 DEF CallsOK
<1>3. Numbered'
  BY DEF SessionsInv, Numbered
<1>4. /\ \A d \in Calls : Issuing(d)' => Issuing(d) /\ call'[d] = call[d]
      /\ \A d \in Calls : Is(d, "list") => Is(d, "list")' /\ call'[d] = call[d]
  BY DEF Issuing, Is
<1> QED BY <1>1, <1>2, <1>3, <1>4, QuietInv

LEMMA DeleteOldInv ==
  ASSUME SessionsInv, NEW c \in Calls, DeleteOld(c) PROVE SessionsInv'
<1>1. /\ call[c] # NoOne /\ call[c].at = "delete" /\ Goto(c, "unlist")
      /\ store' = store \ {call[c].old}
      /\ UNCHANGED <<signed, members, lock, watched, dirty, links, made, handed,
                     parent, revoked, overrun, unlisted, blinded>>
  BY DEF DeleteOld, Is
<1>2. /\ DOMAIN call' = Calls /\ \A d \in Calls \ {c} : call'[d] = call[d]
      /\ call'[c] \in Call /\ call'[c] # NoOne
      /\ call'[c].at = "unlist" /\ call'[c].old = call[c].old
      /\ call'[c].todo = call[c].todo /\ served' = served
  BY <1>1, GotoOK DEF SessionsInv, Places
<1>3. CallOK(c, call[c])
  BY <1>1 DEF SessionsInv, CallsOK
<1>4. CallOK(c, call[c])'
  BY <1>1, <1>2, <1>3 DEF CallOK, OfToken, Rotating
<1>5. revoked \subseteq handed /\ revoked \cap store = {}
  BY DEF SessionsInv, Numbered
<1> QED BY <1>1, <1>2, <1>4, <1>5, ShrinksInv

LEMMA RevokeKeyInv ==
  ASSUME SessionsInv, NEW c \in Calls, RevokeKey(c) PROVE SessionsInv'
<1>1. /\ call[c] # NoOne /\ call[c].at = "revoke" /\ Goto(c, "forget")
      /\ store' = store \ {call[c].old} /\ revoked' = revoked \cup {call[c].old}
      /\ UNCHANGED <<signed, members, lock, watched, dirty, links, made, handed,
                     parent, overrun, unlisted, blinded>>
  BY DEF RevokeKey, Is
<1>2. /\ DOMAIN call' = Calls /\ \A d \in Calls \ {c} : call'[d] = call[d]
      /\ call'[c] \in Call /\ call'[c] # NoOne
      /\ call'[c].at = "forget" /\ call'[c].old = call[c].old
      /\ call'[c].todo = call[c].todo /\ served' = served
  BY <1>1, GotoOK DEF SessionsInv, Places
<1>3. CallOK(c, call[c])
  BY <1>1 DEF SessionsInv, CallsOK
<1>4. CallOK(c, call[c])'
  BY <1>1, <1>2, <1>3 DEF CallOK, OfToken, Rotating
<1>5. call[c].old \in handed
  BY <1>1, <1>3 DEF CallOK, OfToken
<1>6. revoked \subseteq handed /\ revoked \cap store = {}
  BY DEF SessionsInv, Numbered
<1> QED BY <1>1, <1>2, <1>4, <1>5, <1>6, ShrinksInv

LEMMA RevokeMemberInv ==
  ASSUME SessionsInv, NEW c \in Calls, RevokeMember(c) PROVE SessionsInv'
<1>1. /\ call[c] # NoOne /\ call[c].at = "forget" /\ Done(c)
      /\ members' = members \ {call[c].old}
      /\ UNCHANGED <<signed, store, lock, watched, dirty, links, made, handed,
                     parent, revoked, overrun, unlisted, blinded>>
  BY DEF RevokeMember, Is
<1>2. /\ DOMAIN call' = Calls /\ \A d \in Calls \ {c} : call'[d] = call[d]
      /\ call'[c] = NoOne /\ served' = served
  BY <1>1, DoneOK DEF SessionsInv
<1>3. call[c].old \notin store
  BY <1>1 DEF SessionsInv, CallsOK, CallOK
<1>4. revoked \subseteq handed /\ revoked \cap store = {}
  BY DEF SessionsInv, Numbered
<1> QED BY <1>1, <1>2, <1>3, <1>4, ShrinksInv

LEMMA SweepKeyInv ==
  ASSUME SessionsInv, NEW c \in Calls, SweepKey(c) PROVE SessionsInv'
<1>1. /\ call[c] # NoOne /\ call[c].at = "sweep"
      /\ UNCHANGED <<signed, members, lock, watched, dirty, links, made, handed,
                     parent, overrun, unlisted, blinded>>
  BY DEF SweepKey, Is
<1>2. CallOK(c, call[c])
  BY <1>1 DEF SessionsInv, CallsOK
<1>3. revoked \subseteq handed /\ revoked \cap store = {}
  BY DEF SessionsInv, Numbered
<1>4. CASE call[c].todo = {}
  <2>1. Done(c) /\ store' = store /\ revoked' = revoked
    BY <1>4 DEF SweepKey
  <2>2. /\ DOMAIN call' = Calls /\ \A d \in Calls \ {c} : call'[d] = call[d]
        /\ call'[c] = NoOne /\ served' = served
    BY <2>1, DoneOK DEF SessionsInv
  <2> QED BY <1>1, <1>3, <2>1, <2>2, ShrinksInv
<1>5. CASE call[c].todo # {}
  <2>1. PICK t \in call[c].todo :
          /\ store' = store \ {t} /\ revoked' = revoked \cup {t}
          /\ call' = [call EXCEPT ![c].at = "drop", ![c].old = t]
          /\ served' = served
    BY <1>5 DEF SweepKey
  <2>2. t \in handed /\ t \in Tokens /\ t # 0
    BY <1>2, TokenFacts DEF CallOK, SessionsInv, SessionsTypeOK
  <2> DEFINE r == [call[c] EXCEPT !.at = "drop", !.old = t]
  <2>3. /\ r \in Call /\ r.at = "drop" /\ r.old = t /\ r.todo = call[c].todo
    BY <1>2, <2>2 DEF CallOK, Call, Places
  <2>4. call' = [call EXCEPT ![c] = r]
    BY <2>1
  <2> HIDE DEF r
  <2>5. \A d \in Calls \ {c} : call'[d] = call[d]
    BY <2>4 DEF SessionsInv, CallsOK
  <2>6. DOMAIN call' = Calls /\ call'[c] = r
    BY <2>4 DEF SessionsInv, CallsOK
  <2>7. CallOK(c, call[c])'
    BY <1>1, <1>2, <2>1, <2>2, <2>3, <2>6 DEF CallOK, OfToken, Rotating
  <2> QED BY <1>1, <1>3, <2>1, <2>2, <2>3, <2>5, <2>6, <2>7, ShrinksInv
<1> QED BY <1>4, <1>5

LEMMA SweepMemberInv ==
  ASSUME SessionsInv, NEW c \in Calls, SweepMember(c) PROVE SessionsInv'
<1> DEFINE r == [call[c] EXCEPT !.at = "sweep", !.old = 0, !.todo = call[c].todo \ {call[c].old}]
<1>1. /\ call[c] # NoOne /\ call[c].at = "drop"
      /\ members' = members \ {call[c].old}
      /\ call' = [call EXCEPT ![c] = r]
      /\ UNCHANGED <<served, signed, store, lock, watched, dirty, links, made, handed,
                     parent, revoked, overrun, unlisted, blinded>>
  BY DEF SweepMember, Is
<1>2. CallOK(c, call[c])
  BY <1>1 DEF SessionsInv, CallsOK
<1>3. call[c] \in Call /\ call[c].todo \subseteq handed /\ call[c].old \notin store
  BY <1>1, <1>2 DEF CallOK
<1>4. /\ r \in Call /\ r.at = "sweep" /\ r.old = 0 /\ r.todo \subseteq call[c].todo
  BY <1>3 DEF Call, Places
<1> HIDE DEF r
<1>5. DOMAIN call' = Calls /\ call'[c] = r /\ \A d \in Calls \ {c} : call'[d] = call[d]
  BY <1>1 DEF SessionsInv, CallsOK
<1>6. CallOK(c, call[c])'
  BY <1>1, <1>3, <1>4, <1>5 DEF CallOK, OfToken, Rotating
<1>7. revoked \subseteq handed /\ revoked \cap store = {}
  BY DEF SessionsInv, Numbered
<1> QED BY <1>1, <1>3, <1>4, <1>5, <1>6, <1>7, ShrinksInv

-----------------------------------------------------------------------------
(* Locks and watches.                                                      *)
LEMMA LocksInv ==
  ASSUME SessionsInv, SessionsTypeOK', CallsOK',
         UNCHANGED <<signed, store, members, handed, parent, revoked, unlisted>>,
         overrun \subseteq overrun',
         \A d \in Calls : Issuing(d)' \/ Issuing(d) => call'[d] = call[d]
  PROVE  SessionsInv'
<1>1. Numbered'
  BY DEF SessionsInv, Numbered
<1>2. /\ \A d \in Calls : Issuing(d)' => Issuing(d) /\ call'[d] = call[d]
      /\ \A d \in Calls : Is(d, "list") => Is(d, "list")' /\ call'[d] = call[d]
  BY DEF Issuing, Is
<1> QED BY <1>1, <1>2, QuietInv

\* Of the calls that rotate a token whose lock has not run out, there is one.
LEMMA OnlyHolder ==
  ASSUME SessionsInv, NEW c \in Calls, NEW d \in Calls, call[c] # NoOne, call[d] # NoOne,
         call[c].at \in Rotating, call[d].at \in Rotating, call[c].old # 0,
         call[c].old = call[d].old, call[c].old \notin overrun
  PROVE  c = d
BY DEF SessionsInv, CallsOK, CallOK

LEMMA RotateInv ==
  ASSUME SessionsInv, NEW c \in Calls, NEW t \in handed, Rotate(c, t) PROVE SessionsInv'
<1>1. /\ lock[t] = NoOne /\ Enter(c, "get", t, 0, {})
      /\ lock' = [lock EXCEPT ![t] = c] /\ dirty' = (dirty \/ t \in watched)
      /\ UNCHANGED <<signed, store, members, watched, links, made, handed,
                     parent, revoked, overrun, unlisted, blinded>>
  BY DEF Rotate, LockIsFree
<1>2. t \in Tokens /\ t # 0 /\ lock \in [Tokens -> Calls \cup {NoOne}]
  BY TokenFacts DEF SessionsInv, SessionsTypeOK
<1>3. /\ DOMAIN call' = Calls /\ \A d \in Calls \ {c} : call'[d] = call[d]
      /\ call[c] = NoOne
      /\ call'[c] \in Call /\ call'[c] # NoOne
      /\ call'[c].at = "get" /\ call'[c].old = t
      /\ call'[c].todo = {}
      /\ call'[c].late = TRUE => t \in revoked
      /\ served' \in 0 .. MaxCalls
  <2>1. "get" \in Places /\ t \in Tokens \cup {0} /\ 0 \in Tokens \cup {0} /\ {} \in SUBSET Tokens
        /\ SessionsTypeOK /\ CallsOK
    BY <1>2 DEF Places, SessionsInv
  <2>2. Enter(c, "get", t, 0, {})
    BY <1>1
  <2> QED BY <2>1, <2>2, EnterOK
<1>4. /\ lock' \in [Tokens -> Calls \cup {NoOne}] /\ lock'[t] = c
      /\ \A u \in Tokens \ {t} : lock'[u] = lock[u]
  BY <1>1, <1>2
<1>5. SessionsTypeOK'
  <2>1. \A d \in Calls : call'[d] = NoOne \/ call'[d] \in Call
    BY <1>3 DEF SessionsInv, SessionsTypeOK
  <2>2. dirty' \in BOOLEAN
    BY <1>1 DEF SessionsInv, SessionsTypeOK
  <2> QED BY <1>1, <1>3, <1>4, <2>1, <2>2 DEF SessionsInv, SessionsTypeOK
<1>6. CallsOK'
  <2>1. CallOK(c, call[c])'
    BY <1>1, <1>2, <1>3, <1>4 DEF CallOK, OfToken, Rotating
  <2>2. ASSUME NEW d \in Calls \ {c}, call[d] # NoOne PROVE CallOK(d, call[d])'
    <3>1. CallOK(d, call[d]) /\ call'[d] = call[d]
      BY <1>3, <2>2 DEF SessionsInv, CallsOK
    <3>2. call[d].old \in Tokens \cup {0}
      BY <3>1 DEF CallOK, Call
    <3>3. call[d].at \in Rotating /\ call[d].old # 0 /\ call[d].old \notin overrun
             => lock'[call[d].old] = d
      BY <1>1, <1>4, <3>1, <3>2, NoOneAssumption DEF CallOK
    <3>4. call[d].at \in {"compare", "exec"} /\ d \notin blinded =>
             call[d].old \in watched /\ (call[d].at = "exec" /\ lock'[call[d].old] # d => dirty')
      BY <1>1, <1>4, <3>1, <3>2 DEF CallOK, OfToken
    <3> QED BY <1>1, <3>1, <3>3, <3>4 DEF CallOK
  <2> QED BY <1>3, <2>1, <2>2 DEF CallsOK
<1>7. \A d \in Calls : Issuing(d)' \/ Issuing(d) => call'[d] = call[d]
  BY <1>3 DEF Issuing, Is
<1> QED BY <1>1, <1>5, <1>6, <1>7, LocksInv

LEMMA LockExpiresInv ==
  ASSUME SessionsInv, NEW t \in Tokens, LockExpires(t) PROVE SessionsInv'
<1>1. /\ lock[t] # NoOne
      /\ lock' = [lock EXCEPT ![t] = NoOne] /\ dirty' = (dirty \/ t \in watched)
      /\ overrun' = IF call[lock[t]] # NoOne /\ call[lock[t]].old = t
                    THEN overrun \cup {t} ELSE overrun
      /\ UNCHANGED <<signed, store, members, watched, call, served, links, made, handed,
                     parent, revoked, unlisted, blinded>>
  BY DEF LockExpires
<1>2. lock \in [Tokens -> Calls \cup {NoOne}]
  BY DEF SessionsInv, SessionsTypeOK
<1>3. /\ lock' \in [Tokens -> Calls \cup {NoOne}] /\ lock'[t] = NoOne
      /\ \A u \in Tokens \ {t} : lock'[u] = lock[u]
  BY <1>1, <1>2
<1>4. SessionsTypeOK'
  <2>1. dirty' \in BOOLEAN /\ overrun' \subseteq Tokens
    BY <1>1 DEF SessionsInv, SessionsTypeOK
  <2> QED BY <1>1, <1>3, <2>1 DEF SessionsInv, SessionsTypeOK
<1>5. CallsOK'
  <2>1. ASSUME NEW d \in Calls, call[d] # NoOne PROVE CallOK(d, call[d])'
    <3>1. CallOK(d, call[d]) /\ call'[d] = call[d]
      BY <1>1, <2>1 DEF SessionsInv, CallsOK
    <3>2. call[d].old \in Tokens \cup {0}
      BY <3>1 DEF CallOK, Call
    <3>3. call[d].at \in Rotating /\ call[d].old # 0 /\ call[d].old \notin overrun'
             => lock'[call[d].old] = d
      <4> SUFFICES ASSUME call[d].at \in Rotating, call[d].old # 0, call[d].old \notin overrun'
                   PROVE  lock'[call[d].old] = d
        OBVIOUS
      <4>1. lock[call[d].old] = d
        BY <1>1, <3>1 DEF CallOK
      <4>2. call[d].old # t
        BY <1>1, <2>1, <4>1
      <4> QED BY <1>3, <3>2, <4>1, <4>2
    <3>4. call[d].at \in {"compare", "exec"} /\ d \notin blinded =>
             call[d].old \in watched /\ (call[d].at = "exec" /\ lock'[call[d].old] # d => dirty')
      BY <1>1, <1>3, <3>1, <3>2 DEF CallOK, OfToken
    <3>5. overrun \subseteq overrun'
      BY <1>1
    <3> QED BY <1>1, <3>1, <3>3, <3>4, <3>5 DEF CallOK
  <2> QED BY <1>1, <2>1 DEF SessionsInv, CallsOK
<1>6. overrun \subseteq overrun'
  BY <1>1
<1> QED BY <1>1, <1>4, <1>5, <1>6, LocksInv

LEMMA FallbackInv ==
  ASSUME SessionsInv, NEW c \in Calls, Fallback(c) PROVE SessionsInv'
<1>1. /\ call[c] # NoOne /\ call[c].at = "fallback" /\ Goto(c, "unwatch")
      /\ lock' = [lock EXCEPT ![call[c].old] = NoOne]
      /\ dirty' = (dirty \/ (lock[call[c].old] # NoOne /\ call[c].old \in watched))
      /\ UNCHANGED <<signed, store, members, watched, links, made, handed, parent,
                     revoked, overrun, unlisted, blinded>>
  BY DEF Fallback, Is
<1>2. CallOK(c, call[c])
  BY <1>1 DEF SessionsInv, CallsOK
<1>3. call[c].old # 0 /\ call[c].old \in Tokens
  BY <1>1, <1>2 DEF CallOK, Call, OfToken
<1>4. lock \in [Tokens -> Calls \cup {NoOne}]
  BY DEF SessionsInv, SessionsTypeOK
<1>5. /\ lock' \in [Tokens -> Calls \cup {NoOne}] /\ lock'[call[c].old] = NoOne
      /\ \A u \in Tokens \ {call[c].old} : lock'[u] = lock[u]
  BY <1>1, <1>3, <1>4
<1>6. /\ DOMAIN call' = Calls /\ \A d \in Calls \ {c} : call'[d] = call[d]
      /\ call'[c] \in Call /\ call'[c] # NoOne
      /\ call'[c].at = "unwatch" /\ call'[c].old = call[c].old
      /\ call'[c].todo = call[c].todo /\ served' = served
  BY <1>1, GotoOK DEF SessionsInv, Places
<1>7. SessionsTypeOK'
  <2>1. \A d \in Calls : call'[d] = NoOne \/ call'[d] \in Call
    BY <1>6 DEF SessionsInv, SessionsTypeOK
  <2>2. dirty' \in BOOLEAN
    BY <1>1 DEF SessionsInv, SessionsTypeOK
  <2> QED BY <1>1, <1>5, <1>6, <2>1, <2>2 DEF SessionsInv, SessionsTypeOK
<1>8. CallsOK'
  <2>1. CallOK(c, call[c])'
    BY <1>1, <1>2, <1>6 DEF CallOK, OfToken, Rotating
  <2>2. ASSUME NEW d \in Calls \ {c}, call[d] # NoOne PROVE CallOK(d, call[d])'
    <3>1. CallOK(d, call[d]) /\ call'[d] = call[d]
      BY <1>6, <2>2 DEF SessionsInv, CallsOK
    <3>2. call[d].old \in Tokens \cup {0}
      BY <3>1 DEF CallOK, Call
    <3>3. call[d].at \in Rotating /\ call[d].old # 0 /\ call[d].old \notin overrun
             => lock'[call[d].old] = d
      <4> SUFFICES ASSUME call[d].at \in Rotating, call[d].old # 0, call[d].old \notin overrun
                   PROVE  lock'[call[d].old] = d
        OBVIOUS
      <4>1. call[d].old # call[c].old
        BY <1>1, <2>2, OnlyHolder DEF Rotating
      <4> QED BY <1>5, <3>1, <3>2, <4>1 DEF CallOK
    <3>4. call[d].at \in {"compare", "exec"} /\ d \notin blinded =>
             call[d].old \in watched /\ (call[d].at = "exec" /\ lock'[call[d].old] # d => dirty')
      <4> SUFFICES ASSUME call[d].at \in {"compare", "exec"}, d \notin blinded
                   PROVE  call[d].old \in watched /\ (call[d].at = "exec" /\ lock'[call[d].old] # d => dirty')
        OBVIOUS
      <4>1. /\ call[d].old \in watched /\ call[d].old # 0
            /\ call[d].at = "exec" /\ lock[call[d].old] # d => dirty
        BY <3>1 DEF CallOK, OfToken
      <4>2. CASE call[d].old = call[c].old
        BY <1>1, <4>1, <4>2, NoOneAssumption
      <4>3. CASE call[d].old # call[c].old
        BY <1>1, <1>5, <3>2, <4>1, <4>3
      <4> QED BY <4>2, <4>3
    <3> QED BY <1>1, <3>1, <3>3, <3>4 DEF CallOK
  <2> QED BY <1>6, <2>1, <2>2 DEF CallsOK
<1>9. \A d \in Calls : Issuing(d)' \/ Issuing(d) => call'[d] = call[d]
  BY <1>1, <1>6 DEF Issuing, Is
<1> QED BY <1>1, <1>7, <1>8, <1>9, LocksInv

\* Whoever ends the watches blinds the others.
LEMMA ExecInv ==
  ASSUME SessionsInv, NEW c \in Calls, Exec(c) PROVE SessionsInv'
<1>1. /\ call[c] # NoOne /\ call[c].at = "exec" /\ Goto(c, "unwatch")
      /\ lock' = IF Unchanged THEN [lock EXCEPT ![call[c].old] = NoOne] ELSE lock
      /\ watched' = {} /\ dirty' = FALSE
      /\ blinded' = blinded \cup {d \in Calls \ {c} : Is(d, "compare") \/ Is(d, "exec")}
      /\ UNCHANGED <<signed, store, members, links, made, handed, parent,
                     revoked, overrun, unlisted>>
  BY DEF Exec, EndWatches, Is
<1>2. CallOK(c, call[c])
  BY <1>1 DEF SessionsInv, CallsOK
<1>3. call[c].old # 0 /\ call[c].old \in Tokens
  BY <1>1, <1>2 DEF CallOK, Call, OfToken
<1>4. lock \in [Tokens -> Calls \cup {NoOne}]
  BY DEF SessionsInv, SessionsTypeOK
<1>5. /\ lock' \in [Tokens -> Calls \cup {NoOne}]
      /\ \A u \in Tokens \ {call[c].old} : lock'[u] = lock[u]
  BY <1>1, <1>3, <1>4
<1>6. /\ DOMAIN call' = Calls /\ \A d \in Calls \ {c} : call'[d] = call[d]
      /\ call'[c] \in Call /\ call'[c] # NoOne
      /\ call'[c].at = "unwatch" /\ call'[c].old = call[c].old
      /\ call'[c].todo = call[c].todo /\ served' = served
  BY <1>1, GotoOK DEF SessionsInv, Places
<1>7. SessionsTypeOK'
  <2>1. \A d \in Calls : call'[d] = NoOne \/ call'[d] \in Call
    BY <1>6 DEF SessionsInv, SessionsTypeOK
  <2>2. blinded' \subseteq Calls
    BY <1>1 DEF SessionsInv, SessionsTypeOK
  <2> QED BY <1>1, <1>5, <1>6, <2>1, <2>2 DEF SessionsInv, SessionsTypeOK
<1>8. CallsOK'
  <2>1. CallOK(c, call[c])'
    BY <1>1, <1>2, <1>6 DEF CallOK, OfToken, Rotating
  <2>2. ASSUME NEW d \in Calls \ {c}, call[d] # NoOne PROVE CallOK(d, call[d])'
    <3>1. CallOK(d, call[d]) /\ call'[d] = call[d]
      BY <1>6, <2>2 DEF SessionsInv, CallsOK
    <3>2. call[d].old \in Tokens \cup {0}
      BY <3>1 DEF CallOK, Call
    <3>3. call[d].at \in Rotating /\ call[d].old # 0 /\ call[d].old \notin overrun
             => lock'[call[d].old] = d
      <4> SUFFICES ASSUME call[d].at \in Rotating, call[d].old # 0, call[d].old \notin overrun
                   PROVE  lock'[call[d].old] = d
        OBVIOUS
      <4>1. call[d].old # call[c].old
        BY <1>1, <2>2, OnlyHolder DEF Rotating
      <4> QED BY <1>5, <3>1, <3>2, <4>1 DEF CallOK
    <3>4. call[d].at \in {"compare", "exec"} => d \in blinded'
      BY <1>1, <2>2 DEF Is
    <3> QED BY <1>1, <3>1, <3>3, <3>4 DEF CallOK
  <2> QED BY <1>6, <2>1, <2>2 DEF CallsOK
<1>9. \A d \in Calls : Issuing(d)' \/ Issuing(d) => call'[d] = call[d]
  BY <1>1, <1>6 DEF Issuing, Is
<1> QED BY <1>1, <1>7, <1>8, <1>9, LocksInv

LEMMA UnwatchInv ==
  ASSUME SessionsInv, NEW c \in Calls, Unwatch(c) PROVE SessionsInv'
<1>1. /\ call[c] # NoOne /\ call[c].at = "unwatch" /\ Done(c)
      /\ watched' = {} /\ dirty' = FALSE
      /\ blinded' = blinded \cup {d \in Calls \ {c} : Is(d, "compare") \/ Is(d, "exec")}
      /\ UNCHANGED <<signed, store, members, lock, links, made, handed, parent,
                     revoked, overrun, unlisted>>
  BY DEF Unwatch, EndWatches, Is
<1>2. /\ DOMAIN call' = Calls /\ \A d \in Calls \ {c} : call'[d] = call[d]
      /\ call'[c] = NoOne /\ served' = served
  BY <1>1, DoneOK DEF SessionsInv
<1>3. SessionsTypeOK'
  <2>1. \A d \in Calls : call'[d] = NoOne \/ call'[d] \in Call
    BY <1>2 DEF SessionsInv, SessionsTypeOK
  <2>2. blinded' \subseteq Calls
    BY <1>1 DEF SessionsInv, SessionsTypeOK
  <2> QED BY <1>1, <1>2, <2>1, <2>2 DEF SessionsInv, SessionsTypeOK
<1>4. CallsOK'
  <2>1. ASSUME NEW d \in Calls \ {c}, call[d] # NoOne PROVE CallOK(d, call[d])'
    <3>1. CallOK(d, call[d]) /\ call'[d] = call[d]
      BY <1>2, <2>1 DEF SessionsInv, CallsOK
    <3>2. call[d].at \in {"compare", "exec"} => d \in blinded'
      BY <1>1, <2>1 DEF Is
    <3> QED BY <1>1, <3>1, <3>2 DEF CallOK
  <2> QED BY <1>2, <2>1 DEF CallsOK
<1>5. \A d \in Calls : Issuing(d)' \/ Issuing(d) => call'[d] = call[d]
  BY <1>1, <1>2 DEF Issuing, Is
<1> QED BY <1>1, <1>3, <1>4, <1>5, LocksInv

LEMMA WatchInv ==
  ASSUME SessionsInv, NEW c \in Calls, Watch(c) PROVE SessionsInv'
<1>1. /\ call[c] # NoOne /\ call[c].at = "watch" /\ Goto(c, "compare")
      /\ watched' = watched \cup {call[c].old} /\ blinded' = blinded \ {c}
      /\ UNCHANGED <<signed, store, members, lock, dirty, links, made, handed,
                     parent, revoked, overrun, unlisted>>
  BY DEF Watch, Is
<1>2. CallOK(c, call[c])
  BY <1>1 DEF SessionsInv, CallsOK
<1>3. call[c].old # 0 /\ call[c].old \in Tokens
  BY <1>1, <1>2 DEF CallOK, Call, OfToken
<1>4. /\ DOMAIN call' = Calls /\ \A d \in Calls \ {c} : call'[d] = call[d]
      /\ call'[c] \in Call /\ call'[c] # NoOne
      /\ call'[c].at = "compare" /\ call'[c].old = call[c].old
      /\ call'[c].todo = call[c].todo /\ served' = served
  BY <1>1, GotoOK DEF SessionsInv, Places
<1>5. SessionsTypeOK'
  <2>1. \A d \in Calls : call'[d] = NoOne \/ call'[d] \in Call
    BY <1>4 DEF SessionsInv, SessionsTypeOK
  <2>2. watched' \subseteq Tokens /\ blinded' \subseteq Calls
    BY <1>1, <1>3 DEF SessionsInv, SessionsTypeOK
  <2> QED BY <1>1, <1>4, <2>1, <2>2 DEF SessionsInv, SessionsTypeOK
<1>6. CallsOK'
  <2>1. CallOK(c, call[c])'
    BY <1>1, <1>2, <1>4 DEF CallOK, OfToken, Rotating
  <2>2. ASSUME NEW d \in Calls \ {c}, call[d] # NoOne PROVE CallOK(d, call[d])'
    <3>1. CallOK(d, call[d]) /\ call'[d] = call[d]
      BY <1>4, <2>2 DEF SessionsInv, CallsOK
    <3> QED BY <1>1, <2>2, <3>1 DEF CallOK
  <2> QED BY <1>4, <2>1, <2>2 DEF CallsOK
<1>7. \A d \in Calls : Issuing(d)' \/ Issuing(d) => call'[d] = call[d]
  BY <1>1, <1>4 DEF Issuing, Is
<1> QED BY <1>1, <1>5, <1>6, <1>7, LocksInv

-----------------------------------------------------------------------------
LEMMA LinksInv ==
  ASSUME SessionsInv, CreateLink \/ \E l \in links : LinkExpires(l) PROVE SessionsInv'
<1>1. /\ made' \in 0 .. MaxLinks /\ links' \subseteq 1 .. MaxLinks
      /\ UNCHANGED <<signed, store, members, lock, watched, dirty, call, served, handed,
                     parent, revoked, overrun, unlisted, blinded>>
  <2>1. CASE CreateLink
    <3>1. made \in 0 .. MaxLinks /\ made < MaxLinks /\ made' = made + 1 /\ links' = links \cup {made + 1}
      BY <2>1 DEF CreateLink, SessionsInv, SessionsTypeOK
    <3>2. made + 1 \in 1 .. MaxLinks /\ made' \in 0 .. MaxLinks
      BY <3>1, BoundsAssumption
    <3> QED BY <2>1, <3>1, <3>2 DEF CreateLink, SessionsInv, SessionsTypeOK
  <2>2. CASE \E l \in links : LinkExpires(l)
    BY <2>2 DEF LinkExpires, SessionsInv, SessionsTypeOK
  <2> QED BY <2>1, <2>2
<1>2. SessionsTypeOK' /\ CallsOK'
  BY <1>1 DEF SessionsInv, SessionsTypeOK, CallsOK, CallOK
<1> QED BY <1>1, <1>2, LocksInv

\* No token has been issued at first and no call is under way.
THEOREM SessionsInitInv == SessionsInit => SessionsInv
<1> SUFFICES ASSUME SessionsInit PROVE SessionsInv
  OBVIOUS
<1>1. \A c \in Calls : call[c] = NoOne
  BY DEF SessionsInit
<1>2. 0 \in 0 .. MaxTokens /\ 0 \in 0 .. MaxLinks /\ 0 \in 0 .. MaxCalls
  BY BoundsAssumption
<1>3. SessionsTypeOK
  BY <1>1, <1>2 DEF SessionsInit, SessionsTypeOK
<1>4. CallsOK /\ IssuingOK
  BY <1>1 DEF SessionsInit, CallsOK, IssuingOK, Issuing, Is
<1>5. Numbered /\ RotatedOnce /\ LiveTokensListed
  BY DEF SessionsInit, Numbered, RotatedOnce, LiveTokensListed
<1> QED BY <1>3, <1>4, <1>5 DEF SessionsInv

\* Every step keeps what the calls rely on.
THEOREM SessionsNextInv == SessionsInv /\ [SessionsNext]_sessionVars => SessionsInv'
<1> SUFFICES ASSUME SessionsInv, [SessionsNext]_sessionVars PROVE SessionsInv'
  OBVIOUS
<1>1. ASSUME NEW c \in Calls, Login(c) \/ \E l \in links : ConsumeLink(c, l) PROVE SessionsInv'
  BY <1>1, LoginInv
<1>2. ASSUME NEW c \in Calls, StoreToken(c) PROVE SessionsInv'
  BY <1>2, StoreTokenInv
<1>3. ASSUME NEW c \in Calls, ListToken(c) PROVE SessionsInv'
  BY <1>3, ListTokenInv
<1>4. ASSUME NEW c \in Calls, GetToken(c) PROVE SessionsInv'
  BY <1>4, GetTokenInv
<1>5. ASSUME NEW c \in Calls, DeleteOld(c) PROVE SessionsInv'
  BY <1>5, DeleteOldInv
<1>6. ASSUME NEW c \in Calls, UnlistOld(c) PROVE SessionsInv'
  BY <1>6, UnlistOldInv
<1>7. ASSUME NEW c \in Calls, Watch(c) PROVE SessionsInv'
  BY <1>7, WatchInv
<1>8. ASSUME NEW c \in Calls, Compare(c) PROVE SessionsInv'
  BY <1>8, CompareInv
<1>9. ASSUME NEW c \in Calls, Exec(c) PROVE SessionsInv'
  BY <1>9, ExecInv
<1>10. ASSUME NEW c \in Calls, Unwatch(c) PROVE SessionsInv'
  BY <1>10, UnwatchInv
<1>11. ASSUME NEW c \in Calls, FailRotation(c) PROVE SessionsInv'
  BY <1>11, FailRotationInv
<1>12. ASSUME NEW c \in Calls, FailRelease(c) PROVE SessionsInv'
  BY <1>12, FailReleaseInv
<1>13. ASSUME NEW c \in Calls, Fallback(c) PROVE SessionsInv'
  BY <1>13, FallbackInv
<1>14. ASSUME NEW c \in Calls, RevokeKey(c) PROVE SessionsInv'
  BY <1>14, RevokeKeyInv
<1>15. ASSUME NEW c \in Calls, RevokeMember(c) PROVE SessionsInv'
  BY <1>15, RevokeMemberInv
<1>16. ASSUME NEW c \in Calls, LogoutAll(c) \/ \E t \in handed : Logout(c, t) PROVE SessionsInv'
  BY <1>16, LogoutInv
<1>17. ASSUME NEW c \in Calls, SweepKey(c) PROVE SessionsInv'
  BY <1>17, SweepKeyInv
<1>18. ASSUME NEW c \in Calls, SweepMember(c) PROVE SessionsInv'
  BY <1>18, SweepMemberInv
<1>19. ASSUME NEW c \in Calls, Die(c) PROVE SessionsInv'
  BY <1>19, DieInv
<1>20. ASSUME NEW c \in Calls, NEW t \in handed, Rotate(c, t) PROVE SessionsInv'
  BY <1>20, RotateInv
<1>21. ASSUME NEW t \in Tokens, LockExpires(t) PROVE SessionsInv'
  BY <1>21, LockExpiresInv
<1>22. CASE CreateLink \/ \E l \in links : LinkExpires(l)
  BY <1>22, LinksInv
<1>23. CASE UNCHANGED sessionVars
  <2>1. SessionsTypeOK' /\ CallsOK'
    BY <1>23 DEF sessionVars, SessionsInv, SessionsTypeOK, CallsOK, CallOK
  <2> QED BY <1>23, <2>1, LocksInv DEF sessionVars
<1> QED BY <1>1, <1>2, <1>3, <1>4, <1>5, <1>6, <1>7, <1>8, <1>9, <1>10, <1>11, <1>12, <1>13,
           <1>14, <1>15, <1>16, <1>17, <1>18, <1>19, <1>20, <1>21, <1>22, <1>23 DEF SessionsNext

\* Every reachable state is well typed, and every call at work may rely on
\* what CallOK says of it.
THEOREM SessionsInductive == SessionsSpec => []SessionsInv
<1> QED BY SessionsInitInv, SessionsNextInv, PTL DEF SessionsSpec

\* For any number of calls: two tokens are rotated from one only if its lock
\* ran out while a rotation held it.
THEOREM TokensRotateOnce == SessionsSpec => []RotatedOnce
<1>1. SessionsInv => RotatedOnce
  BY DEF SessionsInv
<1> QED BY <1>1, SessionsInductive, PTL

\* For any number of calls: no rotation of a revoked token gets past the read
\* of its key, and the user's list names every live token but those excepted.
THEOREM LogoutsHold == SessionsSpec => []RevocationHolds
<1>1. SessionsInv => RevocationHolds
  BY DEF SessionsInv, RevocationHolds, RevokedStaysRevoked, CallsOK, CallOK, Is
<1> QED BY <1>1, SessionsInductive, PTL

\* A release deletes another rotation's lock only if its own ran out and its
\* watch was ended by another release.
THEOREM LocksReleasedByOwner == SessionsSpec => ReleasesOwnLock
<1> DEFINE Own(c) == Is(c, "exec") /\ lock[call[c].old] # c
                         /\ lock'[call[c].old] # lock[call[c].old]
                         /\ call'[c] # call[c]
                     => call[c].old \in overrun /\ c \in blinded
<1>1. SessionsInv /\ [SessionsNext]_sessionVars => [\A c \in Calls : Own(c)]_sessionVars
  <2> SUFFICES ASSUME SessionsInv, SessionsNext, NEW c \in Calls, Is(c, "exec"),
                      lock[call[c].old] # c, lock'[call[c].old] # lock[call[c].old],
                      call'[c] # call[c]
               PROVE  call[c].old \in overrun /\ c \in blinded
    BY DEF sessionVars
  <2>1. CallOK(c, call[c]) /\ call[c] # NoOne /\ call[c].at = "exec"
    BY DEF Is, SessionsInv, CallsOK
  <2>2. call[c].old \in overrun /\ (c \notin blinded => dirty)
    BY <2>1 DEF CallOK, Rotating, OfToken
  <2>3. dirty \in BOOLEAN
    BY DEF SessionsInv, SessionsTypeOK
  <2>4. ~ dirty
    <3> SUFFICES ASSUME dirty PROVE FALSE
      OBVIOUS
    <3>1. \/ \E d \in Calls : Exec(d) \/ Fallback(d) \/ \E t \in handed : Rotate(d, t)
          \/ \E t \in Tokens : LockExpires(t)
      BY DEF SessionsNext, Login, StoreToken, ListToken, GetToken, DeleteOld, UnlistOld, Watch, Compare,
             Unwatch, FailRotation, FailRelease, RevokeKey, RevokeMember, LogoutAll, SweepKey,
             SweepMember, Die, Logout, ConsumeLink, CreateLink, LinkExpires
    <3>2. ASSUME NEW d \in Calls, Exec(d) PROVE FALSE
      <4>1. d # c
        BY <3>2 DEF Exec, Unchanged
      <4> QED BY <3>2, <4>1, GotoOK DEF Exec, Is, SessionsInv, Places
    <3>3. ASSUME NEW d \in Calls, Fallback(d) PROVE FALSE
      <4>1. d # c
        BY <2>1, <3>3 DEF Fallback, Is
      <4> QED BY <3>3, <4>1, GotoOK DEF Fallback, Is, SessionsInv, Places
    <3>4. ASSUME NEW d \in Calls, NEW t \in handed, Rotate(d, t) PROVE FALSE
      <4>1. d # c /\ call' = [call EXCEPT ![d] = call'[d]]
        BY <2>1, <3>4 DEF Rotate, Enter, SessionsInv, CallsOK
      <4> QED BY <4>1 DEF SessionsInv, CallsOK
    <3>5. ASSUME NEW t \in Tokens, LockExpires(t) PROVE FALSE
      BY <3>5 DEF LockExpires
    <3> QED BY <3>1, <3>2, <3>3, <3>4, <3>5
  <2> QED BY <2>2, <2>3, <2>4
<1> QED BY <1>1, SessionsInductive, PTL DEF SessionsSpec, ReleasesOwnLock

-----------------------------------------------------------------------------
(* The distributed lock.  RedisLock implements Lease: for any number of    *)
(* workers every step of the key is a step of a lock with at most one      *)
(* owner.  The argument needs that no two workers hold the same token and  *)
(* that a key that exists has time left.                                   *)

\* Tokens are not shared, and the key exists exactly as long as it has time.
Unshared == \A p, q \in Worker : handle[p] # None /\ handle[p] = handle[q] => p = q
Expires == key.token # None <=> key.left > 0

\* Who waits for the lock has no handle.
EmptyHanded == \A p \in Worker : patience[p] # None => handle[p] = None

LockInv == TypeOK /\ Unshared /\ Expires /\ EmptyHanded

USE TtlAssumption, WaitAssumption, TokenAssumption

\* At first nobody holds a token and no key exists.
THEOREM LockInitInv == Init => LockInv
BY DEF Init, LockInv, TypeOK, Unshared, Expires, EmptyHanded, NoKey

LEMMA GrabInv ==
  ASSUME LockInv, NEW p \in Worker, By(p), Grab(p) PROVE LockInv'
<1>1. PICK t \in Token, ttl \in Ttl :
        /\ Fresh(t)
        /\ key' = [token |-> t, left |-> ttl]
        /\ handle' \in {handle, [handle EXCEPT ![p] = t]}
  BY DEF Grab, SetNx
<1>2. patience' = [patience EXCEPT ![p] = None]
  BY DEF Grab
<1>3. TypeOK'
  BY <1>1, <1>2 DEF LockInv, TypeOK, By
<1>4. Unshared'
  BY <1>1 DEF LockInv, TypeOK, Unshared, Fresh
<1>5. Expires'
  BY <1>1 DEF Expires
<1>6. EmptyHanded'
  BY <1>1, <1>2 DEF LockInv, TypeOK, EmptyHanded
<1> QED BY <1>3, <1>4, <1>5, <1>6 DEF LockInv

LEMMA TickInv == LockInv /\ Tick => LockInv'
<1> SUFFICES ASSUME LockInv, Tick PROVE LockInv'
  OBVIOUS
<1>1. key \in [token : Token \cup {None}, left : Nat]
  BY DEF LockInv, TypeOK
<1>2. /\ key.left > 1 => key' = [key EXCEPT !.left = key.left - 1]
      /\ key.left = 1 => key' = NoKey
      /\ key.left = 0 => key' = key
  BY <1>1 DEF Tick
<1>3. key' \in [token : Token \cup {None}, left : Nat] /\ Expires'
  BY <1>1, <1>2 DEF LockInv, Expires, NoKey
<1>4. patience' \in [Worker -> 0 .. MaxWait \cup {None}]
  <2> SUFFICES ASSUME NEW p \in Worker, patience[p] \notin {None, 0}
               PROVE  patience[p] - 1 \in 0 .. MaxWait \cup {None}
    BY DEF Tick, LockInv, TypeOK
  <2>1. patience[p] \in 0 .. MaxWait
    BY DEF LockInv, TypeOK
  <2> QED BY <2>1
<1>5. EmptyHanded'
  <2> SUFFICES ASSUME NEW p \in Worker, patience'[p] # None PROVE handle'[p] = None
    BY DEF EmptyHanded
  <2>1. patience[p] # None
    BY DEF Tick, LockInv, TypeOK
  <2> QED BY <2>1 DEF Tick, LockInv, EmptyHanded
<1> QED BY <1>3, <1>4, <1>5 DEF Tick, LockInv, TypeOK, Unshared

\* Every call of Redis, every expiry and every crash keeps tokens apart.
THEOREM LockNextInv == LockInv /\ [Next]_vars => LockInv'
<1> SUFFICES ASSUME LockInv, [Next]_vars PROVE LockInv'
  OBVIOUS
<1>1. CASE Tick
  BY <1>1, TickInv
<1>2. ASSUME NEW p \in Worker, By(p), TryAcquire(p) \/ Attempt(p) PROVE LockInv'
  <2>1. CASE Grab(p)
    BY <1>2, <2>1, GrabInv
  <2>2. CASE ~ Grab(p)
    BY <1>2, <2>2 DEF TryAcquire, Attempt, By, LockInv, TypeOK, Unshared, Expires, EmptyHanded
  <2> QED BY <2>1, <2>2
<1>3. ASSUME NEW p \in Worker, By(p), Acquire(p) PROVE LockInv'
  BY <1>3 DEF Acquire, By, LockInv, TypeOK, Unshared, Expires, EmptyHanded
<1>4. ASSUME NEW p \in Worker, By(p), Renew(p) PROVE LockInv'
  BY <1>4 DEF Renew, Owns, By, LockInv, TypeOK, Unshared, Expires, EmptyHanded
<1>5. ASSUME NEW p \in Worker, By(p), Release(p) PROVE LockInv'
  BY <1>5 DEF Release, Owns, NoKey, By, LockInv, TypeOK, Unshared, Expires, EmptyHanded
<1>6. ASSUME NEW p \in Worker, By(p), Lose(p) PROVE LockInv'
  BY <1>6 DEF Lose, By, LockInv, TypeOK, Unshared, Expires, EmptyHanded
<1>7. CASE UNCHANGED vars
  BY <1>7 DEF vars, LockInv, TypeOK, Unshared, Expires, EmptyHanded
<1> QED BY <1>1, <1>2, <1>3, <1>4, <1>5, <1>6, <1>7 DEF Next

\* Every reachable state is well typed, no two workers hold the same token, and
\* a key that exists has time left: no lock is kept for ever.
THEOREM LockInductive == Spec => []LockInv
<1> QED BY LockInitInv, LockNextInv, PTL DEF Spec

-----------------------------------------------------------------------------
(* The refinement mapping.                                                 *)

LEMMA OwnerFree == Free => Owner = Nobody
BY DEF Owner

LEMMA OwnerIs ==
  ASSUME LockInv, NEW p \in Worker, Owns(p) PROVE Owner = p
<1>1. ~ Free
  BY DEF Owns, Free
<1>2. \A q \in Worker : Owns(q) => q = p
  BY DEF Owns, LockInv, Unshared
<1>3. (CHOOSE q \in Worker : Owns(q)) = p
  BY <1>2
<1> QED BY <1>1, <1>3 DEF Owner

LEMMA OwnerDead == ~ Free /\ (\A p \in Worker : ~ Owns(p)) => Owner = Dead
BY DEF Owner

\* Nothing changes for a key whose owner and time stay.
LEMMA SameOwner ==
  ASSUME key' = key, \A p \in Worker : Owns(p)' <=> Owns(p)
  PROVE  Owner' = Owner
<1>1. (CHOOSE p \in Worker : Owns(p)') = (CHOOSE p \in Worker : Owns(p))
  OBVIOUS
<1> QED BY <1>1 DEF Owner, Free

\* No key, no lease: the lock starts where the promise starts.
THEOREM InitPromise == Init => Promise!Init
BY DEF Init, NoKey, Promise!Init, Owner, Free

LEMMA GrabPromise ==
  ASSUME LockInv, LockInv', NEW p \in Worker, Grab(p) PROVE Promise!Take(p)
<1>1. PICK t \in Token, ttl \in Ttl :
        /\ Fresh(t)
        /\ key' = [token |-> t, left |-> ttl]
        /\ handle' \in {handle, [handle EXCEPT ![p] = t]}
  BY DEF Grab, SetNx
<1>2. Owner = Nobody
  BY OwnerFree DEF Grab
<1>3. Owner' \in {p, Dead}
  <2>1. CASE handle' = [handle EXCEPT ![p] = t]
    <3>1. Owns(p)'
      BY <1>1, <2>1 DEF Owns, LockInv, TypeOK
    <3>2. ~ Free'
      BY <1>1 DEF Free
    <3>3. \A q \in Worker : Owns(q)' => q = p
      BY <3>1 DEF Owns, LockInv, Unshared
    <3> QED BY <3>1, <3>2, <3>3 DEF Owner
  <2>2. CASE handle' = handle
    <3>1. \A q \in Worker : ~ Owns(q)'
      BY <1>1, <2>2 DEF Fresh, Owns
    <3>2. ~ Free'
      BY <1>1 DEF Free
    <3> QED BY <3>1, <3>2 DEF Owner
  <2> QED BY <1>1, <2>1, <2>2
<1> QED BY <1>1, <1>2, <1>3 DEF Promise!Take

LEMMA RenewPromise ==
  ASSUME LockInv, NEW p \in Worker, Renew(p)
  PROVE  Promise!Extend(p) \/ Promise!Idle(p)
<1>1. handle' = handle
  BY DEF Renew
<1>2. CASE Owns(p)
  <2>1. PICK ttl \in Ttl : key' = [key EXCEPT !.left = ttl]
    BY <1>2 DEF Renew
  <2>2. key'.token = key.token /\ key'.left \in Ttl
    BY <2>1 DEF LockInv, TypeOK
  <2>3. \A q \in Worker : Owns(q)' <=> Owns(q)
    BY <1>1, <2>2 DEF Owns
  <2>4. (CHOOSE q \in Worker : Owns(q)') = (CHOOSE q \in Worker : Owns(q))
    BY <2>3
  <2>5. Owner' = Owner
    BY <2>2, <2>3, <2>4 DEF Owner, Free
  <2> QED BY <1>2, <2>2, <2>5, OwnerIs DEF Promise!Extend
<1>3. CASE ~ Owns(p)
  <2>1. key' = key
    BY <1>3 DEF Renew
  <2>2. \A q \in Worker : Owns(q)' <=> Owns(q)
    BY <1>1, <2>1 DEF Owns
  <2> QED BY <2>1, <2>2, SameOwner DEF Promise!Idle
<1> QED BY <1>2, <1>3

LEMMA ReleasePromise ==
  ASSUME LockInv, NEW p \in Worker, Release(p)
  PROVE  Promise!Give(p) \/ Promise!Idle(p)
<1>1. \A q \in Worker \ {p} : handle'[q] = handle[q]
  BY DEF Release, LockInv, TypeOK
<1>2. handle'[p] = None
  BY DEF Release, LockInv, TypeOK
<1>3. CASE Owns(p)
  <2>1. key' = NoKey
    BY <1>3 DEF Release
  <2>2. Owner' = Nobody /\ key'.left = 0
    BY <2>1 DEF Owner, Free, NoKey
  <2> QED BY <1>3, <2>2, OwnerIs DEF Promise!Give
<1>4. CASE ~ Owns(p)
  <2>1. key' = key
    BY <1>4 DEF Release
  <2>2. \A q \in Worker : Owns(q)' <=> Owns(q)
    BY <1>1, <1>2, <1>4, <2>1 DEF Owns
  <2> QED BY <2>1, <2>2, SameOwner DEF Promise!Idle
<1> QED BY <1>3, <1>4

LEMMA LosePromise ==
  ASSUME LockInv, NEW p \in Worker, Lose(p)
  PROVE  Promise!Die(p) \/ Promise!Idle(p)
<1>1. \A q \in Worker \ {p} : handle'[q] = handle[q]
  BY DEF Lose, LockInv, TypeOK
<1>2. handle'[p] = None /\ key' = key
  BY DEF Lose, LockInv, TypeOK
<1>3. CASE Owns(p)
  <2>1. \A q \in Worker : ~ Owns(q)'
    BY <1>1, <1>2, <1>3 DEF Owns, LockInv, Unshared
  <2>2. ~ Free'
    BY <1>2, <1>3 DEF Free, Owns
  <2>3. Owner' = Dead
    BY <2>1, <2>2 DEF Owner
  <2> QED BY <1>2, <1>3, <2>3, OwnerIs DEF Promise!Die
<1>4. CASE ~ Owns(p)
  <2>1. \A q \in Worker : Owns(q)' <=> Owns(q)
    BY <1>1, <1>2, <1>4 DEF Owns
  <2> QED BY <1>2, <2>1, SameOwner DEF Promise!Idle
<1> QED BY <1>3, <1>4

LEMMA TickPromise ==
  ASSUME LockInv, Tick
  PROVE  Promise!Pass
<1>1. key \in [token : Token \cup {None}, left : Nat] /\ handle' = handle /\ actor' = Nobody
  BY DEF LockInv, TypeOK, Tick
<1>2. CASE key.left = 0
  <2>1. key' = key
    BY <1>1, <1>2 DEF Tick
  <2>2. \A q \in Worker : Owns(q)' <=> Owns(q)
    BY <1>1, <2>1 DEF Owns
  <2>3. Owner = Nobody
    BY <1>2, OwnerFree DEF LockInv, Expires, Free
  <2> QED BY <1>1, <1>2, <2>1, <2>2, <2>3, SameOwner DEF Promise!Pass
<1>3. CASE key.left = 1
  <2>1. key' = NoKey
    BY <1>1, <1>3 DEF Tick
  <2>2. Owner' = Nobody /\ key'.left = 0
    BY <2>1 DEF Owner, Free, NoKey
  <2> QED BY <1>1, <1>3, <2>2 DEF Promise!Pass
<1>4. CASE key.left > 1
  <2>1. key' = [key EXCEPT !.left = key.left - 1]
    BY <1>1, <1>4 DEF Tick
  <2>2. key'.token = key.token /\ key'.left = key.left - 1
    BY <1>1, <2>1
  <2>3. \A q \in Worker : Owns(q)' <=> Owns(q)
    BY <1>1, <2>2 DEF Owns
  <2>4. (CHOOSE q \in Worker : Owns(q)') = (CHOOSE q \in Worker : Owns(q))
    BY <2>3
  <2>5. Owner' = Owner
    BY <2>2, <2>3, <2>4 DEF Owner, Free
  <2> QED BY <1>1, <1>4, <2>2, <2>5 DEF Promise!Pass
<1> QED BY <1>1, <1>2, <1>3, <1>4

\* A step that touches neither the key nor a handle.
LEMMA Aside ==
  ASSUME key' = key, handle' = handle PROVE Owner' = Owner /\ key'.left = key.left
<1>1. \A q \in Worker : Owns(q)' <=> Owns(q)
  BY DEF Owns
<1> QED BY <1>1, SameOwner

\* Every step of the lock is a step of the promise or changes nothing of it.
THEOREM NextPromise == LockInv /\ LockInv' /\ [Next]_vars => [Promise!Next]_(Promise!vars)
<1> SUFFICES ASSUME LockInv, LockInv', [Next]_vars
             PROVE  Promise!Next \/ UNCHANGED Promise!vars
  OBVIOUS
<1>1. CASE Tick
  BY <1>1, TickPromise DEF Promise!Next
<1>2. ASSUME NEW p \in Worker, By(p), TryAcquire(p) \/ Attempt(p)
      PROVE  Promise!Next \/ UNCHANGED Promise!vars
  <2>1. CASE Grab(p)
    BY <1>2, <2>1, GrabPromise DEF Promise!Next, By
  <2>2. CASE ~ Grab(p)
    <3>1. key' = key /\ handle' = handle
      BY <1>2, <2>2 DEF TryAcquire, Attempt
    <3> QED BY <1>2, <3>1, Aside DEF Promise!Next, Promise!Idle, By
  <2> QED BY <2>1, <2>2
<1>3. ASSUME NEW p \in Worker, By(p), Acquire(p)
      PROVE  Promise!Next \/ UNCHANGED Promise!vars
  BY <1>3, Aside DEF Acquire, Promise!Next, Promise!Idle, By
<1>4. ASSUME NEW p \in Worker, By(p), Renew(p)
      PROVE  Promise!Next \/ UNCHANGED Promise!vars
  BY <1>4, RenewPromise DEF Promise!Next, By
<1>5. ASSUME NEW p \in Worker, By(p), Release(p)
      PROVE  Promise!Next \/ UNCHANGED Promise!vars
  BY <1>5, ReleasePromise DEF Promise!Next, By
<1>6. ASSUME NEW p \in Worker, By(p), Lose(p)
      PROVE  Promise!Next \/ UNCHANGED Promise!vars
  BY <1>6, LosePromise DEF Promise!Next, By
<1>7. CASE UNCHANGED vars
  BY <1>7, Aside DEF vars, Promise!vars
<1> QED BY <1>1, <1>2, <1>3, <1>4, <1>5, <1>6, <1>7 DEF Next

\* A worker that has lost the key and still has its handle can only renew,
\* release or lose that; none of these touches the key.
THEOREM LateNext ==
  LockInv /\ [Next]_vars =>
    [\A p \in Worker : By(p) /\ handle[p] # None /\ ~ Owns(p) => UNCHANGED key]_vars
<1> SUFFICES ASSUME LockInv, Next,
                    NEW p \in Worker, By(p), handle[p] # None, ~ Owns(p)
             PROVE  key' = key
  BY DEF vars
<1>1. patience[p] = None
  BY DEF LockInv, EmptyHanded
<1>2. p # Nobody
  BY WorkerAssumption DEF Nobody
<1>3. ~ Tick
  BY <1>2 DEF Tick, By
<1>4. PICK q \in Worker : By(q) /\ (\/ TryAcquire(q) \/ Acquire(q) \/ Attempt(q)
                                    \/ Renew(q) \/ Release(q) \/ Lose(q))
  BY <1>3 DEF Next
<1>5. q = p
  BY <1>4 DEF By
<1>6. Renew(p) \/ Release(p) \/ Lose(p)
  BY <1>1, <1>4, <1>5 DEF TryAcquire, Acquire, Attempt
<1> QED BY <1>6 DEF Renew, Release, Lose

\* The lock service implements the lease: at most one owner at any time, and
\* ownership ends only by the owner's own release, its death or its time; only
\* the owner prolongs it; and a call with the handle of a key that was lost
\* leaves the key alone.
THEOREM LeaseKept == Spec => IsLease
<1>1. Spec => Promise!Spec
  BY InitPromise, NextPromise, LockInductive, PTL DEF Spec, Promise!Spec
<1>2. Spec => LateCallsDoNothing
  BY LateNext, LockInductive, PTL DEF Spec, LateCallsDoNothing
<1> QED BY <1>1, <1>2 DEF IsLease

=============================================================================
