------------------------------ MODULE Accounts ------------------------------
(***************************************************************************)
(* What the api-gateway does with validated codes: the reset of a          *)
(* forgotten password (professional and client), the confirmed change of a *)
(* password (professional), and the creation of a professional's account,  *)
(* which asks for a validated mail.  The code itself is judged by Codes.   *)
(*                                                                         *)
(* A user is named by the telephone number or mail address that belongs to *)
(* it.  work[c] is the handler that request c is in; while it runs         *)
(* validateCode, caller[c] is that call.                                   *)
(***************************************************************************)
EXTENDS Codes

VARIABLES
    key,        \* the Redis key of a request to change a password
    work,       \* the handler a request is in
    changes,    \* how often a request changed a password
    entangled,  \* requests served by two calls at once, or cut short
    account     \* how far the account of an address was created

ownVars == <<key, work, changes, entangled, account>>
accountVars == <<codeVars, ownVars>>

Kinds == {"reset", "update"}
Stages == {"none", "business", "profile", "complete"}

Key == [kind : Kinds, user : Addresses, valid : BOOLEAN]
Job == [do : {"reset", "update", "write", "delete", "signup", "profile", "select"},
        req : Requests \cup {Idle}, user : Addresses]

ASSUME NoKeyNoJob == Idle \notin Key \cup Job

AccountsTypeOK ==
    /\ key \in [Requests -> Key \cup {Idle}]
    /\ work \in [Callers -> Job \cup {Idle}]
    /\ changes \in [Requests -> 0..2]
    /\ entangled \subseteq Requests
    /\ account \in [Addresses -> Stages]

AccountsInit ==
    /\ CodesInit
    /\ key = [r \in Requests |-> Idle]
    /\ work = [c \in Callers |-> Idle]
    /\ changes = [r \in Requests |-> 0]
    /\ entangled = {}
    /\ account = [a \in Addresses |-> "none"]

Free(c) == caller[c] = Idle /\ work[c] = Idle
Does(c, what) == work[c] # Idle /\ work[c].do = what

(* Call c turns to request r for the user u.                               *)
Begin(c, what, r, u) ==
    /\ work' = [work EXCEPT ![c] = [do |-> what, req |-> r, user |-> u]]
    /\ entangled' = IF \E d \in Callers : work[d] # Idle /\ work[d].req = r
                    THEN entangled \cup {r} ELSE entangled

\* Two changes stand for any number of them.
OneMore(n) == IF n = 2 THEN 2 ELSE n + 1

Finish(c) == work' = [work EXCEPT ![c] = Idle]

-----------------------------------------------------------------------------
(* Passwords.                                                              *)

(* RequestPasswordReset and UpdatePassword: the key under a new request    *)
(* id, then the code to the telephone of the user.  The password a user    *)
(* types to change it is checked before.                                   *)
RequestChange(kind, r, u) ==
    /\ FreshRequest(r) /\ key[r] = Idle
    /\ key' = [key EXCEPT ![r] = [kind |-> kind, user |-> u, valid |-> FALSE]]
    /\ Publish(r, u)
    /\ UNCHANGED <<work, changes, entangled, account>>

(* ValidatePasswordResetCode: the key must exist; then validateCode.       *)
ValidateReset(c, r, guess) ==
    /\ Free(c)
    /\ key[r] # Idle /\ key[r].kind = "reset"
    /\ Validate(c, r, guess)
    /\ Begin(c, "reset", r, key[r].user)
    /\ UNCHANGED <<key, changes, account>>

(* The key is written anew, whether or not it still exists.                *)
MarkValidated(c) ==
    /\ Does(c, "reset") /\ At(c, "valid")
    /\ key' = [key EXCEPT ![work[c].req] =
                  [kind |-> "reset", user |-> work[c].user, valid |-> TRUE]]
    /\ Answer(c) /\ Finish(c)
    /\ UNCHANGED <<changes, entangled, account>>

KeyAllows(r) == key[r] # Idle /\ key[r].kind = "reset" /\ key[r].valid

(* ResetPassword: read the key, write the password, delete the key.        *)
ResetPassword(c, r) ==
    /\ Free(c)
    /\ KeyAllows(r)
    /\ Begin(c, "write", r, key[r].user)
    /\ UNCHANGED <<codeVars, key, changes, account>>

WritePassword(c) ==
    /\ Does(c, "write")
    /\ changes' = [changes EXCEPT ![work[c].req] = OneMore(changes[work[c].req])]
    /\ work' = [work EXCEPT ![c].do = "delete"]
    /\ UNCHANGED <<codeVars, key, entangled, account>>

\* Mutant: the key of a used request stays until it expires.
KeepKey(c) ==
    /\ Does(c, "delete")
    /\ Finish(c)
    /\ UNCHANGED <<codeVars, key, changes, entangled, account>>

DeleteKey(c) ==
    /\ Does(c, "delete")
    /\ key' = [key EXCEPT ![work[c].req] = Idle]
    /\ Finish(c)
    /\ UNCHANGED <<codeVars, changes, entangled, account>>

(* UpdatePasswordConfirmCode: validateCode first, then the key, which it   *)
(* leaves in place, and the password.                                      *)
ConfirmUpdate(c, r, guess, u) ==
    /\ Free(c)
    /\ Validate(c, r, guess)
    /\ Begin(c, "update", r, u)
    /\ UNCHANGED <<key, changes, account>>

MayWrite(c) ==
    LET k == key[work[c].req] IN k # Idle /\ k.kind = "update" /\ k.user = work[c].user

WriteConfirmed(c) ==
    /\ Does(c, "update") /\ At(c, "valid") /\ MayWrite(c)
    /\ changes' = [changes EXCEPT ![work[c].req] = OneMore(changes[work[c].req])]
    /\ Answer(c) /\ Finish(c)
    /\ UNCHANGED <<key, entangled, account>>

KeyExpires(r) ==
    /\ key[r] # Idle
    /\ key' = [key EXCEPT ![r] = Idle]
    /\ UNCHANGED <<codeVars, work, changes, entangled, account>>

-----------------------------------------------------------------------------
(* The account of a professional.                                          *)

(* A validated mail of the address, whichever request it was for.          *)
MailValidated(a) ==
    \E r \in MailRequests :
        row[r] # Idle /\ row[r].to = a /\ row[r].valid /\ ~row[r].active

SignUp(c, a) ==
    /\ Free(c)
    /\ MailValidated(a)
    /\ account[a] = "none"
    /\ work' = [work EXCEPT ![c] = [do |-> "signup", req |-> Idle, user |-> a]]
    /\ UNCHANGED <<codeVars, key, changes, entangled, account>>

(* The business with its owner, settings and trial is one nested create,   *)
(* whose unique keys refuse a second one; the profile and the selected     *)
(* business follow, outside any transaction.                               *)
CreateBusiness(c) ==
    /\ Does(c, "signup")
    /\ LET a == work[c].user IN
       IF account[a] = "none"
       THEN /\ account' = [account EXCEPT ![a] = "business"]
            /\ work' = [work EXCEPT ![c].do = "profile"]
       ELSE Finish(c) /\ UNCHANGED account
    /\ UNCHANGED <<codeVars, key, changes, entangled>>

CreateProfile(c) ==
    /\ Does(c, "profile")
    /\ account' = [account EXCEPT ![work[c].user] = "profile"]
    /\ work' = [work EXCEPT ![c].do = "select"]
    /\ UNCHANGED <<codeVars, key, changes, entangled>>

SelectBusiness(c) ==
    /\ Does(c, "select")
    /\ account' = [account EXCEPT ![work[c].user] = "complete"]
    /\ Finish(c)
    /\ UNCHANGED <<codeVars, key, changes, entangled>>

-----------------------------------------------------------------------------
(* The end of a handler: its error, its answer, or a process that dies.    *)
Stop(c) ==
    /\ ~Free(c)
    /\ Leave(c) /\ Finish(c)
    /\ entangled' = IF Does(c, "delete") THEN entangled \cup {work[c].req}
                    ELSE entangled
    /\ UNCHANGED <<row, queue, sender, deliveries, codes, inbox,
                   misses, spent, misproved, interrupted,
                   key, changes, account>>

(* The steps of Codes on their own.  A plain validation (the onboarding    *)
(* screens) is made by a call that is in no other handler.                 *)
PlainStep ==
    /\ \/ SendMailToken \/ SendPhoneToken
       \/ \E s \in Senders : Take(s) \/ Deliver(s) \/ Record(s) \/ Crash(s)
       \/ \E r \in Requests : Expire(r)
       \/ \E c \in Callers : SafeExpire(c) \/ BlockRecord(c) \/ Miss(c) \/ Consume(c)
       \/ \E c \in Callers, r \in Requests, guess \in Guesses :
             Free(c) /\ Validate(c, r, guess)
    /\ UNCHANGED ownVars

Passwords ==
    \/ \E kind \in Kinds, r \in PhoneRequests, u \in Addresses :
          RequestChange(kind, r, u)
    \/ \E c \in Callers, r \in PhoneRequests :
          \/ \E guess \in Guesses : ValidateReset(c, r, guess)
          \/ \E guess \in Guesses, u \in Addresses : ConfirmUpdate(c, r, guess, u)
          \/ ResetPassword(c, r)
    \/ \E c \in Callers :
          MarkValidated(c) \/ WritePassword(c) \/ DeleteKey(c) \/ WriteConfirmed(c)
    \/ \E r \in PhoneRequests : KeyExpires(r)

SigningUp ==
    \/ \E c \in Callers, a \in Addresses : SignUp(c, a)
    \/ \E c \in Callers : CreateBusiness(c) \/ CreateProfile(c) \/ SelectBusiness(c)

AccountsNext ==
    PlainStep \/ Passwords \/ SigningUp \/ \E c \in Callers : Stop(c)

AccountsSpec == AccountsInit /\ [][AccountsNext]_accountVars /\ CodesFairness

-----------------------------------------------------------------------------
Proven(a) == \E k \in spent : <<a, k>> \in inbox

(* What the attempts counter is for: however the calls overlap, a code is  *)
(* compared with at most MaxAttempts wrong guesses, and one more for each  *)
(* further call that was under way when the last one was counted.          *)
GuessesBounded ==
    \A k \in Code : misses[k] <= MaxAttempts + Cardinality(Callers) - 1

(* A validated row speaks for its address: the code that validated it was  *)
(* sent to that address and came back.  Resending under the same request   *)
(* id, with another address, withdraws the validation; only a call that    *)
(* had read the row before that can still validate the new address.        *)
ValidatedIsProven ==
    \A r \in Requests :
        row[r] # Idle /\ row[r].valid =>
            \/ <<row[r].to, row[r].code>> \in inbox /\ row[r].code \in spent
            \/ row[r].to \in misproved

(* An account exists only for an address that was proven at some time.     *)
AccountAddressProven ==
    \A a \in Addresses : account[a] # "none" => Proven(a) \/ a \in misproved

(* A request is about to change a password only after its own code came    *)
(* back from the telephone of that user, whether by the key that marks it  *)
(* validated (reset) or by the code and the key together (update).         *)
ChangeNeedsCode ==
    \A c \in Callers : LET w == work[c] IN
        Does(c, "write") \/ (Does(c, "update") /\ At(c, "valid") /\ MayWrite(c)) =>
            row[w.req] # Idle /\ row[w.req].valid /\ <<w.user, row[w.req].code>> \in inbox

(* Nothing is taken for proven without its code: no row, no account and no *)
(* change of a password.                                                   *)
NothingUnproven == ValidatedIsProven /\ AccountAddressProven /\ ChangeNeedsCode

(* One request, one change: a second one only when two calls worked on the *)
(* request at once or one died before it deleted the key.                  *)
OneChangePerRequest ==
    \A r \in Requests : changes[r] > 1 => r \in entangled

Pending(r) == row[r] # Idle /\ row[r].status = "PENDING"

(* A mail that was asked for is sent or marked FAILED in the end: its      *)
(* consumer, run again after a crash, finds the row of the first attempt   *)
(* and renews it.  A telephone row whose consumer died is never renewed.   *)
PendingEnds ==
    \A r \in Requests :
        Pending(r) ~> ~Pending(r) \/ r \in interrupted \cap PhoneRequests
=============================================================================
