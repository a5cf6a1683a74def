---------------------------- MODULE MCAccounts ----------------------------
(* Small instances of Accounts and of UserCache for TLC.  The two share no *)
(* variable, and the channels of the codes little: each part is explored   *)
(* while the others rest.                                                  *)
EXTENDS Accounts, UserCache

VARIABLE part

mcVars == <<part, accountVars, cacheVars>>

\* One row to start from; the name may be missing.
FirstRow ==
    /\ stored.push = CHOOSE p \in PushTokens : TRUE
    /\ stored.business = CHOOSE b \in Businesses : TRUE

MCInit ==
    /\ part \in {"mail", "phone", "cache"}
    /\ AccountsInit /\ UserCacheInit /\ FirstRow

\* The part a request belongs to.
PartOf(r) == IF r \in MailRequests THEN "mail" ELSE "phone"

MCNext ==
    /\ UNCHANGED part
    /\ \/ /\ part = "cache"
          /\ UserCacheNext
          /\ UNCHANGED accountVars
       \/ /\ part # "cache"
          /\ AccountsNext
          /\ \A m \in queue' : PartOf(m.req) = part
          \* Addresses are interchangeable: the first code goes to the first.
          /\ deliveries = 0 => \A m \in queue' : m.to = CHOOSE a \in Addresses : TRUE
          /\ UNCHANGED cacheVars

MCSpec ==
    /\ MCInit
    /\ [][MCNext]_mcVars
    /\ CodesFairness
=============================================================================
