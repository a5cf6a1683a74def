------------------------------- MODULE Codes -------------------------------
(***************************************************************************)
(* Validation codes: MailValidationService and WhatsAppValidationService   *)
(* of the api-gateway, which publish a request for a code and judge the    *)
(* codes that come back, and the two consumers of the messaging            *)
(* application, which create the row, send the code and record that it was *)
(* sent.  The two channels differ in one thing: a mail request id comes    *)
(* from the client and its row is upserted; a phone request id is          *)
(* generated by the server and its row is only ever created.               *)
(*                                                                         *)
(* Every query of a handler is a step of its own.  The times to live are   *)
(* abstracted to "the row may expire at any moment".                       *)
(***************************************************************************)
EXTENDS Integers, FiniteSets

CONSTANTS
    MailRequests,   \* request ids of mail validations, chosen by clients
    PhoneRequests,  \* request ids of WhatsApp validations
    Addresses,      \* mail addresses or telephone numbers
    Callers,        \* requests of the api-gateway being served at once
    Senders,        \* consumers of the messaging queues
    MaxAttempts,    \* MAX_ATTEMPTS of both services
    MaxDeliveries,  \* bound: messages published or delivered again
    Idle            \* nobody, nothing

ASSUME RequestsApart == MailRequests \cap PhoneRequests = {}
ASSUME AttemptsAssumption == MaxAttempts \in Nat \ {0}
ASSUME DeliveriesAssumption == MaxDeliveries \in Nat
ASSUME CallersFinite == IsFiniteSet(Callers)

VARIABLES
    row,         \* the MailValidation or WhatsAppValidation row of a request
    queue,       \* messages that ask for a code
    sender,      \* what a consumer is doing
    caller,      \* the validateCode of a request being served
    deliveries,  \* messages published or delivered again so far
    codes,       \* codes generated so far; a code is its number
    inbox,       \* who received which code
    misses,      \* wrong guesses judged against a code
    spent,       \* codes that validated something
    misproved,   \* addresses whose row was validated with an earlier row's code
    interrupted  \* requests whose consumer died

codeVars == <<row, queue, sender, caller, deliveries, codes,
              inbox, misses, spent, misproved, interrupted>>

Requests == MailRequests \cup PhoneRequests
Code == 1..MaxDeliveries
Statuses == {"PENDING", "SENT", "FAILED", "VALIDATED"}
Message == [req : Requests, to : Addresses]

CodeRow == [to : Addresses, code : Code, status : Statuses, valid : BOOLEAN,
            active : BOOLEAN, attempts : Nat, expired : BOOLEAN]
Sending == [msg : Message, code : Code, at : {"send", "record"}]
Judging == [req : Requests, code : Code, at : {"expire", "block", "miss", "consume", "valid"}]

ASSUME IdleApart == Idle \notin Requests /\ Idle \notin CodeRow \cup Sending \cup Judging

CodesTypeOK ==
    /\ row \in [Requests -> CodeRow \cup {Idle}]
    /\ queue \subseteq Message
    /\ sender \in [Senders -> Sending \cup {Idle}]
    /\ caller \in [Callers -> Judging \cup {Idle}]
    /\ deliveries \in 0..MaxDeliveries /\ codes \in 0..MaxDeliveries
    /\ inbox \subseteq Addresses \X Code
    /\ misses \in [Code -> Nat]
    /\ spent \subseteq Code
    /\ misproved \subseteq Addresses /\ interrupted \subseteq Requests

CodesInit ==
    /\ row = [r \in Requests |-> Idle]
    /\ queue = {}
    /\ sender = [s \in Senders |-> Idle]
    /\ caller = [c \in Callers |-> Idle]
    /\ deliveries = 0 /\ codes = 0
    /\ inbox = {}
    /\ misses = [k \in Code |-> 0]
    /\ spent = {} /\ misproved = {} /\ interrupted = {}

-----------------------------------------------------------------------------
(* Asking for a code: sendCode publishes, nothing else.                    *)

Publish(r, a) ==
    /\ deliveries < MaxDeliveries
    /\ deliveries' = deliveries + 1
    /\ queue' = queue \cup {[req |-> r, to |-> a]}
    /\ UNCHANGED <<row, sender, caller, codes, inbox, misses, spent,
                   misproved, interrupted>>

(* The request id of a mail comes from the client: it may be one that is   *)
(* in use, even with another address.                                      *)
SendMailToken == \E r \in MailRequests, a \in Addresses : Publish(r, a)

(* A request id the server generates is new.                               *)
FreshRequest(r) ==
    /\ row[r] = Idle
    /\ \A m \in queue : m.req # r
    /\ \A s \in Senders : sender[s] # Idle => sender[s].msg.req # r
    /\ \A c \in Callers : caller[c] # Idle => caller[c].req # r

SendPhoneToken ==
    \E r \in PhoneRequests, a \in Addresses : FreshRequest(r) /\ Publish(r, a)

-----------------------------------------------------------------------------
(* The consumers.                                                          *)

NewRow(a, k) ==
    [to |-> a, code |-> k, status |-> "PENDING", valid |-> FALSE,
     active |-> TRUE, attempts |-> 0, expired |-> FALSE]

SameChannel(r, q) == r \in MailRequests <=> q \in MailRequests

\* Mutant: the update of an existing row leaves its "validated" as it was.
StoreKeepingValid(m, k) ==
    row' = [r \in Requests |->
              IF r = m.req
              THEN [NewRow(m.to, k) EXCEPT
                      !.valid = row[r] # Idle /\ row[r].valid]
              ELSE row[r]]

\* Mutant: a mail's row is created where it should be upserted.
MayStoreNew(r) == row[r] = Idle

(* Deactivation of the earlier codes of the address and the new row, one   *)
(* transaction.                                                            *)
Store(m, k) ==
    row' = [r \in Requests |->
              IF r = m.req THEN NewRow(m.to, k)
              ELSE IF row[r] # Idle /\ SameChannel(r, m.req) /\ row[r].to = m.to
                   THEN [row[r] EXCEPT !.active = FALSE]
                   ELSE row[r]]

MayStore(r) == r \in MailRequests \/ row[r] = Idle

(* A message is taken: the transaction that stores its code, or, for a     *)
(* phone request that has a row already (the message was delivered before),*)
(* an error that is logged and ends the message.                           *)
Take(s) ==
    /\ sender[s] = Idle
    /\ \E m \in queue :
         /\ queue' = queue \ {m}
         /\ IF MayStore(m.req)
            THEN /\ codes' = codes + 1
                 /\ Store(m, codes + 1)
                 /\ sender' = [sender EXCEPT ![s] =
                       [msg |-> m, code |-> codes + 1, at |-> "send"]]
            ELSE UNCHANGED <<row, codes, sender>>
    /\ UNCHANGED <<caller, deliveries, inbox, misses, spent, misproved, interrupted>>

(* The mail or message goes out.                                           *)
Deliver(s) ==
    /\ sender[s] # Idle /\ sender[s].at = "send"
    /\ inbox' = inbox \cup {<<sender[s].msg.to, sender[s].code>>}
    /\ sender' = [sender EXCEPT ![s].at = "record"]
    /\ UNCHANGED <<row, queue, caller, deliveries, codes, misses,
                   spent, misproved, interrupted>>

(* The update by id that follows, whatever has become of the row: SENT, or *)
(* FAILED when the sending or the first update failed.                     *)
Record(s) ==
    /\ sender[s] # Idle
    /\ \E status \in {"SENT", "FAILED"} :
         /\ status = "SENT" => sender[s].at = "record"
         /\ row' = [row EXCEPT ![sender[s].msg.req].status = status]
    /\ sender' = [sender EXCEPT ![s] = Idle]
    /\ UNCHANGED <<queue, caller, deliveries, codes, inbox, misses,
                   spent, misproved, interrupted>>

(* A consumer dies: RabbitMQ delivers its message again.                   *)
Crash(s) ==
    /\ deliveries < MaxDeliveries
    /\ sender[s] # Idle
    /\ deliveries' = deliveries + 1
    /\ queue' = queue \cup {sender[s].msg}
    /\ interrupted' = interrupted \cup {sender[s].msg.req}
    /\ sender' = [sender EXCEPT ![s] = Idle]
    /\ UNCHANGED <<row, caller, codes, inbox, misses, spent,
                   misproved>>

(* expires_at passes.                                                      *)
Expire(r) ==
    /\ row[r] # Idle /\ ~row[r].expired
    /\ row' = [row EXCEPT ![r].expired = TRUE]
    /\ UNCHANGED <<queue, sender, caller, deliveries, codes, inbox,
                   misses, spent, misproved, interrupted>>

-----------------------------------------------------------------------------
(* validateCode.                                                           *)

(* What people enter: a code somebody received, or a wrong one (0).        *)
Guesses == {d[2] : d \in inbox} \cup {0}

(* What the row that was read leads to; a row that was not sent, or was    *)
(* used, or failed, is refused at once.                                    *)
Verdict(x, guess) ==
    IF x.expired THEN "expire"
    ELSE IF x.status # "SENT" THEN "refused"
    ELSE IF x.attempts >= MaxAttempts THEN "block"
    ELSE IF x.code = guess THEN "consume" ELSE "miss"

Validate(c, r, guess) ==
    /\ caller[c] = Idle
    /\ row[r] # Idle
    /\ LET v == Verdict(row[r], guess) IN
       /\ v # "refused"
       /\ caller' = [caller EXCEPT ![c] =
             [req |-> r, code |-> row[r].code, at |-> v]]
    /\ UNCHANGED <<row, queue, sender, deliveries, codes, inbox,
                   misses, spent, misproved, interrupted>>

At(c, place) == caller[c] # Idle /\ caller[c].at = place
Leave(c) == caller' = [caller EXCEPT ![c] = Idle]

(* safeExpire: only a PENDING row, although only SENT rows validate.       *)
SafeExpire(c) ==
    /\ At(c, "expire")
    /\ LET r == caller[c].req IN
       row' = IF row[r].status = "PENDING"
              THEN [row EXCEPT ![r].status = "FAILED", ![r].active = FALSE]
              ELSE row
    /\ Leave(c)
    /\ UNCHANGED <<queue, sender, deliveries, codes, inbox, misses,
                   spent, misproved, interrupted>>

BlockRecord(c) ==
    /\ At(c, "block")
    /\ row' = [row EXCEPT ![caller[c].req].status = "FAILED",
                          ![caller[c].req].active = FALSE]
    /\ Leave(c)
    /\ UNCHANGED <<queue, sender, deliveries, codes, inbox, misses,
                   spent, misproved, interrupted>>

\* Mutant: the miss writes 1 where it should increment.
IncreasedOnce(c) == 1

(* The increment is the database's own, so it counts every miss.           *)
Increased(c) == row[caller[c].req].attempts + 1

Miss(c) ==
    /\ At(c, "miss")
    /\ LET r == caller[c].req
           n == Increased(c) IN
       /\ row' = [row EXCEPT ![r].attempts = n]
       /\ IF n >= MaxAttempts
          THEN caller' = [caller EXCEPT ![c].at = "block"]
          ELSE Leave(c)
    /\ misses' = [misses EXCEPT ![caller[c].code] = @ + 1]
    /\ UNCHANGED <<queue, sender, deliveries, codes, inbox, spent,
                   misproved, interrupted>>

(* The consumption: an update by id, with no condition on the status.      *)
Consume(c) ==
    /\ At(c, "consume")
    /\ LET r == caller[c].req
           k == caller[c].code IN
       /\ row' = [row EXCEPT ![r] =
             [row[r] EXCEPT !.status = "VALIDATED", !.valid = TRUE,
                            !.active = FALSE, !.attempts = row[r].attempts + 1]]
       /\ spent' = spent \cup {k}
       /\ misproved' = IF row[r].code = k THEN misproved
                       ELSE misproved \cup {row[r].to}
    /\ caller' = [caller EXCEPT ![c].at = "valid"]
    /\ UNCHANGED <<queue, sender, deliveries, codes, inbox, misses,
                   interrupted>>

(* The answer, or a request that stops at any point.                       *)
Answer(c) ==
    /\ caller[c] # Idle
    /\ Leave(c)
    /\ UNCHANGED <<row, queue, sender, deliveries, codes, inbox,
                   misses, spent, misproved, interrupted>>

-----------------------------------------------------------------------------
Send(s) == Take(s) \/ Deliver(s) \/ Record(s)

CodesFairness == \A s \in Senders : WF_codeVars(Send(s))
=============================================================================
