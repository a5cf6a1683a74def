----------------------------- MODULE Messaging ------------------------------
(***************************************************************************)
(* The messaging service: one consumer for each queue (push, in-app, text, *)
(* mail).  A handler logs what fails and returns, so that its message is   *)
(* acknowledged whatever happened; only a consumer that dies leaves its    *)
(* message to be delivered again.                                          *)
(***************************************************************************)
EXTENDS Naturals, FiniteSets

CONSTANTS
    Messages,     \* what is published
    QueueOf,         \* the queue of each message
    To,           \* whom each is for: the devices listed, one address but for a push
    Valid,        \* the devices and addresses that are well formed
    ChunkSize,    \* messages the push service takes at once: 100
    MaxDeaths,    \* bound: deaths of the service
    NoWork          \* a consumer without a message

Kinds == {"push", "in-app", "text", "mail"}

ASSUME MessagingAssumption ==
    /\ QueueOf \in [Messages -> Kinds]
    /\ ChunkSize \in Nat \ {0} /\ MaxDeaths \in Nat

-----------------------------------------------------------------------------
VARIABLES
    waiting,     \* messages in their queues
    worker,    \* what the consumer of each queue is doing
    delivered,   \* how often each message was handed out
    tried,       \* how often each message was sent to each device
    accepted,    \* devices for which the push service gave a ticket to the message at work
    settled,     \* messages acknowledged
    access,      \* the access token of the text service in Redis: "none", "good", "refused"
    deaths

messagingVars == <<waiting, worker, delivered, tried, accepted, settled, access, deaths>>

Devices == UNION {To[m] : m \in Messages}

MessagingInit ==
    /\ waiting \in SUBSET Messages /\ settled = {}
    /\ worker = [k \in Kinds |-> NoWork]
    /\ delivered = [m \in Messages |-> 0]
    /\ tried = [m \in Messages |-> [d \in Devices |-> 0]]
    /\ accepted = {}
    /\ access = "none" /\ deaths = 0

-----------------------------------------------------------------------------
Wellformed(m) == To[m] \cap Valid

\* What the next chunk may be: full, or all that is left (in the order listed,
\* which may be any).
Chunks(left) ==
    {C \in SUBSET left :
        Cardinality(C) = IF Cardinality(left) < ChunkSize THEN Cardinality(left) ELSE ChunkSize}

\* Mutant: the first chunk that fails is the last.
StopsOnFailure(left, chunk, failed) == IF failed THEN {} ELSE left \ chunk

Remaining(left, chunk, failed) == left \ chunk

Working(k, step) == worker[k] # NoWork /\ worker[k].at = step
Message(k) == worker[k].message
WorkGoes(k, step) == worker' = [worker EXCEPT ![k] = [message |-> Message(k), at |-> step, left |-> worker[k].left]]
Acknowledge(k) ==
    /\ worker' = [worker EXCEPT ![k] = NoWork]
    /\ settled' = settled \cup {Message(k)}
Try(m, D) == tried' = [tried EXCEPT ![m] = [d \in Devices |-> IF d \in D THEN tried[m][d] + 1 ELSE tried[m][d]]]

Deliver(m) ==
    LET k == QueueOf[m] IN
    /\ m \in waiting /\ worker[k] = NoWork
    /\ waiting' = waiting \ {m}
    /\ delivered' = [delivered EXCEPT ![m] = delivered[m] + 1]
    /\ worker' = [worker EXCEPT ![k] =
            [message |-> m, at |-> "start", left |-> IF k = "push" THEN Wellformed(m) ELSE {}]]
    /\ accepted' = IF k = "push" THEN {} ELSE accepted
    /\ UNCHANGED <<tried, settled, access, deaths>>

(* Push: chunk after chunk, the failure of one being logged; then the      *)
(* receipts of the tickets.                                                *)
SendChunk ==
    LET k == "push" IN
    /\ Working(k, "start") /\ worker[k].left # {}
    /\ \E chunk \in Chunks(worker[k].left), failed \in BOOLEAN :
        /\ \E ok \in SUBSET chunk : (failed => ok = {}) /\ accepted' = accepted \cup ok
        /\ Try(Message(k), chunk)
        /\ worker' = [worker EXCEPT ![k].left = Remaining(worker[k].left, chunk, failed)]
    /\ UNCHANGED <<waiting, delivered, settled, access, deaths>>

EndChunks ==
    LET k == "push" IN
    /\ Working(k, "start") /\ worker[k].left = {}
    /\ IF accepted = {} THEN Acknowledge(k) ELSE WorkGoes(k, "receipts") /\ UNCHANGED settled
    /\ UNCHANGED <<waiting, delivered, tried, accepted, access, deaths>>

FetchReceipts ==
    /\ Working("push", "receipts")
    /\ Acknowledge("push")
    /\ UNCHANGED <<waiting, delivered, tried, accepted, access, deaths>>

(* A notification in the app: a row, or an error that is logged.           *)
CreateInApp ==
    LET k == "in-app" IN
    /\ Working(k, "start")
    /\ \E D \in {{}, To[Message(k)]} : Try(Message(k), D)
    /\ Acknowledge(k)
    /\ UNCHANGED <<waiting, delivered, accepted, access, deaths>>

(* A mail: without an address or a template it is given up.                *)
FindTemplate ==
    LET k == "mail" IN
    /\ Working(k, "start")
    /\ \/ Acknowledge(k)
       \/ Wellformed(Message(k)) # {} /\ WorkGoes(k, "send") /\ UNCHANGED settled
    /\ UNCHANGED <<waiting, delivered, tried, accepted, access, deaths>>

SendMail ==
    LET k == "mail" IN
    /\ Working(k, "send")
    /\ Try(Message(k), To[Message(k)])
    /\ Acknowledge(k)
    /\ UNCHANGED <<waiting, delivered, accepted, access, deaths>>

(* A text, with the access token of Redis or one of a new login.           *)
GetAccess ==
    LET k == "text" IN
    /\ Working(k, "start")
    /\ \/ Wellformed(Message(k)) = {} /\ Acknowledge(k) /\ UNCHANGED access
       \/ Wellformed(Message(k)) # {} /\ access # "none" /\ WorkGoes(k, "send") /\ UNCHANGED <<access, settled>>
       \/ Wellformed(Message(k)) # {} /\ access = "none" /\ WorkGoes(k, "send") /\ access' = "good" /\ UNCHANGED settled
       \/ Wellformed(Message(k)) # {} /\ access = "none" /\ Acknowledge(k) /\ UNCHANGED access
    /\ UNCHANGED <<waiting, delivered, tried, accepted, deaths>>

\* A token that is refused stays in Redis.
SendText ==
    LET k == "text" IN
    /\ Working(k, "send")
    /\ Try(Message(k), To[Message(k)])
    /\ Acknowledge(k)
    /\ UNCHANGED <<waiting, delivered, accepted, access, deaths>>

AccessExpires ==
    /\ access # "none" /\ access' = "none"
    /\ UNCHANGED <<waiting, worker, delivered, tried, accepted, settled, deaths>>

AccessRevoked ==
    /\ access = "good" /\ access' = "refused"
    /\ UNCHANGED <<waiting, worker, delivered, tried, accepted, settled, deaths>>

\* The broker keeps what was not acknowledged.
ServiceDies ==
    /\ deaths < MaxDeaths
    /\ deaths' = deaths + 1
    /\ waiting' = waiting \cup {Message(k) : k \in {k \in Kinds : worker[k] # NoWork}}
    /\ worker' = [k \in Kinds |-> NoWork]
    /\ UNCHANGED <<delivered, tried, accepted, settled, access>>

MessagingNext ==
    \/ \E m \in Messages : Deliver(m)
    \/ SendChunk \/ EndChunks \/ FetchReceipts
    \/ CreateInApp \/ FindTemplate \/ SendMail
    \/ GetAccess \/ SendText \/ AccessExpires \/ AccessRevoked
    \/ ServiceDies

MessagingSpec == MessagingInit /\ [][MessagingNext]_messagingVars

-----------------------------------------------------------------------------
(* A push that was handled was tried with every well-formed device, though *)
(* chunks before failed; and no message is sent to anybody more often than *)
(* it was delivered: twice only if the service died with it.               *)
EachDeviceTried ==
    \A m \in Messages :
        /\ m \in settled /\ QueueOf[m] = "push" => \A d \in Wellformed(m) : tried[m][d] > 0
        /\ \A d \in Devices : tried[m][d] <= delivered[m]
        /\ delivered[m] <= 1 + deaths
=============================================================================
