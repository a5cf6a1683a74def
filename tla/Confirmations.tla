--------------------------- MODULE Confirmations ---------------------------
(***************************************************************************)
(* Asking the customer to confirm, and confirming.  The professional may   *)
(* ask once for a schedule: the request leaves an event on the             *)
(* appointment, his own rescheduling removes it and makes the appointment  *)
(* pending again.  Each handler reads the appointment, checks and writes   *)
(* by id, so a decision is carried out on whatever the row has become.     *)
(*                                                                         *)
(* One appointment.  Which slots are free is the module Agenda's; the push *)
(* that tells the professional of a confirmation he asked for is left out. *)
(***************************************************************************)
EXTENDS Naturals

CONSTANTS
    Hours,        \* slots the appointment may lie in
    Hands,        \* requests that may be under way at once
    MaxHands,     \* bound: requests in all
    Idle          \* no request

ASSUME ConfirmationsAssumption == MaxHands \in Nat

VARIABLES
    status, hour,   \* the appointment
    asked,          \* an event REMINDER_SENT by the professional exists
    hand,           \* what each request is doing
    hands,          \* how many there have been
    seen,           \* hours the customer or the professional last agreed to
    told,           \* hours the customer was asked about
    crossed         \* what overlapped or failed

confirmationsVars == <<status, hour, asked, hand, hands, seen, told, crossed>>

Statuses == {"PENDING", "CONFIRMED", "CANCELED", "COMPLETED"}

ConfirmationsInit ==
    /\ status = "PENDING"
    /\ hour \in Hours
    /\ asked = FALSE
    /\ hand = [x \in Hands |-> Idle] /\ hands = 0
    /\ seen = {} /\ told = {}
    /\ crossed = {}

HandAt(x, place) == hand[x] # Idle /\ hand[x].at = place
Starts(x, what) ==
    /\ hand[x] = Idle /\ hands < MaxHands
    /\ hand' = [hand EXCEPT ![x] = what]
    /\ hands' = hands + 1
Moves(x, place) == hand' = [hand EXCEPT ![x].at = place] /\ UNCHANGED hands
Ends(x) == hand' = [hand EXCEPT ![x] = Idle] /\ UNCHANGED hands

-----------------------------------------------------------------------------
(* The request to confirm: the appointment, then whether it was asked for  *)
(* already, then the business's settings; the message, then the event.     *)
ReadForAsking(x) ==
    /\ status = "PENDING"
    /\ Starts(x, [at |-> "check asked", hour |-> hour])
    /\ UNCHANGED <<status, hour, asked, seen, told, crossed>>

CheckAsked(x) ==
    /\ HandAt(x, "check asked")
    /\ IF asked THEN Ends(x) ELSE Moves(x, "publish ask")
    /\ UNCHANGED <<status, hour, asked, seen, told, crossed>>

\* No WhatsApp for this business.
ChannelOff(x) ==
    /\ HandAt(x, "publish ask")
    /\ Ends(x)
    /\ UNCHANGED <<status, hour, asked, seen, told, crossed>>

\* A failed publish goes unnoticed.
PublishAsk(x) ==
    /\ HandAt(x, "publish ask")
    /\ \/ told' = told \cup {hand[x].hour} /\ UNCHANGED crossed
       \/ crossed' = crossed \cup {"ask lost"} /\ UNCHANGED told
    /\ Moves(x, "record ask")
    /\ UNCHANGED <<status, hour, asked, seen>>

RecordAsk(x) ==
    /\ HandAt(x, "record ask")
    /\ asked' = TRUE
    /\ Ends(x)
    /\ UNCHANGED <<status, hour, seen, told, crossed>>

-----------------------------------------------------------------------------
(* Confirming.  The customer's handler lets a completed appointment pass.  *)
ReadByCustomer(x) ==
    /\ status \in {"PENDING", "COMPLETED"}
    /\ Starts(x, [at |-> "confirm", hour |-> hour])
    /\ UNCHANGED <<status, hour, asked, seen, told, crossed>>

ReadByProfessional(x) ==
    /\ status = "PENDING"
    /\ Starts(x, [at |-> "confirm", hour |-> hour])
    /\ UNCHANGED <<status, hour, asked, seen, told, crossed>>

Confirm(x) ==
    /\ HandAt(x, "confirm")
    /\ status' = "CONFIRMED"
    /\ seen' = {hand[x].hour}
    /\ Ends(x)
    /\ UNCHANGED <<hour, asked, told, crossed>>

-----------------------------------------------------------------------------
(* What else happens to the appointment.  The professional moves a pending *)
(* or confirmed one; the customer any, its status kept and the event too.  *)
ReadForMove(x, h) ==
    /\ status \in {"PENDING", "CONFIRMED"}
    /\ Starts(x, [at |-> "move", hour |-> h])
    /\ UNCHANGED <<status, hour, asked, seen, told, crossed>>

Confirming == \E x \in Hands : HandAt(x, "confirm")
Asking == \E x \in Hands : HandAt(x, "check asked") \/ HandAt(x, "publish ask") \/ HandAt(x, "record ask")

Crossing == {e \in {"confirmation"} : Confirming} \cup {e \in {"ask"} : Asking}

\* Mutant: the status is kept.
StatusKept == status

StatusMoved == "PENDING"
EventMoved == FALSE

Move(x) ==
    /\ HandAt(x, "move")
    /\ status' = StatusMoved
    /\ asked' = EventMoved
    /\ hour' = hand[x].hour
    /\ crossed' = crossed \cup Crossing
    /\ told' = {}
    /\ Ends(x)
    /\ UNCHANGED seen

MovedByCustomer(h) ==
    /\ hands < MaxHands /\ hands' = hands + 1
    /\ hour' = h
    /\ seen' = {h}
    /\ crossed' = crossed \cup Crossing \cup {"moved by the customer"}
    /\ UNCHANGED <<status, asked, hand, told>>

\* Either side cancels: refused only when canceled already.
Cancel ==
    /\ status # "CANCELED"
    /\ status' = "CANCELED"
    /\ UNCHANGED <<hour, asked, hand, hands, seen, told, crossed>>

\* The appointment is closed when it has ended.
Complete ==
    /\ status \in {"PENDING", "CONFIRMED"}
    /\ status' = "COMPLETED"
    /\ UNCHANGED <<hour, asked, hand, hands, seen, told, crossed>>

\* An error on the way, or the process dies.
Fail(x) ==
    /\ hand[x] # Idle
    /\ Ends(x)
    /\ UNCHANGED <<status, hour, asked, seen, told, crossed>>

ConfirmationsNext ==
    \/ \E x \in Hands :
        \/ ReadForAsking(x) \/ CheckAsked(x) \/ ChannelOff(x) \/ PublishAsk(x) \/ RecordAsk(x)
        \/ ReadByCustomer(x) \/ ReadByProfessional(x) \/ Confirm(x)
        \/ Move(x) \/ Fail(x)
        \/ \E h \in Hours : ReadForMove(x, h)
    \/ \E h \in Hours : MovedByCustomer(h)
    \/ Cancel \/ Complete

ConfirmationsSpec == ConfirmationsInit /\ [][ConfirmationsNext]_confirmationsVars

-----------------------------------------------------------------------------
ConfirmationsTypeOK ==
    /\ status \in Statuses /\ hour \in Hours /\ asked \in BOOLEAN
    /\ hands \in 0 .. MaxHands
    /\ seen \subseteq Hours /\ told \subseteq Hours

(* A confirmed appointment lies at an hour that whoever confirmed it saw,  *)
(* or that the customer himself moved it to: the professional's move never *)
(* leaves an agreement to another hour standing, unless it fell between    *)
(* the reading and the writing of a confirmation.                          *)
ConfirmedAsSeen ==
    status = "CONFIRMED" /\ "confirmation" \notin crossed => hour \in seen

(* The event that forbids asking again means that the customer was asked   *)
(* about this very hour, unless a move overlapped the asking, the customer *)
(* moved the appointment, or the message was lost.                         *)
EventMeansAsked ==
    asked /\ crossed \cap {"ask", "ask lost", "moved by the customer"} = {} => hour \in told

(* What the customer has agreed to or was asked about is this hour.        *)
HourIsKnown == ConfirmedAsSeen /\ EventMeansAsked
=============================================================================
