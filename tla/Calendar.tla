------------------------------ MODULE Calendar ------------------------------
(***************************************************************************)
(* What a change of an appointment does outside the database: the event in *)
(* the Google calendar of its professional and the notices to both sides.  *)
(* The handlers commit first and then act on what they READ before; the    *)
(* event of a new appointment is made by a queue consumer, which writes    *)
(* its id on the appointment afterwards.  Nothing ties these together: a   *)
(* Google error is logged and forgotten, a lost publish too.               *)
(*                                                                         *)
(* One appointment, its whole life; several professionals who connect and  *)
(* disconnect their calendars.  Which moves the agenda accepts is the      *)
(* module Agenda's; here any slot will do.                                 *)
(***************************************************************************)
EXTENDS Naturals, FiniteSets

CONSTANTS
    Pros, Slots,
    EventIds,   \* bound: events Google ever makes
    Calls,      \* handlers that may be at work at once
    MaxCalls,   \* bound: calls in all
    MaxLinks,   \* bound: connections made in all
    None,
    Gone        \* an event deleted

ChangeKinds == {"pro cancels", "customer cancels", "pro moves", "customer moves"}
Places == {"commit", "notify", "calendar", "delete", "clear", "both", "update",
           "new calendar", "create", "store"}

ApptRow == [status : {"live", "canceled"}, slot : Slots, pro : Pros, event : EventIds \cup {None},
            moved : BOOLEAN]
NoticeRow == [status : {"live", "canceled"}, slot : Slots]
EventRow == [pro : Pros, slot : Slots, reach : BOOLEAN]
CallRow == [at : Places, kind : ChangeKinds, slot : Slots, pro : Pros, oldPro : Pros,
            event : EventIds \cup {None}, todo : SUBSET {"delete", "clear"}]
ConsumerRow == [at : {"read"}, pro : Pros] \cup [at : {"create"}, pro : Pros, slot : Slots]
                    \cup [at : {"store"}, pro : Pros, event : EventIds]

ASSUME CalendarAssumption ==
    /\ MaxCalls \in Nat /\ MaxLinks \in Nat
    /\ None \notin Pros \cup EventIds \cup ApptRow \cup CallRow \cup ConsumerRow /\ "customer" \notin Pros
    /\ None # Gone /\ None \notin EventRow \cup NoticeRow /\ Gone \notin EventRow

VARIABLES
    appt,      \* the row: [status, slot, pro, event], None before creation; and
               \* moved (auxiliary): the customer moved it after its cancellation
    row,       \* userIntegration of each professional: none, good or dead tokens
    linking,   \* what each professional is doing about the connection
    google,    \* each event: None before it exists, Gone, or [pro, slot, reach]
    message,   \* the message of the calendar queue, until it is acknowledged: the
               \* professional it names; None: no message
    consumer,  \* what its consumer is doing
    call,      \* what each handler is doing
    knows,     \* what each side was last told, or did itself
    excuse,    \* what happened that makes a divergence possible
    calls, links

agendaRow == <<appt, knows>>
calendarVars == <<appt, row, linking, google, message, consumer, call, knows, excuse, calls, links>>

Sides == {"customer"} \cup Pros
Event(p, s) == [pro |-> p, slot |-> s, reach |-> TRUE]
Exists(e) == google[e] # None /\ google[e] # Gone
InCalendar(e, p) == e # None /\ Exists(e) /\ google[e].pro = p

CalendarInit ==
    /\ appt = None
    /\ row \in [Pros -> {"none", "good"}]
    /\ linking = [p \in Pros |-> "no"]
    /\ google = [e \in EventIds |-> None]
    /\ message = None
    /\ consumer = None
    /\ call = [c \in Calls |-> None]
    /\ knows = [x \in Sides |-> None]
    /\ excuse = {}
    /\ calls = 0 /\ links = 0

InCall(c, place) == call[c] # None /\ call[c].at = place

-----------------------------------------------------------------------------
(* Creation.  The customer's handler publishes its notices and the message *)
(* together; the professional's the message first, then the notice to the  *)
(* customer.  A publish that fails is logged, the appointment stays.  The  *)
(* message names the professional who has the appointment now.             *)
Created(s, p, author, told) ==
    /\ appt = None
    /\ appt' = [status |-> "live", slot |-> s, pro |-> p, event |-> None, moved |-> FALSE]
    /\ message' \in {p, None}
    /\ \E heard \in SUBSET {told} :
        /\ knows' = [x \in Sides |-> IF x \in heard \cup {author} THEN [status |-> "live", slot |-> s] ELSE None]
        /\ excuse' = IF heard = {} THEN {"failure"} ELSE {}
    /\ UNCHANGED <<row, linking, google, consumer, call, calls, links>>

CreateByCustomer(s, p) == Created(s, p, "customer", p)
CreateByProfessional(s, p) == Created(s, p, p, "customer")

(* The consumer of either handler (both subscribe to the one queue): the   *)
(* integration of the professional the message names, whoever has the      *)
(* appointment by now; without one the message is done.                    *)
Consume ==
    /\ message # None /\ consumer = None
    /\ IF row[message] = "none"
       THEN message' = None /\ UNCHANGED consumer
       ELSE consumer' = [at |-> "read", pro |-> message] /\ UNCHANGED message
    /\ UNCHANGED <<agendaRow, row, linking, google, call, excuse, calls, links>>

\* The slot as it is now; the status is not selected.
ReadForEvent ==
    /\ consumer # None /\ consumer.at = "read"
    /\ consumer' = [at |-> "create", pro |-> consumer.pro, slot |-> appt.slot]
    /\ UNCHANGED <<agendaRow, row, linking, google, message, call, excuse, calls, links>>

(* Any call to Google may be refused, and is with dead tokens.             *)
Refused(p) == excuse' = excuse \cup {"failure"} \/ (row[p] # "good" /\ UNCHANGED excuse)

Current(p, s) == appt.status = "live" /\ appt.pro = p /\ appt.slot = s
\* An event made whose id is not on the appointment yet.
BeingMade == (consumer # None /\ consumer.at = "store") \/ \E d \in Calls : InCall(d, "store")

Stale(wrong) == excuse' = IF wrong THEN excuse \cup {"stale"} ELSE excuse

(* The event is made in the calendar of the professional named, for an     *)
(* appointment canceled or another's by now too.                           *)
CreateEvent(e) ==
    /\ consumer # None /\ consumer.at = "create" /\ row[consumer.pro] = "good"
    /\ google[e] = None
    /\ google' = [google EXCEPT ![e] = Event(consumer.pro, consumer.slot)]
    /\ consumer' = [at |-> "store", pro |-> consumer.pro, event |-> e]
    /\ Stale(BeingMade \/ appt.event # None \/ ~Current(consumer.pro, consumer.slot))
    /\ UNCHANGED <<agendaRow, row, linking, message, call, calls, links>>

CreateRefused ==
    /\ consumer # None /\ consumer.at = "create"
    /\ Refused(consumer.pro)
    /\ consumer' = None /\ message' = None
    /\ UNCHANGED <<agendaRow, row, linking, google, call, calls, links>>

\* Mutant: the id is lost.
IdForgotten(e) == appt

WithId(e) == [appt EXCEPT !.event = e]

StoreEvent ==
    /\ consumer # None /\ consumer.at = "store"
    /\ appt' = WithId(consumer.event)
    /\ consumer' = None /\ message' = None
    /\ UNCHANGED <<row, linking, google, call, knows, excuse, calls, links>>

\* The consumer dies; RabbitMQ delivers the message again.
ConsumerDies ==
    /\ consumer # None
    /\ consumer' = None
    /\ excuse' = excuse \cup {"failure"}
    /\ UNCHANGED <<agendaRow, row, linking, google, message, call, calls, links>>

-----------------------------------------------------------------------------
Live == appt # None /\ appt.status = "live"
Cancels == {"pro cancels", "customer cancels"}
ByCustomer == {"customer cancels", "customer moves"}

Enter(c, kind, s, p) ==
    /\ call[c] = None /\ calls < MaxCalls
    /\ call' = [call EXCEPT ![c] = [at |-> "commit", kind |-> kind, slot |-> s, pro |-> p,
                                    oldPro |-> appt.pro, event |-> appt.event, todo |-> {}]]
    /\ calls' = calls + 1
    /\ UNCHANGED <<agendaRow, row, linking, google, message, consumer, excuse, links>>

(* What each handler reads and refuses.  Only the customer's move does not *)
(* look at the status.                                                     *)
CancelByProfessional(c) == Live /\ Enter(c, "pro cancels", appt.slot, appt.pro)
CancelByCustomer(c) == Live /\ Enter(c, "customer cancels", appt.slot, appt.pro)
RescheduleByProfessional(c, s) == Live /\ Enter(c, "pro moves", s, appt.pro)
RescheduleByCustomer(c, s, p) == appt # None /\ Enter(c, "customer moves", s, p)

Go(c, place) == call' = [call EXCEPT ![c].at = place]
Finish(c) == call' = [call EXCEPT ![c] = None]

ToAnother(k) == k.kind = "customer moves" /\ k.pro # k.oldPro

(* The row after the transaction.  A move by the professional makes the    *)
(* appointment pending again whatever it has become; the customer's keeps  *)
(* the status, and the professional unless he sent one.                    *)
Committed(k, sent) ==
    CASE k.kind \in Cancels -> [appt EXCEPT !.status = "canceled"]
      [] k.kind = "pro moves" -> [appt EXCEPT !.status = "live", !.slot = k.slot]
      [] k.kind = "customer moves" ->
            [appt EXCEPT !.slot = k.slot, !.pro = IF sent THEN k.pro ELSE @,
                         !.moved = @ \/ appt.status = "canceled"]

(* What a change says to either side.  The handlers never read the status  *)
(* again: a move of the customer is told as the move of an appointment     *)
(* that stands, also when it was canceled before.                          *)
Notice(k) == [status |-> IF k.kind \in Cancels THEN "canceled" ELSE "live", slot |-> k.slot]

(* The transaction, then the notice to the other side; the customer's      *)
(* cancellation sends it last.                                             *)
Commit(c) ==
    /\ InCall(c, "commit")
    /\ LET k == call[c] IN
       /\ \E sent \in BOOLEAN : (ToAnother(k) => sent) /\ appt' = Committed(k, sent)
       /\ knows' = [knows EXCEPT ![IF k.kind \in ByCustomer THEN "customer" ELSE k.pro] =
                        [status |-> Notice(k).status, slot |-> appt'.slot]]
       /\ excuse' = excuse
            \cup {x \in {"stale"} : BeingMade \/ appt.event # k.event \/ appt.pro # k.oldPro}
       /\ Go(c, IF k.kind = "customer cancels" THEN "calendar" ELSE "notify")
    /\ UNCHANGED <<row, linking, google, message, consumer, calls, links>>

\* Mutant: the notice of a move goes to whom the appointment is taken from.
FormerAddressee(k) == IF k.kind \in ByCustomer THEN k.oldPro ELSE "customer"

Addressee(k) == IF k.kind \in ByCustomer THEN k.pro ELSE "customer"

\* What is true of the appointment: its slot, and whether it stands, unless the
\* customer moved it after its cancellation.
TrueOf(n) == n.slot = appt.slot /\ (n.status = appt.status \/ appt.moved)

(* Publishing is tried once and may fail unseen.                           *)
Notify(c) ==
    /\ InCall(c, "notify")
    /\ LET k == call[c] IN
       /\ \/ /\ knows' = [knows EXCEPT ![Addressee(k)] = Notice(k)]
             /\ Stale(~TrueOf(Notice(k)) \/ appt.pro # k.pro)
          \/ /\ UNCHANGED knows
             /\ excuse' = excuse \cup {"failure"}
       /\ IF k.kind = "customer cancels" THEN Finish(c) ELSE Go(c, "calendar")
    /\ UNCHANGED <<appt, row, linking, google, message, consumer, calls, links>>

After(k) == IF k.kind = "customer cancels" THEN "notify" ELSE "end"
GoOn(c, place) == IF place = "end" THEN Finish(c) ELSE Go(c, place)

(* Whose calendar holds the event the handler knows of.                    *)
StartOf(k) == IF k.kind = "customer cancels" THEN "both" ELSE IF k.kind = "pro cancels" \/ ToAnother(k)
              THEN "delete" ELSE "update"

(* Without an event id read, nothing to do, an event just being made or    *)
(* not.  Else the integration is read: without it the new professional's   *)
(* calendar is next, if there is one.                                      *)
FindCalendar(c) ==
    /\ InCall(c, "calendar")
    /\ LET k == call[c]
       IN IF k.event = None
          THEN GoOn(c, After(k))
          ELSE IF row[k.oldPro] # "none"
               THEN call' = [call EXCEPT ![c].at = StartOf(k), ![c].todo = {"delete", "clear"}]
               ELSE GoOn(c, IF ToAnother(k) THEN "new calendar" ELSE After(k))
    /\ UNCHANGED <<agendaRow, row, linking, google, message, consumer, excuse, calls, links>>

Deleted(e) == [google EXCEPT ![e] = Gone]
Patched(e, s) == [google EXCEPT ![e].slot = s]

(* One after the other: the event, then its id.                            *)
DeleteEvent(c) ==
    /\ InCall(c, "delete")
    /\ LET k == call[c] IN
       \/ /\ row[k.oldPro] = "good" /\ InCalendar(k.event, k.oldPro)
          /\ google' = Deleted(k.event) /\ UNCHANGED excuse
          /\ Go(c, IF ToAnother(k) THEN "new calendar" ELSE "clear")
       \/ /\ Refused(k.oldPro) \/ (~InCalendar(k.event, k.oldPro) /\ UNCHANGED excuse)
          /\ Finish(c) /\ UNCHANGED google
    /\ UNCHANGED <<agendaRow, row, linking, message, consumer, calls, links>>

ClearEvent(c) ==
    /\ InCall(c, "clear")
    /\ appt' = [appt EXCEPT !.event = None]
    /\ Stale(appt.event \notin {call[c].event, None})
    /\ Finish(c)
    /\ UNCHANGED <<row, linking, google, message, consumer, knows, calls, links>>

(* The customer's cancellation does both at once, and a refusal by Google  *)
(* does not stop the other.                                                *)
DeleteAndClear(c) ==
    /\ InCall(c, "both")
    /\ LET k == call[c]
           Done(task) == call' = [call EXCEPT ![c].todo = @ \ {task},
                                      ![c].at = IF k.todo = {task} THEN "notify" ELSE "both"]
       IN \/ /\ "delete" \in k.todo /\ Done("delete") /\ UNCHANGED appt
             /\ \/ /\ row[k.oldPro] = "good" /\ InCalendar(k.event, k.oldPro)
                   /\ google' = Deleted(k.event) /\ UNCHANGED excuse
                \/ /\ Refused(k.oldPro) \/ (~InCalendar(k.event, k.oldPro) /\ UNCHANGED excuse)
                   /\ UNCHANGED google
          \/ /\ "clear" \in k.todo /\ Done("clear")
             /\ appt' = [appt EXCEPT !.event = None]
             /\ Stale(appt.event \notin {k.event, None})
             /\ UNCHANGED google
    /\ UNCHANGED <<row, linking, message, consumer, knows, calls, links>>

UpdateEvent(c) ==
    /\ InCall(c, "update")
    /\ LET k == call[c] IN
       \/ /\ row[k.oldPro] = "good" /\ InCalendar(k.event, k.oldPro)
          /\ google' = Patched(k.event, k.slot)
          /\ Stale(appt.event # k.event \/ ~Current(k.oldPro, k.slot))
       \/ /\ Refused(k.oldPro) \/ (~InCalendar(k.event, k.oldPro) /\ UNCHANGED excuse)
          /\ UNCHANGED google
    /\ Finish(c)
    /\ UNCHANGED <<agendaRow, row, linking, message, consumer, calls, links>>

(* A new professional: an event in his calendar, if he has one; otherwise  *)
(* the appointment keeps the id of the event deleted.                      *)
EnterNewCalendar(c) ==
    /\ InCall(c, "new calendar")
    /\ GoOn(c, IF row[call[c].pro] = "none" THEN "end" ELSE "create")
    /\ UNCHANGED <<agendaRow, row, linking, google, message, consumer, excuse, calls, links>>

CreateInNew(c, e) ==
    /\ InCall(c, "create")
    /\ LET k == call[c] IN
       \/ /\ row[k.pro] = "good" /\ google[e] = None
          /\ google' = [google EXCEPT ![e] = Event(k.pro, k.slot)]
          /\ call' = [call EXCEPT ![c].at = "store", ![c].event = e]
          /\ Stale(BeingMade \/ appt.event # k.event \/ ~Current(k.pro, k.slot))
       \/ Refused(k.pro) /\ Finish(c) /\ UNCHANGED google
    /\ UNCHANGED <<agendaRow, row, linking, message, consumer, calls, links>>

StoreNew(c) ==
    /\ InCall(c, "store")
    /\ appt' = WithId(call[c].event)
    /\ Finish(c)
    /\ UNCHANGED <<row, linking, google, message, consumer, knows, excuse, calls, links>>

Die(c) ==
    /\ call[c] # None /\ call[c].at # "commit"
    /\ Finish(c)
    /\ excuse' = excuse \cup {"failure"}
    /\ UNCHANGED <<agendaRow, row, linking, google, message, consumer, calls, links>>

-----------------------------------------------------------------------------
(* The connection.  The professional is sent to Google with a state key    *)
(* that lives ten minutes and is deleted when he comes back; the code is   *)
(* exchanged for tokens and these are stored over any earlier ones.        *)
AskAuthUrl(p) ==
    /\ linking[p] = "no" /\ links < MaxLinks
    /\ linking' = [linking EXCEPT ![p] = "at google"]
    /\ links' = links + 1
    /\ UNCHANGED <<appt, row, google, message, consumer, call, knows, excuse, calls>>

TakeState(p) ==
    /\ linking[p] = "at google"
    /\ linking' = [linking EXCEPT ![p] = "tokens"]
    /\ UNCHANGED <<appt, row, google, message, consumer, call, knows, excuse, calls, links>>

StoreTokens(p) ==
    /\ linking[p] = "tokens"
    /\ row' = [row EXCEPT ![p] = "good"]
    /\ linking' = [linking EXCEPT ![p] = "no"]
    /\ UNCHANGED <<appt, google, message, consumer, call, knows, excuse, calls, links>>

\* The key expires, Google refuses the code, or he never comes back.
Abandon(p) ==
    /\ linking[p] \in {"at google", "tokens"}
    /\ linking' = [linking EXCEPT ![p] = "no"]
    /\ UNCHANGED <<appt, row, google, message, consumer, call, knows, excuse, calls, links>>

Unreachable(p) ==
    [e \in EventIds |-> IF InCalendar(e, p) THEN [google[e] EXCEPT !.reach = FALSE] ELSE google[e]]

(* Revoking is tried, its errors are logged; then the row goes.  Events    *)
(* left in the calendar are out of reach from here on.                     *)
Revoke(p) ==
    /\ linking[p] = "no" /\ row[p] = "good" /\ links < MaxLinks
    /\ row' \in {row, [row EXCEPT ![p] = "dead"]}
    /\ linking' = [linking EXCEPT ![p] = "disconnecting"]
    /\ links' = links + 1
    /\ google' = Unreachable(p)
    /\ UNCHANGED <<appt, message, consumer, call, knows, excuse, calls>>

Disconnect(p) ==
    /\ linking[p] = "disconnecting"
    /\ row' = [row EXCEPT ![p] = "none"]
    /\ linking' = [linking EXCEPT ![p] = "no"]
    /\ google' = Unreachable(p)
    /\ UNCHANGED <<appt, message, consumer, call, knows, excuse, calls, links>>

CalendarNext ==
    \/ \E s \in Slots, p \in Pros : CreateByCustomer(s, p) \/ CreateByProfessional(s, p)
    \/ Consume \/ ReadForEvent \/ CreateRefused \/ StoreEvent \/ ConsumerDies
    \/ \E e \in EventIds : CreateEvent(e)
    \/ \E c \in Calls :
        \/ CancelByProfessional(c) \/ CancelByCustomer(c)
        \/ \E s \in Slots : RescheduleByProfessional(c, s)
        \/ \E s \in Slots, p \in Pros : RescheduleByCustomer(c, s, p)
        \/ Commit(c) \/ Notify(c) \/ FindCalendar(c) \/ DeleteEvent(c) \/ ClearEvent(c)
        \/ DeleteAndClear(c) \/ UpdateEvent(c) \/ EnterNewCalendar(c) \/ StoreNew(c) \/ Die(c)
        \/ \E e \in EventIds : CreateInNew(c, e)
    \/ \E p \in Pros : AskAuthUrl(p) \/ TakeState(p) \/ StoreTokens(p) \/ Abandon(p)
                       \/ Revoke(p) \/ Disconnect(p)

CalendarSpec == CalendarInit /\ [][CalendarNext]_calendarVars

-----------------------------------------------------------------------------
CalendarTypeOK ==
    /\ appt \in ApptRow \cup {None}
    /\ row \in [Pros -> {"none", "good", "dead"}]
    /\ linking \in [Pros -> {"no", "at google", "tokens", "disconnecting"}]
    /\ google \in [EventIds -> EventRow \cup {None, Gone}]
    /\ message \in Pros \cup {None} /\ consumer \in ConsumerRow \cup {None}
    /\ call \in [Calls -> CallRow \cup {None}]
    /\ knows \in [Sides -> NoticeRow \cup {None}]
    /\ excuse \subseteq {"failure", "stale"} /\ calls \in Nat /\ links \in Nat

Quiet == appt # None /\ message = None /\ \A c \in Calls : call[c] = None
InReach == {e \in EventIds : Exists(e) /\ google[e].reach}

(* Once all is quiet, the calendars within reach show the appointment at   *)
(* most once, in its professional's calendar, at its slot, under the id it *)
(* carries, and nothing when it is canceled -- unless a call failed, or a  *)
(* step acted on what was no longer so: a change committed over another,   *)
(* or while an event is being made; an event made for a slot or a          *)
(* professional left meanwhile (the message names who had the appointment  *)
(* when it was created), or for an appointment canceled or with an event   *)
(* already; an id cleared that another had stored.                         *)
CalendarShowsAppointment ==
    Quiet /\ excuse = {} =>
        \A e \in InReach : /\ google[e] = Event(appt.pro, appt.slot)
                         /\ appt.status = "live" /\ appt.event = e

UpToDate(x) == knows[x] # None /\ TrueOf(knows[x])

(* Once all is quiet, the customer and the professional who has the        *)
(* appointment know its slot, with the same exceptions; and whether it     *)
(* stands, unless the customer moved it after its cancellation: then both  *)
(* are told of a move, and may take it for one that stands.  (One it was   *)
(* taken from is never told.)                                              *)
BothSidesKnow ==
    Quiet /\ excuse = {} => UpToDate("customer") /\ UpToDate(appt.pro)
=============================================================================
