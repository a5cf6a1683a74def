----------------------------- MODULE Catalogue -----------------------------
(***************************************************************************)
(* What a business sells and who performs it: services, combos of          *)
(* services, professionals, and the links between them, with the bookings  *)
(* that rest on them.  Every handler reads, checks and writes in separate  *)
(* queries; only the writes of a combo are one transaction, whose first    *)
(* statement locks the combo's row.                                        *)
(*                                                                         *)
(* Names, telephones and colours are left out: a request they make fail is *)
(* one that gives up.  So is the agenda: where an appointment lies is just *)
(* "past" or "future".                                                     *)
(***************************************************************************)
EXTENDS Integers, FiniteSets, FiniteSetsExt

CONSTANTS
    Services, Combos, Staff, Bookings,
    Owner,          \* the professional who owns the business
    Prices,         \* price and length of a service, as [price, length]
    Teams, Menus,   \* sets of professionals and of services a request may name
    Deals,          \* modes and values of a new combo
    Changes,        \* updates of a combo: [deal, services, staff, active]; Nothing: not sent
    Limits,         \* professionals the plan allows; Nothing: no active plan
    Desks,          \* requests that may be under way at once
    MaxRequests,    \* bound: requests in all
    Nothing

Pricings == {"FIXED_PRICE", "PERCENT_DISCOUNT"}
ServiceRow == [price : Nat, length : Nat \ {0}, onSale : BOOLEAN]

ASSUME CatalogueAssumption ==
    /\ Owner \in Staff /\ MaxRequests \in Nat
    /\ \A v \in Prices : v.price \in Nat /\ v.length \in Nat \ {0}
    /\ Limits \subseteq Nat \cup {Nothing}
    /\ Teams \subseteq SUBSET Staff /\ Menus \subseteq SUBSET Services
    /\ \A deal \in Deals : deal.pricing \in Pricings
    /\ \A change \in Changes : change.deal.pricing \in Pricings \cup {Nothing}
    /\ Nothing \notin ServiceRow

VARIABLES
    service,   \* each service: Nothing, or [price, length, onSale]
    combo,     \* the combos there are, each the row with its items
    staff,     \* each professional: none, pending, active or inactive
    performs,  \* the links <<professional, service or combo>>
    booking,   \* each appointment: Nothing, or [service, combo, staff, when, status],
               \* the status live (pending or confirmed), completed or canceled
    request,   \* what each request is doing
    requests,  \* how many there have been
    overlapped, \* combos two updates worked on at once
    excused    \* appointments booked, moved or confirmed while, or after, their
               \* item was withdrawn

catalogueVars ==
    <<service, combo, staff, performs, booking, request, requests, overlapped, excused>>

CatalogueInit ==
    /\ service \in [Services -> {[price |-> v.price, length |-> v.length, onSale |-> TRUE] : v \in Prices}]
    /\ combo = [c \in {} |-> Nothing]
    /\ staff = [p \in Staff |-> IF p = Owner THEN "active" ELSE "none"]
    /\ performs = {Owner} \X Services
    /\ booking = [a \in Bookings |-> Nothing]
    /\ request = [d \in Desks |-> Nothing]
    /\ requests = 0
    /\ overlapped = {} /\ excused = {}

Employed == {p \in Staff : staff[p] # "none"}
OnSale(s) == service[s] # Nothing /\ service[s].onSale
Doing(d, place) == request[d] # Nothing /\ request[d].at = place

\* A request enters with what it asks; since: bookings made meanwhile.
Begin(d, asked) ==
    /\ request[d] = Nothing /\ requests < MaxRequests
    /\ request' = [request EXCEPT ![d] = asked]
    /\ requests' = requests + 1

Proceed(d, place) == request' = [request EXCEPT ![d].at = place] /\ UNCHANGED requests
End(d) == request' = [request EXCEPT ![d] = Nothing] /\ UNCHANGED requests

\* Refused by a check the model leaves out, failed, or died.
GiveUp(d) ==
    /\ request[d] # Nothing
    /\ End(d)
    /\ UNCHANGED <<service, combo, staff, performs, booking, overlapped, excused>>

-----------------------------------------------------------------------------
\* Services.
CreateService(s, v, ps) ==
    /\ service[s] = Nothing /\ requests < MaxRequests
    /\ ps \subseteq Employed
    /\ service' = [service EXCEPT ![s] = [price |-> v.price, length |-> v.length, onSale |-> TRUE]]
    /\ performs' = performs \cup (ps \X {s})
    /\ requests' = requests + 1
    /\ UNCHANGED <<combo, staff, booking, request, overlapped, excused>>

(* Only what differs from the row read is written, and the links only if   *)
(* the row was.                                                            *)
AskUpdateService(d, s, v, ps) ==
    /\ service[s] # Nothing
    /\ Begin(d, [at |-> "write service", whose |-> s, wanted |-> ps \X {s},
                 set |-> {f \in {"price", "length"} : v[f] # service[s][f]}, to |-> v])
    /\ UNCHANGED <<service, combo, staff, performs, booking, overlapped, excused>>

WriteService(d) ==
    /\ Doing(d, "write service")
    /\ LET r == request[d] IN
       /\ service[r.whose] # Nothing
       /\ service' = [service EXCEPT ![r.whose] =
            [f \in DOMAIN @ |-> IF f \in r.set THEN r.to[f] ELSE @[f]]]
       /\ request' = [request EXCEPT ![d] = [at |-> "read links", whose |-> r.whose, wanted |-> r.wanted]]
       /\ UNCHANGED requests
    /\ UNCHANGED <<combo, staff, performs, booking, overlapped, excused>>

(* The links of a service or of a professional are brought to the wanted   *)
(* ones in three queries: read, delete what is too many, create the rest.  *)
LinksOf(x) == {l \in performs : x \in {l[1], l[2]}}
Linkable(l) == l[1] \in Employed /\ (l[2] \in Services => service[l[2]] # Nothing)

ReadLinks(d) ==
    /\ Doing(d, "read links")
    /\ \A l \in request[d].wanted : Linkable(l)
    /\ LET r == request[d]
           current == {l \in LinksOf(r.whose) : l[2] \in Services}
       IN request' = [request EXCEPT ![d] =
                        [at |-> "unlink", drop |-> current \ r.wanted, add |-> r.wanted \ current]]
    /\ UNCHANGED <<service, combo, staff, performs, booking, requests, overlapped, excused>>

Unlink(d) ==
    /\ Doing(d, "unlink")
    /\ performs' = performs \ request[d].drop
    /\ Proceed(d, "link")
    /\ UNCHANGED <<service, combo, staff, booking, overlapped, excused>>

Link(d) ==
    /\ Doing(d, "link")
    /\ \A l \in request[d].add : Linkable(l)
    /\ performs' = performs \cup request[d].add
    /\ End(d)
    /\ UNCHANGED <<service, combo, staff, booking, overlapped, excused>>

Stands(a) == booking[a] # Nothing /\ booking[a].status = "live"
Future(a) == Stands(a) /\ booking[a].when = "future"

NoFutureOf(s) == \A a \in Bookings : Future(a) => booking[a].service # s

(* Taken off sale, if no appointment to come is seen.                      *)
CheckWithdraw(d, s) ==
    /\ service[s] # Nothing
    /\ NoFutureOf(s)
    /\ Begin(d, [at |-> "withdraw", whose |-> s, since |-> {}])
    /\ UNCHANGED <<service, combo, staff, performs, booking, overlapped, excused>>

WithdrawService(d) ==
    /\ Doing(d, "withdraw")
    /\ service[request[d].whose] # Nothing
    /\ service' = [service EXCEPT ![request[d].whose].onSale = FALSE]
    /\ excused' = excused \cup request[d].since
    /\ End(d)
    /\ UNCHANGED <<combo, staff, performs, booking, overlapped>>

(* Deleted for good: the database refuses while anything refers to it.     *)
DeleteService(s) ==
    /\ service[s] # Nothing /\ requests < MaxRequests
    /\ LinksOf(s) = {}
    /\ \A a \in Bookings : booking[a] # Nothing => booking[a].service # s
    /\ \A c \in DOMAIN combo : s \notin DOMAIN combo[c].items
    /\ service' = [service EXCEPT ![s] = Nothing]
    /\ requests' = requests + 1
    /\ UNCHANGED <<combo, staff, performs, booking, request, overlapped, excused>>

-----------------------------------------------------------------------------
(* Professionals.  The inactive count too; without an active plan there is *)
(* no limit (a comparison with undefined).                                 *)
CountStaff(d, limit, ss) ==
    /\ limit # Nothing => Cardinality(Employed) < limit
    /\ Begin(d, [at |-> "hire", services |-> ss])
    /\ UNCHANGED <<service, combo, staff, performs, booking, overlapped, excused>>

(* A user already known starts active.  The services are validated when    *)
(* the profile already exists.                                             *)
Hire(d, p) ==
    /\ Doing(d, "hire")
    /\ staff[p] = "none"
    /\ staff' \in {[staff EXCEPT ![p] = "pending"], [staff EXCEPT ![p] = "active"]}
    /\ request' = [request EXCEPT ![d] = [at |-> "link", add |-> {p} \X request[d].services]]
    /\ UNCHANGED <<service, combo, performs, booking, requests, overlapped, excused>>

AskUpdateStaff(d, p, ss) ==
    /\ p \in Employed
    /\ Begin(d, [at |-> "read links", whose |-> p, wanted |-> {p} \X ss])
    /\ UNCHANGED <<service, combo, staff, performs, booking, overlapped, excused>>

CheckDismiss(d, p) ==
    /\ p \in Employed \ {Owner}
    /\ \A a \in Bookings : Future(a) => booking[a].staff # p
    /\ Begin(d, [at |-> "dismiss", whose |-> p])
    /\ UNCHANGED <<service, combo, staff, performs, booking, overlapped, excused>>

\* The links stay.
Dismiss(d) ==
    /\ Doing(d, "dismiss")
    /\ staff' = [staff EXCEPT ![request[d].whose] = "inactive"]
    /\ End(d)
    /\ UNCHANGED <<service, combo, performs, booking, overlapped, excused>>

-----------------------------------------------------------------------------
(* Combos.  An item keeps the price and length its service had when it was *)
(* put in; the combo keeps their sums and what its modes make of them.     *)
Snapshot(ss) == [s \in ss |-> [price |-> service[s].price, length |-> service[s].length]]

Total(items) ==
    [price  |-> MapThenSumSet(LAMBDA s : items[s].price, DOMAIN items),
     length |-> MapThenSumSet(LAMBDA s : items[s].length, DOMAIN items)]

(* The modes as they will be: what was sent, else what the combo (old)     *)
(* has, else the value that changes nothing.                               *)
Else(x, y) == IF x # Nothing THEN x ELSE y

Merged(deal, old) ==
    LET pricing == Else(deal.pricing, old.pricing)
        timing == Else(deal.timing, old.timing)
    IN [pricing |-> pricing, timing |-> timing,
        fixed   |-> Else(deal.fixed, IF pricing = "FIXED_PRICE" THEN Else(old.fixed, old.final.price) ELSE Nothing),
        percent |-> Else(deal.percent, IF pricing = "PERCENT_DISCOUNT" THEN Else(old.percent, 0) ELSE Nothing),
        custom  |-> Else(deal.custom, IF timing = "CUSTOM" THEN Else(old.custom, old.final.length) ELSE Nothing)]

Computable(m, base) ==
    /\ base.price >= 0 /\ base.length > 0
    /\ m.pricing = "FIXED_PRICE" => m.fixed # Nothing /\ m.fixed >= 0
    /\ m.pricing = "PERCENT_DISCOUNT" => m.percent # Nothing /\ 0 <= m.percent /\ m.percent <= 100
    /\ m.timing = "CUSTOM" => m.custom # Nothing /\ m.custom > 0

Rounded(n, d) == (2 * n + d) \div (2 * d)

FinalOf(m, base) ==
    [price  |-> IF m.pricing = "FIXED_PRICE" THEN m.fixed
                ELSE Rounded(base.price * (100 - m.percent), 100),
     length |-> IF m.timing = "CUSTOM" THEN m.custom ELSE base.length]

\* What the columns keep: a value only under the mode that uses it.
Computed(m, base) ==
    [pricing |-> m.pricing, timing |-> m.timing,
     fixed   |-> IF m.pricing = "FIXED_PRICE" THEN m.fixed ELSE Nothing,
     percent |-> IF m.pricing = "PERCENT_DISCOUNT" THEN m.percent ELSE Nothing,
     custom  |-> IF m.timing = "CUSTOM" THEN m.custom ELSE Nothing,
     base    |-> base, final |-> FinalOf(m, base)]

Row(values, items, active, deleted) ==
    [pricing |-> values.pricing, timing |-> values.timing, fixed |-> values.fixed,
     percent |-> values.percent, custom |-> values.custom, base |-> values.base,
     final |-> values.final, items |-> items, active |-> active, deleted |-> deleted]

ComboStaff(ps) == ps # {} /\ \A p \in ps : staff[p] = "active"

AskCombo(d, ss, deal, ps) ==
    /\ Cardinality(ss) >= 2 /\ \A s \in ss : OnSale(s)
    /\ ComboStaff(ps)
    /\ Computable(deal, Total(Snapshot(ss)))
    /\ Begin(d, [at |-> "insert combo", items |-> Snapshot(ss), staff |-> ps,
                 values |-> Computed(deal, Total(Snapshot(ss)))])
    /\ UNCHANGED <<service, combo, staff, performs, booking, overlapped, excused>>

InsertCombo(d, c, active) ==
    /\ Doing(d, "insert combo")
    /\ c \notin DOMAIN combo
    /\ \A s \in DOMAIN request[d].items : service[s] # Nothing
    /\ combo' = [x \in DOMAIN combo \cup {c} |->
                    IF x = c THEN Row(request[d].values, request[d].items, active, FALSE) ELSE combo[x]]
    /\ performs' = performs \cup (request[d].staff \X {c})
    /\ End(d)
    /\ UNCHANGED <<service, staff, booking, overlapped, excused>>

Standing(c) == c \in DOMAIN combo /\ ~combo[c].deleted

(* An update reads the combo; then, if it names services, their present    *)
(* prices; then writes all the values, and the items only if named.        *)
ReadCombo(d, c, change) ==
    /\ Standing(c)
    /\ change.staff # Nothing => ComboStaff(change.staff)
    /\ change.services # Nothing => Cardinality(change.services) >= 2
    /\ Begin(d, [at |-> IF change.services = Nothing THEN "write combo" ELSE "read services",
                 whose |-> c, old |-> combo[c], items |-> combo[c].items, change |-> change])
    /\ UNCHANGED <<service, combo, staff, performs, booking, overlapped, excused>>

ReadServices(d) ==
    /\ Doing(d, "read services")
    /\ LET ss == request[d].change.services IN
       /\ \A s \in ss : OnSale(s)
       /\ request' = [request EXCEPT ![d].items = Snapshot(ss), ![d].at = "write combo"]
    /\ UNCHANGED <<service, combo, staff, performs, booking, requests, overlapped, excused>>

\* Mutant: the base is kept unless the services change.
OldBase(r) == r.old.base

NewBase(r) == Total(r.items)

Updating(d, c) ==
    (Doing(d, "read services") \/ Doing(d, "write combo")) /\ request[d].whose = c

WriteCombo(d) ==
    /\ Doing(d, "write combo")
    /\ LET r == request[d]
           m == Merged(r.change.deal, r.old)
           now == combo[r.whose]
       IN /\ Computable(m, NewBase(r))
          /\ \A s \in DOMAIN r.items : service[s] # Nothing
          /\ combo' = [combo EXCEPT ![r.whose] =
                Row(Computed(m, NewBase(r)), IF r.change.services = Nothing THEN now.items ELSE r.items,
                    Else(r.change.active, now.active), now.deleted)]
          /\ performs' = IF r.change.staff = Nothing THEN performs
                         ELSE {l \in performs : l[2] # r.whose} \cup (r.change.staff \X {r.whose})
          /\ overlapped' = IF \E e \in Desks \ {d} : Updating(e, r.whose)
                           THEN overlapped \cup {r.whose} ELSE overlapped
    /\ End(d)
    /\ UNCHANGED <<service, staff, booking, excused>>

Shown(c) ==
    /\ Cardinality({s \in DOMAIN combo[c].items : OnSale(s)}) >= 2
    /\ \E p \in Staff : staff[p] = "active" /\ <<p, c>> \in performs

CheckVisibility(d, c, active) ==
    /\ Standing(c) /\ combo[c].active # active
    /\ active => Shown(c)
    /\ Begin(d, [at |-> "set visibility", whose |-> c, active |-> active])
    /\ UNCHANGED <<service, combo, staff, performs, booking, overlapped, excused>>

SetVisibility(d) ==
    /\ Doing(d, "set visibility")
    /\ combo' = [combo EXCEPT ![request[d].whose].active = request[d].active]
    /\ End(d)
    /\ UNCHANGED <<service, staff, performs, booking, overlapped, excused>>

CheckDeleteCombo(d, c) ==
    /\ Standing(c)
    /\ \A a \in Bookings : Stands(a) => booking[a].combo # c
    /\ Begin(d, [at |-> "delete combo", whose |-> c, since |-> {}])
    /\ UNCHANGED <<service, combo, staff, performs, booking, overlapped, excused>>

DeleteCombo(d) ==
    /\ Doing(d, "delete combo")
    /\ combo' = [combo EXCEPT ![request[d].whose].active = FALSE, ![request[d].whose].deleted = TRUE]
    /\ excused' = excused \cup request[d].since
    /\ End(d)
    /\ UNCHANGED <<service, staff, performs, booking, overlapped>>

-----------------------------------------------------------------------------
(* Bookings, by the customer or the professional.  The professional must   *)
(* exist and have the link; neither handler looks at his status.           *)
AskBooking(d, p, s) ==
    /\ p \in Employed /\ OnSale(s) /\ <<p, s>> \in performs
    /\ Begin(d, [at |-> "book", service |-> s, combo |-> Nothing, staff |-> p])
    /\ UNCHANGED <<service, combo, staff, performs, booking, overlapped, excused>>

\* A combo is booked under the first of its items still on sale.
AskComboBooking(d, p, c, anchor) ==
    /\ p \in Employed /\ <<p, c>> \in performs
    /\ Standing(c) /\ combo[c].active
    /\ Cardinality({s \in DOMAIN combo[c].items : OnSale(s)}) >= 2
    /\ anchor \in DOMAIN combo[c].items /\ OnSale(anchor)
    /\ Begin(d, [at |-> "book", service |-> anchor, combo |-> c, staff |-> p])
    /\ UNCHANGED <<service, combo, staff, performs, booking, overlapped, excused>>

\* The appointment is news to every removal under way.
Told(a, d) ==
    [e \in Desks |-> IF e = d THEN Nothing
                     ELSE IF Doing(e, "withdraw") \/ Doing(e, "delete combo")
                     THEN [request[e] EXCEPT !.since = @ \cup {a}] ELSE request[e]]

Withdrawn(b) == ~OnSale(b.service) \/ (b.combo # Nothing /\ combo[b.combo].deleted)

Insert(d, a, when) ==
    /\ Doing(d, "book") /\ booking[a] = Nothing
    /\ service[request[d].service] # Nothing
    /\ LET b == [service |-> request[d].service, combo |-> request[d].combo,
                 staff |-> request[d].staff, when |-> when, status |-> "live"]
       IN /\ booking' = [booking EXCEPT ![a] = b]
          /\ excused' = IF Withdrawn(b) THEN excused \cup {a} ELSE excused
    /\ request' = Told(a, d)
    /\ UNCHANGED <<service, combo, staff, performs, requests, overlapped>>

Moved(a, b, d) ==
    /\ booking' = [booking EXCEPT ![a] = b]
    /\ excused' = IF Withdrawn(b) THEN excused \cup {a} ELSE excused
    /\ request' = Told(a, d)
    /\ UNCHANGED <<service, combo, staff, performs, requests, overlapped>>

(* The customer may change service and professional as he moves it, and    *)
(* only their existence is checked.  Nothing of the status is read or      *)
(* written: one completed may be moved to the future.                      *)
MoveByCustomer(a, s, p, when) ==
    /\ booking[a] # Nothing /\ service[s] # Nothing /\ p \in Employed
    /\ Moved(a, [booking[a] EXCEPT !.service = s, !.staff = p, !.when = when], Nothing)

(* The professional moves one that stands, and it is pending again         *)
(* whatever it has become meanwhile.                                       *)
AskToMove(d, a, when) ==
    /\ Stands(a)
    /\ Begin(d, [at |-> "move", whose |-> a, when |-> when])
    /\ UNCHANGED <<service, combo, staff, performs, booking, overlapped, excused>>

MoveByProfessional(d) ==
    /\ Doing(d, "move")
    /\ LET r == request[d]
       IN booking[r.whose] # Nothing /\ Moved(r.whose, [booking[r.whose] EXCEPT !.when = r.when, !.status = "live"], d)

(* The customer may confirm one that is completed, the professional only   *)
(* one that stands; neither handler looks at the service.  The write is by *)
(* id, over whatever the appointment has become.                           *)
AskToConfirm(d, a) ==
    /\ booking[a] # Nothing /\ booking[a].status # "canceled"
    /\ Begin(d, [at |-> "confirm", whose |-> a])
    /\ UNCHANGED <<service, combo, staff, performs, booking, overlapped, excused>>

ConfirmBooking(d) ==
    /\ Doing(d, "confirm")
    /\ LET a == request[d].whose
       IN booking[a] # Nothing /\ Moved(a, [booking[a] EXCEPT !.status = "live"], d)

\* The hour passes.
Pass(a) ==
    /\ Future(a)
    /\ booking' = [booking EXCEPT ![a].when = "past"]
    /\ UNCHANGED <<service, combo, staff, performs, request, requests, overlapped, excused>>

(* It is completed by the closing job, which may have read its page before *)
(* a move; or canceled, also when completed.                               *)
Settle(a, outcome) ==
    /\ booking[a] # Nothing
    /\ outcome = "completed" => Stands(a)
    /\ booking' = [booking EXCEPT ![a].status = outcome]
    /\ UNCHANGED <<service, combo, staff, performs, request, requests, overlapped, excused>>

-----------------------------------------------------------------------------
ServiceNext ==
    \/ \E s \in Services, v \in Prices, ps \in Teams : CreateService(s, v, ps)
    \/ \E s \in Services : DeleteService(s)
    \/ \E d \in Desks :
        \/ \E s \in Services, v \in Prices, ps \in Teams : AskUpdateService(d, s, v, ps)
        \/ WriteService(d) \/ ReadLinks(d) \/ Unlink(d) \/ Link(d)
        \/ \E s \in Services : CheckWithdraw(d, s)
        \/ WithdrawService(d)

StaffNext ==
    \E d \in Desks :
        \/ \E limit \in Limits, ss \in Menus : CountStaff(d, limit, ss)
        \/ \E p \in Staff : Hire(d, p) \/ CheckDismiss(d, p)
        \/ \E p \in Staff, ss \in Menus : AskUpdateStaff(d, p, ss)
        \/ Dismiss(d)

ComboNext ==
    \E d \in Desks :
        \/ \E ss \in Menus, deal \in Deals, ps \in Teams : AskCombo(d, ss, deal, ps)
        \/ \E c \in Combos, active \in BOOLEAN : InsertCombo(d, c, active) \/ CheckVisibility(d, c, active)
        \/ \E c \in Combos, change \in Changes : ReadCombo(d, c, change)
        \/ ReadServices(d) \/ WriteCombo(d) \/ SetVisibility(d) \/ DeleteCombo(d)
        \/ \E c \in Combos : CheckDeleteCombo(d, c)

BookingNext ==
    \/ \E d \in Desks :
        \/ \E p \in Staff, s \in Services : AskBooking(d, p, s)
        \/ \E p \in Staff, c \in Combos, s \in Services : AskComboBooking(d, p, c, s)
        \/ \E a \in Bookings, when \in {"past", "future"} : Insert(d, a, when) \/ AskToMove(d, a, when)
        \/ \E a \in Bookings : AskToConfirm(d, a)
        \/ MoveByProfessional(d) \/ ConfirmBooking(d)
    \/ \E a \in Bookings :
        \/ \E s \in Services, p \in Staff, when \in {"past", "future"} : MoveByCustomer(a, s, p, when)
        \/ \E outcome \in {"completed", "canceled"} : Settle(a, outcome)
        \/ Pass(a)

CatalogueNext ==
    ServiceNext \/ StaffNext \/ ComboNext \/ BookingNext \/ \E d \in Desks : GiveUp(d)

CatalogueSpec == CatalogueInit /\ [][CatalogueNext]_catalogueVars

-----------------------------------------------------------------------------
(* A combo's base is the sum of the items it keeps, and its price and      *)
(* length are what its modes make of that base, whatever became of its     *)
(* services since.  Two updates that overlapped may have mixed the items   *)
(* of one with the values of the other.                                    *)
ComboAddsUp ==
    \A c \in DOMAIN combo :
        /\ Computable(combo[c], combo[c].base)
        /\ combo[c].final = FinalOf(combo[c], combo[c].base)
        /\ c \notin overlapped => combo[c].base = Total(combo[c].items)

(* An appointment to come is of a service on sale, and a standing one of a *)
(* combo not deleted, unless it was booked, moved or confirmed while the   *)
(* withdrawal was under way, or after it: neither rescheduling nor         *)
(* confirming looks whether the service is still active, and a withdrawal  *)
(* counts only what is pending or confirmed.  So one that was completed,   *)
(* moved to the future and confirmed is of whatever was withdrawn between. *)
FutureIsOnSale ==
    \A a \in Bookings \ excused :
        /\ Future(a) => OnSale(booking[a].service)
        /\ Stands(a) /\ booking[a].combo # Nothing => ~combo[booking[a].combo].deleted

(* What is sold is priced as composed and is for sale.                     *)
SoldAsListed == ComboAddsUp /\ FutureIsOnSale
=============================================================================
