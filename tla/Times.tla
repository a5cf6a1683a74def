------------------------------- MODULE Times -------------------------------
(***************************************************************************)
(* The times offered to a customer or to the professional's own screen.    *)
(* The handlers read the opening hours first, then, day by day, the live   *)
(* appointments and the blocked times of the professional in two queries,  *)
(* and cut the opening ranges of the day around what they saw, one busy    *)
(* range after the other.  The agenda changes between the reads, in        *)
(* whatever way the module Agenda allows, its races included: here any     *)
(* interval may come or go.                                                *)
(*                                                                         *)
(* Time is counted in minutes from the start of the first day; interval    *)
(* [from, to) holds its first minute and not its last.                     *)
(***************************************************************************)
EXTENDS Integers, Sequences

CONSTANTS
    DayLength,    \* minutes of a day
    LastDay,      \* days are 0..LastDay
    ProDays,      \* days the professional's screen asks for at once (3)
    Items,        \* services and combos
    Duration,     \* minutes of an item
    HoursInputs,  \* opening hours an owner may send
    Intervals,    \* appointments and blocks that may come and go
    Clock,        \* minutes the clock is looked at
    MaxChanges,   \* bound: changes of agenda, hours and catalogue
    Nobody        \* no question asked

Days == 0 .. LastDay
Minutes == 0 .. (LastDay + 1) * DayLength - 1
Interval == [from : Int, to : Int]

ASSUME TimesAssumption ==
    /\ DayLength \in Nat \ {0} /\ LastDay \in Nat /\ ProDays \in Nat \ {0} /\ MaxChanges \in Nat
    /\ Duration \in [Items -> Int]
    /\ Clock \subseteq Minutes
    /\ Intervals \subseteq Interval /\ \A i \in Intervals : i.from < i.to
    /\ \A h \in HoursInputs : h.times \in [Days -> Seq(Interval)]

VARIABLES
    openingHours,  \* the business's row: [form, closed, times]
    live,          \* PENDING and CONFIRMED appointments of the professional
    blocks,        \* his blocked times
    bookable,      \* items on sale that this active professional performs
    now,           \* the clock
    ask,           \* the question being answered
    changes        \* changes so far

timesVars == <<openingHours, live, blocks, bookable, now, ask, changes>>

Covers(i, m) == i.from <= m /\ m < i.to
Covered(S) == {m \in Minutes : \E i \in S : Covers(i, m)}

(* A day marked closed has no range, every range opens before it closes,   *)
(* both at minutes of the day (00:00 to 23:59), and no two ranges of a day *)
(* overlap.  The form is not looked at: a list of days and an object with  *)
(* a key per day are both taken.                                           *)
Accepted(h) == \A d \in Days : LET t == h.times[d] IN
    /\ d \in h.closed => t = <<>>
    /\ \A i \in DOMAIN t : 0 <= t[i].from /\ t[i].from < t[i].to /\ t[i].to < DayLength
    /\ \A i, j \in DOMAIN t : i < j => t[i].to <= t[j].from \/ t[j].to <= t[i].from

TimesInit ==
    /\ openingHours \in {h \in HoursInputs : Accepted(h)}
    /\ live = {} /\ blocks = {}
    /\ bookable = Items
    /\ now = 0
    /\ ask = Nobody
    /\ changes = 0

-----------------------------------------------------------------------------
\* Mutant: a busy range inside an earlier one moves the cursor back.
BackToEnd(cursor, end) == end

(* Where the free window after a busy range begins.                        *)
Past(cursor, end) == IF cursor < end THEN end ELSE cursor

(* The part of a busy range inside the opening range.                      *)
Clipped(busy, r) ==
    [from |-> IF busy.from < r.from THEN r.from ELSE busy.from,
     to   |-> IF r.to < busy.to THEN r.to ELSE busy.to]

Overlapping(busy, r) == busy.from < r.to /\ r.from < busy.to

(* The slots of a window, one item after the other from its start; today   *)
(* only those still to come.                                               *)
SlotsOf(w, dur, today, t) ==
    {s \in w.from .. w.to - dur : (s - w.from) % dur = 0 /\ (today => t < s)}

Shift(r, d) == [from |-> r.from + d * DayLength, to |-> r.to + d * DayLength]

-----------------------------------------------------------------------------
\* The owner edits the business.  A null removes the hours altogether.
EditHours(h) ==
    /\ h # openingHours /\ changes < MaxChanges
    /\ Accepted(h)
    /\ openingHours' = h
    /\ changes' = changes + 1
    /\ UNCHANGED <<live, blocks, bookable, now, ask>>

(* The question as it now stands: which minutes were free at some moment   *)
(* since it was asked, and whether an appointment and a block ever lay on  *)
(* the same minute.                                                        *)
Witnessed(l, b) ==
    IF ask = Nobody THEN Nobody
    ELSE [ask EXCEPT !.free = @ \cup (Minutes \ Covered(l \cup b)),
                     !.clash = @ \/ Covered(l) \cap Covered(b) # {}]

(* A booking, a cancellation, a rescheduling, a block set or lifted.       *)
ChangeAgenda(l, b) ==
    /\ changes < MaxChanges
    /\ changes' = changes + 1
    /\ live' = l /\ blocks' = b
    /\ ask' = Witnessed(l, b)
    /\ UNCHANGED <<openingHours, bookable, now>>

BookInterval(i) == i \notin live /\ ChangeAgenda(live \cup {i}, blocks)
CancelInterval(i) == i \in live /\ ChangeAgenda(live \ {i}, blocks)
Reschedule(i, j) == i \in live /\ j \notin live /\ ChangeAgenda((live \ {i}) \cup {j}, blocks)
Block(i) == i \notin blocks /\ ChangeAgenda(live, blocks \cup {i})
Unblock(i) == i \in blocks /\ ChangeAgenda(live, blocks \ {i})

\* An item goes off sale or comes back (catalogue, soft deletes, links).
Withdraw(i) ==
    /\ changes < MaxChanges
    /\ bookable' = IF i \in bookable THEN bookable \ {i} ELSE bookable \cup {i}
    /\ changes' = changes + 1
    /\ UNCHANGED <<openingHours, live, blocks, now, ask>>

Tick(t) ==
    /\ now < t
    /\ now' = t
    /\ UNCHANGED <<openingHours, live, blocks, bookable, ask, changes>>

-----------------------------------------------------------------------------
(* The checks and the first reads.  Hours kept as an object, or none, make *)
(* the search for the weekday throw.                                       *)
Ask(i, d, last) ==
    /\ ask = Nobody
    /\ i \in bookable /\ Duration[i] > 0
    /\ ask' = [at |-> IF openingHours.form = "list" THEN "appointments" ELSE "failed",
               item |-> i, hours |-> openingHours, day |-> d, last |-> last,
               seen |-> {}, read |-> 0, answers |-> {}, range |-> 0, todo |-> {}, cursor |-> 0, slots |-> {},
               free |-> Minutes \ Covered(live \cup blocks),
               clash |-> Covered(live) \cap Covered(blocks) # {}]
    /\ UNCHANGED <<openingHours, live, blocks, bookable, now, changes>>

AskClient(i, d) == Ask(i, d, d)
AskProfessional(i, d) == d + ProDays - 1 \in Days /\ Ask(i, d, d + ProDays - 1)

At(place) == ask # Nobody /\ ask.at = place

Answered(busy, slots, read) ==
    [ask EXCEPT !.answers = @ \cup {[day |-> ask.day, busy |-> busy, slots |-> slots, read |-> read]},
                !.day = @ + 1, !.at = IF ask.day = ask.last THEN "answered" ELSE "appointments",
                !.seen = {}, !.range = 0, !.todo = {}, !.cursor = 0, !.slots = {}]

\* Mutant: only what starts within the day.
StartsIn(S, d) == {i \in S : i.from \div DayLength = d}

(* What touches the day, wherever it starts and ends.                      *)
Intersecting(S, d) == {i \in S : i.from < (d + 1) * DayLength /\ i.to > d * DayLength}

(* A day without ranges is answered at once, with nothing.                 *)
ReadClosedDay ==
    /\ At("appointments")
    /\ ask.hours.times[ask.day] = <<>>
    /\ ask' = Answered({}, {}, now)
    /\ UNCHANGED <<openingHours, live, blocks, bookable, now, changes>>

ReadAppointments ==
    /\ At("appointments")
    /\ ask.hours.times[ask.day] # <<>>
    /\ ask' = [ask EXCEPT !.at = "blocks", !.seen = Intersecting(live, ask.day), !.read = now]
    /\ UNCHANGED <<openingHours, live, blocks, bookable, now, changes>>

(* The k-th opening range of the day, from its start, with the busy ranges *)
(* that overlap it still to be passed.                                     *)
Opening(k) == Shift(ask.hours.times[ask.day][k], ask.day)
EnterRange(a, k) ==
    [a EXCEPT !.at = "scan", !.range = k, !.cursor = Opening(k).from,
              !.todo = {b \in a.seen : Overlapping(b, Opening(k))}]

ReadBlocks ==
    /\ At("blocks")
    /\ ask' = EnterRange([ask EXCEPT !.seen = @ \cup Intersecting(blocks, ask.day)], 1)
    /\ UNCHANGED <<openingHours, live, blocks, bookable, now, changes>>

\* The slots gathered, with those of the free window from the cursor on.
WithWindow(to) ==
    ask.slots \cup IF ask.cursor < to
                   THEN SlotsOf([from |-> ask.cursor, to |-> to], Duration[ask.item],
                                ask.read \div DayLength = ask.day, ask.read)
                   ELSE {}

(* The busy range that starts first, any of them if several do.            *)
PassBusy(b) ==
    /\ At("scan")
    /\ b \in ask.todo /\ \A o \in ask.todo : b.from <= o.from
    /\ LET c == Clipped(b, Opening(ask.range)) IN
       ask' = [ask EXCEPT !.slots = WithWindow(c.from), !.cursor = Past(@, c.to), !.todo = @ \ {b}]
    /\ UNCHANGED <<openingHours, live, blocks, bookable, now, changes>>

(* The window that is left, then the next range, or the answer.            *)
EndRange ==
    /\ At("scan") /\ ask.todo = {}
    /\ LET slots == WithWindow(Opening(ask.range).to) IN
       ask' = IF ask.range < Len(ask.hours.times[ask.day])
              THEN EnterRange([ask EXCEPT !.slots = slots], ask.range + 1)
              ELSE Answered(ask.seen, slots, ask.read)
    /\ UNCHANGED <<openingHours, live, blocks, bookable, now, changes>>

Leave ==
    /\ At("answered") \/ At("failed")
    /\ ask' = Nobody
    /\ UNCHANGED <<openingHours, live, blocks, bookable, now, changes>>

TimesNext ==
    \/ \E h \in HoursInputs : EditHours(h)
    \/ \E i \in Intervals : BookInterval(i) \/ CancelInterval(i) \/ Block(i) \/ Unblock(i)
    \/ \E i, j \in Intervals : Reschedule(i, j)
    \/ \E i \in Items : Withdraw(i)
    \/ \E t \in Clock : Tick(t)
    \/ \E i \in Items, d \in Days : AskClient(i, d) \/ AskProfessional(i, d)
    \/ ReadClosedDay \/ ReadAppointments \/ ReadBlocks
    \/ \E b \in Intervals : PassBusy(b)
    \/ EndRange \/ Leave

TimesSpec == TimesInit /\ [][TimesNext]_timesVars

-----------------------------------------------------------------------------
DayAnswer == [day : Days, busy : SUBSET Intervals, slots : SUBSET Int, read : Int]
Asked == [at : {"appointments", "blocks", "scan", "answered", "failed"},
          item : Items, hours : HoursInputs, day : Nat, last : Days,
          seen : SUBSET Intervals, read : Int, answers : SUBSET DayAnswer,
          range : Nat, todo : SUBSET Intervals, cursor : Int, slots : SUBSET Int,
          free : SUBSET Minutes, clash : BOOLEAN]

TimesTypeOK ==
    /\ openingHours \in HoursInputs
    /\ live \subseteq Intervals /\ blocks \subseteq Intervals
    /\ bookable \subseteq Items
    /\ now \in Minutes /\ changes \in 0 .. MaxChanges
    /\ ask \in Asked \cup {Nobody}

(* The opening ranges of a day.                                            *)
RangesOf(h, d) == {Shift(h.times[d][k], d) : k \in DOMAIN h.times[d]}

(* What the cutting means, minute by minute: a slot lies in one opening    *)
(* range, none of its minutes is busy, and a whole number of items fits    *)
(* between it and the first minute of the free stretch it lies in.         *)
Fits(s, dur, r, taken) ==
    LET stretch == {w \in r.from .. s : \A m \in w .. s : m \notin taken} IN
    /\ \A m \in s .. s + dur - 1 : m \notin taken
    /\ (s - (CHOOSE w \in stretch : \A v \in stretch : w <= v)) % dur = 0

(* The answer for a day is exactly that, and today only what is still to   *)
(* come: the scan with the cursor (several busy ranges, one inside the     *)
(* other, crossing the opening range or midnight) loses and invents none.  *)
OffersAreWhatFits ==
    ask # Nobody => \A a \in ask.answers :
        LET dur == Duration[ask.item]
            Exact(r) == {s \in r.from .. r.to - dur : Fits(s, dur, r, Covered(a.busy))}
        IN a.slots = {s \in UNION {Exact(r) : r \in RangesOf(ask.hours, a.day)} :
                        a.read \div DayLength = a.day => a.read < s}

(* Two queries, no snapshot: still every minute of an offered slot was     *)
(* free at some moment since the question was asked, unless an appointment *)
(* and a block lay on the same minute meanwhile (what the agenda's own     *)
(* checks refuse outside their races).  The slot as a whole may never have *)
(* been free.                                                              *)
OfferedMinutesWereFree ==
    ask # Nobody /\ ~ask.clash => \A a \in ask.answers : \A s \in a.slots :
        s .. s + Duration[ask.item] - 1 \subseteq ask.free
=============================================================================
