------------------------------- MODULE Agenda -------------------------------
(***************************************************************************)
(* The agenda of the professionals: the Appointment and                    *)
(* ProfessionalTimesBlock tables and the api-gateway handlers that write   *)
(* them.  No handler locks anything and the database has no exclusion      *)
(* constraint, so a handler is a chain of separate queries: read the row   *)
(* it works on, look for an overlapping appointment, look for an           *)
(* overlapping block, write.  Other requests run between any two queries.  *)
(*                                                                         *)
(* Time is a discrete scale 0..Horizon cut into days of DayLength units.   *)
(* Authentication, ownership and the catalogue checks reject a request     *)
(* before it touches the agenda; the model starts after them.  Past slots  *)
(* can be booked (no handler compares the date with the clock).            *)
(***************************************************************************)
EXTENDS Naturals, FiniteSets

CONSTANTS
  Professional,   \* professional profiles
  Appt,           \* rows the Appointment table may come to hold
  Block,          \* rows the ProfessionalTimesBlock table may hold at a time
  Req,            \* HTTP requests that may be in flight at the same time
  Horizon,        \* last instant of the time scale
  DayLength,      \* length of a day on that scale
  Duration,       \* durations the catalogue offers
  None            \* no row, no professional

ASSUME HorizonAssumption == Horizon \in Nat
ASSUME DayAssumption == DayLength \in Nat \ {0}
ASSUME DurationAssumption == Duration \subseteq Nat \ {0}
ASSUME SortAssumption == /\ None \notin Professional \cup Appt \cup Block
                         /\ Appt \cap Block = {}
ASSUME TableAssumption == IsFiniteSet(Block)

Instant == 0 .. Horizon
Interval == {i \in [start : Instant, end : Instant] : i.start < i.end}
Slot == {i \in Interval : i.end - i.start \in Duration}

Status == {"PENDING", "CONFIRMED", "CANCELED", "COMPLETED"}
Active == {"PENDING", "CONFIRMED"}

\* The predicate of every conflict query: start_db < end_new, end_db > start_new.
Overlaps(i, j) == i.start < j.end /\ i.end > j.start

-----------------------------------------------------------------------------
VARIABLES
  appt,        \* the Appointment table; status "NONE" is a row not yet created
  block,       \* the ProfessionalTimesBlock table; prof None is no row
  req,         \* what each in-flight request has read so far
  concurrent,  \* history: pairs of rows placed by requests that overlapped in time
  unguarded    \* history: appointments last placed without a check of their slot

vars == <<appt, block, req, concurrent, unguarded>>

ApptRow == [status : Status \cup {"NONE"}, prof : Professional \cup {None},
            start : Instant, end : Instant]
BlockRow == [prof : Professional \cup {None}, allDay : BOOLEAN,
             start : Instant, end : Instant]

NoApptRow == [status |-> "NONE", prof |-> None, start |-> 0, end |-> 0]
NoBlockRow == [prof |-> None, allDay |-> FALSE, start |-> 0, end |-> 0]

\* Operations whose commit puts something on an agenda.
Placing == {"create", "clientMove", "proMove", "confirm", "block"}
Moving == {"clientMove", "proMove"}

(***************************************************************************)
(* A request: op and pc say where its handler is; appt is the row it read, *)
(* prof the agenda it checks; want the intervals to place and pend those   *)
(* the current query has not covered; setProf whether the update writes    *)
(* the professional; ids the blocks to delete.  Three history fields:      *)
(* blind, rows placed by others since the request began; stale, its row    *)
(* was canceled since it read it; reopens, it read a COMPLETED row.        *)
(***************************************************************************)
Idle == [op |-> "idle", pc |-> "idle", appt |-> None, prof |-> None,
         want |-> {}, pend |-> {}, setProf |-> FALSE, allDay |-> FALSE,
         ids |-> {}, blind |-> {}, stale |-> FALSE, reopens |-> FALSE]

Request == [op : Placing \cup {"idle", "cancel", "unblock"},
            pc : {"idle", "appts", "blocks", "run", "write"},
            appt : Appt \cup {None}, prof : Professional \cup {None},
            want : SUBSET Interval, pend : SUBSET Interval,
            setProf : BOOLEAN, allDay : BOOLEAN, ids : SUBSET Block,
            blind : SUBSET (Appt \cup Block), stale : BOOLEAN,
            reopens : BOOLEAN]

TypeOK == /\ appt \in [Appt -> ApptRow]
          /\ block \in [Block -> BlockRow]
          /\ req \in [Req -> Request]
          /\ concurrent \subseteq SUBSET (Appt \cup Block)
          /\ unguarded \subseteq Appt

Init == /\ appt = [a \in Appt |-> NoApptRow]
        /\ block = [b \in Block |-> NoBlockRow]
        /\ req = [r \in Req |-> Idle]
        /\ concurrent = {}
        /\ unguarded = {}

-----------------------------------------------------------------------------
(* Requests arrive and read the row they work on.                          *)

Begin(r, q) == /\ req[r] = Idle
               /\ req' = [req EXCEPT ![r] = q]
               /\ UNCHANGED <<appt, block, concurrent, unguarded>>

Exists(a) == appt[a].status # "NONE"

\* Book slot i with professional p: the catalogue checks have passed.
Booking(p, i) == [Idle EXCEPT !.op = "create", !.pc = "appts", !.prof = p,
                              !.want = {i}, !.pend = {i}]

ClientCreate(r) ==
  \E p \in Professional, i \in Slot : Begin(r, Booking(p, i))

ProfessionalCreate(r) ==
  \E p \in Professional, i \in Slot : Begin(r, Booking(p, i))

\* Whatever its status, the client may move his appointment, change the
\* service (so the duration), and change the professional or leave him out.
ClientReschedule(r) ==
  \E a \in {x \in Appt : Exists(x)}, i \in Slot :
    \/ Begin(r, [Idle EXCEPT !.op = "clientMove", !.pc = "appts", !.appt = a,
                   !.prof = appt[a].prof, !.want = {i}, !.pend = {i}])
    \/ \E p \in Professional :
         Begin(r, [Idle EXCEPT !.op = "clientMove", !.pc = "appts", !.appt = a,
                     !.prof = p, !.setProf = TRUE, !.want = {i}, !.pend = {i}])

\* The professional moves a PENDING or CONFIRMED appointment, same duration.
ProfessionalReschedule(r) ==
  \E a \in Appt, i \in Interval :
    /\ appt[a].status \in Active
    /\ i.end - i.start = appt[a].end - appt[a].start
    /\ Begin(r, [Idle EXCEPT !.op = "proMove", !.pc = "appts", !.appt = a,
                   !.prof = appt[a].prof, !.want = {i}, !.pend = {i}])

\* Mutant: a canceled appointment may be confirmed too.
ClientConfirmAnyway(r) ==
  \E a \in Appt : /\ appt[a].status \in {"PENDING", "CANCELED", "COMPLETED"}
                  /\ Begin(r, [Idle EXCEPT !.op = "confirm", !.pc = "write", !.appt = a])

\* The client may confirm anything but a CANCELED or CONFIRMED appointment.
ClientConfirm(r) ==
  \E a \in Appt :
    /\ appt[a].status \in {"PENDING", "COMPLETED"}
    /\ Begin(r, [Idle EXCEPT !.op = "confirm", !.pc = "write", !.appt = a,
                   !.reopens = (appt[a].status = "COMPLETED")])

ProfessionalConfirm(r) ==
  \E a \in Appt :
    /\ appt[a].status = "PENDING"
    /\ Begin(r, [Idle EXCEPT !.op = "confirm", !.pc = "write", !.appt = a])

Cancellation(a) == [Idle EXCEPT !.op = "cancel", !.pc = "write", !.appt = a]

\* A canceled appointment is a no-op for the client, an error for the
\* professional; a COMPLETED one can be canceled by both.
ClientCancel(r) ==
  \E a \in Appt : /\ appt[a].status \notin {"NONE", "CANCELED"}
                  /\ Begin(r, Cancellation(a))

ProfessionalCancel(r) ==
  \E a \in Appt : /\ appt[a].status \notin {"NONE", "CANCELED"}
                  /\ Begin(r, Cancellation(a))

\* Mutant: the last day is taken for exclusive.
PlanOneDayMore(first, last, s, e) ==
  {[start |-> DayLength * d + s, end |-> DayLength * d + e] : d \in first .. last + 1}

\* getIntervals: the same hours on every day of the range, or whole days.  An
\* hour block ends before midnight (HH:mm), so it is never a whole day.
Plan(first, last, s, e) ==
  {[start |-> DayLength * d + s, end |-> DayLength * d + e] : d \in first .. last}

BlockTimes(r) ==
  \E p \in Professional, first, last \in Instant, s, e \in 0 .. DayLength :
    LET whole == s = 0 /\ e = DayLength
        plan == Plan(first, last, s, e)
    IN  /\ first <= last
        /\ DayLength * (last + 1) <= Horizon
        /\ s < e
        /\ whole \/ e < DayLength
        /\ Begin(r, [Idle EXCEPT !.op = "block", !.pc = "appts", !.prof = p,
                       !.want = plan, !.pend = plan, !.allDay = whole])

\* An hour block is deleted alone; for an all-day one the run it belongs to
\* is looked up first.
DeleteBlockedTime(r) ==
  \E b \in Block :
    /\ block[b].prof # None
    /\ Begin(r, [Idle EXCEPT !.op = "unblock", !.ids = {b},
                   !.prof = block[b].prof,
                   !.pc = IF block[b].allDay THEN "run" ELSE "write"])

-----------------------------------------------------------------------------
(* The checks: one query per interval, in the order of the days.           *)

Step(r, q) == req' = [req EXCEPT ![r] = q]
Drop(r) == Step(r, Idle)

Earliest(S) == {i \in S : \A j \in S : i.start <= j.start}

\* Mutant: the status filter forgets PENDING.
ClashingConfirmed(r, i) == {a \in Appt \ {req[r].appt} : /\ appt[a].status = "CONFIRMED"
                                                        /\ appt[a].prof = req[r].prof
                                                        /\ Overlaps(appt[a], i)}
\* Active appointments on the agenda r checks, other than its own, over i.
Clashing(r, i) == {a \in Appt \ {req[r].appt} : /\ appt[a].status \in Active
                                               /\ appt[a].prof = req[r].prof
                                               /\ Overlaps(appt[a], i)}

\* Mutant: only blocks that began earlier are looked for.
BlockingEarlier(r, i) == {b \in Block : /\ block[b].prof = req[r].prof
                                        /\ block[b].start < i.start
                                        /\ Overlaps(block[b], i)}
Blocking(r, i) == {b \in Block : /\ block[b].prof = req[r].prof
                                 /\ block[b].prof # None
                                 /\ Overlaps(block[b], i)}

\* Mutant: only the first day of a plan is compared with the appointments.
CheckApptsFirstDay(r) ==
  /\ req[r].pc = "appts"
  /\ \E i \in Earliest(req[r].pend) :
       /\ Clashing(r, i) = {}
       /\ Step(r, [req[r] EXCEPT !.pend = req[r].want, !.pc = "blocks"])
  /\ UNCHANGED <<appt, block, concurrent, unguarded>>

CheckAppts(r) ==
  /\ req[r].pc = "appts"
  /\ \E i \in Earliest(req[r].pend) :
       LET rest == req[r].pend \ {i}
       IN  \/ /\ Clashing(r, i) # {}
              /\ Drop(r)
           \/ /\ Clashing(r, i) = {}
              /\ rest # {}
              /\ Step(r, [req[r] EXCEPT !.pend = rest])
           \/ /\ Clashing(r, i) = {}
              /\ rest = {}
              /\ Step(r, [req[r] EXCEPT !.pend = req[r].want, !.pc = "blocks"])
  /\ UNCHANGED <<appt, block, concurrent, unguarded>>

CheckBlocks(r) ==
  /\ req[r].pc = "blocks"
  /\ \E i \in Earliest(req[r].pend) :
       LET rest == req[r].pend \ {i}
       IN  \/ /\ Blocking(r, i) # {}
              /\ Drop(r)
           \/ /\ Blocking(r, i) = {}
              /\ rest # {}
              /\ Step(r, [req[r] EXCEPT !.pend = rest])
           \/ /\ Blocking(r, i) = {}
              /\ rest = {}
              /\ Step(r, [req[r] EXCEPT !.pend = {}, !.pc = "write"])
  /\ UNCHANGED <<appt, block, concurrent, unguarded>>

\* The ways the database may order rows by start (it breaks ties as it likes).
ByStart(S) == {f \in [1 .. Cardinality(S) -> S] :
                 \A m, n \in DOMAIN f :
                   m < n => f[m] # f[n] /\ block[f[m]].start <= block[f[n]].start}

\* Mutant: the run is followed back in time only.
RunBefore(f, n) ==
  {f[m] : m \in {k \in 1 .. n : \A j \in k .. n - 1 : block[f[j]].end = block[f[j + 1]].start}}

\* Rows of the list f joined to its n-th by rows that each start where the
\* row before it ends.
RunAround(f, n) ==
  {f[m] : m \in {k \in DOMAIN f :
     \A j \in DOMAIN f : (k <= j /\ j < n) \/ (n <= j /\ j < k)
                           => block[f[j]].end = block[f[j + 1]].start}}

FindRun(r) ==
  /\ req[r].pc = "run"
  /\ LET whole == {b \in Block : block[b].prof = req[r].prof /\ block[b].allDay}
     IN  \/ /\ req[r].ids \cap whole = {}
            /\ Drop(r)
         \/ \E f \in ByStart(whole) : \E n \in DOMAIN f :
              /\ f[n] \in req[r].ids
              /\ Step(r, [req[r] EXCEPT !.ids = RunAround(f, n), !.pc = "write"])
  /\ UNCHANGED <<appt, block, concurrent, unguarded>>

-----------------------------------------------------------------------------
(* The writes: one transaction each.                                       *)

Writes(r, op) == req[r].pc = "write" /\ req[r].op = op

\* r ends; the rows S it placed are news to the others still in flight.
Placed(r, S) ==
  req' = [q \in Req |-> IF q = r THEN Idle
                        ELSE IF req[q].op \in Placing \cup {"unblock"}
                             THEN [req[q] EXCEPT !.blind = @ \cup S]
                             ELSE req[q]]

PairsOf(r, S) == {{x, y} : x \in S, y \in req[r].blind \ S}
Untouched(S) == {c \in concurrent : c \cap S = {}}

CommitCreate(r) ==
  /\ Writes(r, "create")
  /\ \E a \in Appt, i \in req[r].want :
       /\ appt[a] = NoApptRow
       /\ appt' = [appt EXCEPT ![a] = [status |-> "PENDING", prof |-> req[r].prof,
                                       start |-> i.start, end |-> i.end]]
       /\ Placed(r, {a})
       /\ concurrent' = Untouched({a}) \cup PairsOf(r, {a})
  /\ UNCHANGED <<block, unguarded>>

\* Moves its row to i; the professional's move also puts it back to PENDING.
Moved(r, i) ==
  LET row == appt[req[r].appt]
  IN  [status |-> IF req[r].op = "proMove" THEN "PENDING" ELSE row.status,
       prof |-> IF req[r].setProf THEN req[r].prof ELSE row.prof,
       start |-> i.start, end |-> i.end]

CommitMove(r) ==
  /\ Writes(r, "clientMove") \/ Writes(r, "proMove")
  /\ \E i \in req[r].want :
       LET a == req[r].appt
       IN  /\ appt' = [appt EXCEPT ![a] = Moved(r, i)]
           /\ Placed(r, {a})
           /\ concurrent' = Untouched({a}) \cup PairsOf(r, {a})
           /\ unguarded' = IF Moved(r, i).prof = req[r].prof
                           THEN unguarded \ {a} ELSE unguarded \cup {a}
  /\ UNCHANGED block

\* Writes CONFIRMED whatever the status is by now: on a row that left the
\* agenda this places it again, without a check.
CommitConfirm(r) ==
  /\ Writes(r, "confirm")
  /\ LET a == req[r].appt
     IN  /\ appt' = [appt EXCEPT ![a].status = "CONFIRMED"]
         /\ \/ /\ appt[a].status \in Active
               /\ Drop(r)
               /\ UNCHANGED <<concurrent, unguarded>>
            \/ /\ appt[a].status \notin Active
               /\ Placed(r, {a})
               /\ concurrent' = concurrent \cup PairsOf(r, {a})
               /\ unguarded' = IF req[r].reopens THEN unguarded \cup {a}
                               ELSE unguarded
  /\ UNCHANGED block

CommitCancel(r) ==
  /\ Writes(r, "cancel")
  /\ appt' = [appt EXCEPT ![req[r].appt].status = "CANCELED"]
  /\ req' = [q \in Req |->
               IF q = r THEN Idle
               ELSE IF req[q].appt = req[r].appt /\ req[q].op \in {"confirm", "proMove"}
                    THEN [req[q] EXCEPT !.stale = TRUE]
                    ELSE req[q]]
  /\ UNCHANGED <<block, concurrent, unguarded>>

\* Row ids are fresh: not in the table, not held by a request deleting them,
\* not remembered from a race.
FreeBlocks == {b \in Block : /\ block[b] = NoBlockRow
                             /\ \A q \in Req : b \notin req[q].ids
                             /\ \A c \in concurrent : b \notin c}

CommitBlock(r) ==
  /\ Writes(r, "block")
  /\ \E f \in [req[r].want -> FreeBlocks] :
       LET S == {f[i] : i \in req[r].want}
       IN  /\ \A i, j \in req[r].want : f[i] = f[j] => i = j
           /\ block' = [b \in Block |->
                 IF b \in S
                 THEN LET i == CHOOSE k \in req[r].want : f[k] = b
                      IN  [prof |-> req[r].prof, allDay |-> req[r].allDay,
                           start |-> i.start, end |-> i.end]
                 ELSE block[b]]
           /\ Placed(r, S)
           /\ concurrent' = Untouched(S) \cup PairsOf(r, S)
  /\ UNCHANGED <<appt, unguarded>>

CommitUnblock(r) ==
  /\ Writes(r, "unblock")
  /\ block' = [b \in Block |-> IF b \in req[r].ids THEN NoBlockRow ELSE block[b]]
  /\ Drop(r)
  /\ UNCHANGED <<appt, concurrent, unguarded>>

\* The process stops, or the database fails, before the write.
Abort(r) ==
  /\ req[r] # Idle
  /\ Drop(r)
  /\ UNCHANGED <<appt, block, concurrent, unguarded>>

-----------------------------------------------------------------------------
\* The scheduler completes the active appointments that have ended, in one
\* transaction; its own reads are modelled in Closing.
CloseDue ==
  /\ \E S \in SUBSET {a \in Appt : appt[a].status \in Active} :
       /\ S # {}
       /\ appt' = [a \in Appt |-> IF a \in S
                                  THEN [appt[a] EXCEPT !.status = "COMPLETED"]
                                  ELSE appt[a]]
  /\ UNCHANGED <<block, req, concurrent, unguarded>>

Next == \/ \E r \in Req :
             \/ ClientCreate(r) \/ ProfessionalCreate(r)
             \/ ClientReschedule(r) \/ ProfessionalReschedule(r)
             \/ ClientConfirm(r) \/ ProfessionalConfirm(r)
             \/ ClientCancel(r) \/ ProfessionalCancel(r)
             \/ BlockTimes(r) \/ DeleteBlockedTime(r)
             \/ CheckAppts(r) \/ CheckBlocks(r) \/ FindRun(r)
             \/ CommitCreate(r) \/ CommitMove(r) \/ CommitConfirm(r)
             \/ CommitCancel(r) \/ CommitBlock(r) \/ CommitUnblock(r)
             \/ Abort(r)
        \/ CloseDue

Spec == Init /\ [][Next]_vars

-----------------------------------------------------------------------------
(* What the missing lock costs, and no more.                               *)

Live(a) == appt[a].status \in Active
Stands(b) == block[b].prof # None

\* Two active appointments of a professional overlap only if the requests
\* that placed them overlapped in time, or one of them was put on that agenda
\* by a write that no check of its slot preceded: the check of every booking
\* and move is complete, only its distance from the write is not safe.
OverlapOnlyConcurrent ==
  \A a, b \in Appt :
    a # b /\ Live(a) /\ Live(b) /\ appt[a].prof = appt[b].prof
      /\ Overlaps(appt[a], appt[b])
    => {a, b} \in concurrent \/ a \in unguarded \/ b \in unguarded

\* The same between an active appointment and a blocked time: bookings look
\* for blocks and blocks look for bookings.
BlockedOnlyConcurrent ==
  \A a \in Appt, b \in Block :
    Live(a) /\ Stands(b) /\ appt[a].prof = block[b].prof
      /\ Overlaps(appt[a], block[b])
    => {a, b} \in concurrent \/ a \in unguarded

\* Two blocked times of a professional overlap only if the two block-times
\* requests did.
BlocksOverlapOnlyConcurrent ==
  \A a, b \in Block :
    a # b /\ Stands(a) /\ block[a].prof = block[b].prof
      /\ Overlaps(block[a], block[b])
    => {a, b} \in concurrent

\* A canceled appointment comes back only by the write of a request that read
\* it before the cancellation: no sequence of complete requests revives it.
CancelIsFinal ==
  [][\A a \in Appt :
       appt[a].status = "CANCELED" /\ appt'[a].status # "CANCELED"
       => \E r \in Req : req[r].appt = a /\ req[r].stale /\ req'[r] = Idle]_vars

\* Deleting a day of an all-day block deletes the whole run of days it belongs
\* to: a neighbour that survives was placed after the request began, or two
\* racing block-times requests had put two rows on the same day.
UnblockTakesRun ==
  [][\A r \in Req : \A d \in req[r].ids, c \in Block \ req[r].ids :
       /\ req'[r] = Idle
       /\ block[d].allDay /\ block'[d] = NoBlockRow
       /\ block[c].allDay /\ block[c].prof = block[d].prof
       /\ block[c].end = block[d].start \/ block[d].end = block[c].start
       => \/ c \in req[r].blind
          \/ \E e \in Block : {c, e} \in concurrent \/ {d, e} \in concurrent]_vars

-----------------------------------------------------------------------------
(* What the code says of itself, and does not keep.                        *)

\* "Checagem de conflito por SOBREPOSICAO no mesmo profissional": a
\* professional never has two overlapping active appointments.
NoDoubleBooking ==
  \A a, b \in Appt :
    a # b /\ Live(a) /\ Live(b) /\ appt[a].prof = appt[b].prof
    => ~ Overlaps(appt[a], appt[b])

=============================================================================
