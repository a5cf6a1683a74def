------------------------------ MODULE Closing ------------------------------
(***************************************************************************)
(* The scheduler's close-due job: it turns the active appointments that    *)
(* have ended into COMPLETED ones and writes one INCOME row per            *)
(* appointment to the professional's statement.                            *)
(*                                                                         *)
(* The cron holds the lock lock:close-due only while it publishes a        *)
(* message, so the lock does not keep two handlers apart: every scheduler  *)
(* instance consumes the queue, and a message whose consumer dies before   *)
(* the acknowledgement is delivered again.  A handler reads the due rows   *)
(* page by page with a cursor and writes each page in one transaction; the *)
(* api-gateway writes the same rows in between (module Agenda has the      *)
(* detail of those handlers, here each is one step).                       *)
(***************************************************************************)
EXTENDS Naturals, FiniteSets

CONSTANTS
  Appt,          \* appointment ids: numbers, their order breaks ties between ends
  Professional,  \* professional profiles
  Worker,        \* scheduler instances that consume the queue
  Horizon,       \* last instant of the clock
  Grace,         \* GRACE_MIN
  Batch,         \* BATCH, the size of a page
  MaxQueue,      \* bound: messages the crons leave in the queue
  MaxWrites,     \* bound: writes of the api-gateway
  None           \* no professional, no cursor

ASSUME ApptAssumption == Appt \subseteq Nat /\ IsFiniteSet(Appt)
ASSUME NumberAssumption == /\ Horizon \in Nat /\ Grace \in Nat /\ Batch \in Nat \ {0}
                           /\ MaxQueue \in Nat /\ MaxWrites \in Nat
ASSUME NoneAssumption == None \notin Appt \cup Professional

Instant == 0 .. Horizon
Status == {"PENDING", "CONFIRMED", "CANCELED", "COMPLETED"}
Active == {"PENDING", "CONFIRMED"}

VARIABLES
  now,        \* the clock of the database and of the workers
  appt,       \* the Appointment table; status "NONE" is a row not yet created
  income,     \* INCOME rows of ProfessionalStatement, per appointment and
              \* professional, counted up to two
  queue,      \* messages waiting in close_due_appointments_queue
  run,        \* the handler each worker executes
  writes,     \* writes of the api-gateway so far
  raced,      \* history: rows of a page somebody wrote between read and write
  rewritten   \* history: rows the api-gateway wrote when they were COMPLETED

vars == <<now, appt, income, queue, run, writes, raced, rewritten>>

Row == [status : Status \cup {"NONE"}, prof : Professional \cup {None}, end : Instant]
NoRow == [status |-> "NONE", prof |-> None, end |-> 0]

(***************************************************************************)
(* A handler: at is when it computed its cutoff, cursor the last row of    *)
(* the page before, rows the page and prof the professionals read with it. *)
(* History: dirty, what others wrote since the page was read; seen and     *)
(* news, what it read and what others wrote since it began; full, how many *)
(* full pages it has written.                                              *)
(***************************************************************************)
NoProf == [a \in Appt |-> None]
Idle == [pc |-> "idle", at |-> 0, cursor |-> None, rows |-> {}, prof |-> NoProf,
         dirty |-> {}, seen |-> {}, news |-> {}, full |-> 0]

Run == [pc : {"idle", "read", "write", "ack"}, at : Instant,
        cursor : Appt \cup {None}, rows : SUBSET Appt,
        prof : [Appt -> Professional \cup {None}],
        dirty : SUBSET Appt, seen : SUBSET Appt, news : SUBSET Appt, full : Nat]

TypeOK == /\ now \in Instant
          /\ appt \in [Appt -> Row]
          /\ income \in [Appt -> [Professional -> 0 .. 2]]
          /\ queue \in Nat
          /\ run \in [Worker -> Run]
          /\ writes \in 0 .. MaxWrites
          /\ raced \subseteq Appt
          /\ rewritten \subseteq Appt

Booked == [status : {"PENDING"}, prof : Professional, end : Instant]

Init == /\ now = 0
        /\ appt \in [Appt -> Booked \cup {NoRow}]
        /\ income = [a \in Appt |-> [p \in Professional |-> 0]]
        /\ queue = 0
        /\ run = [w \in Worker |-> Idle]
        /\ writes = 0
        /\ raced = {}
        /\ rewritten = {}

-----------------------------------------------------------------------------
(* The job.                                                                *)

\* Ended by the cutoff of a handler that began at t.
Ended(a, t) == appt[a].end + Grace < t
\* Mutants: only confirmed appointments are closed; closed ones are read again.
DueConfirmed(a, t) == appt[a].status = "CONFIRMED" /\ Ended(a, t)
DueTwice(a, t) == appt[a].status \in Active \cup {"COMPLETED"} /\ Ended(a, t)
Due(a, t) == appt[a].status \in Active /\ Ended(a, t)

\* orderBy end_at_utc; the library breaks ties by id.
Before(a, b) == \/ appt[a].end < appt[b].end
                \/ appt[a].end = appt[b].end /\ a < b

\* What findMany returns: the due rows from the position of the cursor on,
\* whether or not the cursor row itself still matches the filter; skip 1 then
\* drops the first row found, take keeps Batch of the others.
Page(w) ==
  LET from == run[w].cursor
      found == {a \in Appt : /\ Due(a, run[w].at)
                             /\ from # None => ~ Before(a, from)}
      position(a) == Cardinality({b \in found : Before(b, a)})
      skip == IF from = None THEN 0 ELSE 1
  IN  {a \in found : skip <= position(a) /\ position(a) < skip + Batch}

\* Others learn that the rows S changed.
Tell(r, S) == IF r.pc = "idle" THEN r
              ELSE [r EXCEPT !.dirty = @ \cup (S \cap r.rows), !.news = @ \cup S]

\* Every five minutes, if no other instance is publishing at this moment; an
\* error of the broker is swallowed, and then nothing is published.
Cron == /\ queue < MaxQueue
        /\ queue' = queue + 1
        /\ UNCHANGED <<now, appt, income, run, writes, raced, rewritten>>

Deliver(w) ==
  /\ run[w].pc = "idle"
  /\ queue > 0
  /\ queue' = queue - 1
  /\ run' = [run EXCEPT ![w] = [Idle EXCEPT !.pc = "read", !.at = now]]
  /\ UNCHANGED <<now, appt, income, writes, raced, rewritten>>

ReadPage(w) ==
  /\ run[w].pc = "read"
  /\ LET page == Page(w)
         read == [run[w] EXCEPT !.pc = "write", !.rows = page, !.dirty = {},
                    !.seen = run[w].seen \cup page,
                    !.prof = [a \in Appt |-> IF a \in page THEN appt[a].prof ELSE None]]
     IN  run' = [run EXCEPT ![w] = IF page = {} THEN [run[w] EXCEPT !.pc = "ack"]
                                   ELSE read]
  /\ UNCHANGED <<now, appt, income, queue, writes, raced, rewritten>>

\* The rows updateMany takes: its filter looks at the rows again.
Taken(w) == {a \in run[w].rows : Due(a, run[w].at)}
AddOne(n) == IF n < 2 THEN n + 1 ELSE n

\* Mutant: only confirmed appointments are paid.
CreditedConfirmed(w) ==
  [a \in Appt |-> [p \in Professional |->
     IF /\ a \in run[w].rows /\ run[w].prof[a] = p
        /\ appt[a].status = "CONFIRMED"
     THEN AddOne(income[a][p]) ELSE income[a][p]]]

\* One INCOME row for every row of the page, to the professional read with it.
Credited(w) ==
  [a \in Appt |-> [p \in Professional |->
     IF a \in run[w].rows /\ run[w].prof[a] = p THEN AddOne(income[a][p])
     ELSE income[a][p]]]

Last(S) == {a \in S : \A b \in S : ~ Before(a, b)}

\* Mutant: the loop stops after a full page.
OverFull(w) == Cardinality(run[w].rows) > Batch

\* The loop goes on after a full page.
Full(w) == Cardinality(run[w].rows) >= Batch

\* The transaction of a page, and where the loop goes next.
WritePage(w) ==
  /\ run[w].pc = "write"
  /\ appt' = [a \in Appt |-> IF a \in Taken(w)
                             THEN [appt[a] EXCEPT !.status = "COMPLETED"] ELSE appt[a]]
  /\ income' = Credited(w)
  /\ raced' = raced \cup run[w].dirty
  /\ \E last \in Last(run[w].rows) : run' = [v \in Worker |->
       IF v # w THEN Tell(run[v], Taken(w))
       ELSE [run[w] EXCEPT !.pc = IF Full(w) THEN "read" ELSE "ack",
                           !.full = IF Full(w) THEN run[w].full + 1 ELSE run[w].full,
                           !.cursor = last,
                           !.rows = {}, !.prof = NoProf, !.dirty = {}]]
  /\ UNCHANGED <<now, queue, writes, rewritten>>

\* A query fails: the error is logged and the message acknowledged.
Fail(w) ==
  /\ run[w].pc \in {"read", "write"}
  /\ run' = [run EXCEPT ![w] = Idle]
  /\ UNCHANGED <<now, appt, income, queue, writes, raced, rewritten>>

Ack(w) ==
  /\ run[w].pc = "ack"
  /\ run' = [run EXCEPT ![w] = Idle]
  /\ UNCHANGED <<now, appt, income, queue, writes, raced, rewritten>>

\* The instance dies before the acknowledgement: the message is delivered again.
Crash(w) ==
  /\ run[w].pc # "idle"
  /\ run' = [run EXCEPT ![w] = Idle]
  /\ queue' = queue + 1
  /\ UNCHANGED <<now, appt, income, writes, raced, rewritten>>

Tick == /\ now < Horizon
        /\ now' = now + 1
        /\ UNCHANGED <<appt, income, queue, run, writes, raced, rewritten>>

-----------------------------------------------------------------------------
(* The writes of the api-gateway.                                          *)

Writes(a, row) ==
  /\ writes < MaxWrites
  /\ writes' = writes + 1
  /\ appt' = [appt EXCEPT ![a] = row]
  /\ run' = [w \in Worker |-> Tell(run[w], {a})]
  /\ rewritten' = IF appt[a].status = "COMPLETED" THEN rewritten \cup {a} ELSE rewritten
  /\ UNCHANGED <<now, income, queue, raced>>

\* Slots that have already ended can be booked.
Book(a) == /\ appt[a] = NoRow
           /\ \E row \in Booked : Writes(a, row)

\* The client's confirmation accepts a COMPLETED row, and any confirmation may
\* have read the row before it was canceled or closed.
Confirm(a) == /\ appt[a].status \in Status \ {"CONFIRMED"}
              /\ Writes(a, [appt[a] EXCEPT !.status = "CONFIRMED"])

Cancel(a) == /\ appt[a].status \in Status \ {"CANCELED"}
             /\ Writes(a, [appt[a] EXCEPT !.status = "CANCELED"])

\* The client moves any row and may change the professional.
ClientMove(a) ==
  /\ appt[a].status \in Status
  /\ \E p \in Professional, e \in Instant :
       Writes(a, [appt[a] EXCEPT !.prof = p, !.end = e])

\* The professional's move puts the row back to PENDING, whatever it became
\* after it was read.
ProMove(a) ==
  /\ appt[a].status \in Status
  /\ \E e \in Instant : Writes(a, [appt[a] EXCEPT !.status = "PENDING", !.end = e])

Next == \/ Cron \/ Tick
        \/ \E w \in Worker : \/ Deliver(w) \/ ReadPage(w) \/ WritePage(w)
                             \/ Fail(w) \/ Ack(w) \/ Crash(w)
        \/ \E a \in Appt : Book(a) \/ Confirm(a) \/ Cancel(a) \/ ClientMove(a) \/ ProMove(a)

Spec == Init /\ [][Next]_vars

\* The clock and the crons go on, messages are consumed, and a query tried
\* again and again succeeds in the end between two failures or crashes.
Fairness == /\ WF_vars(Tick) /\ WF_vars(Cron)
            /\ WF_vars(\E w \in Worker : Deliver(w) \/ Ack(w))
            /\ SF_vars(\E w \in Worker : ReadPage(w))
            /\ SF_vars(\E w \in Worker : WritePage(w))

FairSpec == Spec /\ Fairness

-----------------------------------------------------------------------------
Paid(a, p) == income[a][p] > 0
Once(a) == [p \in Professional |-> IF p = appt[a].prof THEN 1 ELSE 0]
Nothing == [p \in Professional |-> 0]

\* A completed appointment is on a statement: the status and the INCOME row are
\* written by the same transaction, so no failure or crash separates them.
CompletedIsPaid ==
  \A a \in Appt : appt[a].status = "COMPLETED" => \E p \in Professional : Paid(a, p)

\* The statement is exact, one INCOME row to the right professional for a
\* completed appointment and none for another, except for the rows that were
\* written between a handler's read and its transaction (by the api-gateway or
\* by a second handler) and those the api-gateway wrote after their completion.
\* Redelivered messages and repeated runs alone never pay twice.
ExactlyOneIncome ==
  \A a \in Appt \ (raced \cup rewritten) :
    income[a] = IF appt[a].status = "COMPLETED" THEN Once(a) ELSE Nothing

\* A page boundary costs at most one appointment: the cursor row no longer
\* matches the filter, so skip 1 drops a row that nobody has read.  A handler
\* that reached its end leaves at most one due row per full page, whatever the
\* others do to rows it does not read.
FewLeftBehind ==
  \A w \in Worker :
    run[w].pc = "ack" /\ run[w].seen \cap run[w].news = {}
    => Cardinality({a \in Appt \ run[w].news : Due(a, run[w].at)}) <= run[w].full

\* An appointment that has ended does not stay active: the rows a handler
\* leaves behind are taken by a later one.
DueIsClosed ==
  \A a \in Appt : /\ appt[a].status \in Active
                   /\ appt[a].end + Grace < now
                  ~> \/ appt[a].status \notin Active
                     \/ appt[a].end + Grace >= now

=============================================================================
