--------------------------- MODULE Closing_proofs ---------------------------
(***************************************************************************)
(* Proofs about Closing.  The invariants speak of raced and rewritten rows *)
(* only, so the inductive invariant adds what a handler knows: a row of    *)
(* its page that nobody wrote since is still due and still belongs to the  *)
(* professional who was read with it.  For the rows left behind it counts  *)
(* the rows found before the cursor and behind it.                         *)
(***************************************************************************)
EXTENDS Closing, FiniteSetTheorems, TLAPS

\* A page is held only between its read and its write.
PageShape(w) == /\ run[w].pc # "write" => run[w].rows = {}
                /\ run[w].dirty \subseteq run[w].rows
                /\ \A a \in run[w].rows : run[w].prof[a] \in Professional

\* What nobody wrote since the page was read is as it was read.
PageFresh(w) == \A a \in run[w].rows \ run[w].dirty :
                  /\ Due(a, run[w].at)
                  /\ appt[a].prof = run[w].prof[a]

\* A row that exists belongs to a professional.
RowsOwned == \A a \in Appt : appt[a].status # "NONE" => appt[a].prof \in Professional

IInv == /\ TypeOK
        /\ RowsOwned
        /\ \A w \in Worker : PageShape(w) /\ PageFresh(w)
        /\ CompletedIsPaid
        /\ ExactlyOneIncome

LEMMA IdleRun == Idle \in Run /\ Idle.pc = "idle" /\ Idle.rows = {} /\ Idle.dirty = {}
BY NumberAssumption DEF Idle, Run, NoProf, Instant

\* The job starts with nothing read, so nothing it remembers can be wrong.
THEOREM InitInv == Init => IInv
<1> SUFFICES ASSUME Init PROVE IInv
  OBVIOUS
<1>1. TypeOK
  <2>1. NoRow \in Row /\ Booked \subseteq Row
    BY NumberAssumption DEF NoRow, Row, Booked, Instant, Status
  <2>2. \A w \in Worker : run[w] \in Run
    BY IdleRun DEF Init
  <2> QED BY <2>1, <2>2, NumberAssumption DEF Init, TypeOK, Instant
<1>2. RowsOwned
  BY DEF Init, RowsOwned, Booked, NoRow
<1>3. \A w \in Worker : PageShape(w) /\ PageFresh(w)
  BY IdleRun DEF Init, PageShape, PageFresh
<1>4. \A a \in Appt : appt[a].status # "COMPLETED"
  BY DEF Init, Booked, NoRow
<1>5. CompletedIsPaid
  BY <1>4 DEF CompletedIsPaid
<1>6. ExactlyOneIncome
  BY <1>4 DEF Init, ExactlyOneIncome, Nothing
<1> QED BY <1>1, <1>2, <1>3, <1>5, <1>6 DEF IInv

-----------------------------------------------------------------------------
(* Being told of a change.                                                 *)

LEMMA TellType ==
  ASSUME NEW r \in Run, NEW T \in SUBSET Appt
  PROVE  Tell(r, T) \in Run
BY DEF Tell, Run

\* The page stays what it was, and of its rows those in T are now dirty.
LEMMA TellPage ==
  ASSUME NEW r \in Run, NEW T \in SUBSET Appt, r.pc = "idle" => r.rows = {}
  PROVE  /\ Tell(r, T).pc = r.pc /\ Tell(r, T).at = r.at
         /\ Tell(r, T).rows = r.rows /\ Tell(r, T).prof = r.prof
         /\ Tell(r, T).dirty \subseteq r.dirty \cup r.rows
         /\ Tell(r, T).rows \ Tell(r, T).dirty = (r.rows \ r.dirty) \ T
BY DEF Tell, Run

\* A handler told of every row that changed keeps its two invariants.
LEMMA Told ==
  ASSUME TypeOK, NEW v \in Worker, PageShape(v), PageFresh(v),
         NEW T \in SUBSET Appt, run'[v] = Tell(run[v], T),
         \A a \in Appt \ T : appt'[a] = appt[a]
  PROVE  run'[v] \in Run /\ PageShape(v)' /\ PageFresh(v)'
<1>1. run[v] \in Run /\ (run[v].pc = "idle" => run[v].rows = {})
  BY DEF TypeOK, PageShape
<1>2. run'[v] \in Run
  BY <1>1, TellType
<1>3. /\ run'[v].pc = run[v].pc /\ run'[v].at = run[v].at
      /\ run'[v].rows = run[v].rows /\ run'[v].prof = run[v].prof
      /\ run'[v].dirty \subseteq run[v].dirty \cup run[v].rows
      /\ run'[v].rows \ run'[v].dirty = (run[v].rows \ run[v].dirty) \ T
  BY <1>1, TellPage
<1>4. PageShape(v)'
  BY <1>3 DEF PageShape
<1>5. PageFresh(v)'
  <2> SUFFICES ASSUME NEW a \in (run[v].rows \ run[v].dirty) \ T
               PROVE  Due(a, run[v].at)' /\ appt'[a].prof = run'[v].prof[a]
    BY <1>3 DEF PageFresh
  <2>1. a \in Appt /\ appt'[a] = appt[a]
    BY <1>1 DEF Run
  <2> QED BY <1>3, <2>1 DEF PageFresh, Due, Ended
<1> QED BY <1>2, <1>4, <1>5

\* A handler nobody touches keeps them as long as the table does not change.
LEMMA Untold ==
  ASSUME NEW v \in Worker, PageShape(v), PageFresh(v), run'[v] = run[v], appt' = appt
  PROVE  PageShape(v)' /\ PageFresh(v)'
BY DEF PageShape, PageFresh, Due, Ended

\* A handler without a page has nothing to keep.
LEMMA NoPage ==
  ASSUME NEW v \in Worker, run'[v].rows = {}, run'[v].dirty = {}
  PROVE  PageShape(v)' /\ PageFresh(v)'
BY DEF PageShape, PageFresh

-----------------------------------------------------------------------------
(* Steps that leave the tables alone.                                      *)

LEMMA SameTables ==
  ASSUME IInv, UNCHANGED <<appt, income, raced, rewritten>>
  PROVE  RowsOwned' /\ CompletedIsPaid' /\ ExactlyOneIncome'
BY DEF IInv, RowsOwned, CompletedIsPaid, ExactlyOneIncome, Paid, Once, Nothing

\* A step that puts worker w in the state q, which has no page.
LEMMA WorkerStep ==
  ASSUME IInv, NEW w \in Worker, NEW q \in Run, q.rows = {}, q.dirty = {},
         run' = [run EXCEPT ![w] = q], queue' \in Nat,
         UNCHANGED <<now, appt, income, writes, raced, rewritten>>
  PROVE  IInv'
<1>1. \A v \in Worker : run'[v] = IF v = w THEN q ELSE run[v]
  BY DEF IInv, TypeOK
<1>2. TypeOK'
  BY DEF IInv, TypeOK
<1>3. \A v \in Worker : PageShape(v)' /\ PageFresh(v)'
  BY <1>1, NoPage, Untold DEF IInv
<1> QED BY <1>2, <1>3, SameTables DEF IInv

LEMMA ClockStep ==
  ASSUME IInv, Cron \/ Tick PROVE IInv'
<1>1. TypeOK'
  BY NumberAssumption DEF IInv, TypeOK, Cron, Tick, Instant
<1>2. UNCHANGED <<appt, income, run, raced, rewritten>>
  BY DEF Cron, Tick
<1> QED BY <1>1, <1>2, Untold, SameTables DEF IInv

LEMMA DeliverStep ==
  ASSUME IInv, NEW w \in Worker, Deliver(w) PROVE IInv'
<1> DEFINE q == [Idle EXCEPT !.pc = "read", !.at = now]
<1>1. q \in Run /\ q.rows = {} /\ q.dirty = {}
  BY NumberAssumption DEF IInv, TypeOK, Idle, Run, NoProf, Instant
<1>2. queue' \in Nat
  BY DEF Deliver, IInv, TypeOK
<1> QED BY <1>1, <1>2, WorkerStep DEF Deliver

LEMMA EndStep ==
  ASSUME IInv, NEW w \in Worker, Fail(w) \/ Ack(w) \/ Crash(w) PROVE IInv'
<1>1. queue' \in Nat
  BY DEF Fail, Ack, Crash, IInv, TypeOK
<1> QED BY <1>1, IdleRun, WorkerStep DEF Fail, Ack, Crash

LEMMA ReadStep ==
  ASSUME IInv, NEW w \in Worker, ReadPage(w) PROVE IInv'
<1> DEFINE page == Page(w)
<1>1. run[w] \in Run /\ run[w].rows = {} /\ run[w].dirty = {} /\ queue \in Nat
  BY DEF IInv, TypeOK, PageShape, ReadPage
<1>2. CASE page = {}
  <2> DEFINE q == [run[w] EXCEPT !.pc = "ack"]
  <2>1. q \in Run /\ q.rows = {} /\ q.dirty = {}
    BY <1>1 DEF Run
  <2>2. run' = [run EXCEPT ![w] = q]
    BY <1>2 DEF ReadPage
  <2> QED BY <1>1, <2>1, <2>2, WorkerStep DEF ReadPage
<1>3. CASE page # {}
  <2> DEFINE prof == [a \in Appt |-> IF a \in page THEN appt[a].prof ELSE None]
             q == [run[w] EXCEPT !.pc = "write", !.rows = page, !.dirty = {},
                                 !.seen = run[w].seen \cup page, !.prof = prof]
  <2>1. page \subseteq Appt /\ \A a \in page : Due(a, run[w].at)
    BY DEF Page
  <2>2. run' = [run EXCEPT ![w] = q]
    BY <1>3 DEF ReadPage
  <2>3. \A a \in page : appt[a].prof \in Professional
    BY <2>1 DEF Due, Active, IInv, RowsOwned
  <2>4. prof \in [Appt -> Professional \cup {None}]
    BY <2>3
  <2>5. q \in Run
    BY <1>1, <2>1, <2>4 DEF Run
  <2>6. /\ q.pc = "write" /\ q.rows = page /\ q.dirty = {}
        /\ q.prof = prof /\ q.at = run[w].at
    BY <1>1 DEF Run
  <2>7. \A v \in Worker : run'[v] = IF v = w THEN q ELSE run[v]
    BY <2>2 DEF IInv, TypeOK
  <2>8. UNCHANGED <<now, appt, income, queue, writes, raced, rewritten>>
    BY DEF ReadPage
  <2>9. TypeOK'
    BY <2>2, <2>5, <2>8 DEF IInv, TypeOK
  <2>10. PageShape(w)' /\ PageFresh(w)'
    <3>1. /\ run'[w].pc = "write" /\ run'[w].rows = page /\ run'[w].dirty = {}
          /\ run'[w].prof = prof /\ run'[w].at = run[w].at /\ appt' = appt
      BY <2>6, <2>7, <2>8
    <3>2. \A a \in page : prof[a] = appt[a].prof
      BY <2>1
    <3> HIDE DEF page, prof, q
    <3>3. PageShape(w)'
      BY <2>3, <3>1, <3>2 DEF PageShape
    <3>4. PageFresh(w)'
      BY <2>1, <3>1, <3>2 DEF PageFresh, Due, Ended
    <3> QED BY <3>3, <3>4
  <2>11. \A v \in Worker \ {w} : PageShape(v)' /\ PageFresh(v)'
    BY <2>7, <2>8, Untold DEF IInv
  <2> QED BY <2>8, <2>9, <2>10, <2>11, SameTables DEF IInv
<1> QED BY <1>2, <1>3

-----------------------------------------------------------------------------
(* Steps that write the tables.                                            *)

\* The counts of a page's credit are counts.
LEMMA CreditType ==
  ASSUME TypeOK, NEW w \in Worker
  PROVE  Credited(w) \in [Appt -> [Professional -> 0 .. 2]]
<1> SUFFICES ASSUME NEW a \in Appt, NEW p \in Professional
             PROVE  /\ income[a][p] \in 0 .. 2
                    /\ AddOne(income[a][p]) \in 0 .. 2
  BY DEF Credited
<1>1. income[a][p] \in 0 .. 2
  BY DEF TypeOK
<1> QED BY <1>1 DEF AddOne

\* What the transaction of a page does to one row.
LEMMA WriteRow ==
  ASSUME IInv, NEW w \in Worker, WritePage(w), NEW a \in Appt
  PROVE  /\ a \notin run[w].rows => appt'[a] = appt[a] /\ income'[a] = income[a]
         /\ a \notin Taken(w) => appt'[a] = appt[a]
         /\ a \in Taken(w) => appt'[a] = [appt[a] EXCEPT !.status = "COMPLETED"]
         /\ \A p \in Professional :
              income'[a][p] = IF a \in run[w].rows /\ run[w].prof[a] = p
                              THEN AddOne(income[a][p]) ELSE income[a][p]
<1>1. income[a] \in [Professional -> 0 .. 2]
  BY DEF IInv, TypeOK
<1> QED BY <1>1 DEF WritePage, Taken, Credited

LEMMA WriteStep ==
  ASSUME IInv, NEW w \in Worker, WritePage(w) PROVE IInv'
<1>1. run[w] \in Run /\ run[w].rows \subseteq Appt /\ PageShape(w) /\ PageFresh(w)
  BY DEF IInv, TypeOK, Run
<1>2. PICK last \in Last(run[w].rows) : run' = [v \in Worker |->
        IF v # w THEN Tell(run[v], Taken(w))
        ELSE [run[w] EXCEPT !.pc = IF Full(w) THEN "read" ELSE "ack",
                            !.full = IF Full(w) THEN run[w].full + 1 ELSE run[w].full,
                            !.cursor = last,
                            !.rows = {}, !.prof = NoProf, !.dirty = {}]]
  BY DEF WritePage
<1>3. last \in Appt /\ Taken(w) \in SUBSET Appt
  BY <1>1 DEF Last, Taken
<1>4. \A a \in Appt : appt[a] \in Row /\ appt'[a] \in Row
  <2> TAKE a \in Appt
  <2>1. appt[a] \in Row
    BY DEF IInv, TypeOK
  <2>2. [appt[a] EXCEPT !.status = "COMPLETED"] \in Row
    BY <2>1 DEF Row, Status
  <2> QED BY <2>1, <2>2, WriteRow
<1>5. run'[w] \in Run /\ run'[w].rows = {} /\ run'[w].dirty = {}
  <2> DEFINE pc == IF Full(w) THEN "read" ELSE "ack"
             full == IF Full(w) THEN run[w].full + 1 ELSE run[w].full
             q == [run[w] EXCEPT !.pc = pc, !.full = full, !.cursor = last,
                                 !.rows = {}, !.prof = NoProf, !.dirty = {}]
  <2>1. run'[w] = q
    BY <1>2
  <2>2. pc \in {"read", "ack"} /\ full \in Nat /\ NoProf \in [Appt -> Professional \cup {None}]
    BY <1>1 DEF Run, NoProf
  <2> HIDE DEF pc, full
  <2>3. q \in Run /\ q.rows = {} /\ q.dirty = {}
    BY <1>1, <1>3, <2>2 DEF Run
  <2> QED BY <2>1, <2>3
<1>6. \A v \in Worker \ {w} : run'[v] \in Run /\ PageShape(v)' /\ PageFresh(v)'
  <2> TAKE v \in Worker \ {w}
  <2>1. run'[v] = Tell(run[v], Taken(w))
    BY <1>2
  <2>2. \A a \in Appt \ Taken(w) : appt'[a] = appt[a]
    BY WriteRow
  <2> QED BY <1>3, <2>1, <2>2, Told DEF IInv
<1>7. TypeOK'
  <2>1. appt' \in [Appt -> Row]
    BY <1>4 DEF WritePage
  <2>2. income' \in [Appt -> [Professional -> 0 .. 2]]
    BY CreditType DEF WritePage, IInv
  <2>3. run' \in [Worker -> Run]
    BY <1>2, <1>5, <1>6
  <2>4. raced' \subseteq Appt
    BY <1>1 DEF WritePage, IInv, TypeOK, Run
  <2> QED BY <2>1, <2>2, <2>3, <2>4 DEF WritePage, IInv, TypeOK
<1>8. RowsOwned'
  <2> SUFFICES ASSUME NEW a \in Appt, appt'[a].status # "NONE"
               PROVE  appt'[a].prof \in Professional
    BY DEF RowsOwned
  <2>1. CASE a \in Taken(w)
    <3>1. appt'[a] = [appt[a] EXCEPT !.status = "COMPLETED"]
      BY <2>1, WriteRow
    <3>2. appt[a].prof \in Professional
      BY <2>1 DEF IInv, RowsOwned, Taken, Due, Active
    <3> QED BY <1>4, <3>1, <3>2 DEF Row
  <2>2. CASE a \notin Taken(w)
    <3>1. appt'[a] = appt[a]
      BY <2>2, WriteRow
    <3> QED BY <3>1 DEF IInv, RowsOwned
  <2> QED BY <2>1, <2>2
<1>9. \A v \in Worker : PageShape(v)' /\ PageFresh(v)'
  BY <1>5, <1>6, NoPage
<1>10. CompletedIsPaid'
  <2> SUFFICES ASSUME NEW a \in Appt, appt'[a].status = "COMPLETED"
               PROVE  \E p \in Professional : income'[a][p] > 0
    BY DEF CompletedIsPaid, Paid
  <2>0. \A p \in Professional : income[a][p] \in 0 .. 2
    BY DEF IInv, TypeOK
  <2>1. CASE a \in Taken(w)
    <3>1. a \in run[w].rows /\ run[w].prof[a] \in Professional
      BY <1>1, <2>1 DEF Taken, PageShape
    <3>2. income'[a][run[w].prof[a]] = AddOne(income[a][run[w].prof[a]])
      BY <3>1, WriteRow
    <3> QED BY <2>0, <3>1, <3>2 DEF AddOne
  <2>2. CASE a \notin Taken(w)
    <3>0. appt'[a] = appt[a]
      BY <2>2, WriteRow
    <3>1. PICK p \in Professional : income[a][p] > 0
      BY <3>0 DEF IInv, CompletedIsPaid, Paid
    <3>2. income'[a][p] = AddOne(income[a][p]) \/ income'[a][p] = income[a][p]
      BY WriteRow
    <3>3. income'[a][p] > 0
      BY <2>0, <3>1, <3>2 DEF AddOne
    <3> QED BY <3>3
  <2> QED BY <2>1, <2>2
<1>11. ExactlyOneIncome'
  <2> SUFFICES ASSUME NEW a \in Appt \ (raced' \cup rewritten')
               PROVE  income'[a] = IF appt'[a].status = "COMPLETED"
                                   THEN Once(a)' ELSE Nothing
    BY DEF ExactlyOneIncome, Nothing
  <2>1. /\ a \notin run[w].dirty
        /\ income[a] = IF appt[a].status = "COMPLETED" THEN Once(a) ELSE Nothing
    BY DEF WritePage, IInv, ExactlyOneIncome
  <2>2. CASE a \notin run[w].rows
    <3>1. appt'[a] = appt[a] /\ income'[a] = income[a]
      BY <2>2, WriteRow
    <3> QED BY <2>1, <3>1 DEF Once
  <2>3. CASE a \in run[w].rows
    <3>1. Due(a, run[w].at) /\ appt[a].prof = run[w].prof[a]
      BY <1>1, <2>1, <2>3 DEF PageFresh
    <3>2. appt[a].status # "COMPLETED" /\ appt[a] \in Row
      BY <1>4, <3>1 DEF Due, Active
    <3>3. a \in Taken(w)
      BY <2>3, <3>1 DEF Taken
    <3>4. appt'[a].status = "COMPLETED" /\ appt'[a].prof = appt[a].prof
      BY <3>2, <3>3, WriteRow DEF Row
    <3>5. \A p \in Professional : income[a][p] = 0
      BY <2>1, <3>2 DEF Nothing
    <3>6. \A p \in Professional : income'[a][p] = IF p = appt'[a].prof THEN 1 ELSE 0
      <4> TAKE p \in Professional
      <4>1. income'[a][p] = IF run[w].prof[a] = p THEN AddOne(income[a][p])
                            ELSE income[a][p]
        BY <2>3, WriteRow
      <4> QED BY <3>1, <3>4, <3>5, <4>1 DEF AddOne
    <3>7. income'[a] \in [Professional -> 0 .. 2]
      BY <1>7 DEF TypeOK
    <3> QED BY <3>4, <3>6, <3>7 DEF Once
  <2> QED BY <2>2, <2>3
<1> QED BY <1>7, <1>8, <1>9, <1>10, <1>11 DEF IInv

LEMMA ApiWrite ==
  ASSUME IInv, NEW a \in Appt, NEW row \in Row, Writes(a, row),
         row.status # "NONE" /\ row.prof \in Professional,
         row.status = "COMPLETED" => appt[a].status = "COMPLETED"
  PROVE  IInv'
<1>1. \A b \in Appt : appt'[b] = IF b = a THEN row ELSE appt[b]
  BY DEF Writes, IInv, TypeOK
<1>2. income' = income /\ raced' = raced /\ rewritten \subseteq rewritten'
  BY DEF Writes
<1>3. \A v \in Worker : run'[v] \in Run /\ PageShape(v)' /\ PageFresh(v)'
  <2> TAKE v \in Worker
  <2>1. run'[v] = Tell(run[v], {a})
    BY DEF Writes
  <2> QED BY <1>1, <2>1, Told DEF IInv
<1>4. TypeOK'
  <2>1. appt' \in [Appt -> Row] /\ run' \in [Worker -> Run]
    BY <1>3 DEF Writes, IInv, TypeOK
  <2>2. writes' \in 0 .. MaxWrites /\ rewritten' \subseteq Appt
    BY NumberAssumption DEF Writes, IInv, TypeOK
  <2> QED BY <2>1, <2>2 DEF Writes, IInv, TypeOK
<1>5. RowsOwned'
  BY <1>1 DEF IInv, RowsOwned
<1>6. CompletedIsPaid'
  BY <1>1, <1>2 DEF IInv, CompletedIsPaid, Paid
<1>7. ExactlyOneIncome'
  <2> SUFFICES ASSUME NEW b \in Appt \ (raced' \cup rewritten')
               PROVE  income'[b] = IF appt'[b].status = "COMPLETED"
                                   THEN Once(b)' ELSE Nothing
    BY DEF ExactlyOneIncome, Nothing
  <2>1. income[b] = IF appt[b].status = "COMPLETED" THEN Once(b) ELSE Nothing
    BY <1>2 DEF IInv, ExactlyOneIncome
  <2>2. CASE b # a
    BY <1>1, <1>2, <2>1, <2>2 DEF Once
  <2>3. CASE b = a
    <3>1. appt[a].status # "COMPLETED"
      BY <2>3 DEF Writes
    <3> QED BY <1>1, <1>2, <2>1, <2>3, <3>1 DEF Nothing
  <2> QED BY <2>2, <2>3
<1> QED BY <1>3, <1>4, <1>5, <1>6, <1>7 DEF IInv

LEMMA ApiStep ==
  ASSUME IInv, NEW a \in Appt,
         Book(a) \/ Confirm(a) \/ Cancel(a) \/ ClientMove(a) \/ ProMove(a)
  PROVE  IInv'
<1>0. /\ appt[a] \in Row
      /\ appt[a].status # "NONE" => appt[a].prof \in Professional
  BY DEF IInv, TypeOK, RowsOwned
<1>1. CASE Book(a)
  <2>1. PICK row \in Booked : Writes(a, row)
    BY <1>1 DEF Book
  <2>2. row \in Row /\ row.status = "PENDING" /\ row.prof \in Professional
    BY DEF Booked, Row, Status
  <2> QED BY <2>1, <2>2, ApiWrite
<1>2. CASE Confirm(a)
  <2> DEFINE row == [appt[a] EXCEPT !.status = "CONFIRMED"]
  <2>1. /\ row \in Row /\ row.status = "CONFIRMED" /\ row.prof \in Professional
    BY <1>0, <1>2 DEF Confirm, Row, Status
  <2>2. Writes(a, row)
    BY <1>2 DEF Confirm
  <2> QED BY <2>1, <2>2, ApiWrite
<1>3. CASE Cancel(a)
  <2> DEFINE row == [appt[a] EXCEPT !.status = "CANCELED"]
  <2>1. /\ row \in Row /\ row.status = "CANCELED" /\ row.prof \in Professional
    BY <1>0, <1>3 DEF Cancel, Row, Status
  <2>2. Writes(a, row)
    BY <1>3 DEF Cancel
  <2> QED BY <2>1, <2>2, ApiWrite
<1>4. CASE ClientMove(a)
  <2>1. PICK p \in Professional, e \in Instant :
               Writes(a, [appt[a] EXCEPT !.prof = p, !.end = e])
    BY <1>4 DEF ClientMove
  <2>2. appt[a].status # "NONE"
    BY <1>4 DEF ClientMove, Status
  <2> DEFINE row == [appt[a] EXCEPT !.prof = p, !.end = e]
  <2>3. row \in Row /\ row.status = appt[a].status /\ row.prof \in Professional
    BY <1>0 DEF Row
  <2> QED BY <2>1, <2>2, <2>3, ApiWrite
<1>5. CASE ProMove(a)
  <2>1. PICK e \in Instant :
               Writes(a, [appt[a] EXCEPT !.status = "PENDING", !.end = e])
    BY <1>5 DEF ProMove
  <2> DEFINE row == [appt[a] EXCEPT !.status = "PENDING", !.end = e]
  <2>2. row \in Row /\ row.status = "PENDING" /\ row.prof \in Professional
    BY <1>0, <1>5 DEF ProMove, Row, Status
  <2> QED BY <2>1, <2>2, ApiWrite
<1> QED BY <1>1, <1>2, <1>3, <1>4, <1>5

-----------------------------------------------------------------------------
\* Every step of the job, of the api-gateway and of the clock keeps it.
THEOREM NextInv == IInv /\ [Next]_vars => IInv'
<1> SUFFICES ASSUME IInv, [Next]_vars PROVE IInv'
  OBVIOUS
<1>1. CASE Cron \/ Tick
  BY <1>1, ClockStep
<1>2. ASSUME NEW w \in Worker,
             \/ Deliver(w) \/ ReadPage(w) \/ WritePage(w)
             \/ Fail(w) \/ Ack(w) \/ Crash(w)
      PROVE  IInv'
  BY <1>2, DeliverStep, ReadStep, WriteStep, EndStep
<1>3. ASSUME NEW a \in Appt,
             Book(a) \/ Confirm(a) \/ Cancel(a) \/ ClientMove(a) \/ ProMove(a)
      PROVE  IInv'
  BY <1>3, ApiStep
<1>4. CASE UNCHANGED vars
  <2>1. TypeOK'
    BY <1>4 DEF IInv, TypeOK, vars
  <2>2. \A v \in Worker : PageShape(v)' /\ PageFresh(v)'
    BY <1>4, Untold DEF IInv, vars
  <2> QED BY <1>4, <2>1, <2>2, SameTables DEF IInv, vars
<1> QED BY <1>1, <1>2, <1>3, <1>4 DEF Next

\* Every reachable state of the job satisfies it.
THEOREM Inductive == Spec => []IInv
<1> QED BY InitInv, NextInv, PTL DEF Spec

\* Every state of the job is well typed: pages hold rows of the table, counts
\* never leave their range.
THEOREM TypeCorrect == Spec => []TypeOK
<1>1. IInv => TypeOK
  BY DEF IInv
<1> QED BY <1>1, Inductive, PTL

\* A completed appointment is on a statement, whatever fails or crashes.
THEOREM CompletedPaid == Spec => []CompletedIsPaid
<1>1. IInv => CompletedIsPaid
  BY DEF IInv
<1> QED BY <1>1, Inductive, PTL

\* The statement is exact for every row nobody wrote in between.
THEOREM IncomeExact == Spec => []ExactlyOneIncome
<1>1. IInv => ExactlyOneIncome
  BY DEF IInv
<1> QED BY <1>1, Inductive, PTL


-----------------------------------------------------------------------------
(* Where pages begin and end: the place of a row among those found.        *)

Position(S, a) == Cardinality({b \in S : Before(b, a)})

\* orderBy with the tie broken by id puts any two rows in order.
LEMMA RowsInOrder ==
  ASSUME TypeOK, NEW a \in Appt, NEW b \in Appt
  PROVE  /\ ~ Before(a, a)
         /\ Before(a, b) \/ a = b \/ Before(b, a)
         /\ \A c \in Appt : Before(a, b) /\ Before(b, c) => Before(a, c)
<1>1. \A c \in Appt : c \in Nat /\ appt[c].end \in Nat
  BY ApptAssumption, NumberAssumption DEF TypeOK, Row, Instant
<1> QED BY <1>1 DEF Before

\* The places of a set of rows are those from zero on, one each.
LEMMA Positions ==
  ASSUME TypeOK, NEW S, S \subseteq Appt
  PROVE  /\ IsFiniteSet(S) /\ Cardinality(S) \in Nat
         /\ \A a \in S : Position(S, a) \in 0 .. Cardinality(S) - 1
         /\ \A a, b \in S : Before(a, b) <=> Position(S, a) < Position(S, b)
         /\ \A k \in 0 .. Cardinality(S) - 1 : \E a \in S : Position(S, a) = k
<1> DEFINE n == Cardinality(S)
           Earlier(a) == {b \in S : Before(b, a)}
<1>1. IsFiniteSet(S) /\ n \in Nat
  BY ApptAssumption, FS_Subset, FS_CardinalityType
<1>2. \A a \in S : /\ IsFiniteSet(Earlier(a)) /\ Cardinality(Earlier(a)) \in Nat
                   /\ Position(S, a) = Cardinality(Earlier(a))
  BY <1>1, FS_Subset, FS_CardinalityType DEF Position
<1>3. ASSUME NEW a \in S PROVE Position(S, a) \in 0 .. n - 1
  <2>1. Earlier(a) \subseteq S \ {a}
    BY RowsInOrder
  <2>2. IsFiniteSet(S \ {a}) /\ Cardinality(S \ {a}) = n - 1
    BY <1>1, FS_RemoveElement
  <2>3. Cardinality(Earlier(a)) <= n - 1
    BY <2>1, <2>2, FS_Subset
  <2>4. Cardinality(Earlier(a)) \in Nat /\ Position(S, a) = Cardinality(Earlier(a))
    BY <1>2
  <2> HIDE DEF Earlier
  <2> QED BY <1>1, <2>3, <2>4
<1>4. ASSUME NEW a \in S, NEW b \in S, Before(a, b) PROVE Position(S, a) < Position(S, b)
  <2>1. Earlier(a) \cup {a} \subseteq Earlier(b) /\ a \notin Earlier(a)
    BY <1>4, RowsInOrder
  <2>2. Cardinality(Earlier(a) \cup {a}) = Cardinality(Earlier(a)) + 1
    BY <1>2, <2>1, FS_AddElement
  <2>3. Cardinality(Earlier(a) \cup {a}) <= Cardinality(Earlier(b))
    BY <1>2, <2>1, FS_Subset
  <2> QED BY <1>2, <2>2, <2>3
<1>5. \A a, b \in S : Before(a, b) <=> Position(S, a) < Position(S, b)
  <2> SUFFICES ASSUME NEW a \in S, NEW b \in S
               PROVE  Before(a, b) <=> Position(S, a) < Position(S, b)
    OBVIOUS
  <2>1. Position(S, a) \in Int /\ Position(S, b) \in Int
    BY <1>3
  <2>2. a = b \/ Before(a, b) \/ Before(b, a)
    BY RowsInOrder
  <2> QED BY <1>4, <2>1, <2>2
<1>6. \A k \in 0 .. n - 1 : \E a \in S : Position(S, a) = k
  <2> DEFINE f == [a \in S |-> Position(S, a)]
             K == 0 .. n - 1
  <2>1. f \in [S -> K]
    BY <1>3
  <2>2. \A a, b \in S : f[a] = f[b] => a = b
    <3> SUFFICES ASSUME NEW a \in S, NEW b \in S, Position(S, a) = Position(S, b) PROVE a = b
      OBVIOUS
    <3>1. Position(S, a) \in Int /\ Position(S, b) \in Int
      BY <1>3
    <3>2. ~ Before(a, b) /\ ~ Before(b, a)
      BY <1>5, <3>1
    <3> QED BY <3>2, RowsInOrder
  <2>3. IsFiniteSet(K) /\ Cardinality(K) = n
    BY <1>1, FS_Interval
  <2> HIDE DEF f, K
  <2>4. f \in Injection(S, K)
    BY <2>1, <2>2 DEF Injection, IsInjective
  <2>5. f \in Surjection(S, K)
    BY <2>3, <2>4, FS_Injection
  <2>6. \A k \in K : \E a \in S : f[a] = k
    BY <2>5 DEF Surjection
  <2> QED BY <2>6 DEF f, K
<1> QED BY <1>1, <1>3, <1>5, <1>6

Slice(S, skip) == {a \in S : skip <= Position(S, a) /\ Position(S, a) < skip + Batch}

\* What a slice leaves behind: the row that was skipped.
LEMMA SliceLeaves ==
  ASSUME TypeOK, NEW S, S \subseteq Appt, NEW skip \in {0, 1}, NEW a \in S \ Slice(S, skip),
         \/ Cardinality(Slice(S, skip)) < Batch
         \/ \E b \in Slice(S, skip) : ~ Before(b, a)
  PROVE  skip = 1 /\ Position(S, a) = 0
<1> DEFINE n == Cardinality(S)
           P == Slice(S, skip)
<1>1. Batch \in Nat \ {0} /\ n \in Nat /\ IsFiniteSet(S)
  BY NumberAssumption, Positions
<1>2. \A b \in S : Position(S, b) \in 0 .. n - 1
  BY Positions
<1>3. ASSUME skip <= Position(S, a) PROVE FALSE
  <2>1. skip + Batch <= Position(S, a)
    BY <1>1, <1>2, <1>3 DEF Slice
  <2>2. CASE \E b \in P : ~ Before(b, a)
    <3>1. PICK b \in P : ~ Before(b, a)
      BY <2>2
    <3>2. b \in S /\ Position(S, b) < skip + Batch
      BY <3>1 DEF Slice
    <3>3. ~ (Position(S, b) < Position(S, a))
      BY <3>1, <3>2, Positions
    <3>4. Position(S, a) \in Int /\ Position(S, b) \in Int
      BY <1>2, <3>2
    <3> QED BY <1>1, <2>1, <3>2, <3>3, <3>4
  <2>3. CASE Cardinality(P) < Batch
    <3> DEFINE K == 0 .. Batch - 1
               g == [b \in P |-> Position(S, b) - skip]
    <3>1. P \subseteq S /\ IsFiniteSet(P)
      BY <1>1, FS_Subset DEF Slice
    <3>2. g \in [P -> K]
      <4> SUFFICES ASSUME NEW b \in P PROVE Position(S, b) - skip \in K
        OBVIOUS
      <4>1. Position(S, b) \in Int /\ skip <= Position(S, b) /\ Position(S, b) < skip + Batch
        BY <1>2 DEF Slice
      <4> QED BY <1>1, <4>1
    <3>3. \A k \in K : \E b \in P : g[b] = k
      <4> SUFFICES ASSUME NEW k \in K PROVE \E b \in P : Position(S, b) - skip = k
        OBVIOUS
      <4>1. skip + k \in 0 .. n - 1
        BY <1>1, <1>2, <2>1
      <4>2. PICK b \in S : Position(S, b) = skip + k
        BY <4>1, Positions
      <4>3. b \in P
        BY <1>1, <4>2 DEF Slice
      <4> QED BY <4>2, <4>3
    <3>4. Cardinality(K) = Batch
      BY <1>1, FS_Interval
    <3> HIDE DEF K, g, P
    <3>5. g \in Surjection(P, K)
      BY <3>2, <3>3 DEF Surjection
    <3>6. Cardinality(K) <= Cardinality(P)
      BY <3>1, <3>5, FS_Surjection
    <3>7. Cardinality(P) \in Nat
      BY <3>1, FS_CardinalityType
    <3> QED BY <1>1, <2>3, <3>4, <3>6, <3>7
  <2> QED BY <2>2, <2>3
<1>4. Position(S, a) \in Nat
  BY <1>1, <1>2
<1> QED BY <1>3, <1>4

\* There is one first row.
LEMMA OneFirst ==
  ASSUME TypeOK, NEW S, S \subseteq Appt, NEW a \in S, NEW b \in S,
         Position(S, a) = 0, Position(S, b) = 0
  PROVE  a = b
<1>1. /\ Before(a, b) <=> Position(S, a) < Position(S, b)
      /\ Before(b, a) <=> Position(S, b) < Position(S, a)
  BY Positions
<1>2. ~ Before(a, b) /\ ~ Before(b, a)
  BY <1>1, SMT
<1> QED BY <1>2, RowsInOrder

-----------------------------------------------------------------------------
(* What a handler leaves behind.  Rows that others wrote do not count; of  *)
(* the rest, one is lost where a page begins behind a cursor.              *)

Left(w) == {a \in Appt \ run[w].news : Due(a, run[w].at)}
Behind(w, c) == {a \in Left(w) : ~ Before(c, a)}
Undisturbed(w) == run[w].seen \cap run[w].news = {}

BehindFew(w) ==
  /\ run[w].rows \subseteq run[w].seen
  /\ run[w].cursor # None => run[w].cursor \in run[w].seen
  /\ Undisturbed(w) =>
       /\ run[w].pc = "read" /\ run[w].cursor # None
            => Cardinality(Behind(w, run[w].cursor)) < run[w].full
       /\ run[w].pc = "write"
            => /\ run[w].rows \subseteq Left(w)
               /\ \A c \in Last(run[w].rows) :
                    Cardinality(Behind(w, c) \ run[w].rows) <= run[w].full
               /\ ~ Full(w) => Cardinality(Left(w) \ run[w].rows) <= run[w].full
       /\ run[w].pc = "ack" => Cardinality(Left(w)) <= run[w].full

\* Rows can be counted, and fewer rows count for less.
LEMMA FiniteRows ==
  ASSUME NEW S, S \subseteq Appt
  PROVE  /\ IsFiniteSet(S) /\ Cardinality(S) \in Nat
         /\ \A T \in SUBSET S : Cardinality(T) <= Cardinality(S)
BY ApptAssumption, FS_Subset, FS_CardinalityType

\* A handler told of every row that others wrote leaves no more behind.
LEMMA FewTold ==
  ASSUME TypeOK, NEW v \in Worker, BehindFew(v), NEW T \in SUBSET Appt,
         run'[v] = Tell(run[v], T), \A a \in Appt \ T : appt'[a] = appt[a]
  PROVE  BehindFew(v)'
<1>1. run[v] \in Run
  BY DEF TypeOK
<1>2. CASE run[v].pc = "idle"
  BY <1>1, <1>2 DEF Tell, BehindFew
<1>3. CASE run[v].pc # "idle"
  <2>1. /\ run'[v].pc = run[v].pc /\ run'[v].at = run[v].at /\ run'[v].cursor = run[v].cursor
        /\ run'[v].rows = run[v].rows /\ run'[v].seen = run[v].seen /\ run'[v].full = run[v].full
        /\ run'[v].news = run[v].news \cup T
    BY <1>1, <1>3 DEF Tell, Run
  <2>2. run[v].seen \subseteq Appt /\ run[v].rows \subseteq run[v].seen /\ run[v].full \in Nat
        /\ (run[v].cursor # None => run[v].cursor \in run[v].seen)
    BY <1>1 DEF Run, BehindFew
  <2>3. ASSUME Undisturbed(v)'
        PROVE  /\ Undisturbed(v) /\ \A a \in run[v].seen : appt'[a] = appt[a]
    BY <2>1, <2>2, <2>3 DEF Undisturbed
  <2>4. Left(v)' \subseteq Left(v) /\ Left(v) \subseteq Appt
    BY <2>1 DEF Left, Due, Ended
  <2>5. ASSUME Undisturbed(v)', NEW c \in run[v].seen
        PROVE  Behind(v, c)' \subseteq Behind(v, c)
    <3>1. \A a \in Left(v)' : appt'[a] = appt[a] /\ a \in Left(v)
      BY <2>1, <2>4 DEF Left
    <3>2. appt'[c] = appt[c]
      BY <2>3, <2>5
    <3> QED BY <3>1, <3>2 DEF Behind, Before
  <2>6. CASE ~ Undisturbed(v)'
    BY <2>1, <2>2, <2>6 DEF BehindFew
  <2>7. CASE Undisturbed(v)'
    <3>1. Undisturbed(v) /\ \A a \in run[v].seen : appt'[a] = appt[a]
      BY <2>3, <2>7
    <3>2. run[v].pc = "read" /\ run[v].cursor # None
            => Cardinality(Behind(v, run[v].cursor)') <= Cardinality(Behind(v, run[v].cursor))
               /\ Cardinality(Behind(v, run[v].cursor)') \in Nat
               /\ Cardinality(Behind(v, run[v].cursor)) \in Nat
      <4> SUFFICES ASSUME run[v].cursor # None
                   PROVE  Cardinality(Behind(v, run[v].cursor)') <= Cardinality(Behind(v, run[v].cursor))
                          /\ Cardinality(Behind(v, run[v].cursor)') \in Nat
                          /\ Cardinality(Behind(v, run[v].cursor)) \in Nat
        OBVIOUS
      <4>1. PICK c \in run[v].seen : c = run[v].cursor
        BY <2>2
      <4>2. Behind(v, c)' \subseteq Behind(v, c) /\ Behind(v, c) \subseteq Appt
        BY <2>4, <2>5, <2>7 DEF Behind
      <4>3. Cardinality(Behind(v, c)') <= Cardinality(Behind(v, c))
            /\ Cardinality(Behind(v, c)') \in Nat /\ Cardinality(Behind(v, c)) \in Nat
        BY <4>2, FiniteRows
      <4>4. Behind(v, run[v].cursor)' = Behind(v, c)' /\ Behind(v, run[v].cursor) = Behind(v, c)
        BY <2>1, <4>1
      <4> QED BY <4>3, <4>4
    <3>3. Last(run[v].rows)' = Last(run[v].rows)
      BY <2>1, <2>2, <3>1 DEF Last, Before
    <3>4. run[v].rows \subseteq Left(v) => run[v].rows \subseteq Left(v)'
      <4> SUFFICES ASSUME NEW a \in run[v].rows, a \in Left(v) PROVE a \in Left(v)'
        OBVIOUS
      <4>1. appt'[a] = appt[a] /\ a \in run[v].seen /\ a \in Appt
        BY <2>2, <3>1
      <4>2. a \notin run'[v].news
        BY <2>1, <2>7, <4>1 DEF Undisturbed
      <4> QED BY <2>1, <4>1, <4>2 DEF Left, Due, Ended
    <3>5. ASSUME NEW c \in Last(run[v].rows)
          PROVE  Cardinality(Behind(v, c)' \ run[v].rows) <= Cardinality(Behind(v, c) \ run[v].rows)
                 /\ Cardinality(Behind(v, c)' \ run[v].rows) \in Nat
                 /\ Cardinality(Behind(v, c) \ run[v].rows) \in Nat
      <4>1. Behind(v, c)' \subseteq Behind(v, c) /\ Behind(v, c) \subseteq Appt
        BY <2>2, <2>4, <2>5, <2>7, <3>5 DEF Behind, Last
      <4> QED BY <4>1, FiniteRows
    <3>6. /\ Cardinality(Left(v)' \ run[v].rows) <= Cardinality(Left(v) \ run[v].rows)
          /\ Cardinality(Left(v)') <= Cardinality(Left(v))
          /\ Cardinality(Left(v)' \ run[v].rows) \in Nat /\ Cardinality(Left(v) \ run[v].rows) \in Nat
          /\ Cardinality(Left(v)') \in Nat /\ Cardinality(Left(v)) \in Nat
      BY <2>4, FiniteRows
    <3>7. Full(v)' = Full(v)
      BY <2>1 DEF Full
    <3>8. run[v].pc = "read" /\ run[v].cursor # None
            => Cardinality(Behind(v, run[v].cursor)') < run[v].full
      BY <2>2, <3>1, <3>2 DEF BehindFew
    <3>9. run[v].pc = "write" => \A c \in Last(run[v].rows) :
            Cardinality(Behind(v, c)' \ run[v].rows) <= run[v].full
      <4> SUFFICES ASSUME run[v].pc = "write", NEW c \in Last(run[v].rows)
                   PROVE  Cardinality(Behind(v, c)' \ run[v].rows) <= run[v].full
        OBVIOUS
      <4>1. Cardinality(Behind(v, c) \ run[v].rows) <= run[v].full
        BY <3>1 DEF BehindFew
      <4> QED BY <2>2, <3>5, <4>1
    <3>10. run[v].pc = "write" /\ ~ Full(v)
             => Cardinality(Left(v)' \ run[v].rows) <= run[v].full
      BY <2>2, <3>1, <3>6 DEF BehindFew
    <3>11. run[v].pc = "ack" => Cardinality(Left(v)') <= run[v].full
      BY <2>2, <3>1, <3>6 DEF BehindFew
    <3>12. run[v].pc = "write" => run[v].rows \subseteq Left(v)'
      BY <3>1, <3>4 DEF BehindFew
    <3> QED BY <2>1, <2>2, <3>3, <3>7, <3>8, <3>9, <3>10, <3>11, <3>12 DEF BehindFew
  <2> QED BY <2>6, <2>7
<1> QED BY <1>2, <1>3

\* A step that touches neither the handler nor the table.
LEMMA FewUntold ==
  ASSUME NEW v \in Worker, BehindFew(v), run'[v] = run[v], appt' = appt
  PROVE  BehindFew(v)'
BY DEF BehindFew, Undisturbed, Left, Behind, Due, Ended, Before, Last, Full

\* A handler that begins, ends or dies.
LEMMA FewAtFirst ==
  ASSUME NEW v \in Worker, run'[v].rows = {}, run'[v].cursor = None,
         run'[v].pc \in {"idle", "read"}
  PROVE  BehindFew(v)'
BY DEF BehindFew

\* What findMany finds before it skips and takes.
Found(w) == {a \in Appt : /\ Due(a, run[w].at)
                          /\ run[w].cursor # None => ~ Before(a, run[w].cursor)}
Skip(w) == IF run[w].cursor = None THEN 0 ELSE 1

\* A page is the slice of the rows found that skip and take cut out.
LEMMA PageIsSlice == ASSUME NEW w \in Worker PROVE Page(w) = Slice(Found(w), Skip(w))
BY DEF Page, Slice, Found, Skip, Position

\* Rows that a page leaves: those the pages before left, and the one it skips.
LEMMA FewLeft ==
  ASSUME TypeOK, NEW w \in Worker, BehindFew(w), Undisturbed(w), run[w].pc = "read",
         NEW X, X \subseteq Left(w),
         \A a \in X \cap Found(w) : Skip(w) = 1 /\ Position(Found(w), a) = 0
  PROVE  Cardinality(X) <= run[w].full
<1>1. run[w].full \in Nat /\ run[w].seen \subseteq Appt
  BY DEF TypeOK, Run
<1>2. X \subseteq Appt /\ Found(w) \subseteq Appt
  BY DEF Left, Found
<1>3. CASE run[w].cursor = None
  <2>1. X = {}
    BY <1>3 DEF Left, Found, Skip
  <2> QED BY <1>1, <2>1, FS_EmptySet
<1>4. CASE run[w].cursor # None
  <2> DEFINE B == Behind(w, run[w].cursor)
  <2>1. B \subseteq Appt /\ IsFiniteSet(B) /\ Cardinality(B) \in Nat
    BY FiniteRows DEF Behind, Left
  <2>2. Cardinality(B) + 1 <= run[w].full
    BY <1>1, <1>4, <2>1 DEF BehindFew
  <2>3. run[w].cursor \in Appt
    BY <1>1, <1>4 DEF BehindFew
  <2>4. X \ Found(w) \subseteq B
    <3> SUFFICES ASSUME NEW a \in X \ Found(w) PROVE a \in B
      OBVIOUS
    <3>1. Before(a, run[w].cursor)
      BY <1>2 DEF Found, Left
    <3>2. ~ Before(run[w].cursor, a)
      BY <1>2, <2>3, <3>1, RowsInOrder
    <3> QED BY <3>2 DEF Behind
  <2> HIDE DEF B
  <2>5. \A a, b \in X \cap Found(w) : a = b
    BY <1>2, OneFirst
  <2>6. CASE X \cap Found(w) = {}
    <3>1. X \subseteq B
      BY <2>4, <2>6
    <3>2. Cardinality(X) <= Cardinality(B) /\ Cardinality(X) \in Nat
      BY <1>2, <2>1, <3>1, FiniteRows
    <3> QED BY <1>1, <2>1, <2>2, <3>2
  <2>7. CASE X \cap Found(w) # {}
    <3>1. PICK z : z \in X \cap Found(w)
      BY <2>7
    <3>2. X \subseteq B \cup {z} /\ B \cup {z} \subseteq Appt
      BY <1>2, <2>1, <2>4, <2>5, <3>1
    <3>3. Cardinality(B \cup {z}) <= Cardinality(B) + 1 /\ Cardinality(B \cup {z}) \in Nat
      <4>1. Cardinality(B \cup {z}) = IF z \in B THEN Cardinality(B) ELSE Cardinality(B) + 1
        BY <2>1, FS_AddElement
      <4> QED BY <2>1, <4>1
    <3>4. Cardinality(X) <= Cardinality(B \cup {z}) /\ Cardinality(X) \in Nat
      BY <1>2, <3>2, FiniteRows
    <3> QED BY <1>1, <2>1, <2>2, <3>3, <3>4
  <2> QED BY <2>6, <2>7
<1> QED BY <1>3, <1>4

\* Reading a page: the rows behind it are those the pages before left, and one.
LEMMA FewRead ==
  ASSUME IInv, NEW w \in Worker, BehindFew(w), ReadPage(w) PROVE BehindFew(w)'
<1> DEFINE page == Page(w)
<1>1. TypeOK /\ run[w] \in Run /\ run[w].pc = "read" /\ appt' = appt
  BY DEF IInv, TypeOK, ReadPage
<1>2. page = Slice(Found(w), Skip(w)) /\ Found(w) \subseteq Appt /\ Skip(w) \in {0, 1}
  BY PageIsSlice DEF Found, Skip
<1>3. page \subseteq Found(w) /\ page \subseteq Appt
  BY <1>2 DEF Slice
<1>4. ASSUME NEW a \in Found(w) \ page,
             Cardinality(page) < Batch \/ \E b \in page : ~ Before(b, a)
      PROVE  Skip(w) = 1 /\ Position(Found(w), a) = 0
  BY <1>1, <1>2, <1>4, SliceLeaves
<1>5. run[w].rows \subseteq run[w].seen /\ run[w].seen \subseteq Appt
      /\ (run[w].cursor # None => run[w].cursor \in run[w].seen)
  BY <1>1 DEF BehindFew, Run
<1>6. Batch \in Nat \ {0}
  BY NumberAssumption
<1>7. CASE page = {}
  <2>1. run'[w] = [run[w] EXCEPT !.pc = "ack"]
    BY <1>1, <1>7 DEF ReadPage, IInv, TypeOK
  <2>2. /\ run'[w].pc = "ack" /\ run'[w].at = run[w].at /\ run'[w].cursor = run[w].cursor
        /\ run'[w].rows = run[w].rows /\ run'[w].seen = run[w].seen
        /\ run'[w].news = run[w].news /\ run'[w].full = run[w].full
    BY <1>1, <2>1 DEF Run
  <2>3. Left(w)' = Left(w) /\ (Undisturbed(w)' <=> Undisturbed(w))
    BY <1>1, <2>2 DEF Left, Due, Ended, Undisturbed
  <2>4. Cardinality(page) < Batch
    BY <1>6, <1>7, FS_EmptySet
  <2>5. Undisturbed(w) => Cardinality(Left(w)) <= run[w].full
    BY <1>1, <1>4, <1>7, <2>4, FewLeft
  <2> QED BY <1>5, <2>2, <2>3, <2>5 DEF BehindFew
<1>8. CASE page # {}
  <2> DEFINE prof == [a \in Appt |-> IF a \in page THEN appt[a].prof ELSE None]
             q == [run[w] EXCEPT !.pc = "write", !.rows = page, !.dirty = {},
                     !.seen = run[w].seen \cup page, !.prof = prof]
  <2>1. run'[w] = q
    BY <1>1, <1>8 DEF ReadPage, IInv, TypeOK
  <2>2. /\ q.pc = "write" /\ q.at = run[w].at /\ q.cursor = run[w].cursor
        /\ q.rows = page /\ q.seen = run[w].seen \cup page
        /\ q.news = run[w].news /\ q.full = run[w].full
    BY <1>1 DEF Run
  <2> HIDE DEF q, page
  <2>3. Left(w)' = Left(w)
    BY <1>1, <2>1, <2>2 DEF Left, Due, Ended
  <2>4. \A c : Behind(w, c)' = {a \in Left(w) : ~ Before(c, a)}
    BY <1>1, <2>3 DEF Behind, Before
  <2>5. Last(run[w].rows)' = Last(page) /\ Last(page) \subseteq page
    <3>1. run'[w].rows = page
      BY <2>1, <2>2
    <3> QED BY <1>1, <3>1 DEF Last, Before
  <2>6. ASSUME Undisturbed(w)' PROVE Undisturbed(w) /\ page \subseteq Left(w)
    <3>1. Undisturbed(w) /\ page \cap run[w].news = {}
      BY <2>1, <2>2, <2>6 DEF Undisturbed
    <3> QED BY <1>3, <3>1 DEF Left, Found
  <2>7. ASSUME Undisturbed(w)', NEW c \in Last(page)
        PROVE  Cardinality({a \in Left(w) : ~ Before(c, a)} \ page) <= run[w].full
    <3> DEFINE X == {a \in Left(w) : ~ Before(c, a)} \ page
    <3>1. \A a \in X \cap Found(w) : Skip(w) = 1 /\ Position(Found(w), a) = 0
      BY <1>4, <2>5, <2>7
    <3> QED BY <1>1, <2>6, <2>7, <3>1, FewLeft
  <2>8. ASSUME Undisturbed(w)', Cardinality(page) < Batch
        PROVE  Cardinality(Left(w) \ page) <= run[w].full
    <3> DEFINE X == Left(w) \ page
    <3>1. \A a \in X \cap Found(w) : Skip(w) = 1 /\ Position(Found(w), a) = 0
      BY <1>4, <2>8
    <3> QED BY <1>1, <2>6, <2>8, <3>1, FewLeft
  <2>9. ~ Full(w)' => Cardinality(page) < Batch
    <3>1. Cardinality(page) \in Nat
      BY <1>3, FiniteRows
    <3> QED BY <1>6, <2>1, <2>2, <3>1 DEF Full
  <2>10. Undisturbed(w)' => \A c \in Last(page) : Cardinality(Behind(w, c)' \ page) <= run[w].full
    BY <2>4, <2>7
  <2>11. /\ run'[w].pc = "write" /\ run'[w].rows = page /\ run'[w].full = run[w].full
         /\ run'[w].cursor = run[w].cursor /\ run'[w].seen = run[w].seen \cup page
    BY <2>1, <2>2
  <2>12. /\ page \subseteq run'[w].seen
         /\ run'[w].cursor # None => run'[w].cursor \in run'[w].seen
    BY <1>5, <2>11
  <2>13. Undisturbed(w)' => page \subseteq Left(w)
    BY <2>6
  <2>14. Undisturbed(w)' /\ ~ Full(w)' => Cardinality(Left(w) \ page) <= run[w].full
    BY <2>8, <2>9
  <2> HIDE DEF page
  <2> QED BY <2>3, <2>5, <2>10, <2>11, <2>12, <2>13, <2>14 DEF BehindFew
<1> QED BY <1>7, <1>8

\* Writing a page: its rows are closed, and the cursor is its last row.
LEMMA FewWritten ==
  ASSUME IInv, NEW w \in Worker, BehindFew(w), WritePage(w) PROVE BehindFew(w)'
<1>1. TypeOK /\ run[w] \in Run /\ run[w].pc = "write" /\ run[w].rows \subseteq Appt
      /\ run[w].full \in Nat /\ run[w].seen \subseteq Appt
  BY DEF IInv, TypeOK, WritePage, Run
<1>2. PICK last \in Last(run[w].rows) : run' = [v \in Worker |->
        IF v # w THEN Tell(run[v], Taken(w))
        ELSE [run[w] EXCEPT !.pc = IF Full(w) THEN "read" ELSE "ack",
                            !.full = IF Full(w) THEN run[w].full + 1 ELSE run[w].full,
                            !.cursor = last,
                            !.rows = {}, !.prof = NoProf, !.dirty = {}]]
  BY DEF WritePage
<1>3. last \in run[w].rows /\ last \in Appt
  BY <1>1 DEF Last
<1>4. /\ run'[w].pc = (IF Full(w) THEN "read" ELSE "ack") /\ run'[w].at = run[w].at
      /\ run'[w].full = (IF Full(w) THEN run[w].full + 1 ELSE run[w].full)
      /\ run'[w].cursor = last /\ run'[w].rows = {} /\ run'[w].seen = run[w].seen
      /\ run'[w].news = run[w].news
  BY <1>1, <1>2 DEF Run
<1>5. \A a \in Appt : appt'[a].end = appt[a].end /\ (a \notin run[w].rows => appt'[a] = appt[a])
  <2> SUFFICES ASSUME NEW a \in Appt
               PROVE  appt'[a].end = appt[a].end /\ (a \notin run[w].rows => appt'[a] = appt[a])
    OBVIOUS
  <2>1. appt[a] \in Row
    BY <1>1 DEF TypeOK
  <2> QED BY <2>1, WriteRow DEF Row
<1>6. Undisturbed(w)' <=> Undisturbed(w)
  BY <1>4 DEF Undisturbed
<1>7. ASSUME Undisturbed(w) PROVE Left(w)' = Left(w) \ run[w].rows
  <2>1. \A a \in run[w].rows : a \in Taken(w)
    BY <1>1, <1>7 DEF BehindFew, Left, Taken
  <2>2. \A a \in run[w].rows : appt'[a].status = "COMPLETED"
    <3> SUFFICES ASSUME NEW a \in run[w].rows PROVE appt'[a].status = "COMPLETED"
      OBVIOUS
    <3>1. appt[a] \in Row /\ a \in Appt
      BY <1>1 DEF TypeOK
    <3>2. appt'[a] = [appt[a] EXCEPT !.status = "COMPLETED"]
      BY <2>1, <3>1, WriteRow
    <3> QED BY <3>1, <3>2 DEF Row
  <2>3. \A a \in Appt : Due(a, run[w].at)' <=> a \notin run[w].rows /\ Due(a, run[w].at)
    <3> SUFFICES ASSUME NEW a \in Appt
                 PROVE  Due(a, run[w].at)' <=> a \notin run[w].rows /\ Due(a, run[w].at)
      OBVIOUS
    <3>1. CASE a \in run[w].rows
      BY <2>2, <3>1 DEF Due, Active
    <3>2. CASE a \notin run[w].rows
      BY <1>4, <1>5, <3>2 DEF Due, Ended
    <3> QED BY <3>1, <3>2
  <2> QED BY <1>4, <2>3 DEF Left
<1>8. ASSUME Undisturbed(w) PROVE Behind(w, last)' = Behind(w, last) \ run[w].rows
  <2>1. \A a \in Appt : Before(last, a)' <=> Before(last, a)
    BY <1>3, <1>5 DEF Before
  <2> QED BY <1>7, <1>8, <2>1 DEF Behind, Left
<1>9. ASSUME Undisturbed(w), Full(w) PROVE Cardinality(Behind(w, last)') < run[w].full + 1
  <2>1. Cardinality(Behind(w, last) \ run[w].rows) <= run[w].full
    BY <1>1, <1>9 DEF BehindFew
  <2>2. Cardinality(Behind(w, last) \ run[w].rows) \in Nat
    BY FiniteRows DEF Behind, Left
  <2> QED BY <1>1, <1>8, <1>9, <2>1, <2>2
<1>10. ASSUME Undisturbed(w), ~ Full(w) PROVE Cardinality(Left(w)') <= run[w].full
  BY <1>1, <1>7, <1>10 DEF BehindFew
<1>11. last \in run[w].seen
  BY <1>3 DEF BehindFew
<1> QED BY <1>4, <1>6, <1>9, <1>10, <1>11 DEF BehindFew

Few == \A w \in Worker : BehindFew(w)

\* Every read, every write of a page and every write of others leaves few behind.
THEOREM FewStep == IInv /\ Few /\ [Next]_vars => Few'
<1> SUFFICES ASSUME IInv, Few, [Next]_vars, NEW v \in Worker PROVE BehindFew(v)'
  BY DEF Few
<1>0. TypeOK /\ BehindFew(v)
  BY DEF IInv, Few
<1>1. CASE Cron \/ Tick \/ UNCHANGED vars
  BY <1>0, <1>1, FewUntold DEF Cron, Tick, vars
<1>2. ASSUME NEW w \in Worker, Deliver(w) \/ Fail(w) \/ Ack(w) \/ Crash(w) PROVE BehindFew(v)'
  <2>1. appt' = appt /\ \E q \in {Idle, [Idle EXCEPT !.pc = "read", !.at = now]} :
          run' = [run EXCEPT ![w] = q]
    BY <1>2 DEF Deliver, Fail, Ack, Crash
  <2>2. PICK q \in {Idle, [Idle EXCEPT !.pc = "read", !.at = now]} : run' = [run EXCEPT ![w] = q]
    BY <2>1
  <2>3. q.rows = {} /\ q.cursor = None /\ q.pc \in {"idle", "read"}
    <3>1. CASE q = Idle
      BY <3>1 DEF Idle
    <3>2. CASE q = [Idle EXCEPT !.pc = "read", !.at = now]
      BY <3>2 DEF Idle
    <3> QED BY <2>2, <3>1, <3>2
  <2>4. run'[v] = IF v = w THEN q ELSE run[v]
    BY <1>0, <2>2 DEF TypeOK
  <2> QED BY <1>0, <2>1, <2>3, <2>4, FewUntold, FewAtFirst
<1>3. ASSUME NEW w \in Worker, ReadPage(w) PROVE BehindFew(v)'
  <2>1. v # w => run'[v] = run[v]
    BY <1>0, <1>3 DEF ReadPage, TypeOK
  <2>2. appt' = appt
    BY <1>3 DEF ReadPage
  <2> QED BY <1>0, <1>3, <2>1, <2>2, FewRead, FewUntold
<1>4. ASSUME NEW w \in Worker, WritePage(w) PROVE BehindFew(v)'
  <2>1. v # w => run'[v] = Tell(run[v], Taken(w))
    BY <1>4 DEF WritePage
  <2>2. Taken(w) \in SUBSET Appt
    BY <1>0 DEF Taken, TypeOK, Run
  <2>3. \A a \in Appt \ Taken(w) : appt'[a] = appt[a]
    BY <1>4, WriteRow
  <2>4. CASE v = w
    BY <1>0, <1>4, <2>4, FewWritten
  <2>5. CASE v # w
    BY <1>0, <2>1, <2>2, <2>3, <2>5, FewTold
  <2> QED BY <2>4, <2>5
<1>5. ASSUME NEW a \in Appt, Book(a) \/ Confirm(a) \/ Cancel(a) \/ ClientMove(a) \/ ProMove(a)
      PROVE  BehindFew(v)'
  <2>1. run'[v] = Tell(run[v], {a}) /\ \E row : appt' = [appt EXCEPT ![a] = row]
    BY <1>5 DEF Book, Confirm, Cancel, ClientMove, ProMove, Writes
  <2>2. \A b \in Appt \ {a} : appt'[b] = appt[b]
    BY <1>0, <2>1 DEF TypeOK
  <2> QED BY <1>0, <2>1, <2>2, FewTold
<1> QED BY <1>1, <1>2, <1>3, <1>4, <1>5 DEF Next

\* A handler that reached its end, and of whose rows nobody wrote any, leaves at
\* most one due row per full page, for pages of any size and any number of rows,
\* handlers and writes: the row that skip 1 drops where the cursor row is closed.
THEOREM FewLeftBehindTheorem == Spec => []FewLeftBehind
<1>1. Init => Few
  <2> SUFFICES ASSUME Init, NEW w \in Worker PROVE BehindFew(w)
    BY DEF Few
  <2>1. run[w].rows = {} /\ run[w].cursor = None /\ run[w].pc = "idle"
    BY DEF Init, Idle
  <2> QED BY <2>1 DEF BehindFew
<1>2. IInv /\ Few => FewLeftBehind
  <2> SUFFICES ASSUME Few, NEW w \in Worker, run[w].pc = "ack",
                      run[w].seen \cap run[w].news = {}
               PROVE  Cardinality({a \in Appt \ run[w].news : Due(a, run[w].at)}) <= run[w].full
    BY DEF FewLeftBehind
  <2> QED BY DEF Few, BehindFew, Undisturbed, Left
<1> QED BY <1>1, <1>2, FewStep, Inductive, PTL DEF Spec
=============================================================================
