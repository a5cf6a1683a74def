---------------------------- MODULE Agenda_proofs ----------------------------
(* Proofs about Agenda: type correctness, the three invariants that bound   *)
(* what unlocked checks can cost, the finality of cancellations, and that a *)
(* run of blocked days is deleted whole.                                    *)
EXTENDS Agenda, FiniteSetTheorems, TLAPS

-----------------------------------------------------------------------------
(* The inductive invariant.                                                *)

\* What a request has in hand at each control point.
ShapeOf(r) ==
  /\ req[r].op \in Moving \cup {"confirm", "cancel"} => req[r].appt \in Appt
  /\ req[r].op \in {"create", "block"} => req[r].appt = None /\ req[r].prof \in Professional
  /\ req[r].pc \in {"appts", "blocks"} => req[r].op \in Moving \cup {"create", "block"}
  /\ req[r].pc = "run" => req[r].op = "unblock"
  /\ req[r].op \in {"idle", "cancel", "unblock", "confirm"} => req[r].want = {}
  /\ req[r].op = "block" => \A i, j \in req[r].want : i # j => ~ Overlaps(i, j)
Shape == \A r \in Req : ShapeOf(r)

\* The intervals whose query over the table has already come back empty.
ApptsChecked(r) == IF req[r].pc = "appts" THEN req[r].want \ req[r].pend ELSE req[r].want
BlocksChecked(r) == IF req[r].pc = "write" THEN req[r].want
                    ELSE IF req[r].pc = "blocks" THEN req[r].want \ req[r].pend ELSE {}

\* What now stands over a checked interval was placed since r began.
ApptsSeen(r) == \A i \in ApptsChecked(r) : Clashing(r, i) \subseteq req[r].blind
BlocksSeen(r) == \A i \in BlocksChecked(r) : Blocking(r, i) \subseteq req[r].blind

\* A confirmation in flight would bring back its row, wherever it is by now,
\* over nothing but what was placed since it began or is excused already.
Excused(a, b) == {a, b} \in concurrent \/ a \in unguarded \/ b \in unguarded
SameAgenda(a, b) == b # a /\ Live(b) /\ appt[b].prof = appt[a].prof
                      /\ Overlaps(appt[a], appt[b])
UnderBlock(a, b) == Stands(b) /\ block[b].prof = appt[a].prof
                      /\ Overlaps(appt[a], block[b])
ConfirmSeen(r) ==
  req[r].op = "confirm" /\ ~ req[r].reopens =>
    \A a \in Appt : a = req[r].appt =>
      /\ \A b \in Appt : SameAgenda(a, b) => b \in req[r].blind \/ Excused(a, b)
      /\ \A b \in Block : UnderBlock(a, b) => b \in req[r].blind \/ Excused(a, b)

\* A request that would revive a canceled row read it before it was canceled.
StaleRevives ==
  \A r \in Req : req[r].op \in {"confirm", "proMove"} =>
    \A a \in Appt : a = req[r].appt /\ appt[a].status = "CANCELED" => req[r].stale

IInv == /\ TypeOK
        /\ Shape
        /\ \A r \in Req : ApptsSeen(r) /\ BlocksSeen(r) /\ ConfirmSeen(r)
        /\ StaleRevives
        /\ OverlapOnlyConcurrent
        /\ BlockedOnlyConcurrent
        /\ BlocksOverlapOnlyConcurrent

-----------------------------------------------------------------------------
(* Type correctness.                                                       *)

LEMMA IdleType == Idle \in Request
BY SortAssumption DEF Idle, Request, Placing

LEMMA PlanType ==
  ASSUME NEW first \in Instant, NEW last \in Instant,
         NEW s \in 0 .. DayLength, NEW e \in 0 .. DayLength,
         DayLength * (last + 1) <= Horizon, s < e
  PROVE  Plan(first, last, s, e) \subseteq Interval
<1> SUFFICES ASSUME NEW d \in first .. last
             PROVE  [start |-> DayLength * d + s, end |-> DayLength * d + e] \in Interval
  BY DEF Plan
<1>1. DayLength \in Nat /\ Horizon \in Nat /\ d \in Nat /\ last \in Nat /\ s \in Nat /\ e \in Nat
  BY HorizonAssumption, DayAssumption DEF Instant
<1>2. DayLength * d \in Nat /\ DayLength * last \in Nat /\ DayLength * d <= DayLength * last
  <2>1. d <= last
    BY <1>1
  <2>2. PICK k \in Nat : last = d + k
    BY <1>1, <2>1
  <2>3. DayLength * k \in Nat /\ DayLength * last = DayLength * d + DayLength * k
    BY <1>1, <2>2
  <2> QED BY <1>1, <2>3
<1>3. DayLength * (last + 1) = DayLength * last + DayLength
  BY <1>1
<1> QED BY <1>1, <1>2, <1>3 DEF Interval, Instant

\* The rows, requests and history variables keep their types under every
\* interleaving of the handlers.
LEMMA TypeStep == TypeOK /\ Shape /\ [Next]_vars => TypeOK'
<1> SUFFICES ASSUME TypeOK, Shape, [Next]_vars PROVE TypeOK'
  OBVIOUS
<1> USE IdleType
<1> USE DEF TypeOK
<1>1. ASSUME NEW r \in Req, NEW q \in Request, Begin(r, q) PROVE TypeOK'
  BY <1>1 DEF Begin
<1>2. ASSUME NEW r \in Req, Drop(r),
             UNCHANGED <<appt, block, concurrent, unguarded>> PROVE TypeOK'
  BY <1>2 DEF Drop, Step
<1>3. ASSUME NEW r \in Req, NEW q \in Request, Step(r, q),
             UNCHANGED <<appt, block, concurrent, unguarded>> PROVE TypeOK'
  BY <1>3 DEF Step
<1>4. ASSUME NEW r \in Req, NEW S \in SUBSET (Appt \cup Block), Placed(r, S)
      PROVE  req' \in [Req -> Request]
  <2>1. ASSUME NEW q \in Req PROVE [req[q] EXCEPT !.blind = @ \cup S] \in Request
    BY DEF Request
  <2> QED BY <1>4, <2>1 DEF Placed
<1>5. ASSUME NEW r \in Req, NEW S \in SUBSET (Appt \cup Block)
      PROVE  /\ PairsOf(r, S) \subseteq SUBSET (Appt \cup Block)
             /\ Untouched(S) \subseteq SUBSET (Appt \cup Block)
  BY DEF PairsOf, Untouched, Request
<1>6. ASSUME NEW r \in Req, ClientCreate(r) PROVE TypeOK'
  <2>1. PICK p \in Professional, i \in Slot : Begin(r, Booking(p, i))
    BY <1>6 DEF ClientCreate
  <2>2. Booking(p, i) \in Request
    BY DEF Booking, Request, Idle, Slot, Placing
  <2> QED BY <2>1, <2>2, <1>1
<1>7. ASSUME NEW r \in Req, ProfessionalCreate(r) PROVE TypeOK'
  <2>1. PICK p \in Professional, i \in Slot : Begin(r, Booking(p, i))
    BY <1>7 DEF ProfessionalCreate
  <2>2. Booking(p, i) \in Request
    BY DEF Booking, Request, Idle, Slot, Placing
  <2> QED BY <2>1, <2>2, <1>1
<1>8. ASSUME NEW r \in Req, ClientReschedule(r) PROVE TypeOK'
  <2>1. PICK a \in Appt, i \in Slot :
          \/ Begin(r, [Idle EXCEPT !.op = "clientMove", !.pc = "appts", !.appt = a,
                         !.prof = appt[a].prof, !.want = {i}, !.pend = {i}])
          \/ \E p \in Professional :
               Begin(r, [Idle EXCEPT !.op = "clientMove", !.pc = "appts", !.appt = a,
                           !.prof = p, !.setProf = TRUE, !.want = {i}, !.pend = {i}])
    BY <1>8 DEF ClientReschedule
  <2>2. CASE Begin(r, [Idle EXCEPT !.op = "clientMove", !.pc = "appts", !.appt = a,
                         !.prof = appt[a].prof, !.want = {i}, !.pend = {i}])
    <3>1. [Idle EXCEPT !.op = "clientMove", !.pc = "appts", !.appt = a,
             !.prof = appt[a].prof, !.want = {i}, !.pend = {i}] \in Request
      BY DEF Request, Idle, Slot, Placing, ApptRow
    <3> QED BY <3>1, <2>2, <1>1
  <2>3. ASSUME NEW p \in Professional,
               Begin(r, [Idle EXCEPT !.op = "clientMove", !.pc = "appts", !.appt = a,
                           !.prof = p, !.setProf = TRUE, !.want = {i}, !.pend = {i}])
        PROVE  TypeOK'
    <3>1. [Idle EXCEPT !.op = "clientMove", !.pc = "appts", !.appt = a,
             !.prof = p, !.setProf = TRUE, !.want = {i}, !.pend = {i}] \in Request
      BY DEF Request, Idle, Slot, Placing
    <3> QED BY <3>1, <2>3, <1>1
  <2> QED BY <2>1, <2>2, <2>3
<1>9. ASSUME NEW r \in Req, ProfessionalReschedule(r) PROVE TypeOK'
  <2>1. PICK a \in Appt, i \in Interval :
          Begin(r, [Idle EXCEPT !.op = "proMove", !.pc = "appts", !.appt = a,
                      !.prof = appt[a].prof, !.want = {i}, !.pend = {i}])
    BY <1>9 DEF ProfessionalReschedule
  <2>2. [Idle EXCEPT !.op = "proMove", !.pc = "appts", !.appt = a,
           !.prof = appt[a].prof, !.want = {i}, !.pend = {i}] \in Request
    BY DEF Request, Idle, Placing, ApptRow
  <2> QED BY <2>1, <2>2, <1>1
<1>10. ASSUME NEW r \in Req, ClientConfirm(r) \/ ProfessionalConfirm(r) PROVE TypeOK'
  <2>1. CASE ClientConfirm(r)
    <3>1. PICK a \in Appt :
            Begin(r, [Idle EXCEPT !.op = "confirm", !.pc = "write", !.appt = a,
                        !.reopens = (appt[a].status = "COMPLETED")])
      BY <2>1 DEF ClientConfirm
    <3>2. [Idle EXCEPT !.op = "confirm", !.pc = "write", !.appt = a,
             !.reopens = (appt[a].status = "COMPLETED")] \in Request
      BY DEF Request, Idle, Placing
    <3> QED BY <3>1, <3>2, <1>1
  <2>2. CASE ProfessionalConfirm(r)
    <3>1. PICK a \in Appt :
            Begin(r, [Idle EXCEPT !.op = "confirm", !.pc = "write", !.appt = a])
      BY <2>2 DEF ProfessionalConfirm
    <3>2. [Idle EXCEPT !.op = "confirm", !.pc = "write", !.appt = a] \in Request
      BY DEF Request, Idle, Placing
    <3> QED BY <3>1, <3>2, <1>1
  <2> QED BY <1>10, <2>1, <2>2
<1>11. ASSUME NEW r \in Req, ClientCancel(r) \/ ProfessionalCancel(r) PROVE TypeOK'
  <2>1. PICK a \in Appt : Begin(r, Cancellation(a))
    BY <1>11 DEF ClientCancel, ProfessionalCancel
  <2>2. Cancellation(a) \in Request
    BY DEF Cancellation, Request, Idle, Placing
  <2> QED BY <2>1, <2>2, <1>1
<1>12. ASSUME NEW r \in Req, BlockTimes(r) PROVE TypeOK'
  <2>1. PICK p \in Professional, first \in Instant, last \in Instant,
             s \in 0 .. DayLength, e \in 0 .. DayLength :
          /\ DayLength * (last + 1) <= Horizon
          /\ s < e
          /\ Begin(r, [Idle EXCEPT !.op = "block", !.pc = "appts", !.prof = p,
                         !.want = Plan(first, last, s, e),
                         !.pend = Plan(first, last, s, e),
                         !.allDay = (s = 0 /\ e = DayLength)])
    BY <1>12 DEF BlockTimes
  <2>2. Plan(first, last, s, e) \subseteq Interval
    BY <2>1, PlanType
  <2>3. [Idle EXCEPT !.op = "block", !.pc = "appts", !.prof = p,
           !.want = Plan(first, last, s, e), !.pend = Plan(first, last, s, e),
           !.allDay = (s = 0 /\ e = DayLength)] \in Request
    BY <2>2 DEF Request, Idle, Placing
  <2> QED BY <2>1, <2>3, <1>1
<1>13. ASSUME NEW r \in Req, DeleteBlockedTime(r) PROVE TypeOK'
  <2>1. PICK b \in Block :
          Begin(r, [Idle EXCEPT !.op = "unblock", !.ids = {b}, !.prof = block[b].prof,
                      !.pc = IF block[b].allDay THEN "run" ELSE "write"])
    BY <1>13 DEF DeleteBlockedTime
  <2>2. [Idle EXCEPT !.op = "unblock", !.ids = {b}, !.prof = block[b].prof,
           !.pc = IF block[b].allDay THEN "run" ELSE "write"] \in Request
    BY DEF Request, Idle, Placing, BlockRow
  <2> QED BY <2>1, <2>2, <1>1
<1>14. ASSUME NEW r \in Req, CheckAppts(r) PROVE TypeOK'
  <2>1. PICK i \in req[r].pend :
          \/ Drop(r)
          \/ Step(r, [req[r] EXCEPT !.pend = req[r].pend \ {i}])
          \/ Step(r, [req[r] EXCEPT !.pend = req[r].want, !.pc = "blocks"])
    BY <1>14 DEF CheckAppts, Earliest
  <2>2. UNCHANGED <<appt, block, concurrent, unguarded>>
    BY <1>14 DEF CheckAppts
  <2>3. /\ [req[r] EXCEPT !.pend = req[r].pend \ {i}] \in Request
        /\ [req[r] EXCEPT !.pend = req[r].want, !.pc = "blocks"] \in Request
    BY DEF Request
  <2> QED BY <2>1, <2>2, <2>3, <1>2, <1>3
<1>15. ASSUME NEW r \in Req, CheckBlocks(r) PROVE TypeOK'
  <2>1. PICK i \in req[r].pend :
          \/ Drop(r)
          \/ Step(r, [req[r] EXCEPT !.pend = req[r].pend \ {i}])
          \/ Step(r, [req[r] EXCEPT !.pend = {}, !.pc = "write"])
    BY <1>15 DEF CheckBlocks, Earliest
  <2>2. UNCHANGED <<appt, block, concurrent, unguarded>>
    BY <1>15 DEF CheckBlocks
  <2>3. /\ [req[r] EXCEPT !.pend = req[r].pend \ {i}] \in Request
        /\ [req[r] EXCEPT !.pend = {}, !.pc = "write"] \in Request
    BY DEF Request
  <2> QED BY <2>1, <2>2, <2>3, <1>2, <1>3
<1>16. ASSUME NEW r \in Req, FindRun(r) PROVE TypeOK'
  <2> DEFINE whole == {b \in Block : block[b].prof = req[r].prof /\ block[b].allDay}
  <2>1. UNCHANGED <<appt, block, concurrent, unguarded>>
    BY <1>16 DEF FindRun
  <2>2. CASE Drop(r)
    BY <2>1, <2>2, <1>2
  <2>3. ASSUME NEW f \in ByStart(whole), NEW n \in DOMAIN f,
               Step(r, [req[r] EXCEPT !.ids = RunAround(f, n), !.pc = "write"])
        PROVE  TypeOK'
    <3>1. f \in [1 .. Cardinality(whole) -> whole]
      BY DEF ByStart
    <3>2. RunAround(f, n) \subseteq Block
      BY <3>1 DEF RunAround
    <3>3. [req[r] EXCEPT !.ids = RunAround(f, n), !.pc = "write"] \in Request
      BY <3>2 DEF Request
    <3> QED BY <2>1, <2>3, <3>3, <1>3
  <2> QED BY <1>16, <2>2, <2>3 DEF FindRun
<1>17. ASSUME NEW r \in Req, CommitCreate(r) PROVE TypeOK'
  <2>1. PICK a \in Appt, i \in req[r].want :
          /\ appt' = [appt EXCEPT ![a] = [status |-> "PENDING", prof |-> req[r].prof,
                                          start |-> i.start, end |-> i.end]]
          /\ Placed(r, {a})
          /\ concurrent' = Untouched({a}) \cup PairsOf(r, {a})
    BY <1>17 DEF CommitCreate
  <2>2. UNCHANGED <<block, unguarded>>
    BY <1>17 DEF CommitCreate
  <2>3. i \in Interval
    BY DEF Request
  <2>4. [status |-> "PENDING", prof |-> req[r].prof, start |-> i.start, end |-> i.end] \in ApptRow
    BY <2>3 DEF Request, ApptRow, Interval, Status
  <2> QED BY <2>1, <2>2, <2>4, <1>4, <1>5
<1>18. ASSUME NEW r \in Req, CommitMove(r) PROVE TypeOK'
  <2> DEFINE a == req[r].appt
  <2>1. a \in Appt
    BY <1>18 DEF Shape, ShapeOf, Moving, CommitMove, Writes
  <2>2. PICK i \in req[r].want :
          /\ appt' = [appt EXCEPT ![a] = Moved(r, i)]
          /\ Placed(r, {a})
          /\ concurrent' = Untouched({a}) \cup PairsOf(r, {a})
          /\ unguarded' = IF Moved(r, i).prof = req[r].prof
                          THEN unguarded \ {a} ELSE unguarded \cup {a}
    BY <1>18 DEF CommitMove
  <2>3. Moved(r, i) \in ApptRow
    BY <2>1 DEF Moved, Request, ApptRow, Interval, Status
  <2>4. block' = block
    BY <1>18 DEF CommitMove
  <2> QED BY <2>1, <2>2, <2>3, <2>4, <1>4, <1>5
<1>19. ASSUME NEW r \in Req, CommitConfirm(r) PROVE TypeOK'
  <2> DEFINE a == req[r].appt
  <2>1. a \in Appt
    BY <1>19 DEF Shape, ShapeOf, CommitConfirm, Writes
  <2>2. appt' \in [Appt -> ApptRow]
    BY <1>19, <2>1 DEF CommitConfirm, ApptRow, Status
  <2>3. CASE Drop(r) /\ UNCHANGED <<concurrent, unguarded>>
    BY <1>19, <2>2, <2>3 DEF CommitConfirm, Drop, Step
  <2>4. CASE Placed(r, {a})
    BY <1>19, <2>1, <2>2, <2>4, <1>4, <1>5 DEF CommitConfirm, Drop, Step
  <2> QED BY <1>19, <2>3, <2>4 DEF CommitConfirm
<1>20. ASSUME NEW r \in Req, CommitCancel(r) PROVE TypeOK'
  <2>1. appt' \in [Appt -> ApptRow]
    BY <1>20 DEF CommitCancel, ApptRow, Status
  <2>2. ASSUME NEW q \in Req PROVE [req[q] EXCEPT !.stale = TRUE] \in Request
    BY DEF Request
  <2>3. req' \in [Req -> Request]
    BY <1>20, <2>2 DEF CommitCancel
  <2> QED BY <1>20, <2>1, <2>3 DEF CommitCancel
<1>21. ASSUME NEW r \in Req, CommitBlock(r) PROVE TypeOK'
  <2>1. PICK f \in [req[r].want -> FreeBlocks] :
          LET S == {f[i] : i \in req[r].want}
          IN  /\ block' = [b \in Block |->
                    IF b \in S
                    THEN LET i == CHOOSE k \in req[r].want : f[k] = b
                         IN  [prof |-> req[r].prof, allDay |-> req[r].allDay,
                              start |-> i.start, end |-> i.end]
                    ELSE block[b]]
              /\ Placed(r, S)
              /\ concurrent' = Untouched(S) \cup PairsOf(r, S)
    BY <1>21 DEF CommitBlock
  <2> DEFINE S == {f[i] : i \in req[r].want}
             at(b) == CHOOSE k \in req[r].want : f[k] = b
  <2>2. S \subseteq Block
    BY DEF FreeBlocks
  <2>3. ASSUME NEW b \in S PROVE at(b) \in Interval
    BY DEF Request
  <2>4. ASSUME NEW b \in S
        PROVE  [prof |-> req[r].prof, allDay |-> req[r].allDay,
                start |-> at(b).start, end |-> at(b).end] \in BlockRow
    BY <2>3 DEF Request, BlockRow, Interval
  <2>5. block' \in [Block -> BlockRow]
    BY <2>1, <2>4
  <2>6. UNCHANGED <<appt, unguarded>>
    BY <1>21 DEF CommitBlock
  <2> QED BY <2>1, <2>2, <2>5, <2>6, <1>4, <1>5
<1>22. ASSUME NEW r \in Req, CommitUnblock(r) PROVE TypeOK'
  <2>1. NoBlockRow \in BlockRow
    BY HorizonAssumption DEF NoBlockRow, BlockRow, Instant
  <2> QED BY <1>22, <2>1 DEF CommitUnblock, Drop, Step
<1>23. ASSUME NEW r \in Req, Abort(r) PROVE TypeOK'
  BY <1>23, <1>2 DEF Abort
<1>24. CASE CloseDue
  BY <1>24 DEF CloseDue, ApptRow, Status
<1>25. CASE UNCHANGED vars
  BY <1>25 DEF vars
<1> QED
  BY <1>6, <1>7, <1>8, <1>9, <1>10, <1>11, <1>12, <1>13, <1>14, <1>15, <1>16,
     <1>17, <1>18, <1>19, <1>20, <1>21, <1>22, <1>23, <1>24, <1>25 DEF Next

-----------------------------------------------------------------------------
(* What the other requests keep, and what a request that begins or ends has.*)

World == <<appt, block, concurrent, unguarded>>

\* q is where it was, and if it may place rows it has seen S placed.
Keeps(q, S) ==
  /\ req'[q].op = req[q].op /\ req'[q].pc = req[q].pc
  /\ req'[q].appt = req[q].appt /\ req'[q].prof = req[q].prof
  /\ req'[q].want = req[q].want /\ req'[q].pend = req[q].pend
  /\ req'[q].reopens = req[q].reopens
  /\ req[q].stale => req'[q].stale
  /\ req[q].op \in Placing => req[q].blind \cup S \subseteq req'[q].blind

\* r begins, or it is over: it has checked nothing yet.
Starts(r) ==
  /\ UNCHANGED World
  /\ \A q \in Req \ {r} : req'[q] = req[q]
  /\ ShapeOf(r)'
  /\ \/ req'[r].op \in {"idle", "cancel", "unblock"}
     \/ /\ req'[r].op # "confirm"
        /\ req'[r].pc = "appts" /\ req'[r].pend = req'[r].want
     \/ /\ req'[r].op = "confirm"
        /\ req'[r].reopens \/ Live(req'[r].appt)
  /\ req'[r].op \in {"confirm", "proMove"} => appt[req'[r].appt].status # "CANCELED"

LEMMA DropStarts ==
  ASSUME TypeOK, NEW r \in Req, Drop(r), UNCHANGED World
  PROVE  Starts(r)
BY DEF Drop, Step, Starts, ShapeOf, Idle, TypeOK, Moving, World

LEMMA PlanDisjoint ==
  ASSUME NEW first \in Instant, NEW last \in Instant,
         NEW s \in 0 .. DayLength, NEW e \in 0 .. DayLength, s < e,
         NEW i \in Plan(first, last, s, e), NEW j \in Plan(first, last, s, e), i # j
  PROVE  ~ Overlaps(i, j)
<1>1. PICK c \in first .. last : i = [start |-> DayLength * c + s, end |-> DayLength * c + e]
  BY DEF Plan
<1>2. PICK d \in first .. last : j = [start |-> DayLength * d + s, end |-> DayLength * d + e]
  BY DEF Plan
<1>3. DayLength \in Nat /\ c \in Nat /\ d \in Nat /\ s \in Nat /\ e \in Nat /\ e <= DayLength
  BY HorizonAssumption, DayAssumption DEF Instant
<1>4. ASSUME NEW m \in Nat, NEW n \in Nat, m < n
      PROVE  DayLength * m + e <= DayLength * n + s
  <2>1. PICK k \in Nat : n = m + 1 + k
    <3>1. n - m - 1 \in Nat /\ n = m + 1 + (n - m - 1)
      BY <1>4
    <3> QED BY <3>1
  <2>2. /\ DayLength * n = DayLength * m + DayLength + DayLength * k
        /\ DayLength * k \in Nat /\ DayLength * m \in Nat
    BY <1>3, <2>1
  <2> QED BY <1>3, <2>2
<1>5. DayLength * c \in Nat /\ DayLength * d \in Nat
  BY <1>3
<1>6. CASE c < d
  BY <1>1, <1>2, <1>3, <1>4, <1>5, <1>6 DEF Overlaps
<1>7. CASE d < c
  BY <1>1, <1>2, <1>3, <1>4, <1>5, <1>7 DEF Overlaps
<1> QED BY <1>1, <1>2, <1>3, <1>6, <1>7

\* The fields a new request record may start with.
Opening(q) ==
  \/ /\ q.op \in {"cancel", "unblock"} /\ q.pc \in {"run", "write"} /\ q.want = {}
     /\ q.op = "cancel" => q.appt \in Appt /\ q.pc = "write"
  \/ /\ q.op \in Moving /\ q.pc = "appts" /\ q.pend = q.want
     /\ q.appt \in Appt
     /\ q.op = "proMove" => appt[q.appt].status # "CANCELED"
  \/ /\ q.op \in {"create", "block"} /\ q.pc = "appts" /\ q.pend = q.want
     /\ q.appt = None /\ q.prof \in Professional
     /\ q.op = "block" => \A i, j \in q.want : i # j => ~ Overlaps(i, j)
  \/ /\ q.op = "confirm" /\ q.pc = "write" /\ q.want = {}
     /\ q.appt \in Appt /\ appt[q.appt].status # "CANCELED"
     /\ q.reopens \/ Live(q.appt)

LEMMA OpeningStarts ==
  ASSUME TypeOK, NEW r \in Req, NEW q, Begin(r, q), Opening(q)
  PROVE  Starts(r)
<1>1. req'[r] = q /\ UNCHANGED World /\ \A p \in Req \ {r} : req'[p] = req[p]
  BY DEF Begin, TypeOK, World
<1>2. appt' = appt
  BY <1>1 DEF World
<1>3. ShapeOf(r)'
  BY <1>1 DEF Opening, ShapeOf, Moving
<1>4. /\ \/ q.op \in {"idle", "cancel", "unblock"}
         \/ q.op # "confirm" /\ q.pc = "appts" /\ q.pend = q.want
         \/ q.op = "confirm" /\ (q.reopens \/ Live(q.appt))
      /\ q.op \in {"confirm", "proMove"} => appt[q.appt].status # "CANCELED"
  BY DEF Opening, Moving
<1> QED BY <1>1, <1>2, <1>3, <1>4 DEF Starts, Live

LEMMA BeginStarts ==
  ASSUME TypeOK, Shape, NEW r \in Req,
         \/ ClientCreate(r) \/ ProfessionalCreate(r)
         \/ ClientReschedule(r) \/ ProfessionalReschedule(r)
         \/ ClientConfirm(r) \/ ProfessionalConfirm(r)
         \/ ClientCancel(r) \/ ProfessionalCancel(r)
         \/ BlockTimes(r) \/ DeleteBlockedTime(r)
  PROVE  Starts(r)
<1>1. CASE ClientCreate(r) \/ ProfessionalCreate(r)
  <2>1. PICK p \in Professional, i \in Slot : Begin(r, Booking(p, i))
    BY <1>1 DEF ClientCreate, ProfessionalCreate
  <2>2. Opening(Booking(p, i))
    BY DEF Opening, Booking, Idle
  <2> QED BY <2>1, <2>2, OpeningStarts
<1>2. CASE ClientReschedule(r)
  <2>1. PICK a \in Appt, i \in Slot :
          \/ Begin(r, [Idle EXCEPT !.op = "clientMove", !.pc = "appts", !.appt = a,
                         !.prof = appt[a].prof, !.want = {i}, !.pend = {i}])
          \/ \E p \in Professional :
               Begin(r, [Idle EXCEPT !.op = "clientMove", !.pc = "appts", !.appt = a,
                           !.prof = p, !.setProf = TRUE, !.want = {i}, !.pend = {i}])
    BY <1>2 DEF ClientReschedule
  <2>2. Opening([Idle EXCEPT !.op = "clientMove", !.pc = "appts", !.appt = a,
                   !.prof = appt[a].prof, !.want = {i}, !.pend = {i}])
    BY DEF Opening, Idle, Moving
  <2>3. ASSUME NEW p \in Professional
        PROVE  Opening([Idle EXCEPT !.op = "clientMove", !.pc = "appts", !.appt = a,
                          !.prof = p, !.setProf = TRUE, !.want = {i}, !.pend = {i}])
    BY DEF Opening, Idle, Moving
  <2> QED BY <2>1, <2>2, <2>3, OpeningStarts
<1>3. CASE ProfessionalReschedule(r)
  <2>1. PICK a \in Appt, i \in Interval :
          /\ appt[a].status \in Active
          /\ Begin(r, [Idle EXCEPT !.op = "proMove", !.pc = "appts", !.appt = a,
                         !.prof = appt[a].prof, !.want = {i}, !.pend = {i}])
    BY <1>3 DEF ProfessionalReschedule
  <2>2. Opening([Idle EXCEPT !.op = "proMove", !.pc = "appts", !.appt = a,
                   !.prof = appt[a].prof, !.want = {i}, !.pend = {i}])
    BY <2>1 DEF Opening, Idle, Moving, Active
  <2> QED BY <2>1, <2>2, OpeningStarts
<1>4. CASE ClientConfirm(r)
  <2>1. PICK a \in Appt :
          /\ appt[a].status \in {"PENDING", "COMPLETED"}
          /\ Begin(r, [Idle EXCEPT !.op = "confirm", !.pc = "write", !.appt = a,
                         !.reopens = (appt[a].status = "COMPLETED")])
    BY <1>4 DEF ClientConfirm
  <2>2. Opening([Idle EXCEPT !.op = "confirm", !.pc = "write", !.appt = a,
                   !.reopens = (appt[a].status = "COMPLETED")])
    BY <2>1 DEF Opening, Idle, Live, Active
  <2> QED BY <2>1, <2>2, OpeningStarts
<1>5. CASE ProfessionalConfirm(r)
  <2>1. PICK a \in Appt :
          /\ appt[a].status = "PENDING"
          /\ Begin(r, [Idle EXCEPT !.op = "confirm", !.pc = "write", !.appt = a])
    BY <1>5 DEF ProfessionalConfirm
  <2>2. Opening([Idle EXCEPT !.op = "confirm", !.pc = "write", !.appt = a])
    BY <2>1 DEF Opening, Idle, Live, Active
  <2> QED BY <2>1, <2>2, OpeningStarts
<1>6. CASE ClientCancel(r) \/ ProfessionalCancel(r)
  <2>1. PICK a \in Appt : Begin(r, Cancellation(a))
    BY <1>6 DEF ClientCancel, ProfessionalCancel
  <2>2. Opening(Cancellation(a))
    BY DEF Opening, Cancellation, Idle
  <2> QED BY <2>1, <2>2, OpeningStarts
<1>7. CASE BlockTimes(r)
  <2>1. PICK p \in Professional, first \in Instant, last \in Instant,
             s \in 0 .. DayLength, e \in 0 .. DayLength :
          /\ s < e
          /\ Begin(r, [Idle EXCEPT !.op = "block", !.pc = "appts", !.prof = p,
                         !.want = Plan(first, last, s, e),
                         !.pend = Plan(first, last, s, e),
                         !.allDay = (s = 0 /\ e = DayLength)])
    BY <1>7 DEF BlockTimes
  <2>2. \A i, j \in Plan(first, last, s, e) : i # j => ~ Overlaps(i, j)
    BY <2>1, PlanDisjoint
  <2>3. Opening([Idle EXCEPT !.op = "block", !.pc = "appts", !.prof = p,
                   !.want = Plan(first, last, s, e),
                   !.pend = Plan(first, last, s, e),
                   !.allDay = (s = 0 /\ e = DayLength)])
    BY <2>2 DEF Opening, Idle
  <2> QED BY <2>1, <2>3, OpeningStarts
<1>8. CASE DeleteBlockedTime(r)
  <2>1. PICK b \in Block :
          Begin(r, [Idle EXCEPT !.op = "unblock", !.ids = {b}, !.prof = block[b].prof,
                      !.pc = IF block[b].allDay THEN "run" ELSE "write"])
    BY <1>8 DEF DeleteBlockedTime
  <2>2. Opening([Idle EXCEPT !.op = "unblock", !.ids = {b}, !.prof = block[b].prof,
                   !.pc = IF block[b].allDay THEN "run" ELSE "write"])
    BY DEF Opening, Idle
  <2> QED BY <2>1, <2>2, OpeningStarts
<1> QED BY <1>1, <1>2, <1>3, <1>4, <1>5, <1>6, <1>7, <1>8

LEMMA RunStarts ==
  ASSUME TypeOK, Shape, NEW r \in Req, FindRun(r)
  PROVE  Starts(r)
<1>1. UNCHANGED World /\ req[r].op = "unblock" /\ req[r].want = {} /\ req[r] \in Request
  BY DEF FindRun, World, Shape, ShapeOf, TypeOK
<1>2. CASE Drop(r)
  BY <1>1, <1>2, DropStarts
<1>3. CASE \E I : Step(r, [req[r] EXCEPT !.ids = I, !.pc = "write"])
  <2>1. PICK I : req' = [req EXCEPT ![r] = [req[r] EXCEPT !.ids = I, !.pc = "write"]]
    BY <1>3 DEF Step
  <2>2. req'[r] = [req[r] EXCEPT !.ids = I, !.pc = "write"] /\ \A q \in Req \ {r} : req'[q] = req[q]
    BY <2>1 DEF TypeOK
  <2>3. req'[r].op = "unblock" /\ req'[r].pc = "write" /\ req'[r].want = {}
    BY <1>1, <2>2 DEF Request
  <2> QED BY <1>1, <2>2, <2>3 DEF Starts, ShapeOf, Moving
<1> QED BY <1>2, <1>3 DEF FindRun

-----------------------------------------------------------------------------
(* What each write changes, for the requests that stay in flight.          *)

\* The row b of the Appointment table still has its slot on the same agenda.
SameSlot(b) == /\ appt'[b].prof = appt[b].prof
               /\ appt'[b].start = appt[b].start /\ appt'[b].end = appt[b].end

\* Every row that stands after the step is in S or stood there before.
Adds(S) ==
  /\ \A b \in Appt \ S : SameSlot(b) /\ (Live(b)' => Live(b))
  /\ \A b \in Block \ S : block'[b] = block[b] \/ ~ Stands(b)'

\* The history forgets nothing that does not concern S.
Remembers(S) ==
  /\ \A c \in concurrent : c \cap S = {} => c \in concurrent'
  /\ \A b \in unguarded \ S : b \in unguarded'

LEMMA KeepsSeen ==
  ASSUME TypeOK, Shape, NEW q \in Req, NEW S, Keeps(q, S), Adds(S),
         ApptsSeen(q), BlocksSeen(q)
  PROVE  ApptsSeen(q)' /\ BlocksSeen(q)'
<1>1. CASE req[q].op \in Placing
  <2>1. req[q].blind \cup S \subseteq req'[q].blind
    BY <1>1 DEF Keeps
  <2>2. ASSUME NEW i \in ApptsChecked(q), NEW b \in Clashing(q, i)'
        PROVE  b \in req'[q].blind
    <3>1. CASE b \in S
      BY <2>1, <3>1
    <3>2. CASE b \notin S
      <4>1. b \in Appt /\ Live(b) /\ SameSlot(b)
        BY <3>2 DEF Clashing, Adds, Live
      <4>2. b \in Clashing(q, i)
        BY <4>1 DEF Clashing, Live, Keeps, SameSlot, Overlaps
      <4> QED BY <2>1, <4>2 DEF ApptsSeen
    <3> QED BY <3>1, <3>2
  <2>3. ASSUME NEW i \in BlocksChecked(q), NEW b \in Blocking(q, i)'
        PROVE  b \in req'[q].blind
    <3>1. CASE b \in S
      BY <2>1, <3>1
    <3>2. CASE b \notin S
      <4>1. b \in Block /\ Stands(b)' /\ block'[b] = block[b]
        BY <3>2 DEF Blocking, Adds, Stands
      <4>2. b \in Blocking(q, i)
        BY <4>1 DEF Blocking, Stands, Keeps
      <4> QED BY <2>1, <4>2 DEF BlocksSeen
    <3> QED BY <3>1, <3>2
  <2>4. ApptsChecked(q)' = ApptsChecked(q) /\ BlocksChecked(q)' = BlocksChecked(q)
    BY DEF Keeps, ApptsChecked, BlocksChecked
  <2> QED BY <2>2, <2>3, <2>4 DEF ApptsSeen, BlocksSeen
<1>2. CASE req[q].op \notin Placing
  <2>1. req[q].want = {}
    BY <1>2 DEF TypeOK, Request, Shape, ShapeOf, Placing
  <2>2. ApptsChecked(q)' = {} /\ BlocksChecked(q)' = {}
    BY <2>1 DEF Keeps, ApptsChecked, BlocksChecked
  <2> QED BY <2>2 DEF ApptsSeen, BlocksSeen
<1> QED BY <1>1, <1>2

\* A request with nothing checked satisfies both.
LEMMA NothingChecked ==
  ASSUME NEW r \in Req,
         \/ req'[r].want = {}
         \/ req'[r].pc = "appts" /\ req'[r].pend = req'[r].want
  PROVE  ApptsSeen(r)' /\ BlocksSeen(r)'
<1>1. ApptsChecked(r)' = {} /\ BlocksChecked(r)' = {}
  BY DEF ApptsChecked, BlocksChecked
<1> QED BY <1>1 DEF ApptsSeen, BlocksSeen

LEMMA StartsKeeps ==
  ASSUME NEW r \in Req, NEW q \in Req \ {r}, Starts(r) PROVE Keeps(q, {})
BY DEF Starts, Keeps

LEMMA StartsFacts ==
  ASSUME NEW r \in Req, Starts(r)
  PROVE  /\ UNCHANGED World /\ Adds({}) /\ Remembers({})
         /\ \/ req'[r].want = {}
            \/ req'[r].pc = "appts" /\ req'[r].pend = req'[r].want
BY DEF Starts, World, Adds, Remembers, ShapeOf, SameSlot, Live, Stands

LEMMA KeepsLess == \A q, S : Keeps(q, S) => Keeps(q, {})
BY DEF Keeps

LEMMA PlacedKeeps ==
  ASSUME TypeOK, NEW r \in Req, NEW q \in Req \ {r}, NEW S, Placed(r, S)
  PROVE  Keeps(q, S)
<1>1. req[q] \in Request /\ req'[q] = IF req[q].op \in Placing \cup {"unblock"}
                                      THEN [req[q] EXCEPT !.blind = @ \cup S] ELSE req[q]
  BY DEF Placed, TypeOK
<1> QED BY <1>1 DEF Keeps, Request

LEMMA IdleFacts == /\ Idle.op = "idle" /\ Idle.pc = "idle" /\ Idle.want = {}
                   /\ Idle.pend = {} /\ ~ Idle.stale /\ ~ Idle.reopens
BY DEF Idle

\* The writes, each as: r ends, the others keep what they had and have seen S.
Ends(r, S) == /\ req'[r] = Idle
              /\ \A q \in Req \ {r} : Keeps(q, S)
              /\ Adds(S)
              /\ Remembers(S)

LEMMA CreateEnds ==
  ASSUME TypeOK, NEW r \in Req, CommitCreate(r),
         NEW a \in Appt, NEW i \in req[r].want,
         appt' = [appt EXCEPT ![a] = [status |-> "PENDING", prof |-> req[r].prof,
                                     start |-> i.start, end |-> i.end]],
         Placed(r, {a}),
         concurrent' = Untouched({a}) \cup PairsOf(r, {a})
  PROVE  Ends(r, {a})
<1>1. block' = block /\ unguarded' = unguarded /\ req'[r] = Idle
  BY DEF CommitCreate, Placed
<1>2. (\A b \in Appt \ {a} : appt'[b] = appt[b]) /\ Untouched({a}) \subseteq concurrent'
  BY DEF TypeOK
<1>3. Adds({a}) /\ Remembers({a})
  BY <1>1, <1>2 DEF Adds, Remembers, Untouched, SameSlot, Live
<1> QED BY <1>1, <1>3, PlacedKeeps DEF Ends

LEMMA WriteEnds ==
  ASSUME TypeOK, Shape, NEW r \in Req
  PROVE  /\ CommitMove(r) => Ends(r, {req[r].appt})
         /\ CommitConfirm(r) /\ Live(req[r].appt) => Ends(r, {})
         /\ CommitConfirm(r) /\ ~ Live(req[r].appt) => Ends(r, {req[r].appt})
         /\ CommitCancel(r) => Ends(r, {})
         /\ CommitBlock(r) => \E S \in SUBSET Block : Ends(r, S)
         /\ CommitUnblock(r) => Ends(r, {})
<1>2. ASSUME CommitMove(r) PROVE Ends(r, {req[r].appt})
  <2>1. /\ Placed(r, {req[r].appt})
        /\ \A b \in Appt \ {req[r].appt} : appt'[b] = appt[b]
        /\ Untouched({req[r].appt}) \subseteq concurrent'
        /\ unguarded \ {req[r].appt} \subseteq unguarded'
    BY <1>2 DEF CommitMove, TypeOK
  <2>2. block' = block
    BY <1>2 DEF CommitMove
  <2>3. Adds({req[r].appt}) /\ Remembers({req[r].appt})
    BY <2>1, <2>2 DEF Adds, Remembers, Untouched, SameSlot, Live
  <2>4. req'[r] = Idle
    BY <2>1 DEF Placed
  <2> QED BY <2>1, <2>3, <2>4, PlacedKeeps DEF Ends
<1>3. ASSUME CommitConfirm(r)
      PROVE  \/ Live(req[r].appt) /\ Ends(r, {})
             \/ ~ Live(req[r].appt) /\ Ends(r, {req[r].appt})
  <2>1. /\ block' = block
        /\ \A b \in Appt \ {req[r].appt} : appt'[b] = appt[b]
        /\ concurrent \subseteq concurrent' /\ unguarded \subseteq unguarded'
    BY <1>3 DEF CommitConfirm, TypeOK
  <2>2. CASE appt[req[r].appt].status \in Active
    <3>1. Drop(r)
      BY <1>3, <2>2 DEF CommitConfirm
    <3>2. req'[r] = Idle /\ \A q \in Req \ {r} : req'[q] = req[q]
      BY <3>1 DEF Drop, Step, TypeOK
    <3>3. Adds({}) /\ Remembers({})
      <4>1. req[r].appt \in Appt
        BY <1>3 DEF Shape, ShapeOf, CommitConfirm, Writes
      <4>2. SameSlot(req[r].appt) /\ Live(req[r].appt)
        BY <1>3, <2>2, <4>1 DEF SameSlot, Live, CommitConfirm, TypeOK, ApptRow
      <4> QED BY <2>1, <4>2 DEF Adds, Remembers, Live, SameSlot
    <3> QED BY <2>2, <3>2, <3>3 DEF Ends, Keeps, Live
  <2>3. CASE appt[req[r].appt].status \notin Active
    <3>1. Placed(r, {req[r].appt})
      BY <1>3, <2>3 DEF CommitConfirm
    <3>2. req'[r] = Idle
      BY <3>1 DEF Placed
    <3>3. Adds({req[r].appt}) /\ Remembers({req[r].appt})
      BY <2>1 DEF Adds, Remembers, SameSlot, Live
    <3> QED BY <2>3, <3>1, <3>2, <3>3, PlacedKeeps DEF Ends, Live
  <2> QED BY <2>2, <2>3
<1>4. ASSUME CommitCancel(r) PROVE Ends(r, {})
  <2>1. req'[r] = Idle /\ \A q \in Req \ {r} : Keeps(q, {})
    BY <1>4 DEF CommitCancel, Keeps, TypeOK, Request
  <2>2. ASSUME NEW b \in Appt PROVE SameSlot(b) /\ (Live(b)' => Live(b))
    BY <1>4 DEF CommitCancel, Live, Active, SameSlot, TypeOK, ApptRow
  <2>3. UNCHANGED <<block, concurrent, unguarded>>
    BY <1>4 DEF CommitCancel
  <2> QED BY <2>1, <2>2, <2>3 DEF Ends, Adds, Remembers
<1>5. ASSUME CommitBlock(r) PROVE \E S \in SUBSET Block : Ends(r, S)
  <2>1. PICK S \in SUBSET Block : /\ Placed(r, S)
                                  /\ \A b \in Block \ S : block'[b] = block[b]
                                  /\ Untouched(S) \subseteq concurrent'
    BY <1>5 DEF CommitBlock, FreeBlocks
  <2>2. appt' = appt /\ unguarded' = unguarded
    BY <1>5 DEF CommitBlock
  <2>3. req'[r] = Idle
    BY <2>1 DEF Placed
  <2>4. Adds(S) /\ Remembers(S)
    BY <2>1, <2>2 DEF Adds, Remembers, Untouched, SameSlot, Live
  <2> QED BY <2>1, <2>3, <2>4, PlacedKeeps DEF Ends
<1>6. ASSUME CommitUnblock(r) PROVE Ends(r, {})
  <2>1. req'[r] = Idle /\ \A q \in Req \ {r} : req'[q] = req[q]
    BY <1>6 DEF CommitUnblock, Drop, Step, TypeOK
  <2>2. Adds({}) /\ Remembers({})
    BY <1>6 DEF CommitUnblock, Adds, Remembers, Stands, NoBlockRow, SameSlot, Live
  <2> QED BY <2>1, <2>2 DEF Ends, Keeps
<1> QED BY <1>2, <1>3, <1>4, <1>5, <1>6

LEMMA CloseDueKeeps ==
  ASSUME TypeOK, CloseDue
  PROVE  Adds({}) /\ Remembers({}) /\ req' = req
<1>1. ASSUME NEW b \in Appt PROVE SameSlot(b) /\ (Live(b)' => Live(b))
  BY DEF CloseDue, SameSlot, Live, Active, TypeOK, ApptRow
<1> QED BY <1>1 DEF CloseDue, Adds, Remembers

-----------------------------------------------------------------------------
(* A row is settled if nothing stands over it, except what V or the history *)
(* accounts for.                                                           *)

Settles(a, V) ==
  /\ \A b \in Appt : SameAgenda(a, b) => b \in V \/ Excused(a, b)
  /\ \A b \in Block : UnderBlock(a, b) => b \in V \/ Excused(a, b)

LEMMA InvSettles ==
  TypeOK => ((OverlapOnlyConcurrent /\ BlockedOnlyConcurrent)
               <=> \A a \in Appt : Live(a) => Settles(a, {}))
BY SortAssumption DEF TypeOK, OverlapOnlyConcurrent, BlockedOnlyConcurrent, Settles,
   SameAgenda, UnderBlock, Excused

LEMMA ConfirmSettles ==
  ASSUME NEW r \in Req
  PROVE  ConfirmSeen(r) <=>
           (req[r].op = "confirm" /\ ~ req[r].reopens =>
              \A a \in Appt : a = req[r].appt => Settles(a, req[r].blind))
BY DEF ConfirmSeen, Settles

LEMMA SettlesKeep ==
  ASSUME TypeOK, NEW S, NEW V, NEW W, NEW a \in Appt \ S,
         Adds(S), Remembers(S), Settles(a, V), V \cup S \subseteq W
  PROVE  Settles(a, W)'
<1>1. SameSlot(a)
  BY DEF Adds
<1>2. ASSUME NEW b \in Appt, SameAgenda(a, b)', b \notin W PROVE Excused(a, b)'
  <2>1. SameSlot(b) /\ Live(b)
    BY <1>2 DEF Adds, SameAgenda
  <2>2. SameAgenda(a, b)
    BY <1>1, <1>2, <2>1 DEF SameAgenda, SameSlot, Overlaps
  <2>3. Excused(a, b)
    BY <1>2, <2>2 DEF Settles
  <2> QED BY <1>2, <2>3 DEF Excused, Remembers
<1>3. ASSUME NEW b \in Block, UnderBlock(a, b)', b \notin W PROVE Excused(a, b)'
  <2>1. block'[b] = block[b] /\ Stands(b)
    BY <1>3 DEF Adds, UnderBlock, Stands
  <2>2. UnderBlock(a, b)
    BY <1>1, <1>3, <2>1 DEF UnderBlock, SameSlot, Overlaps, Stands
  <2>3. Excused(a, b)
    BY <1>3, <2>2 DEF Settles
  <2> QED BY <1>3, <2>3 DEF Excused, Remembers
<1> QED BY <1>2, <1>3 DEF Settles

\* What a booking, a move or a reconfirmation puts on an agenda is settled.
LEMMA CreateSettles ==
  ASSUME IInv, NEW r \in Req, CommitCreate(r),
         NEW a \in Appt, NEW i \in req[r].want,
         appt' = [appt EXCEPT ![a] = [status |-> "PENDING", prof |-> req[r].prof,
                                     start |-> i.start, end |-> i.end]],
         concurrent' = Untouched({a}) \cup PairsOf(r, {a})
  PROVE  Settles(a, {})'
<1>1. /\ req[r].pc = "write" /\ req[r].op = "create" /\ req[r].appt = None
      /\ block' = block
  BY DEF CommitCreate, Writes, IInv, Shape, ShapeOf
<1>2. i \in ApptsChecked(r) /\ i \in BlocksChecked(r)
  BY <1>1 DEF ApptsChecked, BlocksChecked
<1>3. /\ appt'[a].prof = req[r].prof /\ appt'[a].start = i.start /\ appt'[a].end = i.end
      /\ \A b \in Appt \ {a} : appt'[b] = appt[b]
  BY DEF IInv, TypeOK
<1>4. ASSUME NEW b \in Appt, SameAgenda(a, b)' PROVE {a, b} \in concurrent'
  <2>1. b # a /\ Live(b) /\ appt[b].prof = req[r].prof /\ Overlaps(appt[b], i)
    BY <1>3, <1>4 DEF SameAgenda, Live, Overlaps
  <2>2. b \in Clashing(r, i)
    BY <1>1, <2>1, SortAssumption DEF Clashing, Live
  <2>3. b \in req[r].blind
    BY <1>2, <2>2 DEF IInv, ApptsSeen
  <2> QED BY <2>1, <2>3 DEF PairsOf
<1>5. ASSUME NEW b \in Block, UnderBlock(a, b)' PROVE {a, b} \in concurrent'
  <2>1. b # a /\ Stands(b) /\ block[b].prof = req[r].prof /\ Overlaps(block[b], i)
    BY <1>1, <1>3, <1>5, SortAssumption DEF UnderBlock, Stands, Overlaps
  <2>2. b \in Blocking(r, i)
    BY <2>1 DEF Blocking, Stands
  <2>3. b \in req[r].blind
    BY <1>2, <2>2 DEF IInv, BlocksSeen
  <2> QED BY <2>1, <2>3 DEF PairsOf
<1> QED BY <1>4, <1>5 DEF Settles, Excused

LEMMA MoveSettles ==
  ASSUME IInv, NEW r \in Req, CommitMove(r), NEW a \in Appt, a = req[r].appt
  PROVE  Settles(a, {})'
<1>1. PICK i \in req[r].want :
        /\ appt' = [appt EXCEPT ![a] = Moved(r, i)]
        /\ concurrent' = Untouched({a}) \cup PairsOf(r, {a})
        /\ unguarded' = IF Moved(r, i).prof = req[r].prof
                        THEN unguarded \ {a} ELSE unguarded \cup {a}
  BY DEF CommitMove
<1>2. req[r].pc = "write" /\ block' = block
  BY DEF CommitMove, Writes
<1>3. i \in ApptsChecked(r) /\ i \in BlocksChecked(r)
  BY <1>2 DEF ApptsChecked, BlocksChecked
<1>4. CASE Moved(r, i).prof # req[r].prof
  BY <1>1, <1>4 DEF Settles, Excused
<1>5. CASE Moved(r, i).prof = req[r].prof
  <2>1. /\ appt'[a].prof = req[r].prof /\ appt'[a].start = i.start /\ appt'[a].end = i.end
        /\ \A b \in Appt \ {a} : appt'[b] = appt[b]
    BY <1>1, <1>5 DEF IInv, TypeOK, Moved
  <2>2. ASSUME NEW b \in Appt, SameAgenda(a, b)' PROVE {a, b} \in concurrent'
    <3>1. b # a /\ Live(b) /\ appt[b].prof = req[r].prof /\ Overlaps(appt[b], i)
      BY <2>1, <2>2 DEF SameAgenda, Live, Overlaps
    <3>2. b \in Clashing(r, i)
      BY <3>1 DEF Clashing, Live
    <3>3. b \in req[r].blind
      BY <1>3, <3>2 DEF IInv, ApptsSeen
    <3> QED BY <1>1, <3>1, <3>3 DEF PairsOf
  <2>3. ASSUME NEW b \in Block, UnderBlock(a, b)' PROVE {a, b} \in concurrent'
    <3>1. b # a /\ Stands(b) /\ block[b].prof = req[r].prof /\ Overlaps(block[b], i)
      BY <1>2, <2>1, <2>3, SortAssumption DEF UnderBlock, Stands, Overlaps
    <3>2. b \in Blocking(r, i)
      BY <3>1 DEF Blocking, Stands
    <3>3. b \in req[r].blind
      BY <1>3, <3>2 DEF IInv, BlocksSeen
    <3> QED BY <1>1, <3>1, <3>3 DEF PairsOf
  <2> QED BY <2>2, <2>3 DEF Settles, Excused
<1> QED BY <1>4, <1>5

LEMMA ConfirmWriteSettles ==
  ASSUME IInv, NEW r \in Req, CommitConfirm(r), NEW a \in Appt, a = req[r].appt, ~ Live(a)
  PROVE  Settles(a, {})'
<1>1. /\ appt' = [appt EXCEPT ![a].status = "CONFIRMED"] /\ block' = block
      /\ concurrent' = concurrent \cup PairsOf(r, {a})
      /\ unguarded' = IF req[r].reopens THEN unguarded \cup {a} ELSE unguarded
  BY DEF CommitConfirm, Live
<1>2. CASE req[r].reopens
  BY <1>1, <1>2 DEF Settles, Excused
<1>3. CASE ~ req[r].reopens
  <2>1. Settles(a, req[r].blind)
    BY <1>3 DEF IInv, ConfirmSeen, Settles, CommitConfirm, Writes
  <2>2. SameSlot(a) /\ \A b \in Appt \ {a} : appt'[b] = appt[b]
    BY <1>1 DEF SameSlot, IInv, TypeOK, ApptRow
  <2>3. ASSUME NEW b \in Appt, SameAgenda(a, b)' PROVE Excused(a, b)'
    <3>1. SameAgenda(a, b)
      BY <2>2, <2>3 DEF SameAgenda, SameSlot, Live, Overlaps
    <3>2. b # a /\ (b \in req[r].blind \/ Excused(a, b))
      BY <2>1, <3>1 DEF Settles, SameAgenda
    <3> QED BY <1>1, <1>3, <3>2 DEF Excused, PairsOf
  <2>4. ASSUME NEW b \in Block, UnderBlock(a, b)' PROVE Excused(a, b)'
    <3>1. UnderBlock(a, b)
      BY <1>1, <2>2, <2>4 DEF UnderBlock, SameSlot, Stands, Overlaps
    <3>2. b # a /\ (b \in req[r].blind \/ Excused(a, b))
      BY <2>1, <3>1, SortAssumption DEF Settles
    <3> QED BY <1>1, <1>3, <3>2 DEF Excused, PairsOf
  <2> QED BY <2>3, <2>4 DEF Settles
<1> QED BY <1>2, <1>3

\* New blocks stand over nothing but what was placed since their request began.
LEMMA BlockSettles ==
  ASSUME IInv, NEW r \in Req, CommitBlock(r)
  PROVE  \E S \in SUBSET Block :
           /\ Ends(r, S)
           /\ \A b \in S, a \in Appt : Live(a)' /\ UnderBlock(a, b)' => Excused(a, b)'
           /\ \A b \in S, c \in Block :
                b # c /\ Stands(c)' /\ block'[b].prof = block'[c].prof
                  /\ Overlaps(block[b], block[c])' => {b, c} \in concurrent'
<1>1. PICK f \in [req[r].want -> FreeBlocks] :
        LET S == {f[i] : i \in req[r].want}
        IN  /\ \A i, j \in req[r].want : f[i] = f[j] => i = j
            /\ block' = [b \in Block |->
                  IF b \in S
                  THEN LET i == CHOOSE k \in req[r].want : f[k] = b
                       IN  [prof |-> req[r].prof, allDay |-> req[r].allDay,
                            start |-> i.start, end |-> i.end]
                  ELSE block[b]]
            /\ Placed(r, S)
            /\ concurrent' = Untouched(S) \cup PairsOf(r, S)
  BY DEF CommitBlock
<1> DEFINE S == {f[i] : i \in req[r].want}
           at(b) == CHOOSE k \in req[r].want : f[k] = b
<1>2. /\ req[r].pc = "write" /\ req[r].op = "block"
      /\ req[r].appt = None /\ req[r].prof \in Professional
      /\ appt' = appt /\ unguarded' = unguarded
      /\ \A i, j \in req[r].want : i # j => ~ Overlaps(i, j)
  BY DEF CommitBlock, Writes, IInv, Shape, ShapeOf
<1>3. S \subseteq Block
  BY DEF FreeBlocks
<1>4. Ends(r, S)
  <2>1. Placed(r, S) /\ req'[r] = Idle
    BY <1>1 DEF Placed
  <2>2. Untouched(S) \subseteq concurrent' /\ \A b \in Block \ S : block'[b] = block[b]
    BY <1>1
  <2>3. Adds(S) /\ Remembers(S)
    BY <1>2, <2>2 DEF Adds, Remembers, Untouched, SameSlot, Live
  <2> QED BY <2>1, <2>3, PlacedKeeps DEF Ends, IInv
<1>5. ASSUME NEW b \in S
      PROVE  /\ at(b) \in req[r].want /\ f[at(b)] = b
             /\ at(b) \in ApptsChecked(r) /\ at(b) \in BlocksChecked(r)
             /\ block'[b].prof = req[r].prof
             /\ block'[b].start = at(b).start /\ block'[b].end = at(b).end
  <2>1. at(b) \in req[r].want /\ f[at(b)] = b
    OBVIOUS
  <2>2. block'[b] = [prof |-> req[r].prof, allDay |-> req[r].allDay,
                     start |-> at(b).start, end |-> at(b).end]
    BY <1>1, <1>3
  <2> QED BY <1>2, <2>1, <2>2 DEF ApptsChecked, BlocksChecked
<1>6. ASSUME NEW b \in S, NEW a \in Appt, Live(a)', UnderBlock(a, b)'
      PROVE  Excused(a, b)'
  <2>1. Live(a) /\ appt[a].prof = req[r].prof /\ Overlaps(appt[a], at(b))
    BY <1>2, <1>5, <1>6 DEF UnderBlock, Live, Overlaps
  <2>2. a \in Clashing(r, at(b))
    BY <1>2, <2>1, SortAssumption DEF Clashing, Live
  <2>3. a \in req[r].blind /\ a \notin S
    BY <1>3, <1>5, <2>2, SortAssumption DEF IInv, ApptsSeen
  <2>4. {b, a} \in PairsOf(r, S) /\ {b, a} = {a, b}
    BY <2>3 DEF PairsOf
  <2> QED BY <1>1, <2>4 DEF Excused
<1>7. ASSUME NEW b \in S, NEW c \in Block, b # c, Stands(c)',
             block'[b].prof = block'[c].prof, Overlaps(block[b], block[c])'
      PROVE  {b, c} \in concurrent'
  <2>1. CASE c \in S
    <3>1. at(b) # at(c)
      BY <1>5, <1>7, <2>1
    <3>2. ~ Overlaps(at(b), at(c))
      BY <1>2, <1>5, <2>1, <3>1
    <3> QED BY <1>5, <1>7, <2>1, <3>2 DEF Overlaps
  <2>2. CASE c \notin S
    <3>1. block'[c] = block[c]
      BY <1>1, <2>2
    <3>2. c \in Blocking(r, at(b))
      BY <1>5, <1>7, <3>1 DEF Blocking, Stands, Overlaps
    <3>3. c \in req[r].blind
      BY <1>5, <3>2 DEF IInv, BlocksSeen
    <3>4. {b, c} \in PairsOf(r, S)
      BY <2>2, <3>3 DEF PairsOf
    <3> QED BY <1>1, <3>4
  <2> QED BY <2>1, <2>2
<1> QED BY <1>3, <1>4, <1>6, <1>7

-----------------------------------------------------------------------------
(* The induction step, first for what the requests know.                   *)

Known == \A q \in Req : ApptsSeen(q) /\ BlocksSeen(q) /\ ConfirmSeen(q)

LEMMA EndsKnown ==
  ASSUME IInv, NEW r \in Req, NEW S, Ends(r, S),
         \A a \in Appt \cap S : Settles(a, {})'
  PROVE  Shape' /\ Known'
<1>1. ShapeOf(r)'
  BY IdleFacts DEF Ends, ShapeOf, Moving
<1>2. ASSUME NEW q \in Req \ {r} PROVE ShapeOf(q)'
  BY <1>2 DEF IInv, Shape, ShapeOf, Ends, Keeps
<1>3. ApptsSeen(r)' /\ BlocksSeen(r)' /\ ConfirmSeen(r)'
  BY IdleFacts, NothingChecked DEF Ends, ConfirmSeen
<1>4. ASSUME NEW q \in Req \ {r} PROVE ApptsSeen(q)' /\ BlocksSeen(q)'
  BY <1>4, KeepsSeen DEF Ends, IInv
<1>5. ASSUME NEW q \in Req \ {r}, NEW a \in Appt, NEW W, W = req'[q].blind,
             req'[q].op = "confirm", ~ req'[q].reopens, a = req'[q].appt
      PROVE  Settles(a, W)'
  <2>1. req[q].op = "confirm" /\ ~ req[q].reopens /\ a = req[q].appt
    BY <1>5 DEF Ends, Keeps
  <2>2. req[q].blind \cup S \subseteq W
    BY <1>5, <2>1 DEF Ends, Keeps, Placing
  <2>3. CASE a \in S
    BY <2>3 DEF Settles
  <2>4. CASE a \notin S
    <3>1. PICK V : V = req[q].blind
      OBVIOUS
    <3>2. Settles(a, V)
      BY <2>1, <3>1, ConfirmSettles DEF IInv
    <3> QED BY <2>2, <2>4, <3>1, <3>2, SettlesKeep DEF Ends, IInv
  <2> QED BY <2>3, <2>4
<1>6. ASSUME NEW q \in Req \ {r} PROVE ConfirmSeen(q)'
  <2>1. SUFFICES ASSUME req'[q].op = "confirm", ~ req'[q].reopens,
                        NEW a \in Appt, a = req'[q].appt
                 PROVE  /\ \A b \in Appt : SameAgenda(a, b)' => b \in req'[q].blind \/ Excused(a, b)'
                        /\ \A b \in Block : UnderBlock(a, b)' => b \in req'[q].blind \/ Excused(a, b)'
    BY DEF ConfirmSeen
  <2>2. PICK W : W = req'[q].blind
    OBVIOUS
  <2>3. Settles(a, W)'
    BY <1>5, <2>1, <2>2
  <2> QED BY <2>2, <2>3 DEF Settles
<1> QED BY <1>1, <1>2, <1>3, <1>4, <1>6 DEF Shape, Known

LEMMA ReadsKnown ==
  ASSUME IInv, NEW r \in Req,
         \/ Starts(r)
         \/ (CheckAppts(r) \/ CheckBlocks(r)) /\ ~ Drop(r)
  PROVE  Shape' /\ Known'
<1>1. UNCHANGED World /\ Adds({}) /\ Remembers({})
  <2>1. UNCHANGED World
    BY DEF Starts, CheckAppts, CheckBlocks, World
  <2> QED BY <2>1 DEF World, Adds, Remembers, SameSlot, Live, Stands
<1>2. \A q \in Req \ {r} : req'[q] = req[q] /\ Keeps(q, {})
  BY DEF Starts, CheckAppts, CheckBlocks, Step, IInv, TypeOK, Keeps
<1>3. ASSUME NEW q \in Req \ {r}
      PROVE  ShapeOf(q)' /\ ApptsSeen(q)' /\ BlocksSeen(q)' /\ ConfirmSeen(q)'
  <2>1. ShapeOf(q)'
    BY <1>2 DEF IInv, Shape, ShapeOf
  <2>2. ApptsSeen(q)' /\ BlocksSeen(q)'
    BY <1>1, <1>2, KeepsSeen DEF IInv
  <2>3. ConfirmSeen(q)'
    BY <1>1, <1>2 DEF IInv, ConfirmSeen, World, SameAgenda, UnderBlock, Live, Stands, Excused
  <2> QED BY <2>1, <2>2, <2>3
<1>4. CASE Starts(r)
  <2>1. ShapeOf(r)' /\ ApptsSeen(r)' /\ BlocksSeen(r)'
    BY <1>4, StartsFacts, NothingChecked DEF Starts
  <2>2. ConfirmSeen(r)'
    <3>1. SUFFICES ASSUME req'[r].op = "confirm", ~ req'[r].reopens,
                          NEW a \in Appt, a = req'[r].appt
                   PROVE  /\ \A b \in Appt : SameAgenda(a, b)' => Excused(a, b)'
                          /\ \A b \in Block : UnderBlock(a, b)' => Excused(a, b)'
      BY DEF ConfirmSeen
    <3>2. Live(a)
      BY <1>4, <3>1 DEF Starts
    <3>3. Settles(a, {})
      BY <3>2, InvSettles DEF IInv
    <3> QED BY <1>1, <3>3 DEF Settles, World, SameAgenda, UnderBlock, Live, Stands, Excused
  <2> QED BY <1>3, <2>1, <2>2 DEF Shape, Known
<1>5. CASE CheckAppts(r) /\ ~ Drop(r)
  <2>1. PICK i \in req[r].pend :
          /\ Clashing(r, i) = {}
          /\ \/ req' = [req EXCEPT ![r] = [req[r] EXCEPT !.pend = req[r].pend \ {i}]]
             \/ /\ req[r].pend = {i}
                /\ req' = [req EXCEPT ![r] = [req[r] EXCEPT !.pend = req[r].want,
                                                           !.pc = "blocks"]]
    BY <1>5 DEF CheckAppts, Earliest, Step
  <2>2. /\ req[r] \in Request /\ req[r].pc = "appts"
        /\ req'[r].op = req[r].op /\ req'[r].appt = req[r].appt
        /\ req'[r].prof = req[r].prof /\ req'[r].want = req[r].want
        /\ req'[r].blind = req[r].blind
        /\ \/ req'[r].pc = "appts" /\ req'[r].pend = req[r].pend \ {i}
           \/ /\ req[r].pend = {i}
              /\ req'[r].pc = "blocks" /\ req'[r].pend = req'[r].want
    <3>1. req[r] \in Request /\ req[r].pc = "appts"
      BY <1>5 DEF IInv, TypeOK, CheckAppts
    <3>2. \/ req'[r] = [req[r] EXCEPT !.pend = req[r].pend \ {i}]
          \/ req[r].pend = {i} /\ req'[r] = [req[r] EXCEPT !.pend = req[r].want, !.pc = "blocks"]
      BY <2>1 DEF IInv, TypeOK
    <3> QED BY <3>1, <3>2 DEF Request
  <2>3. ShapeOf(r)'
    BY <2>2 DEF IInv, Shape, ShapeOf
  <2>4. req[r].op # "confirm"
    BY <2>2 DEF IInv, Shape, ShapeOf, Moving
  <2>5. ApptsChecked(r)' \subseteq ApptsChecked(r) \cup {i}
    BY <2>2 DEF ApptsChecked
  <2>6. \A j \in ApptsChecked(r)' : Clashing(r, j)' \subseteq req'[r].blind
    <3>1. ASSUME NEW j PROVE Clashing(r, j)' = Clashing(r, j)
      BY <1>1, <2>2 DEF Clashing, World
    <3> QED BY <2>1, <2>2, <2>5, <3>1 DEF IInv, ApptsSeen
  <2>7. BlocksChecked(r)' = {}
    BY <2>2 DEF BlocksChecked
  <2> QED BY <1>3, <2>2, <2>3, <2>4, <2>6, <2>7
          DEF Shape, Known, ApptsSeen, BlocksSeen, ConfirmSeen
<1>6. CASE CheckBlocks(r) /\ ~ Drop(r)
  <2>1. PICK i \in req[r].pend :
          /\ Blocking(r, i) = {}
          /\ \/ req' = [req EXCEPT ![r] = [req[r] EXCEPT !.pend = req[r].pend \ {i}]]
             \/ /\ req[r].pend = {i}
                /\ req' = [req EXCEPT ![r] = [req[r] EXCEPT !.pend = {}, !.pc = "write"]]
    BY <1>6 DEF CheckBlocks, Earliest, Step
  <2>2. /\ req[r] \in Request /\ req[r].pc = "blocks"
        /\ req'[r].op = req[r].op /\ req'[r].appt = req[r].appt
        /\ req'[r].prof = req[r].prof /\ req'[r].want = req[r].want
        /\ req'[r].blind = req[r].blind
        /\ \/ req'[r].pc = "blocks" /\ req'[r].pend = req[r].pend \ {i}
           \/ req[r].pend = {i} /\ req'[r].pc = "write"
    <3>1. req[r] \in Request /\ req[r].pc = "blocks"
      BY <1>6 DEF IInv, TypeOK, CheckBlocks
    <3>2. \/ req'[r] = [req[r] EXCEPT !.pend = req[r].pend \ {i}]
          \/ req[r].pend = {i} /\ req'[r] = [req[r] EXCEPT !.pend = {}, !.pc = "write"]
      BY <2>1 DEF IInv, TypeOK
    <3> QED BY <3>1, <3>2 DEF Request
  <2>3. ShapeOf(r)'
    BY <2>2 DEF IInv, Shape, ShapeOf
  <2>4. req[r].op # "confirm"
    BY <2>2 DEF IInv, Shape, ShapeOf, Moving
  <2>5. /\ ApptsChecked(r)' = ApptsChecked(r)
        /\ BlocksChecked(r)' \subseteq BlocksChecked(r) \cup {i}
    BY <2>2 DEF ApptsChecked, BlocksChecked
  <2>6. ASSUME NEW j PROVE Clashing(r, j)' = Clashing(r, j) /\ Blocking(r, j)' = Blocking(r, j)
    BY <1>1, <2>2 DEF Clashing, Blocking, World
  <2>7. ApptsSeen(r)' /\ BlocksSeen(r)'
    BY <2>1, <2>2, <2>5, <2>6 DEF IInv, ApptsSeen, BlocksSeen
  <2> QED BY <1>3, <2>2, <2>3, <2>4, <2>7 DEF Shape, Known, ConfirmSeen
<1> QED BY <1>4, <1>5, <1>6

-----------------------------------------------------------------------------
(* The same for what stands on the agendas.                                *)

LEMMA AddsSettles ==
  ASSUME IInv, TypeOK', NEW S, Adds(S), Remembers(S),
         \A a \in Appt \cap S : Settles(a, {})',
         \A a \in Appt, b \in Block \cap S : Live(a)' /\ UnderBlock(a, b)' => Excused(a, b)'
  PROVE  OverlapOnlyConcurrent' /\ BlockedOnlyConcurrent'
<1>1. ASSUME NEW a \in Appt, Live(a)' PROVE Settles(a, {})'
  <2>1. CASE a \in S
    BY <2>1
  <2>2. CASE a \notin S
    <3>1. Settles(a, {})
      BY <1>1, <2>2, InvSettles DEF IInv, Adds
    <3>2. Settles(a, S)'
      BY <2>2, <3>1, SettlesKeep DEF IInv
    <3>3. ASSUME NEW b \in Appt \cap S, SameAgenda(a, b)' PROVE Excused(a, b)'
      <4>1. SameAgenda(b, a)'
        BY <1>1, <3>3 DEF SameAgenda, Live, Overlaps
      <4>2. Excused(b, a)'
        BY <4>1 DEF Settles
      <4>3. {a, b} = {b, a}
        OBVIOUS
      <4> QED BY <4>2, <4>3 DEF Excused
    <3> QED BY <1>1, <3>2, <3>3 DEF Settles
  <2> QED BY <2>1, <2>2
<1>2. ((OverlapOnlyConcurrent /\ BlockedOnlyConcurrent)
         <=> \A a \in Appt : Live(a) => Settles(a, {}))'
  BY SortAssumption DEF TypeOK, OverlapOnlyConcurrent, BlockedOnlyConcurrent, Settles,
     SameAgenda, UnderBlock, Excused
<1> QED BY <1>1, <1>2

LEMMA BlocksKeep ==
  ASSUME IInv, NEW S, Adds(S), Remembers(S),
         \A b \in Block \cap S, c \in Block :
           b # c /\ Stands(c)' /\ block'[b].prof = block'[c].prof
             /\ Overlaps(block[b], block[c])' => {b, c} \in concurrent'
  PROVE  BlocksOverlapOnlyConcurrent'
<1> SUFFICES ASSUME NEW a \in Block, NEW b \in Block, a # b, Stands(a)',
                    block'[a].prof = block'[b].prof, Overlaps(block[a], block[b])'
             PROVE  {a, b} \in concurrent'
  BY DEF BlocksOverlapOnlyConcurrent
<1>1. Stands(b)' /\ Overlaps(block[b], block[a])' /\ {a, b} = {b, a}
  BY DEF Stands, Overlaps
<1>2. CASE a \in S
  BY <1>1, <1>2
<1>3. CASE b \in S
  BY <1>1, <1>3
<1>4. CASE a \notin S /\ b \notin S
  <2>1. block'[a] = block[a] /\ block'[b] = block[b]
    BY <1>1, <1>4 DEF Adds
  <2>2. {a, b} \in concurrent
    BY <2>1 DEF IInv, BlocksOverlapOnlyConcurrent, Stands
  <2> QED BY <1>4, <2>2 DEF Remembers
<1> QED BY <1>2, <1>3, <1>4

\* Who may revive a canceled row.
LEMMA StaleStep ==
  ASSUME IInv, [Next]_vars
  PROVE  /\ StaleRevives'
         /\ \A a \in Appt :
              appt[a].status = "CANCELED" /\ appt'[a].status # "CANCELED"
              => \E r \in Req : req[r].appt = a /\ req[r].stale /\ req'[r] = Idle
<1> DEFINE Good == \A a \in Appt :
              appt[a].status = "CANCELED" /\ appt'[a].status # "CANCELED"
              => \E r \in Req : req[r].appt = a /\ req[r].stale /\ req'[r] = Idle
<1> USE IdleFacts
<1>1. ASSUME NEW r \in Req, Starts(r) PROVE StaleRevives' /\ Good
  BY <1>1 DEF IInv, StaleRevives, Starts, World
<1>2. ASSUME NEW r \in Req, CheckAppts(r) \/ CheckBlocks(r), ~ Drop(r)
      PROVE  StaleRevives' /\ Good
  <2>1. appt' = appt
    BY <1>2 DEF CheckAppts, CheckBlocks
  <2>2. PICK q \in Request :
          /\ req' = [req EXCEPT ![r] = q]
          /\ q.op = req[r].op /\ q.appt = req[r].appt /\ q.stale = req[r].stale
    <3>1. req[r] \in Request
      BY DEF IInv, TypeOK
    <3>2. PICK P \in SUBSET Interval :
            \/ req' = [req EXCEPT ![r] = [req[r] EXCEPT !.pend = P]]
            \/ req' = [req EXCEPT ![r] = [req[r] EXCEPT !.pend = P, !.pc = "blocks"]]
            \/ req' = [req EXCEPT ![r] = [req[r] EXCEPT !.pend = P, !.pc = "write"]]
      <4>1. req[r].want \in SUBSET Interval /\ \A i : req[r].pend \ {i} \in SUBSET Interval
        BY <3>1 DEF Request
      <4>2. CASE CheckAppts(r)
        BY <1>2, <4>1, <4>2 DEF CheckAppts, Step
      <4>3. CASE CheckBlocks(r)
        <5>1. PICK i : \/ Step(r, [req[r] EXCEPT !.pend = req[r].pend \ {i}])
                       \/ Step(r, [req[r] EXCEPT !.pend = {}, !.pc = "write"])
          BY <1>2, <4>3 DEF CheckBlocks
        <5>2. {} \in SUBSET Interval
          OBVIOUS
        <5> QED BY <4>1, <5>1, <5>2 DEF Step
      <4> QED BY <1>2, <4>2, <4>3
    <3>3. /\ [req[r] EXCEPT !.pend = P] \in Request
          /\ [req[r] EXCEPT !.pend = P, !.pc = "blocks"] \in Request
          /\ [req[r] EXCEPT !.pend = P, !.pc = "write"] \in Request
      BY <3>1 DEF Request
    <3>4. ASSUME NEW q \in {[req[r] EXCEPT !.pend = P],
                            [req[r] EXCEPT !.pend = P, !.pc = "blocks"],
                            [req[r] EXCEPT !.pend = P, !.pc = "write"]}
          PROVE  q.op = req[r].op /\ q.appt = req[r].appt /\ q.stale = req[r].stale
      BY <3>1 DEF Request
    <3> QED BY <3>2, <3>3, <3>4
  <2> QED BY <2>1, <2>2 DEF IInv, TypeOK, StaleRevives
<1>3. ASSUME NEW r \in Req, CheckAppts(r) \/ CheckBlocks(r) \/ FindRun(r) \/ Abort(r)
      PROVE  StaleRevives' /\ Good
  <2>1. UNCHANGED World
    BY <1>3 DEF CheckAppts, CheckBlocks, FindRun, Abort, World
  <2> QED BY <1>1, <1>2, <1>3, <2>1, DropStarts, RunStarts DEF IInv, Abort
<1>4. ASSUME NEW r \in Req, CommitCreate(r) PROVE StaleRevives' /\ Good
  <2>1. PICK a \in Appt, i \in req[r].want :
          /\ appt[a] = NoApptRow
          /\ appt' = [appt EXCEPT ![a] = [status |-> "PENDING", prof |-> req[r].prof,
                                          start |-> i.start, end |-> i.end]]
          /\ Placed(r, {a})
    BY <1>4 DEF CommitCreate
  <2>3. /\ appt[a].status = "NONE" /\ appt'[a].status = "PENDING"
        /\ \A b \in Appt \ {a} : appt'[b] = appt[b]
    BY <2>1 DEF NoApptRow, IInv, TypeOK
  <2>2. req'[r] = Idle /\ \A q \in Req \ {r} : Keeps(q, {a})
    BY <2>1, PlacedKeeps DEF IInv, Placed
  <2> QED BY <2>2, <2>3 DEF IInv, StaleRevives, Keeps
<1>5. ASSUME NEW r \in Req, CommitMove(r) PROVE StaleRevives' /\ Good
  <2>1. PICK a \in Appt : a = req[r].appt
    BY <1>5 DEF CommitMove, Writes, IInv, Shape, ShapeOf, Moving
  <2>2. PICK i \in req[r].want : Placed(r, {a}) /\ appt' = [appt EXCEPT ![a] = Moved(r, i)]
    BY <1>5, <2>1 DEF CommitMove
  <2>3. /\ \A b \in Appt \ {a} : appt'[b] = appt[b]
        /\ appt'[a].status = IF req[r].op = "proMove" THEN "PENDING" ELSE appt[a].status
    BY <2>1, <2>2 DEF Moved, IInv, TypeOK
  <2>4. req'[r] = Idle /\ \A q \in Req \ {r} : Keeps(q, {a})
    BY <2>2, PlacedKeeps DEF IInv, Placed
  <2>5. StaleRevives'
    BY <2>3, <2>4 DEF IInv, StaleRevives, Keeps
  <2>6. Good
    BY <2>1, <2>3, <2>4 DEF IInv, StaleRevives
  <2> QED BY <2>5, <2>6
<1>6. ASSUME NEW r \in Req, CommitConfirm(r) PROVE StaleRevives' /\ Good
  <2>1. PICK a \in Appt : a = req[r].appt /\ req[r].op = "confirm"
    BY <1>6 DEF CommitConfirm, Writes, IInv, Shape, ShapeOf
  <2>2. /\ \A b \in Appt \ {a} : appt'[b] = appt[b]
        /\ appt'[a].status = "CONFIRMED"
    BY <1>6, <2>1 DEF CommitConfirm, IInv, TypeOK, ApptRow
  <2>3. req'[r] = Idle /\ \A q \in Req \ {r} : Keeps(q, {})
    BY <1>6, WriteEnds, KeepsLess DEF Ends, IInv
  <2>4. StaleRevives'
    BY <2>2, <2>3 DEF IInv, StaleRevives, Keeps
  <2>5. Good
    BY <2>1, <2>2, <2>3 DEF IInv, StaleRevives
  <2> QED BY <2>4, <2>5
<1>7. ASSUME NEW r \in Req, CommitCancel(r) PROVE StaleRevives' /\ Good
  <2>1. PICK a \in Appt : a = req[r].appt
    BY <1>7 DEF CommitCancel, Writes, IInv, Shape, ShapeOf
  <2>2. /\ \A b \in Appt \ {a} : appt'[b] = appt[b]
        /\ appt'[a].status = "CANCELED"
    BY <1>7, <2>1 DEF CommitCancel, IInv, TypeOK, ApptRow
  <2>3. req'[r] = Idle /\ \A q \in Req \ {r} : Keeps(q, {})
    BY <1>7, WriteEnds DEF Ends, IInv
  <2>4. ASSUME NEW q \in Req \ {r}, req[q].op \in {"confirm", "proMove"}, a = req[q].appt
        PROVE  req'[q].stale
    BY <1>7, <2>1, <2>4 DEF CommitCancel, IInv, TypeOK, Request
  <2> QED BY <2>2, <2>3, <2>4 DEF IInv, StaleRevives, Keeps
<1>8. ASSUME NEW r \in Req, CommitBlock(r) \/ CommitUnblock(r) PROVE StaleRevives' /\ Good
  <2>1. appt' = appt
    BY <1>8 DEF CommitBlock, CommitUnblock
  <2>2. req'[r] = Idle /\ \A q \in Req \ {r} : Keeps(q, {})
    BY <1>8, WriteEnds, KeepsLess DEF Ends, IInv
  <2> QED BY <2>1, <2>2 DEF IInv, StaleRevives, Keeps
<1>9. CASE CloseDue
  <2>1. req' = req /\ \A a \in Appt : appt'[a].status = appt[a].status
                                     \/ /\ appt[a].status \in Active
                                        /\ appt'[a].status = "COMPLETED"
    BY <1>9 DEF CloseDue, IInv, TypeOK, ApptRow
  <2> QED BY <2>1 DEF IInv, StaleRevives, Active
<1>10. CASE UNCHANGED vars
  BY <1>10 DEF vars, IInv, StaleRevives
<1>11. ASSUME NEW r \in Req,
              \/ ClientCreate(r) \/ ProfessionalCreate(r)
              \/ ClientReschedule(r) \/ ProfessionalReschedule(r)
              \/ ClientConfirm(r) \/ ProfessionalConfirm(r)
              \/ ClientCancel(r) \/ ProfessionalCancel(r)
              \/ BlockTimes(r) \/ DeleteBlockedTime(r)
       PROVE  StaleRevives' /\ Good
  BY <1>1, <1>11, BeginStarts DEF IInv
<1> QED
  BY <1>3, <1>4, <1>5, <1>6, <1>7, <1>8, <1>9, <1>10, <1>11 DEF Next

\* No interleaving of the handlers leaves the inductive invariant.
LEMMA InvStep == IInv /\ [Next]_vars => IInv'
<1> SUFFICES ASSUME IInv, [Next]_vars PROVE IInv'
  OBVIOUS
<1>1. TypeOK' /\ StaleRevives'
  BY TypeStep, StaleStep DEF IInv
<1>2. ASSUME UNCHANGED World
      PROVE  OverlapOnlyConcurrent' /\ BlockedOnlyConcurrent' /\ BlocksOverlapOnlyConcurrent'
  BY <1>2 DEF World, IInv, OverlapOnlyConcurrent, BlockedOnlyConcurrent,
     BlocksOverlapOnlyConcurrent, Live, Stands
<1>3. ASSUME NEW r \in Req, Starts(r) PROVE IInv'
  BY <1>1, <1>2, <1>3, ReadsKnown DEF Starts, Known, IInv
<1>4. ASSUME NEW r \in Req,
             \/ ClientCreate(r) \/ ProfessionalCreate(r)
             \/ ClientReschedule(r) \/ ProfessionalReschedule(r)
             \/ ClientConfirm(r) \/ ProfessionalConfirm(r)
             \/ ClientCancel(r) \/ ProfessionalCancel(r)
             \/ BlockTimes(r) \/ DeleteBlockedTime(r)
      PROVE  IInv'
  BY <1>3, <1>4, BeginStarts DEF IInv
<1>5. ASSUME NEW r \in Req, CheckAppts(r) \/ CheckBlocks(r) PROVE IInv'
  <2>1. UNCHANGED World
    BY <1>5 DEF CheckAppts, CheckBlocks, World
  <2>2. CASE Drop(r)
    BY <1>3, <2>1, <2>2, DropStarts DEF IInv
  <2>3. CASE ~ Drop(r)
    BY <1>1, <1>2, <1>5, <2>1, <2>3, ReadsKnown DEF Known, IInv
  <2> QED BY <2>2, <2>3
<1>6. ASSUME NEW r \in Req, FindRun(r) PROVE IInv'
  BY <1>3, <1>6, RunStarts DEF IInv
<1>7. ASSUME NEW r \in Req, Abort(r) PROVE IInv'
  BY <1>3, <1>7, DropStarts DEF Abort, World, IInv
<1>8. ASSUME NEW r \in Req, NEW S \in SUBSET Appt, Ends(r, S), \A a \in S : Settles(a, {})'
      PROVE  IInv'
  <2>1. S \cap Block = {} /\ \A a \in Appt \cap S : Settles(a, {})'
    BY <1>8, SortAssumption
  <2>2. Shape' /\ Known'
    BY <1>8, <2>1, EndsKnown
  <2>3. OverlapOnlyConcurrent' /\ BlockedOnlyConcurrent'
    BY <1>1, <1>8, <2>1, AddsSettles DEF Ends
  <2>4. BlocksOverlapOnlyConcurrent'
    BY <1>8, <2>1, BlocksKeep DEF Ends
  <2> QED BY <1>1, <2>2, <2>3, <2>4 DEF Known, IInv
<1>9. ASSUME NEW r \in Req, CommitCreate(r) PROVE IInv'
  <2>1. PICK a \in Appt, i \in req[r].want :
          /\ appt' = [appt EXCEPT ![a] = [status |-> "PENDING", prof |-> req[r].prof,
                                          start |-> i.start, end |-> i.end]]
          /\ Placed(r, {a})
          /\ concurrent' = Untouched({a}) \cup PairsOf(r, {a})
    BY <1>9 DEF CommitCreate
  <2>2. Settles(a, {})'
    BY <1>9, <2>1, CreateSettles
  <2>3. Ends(r, {a})
    BY <1>9, <2>1, CreateEnds DEF IInv
  <2> QED BY <1>8, <2>2, <2>3
<1>10. ASSUME NEW r \in Req, CommitMove(r) PROVE IInv'
  <2>1. PICK a \in Appt : a = req[r].appt
    BY <1>10 DEF CommitMove, Writes, IInv, Shape, ShapeOf, Moving
  <2>2. Ends(r, {a}) /\ Settles(a, {})'
    BY <1>10, <2>1, WriteEnds, MoveSettles DEF IInv
  <2> QED BY <1>8, <2>2
<1>11. ASSUME NEW r \in Req, CommitConfirm(r) PROVE IInv'
  <2>1. PICK a \in Appt : a = req[r].appt
    BY <1>11 DEF CommitConfirm, Writes, IInv, Shape, ShapeOf
  <2>2. CASE Live(a)
    <3>1. Ends(r, {})
      BY <1>11, <2>1, <2>2, WriteEnds DEF IInv
    <3> QED BY <1>8, <3>1
  <2>3. CASE ~ Live(a)
    <3>1. Ends(r, {a}) /\ Settles(a, {})'
      BY <1>11, <2>1, <2>3, WriteEnds, ConfirmWriteSettles DEF IInv
    <3> QED BY <1>8, <3>1
  <2> QED BY <2>2, <2>3
<1>12. ASSUME NEW r \in Req, CommitCancel(r) \/ CommitUnblock(r) PROVE IInv'
  <2>1. Ends(r, {})
    BY <1>12, WriteEnds DEF IInv
  <2> QED BY <1>8, <2>1
<1>13. ASSUME NEW r \in Req, CommitBlock(r) PROVE IInv'
  <2>1. PICK S \in SUBSET Block :
          /\ Ends(r, S)
          /\ \A b \in S, a \in Appt : Live(a)' /\ UnderBlock(a, b)' => Excused(a, b)'
          /\ \A b \in S, c \in Block :
               b # c /\ Stands(c)' /\ block'[b].prof = block'[c].prof
                 /\ Overlaps(block[b], block[c])' => {b, c} \in concurrent'
    BY <1>13, BlockSettles
  <2>2. S \cap Appt = {} /\ S \cap Block = S
    BY SortAssumption
  <2>3. Shape' /\ Known'
    BY <2>1, <2>2, EndsKnown
  <2>4. OverlapOnlyConcurrent' /\ BlockedOnlyConcurrent'
    BY <1>1, <2>1, <2>2, AddsSettles DEF Ends
  <2>5. BlocksOverlapOnlyConcurrent'
    BY <2>1, <2>2, BlocksKeep DEF Ends
  <2> QED BY <1>1, <2>3, <2>4, <2>5 DEF Known, IInv
<1>14. CASE CloseDue
  <2>1. Adds({}) /\ Remembers({}) /\ req' = req /\ block' = block
    BY <1>14, CloseDueKeeps DEF IInv, CloseDue
  <2>2. \A q \in Req : Keeps(q, {})
    BY <2>1 DEF Keeps
  <2>3. OverlapOnlyConcurrent' /\ BlockedOnlyConcurrent'
    BY <1>1, <2>1, AddsSettles
  <2>4. BlocksOverlapOnlyConcurrent'
    BY <2>1, BlocksKeep
  <2>5. Shape'
    BY <2>1 DEF IInv, Shape, ShapeOf
  <2>6. \A q \in Req : ApptsSeen(q)' /\ BlocksSeen(q)'
    BY <2>1, <2>2, KeepsSeen DEF IInv
  <2>7. ASSUME NEW q \in Req PROVE ConfirmSeen(q)'
    <3>1. SUFFICES ASSUME req[q].op = "confirm", ~ req[q].reopens,
                          NEW a \in Appt, a = req[q].appt
                   PROVE  /\ \A b \in Appt : SameAgenda(a, b)' => b \in req[q].blind \/ Excused(a, b)'
                          /\ \A b \in Block : UnderBlock(a, b)' => b \in req[q].blind \/ Excused(a, b)'
      BY <2>1 DEF ConfirmSeen
    <3>2. PICK V : V = req[q].blind
      OBVIOUS
    <3>3. Settles(a, V)
      BY <3>1, <3>2, ConfirmSettles DEF IInv
    <3>4. Settles(a, V)'
      BY <2>1, <3>3, SettlesKeep DEF IInv
    <3> QED BY <3>2, <3>4 DEF Settles
  <2> QED BY <1>1, <2>3, <2>4, <2>5, <2>6, <2>7 DEF IInv
<1>15. CASE UNCHANGED vars
  BY <1>1, <1>2, <1>15 DEF vars, World, IInv, Shape, ShapeOf, ApptsSeen, BlocksSeen,
     ConfirmSeen, ApptsChecked, BlocksChecked, Clashing, Blocking, SameAgenda,
     UnderBlock, Live, Stands, Excused
<1> QED
  BY <1>4, <1>5, <1>6, <1>7, <1>9, <1>10, <1>11, <1>12, <1>13, <1>14, <1>15 DEF Next

LEMMA InvInit == Init => IInv
<1> SUFFICES ASSUME Init PROVE IInv
  OBVIOUS
<1>1. NoApptRow \in ApptRow /\ NoBlockRow \in BlockRow
  BY HorizonAssumption DEF NoApptRow, NoBlockRow, ApptRow, BlockRow, Instant
<1>2. TypeOK
  BY <1>1, IdleType DEF Init, TypeOK
<1>3. \A r \in Req : req[r] = Idle
  BY DEF Init
<1>4. Shape /\ StaleRevives /\ \A r \in Req : ConfirmSeen(r)
  BY <1>3, IdleFacts DEF Shape, ShapeOf, StaleRevives, ConfirmSeen, Moving
<1>5. \A r \in Req : ApptsChecked(r) = {} /\ BlocksChecked(r) = {}
  BY <1>3, IdleFacts DEF ApptsChecked, BlocksChecked
<1>6. \A a \in Appt : ~ Live(a)
  BY DEF Init, Live, Active, NoApptRow
<1>7. \A b \in Block : ~ Stands(b)
  BY DEF Init, Stands, NoBlockRow
<1> QED BY <1>2, <1>4, <1>5, <1>6, <1>7 DEF IInv, ApptsSeen, BlocksSeen,
        OverlapOnlyConcurrent, BlockedOnlyConcurrent, BlocksOverlapOnlyConcurrent

-----------------------------------------------------------------------------
(* The theorems.                                                           *)

\* Every reachable state of the agenda satisfies the inductive invariant.
THEOREM Inductive == Spec => []IInv
BY InvInit, InvStep, PTL DEF Spec

\* Every reachable state of the agenda is well typed.
THEOREM TypeCorrect == Spec => []TypeOK
BY Inductive, PTL DEF IInv

\* However many requests are in flight and however long the time scale, two
\* active appointments of a professional overlap only if the requests that
\* placed them were in flight together or one was placed without any check.
THEOREM OverlapIsConcurrent == Spec => []OverlapOnlyConcurrent
BY Inductive, PTL DEF IInv

\* The same for an active appointment and a blocked time.
THEOREM BlockedIsConcurrent == Spec => []BlockedOnlyConcurrent
BY Inductive, PTL DEF IInv

\* The same for two blocked times.
THEOREM BlocksOverlapIsConcurrent == Spec => []BlocksOverlapOnlyConcurrent
BY Inductive, PTL DEF IInv

\* Only a request that read an appointment before it was canceled revives it.
THEOREM CanceledStays == Spec => CancelIsFinal
<1>1. IInv /\ [Next]_vars
        => [\A a \in Appt :
              appt[a].status = "CANCELED" /\ appt'[a].status # "CANCELED"
              => \E r \in Req : req[r].appt = a /\ req[r].stale /\ req'[r] = Idle]_vars
  BY StaleStep
<1> QED BY <1>1, Inductive, PTL DEF Spec, CancelIsFinal

-----------------------------------------------------------------------------
(* Runs of days.  All-day rows cover whole days, so a row that stands      *)
(* between two neighbours in the list lies over one of them.               *)

WholeDay(i) == \E m \in Nat : i.start = DayLength * m /\ i.end = DayLength * m + DayLength

RowDays == \A b \in Block : block[b].allDay => WholeDay(block[b]) /\ Stands(b)
PlanDays == \A r \in Req : req[r].allDay => \A i \in req[r].want : WholeDay(i)

Neighbours(d, c) == block[c].end = block[d].start \/ block[d].end = block[c].start
OfOneRun(d, c) == /\ block[d].allDay /\ block[c].allDay /\ block[c].prof = block[d].prof
                  /\ Neighbours(d, c)
RacedBlock(d, c) == \E e \in Block : {c, e} \in concurrent \/ {d, e} \in concurrent

\* The rows a request is about to delete have no neighbour left that it could
\* have known of.
RunSeen(r) ==
  req[r].op = "unblock" /\ req[r].pc = "write" =>
    \A d \in req[r].ids, c \in Block \ req[r].ids :
      OfOneRun(d, c) => c \in req[r].blind \/ RacedBlock(d, c)

RunInv == /\ RowDays
          /\ PlanDays
          /\ \A r \in Req : RunSeen(r)

\* A whole day that begins between two others, one right after the other, begins
\* with one of them, and lies over it.
LEMMA DayBetween ==
  ASSUME NEW i, NEW j, NEW x, WholeDay(i), WholeDay(j), WholeDay(x), i.end = j.start,
         i.start <= x.start, x.start <= j.start
  PROVE  Overlaps(x, i) \/ Overlaps(x, j)
<1>0. DayLength \in Nat /\ DayLength > 0
  BY DayAssumption
<1>1. PICK m \in Nat : i.start = DayLength * m /\ i.end = DayLength * m + DayLength
  BY DEF WholeDay
<1>2. PICK n \in Nat : x.start = DayLength * n /\ x.end = DayLength * n + DayLength
  BY DEF WholeDay
<1>3. PICK o \in Nat : j.start = DayLength * o /\ j.end = DayLength * o + DayLength
  BY DEF WholeDay
<1>4. DayLength * m \in Nat /\ DayLength * n \in Nat /\ DayLength * o \in Nat
  BY <1>0
<1>5. m <= n
  <2> SUFFICES ASSUME n < m PROVE FALSE
    OBVIOUS
  <2>1. PICK k \in Nat : m = n + 1 + k
    <3>1. m - n - 1 \in Nat /\ m = n + 1 + (m - n - 1)
      OBVIOUS
    <3> QED BY <3>1
  <2>2. DayLength * m = DayLength * n + DayLength + DayLength * k /\ DayLength * k \in Nat
    BY <1>0, <2>1
  <2> QED BY <1>0, <1>1, <1>2, <1>4, <2>2
<1>6. PICK k \in Nat : n = m + k
  <2>1. n - m \in Nat /\ n = m + (n - m)
    BY <1>5
  <2> QED BY <2>1
<1>7. DayLength * n = DayLength * m + DayLength * k /\ DayLength * k \in Nat
  BY <1>0, <1>6
<1>8. CASE k = 0
  <2>1. x.start = i.start /\ x.end = i.end
    BY <1>1, <1>2, <1>6, <1>8
  <2> QED BY <1>0, <1>1, <1>4, <2>1 DEF Overlaps
<1>9. CASE k # 0
  <2>1. PICK l \in Nat : k = 1 + l
    <3>1. k - 1 \in Nat /\ k = 1 + (k - 1)
      BY <1>9
    <3> QED BY <3>1
  <2>2. DayLength * k = DayLength + DayLength * l /\ DayLength * l \in Nat
    BY <1>0, <2>1
  <2>3. x.start = j.start
    BY <1>0, <1>1, <1>2, <1>3, <1>4, <1>7, <2>2
  <2>4. x.end = j.end
    BY <1>2, <1>3, <1>4, <2>3
  <2> QED BY <1>0, <1>3, <1>4, <2>3, <2>4 DEF Overlaps
<1> QED BY <1>8, <1>9

\* Two all-day rows that lie over each other were placed by racing requests.
LEMMA DaysRaced ==
  ASSUME IInv, RowDays, NEW d \in Block, NEW c \in Block, NEW x \in Block,
         block[d].end = block[c].start, x # d, x # c,
         block[d].allDay, block[c].allDay, block[x].allDay,
         block[c].prof = block[d].prof, block[x].prof = block[d].prof,
         block[d].start <= block[x].start, block[x].start <= block[c].start
  PROVE  {d, x} \in concurrent \/ {c, x} \in concurrent
<1>1. Overlaps(block[x], block[d]) \/ Overlaps(block[x], block[c])
  BY DayBetween DEF RowDays
<1>2. Stands(x)
  BY DEF RowDays
<1>3. {x, d} = {d, x} /\ {x, c} = {c, x}
  OBVIOUS
<1> QED BY <1>1, <1>2, <1>3 DEF IInv, BlocksOverlapOnlyConcurrent

\* What the look for the run leaves out: a neighbour only if somebody raced.
LEMMA RunFound ==
  ASSUME IInv, RowDays, NEW S, S \subseteq Block, NEW f \in ByStart(S), NEW n \in DOMAIN f,
         \A b \in S : block[b].allDay,
         NEW d \in RunAround(f, n), NEW c \in S \ RunAround(f, n), OfOneRun(d, c),
         \A b \in S : block[b].prof = block[d].prof
  PROVE  RacedBlock(d, c)
<1> DEFINE N == Cardinality(S)
           Linked(j) == block[f[j]].end = block[f[j + 1]].start
           Chained(k) == \A j \in 1 .. N : (k <= j /\ j < n) \/ (n <= j /\ j < k) => Linked(j)
<1>1. IsFiniteSet(S) /\ N \in Nat /\ f \in [1 .. N -> S] /\ DOMAIN f = 1 .. N /\ n \in 1 .. N
  BY TableAssumption, FS_Subset, FS_CardinalityType DEF ByStart
<1>2. \A k, l \in 1 .. N : k < l => f[k] # f[l] /\ block[f[k]].start <= block[f[l]].start
  BY <1>1 DEF ByStart
<1>3. RunAround(f, n) = {f[m] : m \in {k \in 1 .. N : Chained(k)}}
  BY <1>1 DEF RunAround
<1>4. \A b \in S : \E k \in 1 .. N : f[k] = b
  <2> DEFINE K == 1 .. N
  <2>1. \A k, l \in K : f[k] = f[l] => k = l
    <3> SUFFICES ASSUME NEW k \in K, NEW l \in K, k # l PROVE f[k] # f[l]
      OBVIOUS
    <3>1. k < l \/ l < k
      OBVIOUS
    <3> QED BY <1>2, <3>1
  <2>2. IsFiniteSet(K) /\ Cardinality(K) = N
    BY <1>1, FS_Interval
  <2>3. f \in [K -> S]
    BY <1>1
  <2> HIDE DEF K
  <2>4. f \in Injection(K, S)
    BY <2>1, <2>3 DEF Injection, IsInjective
  <2>5. f \in Surjection(K, S)
    BY <1>1, <2>2, <2>4, FS_Injection
  <2>6. \A b \in S : \E k \in K : f[k] = b
    BY <2>5 DEF Surjection
  <2> QED BY <2>6 DEF K
<1>5. PICK k \in 1 .. N : d = f[k] /\ Chained(k)
  BY <1>3
<1>6. PICK m \in 1 .. N : c = f[m] /\ ~ Chained(m)
  BY <1>3, <1>4
<1>7. d \in Block /\ c \in Block /\ d \in S
  BY <1>1, <1>5
<1>8. \A b \in Block : block[b].allDay => block[b].start \in Nat /\ block[b].end \in Nat
                                          /\ block[b].start < block[b].end
  BY DayAssumption DEF RowDays, WholeDay
<1>9. /\ block[d].allDay /\ block[c].allDay /\ block[c].prof = block[d].prof
      /\ block[d].start \in Nat /\ block[d].end \in Nat /\ block[d].start < block[d].end
      /\ block[c].start \in Nat /\ block[c].end \in Nat /\ block[c].start < block[c].end
  BY <1>7, <1>8 DEF OfOneRun
<1>10. CASE block[d].end = block[c].start
  <2>1. k < m
    <3>1. ~ (m < k)
      BY <1>2, <1>5, <1>6, <1>9, <1>10
    <3>2. m # k
      BY <1>5, <1>6
    <3> QED BY <3>1, <3>2
  <2>2. m # k + 1
    <3> SUFFICES ASSUME m = k + 1 PROVE Chained(m)
      BY <1>6
    <3>1. Linked(k)
      BY <1>5, <1>6, <1>10
    <3> SUFFICES ASSUME NEW j \in 1 .. N, (m <= j /\ j < n) \/ (n <= j /\ j < m) PROVE Linked(j)
      OBVIOUS
    <3>2. j = k \/ (k <= j /\ j < n) \/ (n <= j /\ j < k)
      BY <1>1
    <3> QED BY <1>5, <3>1, <3>2
  <2>3. k + 1 \in 1 .. N /\ k < k + 1 /\ k + 1 < m
    BY <1>1, <2>1, <2>2
  <2> DEFINE x == f[k + 1]
  <2>4. x \in S /\ x # d /\ x # c /\ block[d].start <= block[x].start
        /\ block[x].start <= block[c].start
    BY <1>1, <1>2, <1>5, <1>6, <2>3
  <2>5. {d, x} \in concurrent \/ {c, x} \in concurrent
    BY <1>7, <1>9, <1>10, <2>4, DaysRaced
  <2> QED BY <2>4, <2>5 DEF RacedBlock
<1>11. CASE block[c].end = block[d].start
  <2>1. m < k
    <3>1. ~ (k < m)
      BY <1>2, <1>5, <1>6, <1>9, <1>11
    <3>2. m # k
      BY <1>5, <1>6
    <3> QED BY <3>1, <3>2
  <2>2. k # m + 1
    <3> SUFFICES ASSUME k = m + 1 PROVE Chained(m)
      BY <1>6
    <3>1. Linked(m)
      BY <1>5, <1>6, <1>11
    <3> SUFFICES ASSUME NEW j \in 1 .. N, (m <= j /\ j < n) \/ (n <= j /\ j < m) PROVE Linked(j)
      OBVIOUS
    <3>2. j = m \/ (k <= j /\ j < n) \/ (n <= j /\ j < k)
      BY <1>1
    <3> QED BY <1>5, <3>1, <3>2
  <2>3. k - 1 \in 1 .. N /\ m < k - 1 /\ k - 1 < k
    BY <1>1, <2>1, <2>2
  <2> DEFINE x == f[k - 1]
  <2>4. x \in S /\ x # d /\ x # c /\ block[c].start <= block[x].start
        /\ block[x].start <= block[d].start
    BY <1>1, <1>2, <1>5, <1>6, <2>3
  <2>5. {c, x} \in concurrent \/ {d, x} \in concurrent
    <3>1. block[x].prof = block[c].prof /\ block[x].allDay /\ x \in Block
      BY <1>9, <2>4
    <3> QED BY <1>7, <1>9, <1>11, <2>4, <3>1, DaysRaced
  <2> QED BY <2>4, <2>5 DEF RacedBlock
<1> QED BY <1>10, <1>11 DEF OfOneRun, Neighbours

-----------------------------------------------------------------------------
(* What the steps keep of it.                                              *)

\* v goes on as it was, having seen no less.
Same(v) ==
  /\ req'[v].op = req[v].op /\ req'[v].pc = req[v].pc /\ req'[v].ids = req[v].ids
  /\ req'[v].allDay = req[v].allDay /\ req'[v].want = req[v].want
  /\ req[v].blind \subseteq req'[v].blind

\* The rows that stand after the step stood before or are in S; no race is
\* forgotten but of a row in S.
BlocksAfter(S) ==
  /\ \A b \in Block \ S : block'[b] = block[b] \/ block'[b] = NoBlockRow
  /\ \A c \in concurrent : c \subseteq Block /\ c \cap S = {} => c \in concurrent'

Plain(v) == ~ (req'[v].op = "unblock" /\ req'[v].pc = "write")
PlannedDays(v) == req'[v].allDay => \A i \in req'[v].want : WholeDay(i)

\* A request that deletes a run goes on, and others place or delete rows.
LEMMA SameSeen ==
  ASSUME NEW v \in Req, RunSeen(v), Same(v), NEW S, BlocksAfter(S),
         req[v].op = "unblock" => S \subseteq req'[v].blind /\ S \cap req[v].ids = {},
         \A c \in concurrent : c \cap S = {}, req[v].ids \subseteq Block
  PROVE  RunSeen(v)'
<1> SUFFICES ASSUME req'[v].op = "unblock", req'[v].pc = "write",
                    NEW d \in req[v].ids, NEW c \in Block \ req[v].ids,
                    OfOneRun(d, c)', c \notin req'[v].blind
             PROVE  RacedBlock(d, c)'
  BY DEF RunSeen, Same
<1>1. d \notin S /\ c \notin S /\ d \in Block
  BY DEF Same
<1>2. ~ NoBlockRow.allDay
  BY DEF NoBlockRow
<1>3. block'[d] = block[d] /\ block'[c] = block[c]
  BY <1>1, <1>2 DEF BlocksAfter, OfOneRun
<1>4. OfOneRun(d, c)
  BY <1>3 DEF OfOneRun, Neighbours
<1>5. RacedBlock(d, c)
  BY <1>4 DEF RunSeen, Same
<1> QED BY <1>1, <1>5 DEF RacedBlock, BlocksAfter

\* The others go on, told of the rows placed.
LEMMA PlacedSame ==
  ASSUME TypeOK, NEW r \in Req, NEW v \in Req \ {r}, NEW S, Placed(r, S)
  PROVE  Same(v) /\ (req[v].op = "unblock" => S \subseteq req'[v].blind)
<1>1. req[v] \in Request /\ req'[v] = IF req[v].op \in Placing \cup {"unblock"}
                                      THEN [req[v] EXCEPT !.blind = @ \cup S] ELSE req[v]
  BY DEF Placed, TypeOK
<1> QED BY <1>1 DEF Same, Request

\* A request that begins, reads or is over.
LEMMA ReadSame ==
  ASSUME TypeOK, NEW r \in Req, NEW q, Step(r, q), NEW v \in Req
  PROVE  (v = r => req'[v] = q) /\ (v # r => Same(v))
BY DEF Step, TypeOK, Same

\* Requests begin without rows to delete, but for the one that deletes.
LEMMA BeginPlain ==
  ASSUME TypeOK, NEW r \in Req,
         \/ ClientCreate(r) \/ ProfessionalCreate(r)
         \/ ClientReschedule(r) \/ ProfessionalReschedule(r)
         \/ ClientConfirm(r) \/ ProfessionalConfirm(r)
         \/ ClientCancel(r) \/ ProfessionalCancel(r) \/ BlockTimes(r)
  PROVE  /\ UNCHANGED World /\ Plain(r) /\ PlannedDays(r)
         /\ \A v \in Req \ {r} : Same(v)
<1>1. ASSUME NEW q, Begin(r, q), q.op # "unblock", q.allDay => \A i \in q.want : WholeDay(i)
      PROVE  /\ UNCHANGED World /\ Plain(r) /\ PlannedDays(r)
             /\ \A v \in Req \ {r} : Same(v)
  <2>1. Step(r, q) /\ UNCHANGED World
    BY <1>1 DEF Begin, Step, World
  <2> QED BY <1>1, <2>1, ReadSame DEF Plain, PlannedDays
<1>2. CASE ClientCreate(r) \/ ProfessionalCreate(r)
  <2>1. PICK p \in Professional, i \in Slot : Begin(r, Booking(p, i))
    BY <1>2 DEF ClientCreate, ProfessionalCreate
  <2>2. Booking(p, i).op # "unblock" /\ ~ Booking(p, i).allDay
    BY DEF Booking, Idle
  <2> QED BY <1>1, <2>1, <2>2
<1>3. CASE ClientReschedule(r)
  <2>1. PICK a \in Appt, i \in Slot :
          \/ Begin(r, [Idle EXCEPT !.op = "clientMove", !.pc = "appts", !.appt = a,
                         !.prof = appt[a].prof, !.want = {i}, !.pend = {i}])
          \/ \E p \in Professional :
               Begin(r, [Idle EXCEPT !.op = "clientMove", !.pc = "appts", !.appt = a,
                           !.prof = p, !.setProf = TRUE, !.want = {i}, !.pend = {i}])
    BY <1>3 DEF ClientReschedule
  <2>2. CASE Begin(r, [Idle EXCEPT !.op = "clientMove", !.pc = "appts", !.appt = a,
                         !.prof = appt[a].prof, !.want = {i}, !.pend = {i}])
    <3> DEFINE q == [Idle EXCEPT !.op = "clientMove", !.pc = "appts", !.appt = a,
                       !.prof = appt[a].prof, !.want = {i}, !.pend = {i}]
    <3>1. q.op # "unblock" /\ ~ q.allDay
      BY DEF Idle
    <3> QED BY <1>1, <2>2, <3>1
  <2>3. ASSUME NEW p \in Professional,
               Begin(r, [Idle EXCEPT !.op = "clientMove", !.pc = "appts", !.appt = a,
                           !.prof = p, !.setProf = TRUE, !.want = {i}, !.pend = {i}])
        PROVE  /\ UNCHANGED World /\ Plain(r) /\ PlannedDays(r)
               /\ \A v \in Req \ {r} : Same(v)
    <3> DEFINE q == [Idle EXCEPT !.op = "clientMove", !.pc = "appts", !.appt = a,
                       !.prof = p, !.setProf = TRUE, !.want = {i}, !.pend = {i}]
    <3>1. q.op # "unblock" /\ ~ q.allDay
      BY DEF Idle
    <3> QED BY <1>1, <2>3, <3>1
  <2> QED BY <2>1, <2>2, <2>3
<1>4. CASE ProfessionalReschedule(r)
  <2>1. PICK a \in Appt, i \in Interval :
          Begin(r, [Idle EXCEPT !.op = "proMove", !.pc = "appts", !.appt = a,
                      !.prof = appt[a].prof, !.want = {i}, !.pend = {i}])
    BY <1>4 DEF ProfessionalReschedule
  <2> DEFINE q == [Idle EXCEPT !.op = "proMove", !.pc = "appts", !.appt = a,
                     !.prof = appt[a].prof, !.want = {i}, !.pend = {i}]
  <2>2. q.op # "unblock" /\ ~ q.allDay
    BY DEF Idle
  <2> QED BY <1>1, <2>1, <2>2
<1>5. CASE ClientConfirm(r)
  <2>1. PICK a \in Appt :
          Begin(r, [Idle EXCEPT !.op = "confirm", !.pc = "write", !.appt = a,
                      !.reopens = (appt[a].status = "COMPLETED")])
    BY <1>5 DEF ClientConfirm
  <2> DEFINE q == [Idle EXCEPT !.op = "confirm", !.pc = "write", !.appt = a,
                     !.reopens = (appt[a].status = "COMPLETED")]
  <2>2. q.op # "unblock" /\ ~ q.allDay
    BY DEF Idle
  <2> QED BY <1>1, <2>1, <2>2
<1>6. CASE ProfessionalConfirm(r)
  <2>1. PICK a \in Appt : Begin(r, [Idle EXCEPT !.op = "confirm", !.pc = "write", !.appt = a])
    BY <1>6 DEF ProfessionalConfirm
  <2> DEFINE q == [Idle EXCEPT !.op = "confirm", !.pc = "write", !.appt = a]
  <2>2. q.op # "unblock" /\ ~ q.allDay
    BY DEF Idle
  <2> QED BY <1>1, <2>1, <2>2
<1>7. CASE ClientCancel(r) \/ ProfessionalCancel(r)
  <2>1. PICK a \in Appt : Begin(r, Cancellation(a))
    BY <1>7 DEF ClientCancel, ProfessionalCancel
  <2>2. Cancellation(a).op # "unblock" /\ ~ Cancellation(a).allDay
    BY DEF Cancellation, Idle
  <2> QED BY <1>1, <2>1, <2>2
<1>8. CASE BlockTimes(r)
  <2>1. PICK p \in Professional, first \in Instant, last \in Instant,
             s \in 0 .. DayLength, e \in 0 .. DayLength :
          Begin(r, [Idle EXCEPT !.op = "block", !.pc = "appts", !.prof = p,
                      !.want = Plan(first, last, s, e),
                      !.pend = Plan(first, last, s, e),
                      !.allDay = (s = 0 /\ e = DayLength)])
    BY <1>8 DEF BlockTimes
  <2> DEFINE q == [Idle EXCEPT !.op = "block", !.pc = "appts", !.prof = p,
                     !.want = Plan(first, last, s, e),
                     !.pend = Plan(first, last, s, e),
                     !.allDay = (s = 0 /\ e = DayLength)]
  <2>2. q.op = "block" /\ q.want = Plan(first, last, s, e) /\ (q.allDay <=> s = 0 /\ e = DayLength)
    BY DEF Idle
  <2>3. ASSUME s = 0, e = DayLength, NEW i \in Plan(first, last, s, e) PROVE WholeDay(i)
    <3>1. PICK d \in first .. last : i = [start |-> DayLength * d + s, end |-> DayLength * d + e]
      BY DEF Plan
    <3>2. d \in Nat /\ DayLength * d \in Nat
      BY HorizonAssumption, DayAssumption DEF Instant
    <3> QED BY <2>3, <3>1, <3>2 DEF WholeDay
  <2> HIDE DEF q
  <2>4. q.op # "unblock" /\ (q.allDay => \A i \in q.want : WholeDay(i))
    BY <2>2, <2>3
  <2>5. Begin(r, q)
    BY <2>1 DEF q
  <2> QED BY <1>1, <2>4, <2>5
<1> QED BY <1>2, <1>3, <1>4, <1>5, <1>6, <1>7, <1>8

\* What stays of the invariant if the table is as it was and r has begun, read or
\* ended.
LEMMA RunReads ==
  ASSUME IInv, RunInv, NEW r \in Req, UNCHANGED World, \A v \in Req \ {r} : Same(v),
         PlannedDays(r), RunSeen(r)'
  PROVE  RunInv'
<1>1. RowDays'
  BY DEF RunInv, RowDays, World, Stands
<1>2. PlanDays'
  BY DEF RunInv, PlanDays, PlannedDays, Same
<1>3. ASSUME NEW v \in Req \ {r} PROVE RunSeen(v)'
  <2>1. BlocksAfter({}) /\ RunSeen(v) /\ Same(v)
    BY <1>3 DEF BlocksAfter, World, RunInv
  <2>2. req[v].ids \subseteq Block
    BY DEF IInv, TypeOK, Request
  <2> QED BY <2>1, <2>2, SameSeen
<1> QED BY <1>1, <1>2, <1>3 DEF RunInv

\* What stays of it if r has written the rows S and is over.
LEMMA RunWrites ==
  ASSUME IInv, RunInv, NEW r \in Req, req'[r] = Idle, NEW S, BlocksAfter(S), RowDays',
         \A c \in concurrent : c \cap S = {},
         \A v \in Req \ {r} : /\ Same(v)
                              /\ req[v].op = "unblock" => S \subseteq req'[v].blind
                              /\ S \cap req[v].ids = {}
  PROVE  RunInv'
<1>1. PlanDays'
  BY DEF RunInv, PlanDays, Same, Idle
<1>2. RunSeen(r)'
  BY DEF RunSeen, Idle
<1>3. ASSUME NEW v \in Req \ {r} PROVE RunSeen(v)'
  <2>1. req[v].ids \subseteq Block /\ RunSeen(v)
    BY DEF IInv, TypeOK, Request, RunInv
  <2> QED BY <2>1, <1>3, SameSeen
<1> QED BY <1>1, <1>2, <1>3 DEF RunInv

\* The look for the run, and the deletion of an hour block.
LEMMA UnblockReads ==
  ASSUME IInv, RunInv, NEW r \in Req, DeleteBlockedTime(r) \/ FindRun(r) PROVE RunInv'
<1>0. TypeOK /\ RowDays
  BY DEF IInv, RunInv
<1>1. CASE DeleteBlockedTime(r)
  <2>1. PICK b \in Block :
          Begin(r, [Idle EXCEPT !.op = "unblock", !.ids = {b}, !.prof = block[b].prof,
                      !.pc = IF block[b].allDay THEN "run" ELSE "write"])
    BY <1>1 DEF DeleteBlockedTime
  <2> DEFINE q == [Idle EXCEPT !.op = "unblock", !.ids = {b}, !.prof = block[b].prof,
                     !.pc = IF block[b].allDay THEN "run" ELSE "write"]
  <2>2. ~ q.allDay /\ q.ids = {b} /\ q.pc = (IF block[b].allDay THEN "run" ELSE "write")
    BY DEF Idle
  <2>3. Step(r, q) /\ UNCHANGED World
    BY <2>1 DEF Begin, Step, World
  <2> HIDE DEF q
  <2>4. req'[r] = q /\ \A v \in Req \ {r} : Same(v)
    BY <1>0, <2>3, ReadSame
  <2>5. PlannedDays(r)
    BY <2>2, <2>4 DEF PlannedDays
  <2>6. RunSeen(r)'
    BY <2>2, <2>3, <2>4 DEF RunSeen, OfOneRun, World
  <2> QED BY <2>3, <2>4, <2>5, <2>6, RunReads
<1>2. CASE FindRun(r)
  <2> DEFINE whole == {b \in Block : block[b].prof = req[r].prof /\ block[b].allDay}
  <2>1. UNCHANGED World
    BY <1>2 DEF FindRun, World
  <2>2. CASE Drop(r)
    <3>1. req'[r] = Idle /\ \A v \in Req \ {r} : Same(v)
      BY <1>0, <2>2, ReadSame DEF Drop
    <3>2. PlannedDays(r) /\ RunSeen(r)'
      BY <3>1 DEF PlannedDays, RunSeen, Idle
    <3> QED BY <2>1, <3>1, <3>2, RunReads
  <2>3. CASE ~ Drop(r)
    <3>0. PICK f \in ByStart(whole) : \E n \in DOMAIN f :
            Step(r, [req[r] EXCEPT !.ids = RunAround(f, n), !.pc = "write"])
      BY <1>2, <2>3 DEF FindRun
    <3>1. PICK n \in DOMAIN f :
            Step(r, [req[r] EXCEPT !.ids = RunAround(f, n), !.pc = "write"])
      BY <3>0
    <3> DEFINE q == [req[r] EXCEPT !.ids = RunAround(f, n), !.pc = "write"]
    <3>2. req[r] \in Request
      BY <1>0 DEF TypeOK
    <3>3. /\ q.ids = RunAround(f, n) /\ q.allDay = req[r].allDay /\ q.want = req[r].want
          /\ q.blind = req[r].blind
      BY <3>2 DEF Request
    <3> HIDE DEF q
    <3>4. req'[r] = q /\ \A v \in Req \ {r} : Same(v)
      BY <1>0, <3>1, ReadSame DEF q
    <3>5. PlannedDays(r)
      BY <3>3, <3>4 DEF PlannedDays, RunInv, PlanDays
    <3>6. RunSeen(r)'
      <4> SUFFICES ASSUME NEW d \in RunAround(f, n), NEW c \in Block \ RunAround(f, n),
                          OfOneRun(d, c)'
                   PROVE  RacedBlock(d, c)'
        BY <3>3, <3>4 DEF RunSeen
      <4>1. OfOneRun(d, c)
        BY <2>1 DEF OfOneRun, Neighbours, World
      <4>2. d \in whole
        BY DEF RunAround, ByStart
      <4>3. c \in whole
        BY <4>1, <4>2 DEF OfOneRun
      <4>4. /\ \A b \in whole : block[b].allDay /\ block[b].prof = block[d].prof
            /\ whole \subseteq Block
        BY <4>2
      <4> HIDE DEF whole
      <4>5. RacedBlock(d, c)
        BY <1>0, <4>1, <4>3, <4>4, RunFound
      <4> QED BY <2>1, <4>5 DEF RacedBlock, World
    <3> QED BY <2>1, <3>4, <3>5, <3>6, RunReads
  <2> QED BY <2>2, <2>3
<1> QED BY <1>1, <1>2

\* The checks move a request on and leave its plan.
LEMMA CheckReads ==
  ASSUME IInv, RunInv, NEW r \in Req, CheckAppts(r) \/ CheckBlocks(r) PROVE RunInv'
<1>0. TypeOK /\ req[r] \in Request /\ UNCHANGED World
  BY DEF IInv, TypeOK, CheckAppts, CheckBlocks, World
<1>1. PICK q : /\ Step(r, q)
               /\ q = Idle \/ (q.op = req[r].op /\ q.allDay = req[r].allDay /\ q.want = req[r].want)
  <2>3. CASE Drop(r)
    BY <2>3 DEF Drop
  <2>4. ASSUME NEW P, Step(r, [req[r] EXCEPT !.pend = P])
        PROVE  \E q : Step(r, q) /\ q.op = req[r].op /\ q.allDay = req[r].allDay
                      /\ q.want = req[r].want
    <3> DEFINE q == [req[r] EXCEPT !.pend = P]
    <3>1. q.op = req[r].op /\ q.allDay = req[r].allDay /\ q.want = req[r].want
      BY <1>0 DEF Request
    <3> HIDE DEF q
    <3>2. Step(r, q)
      BY <2>4 DEF q
    <3> QED BY <3>1, <3>2
  <2>5. ASSUME NEW P, NEW c, Step(r, [req[r] EXCEPT !.pend = P, !.pc = c])
        PROVE  \E q : Step(r, q) /\ q.op = req[r].op /\ q.allDay = req[r].allDay
                      /\ q.want = req[r].want
    <3> DEFINE q == [req[r] EXCEPT !.pend = P, !.pc = c]
    <3>1. q.op = req[r].op /\ q.allDay = req[r].allDay /\ q.want = req[r].want
      BY <1>0 DEF Request
    <3> HIDE DEF q
    <3>2. Step(r, q)
      BY <2>5 DEF q
    <3> QED BY <3>1, <3>2
  <2> QED BY <2>3, <2>4, <2>5 DEF CheckAppts, CheckBlocks
<1>2. req'[r] = q /\ \A v \in Req \ {r} : Same(v)
  BY <1>0, <1>1, ReadSame
<1>3. req[r].op # "unblock"
  BY DEF CheckAppts, CheckBlocks, IInv, Shape, ShapeOf, Moving
<1>4. RunSeen(r)'
  BY <1>1, <1>2, <1>3 DEF RunSeen, Idle
<1>5. PlannedDays(r)
  <2>1. CASE q = Idle
    BY <1>2, <2>1 DEF PlannedDays, Idle
  <2>2. CASE q.allDay = req[r].allDay /\ q.want = req[r].want
    BY <1>2, <2>2 DEF PlannedDays, RunInv, PlanDays
  <2> QED BY <1>1, <2>1, <2>2
<1> QED BY <1>0, <1>2, <1>4, <1>5, RunReads

\* The writes of the appointments know no blocks.
LEMMA ApptWrites ==
  ASSUME IInv, RunInv, NEW r \in Req,
         CommitCreate(r) \/ CommitMove(r) \/ CommitConfirm(r) \/ CommitCancel(r)
  PROVE  RunInv'
<1>0. TypeOK /\ block' = block
  BY DEF IInv, CommitCreate, CommitMove, CommitConfirm, CommitCancel
<1>1. req'[r] = Idle /\ \A v \in Req \ {r} : Same(v)
  <2>1. ASSUME NEW S, Placed(r, S) PROVE req'[r] = Idle /\ \A v \in Req \ {r} : Same(v)
    BY <1>0, <2>1, PlacedSame DEF Placed
  <2>2. ASSUME Drop(r) PROVE req'[r] = Idle /\ \A v \in Req \ {r} : Same(v)
    BY <1>0, <2>2, ReadSame DEF Drop
  <2>3. ASSUME CommitCancel(r) PROVE req'[r] = Idle /\ \A v \in Req \ {r} : Same(v)
    BY <1>0, <2>3 DEF CommitCancel, Same, TypeOK, Request
  <2> QED BY <2>1, <2>2, <2>3 DEF CommitCreate, CommitMove, CommitConfirm
<1>2. \A c \in concurrent : c \subseteq Block => c \in concurrent'
  <2>1. \A a \in Appt : \A c \in Untouched({a}) : c \in concurrent
    BY DEF Untouched
  <2>2. ASSUME NEW a \in Appt, NEW c \in concurrent, c \subseteq Block PROVE c \in Untouched({a})
    BY <2>2, SortAssumption DEF Untouched
  <2>3. CASE CommitCreate(r)
    BY <2>2, <2>3 DEF CommitCreate
  <2>4. CASE CommitMove(r)
    <3>1. req[r].appt \in Appt
      BY <2>4 DEF CommitMove, Writes, IInv, Shape, ShapeOf, Moving
    <3> QED BY <2>2, <2>4, <3>1 DEF CommitMove
  <2>5. CASE CommitConfirm(r) \/ CommitCancel(r)
    BY <2>5 DEF CommitConfirm, CommitCancel
  <2> QED BY <2>3, <2>4, <2>5
<1>3. BlocksAfter({}) /\ RowDays'
  BY <1>0, <1>2 DEF BlocksAfter, RunInv, RowDays, Stands
<1> QED BY <1>1, <1>3, RunWrites

\* A plan written down is rows of whole days, with ids nobody remembers.
LEMMA BlockWrites ==
  ASSUME IInv, RunInv, NEW r \in Req, CommitBlock(r) \/ CommitUnblock(r) PROVE RunInv'
<1>0. TypeOK
  BY DEF IInv
<1>1. CASE CommitUnblock(r)
  <2>1. req'[r] = Idle /\ \A v \in Req \ {r} : Same(v)
    BY <1>0, <1>1, ReadSame DEF CommitUnblock, Drop
  <2>2. BlocksAfter({}) /\ RowDays'
    BY <1>1 DEF CommitUnblock, BlocksAfter, RunInv, RowDays, Stands, NoBlockRow
  <2> QED BY <2>1, <2>2, RunWrites
<1>2. CASE CommitBlock(r)
  <2>1. PICK f \in [req[r].want -> FreeBlocks] :
          LET S == {f[i] : i \in req[r].want}
          IN  /\ block' = [b \in Block |->
                    IF b \in S
                    THEN LET i == CHOOSE k \in req[r].want : f[k] = b
                         IN  [prof |-> req[r].prof, allDay |-> req[r].allDay,
                              start |-> i.start, end |-> i.end]
                    ELSE block[b]]
              /\ Placed(r, S)
              /\ concurrent' = Untouched(S) \cup PairsOf(r, S)
    BY <1>2 DEF CommitBlock
  <2> DEFINE S == {f[i] : i \in req[r].want}
             at(b) == CHOOSE k \in req[r].want : f[k] = b
  <2>2. /\ S \subseteq Block /\ \A c \in concurrent : c \cap S = {}
        /\ \A v \in Req : S \cap req[v].ids = {}
    BY DEF FreeBlocks
  <2>3. req'[r] = Idle
    BY <2>1 DEF Placed
  <2>4. \A v \in Req \ {r} : /\ Same(v)
                             /\ req[v].op = "unblock" => S \subseteq req'[v].blind
    BY <1>0, <2>1, PlacedSame
  <2>5. BlocksAfter(S)
    BY <2>1 DEF BlocksAfter, Untouched
  <2>6. RowDays'
    <3> SUFFICES ASSUME NEW b \in Block, block'[b].allDay
                 PROVE  WholeDay(block'[b]) /\ Stands(b)'
      BY DEF RowDays
    <3>1. CASE b \in S
      <4>1. at(b) \in req[r].want
        BY <3>1
      <4>2. block'[b] = [prof |-> req[r].prof, allDay |-> req[r].allDay,
                         start |-> at(b).start, end |-> at(b).end]
        BY <2>1, <3>1
      <4> HIDE DEF at
      <4>3. WholeDay(at(b))
        BY <4>1, <4>2 DEF RunInv, PlanDays
      <4>4. req[r].prof # None
        BY <1>2, SortAssumption DEF CommitBlock, Writes, IInv, Shape, ShapeOf
      <4> QED BY <4>2, <4>3, <4>4 DEF WholeDay, Stands
    <3>2. CASE b \notin S
      BY <2>1, <3>2 DEF RunInv, RowDays, Stands
    <3> QED BY <3>1, <3>2
  <2> HIDE DEF S
  <2> QED BY <2>2, <2>3, <2>4, <2>5, <2>6, RunWrites
<1> QED BY <1>1, <1>2

\* Every step of every handler keeps what is known of runs.
LEMMA RunStep == IInv /\ RunInv /\ [Next]_vars => RunInv'
<1> SUFFICES ASSUME IInv, RunInv, [Next]_vars PROVE RunInv'
  OBVIOUS
<1>0. TypeOK
  BY DEF IInv
<1>1. ASSUME NEW r \in Req,
             \/ ClientCreate(r) \/ ProfessionalCreate(r)
             \/ ClientReschedule(r) \/ ProfessionalReschedule(r)
             \/ ClientConfirm(r) \/ ProfessionalConfirm(r)
             \/ ClientCancel(r) \/ ProfessionalCancel(r) \/ BlockTimes(r)
      PROVE  RunInv'
  <2>1. /\ UNCHANGED World /\ Plain(r) /\ PlannedDays(r)
        /\ \A v \in Req \ {r} : Same(v)
    BY <1>0, <1>1, BeginPlain
  <2>2. RunSeen(r)'
    BY <2>1 DEF Plain, RunSeen
  <2> QED BY <2>1, <2>2, RunReads
<1>2. ASSUME NEW r \in Req, Abort(r) PROVE RunInv'
  <2>1. UNCHANGED World /\ req'[r] = Idle /\ \A v \in Req \ {r} : Same(v)
    BY <1>0, <1>2, ReadSame DEF Abort, Drop, World
  <2>2. PlannedDays(r) /\ RunSeen(r)'
    BY <2>1 DEF PlannedDays, RunSeen, Idle
  <2> QED BY <2>1, <2>2, RunReads
<1>3. CASE CloseDue \/ UNCHANGED vars
  <2>1. UNCHANGED <<block, req, concurrent>>
    BY <1>3 DEF CloseDue, vars
  <2> QED BY <2>1 DEF RunInv, RowDays, PlanDays, RunSeen, OfOneRun, Neighbours, RacedBlock, Stands
<1> QED BY <1>1, <1>2, <1>3, UnblockReads, CheckReads, ApptWrites, BlockWrites DEF Next

\* However many rows, days and requests there are, deleting a day of an all-day
\* block deletes the run of days it belongs to, but for a neighbour placed since
\* the request began or one of a day that racing requests blocked twice.
THEOREM UnblockTakesRunTheorem == Spec => UnblockTakesRun
<1>1. Init => RunInv
  BY DEF Init, RunInv, RowDays, PlanDays, RunSeen, NoBlockRow, Idle
<1> DEFINE Whole == \A r \in Req : \A d \in req[r].ids, c \in Block \ req[r].ids :
       /\ req'[r] = Idle
       /\ block[d].allDay /\ block'[d] = NoBlockRow
       /\ block[c].allDay /\ block[c].prof = block[d].prof
       /\ block[c].end = block[d].start \/ block[d].end = block[c].start
       => \/ c \in req[r].blind
          \/ \E e \in Block : {c, e} \in concurrent \/ {d, e} \in concurrent
<1>2. IInv /\ RunInv /\ [Next]_vars => [Whole]_vars
  <2> SUFFICES ASSUME IInv, RunInv, Next, NEW r \in Req,
                      NEW d \in req[r].ids, NEW c \in Block \ req[r].ids,
                      req'[r] = Idle, block[d].allDay, block'[d] = NoBlockRow,
                      OfOneRun(d, c)
               PROVE  c \in req[r].blind \/ RacedBlock(d, c)
    BY DEF OfOneRun, Neighbours, RacedBlock
  <2>1. TypeOK /\ d \in Block /\ req[r] # Idle
    BY DEF IInv, TypeOK, Request, Idle
  <2>2. block'[d] # block[d]
    BY DEF NoBlockRow
  <2>3. ASSUME NEW q \in Req, CommitUnblock(q) PROVE q = r
    BY <2>1, <2>3 DEF CommitUnblock, Drop, Step, TypeOK
  <2>4. ASSUME NEW q \in Req, CommitBlock(q) PROVE FALSE
    <3>1. PICK f \in [req[q].want -> FreeBlocks] :
            block' = [b \in Block |->
                  IF b \in {f[i] : i \in req[q].want}
                  THEN LET i == CHOOSE k \in req[q].want : f[k] = b
                       IN  [prof |-> req[q].prof, allDay |-> req[q].allDay,
                            start |-> i.start, end |-> i.end]
                  ELSE block[b]]
      BY <2>4 DEF CommitBlock
    <3>2. d \notin FreeBlocks
      BY DEF FreeBlocks
    <3>3. block'[d] = block[d]
      BY <2>1, <3>1, <3>2
    <3> QED BY <2>2, <3>3
  <2>5. \E q \in Req : CommitUnblock(q)
    <3>1. ASSUME NEW q \in Req,
             \/ ClientCreate(q) \/ ProfessionalCreate(q)
             \/ ClientReschedule(q) \/ ProfessionalReschedule(q)
             \/ ClientConfirm(q) \/ ProfessionalConfirm(q)
             \/ ClientCancel(q) \/ ProfessionalCancel(q) \/ BlockTimes(q)
          PROVE  block' = block
      BY <2>1, <3>1, BeginPlain DEF World
    <3>2. ASSUME NEW q \in Req,
             \/ DeleteBlockedTime(q) \/ CheckAppts(q) \/ CheckBlocks(q) \/ FindRun(q)
             \/ CommitCreate(q) \/ CommitMove(q) \/ CommitConfirm(q)
             \/ CommitCancel(q) \/ Abort(q)
          PROVE  block' = block
      BY <3>2 DEF DeleteBlockedTime, Begin, CheckAppts, CheckBlocks, FindRun, CommitCreate,
         CommitMove, CommitConfirm, CommitCancel, Abort
    <3>3. CloseDue => block' = block
      BY DEF CloseDue
    <3> QED BY <2>2, <2>4, <3>1, <3>2, <3>3 DEF Next
  <2>6. CommitUnblock(r)
    BY <2>3, <2>5
  <2>7. req[r].op = "unblock" /\ req[r].pc = "write"
    BY <2>6 DEF CommitUnblock, Writes
  <2> QED BY <2>7 DEF RunInv, RunSeen
<1> QED BY <1>1, <1>2, RunStep, Inductive, PTL DEF Spec, UnblockTakesRun
=============================================================================
