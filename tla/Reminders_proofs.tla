-------------------------- MODULE Reminders_proofs --------------------------
(***************************************************************************)
(* Theorems about the reminders.  Whatever a pass holds, it holds copies   *)
(* of rows that were due when it read them; as long as no pass outlived    *)
(* its lease, only one pass holds anything at all.  The last part is about *)
(* a push and the WhatsApp of its instant: a pass that recorded the one    *)
(* does not send the other.                                                *)
(***************************************************************************)
EXTENDS Reminders, FiniteSetTheorems, WellFoundedInduction, TLAPS

\* What a pass has in its hands.
Held(w) == pass[w].page \cup pass[w].group

\* Only active appointments that exist have a start and rows.
ApptsOK ==
  /\ \A a \in Appt : /\ appt[a].active => appt[a].exists
                     /\ appt[a].exists => appt[a].start \in Start
  /\ \A a \in reading : appt[a].exists

\* A row that is used belongs to an appointment that exists.
RowsOK ==
  \A j \in Job : \/ job[j].status = "NONE" /\ job[j].appt = None
                 \/ /\ job[j].status # "NONE" /\ job[j].channel \in Channel
                    /\ job[j].appt \in Appt /\ appt[job[j].appt].exists

\* Between pages a pass holds nothing, and what it treats left its page.
PassShape(w) ==
  /\ pass[w].at <= now
  /\ pass[w].pc \in {"idle", "clean", "page", "release"} => pass[w].page = {}
  /\ pass[w].pc \notin {"pushed", "later", "whatsapp", "sent"} => pass[w].group = {}
  /\ pass[w].page \cap pass[w].group = {}

\* The copies of a pass are of different rows, and of rows that were due.
CopiesOK(w) ==
  /\ \A x, y \in Held(w) : x.id = y.id => x = y
  /\ \A x \in Held(w) : /\ x.due <= pass[w].at
                        /\ job[x.id].status # "NONE"
                        /\ job[x.id].appt = x.appt
                        /\ job[x.id].status = "PENDING" => job[x.id].due <= now

PassesOK == \A w \in Worker : PassShape(w) /\ CopiesOK(w)

\* What a copy says of its appointment is so, unless it was written since.
TrueOf(x, w, active) ==
  \/ x.appt \in pass[w].dirty
  \/ appt[x.appt].start = x.start /\ (active => appt[x.appt].active)

CopiesCurrent ==
  \A w \in Worker : /\ \A x \in pass[w].page : TrueOf(x, w, x.active)
                    /\ \A x \in pass[w].group : TrueOf(x, w, TRUE)

\* The lock: no two handles are alike, a key that exists has time left, and a
\* pass has a handle, the one to the key unless it outlived its lease.
LockOK ==
  /\ \A v, w \in Worker : handle[v] # None /\ handle[v] = handle[w] => v = w
  /\ key.token # None <=> key.left > 0
  /\ \A w \in Worker : pass[w].pc # "idle" => /\ handle[w] # None
                                              /\ overrun \/ key.token = handle[w]

\* The copies a pass has still to publish.
Waiting(w) ==
  pass[w].page \cup (IF At(w, "sent") THEN {}
                     ELSE IF At(w, "pushed") THEN Of(pass[w].group, "WHATSAPP")
                     ELSE pass[w].group)

\* What waits was not published, and what was published is either recorded or
\* about to be, as long as no lease was outlived.
NotYetSent ==
  overrun \/ \A w \in Worker : \A x \in Waiting(w) : sent[x.id] = 0 \/ x.id \in unsure

SentIsRecorded ==
  overrun \/ \A j \in Job : \/ sent[j] = 0 \/ j \in unsure
                            \/ job[j].status \notin Pending \cup {"NONE"}
                            \/ \E w \in Worker : j \in Unrecorded(w)

IInv == /\ TypeOK /\ ApptsOK /\ RowsOK /\ PassesOK /\ CopiesCurrent
        /\ LockOK /\ NotYetSent /\ SentIsRecorded
        /\ TwiceOnlyUnsure /\ EverySlotHasJobs

-----------------------------------------------------------------------------
(* Where a page begins and ends.                                           *)

\* A set of naturals that is not empty has a smallest element.
LEMMA SmallestOf ==
  ASSUME NEW S, S \subseteq Nat, S # {}
  PROVE  \E n \in S : \A m \in S : n <= m
<1> DEFINE T == {0 .. n : n \in S}
<1>1. T \subseteq FiniteSubsetsOf(Nat) /\ T # {}
  <2>1. \A n \in S : IsFiniteSet(0 .. n) /\ 0 .. n \subseteq Nat
    BY FS_Interval
  <2> QED BY <2>1 DEF FiniteSubsetsOf
<1> HIDE DEF T
<1>2. \E x \in T : \A y \in T : <<y, x>> \notin StrictSubsetOrdering(Nat)
  BY <1>1, FS_StrictSubsetOrderingWellFounded, WFMin
<1>3. PICK n \in S : \A m \in S : <<0 .. m, 0 .. n>> \notin StrictSubsetOrdering(Nat)
  BY <1>2 DEF T
<1>4. \A m \in S : n <= m
  <2> SUFFICES ASSUME NEW m \in S, m < n PROVE FALSE
    OBVIOUS
  <2>1. 0 .. m \subseteq 0 .. n /\ 0 .. m # 0 .. n /\ 0 .. m \subseteq Nat /\ 0 .. n \subseteq Nat
    BY SMT
  <2> QED BY <1>3, <2>1 DEF StrictSubsetOrdering
<1> QED BY <1>4

\* A finite one has a largest.
LEMMA LargestOf ==
  ASSUME NEW S, S \subseteq Nat, S # {}, IsFiniteSet(S)
  PROVE  \E n \in S : \A m \in S : m <= n
<1> SUFFICES ASSUME \A n \in S : \E m \in S : n < m
             PROVE  FALSE
  OBVIOUS
<1> DEFINE T == {{m \in S : n < m} : n \in S}
<1>1. T \subseteq FiniteSubsetsOf(Nat) /\ T # {}
  <2>1. \A n \in S : IsFiniteSet({m \in S : n < m}) /\ {m \in S : n < m} \subseteq Nat
    BY FS_Subset
  <2> QED BY <2>1 DEF FiniteSubsetsOf
<1> HIDE DEF T
<1>2. \E x \in T : \A y \in T : <<y, x>> \notin StrictSubsetOrdering(Nat)
  BY <1>1, FS_StrictSubsetOrderingWellFounded, WFMin
<1>3. PICK n \in S : \A k \in S : <<{m \in S : k < m}, {m \in S : n < m}>> \notin StrictSubsetOrdering(Nat)
  BY <1>2 DEF T
<1>4. PICK k \in S : n < k
  OBVIOUS
<1>5. n \in Nat /\ k \in Nat
  OBVIOUS
<1>6. {m \in S : k < m} \subseteq {m \in S : n < m}
  <2> SUFFICES ASSUME NEW m \in S, k < m PROVE n < m
    OBVIOUS
  <2> QED BY <1>4, <1>5, m \in Nat
<1>7. k \in {m \in S : n < m} /\ k \notin {m \in S : k < m}
  BY <1>4, <1>5
<1>8. {m \in S : k < m} \subseteq Nat /\ {m \in S : n < m} \subseteq Nat
  OBVIOUS
<1>9. {m \in S : k < m} # {m \in S : n < m}
  BY <1>7
<1> QED BY <1>3, <1>6, <1>8, <1>9 DEF StrictSubsetOrdering

\* Jobs ordered by instant and id: a finite set of them has a last one.
LEMMA LastJob ==
  ASSUME TypeOK, NEW S, S \subseteq Job, S # {}
  PROVE  \E j \in S : \A i \in S : ~ Before(j, i)
<1> DEFINE D == {job[j].due : j \in S}
<1>1. \A j \in S : job[j].due \in Nat /\ j \in Nat
  BY NumberAssumption DEF TypeOK, JobRow
<1>2. IsFiniteSet(S)
  BY NumberAssumption, FS_Subset
<1>3. IsFiniteSet(D) /\ D \subseteq Nat /\ D # {}
  <2>1. D \subseteq Nat /\ D # {}
    BY <1>1
  <2>2. IsFiniteSet(D)
    <3> DEFINE f == [j \in S |-> job[j].due]
    <3>1. f \in Surjection(S, D)
      BY DEF Surjection
    <3> HIDE DEF f, D
    <3> QED BY <1>2, <3>1, FS_Surjection
  <2> QED BY <2>1, <2>2
<1> HIDE DEF D
<1>4. PICK d \in D : \A e \in D : e <= d
  BY <1>3, LargestOf
<1> DEFINE T == {j \in S : job[j].due = d}
<1>5. T \subseteq Nat /\ T # {} /\ IsFiniteSet(T)
  BY <1>1, <1>2, FS_Subset DEF D
<1> HIDE DEF T
<1>6. PICK j \in T : \A i \in T : i <= j
  BY <1>5, LargestOf
<1>7. j \in S /\ job[j].due = d
  BY DEF T
<1>8. \A i \in S : ~ Before(j, i)
  <2> SUFFICES ASSUME NEW i \in S, Before(j, i) PROVE FALSE
    OBVIOUS
  <2>1. job[i].due <= d /\ job[i].due \in Nat /\ d \in Nat /\ i \in Nat /\ j \in Nat
    BY <1>1, <1>4, <1>7 DEF D
  <2>2. job[i].due = d /\ j < i
    BY <1>7, <2>1 DEF Before
  <2>3. i \in T
    BY <2>2 DEF T
  <2> QED BY <1>6, <2>1, <2>2, <2>3
<1> QED BY <1>7, <1>8

\* The first copy of a page that is not empty is on it.
LEMMA FirstCopy ==
  ASSUME NEW page, page \subseteq Copy, page # {}
  PROVE  First(page) \in page
<1> DEFINE D == {x.due : x \in page}
<1>1. \A x \in page : x.due \in Nat /\ x.id \in Nat
  BY NumberAssumption DEF Copy
<1>2. D \subseteq Nat /\ D # {}
  BY <1>1
<1> HIDE DEF D
<1>3. PICK d \in D : \A e \in D : d <= e
  BY <1>2, SmallestOf
<1> DEFINE T == {x.id : x \in {y \in page : y.due = d}}
<1>4. T \subseteq Nat /\ T # {}
  BY <1>1 DEF D
<1> HIDE DEF T
<1>5. PICK i \in T : \A k \in T : i <= k
  BY <1>4, SmallestOf
<1>6. PICK x \in page : x.due = d /\ x.id = i
  BY DEF T
<1>7. \A y \in page : x.due < y.due \/ (x.due = y.due /\ x.id <= y.id)
  <2> SUFFICES ASSUME NEW y \in page
               PROVE  x.due < y.due \/ (x.due = y.due /\ x.id <= y.id)
    OBVIOUS
  <2>1. d <= y.due /\ y.due \in Nat /\ d \in Nat
    BY <1>1, <1>2, <1>3 DEF D
  <2>2. y.due = d => i <= y.id
    BY <1>5 DEF T
  <2> QED BY <1>6, <2>1, <2>2
<1> QED BY <1>7 DEF First

LEMMA FrontOfPage ==
  ASSUME TypeOK, NEW w \in Worker, HasGroup(w)
  PROVE  /\ First(pass[w].page) \in Front(w) /\ Front(w) \subseteq pass[w].page
         /\ \A x \in Front(w) : /\ x.appt = First(pass[w].page).appt
                                /\ x.due = First(pass[w].page).due
<1>1. pass[w].page \subseteq Copy /\ pass[w].page # {}
  BY DEF TypeOK, Pass, HasGroup
<1>2. First(pass[w].page) \in pass[w].page
  BY <1>1, FirstCopy
<1> QED BY <1>2 DEF Front

-----------------------------------------------------------------------------
(* What becomes of the rows of the table.                                  *)

Kept(j) == job'[j] = job[j]
Ended(j) == /\ job[j].status # "NONE" /\ job'[j].status \notin Pending \cup {"NONE"}
            /\ job'[j].appt = job[j].appt /\ job'[j].channel = job[j].channel
            /\ job'[j].due = job[j].due
Delayed(j) == /\ job[j].status # "NONE" /\ job'[j].status = "SCHEDULED"
              /\ job'[j].appt = job[j].appt /\ job'[j].channel = job[j].channel
Made(j) == /\ job[j].status = "NONE" /\ job'[j].status = "PENDING"
           /\ job'[j].appt \in Appt /\ appt'[job'[j].appt].exists
           /\ job'[j].channel \in Channel

\* A query that updates rows of the table that are used.
LEMMA MarkRows ==
  ASSUME TypeOK, NEW S, S \subseteq Job, \A j \in S : job[j].status # "NONE",
         NEW status, status \in {"SENT", "FAILED", "SKIPPED"},
         NEW error, error \in {"none", "appointment_rescheduled"},
         Mark(S, status, error)
  PROVE  /\ job' \in [Job -> JobRow]
         /\ \A j \in S : Ended(j)
         /\ \A j \in Job \ S : Kept(j)
<1>1. job' = [j \in Job |-> IF j \in S THEN [job[j] EXCEPT !.status = status, !.error = error]
                            ELSE job[j]]
  BY DEF Mark
<1>2. \A j \in S : /\ job'[j] = [status |-> status, appt |-> job[j].appt, channel |-> job[j].channel,
                                due |-> job[j].due, error |-> error]
                   /\ job'[j] \in JobRow
  <2> SUFFICES ASSUME NEW j \in S
               PROVE  /\ job'[j] = [status |-> status, appt |-> job[j].appt,
                            channel |-> job[j].channel, due |-> job[j].due, error |-> error]
                      /\ job'[j] \in JobRow
    OBVIOUS
  <2>1. job[j] \in JobRow /\ job'[j] = [job[j] EXCEPT !.status = status, !.error = error]
    BY <1>1 DEF TypeOK
  <2> QED BY <2>1 DEF JobRow
<1>3. \A j \in Job \ S : Kept(j)
  BY <1>1 DEF Kept
<1>4. job' \in [Job -> JobRow]
  <2>1. \A j \in Job : job'[j] \in JobRow
    BY <1>2, <1>3 DEF Kept, TypeOK
  <2> QED BY <1>1, <2>1
<1>5. \A j \in S : Ended(j)
  <2> SUFFICES ASSUME NEW j \in S PROVE Ended(j)
    OBVIOUS
  <2>1. job'[j] = [status |-> status, appt |-> job[j].appt, channel |-> job[j].channel,
                   due |-> job[j].due, error |-> error]
    BY <1>2
  <2>2. status \notin Pending \cup {"NONE"}
    BY DEF Pending
  <2> QED BY <2>1, <2>2 DEF Ended
<1> QED BY <1>3, <1>4, <1>5

LEMMA CanceledRows ==
  ASSUME TypeOK, NEW a \in Appt, NEW why, why \in {"none", "appointment_rescheduled"}
  PROVE  /\ Canceled(a, why) \in [Job -> JobRow]
         /\ \A j \in Job :
              \/ Canceled(a, why)[j] = job[j]
              \/ /\ job[j].status \in Pending /\ job[j].appt = a
                 /\ Canceled(a, why)[j].status = "CANCELED"
                 /\ Canceled(a, why)[j].appt = job[j].appt
                 /\ Canceled(a, why)[j].channel = job[j].channel
                 /\ Canceled(a, why)[j].due = job[j].due
<1> DEFINE T == Canceled(a, why)
<1>1. T = [j \in Job |-> IF job[j].appt = a /\ job[j].status \in Pending
                         THEN [job[j] EXCEPT !.status = "CANCELED", !.error = why] ELSE job[j]]
  BY DEF Canceled
<1> HIDE DEF T
<1>2. \A j \in Job : /\ T[j] \in JobRow
                     /\ \/ T[j] = job[j]
                        \/ /\ job[j].status \in Pending /\ job[j].appt = a
                           /\ T[j].status = "CANCELED" /\ T[j].appt = job[j].appt
                           /\ T[j].channel = job[j].channel /\ T[j].due = job[j].due
  <2> SUFFICES ASSUME NEW j \in Job
               PROVE  /\ T[j] \in JobRow
                      /\ \/ T[j] = job[j]
                         \/ /\ job[j].status \in Pending /\ job[j].appt = a
                            /\ T[j].status = "CANCELED" /\ T[j].appt = job[j].appt
                            /\ T[j].channel = job[j].channel /\ T[j].due = job[j].due
    OBVIOUS
  <2>1. job[j] \in JobRow
    BY DEF TypeOK
  <2>2. CASE job[j].appt = a /\ job[j].status \in Pending
    <3>1. T[j] = [job[j] EXCEPT !.status = "CANCELED", !.error = why]
      BY <1>1, <2>2
    <3> QED BY <2>1, <2>2, <3>1 DEF JobRow
  <2>3. CASE ~ (job[j].appt = a /\ job[j].status \in Pending)
    BY <1>1, <2>1, <2>3
  <2> QED BY <2>2, <2>3
<1>3. T \in [Job -> JobRow]
  BY <1>1, <1>2
<1> QED BY <1>2, <1>3 DEF T

\* What createMany makes: rows with ids not used before, one for every reminder
\* that no row of the table suppresses.
LEMMA CreatedRows ==
  ASSUME TypeOK, NEW table0 \in [Job -> JobRow], NEW a \in Appt,
         NEW P, P \subseteq [channel : Channel, due : Nat], NEW t \in Created(table0, a, P)
  PROVE  /\ t \in [Job -> JobRow]
         /\ \A j \in Job :
              \/ t[j] = table0[j]
              \/ /\ job[j].status = "NONE" /\ t[j].status = "PENDING" /\ t[j].appt = a
                 /\ t[j].channel \in Channel
         /\ \A p \in P : Taken(a, p) \/ \E j \in Job :
              /\ t[j].appt = a /\ t[j].channel = p.channel
              /\ t[j].due = p.due /\ t[j].status = "PENDING"
<1> DEFINE new == {p \in P : ~ Taken(a, p)}
<1> DEFINE Ids0 == NextIds(Cardinality(new))
<1> DEFINE R(p) == [status |-> "PENDING", appt |-> a, channel |-> p.channel,
                    due |-> p.due, error |-> "none"]
<1>1. PICK f \in [new -> Ids0] :
        /\ \A p, q \in new : f[p] = f[q] => p = q
        /\ t = [j \in Job |-> IF \E p \in new : f[p] = j
                              THEN R(CHOOSE x \in new : f[x] = j) ELSE table0[j]]
  BY DEF Created
<1>2. \A j \in Ids0 : j \in Job /\ job[j].status = "NONE"
  BY DEF NextIds
<1>3. new \subseteq P
  OBVIOUS
<1>4. \A p \in P : R(p) \in JobRow
  BY DEF JobRow, Pending
<1> HIDE DEF new, Ids0
<1>5. \A p \in new : f[p] \in Job /\ job[f[p]].status = "NONE" /\ t[f[p]] = R(p)
  <2> SUFFICES ASSUME NEW p \in new
               PROVE  f[p] \in Job /\ job[f[p]].status = "NONE" /\ t[f[p]] = R(p)
    OBVIOUS
  <2>1. f[p] \in Ids0
    OBVIOUS
  <2>2. (CHOOSE x \in new : f[x] = f[p]) = p
    BY <1>1
  <2> QED BY <1>1, <1>2, <2>1, <2>2
<1>6. \A j \in Job : (\A p \in new : f[p] # j) => t[j] = table0[j]
  BY <1>1
<1>7. \A j \in Job :
        /\ t[j] \in JobRow
        /\ \/ t[j] = table0[j]
           \/ /\ job[j].status = "NONE" /\ t[j].status = "PENDING" /\ t[j].appt = a
              /\ t[j].channel \in Channel
  <2> SUFFICES ASSUME NEW j \in Job
               PROVE  /\ t[j] \in JobRow
                      /\ \/ t[j] = table0[j]
                         \/ /\ job[j].status = "NONE" /\ t[j].status = "PENDING" /\ t[j].appt = a
                            /\ t[j].channel \in Channel
    OBVIOUS
  <2>1. CASE \A p \in new : f[p] # j
    BY <1>6, <2>1
  <2>2. CASE \E p \in new : f[p] = j
    <3>1. PICK p \in new : f[p] = j
      BY <2>2
    <3>2. p \in P /\ t[j] = R(p) /\ job[j].status = "NONE"
      BY <1>3, <1>5, <3>1
    <3>3. p.channel \in Channel
      BY <3>2
    <3> QED BY <1>4, <3>2, <3>3
  <2> QED BY <2>1, <2>2
<1>8. t \in [Job -> JobRow]
  BY <1>1, <1>7
<1>9. \A p \in P : Taken(a, p) \/ \E j \in Job : t[j] = R(p)
  <2> SUFFICES ASSUME NEW p \in P, ~ Taken(a, p) PROVE \E j \in Job : t[j] = R(p)
    OBVIOUS
  <2>1. p \in new
    BY DEF new
  <2> QED BY <1>5, <2>1
<1>10. \A p \in P : Taken(a, p) \/ \E j \in Job :
         /\ t[j].appt = a /\ t[j].channel = p.channel
         /\ t[j].due = p.due /\ t[j].status = "PENDING"
  <2> SUFFICES ASSUME NEW p \in P, ~ Taken(a, p)
               PROVE  \E j \in Job : /\ t[j].appt = a /\ t[j].channel = p.channel
                                     /\ t[j].due = p.due /\ t[j].status = "PENDING"
    OBVIOUS
  <2>1. PICK j \in Job : t[j] = R(p)
    BY <1>9
  <2>2. /\ t[j].appt = a /\ t[j].channel = p.channel
        /\ t[j].due = p.due /\ t[j].status = "PENDING"
    BY <2>1
  <2> QED BY <2>2
<1> QED BY <1>7, <1>8, <1>10

-----------------------------------------------------------------------------
(* The transactions of the api-gateway.                                    *)

\* The passes go on with what they hold.
PassesRest ==
  /\ pass' \in [Worker -> Pass]
  /\ \A w \in Worker : /\ pass'[w].pc = pass[w].pc /\ pass'[w].at = pass[w].at
                       /\ pass'[w].page = pass[w].page /\ pass'[w].group = pass[w].group
                       /\ pass[w].dirty \subseteq pass'[w].dirty

\* A transaction on appointment a: its row stays, and who holds copies of its
\* rows is told, unless they remain true.
Transaction(a) ==
  /\ UNCHANGED <<now, key, handle, passes, sent, unsure, overrun>>
  /\ PassesRest
  /\ appt' \in [Appt -> ApptRow] /\ \A b \in Appt \ {a} : appt'[b] = appt[b]
  /\ appt'[a].exists /\ appt'[a].start \in Start
  /\ job' \in [Job -> JobRow] /\ \A j \in Job : Kept(j) \/ Ended(j) \/ Made(j)
  /\ moves' \in 0 .. MaxMoves /\ bare' \subseteq Appt /\ reading' \subseteq reading \cup {a}
  /\ \A w \in Worker : \/ pass[w].pc = "idle" \/ a \in pass'[w].dirty
                       \/ ~ appt[a].exists
                       \/ /\ appt'[a].start = appt[a].start
                          /\ appt[a].active => appt'[a].active

LEMMA DirtyPasses ==
  ASSUME TypeOK, NEW a \in Appt, Dirty(a)
  PROVE  PassesRest /\ \A w \in Worker : pass[w].pc = "idle" \/ a \in pass'[w].dirty
<1>1. \A w \in Worker : /\ pass'[w] \in Pass
                        /\ pass'[w].pc = pass[w].pc /\ pass'[w].at = pass[w].at
                        /\ pass'[w].page = pass[w].page /\ pass'[w].group = pass[w].group
                        /\ pass[w].dirty \subseteq pass'[w].dirty
                        /\ pass[w].pc = "idle" \/ a \in pass'[w].dirty
  <2> SUFFICES ASSUME NEW w \in Worker
               PROVE  /\ pass'[w] \in Pass
                      /\ pass'[w].pc = pass[w].pc /\ pass'[w].at = pass[w].at
                      /\ pass'[w].page = pass[w].page /\ pass'[w].group = pass[w].group
                      /\ pass[w].dirty \subseteq pass'[w].dirty
                      /\ pass[w].pc = "idle" \/ a \in pass'[w].dirty
    OBVIOUS
  <2>1. pass[w] \in Pass
    BY DEF TypeOK
  <2>2. pass'[w] = IF pass[w].pc = "idle" THEN pass[w]
                   ELSE [pass[w] EXCEPT !.dirty = pass[w].dirty \cup {a}]
    BY DEF Dirty
  <2>3. CASE pass[w].pc = "idle"
    BY <2>1, <2>2, <2>3
  <2>4. CASE pass[w].pc # "idle"
    BY <2>1, <2>2, <2>4 DEF Pass
  <2> QED BY <2>3, <2>4
<1>2. pass' \in [Worker -> Pass]
  BY <1>1 DEF Dirty
<1> QED BY <1>1, <1>2 DEF PassesRest

LEMMA PassesUntouched ==
  ASSUME TypeOK, UNCHANGED pass PROVE PassesRest
BY DEF TypeOK, PassesRest

LEMMA AheadPlans ==
  ASSUME TypeOK, NEW s \in Start
  PROVE  Ahead(s) \subseteq [channel : Channel, due : Nat]
<1>1. s \in Nat /\ now \in Nat /\ Offset \subseteq Nat
  BY NumberAssumption DEF TypeOK
<1>2. \A c \in Channel, o \in Offset :
        s - o > now => [channel |-> c, due |-> s - o] \in [channel : Channel, due : Nat]
  <2> SUFFICES ASSUME NEW c \in Channel, NEW o \in Offset, s - o > now
               PROVE  s - o \in Nat
    OBVIOUS
  <2>1. o \in Nat
    BY <1>1
  <2> QED BY <1>1, <2>1
<1>3. \A p \in Ahead(s) : \E c \in Channel, o \in Offset :
        p = [channel |-> c, due |-> s - o] /\ s - o > now
  BY DEF Ahead, Planned
<1> QED BY <1>2, <1>3

LEMMA BookRows ==
  ASSUME IInv, NEW a \in Appt, NEW s \in Start, Book(a),
         appt' = [appt EXCEPT ![a] = [exists |-> TRUE, active |-> TRUE, start |-> s]],
         job' \in Created(job, a, Ahead(s))
  PROVE  /\ Transaction(a) /\ appt'[a].start = s
         /\ \A j \in Job : job[j].status # "NONE" => Kept(j)
         /\ \A p \in Ahead(s) : Taken(a, p) \/ \E j \in Job :
              /\ job'[j].appt = a /\ job'[j].channel = p.channel
              /\ job'[j].due = p.due /\ job'[j].status = "PENDING"
<1>1. TypeOK
  BY DEF IInv
<1>2. /\ ~ appt[a].exists
      /\ UNCHANGED <<now, key, handle, pass, moves, passes, sent, unsure, overrun, bare, reading>>
  BY DEF Book
<1>3. /\ appt' \in [Appt -> ApptRow] /\ \A b \in Appt \ {a} : appt'[b] = appt[b]
      /\ appt'[a].exists /\ appt'[a].start = s
  BY <1>1 DEF TypeOK, ApptRow
<1>4. Ahead(s) \subseteq [channel : Channel, due : Nat] /\ job \in [Job -> JobRow]
  BY <1>1, AheadPlans DEF TypeOK
<1> DEFINE P == Ahead(s)
<1> HIDE DEF P
<1>5. PICK t \in Created(job, a, P) : job' = t
  BY DEF P
<1>6. P \subseteq [channel : Channel, due : Nat]
  BY <1>4 DEF P
<1>7. /\ t \in [Job -> JobRow]
      /\ \A j \in Job : \/ t[j] = job[j]
                        \/ /\ job[j].status = "NONE" /\ t[j].status = "PENDING" /\ t[j].appt = a
                           /\ t[j].channel \in Channel
      /\ \A p \in P : Taken(a, p) \/ \E j \in Job :
           /\ t[j].appt = a /\ t[j].channel = p.channel
           /\ t[j].due = p.due /\ t[j].status = "PENDING"
  BY <1>1, <1>4, <1>6, CreatedRows
<1>8. \A j \in Job : Kept(j) \/ Made(j)
  BY <1>3, <1>5, <1>7 DEF Kept, Made
<1>9. PassesRest
  BY <1>1, <1>2, PassesUntouched
<1>10. Transaction(a)
  BY <1>1, <1>2, <1>3, <1>5, <1>7, <1>8, <1>9 DEF Transaction, TypeOK
<1>11. \A j \in Job : job[j].status # "NONE" => Kept(j)
  BY <1>8 DEF Made
<1> QED BY <1>3, <1>5, <1>7, <1>10, <1>11 DEF P

LEMMA RescheduledRows ==
  ASSUME TypeOK, RowsOK, NEW a \in Appt, NEW active \in BOOLEAN, NEW s \in Start,
         appt[a].exists,
         appt' = [appt EXCEPT ![a].start = s, ![a].active = active],
         job' \in Created(Canceled(a, "appointment_rescheduled"), a, Ahead(s))
  PROVE  /\ appt' \in [Appt -> ApptRow] /\ \A b \in Appt \ {a} : appt'[b] = appt[b]
         /\ appt'[a].exists /\ appt'[a].start = s
         /\ job' \in [Job -> JobRow] /\ \A j \in Job : Kept(j) \/ Ended(j) \/ Made(j)
         /\ \A j \in Job : job[j].status \notin {"NONE"} /\ job[j].appt # a => Kept(j)
         /\ \A p \in Ahead(s) : Taken(a, p) \/ \E j \in Job :
              /\ job'[j].appt = a /\ job'[j].channel = p.channel
              /\ job'[j].due = p.due /\ job'[j].status = "PENDING"
<1>1. /\ appt' \in [Appt -> ApptRow] /\ \A b \in Appt \ {a} : appt'[b] = appt[b]
      /\ appt'[a].exists /\ appt'[a].start = s
  BY DEF TypeOK, ApptRow
<1> DEFINE P == Ahead(s)
           C == Canceled(a, "appointment_rescheduled")
<1>2. P \subseteq [channel : Channel, due : Nat]
  BY AheadPlans
<1>3. /\ C \in [Job -> JobRow]
      /\ \A j \in Job : \/ C[j] = job[j]
                        \/ /\ job[j].status \in Pending /\ job[j].appt = a
                           /\ C[j].status = "CANCELED" /\ C[j].appt = job[j].appt
                           /\ C[j].channel = job[j].channel /\ C[j].due = job[j].due
  BY CanceledRows
<1>4. PICK t \in Created(C, a, P) : job' = t
  OBVIOUS
<1> HIDE DEF P, C
<1>5. /\ t \in [Job -> JobRow]
      /\ \A j \in Job : \/ t[j] = C[j]
                        \/ /\ job[j].status = "NONE" /\ t[j].status = "PENDING" /\ t[j].appt = a
                           /\ t[j].channel \in Channel
      /\ \A p \in P : Taken(a, p) \/ \E j \in Job :
           /\ t[j].appt = a /\ t[j].channel = p.channel
           /\ t[j].due = p.due /\ t[j].status = "PENDING"
  BY <1>2, <1>3, CreatedRows
<1>6. \A j \in Job : /\ Kept(j) \/ Ended(j) \/ Made(j)
                     /\ job[j].status \notin {"NONE"} /\ job[j].appt # a => Kept(j)
  <2> SUFFICES ASSUME NEW j \in Job
               PROVE  /\ Kept(j) \/ Ended(j) \/ Made(j)
                      /\ job[j].status \notin {"NONE"} /\ job[j].appt # a => Kept(j)
    OBVIOUS
  <2>1. CASE t[j] = C[j] /\ C[j] = job[j]
    BY <1>4, <2>1 DEF Kept
  <2>2. CASE /\ t[j] = C[j] /\ job[j].status \in Pending /\ job[j].appt = a
             /\ C[j].status = "CANCELED" /\ C[j].appt = job[j].appt
             /\ C[j].channel = job[j].channel /\ C[j].due = job[j].due
    BY <1>4, <2>2 DEF Ended, Pending
  <2>3. CASE /\ job[j].status = "NONE" /\ t[j].status = "PENDING" /\ t[j].appt = a
             /\ t[j].channel \in Channel
    BY <1>1, <1>4, <2>3 DEF Made
  <2> QED BY <1>3, <1>5, <2>1, <2>2, <2>3
<1>7. \A p \in P : Taken(a, p) \/ \E j \in Job :
        /\ job'[j].appt = a /\ job'[j].channel = p.channel
        /\ job'[j].due = p.due /\ job'[j].status = "PENDING"
  BY <1>4, <1>5
<1>8. job' \in [Job -> JobRow]
  BY <1>4, <1>5
<1>9. \A p \in Ahead(s) : Taken(a, p) \/ \E j \in Job :
        /\ job'[j].appt = a /\ job'[j].channel = p.channel
        /\ job'[j].due = p.due /\ job'[j].status = "PENDING"
  BY <1>7 DEF P
<1>10. /\ \A j \in Job : Kept(j) \/ Ended(j) \/ Made(j)
       /\ \A j \in Job : job[j].status \notin {"NONE"} /\ job[j].appt # a => Kept(j)
  BY <1>6
<1> QED BY <1>1, <1>8, <1>9, <1>10

LEMMA MoveTransaction ==
  ASSUME IInv, NEW a \in Appt, NEW active \in BOOLEAN, NEW s \in Start,
         appt[a].exists, moves < MaxMoves, moves' = moves + 1, Dirty(a),
         UNCHANGED <<now, key, handle, passes, sent, unsure, overrun>>,
         reading' \subseteq reading, bare' \in {bare \cup {a}, bare \ {a}},
         appt' = [appt EXCEPT ![a].start = s, ![a].active = active],
         job' \in Created(Canceled(a, "appointment_rescheduled"), a, Ahead(s))
  PROVE  Transaction(a)
<1>1. TypeOK /\ RowsOK
  BY DEF IInv
<1>2. /\ appt' \in [Appt -> ApptRow] /\ \A b \in Appt \ {a} : appt'[b] = appt[b]
      /\ appt'[a].exists /\ appt'[a].start = s
      /\ job' \in [Job -> JobRow] /\ \A j \in Job : Kept(j) \/ Ended(j) \/ Made(j)
      /\ \A j \in Job : job[j].status \notin {"NONE"} /\ job[j].appt # a => Kept(j)
      /\ \A p \in Ahead(s) : Taken(a, p) \/ \E j \in Job :
           /\ job'[j].appt = a /\ job'[j].channel = p.channel
           /\ job'[j].due = p.due /\ job'[j].status = "PENDING"
  BY <1>1, RescheduledRows
<1>3. PassesRest /\ \A w \in Worker : pass[w].pc = "idle" \/ a \in pass'[w].dirty
  BY <1>1, DirtyPasses
<1>4. moves' \in 0 .. MaxMoves
  BY <1>1, NumberAssumption DEF TypeOK
<1>5. bare' \subseteq Appt
  BY <1>1 DEF TypeOK
<1> QED BY <1>2, <1>3, <1>4, <1>5 DEF Transaction

LEMMA ClientMoveTransaction ==
  ASSUME IInv, NEW a \in Appt, ClientMove(a) PROVE Transaction(a)
<1>1. PICK s \in Start :
        /\ appt' = [appt EXCEPT ![a].start = s, ![a].active = appt[a].active]
        /\ job' \in Created(Canceled(a, "appointment_rescheduled"), a, Ahead(s))
        /\ bare' \in {bare \cup {a}, bare \ {a}}
  BY DEF ClientMove, Rescheduled
<1>2. appt[a].active \in BOOLEAN
  BY DEF IInv, TypeOK, ApptRow
<1>3. /\ appt[a].exists /\ moves < MaxMoves /\ moves' = moves + 1 /\ Dirty(a)
      /\ UNCHANGED <<now, key, handle, passes, sent, unsure, overrun>> /\ reading' \subseteq reading
  BY DEF ClientMove
<1> QED BY <1>1, <1>2, <1>3, MoveTransaction

LEMMA ProMoveTransaction ==
  ASSUME IInv, NEW a \in Appt, ProMove(a) PROVE Transaction(a)
<1>1. PICK s \in Start :
        /\ appt' = [appt EXCEPT ![a].start = s, ![a].active = TRUE]
        /\ job' \in Created(Canceled(a, "appointment_rescheduled"), a, Ahead(s))
        /\ bare' \in {bare \cup {a}, bare \ {a}}
  BY DEF ProMove, Rescheduled
<1>2. /\ a \in reading /\ moves < MaxMoves /\ moves' = moves + 1 /\ Dirty(a)
      /\ UNCHANGED <<now, key, handle, passes, sent, unsure, overrun>> /\ reading' \subseteq reading
  BY DEF ProMove
<1>3. appt[a].exists
  BY <1>2 DEF IInv, ApptsOK
<1> QED BY <1>1, <1>2, <1>3, MoveTransaction

LEMMA ConfirmTransaction ==
  ASSUME IInv, NEW a \in Appt, Confirm(a) PROVE Transaction(a)
<1>1. TypeOK /\ appt[a].exists /\ appt[a].start \in Start
  BY DEF IInv, ApptsOK, Confirm
<1>2. /\ moves' = moves + 1 /\ moves < MaxMoves /\ appt' = [appt EXCEPT ![a].active = TRUE]
      /\ bare' \in {bare, bare \cup {a}} /\ reading' \subseteq reading
      /\ UNCHANGED <<now, job, key, handle, pass, passes, sent, unsure, overrun>>
  BY DEF Confirm
<1>3. /\ appt' \in [Appt -> ApptRow] /\ \A b \in Appt \ {a} : appt'[b] = appt[b]
      /\ appt'[a].exists /\ appt'[a].start = appt[a].start /\ appt'[a].active
  BY <1>1, <1>2 DEF TypeOK, ApptRow
<1>4. PassesRest
  BY <1>1, <1>2, PassesUntouched
<1>5. moves' \in 0 .. MaxMoves /\ bare' \subseteq Appt
  BY <1>1, <1>2, NumberAssumption DEF TypeOK
<1>6. job' \in [Job -> JobRow] /\ \A j \in Job : Kept(j)
  BY <1>1, <1>2 DEF TypeOK, Kept
<1> QED BY <1>1, <1>2, <1>3, <1>4, <1>5, <1>6 DEF Transaction

LEMMA ReadStatusTransaction ==
  ASSUME IInv, NEW a \in Appt, ReadStatus(a) PROVE Transaction(a)
<1>1. TypeOK /\ appt[a].exists /\ appt[a].start \in Start
  BY DEF IInv, ApptsOK, ReadStatus
<1>2. /\ reading' = reading \cup {a}
      /\ UNCHANGED <<now, appt, job, key, handle, pass, moves, passes, sent, unsure, overrun, bare>>
  BY DEF ReadStatus
<1>3. PassesRest
  BY <1>1, <1>2, PassesUntouched
<1>4. job' \in [Job -> JobRow] /\ \A j \in Job : Kept(j)
  BY <1>1, <1>2 DEF TypeOK, Kept
<1> QED BY <1>1, <1>2, <1>3, <1>4 DEF Transaction, TypeOK

LEMMA CancelTransaction ==
  ASSUME IInv, NEW a \in Appt, Cancel(a) PROVE Transaction(a)
<1>1. TypeOK /\ appt[a].exists /\ appt[a].start \in Start
  BY DEF IInv, ApptsOK, Cancel
<1>2. /\ appt' = [appt EXCEPT ![a].active = FALSE] /\ job' = Canceled(a, "none") /\ Dirty(a)
      /\ UNCHANGED <<now, key, handle, moves, passes, sent, unsure, overrun, bare, reading>>
  BY DEF Cancel
<1>3. /\ appt' \in [Appt -> ApptRow] /\ \A b \in Appt \ {a} : appt'[b] = appt[b]
      /\ appt'[a].exists /\ appt'[a].start \in Start
  BY <1>1, <1>2 DEF TypeOK, ApptRow
<1>4. PassesRest /\ \A w \in Worker : pass[w].pc = "idle" \/ a \in pass'[w].dirty
  BY <1>1, <1>2, DirtyPasses
<1> DEFINE C == Canceled(a, "none")
<1>5. /\ C \in [Job -> JobRow]
      /\ \A j \in Job : \/ C[j] = job[j]
                        \/ /\ job[j].status \in Pending /\ job[j].appt = a
                           /\ C[j].status = "CANCELED" /\ C[j].appt = job[j].appt
                           /\ C[j].channel = job[j].channel /\ C[j].due = job[j].due
  BY <1>1, CanceledRows
<1>6. job' = C
  BY <1>2
<1> HIDE DEF C
<1>7. \A j \in Job : Kept(j) \/ Ended(j)
  BY <1>5, <1>6 DEF Kept, Ended, Pending
<1> QED BY <1>1, <1>2, <1>3, <1>4, <1>5, <1>6, <1>7 DEF Transaction, TypeOK

-----------------------------------------------------------------------------
(* What rows and copies keep.                                              *)

LEMMA RowsStay ==
  ASSUME TypeOK, RowsOK, job' \in [Job -> JobRow],
         \A j \in Job : Kept(j) \/ Ended(j) \/ Delayed(j) \/ Made(j),
         \A a \in Appt : appt[a].exists => appt'[a].exists
  PROVE  RowsOK'
<1> SUFFICES ASSUME NEW j \in Job
             PROVE  \/ job'[j].status = "NONE" /\ job'[j].appt = None
                    \/ /\ job'[j].status # "NONE" /\ job'[j].channel \in Channel
                       /\ job'[j].appt \in Appt /\ appt'[job'[j].appt].exists
  BY DEF RowsOK
<1>1. \/ job[j].status = "NONE" /\ job[j].appt = None
      \/ /\ job[j].status # "NONE" /\ job[j].channel \in Channel
         /\ job[j].appt \in Appt /\ appt[job[j].appt].exists
  BY DEF RowsOK
<1>2. CASE Kept(j)
  BY <1>1, <1>2 DEF Kept
<1>3. CASE Ended(j)
  BY <1>1, <1>3 DEF Ended
<1>4. CASE Delayed(j)
  BY <1>1, <1>4 DEF Delayed
<1>5. CASE Made(j)
  BY <1>5 DEF Made
<1> QED BY <1>2, <1>3, <1>4, <1>5

\* The copies of a pass that gets no new ones stay what they are.
LEMMA CopiesStay ==
  ASSUME TypeOK, NEW w \in Worker, CopiesOK(w), now' >= now, now' \in Nat,
         \A j \in Job : Kept(j) \/ Ended(j) \/ Delayed(j) \/ Made(j),
         Held(w)' \subseteq Held(w), Held(w)' # {} => pass'[w].at = pass[w].at
  PROVE  CopiesOK(w)'
<1>1. Held(w) \subseteq Copy
  BY DEF TypeOK, Pass, Held
<1>2. \A x, y \in Held(w)' : x.id = y.id => x = y
  BY DEF CopiesOK
<1>3. ASSUME NEW x \in Held(w)'
      PROVE  /\ x.due <= pass'[w].at
             /\ job'[x.id].status # "NONE"
             /\ job'[x.id].appt = x.appt
             /\ job'[x.id].status = "PENDING" => job'[x.id].due <= now'
  <2>1. /\ x.due <= pass[w].at /\ job[x.id].status # "NONE" /\ job[x.id].appt = x.appt
        /\ job[x.id].status = "PENDING" => job[x.id].due <= now
    BY <1>3 DEF CopiesOK
  <2>2. x.id \in Job /\ pass'[w].at = pass[w].at
    BY <1>1, <1>3 DEF Copy
  <2>3. job[x.id].due \in Nat /\ now \in Nat
    BY <2>2 DEF TypeOK, JobRow
  <2>4. ~ Made(x.id)
    BY <2>1 DEF Made
  <2>5. CASE Kept(x.id)
    BY <2>1, <2>2, <2>3, <2>5 DEF Kept
  <2>6. CASE Ended(x.id)
    BY <2>1, <2>2, <2>6 DEF Ended, Pending
  <2>7. CASE Delayed(x.id)
    BY <2>1, <2>2, <2>7 DEF Delayed
  <2> QED BY <2>2, <2>4, <2>5, <2>6, <2>7
<1> QED BY <1>2, <1>3 DEF CopiesOK

-----------------------------------------------------------------------------
(* What a transaction keeps.                                               *)

LEMMA TransactionRows ==
  ASSUME IInv, NEW a \in Appt, Transaction(a)
  PROVE  TypeOK' /\ ApptsOK' /\ RowsOK'
<1>1. TypeOK'
  BY DEF IInv, Transaction, PassesRest, TypeOK
<1>2. ApptsOK'
  <2>1. \A b \in Appt : /\ appt'[b].active => appt'[b].exists
                        /\ appt'[b].exists => appt'[b].start \in Start
    <3> SUFFICES ASSUME NEW b \in Appt
                 PROVE  /\ appt'[b].active => appt'[b].exists
                        /\ appt'[b].exists => appt'[b].start \in Start
      OBVIOUS
    <3>1. CASE b = a
      BY <3>1 DEF Transaction
    <3>2. CASE b # a
      BY <3>2 DEF Transaction, IInv, ApptsOK
    <3> QED BY <3>1, <3>2
  <2>2. \A b \in reading' : appt'[b].exists
    <3> SUFFICES ASSUME NEW b \in reading', b # a PROVE appt'[b].exists
      BY DEF Transaction
    <3>1. b \in reading /\ b \in Appt
      BY DEF Transaction, IInv, TypeOK
    <3> QED BY <3>1 DEF Transaction, IInv, ApptsOK
  <2> QED BY <2>1, <2>2 DEF ApptsOK
<1>3. \A b \in Appt : appt[b].exists => appt'[b].exists
  BY DEF Transaction
<1>4. RowsOK'
  BY <1>3, RowsStay DEF IInv, Transaction
<1> QED BY <1>1, <1>2, <1>4

LEMMA TransactionPasses ==
  ASSUME IInv, NEW a \in Appt, Transaction(a)
  PROVE  PassesOK' /\ CopiesCurrent'
<1>1. PassesRest /\ now' = now
  BY DEF Transaction
<1>2. ASSUME NEW w \in Worker PROVE PassShape(w)' /\ CopiesOK(w)'
  <2>1. /\ pass'[w].pc = pass[w].pc /\ pass'[w].at = pass[w].at
        /\ pass'[w].page = pass[w].page /\ pass'[w].group = pass[w].group
    BY <1>1 DEF PassesRest
  <2>2. PassShape(w) /\ CopiesOK(w) /\ TypeOK
    BY DEF IInv, PassesOK
  <2>3. PassShape(w)'
    BY <1>1, <2>1, <2>2 DEF PassShape
  <2>4. Held(w)' = Held(w)
    BY <2>1 DEF Held
  <2>5. now \in Nat
    BY <2>2 DEF TypeOK
  <2>6. CopiesOK(w)'
    BY <1>1, <2>1, <2>2, <2>4, <2>5, CopiesStay DEF Transaction
  <2> QED BY <2>3, <2>6
<1>3. ASSUME NEW w \in Worker, NEW x \in Held(w), NEW active \in BOOLEAN, TrueOf(x, w, active)
      PROVE  TrueOf(x, w, active)'
  <2>1. Held(w) \subseteq Copy /\ x.appt \in Appt
    BY DEF IInv, TypeOK, Pass, Held, Copy
  <2>2. pass[w].pc # "idle" /\ appt[x.appt].exists
    <3>1. PassShape(w) /\ CopiesOK(w) /\ RowsOK
      BY DEF IInv, PassesOK
    <3>2. job[x.id].status # "NONE" /\ job[x.id].appt = x.appt /\ x.id \in Job
      BY <2>1, <3>1 DEF CopiesOK, Copy
    <3>3. appt[x.appt].exists
      BY <3>1, <3>2 DEF RowsOK
    <3> QED BY <3>1, <3>3 DEF PassShape, Held
  <2>3. pass[w].dirty \subseteq pass'[w].dirty
    BY <1>1 DEF PassesRest
  <2>4. CASE x.appt \in pass[w].dirty
    BY <2>3, <2>4 DEF TrueOf
  <2>5. CASE x.appt # a /\ x.appt \notin pass[w].dirty
    <3>1. appt'[x.appt] = appt[x.appt]
      BY <2>1, <2>5 DEF Transaction
    <3> QED BY <1>3, <2>5, <3>1 DEF TrueOf
  <2>6. CASE x.appt = a /\ x.appt \notin pass[w].dirty
    <3>1. \/ a \in pass'[w].dirty
          \/ appt'[a].start = appt[a].start /\ (appt[a].active => appt'[a].active)
      BY <2>2, <2>6 DEF Transaction
    <3> QED BY <1>3, <2>6, <3>1 DEF TrueOf
  <2> QED BY <2>4, <2>5, <2>6
<1>4. CopiesCurrent'
  <2> SUFFICES ASSUME NEW w \in Worker
               PROVE  /\ \A x \in pass'[w].page : TrueOf(x, w, x.active)'
                      /\ \A x \in pass'[w].group : TrueOf(x, w, TRUE)'
    BY DEF CopiesCurrent
  <2>1. pass'[w].page = pass[w].page /\ pass'[w].group = pass[w].group
    BY <1>1 DEF PassesRest
  <2>2. pass[w].page \subseteq Copy /\ pass[w].page \subseteq Held(w) /\ pass[w].group \subseteq Held(w)
    BY DEF IInv, TypeOK, Pass, Held
  <2>3. ASSUME NEW x \in pass[w].page PROVE TrueOf(x, w, x.active)'
    <3>1. TrueOf(x, w, x.active) /\ x.active \in BOOLEAN /\ x \in Held(w)
      BY <2>2 DEF IInv, CopiesCurrent, Copy
    <3>2. PICK c \in BOOLEAN : c = x.active
      BY <3>1
    <3>3. TrueOf(x, w, c)
      BY <3>1, <3>2
    <3>4. TrueOf(x, w, c)'
      BY <1>3, <3>1, <3>3
    <3> QED BY <3>2, <3>4 DEF TrueOf
  <2>4. ASSUME NEW x \in pass[w].group PROVE TrueOf(x, w, TRUE)'
    <3>1. TrueOf(x, w, TRUE) /\ x \in Held(w)
      BY <2>2 DEF IInv, CopiesCurrent
    <3> QED BY <1>3, <3>1
  <2> QED BY <2>1, <2>3, <2>4
<1> QED BY <1>2, <1>4 DEF PassesOK

LEMMA TransactionSent ==
  ASSUME IInv, NEW a \in Appt, Transaction(a)
  PROVE  LockOK' /\ NotYetSent' /\ SentIsRecorded' /\ TwiceOnlyUnsure'
<1>1. /\ UNCHANGED <<key, handle, sent, unsure, overrun>> /\ PassesRest
      /\ \A j \in Job : Kept(j) \/ Ended(j) \/ Made(j)
  BY DEF Transaction
<1>2. \A w \in Worker : /\ pass'[w].pc = pass[w].pc
                        /\ pass'[w].page = pass[w].page /\ pass'[w].group = pass[w].group
  BY <1>1 DEF PassesRest
<1>3. LockOK'
  BY <1>1, <1>2 DEF IInv, LockOK
<1>4. \A w \in Worker : Waiting(w)' = Waiting(w) /\ Unrecorded(w)' = Unrecorded(w)
  BY <1>2 DEF Waiting, Unrecorded, At
<1>5. NotYetSent'
  BY <1>1, <1>4 DEF IInv, NotYetSent
<1>6. SentIsRecorded'
  <2> SUFFICES ASSUME ~ overrun, NEW j \in Job, sent[j] # 0, j \notin unsure,
                      \A w \in Worker : j \notin Unrecorded(w)
               PROVE  job'[j].status \notin Pending \cup {"NONE"}
    BY <1>1, <1>4 DEF SentIsRecorded
  <2>1. job[j].status \notin Pending \cup {"NONE"}
    BY DEF IInv, SentIsRecorded
  <2> QED BY <1>1, <2>1 DEF Kept, Ended, Made
<1>7. TwiceOnlyUnsure'
  BY <1>1 DEF IInv, TwiceOnlyUnsure
<1> QED BY <1>3, <1>5, <1>6, <1>7

-----------------------------------------------------------------------------
(* The jobs of the slots.                                                  *)

HasJob(a, p) == \E j \in Job : /\ job[j].appt = a /\ job[j].channel = p.channel
                               /\ job[j].due = p.due /\ job[j].status = "PENDING"
HasJobs(a) == \A p \in Planned(appt[a].start) :
                appt[a].active /\ p.due > now => HasJob(a, p)

LEMMA SlotsAreJobs == EverySlotHasJobs <=> \A a \in Appt \ bare : HasJobs(a)
BY DEF EverySlotHasJobs, HasJobs, HasJob

LEMMA PlannedDue ==
  ASSUME NEW s \in Nat, NEW p \in Planned(s) PROVE p.due \in Int
<1>1. PICK o \in Offset : p.due = s - o
  BY DEF Planned
<1> QED BY <1>1, NumberAssumption

\* As long as its row stays, so do the jobs that are ahead.
LEMMA SlotStays ==
  ASSUME TypeOK, NEW a \in Appt, HasJobs(a), appt'[a] = appt[a], now' >= now, now' \in Nat,
         \A j \in Job : job[j].status = "PENDING" /\ job[j].appt = a /\ job[j].due > now'
                        => Kept(j)
  PROVE  HasJobs(a)'
<1> SUFFICES ASSUME NEW p \in Planned(appt[a].start), appt[a].active, p.due > now'
             PROVE  HasJob(a, p)'
  BY DEF HasJobs
<1>1. p.due \in Int
  <2>1. appt[a].start \in Nat
    <3>1. appt[a] \in ApptRow
      BY DEF TypeOK
    <3>2. Start \cup {0} \subseteq Nat
      BY NumberAssumption
    <3>3. appt[a].start \in Start \cup {0}
      BY <3>1 DEF ApptRow
    <3> QED BY <3>2, <3>3
  <2> QED BY <2>1, PlannedDue
<1>2. p.due > now
  BY <1>1 DEF TypeOK
<1>3. PICK j \in Job : /\ job[j].appt = a /\ job[j].channel = p.channel
                       /\ job[j].due = p.due /\ job[j].status = "PENDING"
  BY <1>2 DEF HasJobs, HasJob
<1>4. job'[j] = job[j]
  BY <1>3 DEF Kept
<1> QED BY <1>3, <1>4 DEF HasJob

LEMMA NowStays == TypeOK => now \in Nat /\ now >= now
BY DEF TypeOK

LEMMA BookSlots ==
  ASSUME IInv, NEW a \in Appt, Book(a) PROVE EverySlotHasJobs'
<1>1. PICK s \in Start :
        /\ appt' = [appt EXCEPT ![a] = [exists |-> TRUE, active |-> TRUE, start |-> s]]
        /\ job' \in Created(job, a, Ahead(s))
  BY DEF Book
<1>2. /\ Transaction(a) /\ appt'[a].start = s
      /\ \A j \in Job : job[j].status # "NONE" => Kept(j)
      /\ \A p \in Ahead(s) : Taken(a, p) \/ \E j \in Job :
           /\ job'[j].appt = a /\ job'[j].channel = p.channel
           /\ job'[j].due = p.due /\ job'[j].status = "PENDING"
  BY <1>1, BookRows
<1>3. TypeOK /\ now' = now /\ bare' = bare /\ ~ appt[a].exists /\ RowsOK
  BY DEF IInv, Book
<1>4. \A p \in Ahead(s) : ~ Taken(a, p)
  BY <1>3, NoneAssumption DEF Taken, RowsOK
<1>5. HasJobs(a)'
  <2> SUFFICES ASSUME NEW p \in Planned(s), p.due > now PROVE HasJob(a, p)'
    BY <1>2, <1>3 DEF HasJobs
  <2>1. p \in Ahead(s)
    BY DEF Ahead
  <2> QED BY <1>2, <1>4, <2>1 DEF HasJob
<1>6. ASSUME NEW b \in Appt \ bare, b # a PROVE HasJobs(b)'
  <2>1. HasJobs(b) /\ appt'[b] = appt[b]
    BY <1>2, <1>6, SlotsAreJobs DEF IInv, Transaction
  <2> QED BY <1>2, <1>3, <2>1, SlotStays, NowStays
<1>7. \A b \in Appt \ bare' : HasJobs(b)'
  BY <1>3, <1>5, <1>6
<1> QED BY <1>7 DEF EverySlotHasJobs, HasJobs, HasJob

LEMMA MoveSlots ==
  ASSUME IInv, NEW a \in Appt, NEW active \in BOOLEAN, NEW s \in Start,
         appt[a].exists, now' = now,
         appt' = [appt EXCEPT ![a].start = s, ![a].active = active],
         job' \in Created(Canceled(a, "appointment_rescheduled"), a, Ahead(s)),
         bare' = IF \E p \in Ahead(s) : Taken(a, p) THEN bare \cup {a} ELSE bare \ {a}
  PROVE  EverySlotHasJobs'
<1>1. TypeOK /\ RowsOK
  BY DEF IInv
<1>2. /\ appt' \in [Appt -> ApptRow] /\ \A b \in Appt \ {a} : appt'[b] = appt[b]
      /\ appt'[a].exists /\ appt'[a].start = s
      /\ job' \in [Job -> JobRow] /\ \A j \in Job : Kept(j) \/ Ended(j) \/ Made(j)
      /\ \A j \in Job : job[j].status \notin {"NONE"} /\ job[j].appt # a => Kept(j)
      /\ \A p \in Ahead(s) : Taken(a, p) \/ \E j \in Job :
           /\ job'[j].appt = a /\ job'[j].channel = p.channel
           /\ job'[j].due = p.due /\ job'[j].status = "PENDING"
  BY <1>1, RescheduledRows
<1>3. ASSUME a \notin bare' PROVE HasJobs(a)'
  <2>1. \A p \in Ahead(s) : ~ Taken(a, p)
    BY <1>3
  <2> SUFFICES ASSUME NEW p \in Planned(s), p.due > now PROVE HasJob(a, p)'
    BY <1>2 DEF HasJobs
  <2>2. p \in Ahead(s)
    BY DEF Ahead
  <2> QED BY <1>2, <2>1, <2>2 DEF HasJob
<1>4. ASSUME NEW b \in Appt \ bare', b # a PROVE HasJobs(b)'
  <2>1. b \in Appt \ bare
    BY <1>4
  <2>2. HasJobs(b) /\ appt'[b] = appt[b]
    BY <1>2, <1>4, <2>1, SlotsAreJobs DEF IInv
  <2> QED BY <1>1, <1>2, <1>4, <2>2, SlotStays, NowStays
<1>5. \A b \in Appt \ bare' : HasJobs(b)'
  BY <1>3, <1>4
<1> QED BY <1>5 DEF EverySlotHasJobs, HasJobs, HasJob

LEMMA TransactionSlots ==
  ASSUME IInv, NEW a \in Appt,
         ClientMove(a) \/ ReadStatus(a) \/ ProMove(a) \/ Confirm(a) \/ Cancel(a)
  PROVE  EverySlotHasJobs'
<1>1. TypeOK /\ now' = now
  BY DEF IInv, ClientMove, ReadStatus, ProMove, Confirm, Cancel
<1>2. CASE ClientMove(a)
  <2>1. PICK s \in Start :
          /\ appt' = [appt EXCEPT ![a].start = s, ![a].active = appt[a].active]
          /\ job' \in Created(Canceled(a, "appointment_rescheduled"), a, Ahead(s))
          /\ bare' = IF \E p \in Ahead(s) : Taken(a, p) THEN bare \cup {a} ELSE bare \ {a}
    BY <1>2 DEF ClientMove, Rescheduled
  <2>2. appt[a].active \in BOOLEAN /\ appt[a].exists
    BY <1>1, <1>2 DEF TypeOK, ApptRow, ClientMove
  <2> QED BY <1>1, <2>1, <2>2, MoveSlots
<1>3. CASE ProMove(a)
  <2>1. PICK s \in Start :
          /\ appt' = [appt EXCEPT ![a].start = s, ![a].active = TRUE]
          /\ job' \in Created(Canceled(a, "appointment_rescheduled"), a, Ahead(s))
          /\ bare' = IF \E p \in Ahead(s) : Taken(a, p) THEN bare \cup {a} ELSE bare \ {a}
    BY <1>3 DEF ProMove, Rescheduled
  <2>2. appt[a].exists
    BY <1>3 DEF ProMove, IInv, ApptsOK
  <2> QED BY <1>1, <2>1, <2>2, MoveSlots
<1>4. CASE ReadStatus(a)
  BY <1>4 DEF ReadStatus, IInv, EverySlotHasJobs, Planned
<1>5. ASSUME NEW b \in Appt \ bare', HasJobs(b), appt'[b] = appt[b],
             \A j \in Job : job[j].status # "NONE" /\ job[j].appt = b => Kept(j)
      PROVE  HasJobs(b)'
  BY <1>1, <1>5, SlotStays, NowStays
<1>6. CASE Confirm(a)
  <2>1. /\ appt' = [appt EXCEPT ![a].active = TRUE] /\ job' = job
        /\ bare' = IF appt[a].active THEN bare ELSE bare \cup {a}
    BY <1>6 DEF Confirm
  <2>2. ASSUME NEW b \in Appt \ bare' PROVE HasJobs(b)'
    <3>1. HasJobs(b)
      BY <2>1, SlotsAreJobs DEF IInv
    <3>2. appt'[b] = appt[b]
      <4>1. CASE b # a
        BY <1>1, <2>1, <4>1 DEF TypeOK
      <4>2. CASE b = a
        <5>1. appt[a].active
          BY <2>1, <2>2, <4>2
        <5>2. appt[a] \in ApptRow
          BY <1>1 DEF TypeOK
        <5> QED BY <1>1, <2>1, <4>2, <5>1, <5>2 DEF TypeOK, ApptRow
      <4> QED BY <4>1, <4>2
    <3> QED BY <1>5, <2>1, <3>1, <3>2 DEF Kept
  <2> QED BY <2>2 DEF EverySlotHasJobs, HasJobs, HasJob
<1>7. CASE Cancel(a)
  <2>1. /\ appt' = [appt EXCEPT ![a].active = FALSE] /\ job' = Canceled(a, "none")
        /\ bare' = bare
    BY <1>7 DEF Cancel
  <2>2. \A j \in Job : Kept(j) \/ job[j].appt = a
    BY <1>1, <2>1, CanceledRows DEF Kept
  <2>3. ASSUME NEW b \in Appt \ bare' PROVE HasJobs(b)'
    <3>1. CASE b = a
      <4>1. ~ appt'[a].active
        BY <1>1, <2>1 DEF TypeOK, ApptRow
      <4> QED BY <3>1, <4>1 DEF HasJobs
    <3>2. CASE b # a
      <4>1. HasJobs(b) /\ appt'[b] = appt[b]
        BY <1>1, <2>1, <3>2, SlotsAreJobs DEF IInv, TypeOK
      <4> QED BY <1>5, <2>2, <3>2, <4>1
    <3> QED BY <3>1, <3>2
  <2> QED BY <2>3 DEF EverySlotHasJobs, HasJobs, HasJob
<1> QED BY <1>2, <1>3, <1>4, <1>6, <1>7

-----------------------------------------------------------------------------
(* What a step of a pass keeps.                                            *)

OthersRest(w) == /\ pass' \in [Worker -> Pass]
                 /\ \A v \in Worker \ {w} : pass'[v] = pass[v]

\* The pass of w goes on at pc, with these copies; it forgets what it knew
\* about them only when it holds none.
Becomes(w, pc, page, group) ==
  /\ OthersRest(w)
  /\ pass'[w].pc = pc /\ pass'[w].page = page /\ pass'[w].group = group
  /\ pass'[w].at <= now
  /\ page \cup group # {} => pass'[w].at = pass[w].at /\ pass'[w].dirty = pass[w].dirty

\* It does so with copies it had before, and writes rows that are due.
Treats(w, pc, page, group) ==
  /\ pass[w].pc # "idle" /\ Becomes(w, pc, page, group)
  /\ page \subseteq pass[w].page /\ group \subseteq Held(w) /\ page \cap group = {}
  /\ pc \in {"idle", "clean", "page", "release"} => page = {}
  /\ pc \notin {"pushed", "later", "whatsapp", "sent"} => group = {}
  /\ \A x \in group : TrueOf(x, w, TRUE)
  /\ UNCHANGED <<now, appt, moves, passes, overrun, bare, reading>>
  /\ job' \in [Job -> JobRow] /\ \A j \in Job : Kept(j) \/ Ended(j) \/ Delayed(j)
  /\ \A j \in Job : job[j].status = "PENDING" /\ job[j].due > now => Kept(j)

LEMMA SlotsStay ==
  ASSUME TypeOK, EverySlotHasJobs, UNCHANGED <<appt, bare>>, now' >= now, now' \in Nat,
         \A j \in Job : job[j].status = "PENDING" /\ job[j].due > now' => Kept(j)
  PROVE  EverySlotHasJobs'
<1>1. ASSUME NEW a \in Appt \ bare PROVE HasJobs(a)'
  <2>1. HasJobs(a) /\ appt'[a] = appt[a]
    BY SlotsAreJobs
  <2> QED BY <2>1, SlotStays
<1> QED BY <1>1 DEF EverySlotHasJobs, HasJobs, HasJob

LEMMA TreatsTables ==
  ASSUME IInv, NEW w \in Worker, NEW pc, NEW page, NEW group, Treats(w, pc, page, group)
  PROVE  ApptsOK' /\ RowsOK' /\ EverySlotHasJobs'
<1>1. UNCHANGED <<now, appt, bare, reading>> /\ TypeOK
  BY DEF Treats, IInv
<1>2. ApptsOK'
  BY <1>1 DEF IInv, ApptsOK
<1>3. RowsOK'
  BY <1>1, RowsStay DEF Treats, IInv
<1>4. EverySlotHasJobs'
  <2>1. now' >= now /\ now' \in Nat
    BY <1>1, NowStays
  <2> QED BY <1>1, <2>1, SlotsStay DEF Treats, IInv
<1> QED BY <1>2, <1>3, <1>4

LEMMA TreatsPasses ==
  ASSUME IInv, NEW w \in Worker, NEW pc, NEW page, NEW group, Treats(w, pc, page, group)
  PROVE  PassesOK' /\ CopiesCurrent'
<1>1. UNCHANGED <<now, appt>> /\ TypeOK /\ now \in Nat
  BY DEF Treats, IInv, TypeOK
<1>2. /\ pass'[w].pc = pc /\ pass'[w].page = page /\ pass'[w].group = group
      /\ pass'[w].at <= now
      /\ page \cup group # {} => pass'[w].at = pass[w].at /\ pass'[w].dirty = pass[w].dirty
      /\ \A v \in Worker \ {w} : pass'[v] = pass[v]
  BY DEF Treats, Becomes, OthersRest
<1>3. \A j \in Job : Kept(j) \/ Ended(j) \/ Delayed(j) \/ Made(j)
  BY DEF Treats
<1>4. PassShape(w)'
  BY <1>1, <1>2 DEF Treats, PassShape
<1>5. CopiesOK(w)'
  <2>1. Held(w)' = page \cup group /\ Held(w)' \subseteq Held(w)
    BY <1>2 DEF Held, Treats
  <2>2. CopiesOK(w) /\ now' >= now /\ now' \in Nat
    BY <1>1 DEF IInv, PassesOK
  <2> QED BY <1>1, <1>2, <1>3, <2>1, <2>2, CopiesStay
<1>6. ASSUME NEW v \in Worker \ {w} PROVE PassShape(v)' /\ CopiesOK(v)'
  <2>1. pass'[v] = pass[v] /\ PassShape(v) /\ CopiesOK(v)
    BY <1>2 DEF IInv, PassesOK
  <2>2. PassShape(v)'
    BY <1>1, <2>1 DEF PassShape
  <2>3. Held(v)' = Held(v) /\ now' >= now /\ now' \in Nat
    BY <1>1, <2>1 DEF Held
  <2>4. CopiesOK(v)'
    BY <1>1, <1>3, <2>1, <2>3, CopiesStay
  <2> QED BY <2>2, <2>4
<1>7. PassesOK'
  BY <1>4, <1>5, <1>6 DEF PassesOK
<1>8. CopiesCurrent'
  <2> SUFFICES ASSUME NEW v \in Worker
               PROVE  /\ \A x \in pass'[v].page : TrueOf(x, v, x.active)'
                      /\ \A x \in pass'[v].group : TrueOf(x, v, TRUE)'
    BY DEF CopiesCurrent
  <2>1. CASE v # w
    <3>1. pass'[v] = pass[v]
      BY <1>2, <2>1
    <3> QED BY <1>1, <3>1 DEF IInv, CopiesCurrent, TrueOf
  <2>2. CASE v = w
    <3>1. \A x \in page : TrueOf(x, w, x.active)
      BY DEF Treats, IInv, CopiesCurrent
    <3>2. \A x \in group : TrueOf(x, w, TRUE)
      BY DEF Treats
    <3>3. page \cup group # {} => pass'[w].dirty = pass[w].dirty
      BY <1>2
    <3>4. \A x \in page : TrueOf(x, w, x.active)'
      BY <1>1, <3>1, <3>3 DEF TrueOf
    <3>5. \A x \in group : TrueOf(x, w, TRUE)'
      BY <1>1, <3>2, <3>3 DEF TrueOf
    <3> QED BY <1>2, <2>2, <3>4, <3>5
  <2> QED BY <2>1, <2>2
<1> QED BY <1>7, <1>8

LEMMA TreatsType ==
  ASSUME IInv, NEW w \in Worker, NEW pc, NEW page, NEW group, Treats(w, pc, page, group),
         UNCHANGED <<key, handle>>, unsure' \subseteq Job, sent' \in [Job -> 0 .. 2]
  PROVE  TypeOK' /\ LockOK'
<1>1. TypeOK'
  BY DEF IInv, TypeOK, Treats, Becomes, OthersRest
<1>2. LockOK'
  <2>1. /\ key' = key /\ handle' = handle /\ overrun' = overrun
        /\ \A v \in Worker \ {w} : pass'[v] = pass[v]
        /\ pass[w].pc # "idle"
    BY DEF Treats, Becomes, OthersRest
  <2>2. \A v \in Worker : pass'[v].pc # "idle" => pass[v].pc # "idle"
    BY <2>1
  <2> QED BY <2>1, <2>2 DEF IInv, LockOK
<1> QED BY <1>1, <1>2

\* Only one pass is under way as long as no lease was outlived.
LEMMA Alone ==
  ASSUME IInv, ~ overrun, NEW v \in Worker, NEW w \in Worker,
         pass[v].pc # "idle", pass[w].pc # "idle"
  PROVE  v = w
BY DEF IInv, LockOK

LEMMA IdleWaits ==
  ASSUME PassesOK, NEW w \in Worker, pass[w].pc = "idle"
  PROVE  Waiting(w) = {} /\ Unrecorded(w) = {}
BY DEF PassesOK, PassShape, Waiting, Unrecorded, At

LEMMA NotYetStays ==
  ASSUME IInv, NEW w \in Worker, pass[w].pc # "idle", overrun' = overrun,
         unsure \subseteq unsure', OthersRest(w), Waiting(w)' \subseteq Waiting(w),
         \A x \in Waiting(w)' : sent'[x.id] = sent[x.id]
  PROVE  NotYetSent'
<1> SUFFICES ASSUME ~ overrun, NEW v \in Worker, NEW x \in Waiting(v)'
             PROVE  sent'[x.id] = 0 \/ x.id \in unsure'
  BY DEF NotYetSent
<1>1. CASE v = w
  <2>1. sent[x.id] = 0 \/ x.id \in unsure
    BY <1>1 DEF IInv, NotYetSent
  <2> QED BY <1>1, <2>1
<1>2. CASE v # w
  <2>1. pass'[v] = pass[v] /\ pass[v].pc = "idle"
    BY <1>2, Alone DEF OthersRest
  <2>2. Waiting(v)' = Waiting(v)
    BY <2>1 DEF Waiting, At
  <2> QED BY <2>1, <2>2, IdleWaits DEF IInv
<1> QED BY <1>1, <1>2

LEMMA RecordedStays ==
  ASSUME IInv, NEW w \in Worker, overrun' = overrun, unsure \subseteq unsure', OthersRest(w),
         \A j \in Job : Kept(j) \/ Ended(j) \/ sent[j] = 0 \/ j \in unsure \/ overrun,
         \A j \in Job : sent'[j] = sent[j] \/ j \in Unrecorded(w)',
         \A j \in Unrecorded(w) : j \in Unrecorded(w)' \/ j \in unsure' \/ Ended(j)
  PROVE  SentIsRecorded'
<1> SUFFICES ASSUME ~ overrun, NEW j \in Job, sent'[j] # 0, j \notin unsure',
                    \A v \in Worker : j \notin Unrecorded(v)'
             PROVE  job'[j].status \notin Pending \cup {"NONE"}
  BY DEF SentIsRecorded
<1>1. sent[j] # 0 /\ j \notin unsure
  OBVIOUS
<1>2. \A v \in Worker \ {w} : Unrecorded(v)' = Unrecorded(v)
  BY DEF OthersRest, Unrecorded, At
<1>3. CASE Ended(j)
  BY <1>3 DEF Ended
<1>4. CASE ~ Ended(j)
  <2>1. \A v \in Worker : j \notin Unrecorded(v)
    BY <1>2, <1>4
  <2>2. job[j].status \notin Pending \cup {"NONE"}
    BY <1>1, <2>1 DEF IInv, SentIsRecorded
  <2> QED BY <1>1, <1>4, <2>2 DEF Kept
<1> QED BY <1>3, <1>4

LEMMA TwiceStays ==
  ASSUME IInv, sent' = sent, unsure \subseteq unsure', overrun' = overrun
  PROVE  TwiceOnlyUnsure'
BY DEF IInv, TwiceOnlyUnsure

\* A step of a pass that publishes nothing.
LEMMA TreatsQuietly ==
  ASSUME IInv, NEW w \in Worker, NEW pc, NEW page, NEW group, Treats(w, pc, page, group),
         UNCHANGED <<key, handle, sent, unsure>>, Waiting(w)' \subseteq Waiting(w),
         \A j \in Job : Kept(j) \/ Ended(j) \/ sent[j] = 0 \/ j \in unsure \/ overrun,
         \A j \in Unrecorded(w) : j \in Unrecorded(w)' \/ Ended(j)
  PROVE  IInv'
<1>1. /\ OthersRest(w) /\ overrun' = overrun /\ pass[w].pc # "idle"
  BY DEF Treats, Becomes
<1>2. sent' \in [Job -> 0 .. 2] /\ unsure' \subseteq Job
  BY DEF IInv, TypeOK
<1>3. TypeOK' /\ LockOK'
  BY <1>2, TreatsType
<1>4. ApptsOK' /\ RowsOK' /\ EverySlotHasJobs'
  BY TreatsTables
<1>5. PassesOK' /\ CopiesCurrent'
  BY TreatsPasses
<1>6. NotYetSent'
  BY <1>1, NotYetStays
<1>7. SentIsRecorded'
  BY <1>1, RecordedStays
<1>8. TwiceOnlyUnsure'
  BY <1>1, TwiceStays
<1> QED BY <1>3, <1>4, <1>5, <1>6, <1>7, <1>8 DEF IInv

\* A step of a pass that publishes the messages of copies G that waited, and
\* does nothing else.
LEMMA TreatsAloud ==
  ASSUME IInv, NEW w \in Worker, NEW pc, NEW page, NEW group, Treats(w, pc, page, group),
         UNCHANGED <<job, key, handle, unsure>>, Unrecorded(w) = {},
         NEW G, G \subseteq Waiting(w), G \subseteq Held(w), Count(G), Unrecorded(w)' = Ids(G),
         Waiting(w)' \subseteq Waiting(w) \ G, Waiting(w) \subseteq Held(w)
  PROVE  IInv'
<1>1. /\ OthersRest(w) /\ overrun' = overrun /\ pass[w].pc # "idle" /\ TypeOK
  BY DEF Treats, Becomes, IInv
<1>2. \A j \in Job : /\ sent'[j] \in 0 .. 2
                     /\ j \notin Ids(G) => sent'[j] = sent[j]
                     /\ sent'[j] = 2 => sent[j] # 0
  <2> SUFFICES ASSUME NEW j \in Job
               PROVE  /\ sent'[j] \in 0 .. 2
                      /\ j \notin Ids(G) => sent'[j] = sent[j]
                      /\ sent'[j] = 2 => sent[j] # 0
    OBVIOUS
  <2>1. sent'[j] = IF j \in Ids(G) /\ sent[j] < 2 THEN sent[j] + 1 ELSE sent[j]
    BY DEF Count
  <2>2. sent[j] \in 0 .. 2
    BY <1>1 DEF TypeOK
  <2> QED BY <2>1, <2>2
<1>3. sent' \in [Job -> 0 .. 2] /\ unsure' \subseteq Job
  BY <1>1, <1>2 DEF TypeOK, Count
<1>4. TypeOK' /\ LockOK'
  BY <1>3, TreatsType
<1>5. ApptsOK' /\ RowsOK' /\ EverySlotHasJobs'
  BY TreatsTables
<1>6. PassesOK' /\ CopiesCurrent'
  BY TreatsPasses
<1>7. NotYetSent'
  <2>1. ASSUME NEW x \in Waiting(w)' PROVE sent'[x.id] = sent[x.id]
    <3>1. x \in Held(w) /\ x \notin G
      BY <2>1
    <3>2. x.id \notin Ids(G)
      BY <3>1 DEF IInv, PassesOK, CopiesOK, Ids
    <3>3. x.id \in Job
      BY <1>1, <3>1 DEF TypeOK, Pass, Held, Copy
    <3> QED BY <1>2, <3>2, <3>3
  <2> QED BY <1>1, <2>1, NotYetStays
<1>8. SentIsRecorded'
  <2>1. \A j \in Job : Kept(j)
    BY DEF Kept
  <2>2. \A j \in Job : sent'[j] = sent[j] \/ j \in Unrecorded(w)'
    BY <1>2
  <2> QED BY <1>1, <2>1, <2>2, RecordedStays
<1>9. TwiceOnlyUnsure'
  <2> SUFFICES ASSUME NEW j \in Job, sent'[j] = 2, ~ overrun PROVE j \in unsure
    BY <1>1 DEF TwiceOnlyUnsure
  <2>1. CASE j \notin Ids(G)
    BY <1>2, <2>1 DEF IInv, TwiceOnlyUnsure
  <2>2. CASE j \in Ids(G)
    <3>1. PICK x \in G : x.id = j
      BY <2>2 DEF Ids
    <3>2. sent[j] = 0 \/ j \in unsure
      BY <3>1 DEF IInv, NotYetSent
    <3> QED BY <1>2, <3>2
  <2> QED BY <2>1, <2>2
<1> QED BY <1>4, <1>5, <1>6, <1>7, <1>8, <1>9 DEF IInv

-----------------------------------------------------------------------------
(* The steps of a pass.                                                    *)

LEMMA GotoPass ==
  ASSUME TypeOK, NEW w \in Worker, NEW q \in Pass, Goto(w, q)
  PROVE  OthersRest(w) /\ pass'[w] = q
BY DEF TypeOK, Goto, OthersRest

LEMMA HeldRows ==
  ASSUME IInv, NEW w \in Worker
  PROVE  /\ pass[w] \in Pass /\ Held(w) \subseteq Copy /\ pass[w].at <= now
         /\ \A x \in Held(w) : /\ x.id \in Job /\ job[x.id].status # "NONE"
                               /\ job[x.id].status = "PENDING" => job[x.id].due <= now
<1>1. pass[w] \in Pass /\ Held(w) \subseteq Copy
  BY DEF IInv, TypeOK, Pass, Held
<1>2. PassShape(w) /\ CopiesOK(w)
  BY DEF IInv, PassesOK
<1> QED BY <1>1, <1>2 DEF PassShape, CopiesOK, Copy

LEMMA MarkHeld ==
  ASSUME IInv, NEW w \in Worker, NEW G, G \subseteq Held(w),
         NEW status, status \in {"SENT", "FAILED", "SKIPPED"},
         NEW error, error \in {"none", "appointment_rescheduled"},
         Mark(Ids(G), status, error)
  PROVE  /\ job' \in [Job -> JobRow]
         /\ \A j \in Job : Kept(j) \/ Ended(j)
         /\ \A j \in Ids(G) : Ended(j)
         /\ \A j \in Job : job[j].status = "PENDING" /\ job[j].due > now => Kept(j)
<1> DEFINE S == Ids(G)
<1>1. \A x \in Held(w) : /\ x.id \in Job /\ job[x.id].status # "NONE"
                         /\ job[x.id].status = "PENDING" => job[x.id].due <= now
  BY HeldRows
<1>2. \A j \in S : \E x \in Held(w) : x.id = j
  BY DEF Ids
<1>3. TypeOK
  BY DEF IInv
<1>4. S \subseteq Job /\ \A j \in S : job[j].status # "NONE"
  BY <1>1, <1>2
<1>5. Mark(S, status, error)
  OBVIOUS
<1> HIDE DEF S
<1>6. /\ job' \in [Job -> JobRow]
      /\ \A j \in S : Ended(j)
      /\ \A j \in Job \ S : Kept(j)
  BY <1>3, <1>4, <1>5, MarkRows
<1>7. \A j \in Job : job[j].status = "PENDING" /\ job[j].due > now => j \notin S
  <2> SUFFICES ASSUME NEW j \in S, job[j].status = "PENDING", job[j].due > now PROVE FALSE
    OBVIOUS
  <2>1. j \in Job /\ job[j].due <= now
    BY <1>1, <1>2, <1>4
  <2>2. job[j].due \in Nat /\ now \in Nat
    BY <1>3, <2>1 DEF TypeOK, JobRow
  <2> QED BY <2>1, <2>2
<1>8. \A j \in Job : Kept(j) \/ Ended(j)
  BY <1>6
<1>9. \A j \in Job : job[j].status = "PENDING" /\ job[j].due > now => Kept(j)
  BY <1>6, <1>7
<1>10. \A j \in Ids(G) : Ended(j)
  BY <1>6 DEF S
<1> QED BY <1>6, <1>8, <1>9, <1>10

LEMMA TableRests ==
  ASSUME IInv, UNCHANGED job
  PROVE  job' \in [Job -> JobRow] /\ \A j \in Job : Kept(j)
BY DEF IInv, TypeOK, Kept

LEMMA SkipLateInv ==
  ASSUME IInv, NEW w \in Worker, SkipLate(w) PROVE IInv'
<1>1. /\ pass[w].pc = "clean" /\ TypeOK /\ PassShape(w) /\ pass[w] \in Pass
      /\ Goto(w, [pass[w] EXCEPT !.pc = "page"])
      /\ UNCHANGED <<now, appt, key, handle, moves, passes, sent, unsure, overrun, bare, reading>>
  BY HeldRows DEF SkipLate, At, IInv, PassesOK
<1> DEFINE q == [pass[w] EXCEPT !.pc = "page"]
<1>2. q \in Pass /\ q.pc = "page" /\ q.page = {} /\ q.group = {} /\ q.at <= now
  BY <1>1 DEF Pass, PassShape
<1> HIDE DEF q
<1>3. OthersRest(w) /\ pass'[w] = q
  BY <1>1, <1>2, GotoPass DEF q
<1>4. Becomes(w, "page", {}, {})
  BY <1>2, <1>3 DEF Becomes
<1>5. \A j \in Job : \/ Kept(j)
                     \/ Ended(j) /\ job[j].due < pass[w].at - Grace
  <2> SUFFICES ASSUME NEW j \in Job
               PROVE  \/ Kept(j)
                      \/ Ended(j) /\ job[j].due < pass[w].at - Grace
    OBVIOUS
  <2>1. job[j] \in JobRow
    BY <1>1 DEF TypeOK
  <2>2. job'[j] = IF job[j].status \in Pending /\ job[j].due < pass[w].at - Grace
                  THEN [job[j] EXCEPT !.status = "SKIPPED", !.error = "none"] ELSE job[j]
    BY DEF SkipLate
  <2>3. CASE job[j].status \in Pending /\ job[j].due < pass[w].at - Grace
    <3>1. job'[j] = [job[j] EXCEPT !.status = "SKIPPED", !.error = "none"]
      BY <2>2, <2>3
    <3>2. /\ job'[j].status = "SKIPPED" /\ job'[j].appt = job[j].appt
          /\ job'[j].channel = job[j].channel /\ job'[j].due = job[j].due
      BY <2>1, <3>1 DEF JobRow
    <3> QED BY <2>3, <3>2 DEF Ended, Pending
  <2>4. CASE ~ (job[j].status \in Pending /\ job[j].due < pass[w].at - Grace)
    BY <2>2, <2>4 DEF Kept
  <2> QED BY <2>3, <2>4
<1>6. job' \in [Job -> JobRow]
  <2>1. \A j \in Job : [job[j] EXCEPT !.status = "SKIPPED", !.error = "none"] \in JobRow
    BY <1>1 DEF TypeOK, JobRow
  <2>2. \A j \in Job : job[j] \in JobRow
    BY <1>1 DEF TypeOK
  <2> QED BY <2>1, <2>2 DEF SkipLate
<1>7. \A j \in Job : job[j].status = "PENDING" /\ job[j].due > now => Kept(j)
  <2> SUFFICES ASSUME NEW j \in Job, job[j].due > now, job[j].due < pass[w].at - Grace PROVE FALSE
    BY <1>5
  <2>1. job[j] \in JobRow /\ now \in Nat /\ pass[w].at \in Nat /\ pass[w].at <= now
    BY <1>1 DEF TypeOK, Pass, PassShape
  <2>2. job[j].due \in Nat /\ Grace \in Nat
    BY <2>1, NumberAssumption DEF JobRow
  <2> QED BY <2>1, <2>2
<1>8. Treats(w, "page", {}, {})
  BY <1>1, <1>4, <1>5, <1>6, <1>7 DEF Treats
<1>9. Waiting(w)' = {} /\ Unrecorded(w) = {}
  BY <1>1, <1>2, <1>3 DEF Waiting, Unrecorded, At
<1> QED BY <1>1, <1>5, <1>8, <1>9, TreatsQuietly

\* What stands at the front of the page, and what becomes of it.
LEMMA FrontHeld ==
  ASSUME IInv, NEW w \in Worker, HasGroup(w)
  PROVE  /\ pass[w].pc = "send" /\ pass[w].group = {}
         /\ First(pass[w].page) \in Front(w) /\ Front(w) \subseteq pass[w].page
         /\ Front(w) \subseteq Held(w) /\ Waiting(w) = pass[w].page /\ Unrecorded(w) = {}
         /\ First(pass[w].page).active => \A x \in Front(w) : TrueOf(x, w, TRUE)
<1>1. TypeOK /\ PassShape(w) /\ pass[w].pc = "send"
  BY DEF IInv, PassesOK, HasGroup, At
<1>2. /\ First(pass[w].page) \in Front(w) /\ Front(w) \subseteq pass[w].page
      /\ \A x \in Front(w) : /\ x.appt = First(pass[w].page).appt
                             /\ x.due = First(pass[w].page).due
  BY <1>1, FrontOfPage
<1>3. pass[w].group = {} /\ Front(w) \subseteq Held(w)
  BY <1>1, <1>2 DEF PassShape, Held
<1>4. Waiting(w) = pass[w].page /\ Unrecorded(w) = {}
  BY <1>1, <1>3 DEF Waiting, Unrecorded, At
<1>5. ASSUME First(pass[w].page).active PROVE \A x \in Front(w) : TrueOf(x, w, TRUE)
  <2> DEFINE f == First(pass[w].page)
  <2>1. TrueOf(f, w, f.active) /\ \A x \in Front(w) : TrueOf(x, w, x.active)
    BY <1>2 DEF IInv, CopiesCurrent
  <2> HIDE DEF f
  <2>2. f.active /\ \A x \in Front(w) : x.appt = f.appt
    BY <1>2, <1>5 DEF f
  <2> QED BY <2>1, <2>2 DEF TrueOf
<1> QED BY <1>1, <1>2, <1>3, <1>4, <1>5

LEMMA SkipGroupInv ==
  ASSUME IInv, NEW w \in Worker, SkipGroup(w) PROVE IInv'
<1>1. /\ HasGroup(w) /\ TypeOK /\ PassShape(w) /\ pass[w] \in Pass
      /\ Goto(w, [pass[w] EXCEPT !.page = pass[w].page \ Front(w)])
      /\ UNCHANGED <<now, appt, key, handle, moves, passes, sent, unsure, overrun, bare, reading>>
  BY HeldRows DEF SkipGroup, IInv, PassesOK, OnlyJobs
<1>2. /\ pass[w].pc = "send" /\ pass[w].group = {} /\ Front(w) \subseteq Held(w)
      /\ Waiting(w) = pass[w].page /\ Unrecorded(w) = {}
  BY <1>1, FrontHeld
<1> DEFINE q == [pass[w] EXCEPT !.page = pass[w].page \ Front(w)]
<1>3. /\ q \in Pass /\ q.pc = "send" /\ q.page = pass[w].page \ Front(w) /\ q.group = {}
      /\ q.at = pass[w].at /\ q.dirty = pass[w].dirty
  BY <1>1, <1>2 DEF Pass
<1> HIDE DEF q
<1>4. OthersRest(w) /\ pass'[w] = q
  BY <1>1, <1>3, GotoPass DEF q
<1>5. Becomes(w, "send", pass[w].page \ Front(w), {})
  BY <1>1, <1>3, <1>4 DEF Becomes, PassShape
<1>6. \E error \in {"none", "appointment_rescheduled"} : Mark(Ids(Front(w)), "SKIPPED", error)
  BY DEF SkipGroup
<1>7. /\ job' \in [Job -> JobRow]
      /\ \A j \in Job : Kept(j) \/ Ended(j)
      /\ \A j \in Ids(Front(w)) : Ended(j)
      /\ \A j \in Job : job[j].status = "PENDING" /\ job[j].due > now => Kept(j)
  BY <1>2, <1>6, MarkHeld
<1>8. Treats(w, "send", pass[w].page \ Front(w), {})
  BY <1>1, <1>2, <1>5, <1>7 DEF Treats
<1>9. Waiting(w)' \subseteq Waiting(w)
  BY <1>2, <1>3, <1>4 DEF Waiting, At
<1> QED BY <1>1, <1>2, <1>7, <1>8, <1>9, TreatsQuietly

LEMMA SendPushInv ==
  ASSUME IInv, NEW w \in Worker, SendPush(w) PROVE IInv'
<1>1. /\ HasGroup(w) /\ First(pass[w].page).active
      /\ TypeOK /\ PassShape(w) /\ pass[w] \in Pass
      /\ Goto(w, [pass[w] EXCEPT !.pc = "pushed", !.page = pass[w].page \ Front(w),
                                 !.group = Front(w)])
      /\ Count(Of(Front(w), "PUSH"))
      /\ UNCHANGED <<now, appt, job, key, handle, moves, passes, unsure, overrun, bare, reading>>
  BY HeldRows DEF SendPush, Send, Sendable, IInv, PassesOK, OnlySent
<1>2. /\ pass[w].pc = "send" /\ pass[w].group = {} /\ Front(w) \subseteq pass[w].page
      /\ Front(w) \subseteq Held(w) /\ Waiting(w) = pass[w].page /\ Unrecorded(w) = {}
      /\ \A x \in Front(w) : TrueOf(x, w, TRUE)
  BY <1>1, FrontHeld
<1> DEFINE q == [pass[w] EXCEPT !.pc = "pushed", !.page = pass[w].page \ Front(w),
                                !.group = Front(w)]
<1>3. /\ q \in Pass /\ q.pc = "pushed" /\ q.page = pass[w].page \ Front(w) /\ q.group = Front(w)
      /\ q.at = pass[w].at /\ q.dirty = pass[w].dirty
  BY <1>1, <1>2 DEF Pass
<1> HIDE DEF q
<1>4. OthersRest(w) /\ pass'[w] = q
  BY <1>1, <1>3, GotoPass DEF q
<1>5. Becomes(w, "pushed", pass[w].page \ Front(w), Front(w))
  BY <1>1, <1>3, <1>4 DEF Becomes, PassShape
<1>6. job' \in [Job -> JobRow] /\ \A j \in Job : Kept(j)
  BY <1>1, TableRests
<1>7. Treats(w, "pushed", pass[w].page \ Front(w), Front(w))
  BY <1>1, <1>2, <1>5, <1>6 DEF Treats
<1> DEFINE G == Of(Front(w), "PUSH")
<1>8. /\ G \subseteq Waiting(w) /\ G \subseteq Held(w) /\ Waiting(w) \subseteq Held(w)
      /\ Unrecorded(w)' = Ids(G) /\ Waiting(w)' \subseteq Waiting(w) \ G
  <2>1. G \subseteq Front(w) /\ Of(Front(w), "WHATSAPP") \subseteq Front(w) \ G
    BY DEF Of
  <2>2. Unrecorded(w)' = Ids(G)
    BY <1>3, <1>4 DEF Unrecorded, At
  <2>3. Waiting(w)' = (pass[w].page \ Front(w)) \cup Of(Front(w), "WHATSAPP")
    BY <1>3, <1>4 DEF Waiting, At
  <2>4. Waiting(w) \subseteq Held(w)
    BY <1>2 DEF Held
  <2> QED BY <1>2, <2>1, <2>2, <2>3, <2>4
<1>9. Count(G)
  BY <1>1
<1> HIDE DEF G
<1> QED BY <1>1, <1>2, <1>7, <1>8, <1>9, TreatsAloud

\* After the push the group keeps its WhatsApp, which waited all along.
LEMMA AfterPushGroup ==
  ASSUME IInv, NEW w \in Worker, NEW G, G \subseteq Held(w),
         NEW pc \in {"later", "whatsapp"}, \A x \in G : TrueOf(x, w, TRUE),
         pass[w].pc # "idle", UNCHANGED <<now, appt, moves, passes, overrun, bare, reading>>,
         job' \in [Job -> JobRow], \A j \in Job : Kept(j) \/ Ended(j),
         \A j \in Job : job[j].status = "PENDING" /\ job[j].due > now => Kept(j),
         NEW q \in Pass, Goto(w, q), q.at = pass[w].at, q.dirty = pass[w].dirty,
         q.page = pass[w].page \ G, q.group = Of(G, "WHATSAPP"),
         q.pc = IF Of(G, "WHATSAPP") = {} THEN "send" ELSE pc,
         UNCHANGED <<key, handle, sent, unsure>>,
         Of(G, "WHATSAPP") \cup pass[w].page \subseteq Waiting(w),
         \A j \in Unrecorded(w) : Ended(j)
  PROVE  IInv'
<1>1. TypeOK /\ PassShape(w)
  BY DEF IInv, PassesOK
<1>2. OthersRest(w) /\ pass'[w] = q
  BY <1>1, GotoPass
<1>3. Becomes(w, q.pc, q.page, q.group)
  BY <1>1, <1>2 DEF Becomes, PassShape
<1>4. /\ q.page \subseteq pass[w].page /\ q.group \subseteq G /\ q.page \cap q.group = {}
      /\ q.pc \in {"send", "later", "whatsapp"} /\ (q.pc = "send" => q.group = {})
  BY DEF Of
<1>5. Treats(w, q.pc, q.page, q.group)
  BY <1>3, <1>4 DEF Treats
<1>6. Waiting(w)' \subseteq Waiting(w)
  BY <1>2, <1>4 DEF Waiting, At
<1> QED BY <1>5, <1>6, TreatsQuietly

LEMMA NoTokenInv ==
  ASSUME IInv, NEW w \in Worker, NoToken(w) PROVE IInv'
<1> DEFINE G == Front(w)
           q == AfterPush(w, G, "whatsapp")
<1>1. /\ HasGroup(w) /\ First(pass[w].page).active
      /\ TypeOK /\ PassShape(w) /\ pass[w] \in Pass /\ Goto(w, q)
      /\ Mark(Ids(Of(G, "PUSH")), "SKIPPED", "none")
      /\ UNCHANGED <<now, appt, key, handle, moves, passes, sent, unsure, overrun, bare, reading>>
  BY HeldRows DEF NoToken, Send, Sendable, IInv, PassesOK, OnlyJobs
<1>2. /\ pass[w].pc = "send" /\ G \subseteq pass[w].page /\ Unrecorded(w) = {}
      /\ G \subseteq Held(w) /\ Waiting(w) = pass[w].page /\ \A x \in G : TrueOf(x, w, TRUE)
  BY <1>1, FrontHeld
<1>3. Of(G, "PUSH") \subseteq Held(w) /\ Of(G, "WHATSAPP") \cup pass[w].page \subseteq Waiting(w)
  BY <1>2 DEF Of
<1> HIDE DEF G
<1>4. /\ job' \in [Job -> JobRow] /\ \A j \in Job : Kept(j) \/ Ended(j)
      /\ \A j \in Ids(Of(G, "PUSH")) : Ended(j)
      /\ \A j \in Job : job[j].status = "PENDING" /\ job[j].due > now => Kept(j)
  BY <1>1, <1>3, MarkHeld
<1>5. /\ q \in Pass /\ q.at = pass[w].at /\ q.dirty = pass[w].dirty
      /\ q.page = pass[w].page \ G /\ q.group = Of(G, "WHATSAPP")
      /\ q.pc = IF Of(G, "WHATSAPP") = {} THEN "send" ELSE "whatsapp"
  BY <1>1, <1>2 DEF AfterPush, Of, Pass
<1> HIDE DEF q
<1>6. pass[w].pc # "idle" /\ \A j \in Unrecorded(w) : Ended(j)
  BY <1>2
<1> QED BY <1>1, <1>2, <1>3, <1>4, <1>5, <1>6, AfterPushGroup

\* A push that was published is recorded as sent or as failed.
LEMMA PushedInv ==
  ASSUME IInv, NEW w \in Worker, At(w, "pushed"), NEW told, told \subseteq [appt : Appt, due : Nat],
         NEW pc \in {"later", "whatsapp"}, NEW status, status \in {"SENT", "FAILED"},
         Mark(Ids(Of(pass[w].group, "PUSH")), status, "none"),
         Goto(w, [AfterPush(w, pass[w].group, pc) EXCEPT !.told = told]), OnlyJobs
  PROVE  IInv'
<1> DEFINE G == pass[w].group
           q == [AfterPush(w, G, pc) EXCEPT !.told = told]
<1>1. /\ TypeOK /\ pass[w] \in Pass /\ Goto(w, q) /\ pass[w].pc = "pushed"
      /\ UNCHANGED <<now, appt, key, handle, moves, passes, sent, unsure, overrun, bare, reading>>
  BY HeldRows DEF At, IInv, OnlyJobs
<1>2. G \subseteq Held(w) /\ \A x \in G : TrueOf(x, w, TRUE)
  BY DEF Held, IInv, CopiesCurrent
<1>3. /\ Of(G, "PUSH") \subseteq Held(w) /\ Unrecorded(w) = Ids(Of(G, "PUSH"))
      /\ Of(G, "WHATSAPP") \cup pass[w].page \subseteq Waiting(w)
  BY <1>1, <1>2 DEF Of, Unrecorded, Waiting, At
<1>4. /\ job' \in [Job -> JobRow] /\ \A j \in Job : Kept(j) \/ Ended(j)
      /\ \A j \in Ids(Of(G, "PUSH")) : Ended(j)
      /\ \A j \in Job : job[j].status = "PENDING" /\ job[j].due > now => Kept(j)
  <2>1. status \in {"SENT", "FAILED", "SKIPPED"} /\ Mark(Ids(Of(G, "PUSH")), status, "none")
    OBVIOUS
  <2> HIDE DEF G
  <2> QED BY <1>3, <2>1, MarkHeld
<1>5. /\ q \in Pass /\ q.at = pass[w].at /\ q.dirty = pass[w].dirty
      /\ q.page = pass[w].page \ G /\ q.group = Of(G, "WHATSAPP")
      /\ q.pc = IF Of(G, "WHATSAPP") = {} THEN "send" ELSE pc
  BY <1>1, <1>2 DEF AfterPush, Of, Pass
<1>6. pass[w].pc # "idle" /\ \A j \in Unrecorded(w) : Ended(j)
  BY <1>1, <1>3, <1>4
<1> HIDE DEF G, q
<1> QED BY <1>1, <1>2, <1>3, <1>4, <1>5, <1>6, AfterPushGroup

LEMMA MarkPushInv ==
  ASSUME IInv, NEW w \in Worker, MarkPush(w) PROVE IInv'
<1>1. pass[w] \in Pass
  BY HeldRows
<1>2. Told(w) \subseteq [appt : Appt, due : Nat]
  BY <1>1 DEF Told, Pass, Copy
<1> QED BY <1>2, PushedInv DEF MarkPush

LEMMA FailPushInv ==
  ASSUME IInv, NEW w \in Worker, FailPush(w) PROVE IInv'
<1> DEFINE p == AfterPush(w, pass[w].group, "whatsapp")
<1>1. pass[w] \in Pass
  BY HeldRows
<1>2. pass[w].told \subseteq [appt : Appt, due : Nat]
  BY <1>1 DEF Pass
<1>3. p = [p EXCEPT !.told = pass[w].told]
  BY <1>1 DEF AfterPush, Pass
<1>4. /\ At(w, "pushed") /\ Mark(Ids(Of(pass[w].group, "PUSH")), "FAILED", "none")
      /\ Goto(w, p) /\ OnlyJobs
  BY DEF FailPush
<1>5. Goto(w, [AfterPush(w, pass[w].group, "whatsapp") EXCEPT !.told = pass[w].told])
  BY <1>3, <1>4
<1> QED BY <1>2, <1>4, <1>5, PushedInv

LEMMA ScheduleLaterInv ==
  ASSUME IInv, NEW w \in Worker, ScheduleLater(w) PROVE IInv'
<1>1. /\ pass[w].pc = "later" /\ TypeOK /\ PassShape(w) /\ pass[w] \in Pass
      /\ Goto(w, [pass[w] EXCEPT !.pc = "send", !.group = {}])
      /\ UNCHANGED <<now, appt, key, handle, moves, passes, sent, unsure, overrun, bare, reading>>
  BY HeldRows DEF ScheduleLater, At, IInv, PassesOK, OnlyJobs
<1>2. PICK x \in pass[w].group :
        job' = [job EXCEPT ![x.id].status = "SCHEDULED", ![x.id].due = Stagger + Latest(now, x.due)]
  BY DEF ScheduleLater
<1>3. /\ x \in Held(w) /\ x \in Copy /\ x.id \in Job /\ job[x.id].status # "NONE"
      /\ job[x.id].status = "PENDING" => job[x.id].due <= now
  BY HeldRows DEF Held
<1> DEFINE due == Stagger + Latest(now, x.due)
<1>4. due \in Nat
  <2>1. Stagger \in Nat /\ now \in Nat /\ x.due \in Nat
    BY <1>1, <1>3, NumberAssumption DEF TypeOK, Copy
  <2> QED BY <2>1 DEF Latest
<1> HIDE DEF due
<1>5. /\ job' \in [Job -> JobRow] /\ Delayed(x.id)
      /\ \A j \in Job \ {x.id} : Kept(j)
  <2>1. job' = [job EXCEPT ![x.id] = [job[x.id] EXCEPT !.status = "SCHEDULED", !.due = due]]
    BY <1>1, <1>2, <1>3 DEF due, TypeOK, JobRow
  <2>2. job[x.id] \in JobRow
    BY <1>1, <1>3 DEF TypeOK
  <2>3. [job[x.id] EXCEPT !.status = "SCHEDULED", !.due = due] \in JobRow
    BY <1>4, <2>2 DEF JobRow, Pending
  <2>4. job' \in [Job -> JobRow] /\ \A j \in Job \ {x.id} : Kept(j)
    BY <1>1, <1>3, <2>1, <2>3 DEF TypeOK, Kept
  <2>5. Delayed(x.id)
    BY <1>1, <1>3, <2>1, <2>2 DEF Delayed, TypeOK, JobRow
  <2> QED BY <2>4, <2>5
<1>6. \A j \in Job : job[j].status = "PENDING" /\ job[j].due > now => Kept(j)
  <2>1. job[x.id].due \in Nat /\ now \in Nat
    BY <1>1, <1>3 DEF TypeOK, JobRow
  <2> QED BY <1>3, <1>5, <2>1
<1>7. \A j \in Job : Kept(j) \/ sent[j] = 0 \/ j \in unsure \/ overrun
  <2>1. x \in Waiting(w)
    BY <1>1 DEF Waiting, At
  <2>2. sent[x.id] = 0 \/ x.id \in unsure \/ overrun
    BY <2>1 DEF IInv, NotYetSent
  <2> QED BY <1>5, <2>2
<1> DEFINE q == [pass[w] EXCEPT !.pc = "send", !.group = {}]
<1>8. /\ q \in Pass /\ q.pc = "send" /\ q.page = pass[w].page /\ q.group = {}
      /\ q.at = pass[w].at /\ q.dirty = pass[w].dirty
  BY <1>1 DEF Pass
<1> HIDE DEF q
<1>9. OthersRest(w) /\ pass'[w] = q
  BY <1>1, <1>8, GotoPass DEF q
<1>10. Becomes(w, "send", pass[w].page, {})
  BY <1>1, <1>8, <1>9 DEF Becomes, PassShape
<1>11. Treats(w, "send", pass[w].page, {})
  BY <1>1, <1>5, <1>6, <1>10 DEF Treats
<1>12. Waiting(w)' \subseteq Waiting(w) /\ Unrecorded(w) = {}
  BY <1>1, <1>8, <1>9 DEF Waiting, Unrecorded, At
<1> QED BY <1>1, <1>7, <1>11, <1>12, TreatsQuietly

LEMMA PickWhatsAppInv ==
  ASSUME IInv, NEW w \in Worker, PickWhatsApp(w) PROVE IInv'
<1> DEFINE q == [pass[w] EXCEPT !.pc = "whatsapp", !.page = pass[w].page \ Front(w),
                                !.group = Front(w)]
<1>1. /\ HasGroup(w) /\ First(pass[w].page).active
      /\ TypeOK /\ PassShape(w) /\ pass[w] \in Pass /\ Goto(w, q)
      /\ UNCHANGED <<now, appt, job, key, handle, moves, passes, sent, unsure, overrun, bare, reading>>
  BY HeldRows DEF PickWhatsApp, Send, Sendable, IInv, PassesOK, table
<1>2. /\ pass[w].pc = "send" /\ Front(w) \subseteq pass[w].page
      /\ Front(w) \subseteq Held(w) /\ Waiting(w) = pass[w].page /\ Unrecorded(w) = {}
      /\ \A x \in Front(w) : TrueOf(x, w, TRUE)
  BY <1>1, FrontHeld
<1>3. /\ q \in Pass /\ q.pc = "whatsapp" /\ q.page = pass[w].page \ Front(w) /\ q.group = Front(w)
      /\ q.at = pass[w].at /\ q.dirty = pass[w].dirty
  BY <1>1, <1>2 DEF Pass
<1> HIDE DEF q
<1>4. OthersRest(w) /\ pass'[w] = q
  BY <1>1, <1>3, GotoPass
<1>5. Becomes(w, "whatsapp", pass[w].page \ Front(w), Front(w))
  BY <1>1, <1>3, <1>4 DEF Becomes, PassShape
<1>6. job' \in [Job -> JobRow] /\ \A j \in Job : Kept(j)
  BY <1>1, TableRests
<1>7. Treats(w, "whatsapp", pass[w].page \ Front(w), Front(w))
  BY <1>1, <1>2, <1>5, <1>6 DEF Treats
<1>8. Waiting(w)' \subseteq Waiting(w)
  BY <1>2, <1>3, <1>4 DEF Waiting, At
<1> QED BY <1>1, <1>2, <1>6, <1>7, <1>8, TreatsQuietly

LEMMA SendWhatsAppInv ==
  ASSUME IInv, NEW w \in Worker, SendWhatsApp(w) PROVE IInv'
<1> DEFINE q == [pass[w] EXCEPT !.pc = "sent"]
           G == pass[w].group
<1>1. /\ pass[w].pc = "whatsapp" /\ TypeOK /\ PassShape(w) /\ pass[w] \in Pass
      /\ Goto(w, q) /\ Count(G)
      /\ UNCHANGED <<now, appt, job, key, handle, moves, passes, unsure, overrun, bare, reading>>
  BY HeldRows DEF SendWhatsApp, At, IInv, PassesOK, OnlySent
<1>2. /\ q \in Pass /\ q.pc = "sent" /\ q.page = pass[w].page /\ q.group = G
      /\ q.at = pass[w].at /\ q.dirty = pass[w].dirty
  BY <1>1 DEF Pass
<1> HIDE DEF q
<1>3. OthersRest(w) /\ pass'[w] = q
  BY <1>1, <1>2, GotoPass
<1>4. Becomes(w, "sent", pass[w].page, G)
  BY <1>1, <1>2, <1>3 DEF Becomes, PassShape
<1>5. job' \in [Job -> JobRow] /\ \A j \in Job : Kept(j)
  BY <1>1, TableRests
<1>6. \A x \in G : TrueOf(x, w, TRUE)
  BY DEF IInv, CopiesCurrent
<1>7. Treats(w, "sent", pass[w].page, G)
  BY <1>1, <1>4, <1>5, <1>6 DEF Treats, PassShape, Held
<1>8. /\ G \subseteq Waiting(w) /\ G \subseteq Held(w) /\ Waiting(w) \subseteq Held(w)
      /\ Unrecorded(w)' = Ids(G) /\ Waiting(w)' \subseteq Waiting(w) \ G /\ Unrecorded(w) = {}
  <2>1. Waiting(w) = pass[w].page \cup G /\ Unrecorded(w) = {}
    BY <1>1 DEF Waiting, Unrecorded, At
  <2>2. Waiting(w)' = pass[w].page /\ Unrecorded(w)' = Ids(G)
    BY <1>2, <1>3 DEF Waiting, Unrecorded, At
  <2>3. pass[w].page \cap G = {}
    BY <1>1 DEF PassShape
  <2> QED BY <2>1, <2>2, <2>3 DEF Held
<1> HIDE DEF G
<1> QED BY <1>1, <1>7, <1>8, TreatsAloud

\* The WhatsApp is recorded, or skipped, and the next group follows.
LEMMA GroupDone ==
  ASSUME IInv, NEW w \in Worker, pass[w].pc \in {"whatsapp", "sent"},
         NEW status \in {"SENT", "FAILED", "SKIPPED"},
         Mark(Ids(pass[w].group), status, "none"),
         Goto(w, [pass[w] EXCEPT !.pc = "send", !.group = {}]), OnlyJobs
  PROVE  IInv'
<1> DEFINE q == [pass[w] EXCEPT !.pc = "send", !.group = {}]
           G == pass[w].group
<1>1. /\ TypeOK /\ PassShape(w) /\ pass[w] \in Pass /\ Goto(w, q)
      /\ UNCHANGED <<now, appt, key, handle, moves, passes, sent, unsure, overrun, bare, reading>>
  BY HeldRows DEF IInv, PassesOK, OnlyJobs
<1>2. /\ q \in Pass /\ q.pc = "send" /\ q.page = pass[w].page /\ q.group = {}
      /\ q.at = pass[w].at /\ q.dirty = pass[w].dirty
  BY <1>1 DEF Pass
<1> HIDE DEF q
<1>3. OthersRest(w) /\ pass'[w] = q
  BY <1>1, <1>2, GotoPass
<1>4. Becomes(w, "send", pass[w].page, {})
  BY <1>1, <1>2, <1>3 DEF Becomes, PassShape
<1>5. G \subseteq Held(w) /\ Mark(Ids(G), status, "none")
  BY DEF Held
<1> HIDE DEF G
<1>6. /\ job' \in [Job -> JobRow] /\ \A j \in Job : Kept(j) \/ Ended(j)
      /\ \A j \in Ids(G) : Ended(j)
      /\ \A j \in Job : job[j].status = "PENDING" /\ job[j].due > now => Kept(j)
  BY <1>5, MarkHeld
<1>7. Treats(w, "send", pass[w].page, {})
  BY <1>1, <1>4, <1>6 DEF Treats
<1>8. Waiting(w)' \subseteq Waiting(w) /\ Unrecorded(w) \subseteq Ids(G)
  <2>1. Waiting(w)' = pass[w].page
    BY <1>2, <1>3 DEF Waiting, At
  <2> QED BY <2>1 DEF Waiting, Unrecorded, At, G
<1> QED BY <1>1, <1>6, <1>7, <1>8, TreatsQuietly

LEMMA NoPhoneInv ==
  ASSUME IInv, NEW w \in Worker, NoPhone(w) PROVE IInv'
BY GroupDone DEF NoPhone, At

LEMMA MarkWhatsAppInv ==
  ASSUME IInv, NEW w \in Worker, MarkWhatsApp(w) PROVE IInv'
<1>1. PICK status \in {"SENT", "FAILED", "SKIPPED"} : Mark(Ids(pass[w].group), status, "none")
  BY DEF MarkWhatsApp
<1> QED BY <1>1, GroupDone DEF MarkWhatsApp, At

LEMMA EndPageInv ==
  ASSUME IInv, NEW w \in Worker, EndPage(w) PROVE IInv'
<1> DEFINE pc == IF pass[w].full THEN "page" ELSE "release"
           q == [pass[w] EXCEPT !.pc = pc]
<1>1. /\ pass[w].pc = "send" /\ pass[w].page = {} /\ pass[w].group = {}
      /\ TypeOK /\ pass[w] \in Pass /\ pass[w].at <= now /\ Goto(w, q)
      /\ UNCHANGED <<now, appt, job, key, handle, moves, passes, sent, unsure, overrun, bare, reading>>
  BY HeldRows DEF EndPage, At, IInv, PassesOK, PassShape, table
<1>2. /\ q \in Pass /\ q.pc = pc /\ q.page = {} /\ q.group = {} /\ q.at = pass[w].at
      /\ pc \in {"page", "release"}
  BY <1>1 DEF Pass
<1> HIDE DEF q, pc
<1>3. OthersRest(w) /\ pass'[w] = q
  BY <1>1, <1>2, GotoPass
<1>4. Becomes(w, pc, {}, {})
  BY <1>1, <1>2, <1>3 DEF Becomes
<1>5. job' \in [Job -> JobRow] /\ \A j \in Job : Kept(j)
  BY <1>1, TableRests
<1>6. Treats(w, pc, {}, {})
  BY <1>1, <1>2, <1>4, <1>5 DEF Treats
<1>7. Waiting(w)' = {} /\ Unrecorded(w) = {}
  BY <1>1, <1>2, <1>3 DEF Waiting, Unrecorded, At
<1> QED BY <1>1, <1>5, <1>6, <1>7, TreatsQuietly

LEMMA IdlePass ==
  /\ Idle \in Pass /\ [Idle EXCEPT !.pc = "release"] \in Pass
  /\ Idle.pc = "idle" /\ Idle.at = 0 /\ Idle.page = {} /\ Idle.group = {}
BY DEF Idle, Pass

\* A pass that ends, whatever it leaves undone.
LEMMA LeavesInv ==
  ASSUME IInv, NEW w \in Worker, pass[w].pc # "idle",
         NEW pc \in {"idle", "release"}, Goto(w, [Idle EXCEPT !.pc = pc]),
         unsure' = unsure \cup Unrecorded(w), LockOK',
         key' \in [token : Token \cup {None}, left : Nat],
         handle' \in [Worker -> Token \cup {None}],
         UNCHANGED <<now, appt, job, moves, passes, sent, overrun, bare, reading>>
  PROVE  IInv'
<1> DEFINE q == [Idle EXCEPT !.pc = pc]
<1>1. q \in Pass /\ q.pc = pc /\ q.page = {} /\ q.group = {} /\ q.at = 0
  BY DEF Idle, Pass
<1>2. TypeOK /\ now \in Nat
  BY DEF IInv, TypeOK
<1> HIDE DEF q
<1>3. OthersRest(w) /\ pass'[w] = q
  BY <1>1, <1>2, GotoPass DEF q
<1>4. Becomes(w, pc, {}, {})
  BY <1>1, <1>2, <1>3 DEF Becomes
<1>5. job' \in [Job -> JobRow] /\ \A j \in Job : Kept(j)
  BY TableRests
<1>6. Treats(w, pc, {}, {})
  BY <1>4, <1>5 DEF Treats
<1>7. Waiting(w)' = {} /\ unsure \subseteq unsure'
  BY <1>1, <1>3 DEF Waiting, At
<1>8. TypeOK'
  <2>1. Unrecorded(w) \subseteq Job
    BY HeldRows DEF Unrecorded, Ids, Of, Held
  <2> QED BY <1>2, <1>3, <2>1 DEF TypeOK, OthersRest
<1>9. ApptsOK' /\ RowsOK' /\ EverySlotHasJobs'
  BY <1>6, TreatsTables
<1>10. PassesOK' /\ CopiesCurrent'
  BY <1>6, TreatsPasses
<1>11. NotYetSent'
  BY <1>3, <1>7, NotYetStays
<1>12. SentIsRecorded'
  BY <1>3, <1>5, RecordedStays
<1>13. TwiceOnlyUnsure'
  BY <1>7, TwiceStays
<1> QED BY <1>8, <1>9, <1>10, <1>11, <1>12, <1>13 DEF IInv

LEMMA FailInv ==
  ASSUME IInv, NEW w \in Worker, Fail(w) PROVE IInv'
<1>1. /\ pass[w].pc # "idle" /\ Goto(w, [Idle EXCEPT !.pc = "release"])
      /\ unsure' = unsure \cup Unrecorded(w)
      /\ UNCHANGED <<now, appt, job, key, handle, moves, passes, sent, overrun, bare, reading>>
  BY DEF Fail
<1>2. /\ TypeOK /\ LockOK
      /\ key' \in [token : Token \cup {None}, left : Nat]
      /\ handle' \in [Worker -> Token \cup {None}]
  BY <1>1 DEF IInv, TypeOK
<1>3. \A v \in Worker : pass'[v].pc # "idle" => pass[v].pc # "idle"
  BY <1>1, <1>2 DEF Goto, TypeOK
<1>4. LockOK'
  BY <1>1, <1>2, <1>3 DEF LockOK
<1> QED BY <1>1, <1>2, <1>4, LeavesInv

LEMMA CrashInv ==
  ASSUME IInv, NEW w \in Worker, Crash(w) PROVE IInv'
<1>1. /\ pass[w].pc # "idle" /\ Goto(w, Idle)
      /\ unsure' = unsure \cup Unrecorded(w)
      /\ handle' = [handle EXCEPT ![w] = None] /\ key' = key
      /\ UNCHANGED <<now, appt, job, moves, passes, sent, overrun, bare, reading>>
  BY DEF Crash, At, Lock!Lose
<1>2. /\ TypeOK /\ LockOK
      /\ key' \in [token : Token \cup {None}, left : Nat]
      /\ handle' \in [Worker -> Token \cup {None}]
  BY <1>1 DEF IInv, TypeOK
<1>3. [Idle EXCEPT !.pc = "idle"] = Idle
  BY DEF Idle
<1>4. pass'[w].pc = "idle" /\ \A v \in Worker \ {w} : pass'[v] = pass[v]
  BY <1>1, <1>2, IdlePass DEF Goto, TypeOK
<1>5. LockOK'
  BY <1>1, <1>2, <1>4 DEF LockOK, TypeOK
<1> QED BY <1>1, <1>2, <1>3, <1>5, LeavesInv

LEMMA EndPassInv ==
  ASSUME IInv, NEW w \in Worker, EndPass(w) PROVE IInv'
<1>1. /\ pass[w].pc = "release" /\ Goto(w, Idle) /\ handle[w] # None
      /\ handle' = [handle EXCEPT ![w] = None]
      /\ key' = IF key.token = handle[w] THEN [token |-> None, left |-> 0] ELSE key
      /\ UNCHANGED <<now, appt, job, moves, passes, sent, unsure, overrun, bare, reading>>
  BY DEF EndPass, At, Lock!Release, Lock!Owns, Lock!NoKey, table
<1>2. /\ TypeOK /\ LockOK
      /\ key' \in [token : Token \cup {None}, left : Nat]
      /\ handle' \in [Worker -> Token \cup {None}]
  BY <1>1 DEF IInv, TypeOK
<1>3. [Idle EXCEPT !.pc = "idle"] = Idle
  BY DEF Idle
<1>4. pass'[w].pc = "idle" /\ \A v \in Worker \ {w} : pass'[v] = pass[v]
  BY <1>1, <1>2, IdlePass DEF Goto, TypeOK
<1>5. LockOK'
  <2>1. \A v \in Worker \ {w} : handle'[v] = handle[v]
    BY <1>1
  <2>2. handle'[w] = None
    BY <1>1, <1>2 DEF TypeOK
  <2>3. \A u, v \in Worker : handle'[v] # None /\ handle'[v] = handle'[u] => v = u
    BY <1>2, <2>1, <2>2 DEF LockOK
  <2>4. key'.token # None <=> key'.left > 0
    BY <1>1, <1>2 DEF LockOK
  <2>5. ASSUME NEW v \in Worker, pass'[v].pc # "idle"
        PROVE  handle'[v] # None /\ (overrun' \/ key'.token = handle'[v])
    <3>1. v # w /\ pass[v].pc # "idle"
      BY <1>4, <2>5
    <3>2. handle[v] # None /\ overrun
      BY <1>1, <3>1, Alone DEF IInv, LockOK
    <3> QED BY <1>1, <2>1, <3>1, <3>2
  <2> QED BY <2>3, <2>4, <2>5 DEF LockOK
<1>6. unsure' = unsure \cup Unrecorded(w)
  BY <1>1 DEF Unrecorded, At
<1> QED BY <1>1, <1>2, <1>3, <1>5, <1>6, LeavesInv

LEMMA BeginInv ==
  ASSUME IInv, NEW w \in Worker, Begin(w) PROVE IInv'
<1>1. /\ pass[w].pc = "idle" /\ passes < MaxPasses /\ passes' = passes + 1
      /\ Lock!TryAcquire(w)
      /\ IF handle'[w] = None THEN UNCHANGED pass
         ELSE Goto(w, [Idle EXCEPT !.pc = "clean", !.at = now])
      /\ UNCHANGED <<now, appt, job, moves, sent, unsure, bare, reading, overrun>>
  BY DEF Begin, At, table
<1>2. PICK t \in Token :
        /\ key.token = None /\ \A p \in Worker : handle[p] # t
        /\ key' = [token |-> t, left |-> Ttl]
        /\ handle' \in {handle, [handle EXCEPT ![w] = t]}
  BY <1>1 DEF Lock!TryAcquire, Lock!Grab, Lock!Free, Lock!Fresh, Lock!SetNx
<1>3. handle[w] = None
  BY <1>1 DEF Lock!TryAcquire
<1>4. TypeOK /\ LockOK /\ PassesOK /\ now \in Nat /\ t # None
  BY NoneAssumption DEF IInv, TypeOK
<1> DEFINE q == [Idle EXCEPT !.pc = "clean", !.at = now]
<1>5. /\ q \in Pass /\ q.pc = "clean" /\ q.page = {} /\ q.group = {} /\ q.at = now
  BY <1>4 DEF Idle, Pass
<1> HIDE DEF q
<1>6. /\ OthersRest(w)
      /\ \/ pass' = pass /\ handle' = handle
         \/ pass'[w] = q /\ handle' = [handle EXCEPT ![w] = t]
  <2>1. CASE handle' = handle
    BY <1>1, <1>3, <1>4, <2>1 DEF OthersRest, TypeOK
  <2>2. CASE handle' = [handle EXCEPT ![w] = t]
    <3>1. handle'[w] = t
      BY <1>4, <2>2 DEF TypeOK
    <3>2. Goto(w, q)
      BY <1>1, <1>4, <3>1 DEF q
    <3> QED BY <1>4, <1>5, <2>2, <3>2, GotoPass
  <2> QED BY <1>2, <2>1, <2>2
<1>7. TypeOK'
  <2>1. passes' \in 0 .. MaxPasses
    BY <1>1, <1>4, NumberAssumption DEF TypeOK
  <2>2. key' \in [token : Token \cup {None}, left : Nat]
    BY <1>2, NumberAssumption
  <2>3. handle' \in [Worker -> Token \cup {None}]
    BY <1>2, <1>4 DEF TypeOK
  <2> QED BY <1>1, <1>4, <1>6, <2>1, <2>2, <2>3 DEF TypeOK, OthersRest
<1>8. pass'[w].page = {} /\ pass'[w].group = {} /\ pass'[w].at <= now
      /\ pass'[w].pc \in {"idle", "clean"}
  <2>1. PassShape(w)
    BY <1>4 DEF PassesOK
  <2> QED BY <1>1, <1>4, <1>5, <1>6, <2>1 DEF PassShape
<1>9. ApptsOK' /\ RowsOK' /\ EverySlotHasJobs' /\ TwiceOnlyUnsure'
  BY <1>1 DEF IInv, ApptsOK, RowsOK, EverySlotHasJobs, TwiceOnlyUnsure, Planned
<1>10. PassesOK' /\ CopiesCurrent'
  <2> SUFFICES ASSUME NEW v \in Worker
               PROVE  /\ PassShape(v)' /\ CopiesOK(v)'
                      /\ \A x \in pass'[v].page : TrueOf(x, v, x.active)'
                      /\ \A x \in pass'[v].group : TrueOf(x, v, TRUE)'
    BY DEF PassesOK, CopiesCurrent
  <2>1. CASE v = w
    <3>1. PassShape(w)'
      BY <1>1, <1>8 DEF PassShape
    <3>2. CopiesOK(w)'
      BY <1>8 DEF CopiesOK, Held
    <3> QED BY <1>8, <2>1, <3>1, <3>2
  <2>2. CASE v # w
    <3>1. pass'[v] = pass[v] /\ PassShape(v) /\ CopiesOK(v)
      BY <1>4, <1>6, <2>2 DEF OthersRest, PassesOK
    <3>2. PassShape(v)'
      BY <1>1, <3>1 DEF PassShape
    <3>3. CopiesOK(v)'
      BY <1>1, <3>1 DEF CopiesOK, Held
    <3>4. /\ \A x \in pass'[v].page : TrueOf(x, v, x.active)'
          /\ \A x \in pass'[v].group : TrueOf(x, v, TRUE)'
      BY <1>1, <3>1 DEF IInv, CopiesCurrent, TrueOf
    <3> QED BY <3>2, <3>3, <3>4
  <2> QED BY <2>1, <2>2
<1>11. LockOK'
  <2>1. \A u, v \in Worker : handle'[v] # None /\ handle'[v] = handle'[u] => v = u
    BY <1>2, <1>4 DEF LockOK, TypeOK
  <2>2. key'.token # None <=> key'.left > 0
    BY <1>2, <1>4, NumberAssumption
  <2>3. ASSUME NEW v \in Worker, pass'[v].pc # "idle"
        PROVE  handle'[v] # None /\ (overrun' \/ key'.token = handle'[v])
    <3>1. CASE v = w
      <4>1. pass' # pass
        BY <1>1, <2>3, <3>1
      <4>2. handle'[w] = t
        BY <1>4, <1>6, <4>1 DEF TypeOK
      <4> QED BY <1>2, <1>4, <3>1, <4>2
    <3>2. CASE v # w
      <4>1. pass[v].pc # "idle"
        BY <1>6, <2>3, <3>2 DEF OthersRest
      <4>2. handle[v] # None /\ overrun
        BY <1>2, <1>4, <4>1 DEF LockOK
      <4>3. handle'[v] = handle[v]
        BY <1>2, <1>4, <3>2 DEF TypeOK
      <4> QED BY <1>1, <4>2, <4>3
    <3> QED BY <3>1, <3>2
  <2> QED BY <2>1, <2>2, <2>3 DEF LockOK
<1>12. \A v \in Worker : Waiting(v)' \subseteq Waiting(v) /\ Unrecorded(v)' = Unrecorded(v)
  <2> SUFFICES ASSUME NEW v \in Worker
               PROVE  Waiting(v)' \subseteq Waiting(v) /\ Unrecorded(v)' = Unrecorded(v)
    OBVIOUS
  <2>1. CASE v = w
    <3>1. Waiting(w)' = {} /\ Unrecorded(w)' = {} /\ Unrecorded(w) = {}
      BY <1>1, <1>8 DEF Waiting, Unrecorded, At
    <3> QED BY <2>1, <3>1
  <2>2. CASE v # w
    BY <1>6, <2>2 DEF OthersRest, Waiting, Unrecorded, At
  <2> QED BY <2>1, <2>2
<1>13. NotYetSent'
  BY <1>1, <1>12 DEF IInv, NotYetSent
<1>14. SentIsRecorded'
  BY <1>1, <1>12 DEF IInv, SentIsRecorded
<1> QED BY <1>7, <1>9, <1>10, <1>11, <1>13, <1>14 DEF IInv

LEMMA TickInv ==
  ASSUME IInv, Tick PROVE IInv'
<1>1. /\ now < Horizon /\ now' = now + 1 /\ handle' = handle
      /\ overrun' = (overrun \/ (key.left = 1 /\ \E w \in Worker : Lock!Owns(w)))
      /\ UNCHANGED <<appt, job, pass, moves, passes, sent, unsure, bare, reading>>
  BY DEF Tick, Lock!Tick
<1>2. TypeOK /\ LockOK /\ now \in Nat /\ key.left \in Nat
  BY DEF IInv, TypeOK
<1>3. key' = IF key.left > 1 THEN [key EXCEPT !.left = key.left - 1]
             ELSE IF key.left = 1 THEN [token |-> None, left |-> 0] ELSE key
  BY <1>2 DEF Tick, Lock!Tick, Lock!NoKey
<1>4. key' \in [token : Token \cup {None}, left : Nat]
      /\ (key'.token # None <=> key'.left > 0)
      /\ (key.left > 1 => key'.token = key.token)
  <2>1. key \in [token : Token \cup {None}, left : Nat]
    BY <1>2 DEF TypeOK
  <2> QED BY <1>2, <1>3, <2>1 DEF LockOK
<1>5. overrun' \in BOOLEAN
  BY <1>1
<1>6. TypeOK'
  <2>1. now' \in 0 .. Horizon
    BY <1>1, <1>2, NumberAssumption
  <2> QED BY <1>1, <1>2, <1>4, <1>5, <2>1 DEF TypeOK
<1>7. ApptsOK' /\ RowsOK'
  BY <1>1 DEF IInv, ApptsOK, RowsOK
<1>8. now' >= now /\ now' \in Nat
  BY <1>1, <1>2
<1>9. \A j \in Job : Kept(j)
  BY <1>1 DEF Kept
<1>10. EverySlotHasJobs'
  BY <1>1, <1>2, <1>8, <1>9, SlotsStay DEF IInv
<1>11. PassesOK'
  <2> SUFFICES ASSUME NEW w \in Worker PROVE PassShape(w)' /\ CopiesOK(w)'
    BY DEF PassesOK
  <2>1. PassShape(w) /\ CopiesOK(w) /\ pass[w] \in Pass /\ Held(w)' = Held(w)
    BY <1>1, HeldRows DEF IInv, PassesOK, Held
  <2>2. pass[w].at \in Nat
    BY <2>1 DEF Pass
  <2>3. PassShape(w)'
    BY <1>1, <1>2, <1>8, <2>1, <2>2 DEF PassShape
  <2>4. CopiesOK(w)'
    BY <1>1, <1>2, <1>8, <1>9, <2>1, CopiesStay
  <2> QED BY <2>3, <2>4
<1>12. CopiesCurrent'
  BY <1>1 DEF IInv, CopiesCurrent, TrueOf
<1>13. LockOK'
  <2>1. ASSUME NEW w \in Worker, pass[w].pc # "idle"
        PROVE  handle[w] # None /\ (overrun' \/ key'.token = handle[w])
    <3>1. handle[w] # None /\ (overrun \/ key.token = handle[w])
      BY <1>2, <2>1 DEF LockOK
    <3>2. CASE ~ overrun /\ key.left # 1
      <4>1. key.left > 1
        BY <1>2, <3>1, <3>2 DEF LockOK
      <4> QED BY <1>4, <3>1, <3>2, <4>1
    <3>3. CASE ~ overrun /\ key.left = 1
      <4>1. Lock!Owns(w)
        BY <3>1, <3>3 DEF Lock!Owns
      <4> QED BY <1>1, <3>1, <3>3, <4>1
    <3>4. CASE overrun
      BY <1>1, <3>1, <3>4
    <3> QED BY <3>2, <3>3, <3>4
  <2> QED BY <1>1, <1>2, <1>4, <2>1 DEF LockOK
<1>14. overrun' \/ ~ overrun
  BY <1>1
<1>15. \A w \in Worker : Waiting(w)' = Waiting(w) /\ Unrecorded(w)' = Unrecorded(w)
  BY <1>1 DEF Waiting, Unrecorded, At
<1>16. NotYetSent' /\ SentIsRecorded' /\ TwiceOnlyUnsure'
  BY <1>1, <1>14, <1>15 DEF IInv, NotYetSent, SentIsRecorded, TwiceOnlyUnsure
<1> QED BY <1>6, <1>7, <1>10, <1>11, <1>12, <1>13, <1>16 DEF IInv

LEMMA PageRows ==
  ASSUME IInv, NEW w \in Worker, NEW j \in PageIds(w)
  PROVE  /\ j \in Job /\ job[j].status \in Pending /\ job[j].due <= pass[w].at
         /\ job[j].appt \in Appt /\ job[j].channel \in Channel /\ job[j].due \in Nat
         /\ appt[job[j].appt].active \in BOOLEAN /\ appt[job[j].appt].start \in Start
<1>1. j \in Job /\ job[j].status \in Pending /\ job[j].due <= pass[w].at
  BY DEF PageIds, DueNow
<1>2. /\ job[j].channel \in Channel /\ job[j].appt \in Appt /\ appt[job[j].appt].exists
  BY <1>1 DEF IInv, RowsOK, Pending
<1>3. job[j] \in JobRow /\ appt[job[j].appt] \in ApptRow
  BY <1>1, <1>2 DEF IInv, TypeOK
<1>4. appt[job[j].appt].start \in Start
  BY <1>2 DEF IInv, ApptsOK
<1> QED BY <1>1, <1>2, <1>3, <1>4 DEF JobRow, ApptRow

\* A page as ReadPage reads it.
PageRead(w) ==
  {[id |-> j, appt |-> job[j].appt, channel |-> job[j].channel, due |-> job[j].due,
    active |-> appt[job[j].appt].active, start |-> appt[job[j].appt].start] : j \in PageIds(w)}

LEMMA PageReadCopies ==
  ASSUME IInv, NEW w \in Worker, NEW x \in PageRead(w)
  PROVE  /\ x \in Copy /\ x.id \in PageIds(w) /\ x.id \in Job
         /\ x = [id |-> x.id, appt |-> job[x.id].appt, channel |-> job[x.id].channel,
                 due |-> job[x.id].due, active |-> appt[job[x.id].appt].active,
                 start |-> appt[job[x.id].appt].start]
<1>1. PICK j \in PageIds(w) :
        x = [id |-> j, appt |-> job[j].appt, channel |-> job[j].channel, due |-> job[j].due,
             active |-> appt[job[j].appt].active, start |-> appt[job[j].appt].start]
  BY DEF PageRead
<1>2. /\ j \in Job /\ job[j].appt \in Appt /\ job[j].channel \in Channel /\ job[j].due \in Nat
      /\ appt[job[j].appt].active \in BOOLEAN /\ appt[job[j].appt].start \in Start
  BY PageRows
<1>3. x.id = j
  BY <1>1
<1>4. x \in Copy
  BY <1>1, <1>2 DEF Copy
<1> QED BY <1>1, <1>2, <1>3, <1>4

LEMMA RenewLock ==
  ASSUME IInv, NEW w \in Worker, Lock!Renew(w), overrun' = overrun,
         \A v \in Worker : pass'[v].pc # "idle" => pass[v].pc # "idle"
  PROVE  /\ LockOK' /\ handle' = handle
         /\ key' \in [token : Token \cup {None}, left : Nat]
<1>1. handle' = handle /\ (key' = key \/ (key.token # None /\ key' = [key EXCEPT !.left = Ttl]))
  BY DEF Lock!Renew, Lock!Owns
<1>2. key \in [token : Token \cup {None}, left : Nat] /\ Ttl \in Nat \ {0}
  BY NumberAssumption DEF IInv, TypeOK
<1>3. /\ key' \in [token : Token \cup {None}, left : Nat] /\ key'.token = key.token
      /\ key.token # None => key'.left > 0 \/ key' = key
  BY <1>1, <1>2
<1>4. key'.token # None <=> key'.left > 0
  BY <1>1, <1>2, <1>3 DEF IInv, LockOK
<1> QED BY <1>1, <1>3, <1>4 DEF IInv, LockOK

LEMMA ReadPageInv ==
  ASSUME IInv, NEW w \in Worker, ReadPage(w) PROVE IInv'
<1> DEFINE ids == PageIds(w)
           last == CHOOSE j \in ids : \A i \in ids : ~ Before(j, i)
           page == PageRead(w)
           q == [pass[w] EXCEPT !.pc = "send", !.page = page, !.cursor = last,
                                !.full = (Cardinality(ids) = Batch), !.dirty = {}]
           r == [pass[w] EXCEPT !.pc = "release"]
<1>1. /\ pass[w].pc = "page" /\ Lock!Renew(w)
      /\ IF ids = {} THEN Goto(w, r) ELSE Goto(w, q)
      /\ UNCHANGED <<now, appt, job, moves, passes, sent, unsure, overrun, bare, reading>>
  BY DEF ReadPage, At, PageRead, table
<1>2. /\ TypeOK /\ pass[w] \in Pass /\ PassShape(w) /\ PassesOK
  BY HeldRows DEF IInv, PassesOK
<1>3. pass[w].page = {} /\ pass[w].group = {} /\ pass[w].at <= now
  BY <1>1, <1>2 DEF PassShape
<1>4. Unrecorded(w) = {}
  BY <1>1 DEF Unrecorded, At
<1>5. \A j \in Job : Kept(j)
  BY <1>1 DEF Kept
<1>6. job' \in [Job -> JobRow]
  BY <1>1, <1>2 DEF TypeOK
<1>7. r \in Pass /\ r.pc = "release" /\ r.page = {} /\ r.group = {} /\ r.at = pass[w].at
  BY <1>2, <1>3 DEF Pass
<1>8. ids # {} =>
        /\ q \in Pass /\ q.pc = "send" /\ q.page = page /\ q.group = {} /\ q.at = pass[w].at
        /\ q.dirty = {}
  <2> SUFFICES ASSUME ids # {}
               PROVE  /\ q \in Pass /\ q.pc = "send" /\ q.page = page /\ q.group = {}
                      /\ q.at = pass[w].at /\ q.dirty = {}
    OBVIOUS
  <2>1. ids \subseteq Job
    BY DEF PageIds
  <2>2. last \in Job
    <3>1. \E j \in ids : \A i \in ids : ~ Before(j, i)
      BY <1>2, <2>1, LastJob
    <3> QED BY <2>1, <3>1
  <2>3. page \subseteq Copy
    BY PageReadCopies
  <2> HIDE DEF ids, last, page
  <2>4. (Cardinality(ids) = Batch) \in BOOLEAN
    OBVIOUS
  <2> QED BY <1>2, <1>3, <2>2, <2>3, <2>4 DEF Pass
<1> HIDE DEF q, r, ids, last
<1>9. /\ OthersRest(w)
      /\ \/ pass'[w] = r
         \/ ids # {} /\ pass'[w] = q
  <2>1. CASE ids = {}
    BY <1>1, <1>2, <1>7, <2>1, GotoPass
  <2>2. CASE ids # {}
    BY <1>1, <1>2, <1>8, <2>2, GotoPass
  <2> QED BY <2>1, <2>2
<1>10. /\ pass'[w].pc \in {"send", "release"} /\ pass'[w].page \in {{}, page}
       /\ pass'[w].group = {} /\ pass'[w].at = pass[w].at
       /\ pass'[w].pc = "release" => pass'[w].page = {}
       /\ \A v \in Worker \ {w} : pass'[v] = pass[v]
  BY <1>7, <1>8, <1>9 DEF OthersRest
<1>11. LockOK' /\ handle' = handle /\ key' \in [token : Token \cup {None}, left : Nat]
  <2>1. \A v \in Worker : pass'[v].pc # "idle" => pass[v].pc # "idle"
    BY <1>1, <1>10
  <2> QED BY <1>1, <2>1, RenewLock
<1>12. TypeOK'
  BY <1>1, <1>2, <1>6, <1>9, <1>11 DEF TypeOK, OthersRest
<1>13. ApptsOK' /\ RowsOK' /\ EverySlotHasJobs' /\ TwiceOnlyUnsure'
  BY <1>1 DEF IInv, ApptsOK, RowsOK, EverySlotHasJobs, TwiceOnlyUnsure, Planned
<1>14. \A x \in page : /\ x \in Copy /\ x.id \in ids /\ x.id \in Job
                       /\ job[x.id].status \in Pending /\ x.due <= pass[w].at
                       /\ x.due = job[x.id].due /\ x.appt = job[x.id].appt
                       /\ x.active = appt[x.appt].active /\ x.start = appt[x.appt].start
  <2> SUFFICES ASSUME NEW x \in page
               PROVE  /\ x \in Copy /\ x.id \in ids /\ x.id \in Job
                      /\ job[x.id].status \in Pending /\ x.due <= pass[w].at
                      /\ x.due = job[x.id].due /\ x.appt = job[x.id].appt
                      /\ x.active = appt[x.appt].active /\ x.start = appt[x.appt].start
    OBVIOUS
  <2>1. /\ x \in Copy /\ x.id \in PageIds(w) /\ x.id \in Job
        /\ x = [id |-> x.id, appt |-> job[x.id].appt, channel |-> job[x.id].channel,
                due |-> job[x.id].due, active |-> appt[job[x.id].appt].active,
                start |-> appt[job[x.id].appt].start]
    BY PageReadCopies
  <2>2. job[x.id].status \in Pending /\ job[x.id].due <= pass[w].at
    BY <2>1, PageRows
  <2>3. /\ x.due = job[x.id].due /\ x.appt = job[x.id].appt
        /\ x.active = appt[job[x.id].appt].active /\ x.start = appt[job[x.id].appt].start
    BY <2>1
  <2> QED BY <2>1, <2>2, <2>3 DEF ids
<1>15. \A x, y \in page : x.id = y.id => x = y
  <2> SUFFICES ASSUME NEW x \in page, NEW y \in page, x.id = y.id PROVE x = y
    OBVIOUS
  <2>1. /\ x = [id |-> x.id, appt |-> job[x.id].appt, channel |-> job[x.id].channel,
                due |-> job[x.id].due, active |-> appt[job[x.id].appt].active,
                start |-> appt[job[x.id].appt].start]
        /\ y = [id |-> y.id, appt |-> job[y.id].appt, channel |-> job[y.id].channel,
                due |-> job[y.id].due, active |-> appt[job[y.id].appt].active,
                start |-> appt[job[y.id].appt].start]
    BY PageReadCopies
  <2> QED BY <2>1
<1> HIDE DEF page
<1>16. Held(w)' \subseteq page
  BY <1>10 DEF Held
<1>17. PassShape(w)' /\ CopiesOK(w)'
  <2>1. PassShape(w)'
    BY <1>1, <1>3, <1>10 DEF PassShape
  <2>2. ASSUME NEW x \in Held(w)'
        PROVE  /\ x.due <= pass'[w].at /\ job'[x.id].status # "NONE" /\ job'[x.id].appt = x.appt
               /\ job'[x.id].status = "PENDING" => job'[x.id].due <= now'
    <3>1. /\ x \in Copy /\ job[x.id].status \in Pending /\ x.due <= pass[w].at
          /\ x.due = job[x.id].due /\ x.appt = job[x.id].appt
      BY <1>14, <1>16, <2>2
    <3>2. x.due \in Nat /\ now \in Nat /\ pass[w].at \in Nat
      BY <1>2, <3>1 DEF Copy, TypeOK, Pass
    <3> QED BY <1>1, <1>3, <1>10, <3>1, <3>2 DEF Pending
  <2>3. \A x, y \in Held(w)' : x.id = y.id => x = y
    BY <1>15, <1>16
  <2>4. CopiesOK(w)'
    BY <2>2, <2>3 DEF CopiesOK
  <2> QED BY <2>1, <2>4
<1>18. \A v \in Worker \ {w} : PassShape(v)' /\ CopiesOK(v)'
  <2> SUFFICES ASSUME NEW v \in Worker \ {w} PROVE PassShape(v)' /\ CopiesOK(v)'
    OBVIOUS
  <2>1. pass'[v] = pass[v] /\ PassShape(v) /\ CopiesOK(v)
    BY <1>2, <1>10 DEF PassesOK
  <2>2. PassShape(v)'
    BY <1>1, <2>1 DEF PassShape
  <2>3. CopiesOK(v)'
    BY <1>1, <2>1 DEF CopiesOK, Held
  <2> QED BY <2>2, <2>3
<1>19. PassesOK'
  BY <1>17, <1>18 DEF PassesOK
<1>20. CopiesCurrent'
  <2> SUFFICES ASSUME NEW v \in Worker
               PROVE  /\ \A x \in pass'[v].page : TrueOf(x, v, x.active)'
                      /\ \A x \in pass'[v].group : TrueOf(x, v, TRUE)'
    BY DEF CopiesCurrent
  <2>1. CASE v = w
    <3>1. \A x \in pass'[w].page : TrueOf(x, w, x.active)'
      <4> SUFFICES ASSUME NEW x \in pass'[w].page PROVE TrueOf(x, w, x.active)'
        OBVIOUS
      <4>1. x.active = appt[x.appt].active /\ x.start = appt[x.appt].start
        BY <1>10, <1>14
      <4> QED BY <1>1, <4>1 DEF TrueOf
    <3> QED BY <1>10, <2>1, <3>1
  <2>2. CASE v # w
    <3>1. pass'[v] = pass[v]
      BY <1>10, <2>2
    <3> QED BY <1>1, <3>1 DEF IInv, CopiesCurrent, TrueOf
  <2> QED BY <2>1, <2>2
<1>21. NotYetSent'
  <2> SUFFICES ASSUME ~ overrun, NEW v \in Worker, NEW x \in Waiting(v)'
               PROVE  sent[x.id] = 0 \/ x.id \in unsure
    BY <1>1 DEF NotYetSent
  <2>1. CASE v # w
    <3>1. Waiting(v)' = Waiting(v)
      BY <1>10, <2>1 DEF Waiting, At
    <3> QED BY <3>1 DEF IInv, NotYetSent
  <2>2. CASE v = w
    <3>1. x \in page
      BY <1>10, <2>2 DEF Waiting, At
    <3>2. job[x.id].status \in Pending /\ x.id \in Job
      BY <1>14, <3>1
    <3>3. \A u \in Worker : Unrecorded(u) = {}
      <4> SUFFICES ASSUME NEW u \in Worker, u # w PROVE Unrecorded(u) = {}
        BY <1>4
      <4>1. pass[u].pc = "idle"
        BY <1>1, Alone
      <4> QED BY <1>2, <4>1, IdleWaits
    <3> QED BY <3>2, <3>3 DEF IInv, SentIsRecorded
  <2> QED BY <2>1, <2>2
<1>22. SentIsRecorded'
  <2>1. Unrecorded(w)' = {}
    BY <1>10 DEF Unrecorded, At
  <2> QED BY <1>1, <1>4, <1>5, <1>9, <2>1, RecordedStays
<1> QED BY <1>11, <1>12, <1>13, <1>19, <1>20, <1>21, <1>22 DEF IInv

-----------------------------------------------------------------------------
(* The theorems.                                                           *)

\* At first there is no row, no pass and no key.
THEOREM InitInv == Init => IInv
<1> SUFFICES ASSUME Init PROVE IInv
  OBVIOUS
<1>1. \A w \in Worker : pass[w].page = {} /\ pass[w].group = {} /\ pass[w].at = 0
                        /\ pass[w].pc = "idle"
  BY IdlePass DEF Init
<1>2. TypeOK
  <2>1. NoJob \in JobRow /\ Idle \in Pass
    BY IdlePass DEF NoJob, JobRow
  <2>2. [exists |-> FALSE, active |-> FALSE, start |-> 0] \in ApptRow
    BY DEF ApptRow
  <2>3. 0 \in 0 .. Horizon /\ 0 \in 0 .. MaxMoves /\ 0 \in 0 .. MaxPasses
    BY NumberAssumption
  <2>4. Lock!NoKey \in [token : Token \cup {None}, left : Nat]
    BY DEF Lock!NoKey
  <2>5. now \in 0 .. Horizon /\ moves \in 0 .. MaxMoves /\ passes \in 0 .. MaxPasses
    BY <2>3 DEF Init
  <2>6. /\ appt \in [Appt -> ApptRow] /\ job \in [Job -> JobRow] /\ pass \in [Worker -> Pass]
        /\ sent \in [Job -> 0 .. 2] /\ handle \in [Worker -> Token \cup {None}]
    BY <2>1, <2>2 DEF Init
  <2> QED BY <2>4, <2>5, <2>6 DEF Init, TypeOK
<1>3. ApptsOK /\ RowsOK /\ EverySlotHasJobs /\ TwiceOnlyUnsure
  BY DEF Init, ApptsOK, RowsOK, EverySlotHasJobs, TwiceOnlyUnsure, NoJob
<1>4. PassesOK /\ CopiesCurrent
  <2>1. \A w \in Worker : PassShape(w)
    BY <1>1 DEF PassShape, Init
  <2>2. \A w \in Worker : CopiesOK(w)
    BY <1>1 DEF CopiesOK, Held
  <2> QED BY <1>1, <2>1, <2>2 DEF PassesOK, CopiesCurrent
<1>5. LockOK
  BY <1>1 DEF Init, LockOK, Lock!NoKey
<1>6. NotYetSent /\ SentIsRecorded
  BY <1>1 DEF Init, NotYetSent, SentIsRecorded, Waiting, At
<1> QED BY <1>2, <1>3, <1>4, <1>5, <1>6 DEF IInv

LEMMA TransactionInv ==
  ASSUME IInv, NEW a \in Appt, Transaction(a), EverySlotHasJobs' PROVE IInv'
BY TransactionRows, TransactionPasses, TransactionSent DEF IInv

LEMMA ApiInv ==
  ASSUME IInv, NEW a \in Appt,
         Book(a) \/ ClientMove(a) \/ ReadStatus(a) \/ ProMove(a) \/ Confirm(a) \/ Cancel(a)
  PROVE  IInv'
<1>1. CASE Book(a)
  <2>1. PICK s \in Start :
          /\ appt' = [appt EXCEPT ![a] = [exists |-> TRUE, active |-> TRUE, start |-> s]]
          /\ job' \in Created(job, a, Ahead(s))
    BY <1>1 DEF Book
  <2>2. Transaction(a)
    BY <1>1, <2>1, BookRows
  <2> QED BY <1>1, <2>2, BookSlots, TransactionInv
<1>2. CASE ClientMove(a)
  BY <1>2, ClientMoveTransaction, TransactionSlots, TransactionInv
<1>3. CASE ReadStatus(a)
  BY <1>3, ReadStatusTransaction, TransactionSlots, TransactionInv
<1>4. CASE ProMove(a)
  BY <1>4, ProMoveTransaction, TransactionSlots, TransactionInv
<1>5. CASE Confirm(a)
  BY <1>5, ConfirmTransaction, TransactionSlots, TransactionInv
<1>6. CASE Cancel(a)
  BY <1>6, CancelTransaction, TransactionSlots, TransactionInv
<1> QED BY <1>1, <1>2, <1>3, <1>4, <1>5, <1>6

PassStep(w) == \/ Begin(w) \/ SkipLate(w) \/ ReadPage(w) \/ SkipGroup(w)
               \/ SendPush(w) \/ NoToken(w) \/ MarkPush(w) \/ FailPush(w)
               \/ ScheduleLater(w) \/ PickWhatsApp(w) \/ SendWhatsApp(w) \/ NoPhone(w)
               \/ MarkWhatsApp(w) \/ EndPage(w) \/ EndPass(w) \/ Fail(w) \/ Crash(w)

LEMMA PassStepInv == ASSUME IInv, NEW w \in Worker, PassStep(w) PROVE IInv'
BY BeginInv, SkipLateInv, ReadPageInv, SkipGroupInv, SendPushInv, NoTokenInv, MarkPushInv,
   FailPushInv, ScheduleLaterInv, PickWhatsAppInv, SendWhatsAppInv, NoPhoneInv,
   MarkWhatsAppInv, EndPageInv, EndPassInv, FailInv, CrashInv DEF PassStep

\* Every transaction, every step of a pass, every death and every minute.
THEOREM NextInv == IInv /\ [Next]_vars => IInv'
<1> SUFFICES ASSUME IInv, [Next]_vars PROVE IInv'
  OBVIOUS
<1>1. CASE Tick
  BY <1>1, TickInv
<1>2. CASE \E a \in Appt : \/ Book(a) \/ ClientMove(a) \/ ReadStatus(a) \/ ProMove(a)
                           \/ Confirm(a) \/ Cancel(a)
  BY <1>2, ApiInv
<1>3. CASE \E w \in Worker : PassStep(w)
  BY <1>3, PassStepInv
<1>4. CASE UNCHANGED vars
  BY <1>4 DEF vars, IInv, TypeOK, ApptsOK, RowsOK, PassesOK, PassShape, CopiesOK, Held,
              CopiesCurrent, TrueOf, LockOK, NotYetSent, Waiting, SentIsRecorded, Unrecorded,
              At, TwiceOnlyUnsure, EverySlotHasJobs, Planned
<1> QED BY <1>1, <1>2, <1>3, <1>4 DEF Next, PassStep

\* So the invariant always holds.
THEOREM Inductive == Spec => []IInv
<1>1. Init => IInv
  BY InitInv
<1>2. IInv /\ [Next]_vars => IInv'
  BY NextInv
<1> QED BY <1>1, <1>2, PTL DEF Spec

\* Type correctness.
THEOREM RemindersTypeCorrect == Spec => []TypeOK
<1>1. IInv => TypeOK
  BY DEF IInv
<1> QED BY <1>1, Inductive, PTL

\* No message goes out twice, unless its sender died before it recorded the first
\* or a pass outlived its lease: whatever the transactions do to the jobs meanwhile.
THEOREM TwiceOnlyUnsureTheorem == Spec => []TwiceOnlyUnsure
<1>1. IInv => TwiceOnlyUnsure
  BY DEF IInv
<1> QED BY <1>1, Inductive, PTL

\* An active appointment has the jobs of its slot that are ahead, whatever the
\* passes do to its rows, unless older rows suppressed them.
THEOREM EverySlotHasJobsTheorem == Spec => []EverySlotHasJobs
<1>1. IInv => EverySlotHasJobs
  BY DEF IInv
<1> QED BY <1>1, Inductive, PTL

\* Who publishes: a pass with the group in its hands.
LEMMA PublishingSteps ==
  ASSUME IInv, [Next]_vars, NEW w \in Worker, NEW x \in pass'[w].group, Publishing(w, x)
  PROVE  SendPush(w) \/ SendWhatsApp(w)
<1>1. x.id \in Job
  <2>1. TypeOK'
    BY NextInv DEF IInv
  <2> QED BY <2>1 DEF TypeOK, Pass, Copy
<1>2. sent[x.id] \in Nat
  BY <1>1 DEF IInv, TypeOK
<1>3. sent' # sent /\ pass'[w] # pass[w]
  BY <1>2 DEF Publishing
<1>4. PICK v \in Worker : SendPush(v) \/ SendWhatsApp(v)
  <2>1. ~ Tick /\ ~ UNCHANGED vars
    BY <1>3 DEF Tick, vars
  <2>2. \A a \in Appt : ~ (\/ Book(a) \/ ClientMove(a) \/ ReadStatus(a) \/ ProMove(a)
                           \/ Confirm(a) \/ Cancel(a))
    BY <1>3 DEF Book, ClientMove, ReadStatus, ProMove, Confirm, Cancel
  <2>3. \A v \in Worker : PassStep(v) => SendPush(v) \/ SendWhatsApp(v)
    BY <1>3 DEF PassStep, Begin, SkipLate, ReadPage, SkipGroup, NoToken, MarkPush, FailPush,
         ScheduleLater, PickWhatsApp, NoPhone, MarkWhatsApp, EndPage, EndPass, Fail, Crash,
         OnlyJobs, table
  <2> QED BY <2>1, <2>2, <2>3 DEF Next, PassStep
<1>5. v # w => pass'[w] = pass[w]
  BY <1>4 DEF SendPush, SendWhatsApp, Goto, IInv, TypeOK
<1> QED BY <1>3, <1>4, <1>5

LEMMA CurrentStep ==
  ASSUME IInv, [Next]_vars, NEW w \in Worker, NEW x \in pass'[w].group, Publishing(w, x)
  PROVE  \/ appt[x.appt].active /\ appt[x.appt].start = x.start
         \/ x.appt \in pass[w].dirty
<1>1. TypeOK /\ pass[w] \in Pass
  BY DEF IInv, TypeOK
<1>2. CASE SendPush(w)
  <2>1. HasGroup(w) /\ First(pass[w].page).active
    BY <1>2 DEF SendPush, Send, Sendable
  <2>2. pass'[w].group = Front(w)
    BY <1>1, <1>2 DEF SendPush, Goto, TypeOK, Pass
  <2>3. TrueOf(x, w, TRUE)
    BY <2>1, <2>2, FrontHeld
  <2> QED BY <2>3 DEF TrueOf
<1>3. CASE SendWhatsApp(w)
  <2>1. pass'[w].group = pass[w].group
    BY <1>1, <1>3 DEF SendWhatsApp, Goto, TypeOK, Pass
  <2>2. TrueOf(x, w, TRUE)
    BY <2>1 DEF IInv, CopiesCurrent
  <2> QED BY <2>2 DEF TrueOf
<1> QED BY <1>2, <1>3, PublishingSteps

\* What a reminder says was so when its page was read.
THEOREM ReminderIsCurrentTheorem == Spec => ReminderIsCurrent
<1>1. IInv /\ [Next]_vars =>
        [\A w \in Worker : \A x \in pass'[w].group :
           Publishing(w, x)
           => \/ appt[x.appt].active /\ appt[x.appt].start = x.start
              \/ x.appt \in pass[w].dirty]_vars
  BY CurrentStep
<1> QED BY <1>1, Inductive, PTL DEF Spec, ReminderIsCurrent

-----------------------------------------------------------------------------
(* A pass that recorded a push does not send the WhatsApp of its instant.  *)
(* Within a page they are one group.  When a page ends between them, the   *)
(* next page skips one row too many, since the row of its cursor no longer *)
(* waits: and that row is the WhatsApp, for the jobs of a slot have ids    *)
(* that follow one another, and nothing of another appointment is between. *)

Key(x) == [appt |-> x.appt, due |-> x.due]

\* The rows are numbered without gaps, and the unique index holds.
NoGaps == \A i, j \in Job : i < j /\ job[j].status # "NONE" => job[i].status # "NONE"
Unique == \A i, j \in Job : /\ job[i].appt # None /\ job[i].appt = job[j].appt
                            /\ job[i].channel = job[j].channel /\ job[i].due = job[j].due
                            => i = j

\* Only a WhatsApp is scheduled for later.
PushIsNow == \A j \in Job : job[j].status = "SCHEDULED" => job[j].channel = "WHATSAPP"

\* Between a push that waits and later rows of its appointment are only rows of
\* that appointment: they were created together.
Batches == \A i, j, k \in Job :
  /\ i < j /\ j < k /\ job[k].appt = job[i].appt
  /\ job[i].channel = "PUSH" /\ job[i].status = "PENDING"
  => job[j].appt = job[i].appt

\* So it is for a push at work and the WhatsApp of its instant.
Adjoins(i) == \A j, k \in Job :
  /\ i < j /\ j < k /\ job[k].appt = job[i].appt
  /\ job[k].channel = "WHATSAPP" /\ job[k].due = job[i].due
  => job[j].appt = job[i].appt

\* A push that a page of w contained: its cursor stands there or further.
Reached(w, i) == /\ i \in Job /\ pass[w].cursor \in Job
                 /\ job[i].status # "NONE" /\ job[pass[w].cursor].status # "NONE"
                 /\ ~ Before(pass[w].cursor, i)
                 /\ job[i].channel = "PUSH" /\ job[i].due <= pass[w].at /\ Adjoins(i)

TableOK == NoGaps /\ Unique /\ PushIsNow /\ Batches

\* The copies of a pass, and what it told.
HandsOK(w) ==
  /\ \A x \in Held(w) : /\ job[x.id].channel = x.channel
                        /\ job[x.id].due <= Stagger + now
                        /\ x.channel = "PUSH" => Reached(w, x.id) /\ job[x.id].due = x.due
  /\ \A k \in pass[w].told : \E i \in Job : /\ Reached(w, i) /\ job[i].status \notin Pending
                                            /\ job[i].appt = k.appt /\ job[i].due = k.due
GroupsOK(w) ==
  /\ \A x \in pass[w].page : x.channel = "WHATSAPP" => Key(x) \notin pass[w].told
  /\ \A x \in pass[w].group, y \in pass[w].page : Key(x) # Key(y)
  /\ \A x, y \in pass[w].group : Key(x) = Key(y)
  /\ pass[w].pc \in {"pushed", "whatsapp"} =>
       \A x \in pass[w].group : x.channel = "WHATSAPP" => Key(x) \notin pass[w].told
  /\ pass[w].pc = "pushed" => Of(pass[w].group, "PUSH") # {}
  /\ pass[w].pc = "later" => \A x \in pass[w].group : x.channel = "WHATSAPP"

Apart == TableOK /\ \A w \in Worker : HandsOK(w) /\ GroupsOK(w)

-----------------------------------------------------------------------------
(* What becomes of the rows, once more, with the instants.                 *)

Later(j) == /\ job[j].status # "NONE" /\ job[j].channel = "WHATSAPP"
            /\ job'[j].status = "SCHEDULED"
            /\ job'[j].appt = job[j].appt /\ job'[j].channel = job[j].channel
            /\ job[j].due <= job'[j].due /\ now < job'[j].due /\ job'[j].due <= Stagger + now
MadeAhead(j) == /\ job[j].status = "NONE" /\ job'[j].status = "PENDING"
                /\ job'[j].appt \in Appt /\ now < job'[j].due
RowsMove == /\ job' \in [Job -> JobRow]
            /\ \A j \in Job : Kept(j) \/ Ended(j) \/ Later(j) \/ MadeAhead(j)

\* New rows take the lowest ids that are free, all of them.
LEMMA NewIdsAdjoin ==
  ASSUME TypeOK, NEW new, IsFiniteSet(new), NEW f \in [new -> NextIds(Cardinality(new))],
         \A p, q \in new : f[p] = f[q] => p = q,
         NEW p \in new, NEW j \in Job, job[j].status = "NONE", j < f[p]
  PROVE  \E q \in new : f[q] = j
<1> SUFFICES ASSUME \A q \in new : f[q] # j PROVE FALSE
  OBVIOUS
<1> DEFINE n == Cardinality(new)
           N == {f[q] : q \in new}
           U(i) == {k \in Job : job[k].status = "NONE" /\ k < i}
<1>1. n \in Nat
  BY FS_CardinalityType
<1>2. \A i \in NextIds(n) : i \in Job /\ job[i].status = "NONE" /\ Cardinality(U(i)) < n
  BY DEF NextIds
<1>3. N \subseteq NextIds(n) /\ N \subseteq Nat /\ f[p] \in N
  BY <1>2, NumberAssumption
<1>4. f \in Surjection(new, N) /\ f \in Injection(new, N)
  <2>1. f \in [new -> N]
    OBVIOUS
  <2>2. \A k \in N : \E q \in new : f[q] = k
    OBVIOUS
  <2> HIDE DEF N
  <2> QED BY <2>1, <2>2 DEF Surjection, Injection, IsInjective
<1>5. IsFiniteSet(N) /\ Cardinality(N) = n
  BY <1>4, FS_Surjection
<1>6. PICK m \in N : \A k \in N : k <= m
  BY <1>3, <1>5, LargestOf
<1>7. IsFiniteSet(U(m)) /\ Cardinality(U(m)) \in Nat
  BY FS_Subset, FS_CardinalityType, NumberAssumption
<1>8. j \notin N
  OBVIOUS
<1>9. IsFiniteSet(N \ {m}) /\ Cardinality(N \ {m}) = n - 1
  BY <1>5, <1>6, FS_RemoveElement
<1>10. Cardinality((N \ {m}) \cup {j}) = n
  <2>1. Cardinality((N \ {m}) \cup {j}) = Cardinality(N \ {m}) + 1
    BY <1>8, <1>9, FS_AddElement
  <2> HIDE DEF N, n
  <2> QED BY <1>1, <1>9, <2>1
<1>11. (N \ {m}) \cup {j} \subseteq U(m)
  <2>1. \A k \in N \ {m} : k < m
    BY <1>3, <1>6
  <2>2. j < m
    <3>1. f[p] <= m /\ f[p] \in Nat /\ m \in Nat /\ j \in Nat
      BY <1>3, <1>6, NumberAssumption
    <3> HIDE DEF N
    <3> QED BY <3>1
  <2>3. N \subseteq Job /\ \A k \in N : job[k].status = "NONE"
    BY <1>2, <1>3
  <2> HIDE DEF N
  <2> QED BY <2>1, <2>2, <2>3
<1>12. Cardinality((N \ {m}) \cup {j}) <= Cardinality(U(m))
  BY <1>7, <1>11, FS_Subset
<1>13. m \in NextIds(n)
  BY <1>3, <1>6
<1>14. Cardinality(U(m)) < n
  BY <1>2, <1>13
<1> QED BY <1>1, <1>7, <1>10, <1>12, <1>14

\* Only so many reminders can lie ahead.
LEMMA AheadFinite ==
  ASSUME TypeOK, NEW s \in Start
  PROVE  IsFiniteSet(Ahead(s))
<1> DEFINE E == Channel \X (1 .. s)
           g == [e \in E |-> [channel |-> e[1], due |-> e[2]]]
           P == {g[e] : e \in E}
<1>1. s \in Nat /\ now \in Nat
  BY NumberAssumption DEF TypeOK
<1>2. IsFiniteSet(1 .. s)
  BY <1>1, FS_Interval
<1>3. IsFiniteSet(Channel)
  <2>1. IsFiniteSet({"PUSH"})
    BY FS_Singleton
  <2>2. IsFiniteSet({"PUSH"} \cup {"WHATSAPP"})
    BY <2>1, FS_AddElement
  <2>3. {"PUSH"} \cup {"WHATSAPP"} = Channel
    BY DEF Channel
  <2> QED BY <2>2, <2>3
<1>4. IsFiniteSet(E)
  BY <1>2, <1>3, FS_Product
<1>5. g \in Surjection(E, P)
  BY DEF Surjection
<1>6. IsFiniteSet(P)
  BY <1>4, <1>5, FS_Surjection
<1>7. Ahead(s) \subseteq P
  <2> SUFFICES ASSUME NEW x \in Ahead(s) PROVE x \in P
    OBVIOUS
  <2>1. PICK c \in Channel, o \in Offset : x = [channel |-> c, due |-> s - o]
    BY DEF Ahead, Planned
  <2>2. o \in Nat \ {0} /\ s - o > now
    BY <2>1, NumberAssumption DEF Ahead
  <2>3. s - o \in 1 .. s
    BY <1>1, <2>2
  <2>4. <<c, s - o>> \in E /\ g[<<c, s - o>>] = x
    BY <2>1, <2>3
  <2> QED BY <2>4
<1> QED BY <1>6, <1>7, FS_Subset

\* Rows that only end keep the table in order.
LEMMA TableEnds ==
  ASSUME TypeOK, RowsOK, TableOK, \A j \in Job : Kept(j) \/ Ended(j)
  PROVE  TableOK'
<1>1. \A j \in Job : /\ job'[j].appt = job[j].appt /\ job'[j].channel = job[j].channel
                     /\ job'[j].due = job[j].due
                     /\ job'[j].status = "NONE" <=> job[j].status = "NONE"
                     /\ job'[j].status \in Pending => job'[j].status = job[j].status
  BY DEF Kept, Ended, Pending
<1>2. NoGaps'
  BY <1>1 DEF TableOK, NoGaps
<1>3. Unique'
  BY <1>1 DEF TableOK, Unique
<1>4. PushIsNow' /\ Batches'
  BY <1>1 DEF TableOK, PushIsNow, Batches, Pending
<1> QED BY <1>2, <1>3, <1>4 DEF TableOK

\* One row is put off, to an instant that is not taken.
LEMMA TableLater ==
  ASSUME TypeOK, RowsOK, TableOK, NEW i \in Job, Later(i), \A j \in Job \ {i} : Kept(j),
         ~ Taken(job[i].appt, [channel |-> job[i].channel, due |-> job'[i].due])
  PROVE  TableOK'
<1>1. \A j \in Job : /\ job'[j].appt = job[j].appt /\ job'[j].channel = job[j].channel
                     /\ job'[j].status = "NONE" <=> job[j].status = "NONE"
                     /\ job'[j].status = "PENDING" => job'[j].status = job[j].status
                     /\ job'[j].status = "SCHEDULED" => j = i \/ job[j].status = "SCHEDULED"
  BY DEF Kept, Later
<1>2. NoGaps' /\ PushIsNow' /\ Batches'
  BY <1>1 DEF TableOK, NoGaps, PushIsNow, Batches, Later
<1>3. \A j \in Job : job[j].appt = job[i].appt /\ job[j].channel = job[i].channel
                     => job[j].due # job'[i].due
  BY DEF Taken
<1>4. \A j \in Job \ {i} : job'[j].due = job[j].due
  BY DEF Kept
<1>5. Unique'
  <2> SUFFICES ASSUME NEW j \in Job, NEW k \in Job, job'[j].appt # None,
                      job'[j].appt = job'[k].appt, job'[j].channel = job'[k].channel,
                      job'[j].due = job'[k].due
               PROVE  j = k
    BY DEF Unique
  <2>1. CASE j = i /\ k # i
    BY <1>1, <1>3, <1>4, <2>1
  <2>2. CASE k = i /\ j # i
    BY <1>1, <1>3, <1>4, <2>2
  <2>3. CASE j # i /\ k # i
    BY <1>1, <1>4, <2>3 DEF TableOK, Unique
  <2> QED BY <2>1, <2>2, <2>3
<1> QED BY <1>2, <1>5 DEF TableOK

\* A slot is booked or moved: the old rows of the appointment wait no more, and
\* the new ones stand side by side.
LEMMA TableMade ==
  ASSUME TypeOK, RowsOK, TableOK, NEW a \in Appt, NEW s \in Start, NEW table0 \in [Job -> JobRow],
         \A j \in Job : \/ table0[j] = job[j]
                        \/ /\ job[j].status \in Pending /\ table0[j].status = "CANCELED"
                           /\ table0[j].appt = job[j].appt /\ table0[j].channel = job[j].channel
                           /\ table0[j].due = job[j].due,
         \A j \in Job : job[j].appt = a => table0[j].status \notin Pending,
         job' \in Created(table0, a, Ahead(s))
  PROVE  RowsMove /\ TableOK'
<1> DEFINE new == {p \in Ahead(s) : ~ Taken(a, p)}
<1> DEFINE Free == NextIds(Cardinality(new))
<1> DEFINE R(p) == [status |-> "PENDING", appt |-> a, channel |-> p.channel,
                    due |-> p.due, error |-> "none"]
<1>1. PICK f \in [new -> Free] :
        /\ \A p, q \in new : f[p] = f[q] => p = q
        /\ job' = [j \in Job |-> IF \E p \in new : f[p] = j
                                 THEN R(CHOOSE x \in new : f[x] = j) ELSE table0[j]]
  BY DEF Created
<1>2. \A j \in Free : j \in Job /\ job[j].status = "NONE"
  BY DEF NextIds
<1>3. IsFiniteSet(new)
  BY AheadFinite, FS_Subset
<1>4. \A p \in new, j \in Job : job[j].status = "NONE" /\ j < f[p] => \E q \in new : f[q] = j
  BY <1>1, <1>3, NewIdsAdjoin
<1>5. \A p \in new : /\ p = [channel |-> p.channel, due |-> p.due] /\ p.channel \in Channel
                     /\ p.due \in Nat /\ now < p.due /\ ~ Taken(a, p)
  BY AheadPlans DEF Ahead, TypeOK
<1>6. \A p \in new : R(p) \in JobRow
  BY <1>5 DEF JobRow, Pending
<1> DEFINE N == {f[p] : p \in new}
<1>7. \A p \in new : f[p] \in Job /\ job[f[p]].status = "NONE" /\ job'[f[p]] = R(p)
  <2> HIDE DEF new, Free
  <2> SUFFICES ASSUME NEW p \in new
               PROVE  f[p] \in Job /\ job[f[p]].status = "NONE" /\ job'[f[p]] = R(p)
    OBVIOUS
  <2>1. f[p] \in Free
    OBVIOUS
  <2>2. (CHOOSE x \in new : f[x] = f[p]) = p
    BY <1>1
  <2> QED BY <1>1, <1>2, <2>1, <2>2
<1>8. \A j \in Job \ N : job'[j] = table0[j]
  BY <1>1
<1> HIDE DEF new, Free
<1>20. \A j \in N : \E p \in new : j = f[p]
  OBVIOUS
<1>21. \A p \in new : f[p] \in N
  OBVIOUS
<1> HIDE DEF N, R
<1>9. N \subseteq Job /\ \A j \in N : job[j].status = "NONE" /\ job[j].appt = None
  BY <1>7, <1>20 DEF RowsOK
<1>10. \A j \in N : \E p \in new : job'[j] = R(p) /\ j = f[p]
  BY <1>7, <1>20
<1>11. \A j \in N : job'[j].status = "PENDING" /\ job'[j].appt = a /\ now < job'[j].due
                    /\ job'[j].channel \in Channel
  <2> SUFFICES ASSUME NEW j \in N
               PROVE  job'[j].status = "PENDING" /\ job'[j].appt = a /\ now < job'[j].due
                      /\ job'[j].channel \in Channel
    OBVIOUS
  <2>1. PICK p \in new : job'[j] = R(p)
    BY <1>10
  <2>2. job'[j].status = "PENDING" /\ job'[j].appt = a /\ job'[j].due = p.due
        /\ job'[j].channel = p.channel
    BY <2>1 DEF R
  <2> QED BY <1>5, <2>2
<1>12. \A n \in N, j \in Job : job[j].status = "NONE" /\ j < n => j \in N
  BY <1>4, <1>20, <1>21
<1>13. \A j \in Job \ N : /\ job'[j].appt = job[j].appt /\ job'[j].channel = job[j].channel
                          /\ job'[j].due = job[j].due
                          /\ job'[j].status = "NONE" <=> job[j].status = "NONE"
                          /\ Kept(j) \/ Ended(j)
  BY <1>8 DEF Kept, Ended, Pending
<1>14. \A j \in Job : job'[j] \in JobRow
  <2>1. \A j \in N : job'[j] \in JobRow
    BY <1>6, <1>10
  <2>2. \A j \in Job \ N : job'[j] \in JobRow
    BY <1>8
  <2> QED BY <2>1, <2>2
<1>15. RowsMove
  <2>1. job' \in [Job -> JobRow]
    BY <1>1, <1>14
  <2>2. \A j \in N : MadeAhead(j)
    BY <1>9, <1>11 DEF MadeAhead
  <2> QED BY <1>13, <2>1, <2>2 DEF RowsMove
<1>16. Unique'
  <2> SUFFICES ASSUME NEW i \in Job, NEW j \in Job, job'[i].appt # None,
                      job'[i].appt = job'[j].appt, job'[i].channel = job'[j].channel,
                      job'[i].due = job'[j].due
               PROVE  i = j
    BY DEF Unique
  <2>1. CASE i \in N /\ j \in N
    <3>1. PICK p \in new, q \in new : i = f[p] /\ j = f[q] /\ job'[i] = R(p) /\ job'[j] = R(q)
      BY <1>10, <2>1
    <3>2. p.channel = q.channel /\ p.due = q.due
      BY <3>1 DEF R
    <3>3. p = q
      BY <1>5, <3>2
    <3> QED BY <3>1, <3>3
  <2>2. ASSUME NEW k \in N, NEW l \in Job \ N, job'[k].appt = job'[l].appt,
               job'[k].channel = job'[l].channel, job'[k].due = job'[l].due
        PROVE  FALSE
    <3>1. PICK p \in new : job'[k] = R(p)
      BY <1>10, <2>2
    <3>2. job[l].appt = a /\ job[l].channel = p.channel /\ job[l].due = p.due
      BY <1>13, <2>2, <3>1 DEF R
    <3> QED BY <1>5, <3>2 DEF Taken
  <2>3. CASE i \notin N /\ j \notin N
    BY <1>13, <2>3 DEF TableOK, Unique
  <2> QED BY <2>1, <2>2, <2>3
<1>17. NoGaps'
  <2> SUFFICES ASSUME NEW i \in Job, NEW j \in Job, i < j, job'[j].status # "NONE"
               PROVE  job'[i].status # "NONE"
    BY DEF NoGaps
  <2>1. CASE job[i].status # "NONE"
    BY <1>9, <1>13, <2>1
  <2>2. CASE job[i].status = "NONE" /\ j \in N
    BY <1>11, <1>12, <2>2
  <2>3. CASE j \notin N
    BY <1>9, <1>13, <2>3 DEF TableOK, NoGaps
  <2> QED BY <2>1, <2>2, <2>3
<1>18. PushIsNow'
  <2> SUFFICES ASSUME NEW j \in Job, job'[j].status = "SCHEDULED" PROVE job'[j].channel = "WHATSAPP"
    BY DEF PushIsNow
  <2>1. j \notin N
    BY <1>11
  <2>2. job'[j] = job[j]
    BY <1>13, <2>1 DEF Kept, Ended, Pending
  <2> QED BY <2>2 DEF TableOK, PushIsNow
<1>19. Batches'
  <2> SUFFICES ASSUME NEW i \in Job, NEW j \in Job, NEW k \in Job, i < j, j < k,
                      job'[k].appt = job'[i].appt, job'[i].channel = "PUSH",
                      job'[i].status = "PENDING"
               PROVE  job'[j].appt = job'[i].appt
    BY DEF Batches
  <2>1. CASE i \in N
    <3>1. job[k].status = "NONE"
      <4>1. i < k /\ job[i].status = "NONE"
        BY <1>9, <2>1, NumberAssumption
      <4> QED BY <4>1 DEF TableOK, NoGaps
    <3>2. k \in N
      <4>1. job'[k].appt = a /\ a # None
        BY <1>11, <2>1, NoneAssumption
      <4> QED BY <1>13, <3>1, <4>1 DEF RowsOK
    <3>3. job[j].status = "NONE"
      BY <1>9, <2>1 DEF TableOK, NoGaps
    <3>4. j \in N
      BY <1>12, <3>2, <3>3
    <3> QED BY <1>11, <2>1, <3>4
  <2>2. CASE i \notin N
    <3>1. job'[i] = job[i] /\ job'[i] = table0[i]
      BY <1>8, <1>13, <2>2 DEF Kept, Ended, Pending
    <3>2. job[i].appt # a /\ job[i].appt # None
      BY <3>1, NoneAssumption DEF Pending, RowsOK
    <3>3. k \notin N
      BY <1>11, <3>1, <3>2
    <3>4. job[k].appt = job[i].appt
      BY <1>13, <3>1, <3>3
    <3>5. job[j].appt = job[i].appt
      BY <3>1, <3>4 DEF TableOK, Batches
    <3>6. j \notin N
      BY <1>9, <3>2, <3>5
    <3> QED BY <1>13, <3>1, <3>5, <3>6
  <2> QED BY <2>1, <2>2
<1> QED BY <1>15, <1>16, <1>17, <1>18, <1>19 DEF TableOK

-----------------------------------------------------------------------------
(* What a pass keeps while the rows move.                                  *)

LEMMA NothingMoves ==
  ASSUME TypeOK, UNCHANGED job
  PROVE  RowsMove /\ \A j \in Job : Kept(j)
BY DEF RowsMove, Kept, TypeOK

LEMMA EndsMove ==
  ASSUME job' \in [Job -> JobRow], \A j \in Job : Kept(j) \/ Ended(j)
  PROVE  RowsMove
BY DEF RowsMove

\* No row is put beside a push whose instant has come.
LEMMA AdjoinsStays ==
  ASSUME TypeOK, RowsOK, RowsMove, NEW i \in Job, job[i].status # "NONE",
         job[i].channel = "PUSH", job[i].due <= now, Adjoins(i)
  PROVE  Adjoins(i)' /\ job'[i].due = job[i].due /\ job'[i].appt = job[i].appt
<1>1. \A j \in Job : job[j].due \in Nat /\ job'[j].due \in Nat
  BY DEF TypeOK, JobRow, RowsMove
<1>2. Kept(i) \/ Ended(i)
  BY DEF RowsMove, Later, MadeAhead
<1>3. job'[i].due = job[i].due /\ job'[i].appt = job[i].appt /\ job[i].appt # None
  BY <1>2, NoneAssumption DEF Kept, Ended, RowsOK
<1>4. now \in Nat
  BY DEF TypeOK
<1>5. ASSUME NEW j \in Job, NEW k \in Job, i < j, j < k, job'[k].appt = job'[i].appt,
             job'[k].channel = "WHATSAPP", job'[k].due = job'[i].due
      PROVE  job'[j].appt = job'[i].appt
  <2>1. ~ (now < job'[k].due)
    BY <1>1, <1>3, <1>4, <1>5
  <2>2. Kept(k) \/ Ended(k)
    BY <2>1 DEF RowsMove, Later, MadeAhead
  <2>3. job[k].appt = job[i].appt /\ job[k].channel = "WHATSAPP" /\ job[k].due = job[i].due
    BY <1>3, <1>5, <2>2 DEF Kept, Ended
  <2>4. job[j].appt = job[i].appt
    BY <1>5, <2>3 DEF Adjoins
  <2>5. job[j].status # "NONE"
    BY <1>3, <2>4 DEF RowsOK
  <2>6. job'[j].appt = job[j].appt
    BY <2>5 DEF RowsMove, Kept, Ended, Later, MadeAhead
  <2> QED BY <1>3, <2>4, <2>6
<1> QED BY <1>3, <1>5 DEF Adjoins

LEMMA ReachedStays ==
  ASSUME TypeOK, RowsOK, RowsMove, NEW w \in Worker, NEW i, Reached(w, i), pass[w].at <= now,
         pass'[w].cursor = pass[w].cursor, pass'[w].at = pass[w].at
  PROVE  /\ Reached(w, i)'
         /\ job'[i].due = job[i].due /\ job'[i].appt = job[i].appt
         /\ job[i].status \notin Pending => job'[i].status \notin Pending
<1> DEFINE c == pass[w].cursor
<1>1. /\ i \in Job /\ c \in Job /\ job[i].status # "NONE" /\ job[c].status # "NONE"
      /\ job[i].channel = "PUSH" /\ job[i].due <= pass[w].at /\ Adjoins(i)
      /\ ~ Before(c, i)
  BY DEF Reached
<1>2. \A j \in Job : job[j].due \in Nat /\ job'[j].due \in Nat
  BY DEF TypeOK, JobRow, RowsMove
<1>3. now \in Nat /\ pass[w].at \in Nat
  BY DEF TypeOK, Pass
<1>4. Adjoins(i)' /\ job'[i].due = job[i].due /\ job'[i].appt = job[i].appt
  BY <1>1, <1>2, <1>3, AdjoinsStays
<1>5. Kept(i) \/ Ended(i)
  BY <1>1 DEF RowsMove, Later, MadeAhead
<1>6. job'[i].channel = "PUSH" /\ job'[i].status # "NONE"
      /\ (job[i].status \notin Pending => job'[i].status \notin Pending)
  BY <1>1, <1>5 DEF Kept, Ended
<1>7. job[c].due <= job'[c].due /\ job'[c].status # "NONE"
  BY <1>1, <1>2 DEF RowsMove, Kept, Ended, Later, MadeAhead
<1>8. ~ (job'[c].due < job'[i].due \/ (job'[c].due = job'[i].due /\ c < i))
  BY <1>1, <1>2, <1>4, <1>7 DEF Before
<1> HIDE DEF c
<1>9. Reached(w, i)'
  BY <1>1, <1>4, <1>6, <1>7, <1>8 DEF Reached, Before, c
<1> QED BY <1>4, <1>6, <1>9

\* A copy in hand is of a row that is used, due when it was read.
LEMMA HeldCopies ==
  ASSUME IInv, NEW w \in Worker, NEW x \in Held(w)
  PROVE  /\ x.id \in Job /\ job[x.id].status # "NONE" /\ job[x.id].appt = x.appt
         /\ x.due <= pass[w].at /\ pass[w].at <= now /\ x \in Copy
         /\ now \in Nat /\ pass[w].at \in Nat /\ x.due \in Nat
<1>1. Held(w) \subseteq Copy
  BY HeldRows
<1>2. x \in Copy /\ x.id \in Job /\ x.due \in Nat
  BY <1>1 DEF Copy
<1>3. now \in Nat /\ pass[w].at \in Nat
  BY DEF IInv, TypeOK, Pass
<1> QED BY <1>2, <1>3 DEF IInv, PassesOK, PassShape, CopiesOK

\* What a pass holds and told, while its cursor stays.
LEMMA HandsMove ==
  ASSUME IInv, RowsMove, now' \in Nat, now <= now', NEW w \in Worker, HandsOK(w),
         pass'[w].cursor = pass[w].cursor, pass'[w].at = pass[w].at
  PROVE  /\ \A x \in Held(w) : /\ job'[x.id].channel = x.channel
                               /\ job'[x.id].due <= Stagger + now'
                               /\ x.channel = "PUSH" => Reached(w, x.id)' /\ job'[x.id].due = x.due
         /\ \A k \in pass[w].told : \E i \in Job :
              /\ Reached(w, i)' /\ job'[i].status \notin Pending
              /\ job'[i].appt = k.appt /\ job'[i].due = k.due
<1>1. TypeOK /\ RowsOK /\ pass[w].at <= now /\ now \in Nat /\ Stagger \in Nat
  BY NumberAssumption DEF IInv, PassesOK, PassShape, TypeOK
<1>2. ASSUME NEW x \in Held(w)
      PROVE  /\ job'[x.id].channel = x.channel /\ job'[x.id].due <= Stagger + now'
             /\ x.channel = "PUSH" => Reached(w, x.id)' /\ job'[x.id].due = x.due
  <2>1. x.id \in Job /\ job[x.id].status # "NONE"
    BY HeldCopies
  <2>2. /\ job[x.id].channel = x.channel /\ job[x.id].due <= Stagger + now
        /\ x.channel = "PUSH" => Reached(w, x.id) /\ job[x.id].due = x.due
    BY DEF HandsOK
  <2>3. job[x.id].due \in Nat /\ job'[x.id].due \in Nat
    BY <1>1, <2>1 DEF TypeOK, JobRow, RowsMove
  <2>4. job'[x.id].channel = job[x.id].channel /\ job'[x.id].due <= Stagger + now
    BY <1>1, <2>1, <2>2, <2>3 DEF RowsMove, Kept, Ended, Later, MadeAhead
  <2>5. job'[x.id].due <= Stagger + now'
    BY <1>1, <2>3, <2>4
  <2>6. x.channel = "PUSH" => Reached(w, x.id)' /\ job'[x.id].due = x.due
    BY <1>1, <2>2, ReachedStays
  <2> QED BY <2>2, <2>4, <2>5, <2>6
<1>3. ASSUME NEW k \in pass[w].told
      PROVE  \E i \in Job : /\ Reached(w, i)' /\ job'[i].status \notin Pending
                            /\ job'[i].appt = k.appt /\ job'[i].due = k.due
  <2>1. PICK i \in Job : /\ Reached(w, i) /\ job[i].status \notin Pending
                         /\ job[i].appt = k.appt /\ job[i].due = k.due
    BY DEF HandsOK
  <2>2. /\ Reached(w, i)' /\ job'[i].due = job[i].due /\ job'[i].appt = job[i].appt
        /\ job'[i].status \notin Pending
    BY <1>1, <2>1, ReachedStays
  <2> QED BY <2>1, <2>2
<1>4. \A x \in Held(w) : /\ job'[x.id].channel = x.channel
                         /\ job'[x.id].due <= Stagger + now'
                         /\ x.channel = "PUSH" => Reached(w, x.id)' /\ job'[x.id].due = x.due
  BY <1>2
<1>5. \A k \in pass[w].told : \E i \in Job : /\ Reached(w, i)' /\ job'[i].status \notin Pending
                                             /\ job'[i].appt = k.appt /\ job'[i].due = k.due
  BY <1>3
<1> QED BY <1>4, <1>5

LEMMA HandsStay ==
  ASSUME IInv, RowsMove, now' \in Nat, now <= now', NEW w \in Worker, HandsOK(w),
         pass'[w].cursor = pass[w].cursor, pass'[w].at = pass[w].at,
         Held(w)' \subseteq Held(w), pass'[w].told \subseteq pass[w].told
  PROVE  HandsOK(w)'
BY HandsMove DEF HandsOK

\* A pass with nothing in its hands that told nothing.
LEMMA EmptyHands ==
  ASSUME NEW w \in Worker, pass'[w].page = {}, pass'[w].group = {}, pass'[w].told = {},
         pass'[w].pc # "pushed"
  PROVE  HandsOK(w)' /\ GroupsOK(w)'
BY DEF HandsOK, GroupsOK, Held

LEMMA GroupsRest ==
  ASSUME NEW w \in Worker, GroupsOK(w), pass'[w].pc = pass[w].pc, pass'[w].page = pass[w].page,
         pass'[w].group = pass[w].group, pass'[w].told = pass[w].told
  PROVE  GroupsOK(w)'
BY DEF GroupsOK, Key, Of

LEMMA GroupsEnd ==
  ASSUME NEW w \in Worker, GroupsOK(w), pass'[w].page \subseteq pass[w].page,
         pass'[w].told = pass[w].told, pass'[w].group = {}, pass'[w].pc # "pushed"
  PROVE  GroupsOK(w)'
BY DEF GroupsOK, Key

\* The first group of the page is taken up, or what is left of it.
LEMMA GroupsFront ==
  ASSUME IInv, NEW w \in Worker, GroupsOK(w), HasGroup(w),
         pass'[w].page = pass[w].page \ Front(w), pass'[w].group \subseteq Front(w),
         pass'[w].told = pass[w].told, pass'[w].pc \in {"pushed", "whatsapp", "send"},
         pass'[w].pc = "pushed" => Of(pass'[w].group, "PUSH") # {}
  PROVE  GroupsOK(w)'
<1> DEFINE F == First(pass[w].page)
<1>1. Front(w) = {x \in pass[w].page : x.appt = F.appt /\ x.due = F.due}
  BY DEF Front
<1> HIDE DEF F
<1>2. \A x, y \in Front(w) : Key(x) = Key(y)
  BY <1>1 DEF Key
<1>3. ASSUME NEW x \in Front(w), NEW y \in pass[w].page \ Front(w), Key(x) = Key(y) PROVE FALSE
  <2>1. Key(x).appt = x.appt /\ Key(x).due = x.due /\ Key(y).appt = y.appt /\ Key(y).due = y.due
    BY DEF Key
  <2>2. x.appt = y.appt /\ x.due = y.due
    BY <1>3, <2>1
  <2> QED BY <1>1, <2>2
<1>4. \A x \in pass[w].page : x.channel = "WHATSAPP" => Key(x) \notin pass[w].told
  BY DEF GroupsOK
<1>5. Front(w) \subseteq pass[w].page
  BY <1>1
<1>6. \A x \in pass'[w].group, y \in pass'[w].page : Key(x) # Key(y)
  BY <1>3
<1> QED BY <1>2, <1>4, <1>5, <1>6 DEF GroupsOK, Key, Of

\* The push is out: what is left of its group.
LEMMA GroupsPushed ==
  ASSUME NEW w \in Worker, GroupsOK(w), At(w, "pushed"),
         pass'[w].page = pass[w].page \ pass[w].group,
         pass'[w].group = Of(pass[w].group, "WHATSAPP"),
         \/ pass'[w].told = pass[w].told /\ pass'[w].pc \in {"send", "whatsapp"}
         \/ pass'[w].told = Told(w) /\ pass'[w].pc \in {"send", "later"}
  PROVE  GroupsOK(w)'
<1>1. pass'[w].page \subseteq pass[w].page /\ pass'[w].group \subseteq pass[w].group
      /\ \A x \in pass'[w].group : x.channel = "WHATSAPP"
  BY DEF Of
<1>2. \A x \in pass'[w].page : x.channel = "WHATSAPP" => Key(x) \notin pass'[w].told
  <2> SUFFICES ASSUME NEW y \in pass[w].page, y.channel = "WHATSAPP", Key(y) \in pass'[w].told
               PROVE  FALSE
    BY <1>1
  <2>1. Key(y) \notin pass[w].told
    BY DEF GroupsOK
  <2>2. PICK x \in pass[w].group : Key(y) = Key(x)
    BY <2>1 DEF Told, Key
  <2> QED BY <2>2 DEF GroupsOK
<1>3. pass'[w].pc = "whatsapp" =>
        \A x \in pass'[w].group : x.channel = "WHATSAPP" => Key(x) \notin pass'[w].told
  BY <1>1 DEF GroupsOK, At
<1> QED BY <1>1, <1>2, <1>3 DEF GroupsOK, Key

\* A step of one pass leaves the others as they are.
LEMMA ApartStays ==
  ASSUME IInv, Apart, RowsMove, TableOK', NEW w \in Worker, OthersRest(w), now' = now,
         HandsOK(w)', GroupsOK(w)'
  PROVE  Apart'
<1>1. now' \in Nat /\ now <= now'
  BY DEF IInv, TypeOK
<1>2. ASSUME NEW v \in Worker, v # w PROVE HandsOK(v)' /\ GroupsOK(v)'
  <2>1. pass'[v] = pass[v] /\ HandsOK(v) /\ GroupsOK(v)
    BY <1>2 DEF OthersRest, Apart
  <2>2. Held(v)' = Held(v)
    BY <2>1 DEF Held
  <2> QED BY <1>1, <2>1, <2>2, HandsStay, GroupsRest
<1>3. \A v \in Worker : HandsOK(v)' /\ GroupsOK(v)'
  BY <1>2
<1> QED BY <1>3 DEF Apart

-----------------------------------------------------------------------------
(* The steps of a pass keep push and WhatsApp apart.                       *)

LEMMA GotoThere ==
  ASSUME TypeOK, TypeOK', NEW w \in Worker, NEW q, Goto(w, q)
  PROVE  OthersRest(w) /\ pass'[w] = q
BY DEF Goto, TypeOK, OthersRest

LEMMA PassApart ==
  ASSUME IInv, Apart, TypeOK', RowsMove, TableOK', NEW w \in Worker, NEW q, Goto(w, q),
         now' = now, q.cursor = pass[w].cursor, q.at = pass[w].at,
         q.page \cup q.group \subseteq Held(w), q.told = pass[w].told, GroupsOK(w)'
  PROVE  Apart'
<1>1. OthersRest(w) /\ pass'[w] = q
  BY GotoThere DEF IInv
<1>2. now' \in Nat /\ now <= now'
  BY DEF IInv, TypeOK
<1>3. HandsOK(w)'
  <2>1. Held(w)' \subseteq Held(w)
    BY <1>1 DEF Held
  <2>2. HandsOK(w)
    BY DEF Apart
  <2> QED BY <1>1, <1>2, <2>1, <2>2, HandsStay
<1> QED BY <1>1, <1>3, ApartStays

\* A query of a pass that ends rows.
LEMMA MarkedRows ==
  ASSUME IInv, Apart, NEW w \in Worker, NEW G, G \subseteq Held(w),
         NEW status, status \in {"SENT", "FAILED", "SKIPPED"},
         NEW error, error \in {"none", "appointment_rescheduled"},
         Mark(Ids(G), status, error)
  PROVE  RowsMove /\ TableOK' /\ \A j \in Ids(G) : Ended(j)
<1>1. /\ job' \in [Job -> JobRow]
      /\ \A j \in Job : Kept(j) \/ Ended(j)
      /\ \A j \in Ids(G) : Ended(j)
      /\ \A j \in Job : job[j].status = "PENDING" /\ job[j].due > now => Kept(j)
  BY MarkHeld
<1> QED BY <1>1, EndsMove, TableEnds DEF IInv, Apart

LEMMA UnmarkedRows ==
  ASSUME IInv, Apart, UNCHANGED job
  PROVE  RowsMove /\ TableOK'
BY NothingMoves, TableEnds DEF IInv, Apart

LEMMA SkipLateApart ==
  ASSUME IInv, Apart, TypeOK', NEW w \in Worker, SkipLate(w) PROVE Apart'
<1> DEFINE q == [pass[w] EXCEPT !.pc = "page"]
<1>1. /\ pass[w].pc = "clean" /\ TypeOK /\ PassShape(w) /\ pass[w] \in Pass
      /\ Goto(w, q) /\ now' = now
      /\ job' = [j \in Job |-> IF job[j].status \in Pending /\ job[j].due < pass[w].at - Grace
                               THEN [job[j] EXCEPT !.status = "SKIPPED", !.error = "none"]
                               ELSE job[j]]
  BY HeldRows DEF SkipLate, At, IInv, PassesOK
<1>2. /\ q.pc = "page" /\ q.page = {} /\ q.group = {} /\ q.at = pass[w].at
      /\ q.cursor = pass[w].cursor /\ q.told = pass[w].told
  BY <1>1 DEF Pass, PassShape
<1> HIDE DEF q
<1>3. \A j \in Job : Kept(j) \/ Ended(j)
  <2> SUFFICES ASSUME NEW j \in Job PROVE Kept(j) \/ Ended(j)
    OBVIOUS
  <2>1. job[j] \in JobRow
    BY <1>1 DEF TypeOK
  <2>2. CASE job[j].status \in Pending /\ job[j].due < pass[w].at - Grace
    <3>1. job'[j] = [job[j] EXCEPT !.status = "SKIPPED", !.error = "none"]
      BY <1>1, <2>2
    <3> QED BY <2>1, <2>2, <3>1 DEF Ended, Pending, JobRow
  <2>3. CASE ~ (job[j].status \in Pending /\ job[j].due < pass[w].at - Grace)
    BY <1>1, <2>3 DEF Kept
  <2> QED BY <2>2, <2>3
<1>4. RowsMove /\ TableOK'
  <2>1. job' \in [Job -> JobRow]
    BY DEF TypeOK
  <2> QED BY <1>3, <2>1, EndsMove, TableEnds DEF IInv, Apart
<1>5. GroupsOK(w)'
  BY <1>1, <1>2, GotoThere, GroupsEnd DEF Apart
<1> QED BY <1>1, <1>2, <1>4, <1>5, PassApart

LEMMA SkipGroupApart ==
  ASSUME IInv, Apart, TypeOK', NEW w \in Worker, SkipGroup(w) PROVE Apart'
<1> DEFINE q == [pass[w] EXCEPT !.page = pass[w].page \ Front(w)]
<1>1. HasGroup(w) /\ TypeOK /\ pass[w] \in Pass /\ Goto(w, q) /\ now' = now
  BY HeldRows DEF SkipGroup, IInv, OnlyJobs
<1>2. pass[w].pc = "send" /\ pass[w].group = {} /\ Front(w) \subseteq Held(w)
  BY <1>1, FrontHeld
<1>3. /\ q.pc = "send" /\ q.page = pass[w].page \ Front(w) /\ q.group = {}
      /\ q.at = pass[w].at /\ q.cursor = pass[w].cursor /\ q.told = pass[w].told
  BY <1>1, <1>2 DEF Pass
<1> HIDE DEF q
<1>4. PICK error \in {"none", "appointment_rescheduled"} : Mark(Ids(Front(w)), "SKIPPED", error)
  BY DEF SkipGroup
<1>5. RowsMove /\ TableOK'
  BY <1>2, <1>4, MarkedRows
<1>6. GroupsOK(w)'
  BY <1>1, <1>3, GotoThere, GroupsEnd DEF Apart
<1> QED BY <1>1, <1>3, <1>5, <1>6, PassApart DEF Held

LEMMA SendPushApart ==
  ASSUME IInv, Apart, TypeOK', NEW w \in Worker, SendPush(w) PROVE Apart'
<1> DEFINE q == [pass[w] EXCEPT !.pc = "pushed", !.page = pass[w].page \ Front(w),
                                !.group = Front(w)]
<1>1. /\ HasGroup(w) /\ TypeOK /\ pass[w] \in Pass /\ Goto(w, q) /\ now' = now /\ UNCHANGED job
      /\ Of(Front(w), "PUSH") # {}
  BY HeldRows DEF SendPush, Send, IInv, OnlySent
<1>2. pass[w].pc = "send" /\ pass[w].group = {} /\ Front(w) \subseteq pass[w].page
  BY <1>1, FrontHeld
<1>3. /\ q.pc = "pushed" /\ q.page = pass[w].page \ Front(w) /\ q.group = Front(w)
      /\ q.at = pass[w].at /\ q.cursor = pass[w].cursor /\ q.told = pass[w].told
  BY <1>1 DEF Pass
<1> HIDE DEF q
<1>4. RowsMove /\ TableOK'
  BY <1>1, UnmarkedRows
<1>5. pass'[w] = q /\ GroupsOK(w)
  BY <1>1, GotoThere DEF Apart
<1>6. GroupsOK(w)'
  BY <1>1, <1>3, <1>5, GroupsFront
<1> QED BY <1>1, <1>2, <1>3, <1>4, <1>6, PassApart DEF Held

LEMMA NoTokenApart ==
  ASSUME IInv, Apart, TypeOK', NEW w \in Worker, NoToken(w) PROVE Apart'
<1> DEFINE G == Front(w)
           q == AfterPush(w, G, "whatsapp")
<1>1. /\ HasGroup(w) /\ TypeOK /\ pass[w] \in Pass /\ Goto(w, q) /\ now' = now
      /\ Mark(Ids(Of(G, "PUSH")), "SKIPPED", "none")
  BY HeldRows DEF NoToken, Send, IInv, OnlyJobs
<1>2. G \subseteq pass[w].page /\ Of(G, "PUSH") \subseteq Held(w) /\ Of(G, "WHATSAPP") \subseteq G
  BY <1>1, FrontHeld DEF Of
<1>3. /\ q.page = pass[w].page \ G /\ q.group = Of(G, "WHATSAPP")
      /\ q.pc \in {"send", "whatsapp"}
      /\ q.at = pass[w].at /\ q.cursor = pass[w].cursor /\ q.told = pass[w].told
  BY <1>1 DEF AfterPush, Pass
<1>4. RowsMove /\ TableOK'
  <2> HIDE DEF G
  <2> QED BY <1>1, <1>2, MarkedRows
<1> HIDE DEF q
<1>5. pass'[w] = q /\ GroupsOK(w)
  BY <1>1, GotoThere DEF Apart
<1>6. GroupsOK(w)'
  BY <1>1, <1>2, <1>3, <1>5, GroupsFront
<1> QED BY <1>1, <1>2, <1>3, <1>4, <1>6, PassApart DEF Held

LEMMA FailPushApart ==
  ASSUME IInv, Apart, TypeOK', NEW w \in Worker, FailPush(w) PROVE Apart'
<1> DEFINE G == pass[w].group
           q == AfterPush(w, G, "whatsapp")
<1>1. /\ At(w, "pushed") /\ TypeOK /\ pass[w] \in Pass /\ Goto(w, q) /\ now' = now
      /\ Mark(Ids(Of(G, "PUSH")), "FAILED", "none")
  BY HeldRows DEF FailPush, IInv, OnlyJobs
<1>2. Of(G, "PUSH") \subseteq Held(w) /\ Of(G, "WHATSAPP") \subseteq G
  BY DEF Of, Held
<1>3. /\ q.page = pass[w].page \ G /\ q.group = Of(G, "WHATSAPP")
      /\ q.pc \in {"send", "whatsapp"}
      /\ q.at = pass[w].at /\ q.cursor = pass[w].cursor /\ q.told = pass[w].told
  BY <1>1 DEF AfterPush, Pass
<1>4. RowsMove /\ TableOK'
  <2> HIDE DEF G
  <2> QED BY <1>1, <1>2, MarkedRows
<1> HIDE DEF q
<1>5. pass'[w] = q /\ GroupsOK(w)
  BY <1>1, GotoThere DEF Apart
<1>6. GroupsOK(w)'
  BY <1>1, <1>3, <1>5, GroupsPushed
<1> QED BY <1>1, <1>2, <1>3, <1>4, <1>6, PassApart DEF Held

LEMMA PickWhatsAppApart ==
  ASSUME IInv, Apart, TypeOK', NEW w \in Worker, PickWhatsApp(w) PROVE Apart'
<1> DEFINE q == [pass[w] EXCEPT !.pc = "whatsapp", !.page = pass[w].page \ Front(w),
                                !.group = Front(w)]
<1>1. HasGroup(w) /\ TypeOK /\ pass[w] \in Pass /\ Goto(w, q) /\ now' = now /\ UNCHANGED job
  BY HeldRows DEF PickWhatsApp, Send, IInv, table
<1>2. Front(w) \subseteq pass[w].page
  BY <1>1, FrontHeld
<1>3. /\ q.pc = "whatsapp" /\ q.page = pass[w].page \ Front(w) /\ q.group = Front(w)
      /\ q.at = pass[w].at /\ q.cursor = pass[w].cursor /\ q.told = pass[w].told
  BY <1>1 DEF Pass
<1> HIDE DEF q
<1>4. RowsMove /\ TableOK'
  BY <1>1, UnmarkedRows
<1>5. pass'[w] = q /\ GroupsOK(w)
  BY <1>1, GotoThere DEF Apart
<1>6. GroupsOK(w)'
  BY <1>1, <1>3, <1>5, GroupsFront
<1> QED BY <1>1, <1>2, <1>3, <1>4, <1>6, PassApart DEF Held

LEMMA SendWhatsAppApart ==
  ASSUME IInv, Apart, TypeOK', NEW w \in Worker, SendWhatsApp(w) PROVE Apart'
<1> DEFINE q == [pass[w] EXCEPT !.pc = "sent"]
<1>1. TypeOK /\ pass[w] \in Pass /\ Goto(w, q) /\ now' = now /\ UNCHANGED job
  BY HeldRows DEF SendWhatsApp, IInv, OnlySent
<1>2. /\ q.pc = "sent" /\ q.page = pass[w].page /\ q.group = pass[w].group
      /\ q.at = pass[w].at /\ q.cursor = pass[w].cursor /\ q.told = pass[w].told
  BY <1>1 DEF Pass
<1> HIDE DEF q
<1>3. RowsMove /\ TableOK'
  BY <1>1, UnmarkedRows
<1>4. pass'[w] = q /\ GroupsOK(w)
  BY <1>1, GotoThere DEF Apart
<1>5. GroupsOK(w)'
  BY <1>2, <1>4 DEF GroupsOK, Key
<1> QED BY <1>1, <1>2, <1>3, <1>5, PassApart DEF Held

\* The group is done with, its rows ended.
LEMMA GroupDoneApart ==
  ASSUME IInv, Apart, TypeOK', NEW w \in Worker, NEW status \in {"SENT", "FAILED", "SKIPPED"},
         Mark(Ids(pass[w].group), status, "none"), now' = now,
         Goto(w, [pass[w] EXCEPT !.pc = "send", !.group = {}])
  PROVE  Apart'
<1> DEFINE q == [pass[w] EXCEPT !.pc = "send", !.group = {}]
<1>1. TypeOK /\ pass[w] \in Pass /\ Goto(w, q)
  BY HeldRows DEF IInv
<1>2. /\ q.pc = "send" /\ q.page = pass[w].page /\ q.group = {}
      /\ q.at = pass[w].at /\ q.cursor = pass[w].cursor /\ q.told = pass[w].told
  BY <1>1 DEF Pass
<1> HIDE DEF q
<1>3. RowsMove /\ TableOK'
  BY MarkedRows DEF Held
<1>4. pass'[w] = q /\ GroupsOK(w)
  BY <1>1, GotoThere DEF Apart
<1>5. GroupsOK(w)'
  BY <1>2, <1>4, GroupsEnd
<1> QED BY <1>1, <1>2, <1>3, <1>5, PassApart DEF Held

LEMMA EndPageApart ==
  ASSUME IInv, Apart, TypeOK', NEW w \in Worker, EndPage(w) PROVE Apart'
<1> DEFINE pc == IF pass[w].full THEN "page" ELSE "release"
           q == [pass[w] EXCEPT !.pc = pc]
<1>1. /\ TypeOK /\ pass[w] \in Pass /\ Goto(w, q) /\ now' = now /\ UNCHANGED job
      /\ pass[w].page = {} /\ pass[w].group = {}
  BY HeldRows DEF EndPage, At, IInv, PassesOK, PassShape, table
<1>2. /\ q.pc # "pushed" /\ q.page = {} /\ q.group = {}
      /\ q.at = pass[w].at /\ q.cursor = pass[w].cursor /\ q.told = pass[w].told
  BY <1>1 DEF Pass
<1> HIDE DEF q
<1>3. RowsMove /\ TableOK'
  BY <1>1, UnmarkedRows
<1>4. pass'[w] = q /\ GroupsOK(w)
  BY <1>1, GotoThere DEF Apart
<1>5. GroupsOK(w)'
  BY <1>2, <1>4, GroupsEnd
<1> QED BY <1>1, <1>2, <1>3, <1>5, PassApart

LEMMA NoPhoneApart ==
  ASSUME IInv, Apart, TypeOK', NEW w \in Worker, NoPhone(w) PROVE Apart'
BY GroupDoneApart DEF NoPhone, OnlyJobs

LEMMA MarkWhatsAppApart ==
  ASSUME IInv, Apart, TypeOK', NEW w \in Worker, MarkWhatsApp(w) PROVE Apart'
<1>1. PICK status \in {"SENT", "FAILED"} : Mark(Ids(pass[w].group), status, "none")
  BY DEF MarkWhatsApp
<1> QED BY <1>1, GroupDoneApart DEF MarkWhatsApp, OnlyJobs

\* What a pass told is the instant of a push that ended.
LEMMA MarkPushApart ==
  ASSUME IInv, Apart, TypeOK', NEW w \in Worker, MarkPush(w) PROVE Apart'
<1> DEFINE G == pass[w].group
           q == [AfterPush(w, G, "later") EXCEPT !.told = Told(w)]
<1>1. /\ At(w, "pushed") /\ TypeOK /\ pass[w] \in Pass /\ Goto(w, q) /\ now' = now
      /\ Mark(Ids(Of(G, "PUSH")), "SENT", "none")
  BY HeldRows DEF MarkPush, IInv, OnlyJobs
<1>2. Of(G, "PUSH") \subseteq Held(w) /\ Of(G, "WHATSAPP") \subseteq G /\ G \subseteq Held(w)
  BY DEF Of, Held
<1>3. /\ q.page = pass[w].page \ G /\ q.group = Of(G, "WHATSAPP")
      /\ q.pc \in {"send", "later"} /\ q.told = Told(w)
      /\ q.at = pass[w].at /\ q.cursor = pass[w].cursor
  BY <1>1 DEF AfterPush, Pass
<1>4. RowsMove /\ TableOK' /\ \A j \in Ids(Of(G, "PUSH")) : Ended(j)
  <2> HIDE DEF G
  <2> QED BY <1>1, <1>2, MarkedRows
<1> HIDE DEF q
<1>5. pass'[w] = q /\ OthersRest(w) /\ GroupsOK(w) /\ HandsOK(w)
  BY <1>1, GotoThere DEF Apart
<1>6. GroupsOK(w)'
  BY <1>1, <1>3, <1>5, GroupsPushed
<1>7. /\ \A x \in Held(w) : /\ job'[x.id].channel = x.channel
                            /\ job'[x.id].due <= Stagger + now'
                            /\ x.channel = "PUSH" => Reached(w, x.id)' /\ job'[x.id].due = x.due
      /\ \A k \in pass[w].told : \E i \in Job :
           /\ Reached(w, i)' /\ job'[i].status \notin Pending
           /\ job'[i].appt = k.appt /\ job'[i].due = k.due
  <2>1. now' \in Nat /\ now <= now'
    BY <1>1 DEF TypeOK
  <2> QED BY <1>3, <1>4, <1>5, <2>1, HandsMove
<1>8. PICK x \in G : x.channel = "PUSH"
  BY <1>1, <1>5 DEF GroupsOK, At, Of
<1>9. x.id \in Job /\ job[x.id].appt = x.appt
  BY <1>2, HeldCopies
<1>10. Ended(x.id)
  BY <1>4, <1>8 DEF Ids, Of
<1>11. /\ Reached(w, x.id)' /\ job'[x.id].status \notin Pending
       /\ job'[x.id].appt = x.appt /\ job'[x.id].due = x.due
  BY <1>2, <1>7, <1>8, <1>9, <1>10 DEF Ended
<1>12. \A y \in G : y.appt = x.appt /\ y.due = x.due
  <2>1. \A y \in G : Key(y) = Key(x)
    BY <1>5 DEF GroupsOK
  <2>2. \A y : Key(y).appt = y.appt /\ Key(y).due = y.due
    BY DEF Key
  <2> QED BY <2>1, <2>2
<1>13. \A k \in Told(w) : k \in pass[w].told \/ (k.appt = x.appt /\ k.due = x.due)
  BY <1>12 DEF Told
<1>14. \A k \in pass'[w].told : \E i \in Job :
         /\ Reached(w, i)' /\ job'[i].status \notin Pending
         /\ job'[i].appt = k.appt /\ job'[i].due = k.due
  <2> SUFFICES ASSUME NEW k \in Told(w)
               PROVE  \E i \in Job : /\ Reached(w, i)' /\ job'[i].status \notin Pending
                                     /\ job'[i].appt = k.appt /\ job'[i].due = k.due
    BY <1>3, <1>5
  <2>1. CASE k \in pass[w].told
    BY <1>7, <2>1
  <2>2. CASE k.appt = x.appt /\ k.due = x.due
    BY <1>9, <1>11, <2>2
  <2> QED BY <1>13, <2>1, <2>2
<1>15. Held(w)' \subseteq Held(w)
  BY <1>2, <1>3, <1>5 DEF Held
<1>16. HandsOK(w)'
  BY <1>7, <1>14, <1>15 DEF HandsOK
<1> QED BY <1>1, <1>4, <1>5, <1>6, <1>16, ApartStays

\* A WhatsApp is put off to an instant that is still ahead.
LEMMA ScheduleLaterApart ==
  ASSUME IInv, Apart, TypeOK', NEW w \in Worker, ScheduleLater(w) PROVE Apart'
<1>1. /\ pass[w].pc = "later" /\ TypeOK /\ pass[w] \in Pass /\ now' = now
      /\ Goto(w, [pass[w] EXCEPT !.pc = "send", !.group = {}])
  BY HeldRows DEF ScheduleLater, At, IInv, OnlyJobs
<1>2. PICK x \in pass[w].group :
        LET due == Stagger + Latest(now, x.due)
        IN  /\ ~ Taken(x.appt, [channel |-> x.channel, due |-> due])
            /\ job' = [job EXCEPT ![x.id].status = "SCHEDULED", ![x.id].due = due]
  BY DEF ScheduleLater
<1>3. /\ x \in Held(w) /\ x.id \in Job /\ job[x.id].status # "NONE" /\ job[x.id].appt = x.appt
      /\ x.due <= now /\ now \in Nat /\ x.due \in Nat
  <2>1. x \in Held(w)
    BY DEF Held
  <2>2. /\ x.id \in Job /\ job[x.id].status # "NONE" /\ job[x.id].appt = x.appt
        /\ x.due <= pass[w].at /\ pass[w].at <= now
        /\ now \in Nat /\ pass[w].at \in Nat /\ x.due \in Nat
    BY <2>1, HeldCopies
  <2> QED BY <2>1, <2>2
<1>4. /\ x.channel = "WHATSAPP" /\ job[x.id].channel = "WHATSAPP"
      /\ job[x.id].due <= Stagger + now
  BY <1>1, <1>3 DEF Apart, GroupsOK, HandsOK
<1> DEFINE due == Stagger + now
<1>5. Latest(now, x.due) = now
  BY <1>3 DEF Latest
<1>6. /\ ~ Taken(x.appt, [channel |-> x.channel, due |-> due])
      /\ job' = [job EXCEPT ![x.id].status = "SCHEDULED", ![x.id].due = due]
  BY <1>2, <1>5
<1>7. due \in Nat /\ now < due
  BY <1>3, NumberAssumption
<1>8. job[x.id] \in JobRow
  BY <1>1, <1>3 DEF TypeOK
<1> HIDE DEF due
<1>9. job'[x.id] = [job[x.id] EXCEPT !.status = "SCHEDULED", !.due = due]
      /\ \A j \in Job \ {x.id} : job'[j] = job[j]
  <2>1. job = [j \in Job |-> job[j]]
    BY <1>1 DEF TypeOK
  <2> DEFINE r == [job[x.id] EXCEPT !.status = "SCHEDULED"]
             t == [job EXCEPT ![x.id].status = "SCHEDULED"]
  <2>2. t = [job EXCEPT ![x.id] = r]
    OBVIOUS
  <2>3. job' = [t EXCEPT ![x.id] = [t[x.id] EXCEPT !.due = due]]
    BY <1>6
  <2>4. t[x.id] = r /\ \A j \in Job \ {x.id} : t[j] = job[j]
    BY <1>3, <2>1, <2>2
  <2>5. [r EXCEPT !.due = due] = [job[x.id] EXCEPT !.status = "SCHEDULED", !.due = due]
    OBVIOUS
  <2>6. t = [j \in Job |-> t[j]]
    BY <2>1, <2>2
  <2> HIDE DEF t, r
  <2>7. job'[x.id] = [r EXCEPT !.due = due] /\ \A j \in Job \ {x.id} : job'[j] = job[j]
    BY <1>3, <2>3, <2>4, <2>6
  <2> QED BY <2>5, <2>7
<1>10. /\ job'[x.id].status = "SCHEDULED" /\ job'[x.id].due = due
       /\ job'[x.id].appt = job[x.id].appt /\ job'[x.id].channel = job[x.id].channel
  BY <1>8, <1>9 DEF JobRow
<1>11. Later(x.id)
  <2>1. job[x.id].due <= due /\ due <= Stagger + now
    BY <1>3, <1>4, <1>7, NumberAssumption DEF due
  <2> QED BY <1>3, <1>4, <1>7, <1>10, <2>1 DEF Later
<1>12. \A j \in Job \ {x.id} : Kept(j)
  BY <1>9 DEF Kept
<1>13. RowsMove
  BY <1>11, <1>12 DEF RowsMove, TypeOK
<1>14. TableOK'
  <2>1. ~ Taken(job[x.id].appt, [channel |-> job[x.id].channel, due |-> job'[x.id].due])
    BY <1>3, <1>4, <1>6, <1>10
  <2>2. RowsOK /\ TableOK
    BY DEF IInv, Apart
  <2> QED BY <1>1, <1>3, <1>11, <1>12, <2>1, <2>2, TableLater
<1> DEFINE q == [pass[w] EXCEPT !.pc = "send", !.group = {}]
<1>15. /\ q.pc = "send" /\ q.page = pass[w].page /\ q.group = {}
       /\ q.at = pass[w].at /\ q.cursor = pass[w].cursor /\ q.told = pass[w].told
  BY <1>1 DEF Pass
<1>16. Goto(w, q)
  BY <1>1
<1> HIDE DEF q
<1>17. pass'[w] = q /\ GroupsOK(w)
  BY <1>1, <1>16, GotoThere DEF Apart
<1>18. GroupsOK(w)'
  BY <1>15, <1>17, GroupsEnd
<1> QED BY <1>1, <1>13, <1>14, <1>15, <1>16, <1>18, PassApart DEF Held

\* A pass that begins, or ends.
LEMMA LeavesApart ==
  ASSUME IInv, Apart, TypeOK', NEW w \in Worker, NEW q, Goto(w, q),
         q.page = {}, q.group = {}, q.told = {}, q.pc # "pushed", UNCHANGED <<job, now>>
  PROVE  Apart'
<1>1. OthersRest(w) /\ pass'[w] = q
  BY GotoThere DEF IInv
<1>2. RowsMove /\ TableOK'
  BY UnmarkedRows
<1>3. HandsOK(w)' /\ GroupsOK(w)'
  BY <1>1, EmptyHands
<1> QED BY <1>1, <1>2, <1>3, ApartStays

LEMMA FailApart ==
  ASSUME IInv, Apart, TypeOK', NEW w \in Worker, Fail(w) PROVE Apart'
<1> DEFINE q == [Idle EXCEPT !.pc = "release"]
<1>1. Goto(w, q) /\ UNCHANGED <<job, now>>
  BY DEF Fail
<1>2. q.page = {} /\ q.group = {} /\ q.told = {} /\ q.pc # "pushed"
  BY DEF Idle
<1> QED BY <1>1, <1>2, LeavesApart

LEMMA IdleApart ==
  ASSUME IInv, Apart, TypeOK', NEW w \in Worker, Goto(w, Idle), UNCHANGED <<job, now>>
  PROVE  Apart'
<1>1. Idle.page = {} /\ Idle.group = {} /\ Idle.told = {} /\ Idle.pc # "pushed"
  BY DEF Idle
<1> QED BY <1>1, LeavesApart

LEMMA CrashApart ==
  ASSUME IInv, Apart, TypeOK', NEW w \in Worker, Crash(w) PROVE Apart'
BY IdleApart DEF Crash

LEMMA EndPassApart ==
  ASSUME IInv, Apart, TypeOK', NEW w \in Worker, EndPass(w) PROVE Apart'
BY IdleApart DEF EndPass, table

\* Nothing happened that a pass or the table would notice.
LEMMA RestsApart ==
  ASSUME IInv, Apart, now' \in Nat, now <= now', RowsMove, TableOK',
         \A w \in Worker : /\ pass'[w].pc = pass[w].pc /\ pass'[w].at = pass[w].at
                           /\ pass'[w].cursor = pass[w].cursor /\ pass'[w].told = pass[w].told
                           /\ pass'[w].page = pass[w].page /\ pass'[w].group = pass[w].group
  PROVE  Apart'
<1>1. ASSUME NEW w \in Worker PROVE HandsOK(w)' /\ GroupsOK(w)'
  <2>1. HandsOK(w) /\ GroupsOK(w)
    BY DEF Apart
  <2>2. Held(w)' = Held(w)
    BY DEF Held
  <2>3. HandsOK(w)'
    BY <2>1, <2>2, HandsStay
  <2>4. GroupsOK(w)'
    BY <2>1, GroupsRest
  <2> QED BY <2>3, <2>4
<1>2. \A w \in Worker : HandsOK(w)' /\ GroupsOK(w)'
  BY <1>1
<1> QED BY <1>2 DEF Apart

LEMMA BeginApart ==
  ASSUME IInv, Apart, TypeOK', NEW w \in Worker, Begin(w) PROVE Apart'
<1> DEFINE q == [Idle EXCEPT !.pc = "clean", !.at = now]
<1>1. UNCHANGED <<job, now>> /\ (UNCHANGED pass \/ Goto(w, q))
  BY DEF Begin, table
<1>2. q.page = {} /\ q.group = {} /\ q.told = {} /\ q.pc # "pushed"
  BY DEF Idle
<1> HIDE DEF q
<1>3. CASE Goto(w, q)
  BY <1>1, <1>2, <1>3, LeavesApart
<1>4. CASE UNCHANGED pass
  <2>1. RowsMove /\ TableOK' /\ now' \in Nat /\ now <= now'
    BY <1>1, UnmarkedRows DEF IInv, TypeOK
  <2> QED BY <1>4, <2>1, RestsApart
<1> QED BY <1>1, <1>3, <1>4

LEMMA TickApart ==
  ASSUME IInv, Apart, Tick PROVE Apart'
<1>1. now \in Nat /\ now' = now + 1 /\ UNCHANGED <<job, pass>>
  BY DEF Tick, IInv, TypeOK
<1>2. RowsMove /\ TableOK' /\ now' \in Nat /\ now <= now'
  BY <1>1, UnmarkedRows
<1> QED BY <1>1, <1>2, RestsApart

-----------------------------------------------------------------------------
(* The transactions keep push and WhatsApp apart.                          *)

LEMMA DirtyGoesOn ==
  ASSUME TypeOK, NEW a \in Appt, Dirty(a)
  PROVE  \A w \in Worker :
           /\ pass'[w].pc = pass[w].pc /\ pass'[w].at = pass[w].at
           /\ pass'[w].cursor = pass[w].cursor /\ pass'[w].told = pass[w].told
           /\ pass'[w].page = pass[w].page /\ pass'[w].group = pass[w].group
<1> SUFFICES ASSUME NEW w \in Worker
             PROVE  /\ pass'[w].pc = pass[w].pc /\ pass'[w].at = pass[w].at
                    /\ pass'[w].cursor = pass[w].cursor /\ pass'[w].told = pass[w].told
                    /\ pass'[w].page = pass[w].page /\ pass'[w].group = pass[w].group
  OBVIOUS
<1>1. pass[w] \in Pass
  BY DEF TypeOK
<1>2. pass'[w] = pass[w] \/ pass'[w] = [pass[w] EXCEPT !.dirty = pass[w].dirty \cup {a}]
  BY DEF Dirty
<1> QED BY <1>1, <1>2 DEF Pass

LEMMA BookApart ==
  ASSUME IInv, Apart, NEW a \in Appt, Book(a) PROVE Apart'
<1>1. PICK s \in Start : job' \in Created(job, a, Ahead(s))
  BY DEF Book
<1>2. /\ TypeOK /\ RowsOK /\ TableOK /\ ~ appt[a].exists /\ UNCHANGED <<now, pass>>
      /\ now' \in Nat /\ now <= now' /\ job \in [Job -> JobRow]
  BY DEF Book, IInv, Apart, TypeOK
<1>3. \A j \in Job : job[j].appt = a => job[j].status \notin Pending
  BY <1>2, NoneAssumption DEF RowsOK
<1>4. RowsMove /\ TableOK'
  BY <1>1, <1>2, <1>3, TableMade
<1> QED BY <1>2, <1>4, RestsApart

LEMMA MoveApart ==
  ASSUME IInv, Apart, NEW a \in Appt, NEW active, Rescheduled(a, active), Dirty(a), now' = now
  PROVE  Apart'
<1> DEFINE T == Canceled(a, "appointment_rescheduled")
<1>1. PICK s \in Start : job' \in Created(T, a, Ahead(s))
  BY DEF Rescheduled
<1>2. /\ TypeOK /\ RowsOK /\ TableOK /\ now' \in Nat /\ now <= now'
  BY DEF IInv, Apart, TypeOK
<1>3. /\ T \in [Job -> JobRow]
      /\ \A j \in Job :
           \/ T[j] = job[j]
           \/ /\ job[j].status \in Pending /\ job[j].appt = a
              /\ T[j].status = "CANCELED"
              /\ T[j].appt = job[j].appt
              /\ T[j].channel = job[j].channel
              /\ T[j].due = job[j].due
  BY <1>2, CanceledRows
<1>4. \A j \in Job : job[j].appt = a => T[j].status \notin Pending
  <2> SUFFICES ASSUME NEW j \in Job, job[j].appt = a PROVE T[j].status \notin Pending
    OBVIOUS
  <2>1. job[j] \in JobRow
    BY <1>2 DEF TypeOK
  <2>2. CASE job[j].status \in Pending
    <3>1. T[j] = [job[j] EXCEPT !.status = "CANCELED", !.error = "appointment_rescheduled"]
      BY <2>2 DEF Canceled
    <3> QED BY <2>1, <3>1 DEF JobRow, Pending
  <2>3. CASE job[j].status \notin Pending
    BY <2>3 DEF Canceled
  <2> QED BY <2>2, <2>3
<1> HIDE DEF T
<1>5. RowsMove /\ TableOK'
  BY <1>1, <1>2, <1>3, <1>4, TableMade
<1>6. \A w \in Worker :
        /\ pass'[w].pc = pass[w].pc /\ pass'[w].at = pass[w].at
        /\ pass'[w].cursor = pass[w].cursor /\ pass'[w].told = pass[w].told
        /\ pass'[w].page = pass[w].page /\ pass'[w].group = pass[w].group
  BY <1>2, DirtyGoesOn
<1> QED BY <1>2, <1>5, <1>6, RestsApart

LEMMA CancelApart ==
  ASSUME IInv, Apart, NEW a \in Appt, Cancel(a) PROVE Apart'
<1> DEFINE T == Canceled(a, "none")
<1>1. job' = T /\ Dirty(a) /\ now' = now
  BY DEF Cancel
<1>2. /\ TypeOK /\ RowsOK /\ TableOK /\ now' \in Nat /\ now <= now'
  BY <1>1 DEF IInv, Apart, TypeOK
<1>3. /\ T \in [Job -> JobRow]
      /\ \A j \in Job :
           \/ T[j] = job[j]
           \/ /\ job[j].status \in Pending /\ job[j].appt = a
              /\ T[j].status = "CANCELED"
              /\ T[j].appt = job[j].appt
              /\ T[j].channel = job[j].channel
              /\ T[j].due = job[j].due
  BY <1>2, CanceledRows
<1> HIDE DEF T
<1>4. \A j \in Job : Kept(j) \/ Ended(j)
  BY <1>1, <1>3 DEF Kept, Ended, Pending
<1>5. RowsMove /\ TableOK'
  BY <1>1, <1>2, <1>3, <1>4, EndsMove, TableEnds
<1>6. \A w \in Worker :
        /\ pass'[w].pc = pass[w].pc /\ pass'[w].at = pass[w].at
        /\ pass'[w].cursor = pass[w].cursor /\ pass'[w].told = pass[w].told
        /\ pass'[w].page = pass[w].page /\ pass'[w].group = pass[w].group
  BY <1>1, <1>2, DirtyGoesOn
<1> QED BY <1>2, <1>5, <1>6, RestsApart

LEMMA ApiApart ==
  ASSUME IInv, Apart, NEW a \in Appt,
         Book(a) \/ ClientMove(a) \/ ReadStatus(a) \/ ProMove(a) \/ Confirm(a) \/ Cancel(a)
  PROVE  Apart'
<1>1. CASE Book(a)
  BY <1>1, BookApart
<1>2. CASE ClientMove(a)
  BY <1>2, MoveApart DEF ClientMove
<1>3. CASE ProMove(a)
  BY <1>3, MoveApart DEF ProMove
<1>4. CASE Cancel(a)
  BY <1>4, CancelApart
<1>5. CASE ReadStatus(a) \/ Confirm(a)
  <2>1. UNCHANGED <<job, pass, now>>
    BY <1>5 DEF ReadStatus, Confirm
  <2>2. now' \in Nat /\ now <= now'
    BY <2>1 DEF IInv, TypeOK
  <2> QED BY <2>1, <2>2, UnmarkedRows, RestsApart
<1> QED BY <1>1, <1>2, <1>3, <1>4, <1>5

-----------------------------------------------------------------------------
(* A page is read.                                                         *)

\* A page after the first begins behind a row that waits, at the cursor or
\* later: the row that is skipped.
LEMMA PageSkips ==
  ASSUME IInv, NEW w \in Worker, pass[w].cursor # 0, NEW j \in PageIds(w)
  PROVE  /\ ~ Before(j, pass[w].cursor)
         /\ \E i \in Job : /\ job[i].status \in Pending
                           /\ ~ Before(i, pass[w].cursor) /\ Before(i, j)
<1> DEFINE from == pass[w].cursor
           found == {i \in Job : DueNow(w, i) /\ (from # 0 => ~ Before(i, from))}
           earlier == {i \in found : Before(i, j)}
<1>1. j \in found /\ 1 <= Cardinality(earlier)
  BY DEF PageIds
<1>2. earlier # {}
  <2>1. Cardinality({}) = 0
    BY FS_EmptySet
  <2> HIDE DEF earlier
  <2> QED BY <1>1, <2>1
<1>3. PICK i \in found : Before(i, j)
  BY <1>2
<1> QED BY <1>1, <1>3 DEF DueNow

\* The order of the pages.
LEMMA BeforeTrans ==
  ASSUME TypeOK, NEW i \in Job, NEW j \in Job, NEW k \in Job, ~ Before(j, i), ~ Before(k, j)
  PROVE  ~ Before(k, i)
<1>1. \A m \in Job : job[m].due \in Nat /\ m \in Nat
  BY NumberAssumption DEF TypeOK, JobRow
<1> QED BY <1>1 DEF Before

\* The WhatsApp of a push that was told is not on the next page: it is the row
\* that is skipped, for nothing that waits is between the two.
LEMMA ToldIsSkipped ==
  ASSUME IInv, Apart, NEW w \in Worker, NEW j \in PageIds(w), job[j].channel = "WHATSAPP",
         NEW i \in Job, Reached(w, i), job[i].status \notin Pending,
         job[i].appt = job[j].appt, job[i].due = job[j].due
  PROVE  FALSE
<1> DEFINE c == pass[w].cursor
<1>1. /\ c \in Job /\ ~ Before(c, i) /\ job[i].channel = "PUSH" /\ Adjoins(i)
  BY DEF Reached
<1>2. c # 0 /\ i \in Nat /\ j \in Nat /\ c \in Nat /\ j \in Job
  BY <1>1, NumberAssumption, PageRows
<1>3. /\ ~ Before(j, c)
      /\ \E k \in Job : job[k].status \in Pending /\ ~ Before(k, c) /\ Before(k, j)
  BY <1>2, PageSkips
<1>4. PICK k \in Job : job[k].status \in Pending /\ ~ Before(k, c) /\ Before(k, j)
  BY <1>3
<1>5. /\ job[i].due \in Nat /\ job[j].due \in Nat /\ job[c].due \in Nat
      /\ job[k].due \in Nat /\ k \in Nat
  BY <1>1, <1>2, NumberAssumption DEF IInv, TypeOK, JobRow
<1> HIDE DEF c
<1>6. job[c].due = job[j].due /\ i <= c /\ c <= j
  BY <1>1, <1>2, <1>3, <1>5 DEF Before
<1>7. job[k].due = job[j].due /\ c <= k /\ k < j
  BY <1>2, <1>4, <1>5, <1>6 DEF Before
<1>8. i # k
  BY <1>4
<1>9. i < k
  BY <1>2, <1>5, <1>6, <1>7, <1>8
<1>10. job[k].appt = job[i].appt
  BY <1>1, <1>2, <1>7, <1>9 DEF Adjoins
<1>11. job[k].channel \in {"PUSH", "WHATSAPP"} /\ job[k].appt # None
  BY <1>4, NoneAssumption DEF IInv, RowsOK, Pending, Channel
<1>12. Unique
  BY DEF Apart, TableOK
<1>13. k = i \/ k = j
  BY <1>1, <1>2, <1>7, <1>10, <1>11, <1>12 DEF Unique
<1> QED BY <1>2, <1>5, <1>7, <1>8, <1>13

LEMMA ReadPageApart ==
  ASSUME IInv, Apart, TypeOK', NEW w \in Worker, ReadPage(w) PROVE Apart'
<1> DEFINE ids == PageIds(w)
           last == CHOOSE j \in ids : \A i \in ids : ~ Before(j, i)
           page == PageRead(w)
           q == [pass[w] EXCEPT !.pc = "send", !.page = page, !.cursor = last,
                                !.full = (Cardinality(ids) = Batch), !.dirty = {}]
           r == [pass[w] EXCEPT !.pc = "release"]
<1>1. /\ pass[w].pc = "page"
      /\ IF ids = {} THEN Goto(w, r) ELSE Goto(w, q)
      /\ UNCHANGED <<now, job>>
  BY DEF ReadPage, At, PageRead, table
<1>2. /\ TypeOK /\ pass[w] \in Pass /\ pass[w].page = {} /\ pass[w].group = {}
      /\ pass[w].at <= now /\ now \in Nat /\ pass[w].at \in Nat
  BY <1>1, HeldRows DEF IInv, PassesOK, PassShape, TypeOK, Pass
<1>3. RowsMove /\ TableOK'
  BY <1>1, UnmarkedRows
<1>4. HandsOK(w) /\ GroupsOK(w)
  BY DEF Apart
<1>5. CASE ids = {}
  <2>1. /\ r.pc = "release" /\ r.page = {} /\ r.group = {} /\ r.told = pass[w].told
        /\ r.at = pass[w].at /\ r.cursor = pass[w].cursor
    BY <1>2 DEF Pass
  <2>2. Goto(w, r)
    BY <1>1, <1>5
  <2> HIDE DEF r
  <2>3. GroupsOK(w)'
    BY <1>2, <1>4, <2>1, <2>2, GotoThere, GroupsEnd
  <2> QED BY <1>1, <1>3, <2>1, <2>2, <2>3, PassApart
<1>6. CASE ids # {}
  <2>1. ids \subseteq Job
    BY DEF PageIds
  <2>2. PICK l \in ids : l = last /\ \A i \in ids : ~ Before(l, i)
    <3>1. \E j \in ids : \A i \in ids : ~ Before(j, i)
      BY <1>2, <1>6, <2>1, LastJob
    <3> QED BY <3>1
  <2>3. /\ q.pc = "send" /\ q.page = page /\ q.group = {} /\ q.told = pass[w].told
        /\ q.at = pass[w].at /\ q.cursor = l
    BY <1>2, <2>2 DEF Pass
  <2>4. Goto(w, q)
    BY <1>1, <1>6
  <2>5. \A x \in page : x.id \in ids /\ x.channel = job[x.id].channel /\ x.due = job[x.id].due
                        /\ x.appt = job[x.id].appt
    <3> SUFFICES ASSUME NEW x \in page
                 PROVE  x.id \in ids /\ x.channel = job[x.id].channel /\ x.due = job[x.id].due
                        /\ x.appt = job[x.id].appt
      OBVIOUS
    <3>1. /\ x \in Copy /\ x.id \in PageIds(w) /\ x.id \in Job
          /\ x = [id |-> x.id, appt |-> job[x.id].appt, channel |-> job[x.id].channel,
                  due |-> job[x.id].due, active |-> appt[job[x.id].appt].active,
                  start |-> appt[job[x.id].appt].start]
      BY PageReadCopies
    <3> HIDE DEF page
    <3> QED BY <3>1
  <2>6. \A j \in ids : job[j].status \in Pending /\ job[j].due <= pass[w].at /\ job[j].due \in Nat
    BY PageRows
  <2> HIDE DEF q, page, last, ids
  <2>7. pass'[w] = q /\ OthersRest(w)
    BY <1>2, <2>4, GotoThere
  <2>8. job' = job /\ now' = now
    BY <1>1
  <2>9. l \in Job /\ job[l].status # "NONE"
    BY <2>1, <2>2, <2>6 DEF Pending
  <2>10. ASSUME NEW j \in ids, job[j].channel = "PUSH" PROVE Reached(w, j)'
    <3>1. j \in Job /\ job[j].status \in Pending /\ job[j].due <= pass[w].at
      BY <2>1, <2>6
    <3>2. job[j].status = "PENDING"
      BY <2>10, <3>1 DEF Apart, TableOK, PushIsNow, Pending
    <3>3. Adjoins(j)
      BY <2>10, <3>1, <3>2 DEF Apart, TableOK, Batches, Adjoins
    <3>4. Adjoins(j)'
      BY <2>8, <3>3 DEF Adjoins
    <3>5. ~ Before(l, j)'
      BY <2>2, <2>8 DEF Before
    <3> QED BY <2>3, <2>7, <2>8, <2>9, <2>10, <3>1, <3>2, <3>4, <3>5 DEF Reached, Before
  <2>11. \A x \in page : /\ job'[x.id].channel = x.channel
                         /\ job'[x.id].due <= Stagger + now'
                         /\ x.channel = "PUSH" => Reached(w, x.id)' /\ job'[x.id].due = x.due
    <3> SUFFICES ASSUME NEW x \in page
                 PROVE  /\ job'[x.id].channel = x.channel
                        /\ job'[x.id].due <= Stagger + now'
                        /\ x.channel = "PUSH" => Reached(w, x.id)' /\ job'[x.id].due = x.due
      OBVIOUS
    <3>1. x.id \in ids /\ x.channel = job[x.id].channel /\ x.due = job[x.id].due
      BY <2>5
    <3>2. job[x.id].due <= Stagger + now
      BY <1>2, <2>6, <3>1, NumberAssumption
    <3> QED BY <2>8, <2>10, <3>1, <3>2
  <2>12. ASSUME NEW k \in pass[w].told
         PROVE  \E i \in Job : /\ Reached(w, i)' /\ job'[i].status \notin Pending
                               /\ job'[i].appt = k.appt /\ job'[i].due = k.due
    <3>1. PICK i \in Job : /\ Reached(w, i) /\ job[i].status \notin Pending
                           /\ job[i].appt = k.appt /\ job[i].due = k.due
      BY <1>4 DEF HandsOK
    <3>2. /\ pass[w].cursor \in Job /\ ~ Before(pass[w].cursor, i) /\ job[i].status # "NONE"
          /\ job[i].channel = "PUSH" /\ job[i].due <= pass[w].at /\ Adjoins(i)
      BY <3>1 DEF Reached
    <3>3. ~ Before(l, pass[w].cursor)
      <4>1. pass[w].cursor # 0
        BY <3>2, NumberAssumption
      <4> QED BY <2>2, <4>1, PageSkips DEF ids
    <3>4. ~ Before(l, i)
      BY <1>2, <2>9, <3>2, <3>3, BeforeTrans
    <3>5. ~ Before(l, i)' /\ Adjoins(i)'
      BY <2>8, <3>2, <3>4 DEF Before, Adjoins
    <3>6. Reached(w, i)'
      BY <2>3, <2>7, <2>8, <2>9, <3>2, <3>5 DEF Reached, Before
    <3> QED BY <2>8, <3>1, <3>6
  <2>13. HandsOK(w)'
    <3>1. Held(w)' = page /\ pass'[w].told = pass[w].told
      BY <2>3, <2>7 DEF Held
    <3>2. \A x \in Held(w)' : /\ job'[x.id].channel = x.channel
                              /\ job'[x.id].due <= Stagger + now'
                              /\ x.channel = "PUSH" => Reached(w, x.id)' /\ job'[x.id].due = x.due
      BY <2>11, <3>1
    <3>3. \A k \in pass'[w].told : \E i \in Job :
            /\ Reached(w, i)' /\ job'[i].status \notin Pending
            /\ job'[i].appt = k.appt /\ job'[i].due = k.due
      BY <2>12, <3>1
    <3> QED BY <3>2, <3>3 DEF HandsOK
  <2>14. ASSUME NEW x \in page, x.channel = "WHATSAPP", Key(x) \in pass[w].told PROVE FALSE
    <3>1. x.id \in ids /\ x.channel = job[x.id].channel /\ x.due = job[x.id].due
          /\ x.appt = job[x.id].appt
      BY <2>5
    <3>2. PICK i \in Job : /\ Reached(w, i) /\ job[i].status \notin Pending
                           /\ job[i].appt = Key(x).appt /\ job[i].due = Key(x).due
      BY <1>4, <2>14 DEF HandsOK
    <3>3. job[i].appt = job[x.id].appt /\ job[i].due = job[x.id].due
      BY <3>1, <3>2 DEF Key
    <3> QED BY <2>14, <3>1, <3>2, <3>3, ToldIsSkipped DEF ids
  <2>15. GroupsOK(w)'
    <3>1. /\ pass'[w].page = page /\ pass'[w].group = {} /\ pass'[w].told = pass[w].told
          /\ pass'[w].pc = "send"
      BY <2>3, <2>7
    <3>2. \A x \in pass'[w].page : x.channel = "WHATSAPP" => Key(x) \notin pass'[w].told
      BY <2>14, <3>1
    <3> QED BY <3>1, <3>2 DEF GroupsOK, Key
  <2> QED BY <1>3, <2>7, <2>8, <2>13, <2>15, ApartStays
<1> QED BY <1>5, <1>6

LEMMA PassStepApart == ASSUME IInv, Apart, NEW w \in Worker, PassStep(w) PROVE Apart'
<1>1. TypeOK'
  BY PassStepInv DEF IInv
<1> QED BY <1>1, BeginApart, SkipLateApart, ReadPageApart, SkipGroupApart, SendPushApart,
           NoTokenApart, MarkPushApart, FailPushApart, ScheduleLaterApart, PickWhatsAppApart,
           SendWhatsAppApart, NoPhoneApart, MarkWhatsAppApart, EndPageApart, EndPassApart,
           FailApart, CrashApart DEF PassStep

\* At first there are no rows, and no pass holds anything.
THEOREM ApartInit == Init => Apart
<1> SUFFICES ASSUME Init PROVE Apart
  OBVIOUS
<1>1. \A j \in Job : job[j].status = "NONE" /\ job[j].appt = None
  BY DEF Init, NoJob
<1>2. \A w \in Worker : /\ pass[w].page = {} /\ pass[w].group = {} /\ pass[w].told = {}
                        /\ pass[w].pc = "idle"
  BY DEF Init, Idle
<1>3. TableOK
  BY <1>1 DEF TableOK, NoGaps, Unique, PushIsNow, Batches
<1>4. \A w \in Worker : HandsOK(w) /\ GroupsOK(w)
  BY <1>2 DEF HandsOK, GroupsOK, Held
<1> QED BY <1>3, <1>4 DEF Apart

\* Every transaction, every step of a pass and every minute keeps them apart.
THEOREM ApartStep == IInv /\ Apart /\ [Next]_vars => Apart'
<1> SUFFICES ASSUME IInv, Apart, [Next]_vars PROVE Apart'
  OBVIOUS
<1>1. CASE Tick
  BY <1>1, TickApart
<1>2. CASE \E a \in Appt : \/ Book(a) \/ ClientMove(a) \/ ReadStatus(a) \/ ProMove(a)
                           \/ Confirm(a) \/ Cancel(a)
  BY <1>2, ApiApart
<1>3. CASE \E w \in Worker : PassStep(w)
  BY <1>3, PassStepApart
<1>4. CASE UNCHANGED vars
  <2>1. UNCHANGED <<job, pass, now>>
    BY <1>4 DEF vars
  <2>2. now' \in Nat /\ now <= now'
    BY <2>1 DEF IInv, TypeOK
  <2> QED BY <2>1, <2>2, UnmarkedRows, RestsApart
<1> QED BY <1>1, <1>2, <1>3, <1>4 DEF Next, PassStep

\* So push and WhatsApp always are apart, in the table and in every pass.
THEOREM ApartAlways == Spec => [](IInv /\ Apart)
<1>1. Init => IInv /\ Apart
  BY InitInv, ApartInit
<1>2. IInv /\ Apart /\ [Next]_vars => (IInv /\ Apart)'
  BY NextInv, ApartStep
<1> QED BY <1>1, <1>2, PTL DEF Spec

\* A WhatsApp that goes out is not one whose push this pass recorded.
LEMMA TogetherStep ==
  ASSUME IInv, Apart, [Next]_vars, NEW w \in Worker, NEW x \in pass'[w].group,
         Publishing(w, x), x.channel = "WHATSAPP"
  PROVE  [appt |-> x.appt, due |-> x.due] \notin pass[w].told
<1>1. TypeOK /\ pass[w] \in Pass /\ GroupsOK(w) /\ CopiesOK(w)
  BY DEF IInv, TypeOK, Apart, PassesOK
<1>2. CASE SendPush(w)
  <2>1. pass'[w].group = Front(w) /\ Front(w) \subseteq pass[w].page
    BY <1>1, <1>2 DEF SendPush, Goto, TypeOK, Pass, Front
  <2>2. x.id \in Ids(Of(Front(w), "PUSH"))
    <3>1. x.id \in Job /\ sent[x.id] \in Nat
      BY <1>1, <2>1 DEF TypeOK, Pass, Copy
    <3>2. sent'[x.id] # sent[x.id]
      BY <3>1 DEF Publishing
    <3> QED BY <1>2, <3>1, <3>2 DEF SendPush, Count
  <2>3. PICK y \in Front(w) : y.channel = "PUSH" /\ y.id = x.id
    BY <2>2 DEF Ids, Of
  <2>4. x = y
    BY <1>1, <2>1, <2>3 DEF CopiesOK, Held
  <2> QED BY <2>3, <2>4
<1>3. CASE SendWhatsApp(w)
  <2>1. pass'[w].group = pass[w].group /\ pass[w].pc = "whatsapp"
    BY <1>1, <1>3 DEF SendWhatsApp, Goto, TypeOK, Pass, At
  <2>2. Key(x) \notin pass[w].told
    BY <1>1, <2>1 DEF GroupsOK
  <2> QED BY <2>2 DEF Key
<1> QED BY <1>2, <1>3, PublishingSteps

\* Whatever rows are skipped between pages and whatever the transactions do
\* meanwhile, no pass sends the WhatsApp of a push that it recorded.
THEOREM NeverTogetherTheorem == Spec => NeverTogether
<1>1. IInv /\ Apart /\ [Next]_vars =>
        [\A w \in Worker : \A x \in pass'[w].group :
           Publishing(w, x) /\ x.channel = "WHATSAPP"
           => [appt |-> x.appt, due |-> x.due] \notin pass[w].told]_vars
  BY TogetherStep
<1> QED BY <1>1, ApartAlways, PTL DEF Spec, NeverTogether
=============================================================================
