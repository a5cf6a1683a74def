----------------------------- MODULE Reminders -----------------------------
(***************************************************************************)
(* Appointment reminders: the ReminderJob table, the api-gateway           *)
(* transactions that fill it with the appointment, and the scheduler pass  *)
(* that sends what is due.  A pass runs every minute under the lock        *)
(* lock:schedule-reminders (module RedisLock); it renews the lock once per *)
(* page and never looks whether it still has it.  Jobs are updated by id,  *)
(* whatever their status is by then.                                       *)
(*                                                                         *)
(* Instants are minutes.  The settings of the business (offsets, channels) *)
(* are fixed; whether a person has a push token or a phone is decided      *)
(* freely at every use.                                                    *)
(***************************************************************************)
EXTENDS Integers, FiniteSets

CONSTANTS
  Appt,       \* appointments
  Job,        \* ids of ReminderJob rows: numbers, compared by the pages
  Worker,     \* scheduler instances
  Token,      \* lock tokens
  Ttl,        \* time to live of the lock
  Start,      \* instants at which appointments may start
  Offset,     \* offsets_min_before
  Grace,      \* GRACE_MIN
  Tolerance,  \* toleranceMinutes
  Stagger,    \* STAGGER_MS
  Batch,      \* BATCH
  Horizon,    \* bound: last instant of the clock
  MaxMoves,   \* bound: reschedules and confirmations
  MaxPasses,  \* bound: passes begun
  None

ASSUME NumberAssumption == /\ Job \subseteq Nat \ {0} /\ IsFiniteSet(Job)
                           /\ Start \subseteq Nat /\ Offset \subseteq Nat \ {0}
                           /\ {Grace, Tolerance, Batch, Horizon, MaxMoves,
                               MaxPasses} \subseteq Nat
                           /\ {Ttl, Stagger} \subseteq Nat \ {0}
ASSUME NoneAssumption == None \notin Token \cup Appt

Channel == {"PUSH", "WHATSAPP"}
Pending == {"PENDING", "SCHEDULED"}

VARIABLES
  now,      \* the clock
  appt,     \* the Appointment rows, as far as reminders read them
  job,      \* the ReminderJob table; status "NONE" is an id not yet used
  key,      \* the lock, see RedisLock
  handle,
  pass,     \* the pass each worker is in
  moves,    \* reschedules and confirmations so far
  passes,   \* passes begun so far
  sent,     \* history: messages published for a job, counted up to two
  unsure,   \* history: jobs whose sender died before it recorded the message
  overrun,  \* history: a pass outlived its lease
  bare,     \* history: appointments moved to a slot whose old rows suppress the
            \* new ones, or confirmed after they were canceled
  reading   \* appointments some handler in flight has read as active

vars == <<now, appt, job, key, handle, pass, moves, passes,
          sent, unsure, overrun, bare, reading>>
table == <<now, appt, job, moves, sent, unsure, bare, reading>>

Lock == INSTANCE RedisLock
          WITH Ttl <- {Ttl}, MaxWait <- 0, patience <- [w \in Worker |-> None],
               actor <- "nobody"  \* who steps is of no interest here

ApptRow == [exists : BOOLEAN, active : BOOLEAN, start : Start \cup {0}]
JobRow == [status : Pending \cup {"NONE", "SENT", "FAILED", "SKIPPED", "CANCELED"},
           appt : Appt \cup {None}, channel : Channel \cup {None}, due : Nat,
           error : {"none", "appointment_rescheduled"}]
NoJob == [status |-> "NONE", appt |-> None, channel |-> None, due |-> 0,
          error |-> "none"]

\* A job as a page read it, with its appointment.
Copy == [id : Job, appt : Appt, channel : Channel, due : Nat,
         active : BOOLEAN, start : Start]

(***************************************************************************)
(* A pass: at is its nowUtc, cursor the last id of the page before, page   *)
(* the jobs it still has to treat, group those it is treating, told the    *)
(* groups whose push it recorded; full: the page had Batch rows.           *)
(* History: dirty, the appointments written since the page was read.       *)
(***************************************************************************)
Idle == [pc |-> "idle", at |-> 0, cursor |-> 0, page |-> {}, group |-> {},
         full |-> FALSE, told |-> {}, dirty |-> {}]

Pass == [pc : {"idle", "clean", "page", "send", "pushed", "later", "whatsapp", "sent",
               "release"},
         at : Nat, cursor : Job \cup {0}, page : SUBSET Copy, group : SUBSET Copy,
         full : BOOLEAN, told : SUBSET [appt : Appt, due : Nat], dirty : SUBSET Appt]

TypeOK ==
  /\ now \in 0 .. Horizon
  /\ appt \in [Appt -> ApptRow]
  /\ job \in [Job -> JobRow]
  /\ key \in [token : Token \cup {None}, left : Nat]
  /\ handle \in [Worker -> Token \cup {None}]
  /\ pass \in [Worker -> Pass]
  /\ sent \in [Job -> 0 .. 2]
  /\ moves \in 0 .. MaxMoves /\ passes \in 0 .. MaxPasses /\ overrun \in BOOLEAN
  /\ unsure \subseteq Job /\ bare \subseteq Appt /\ reading \subseteq Appt

Init == /\ now = 0
        /\ appt = [a \in Appt |-> [exists |-> FALSE, active |-> FALSE, start |-> 0]]
        /\ job = [j \in Job |-> NoJob]
        /\ key = Lock!NoKey
        /\ handle = [w \in Worker |-> None]
        /\ pass = [w \in Worker |-> Idle]
        /\ moves = 0
        /\ passes = 0
        /\ sent = [j \in Job |-> 0]
        /\ unsure = {}
        /\ overrun = FALSE
        /\ bare = {}
        /\ reading = {}

-----------------------------------------------------------------------------
(* The transactions of the api-gateway.                                    *)

\* The reminders of a slot: none for an offset that has already passed.
Planned(s) == {[channel |-> c, due |-> s - o] : c \in Channel, o \in Offset}
Ahead(s) == {p \in Planned(s) : p.due > now}

Taken(a, p) == \E j \in Job : /\ job[j].appt = a
                              /\ job[j].channel = p.channel
                              /\ job[j].due = p.due

\* updateMany: the jobs of a that still wait are canceled.
Canceled(a, why) ==
  [j \in Job |-> IF job[j].appt = a /\ job[j].status \in Pending
                 THEN [job[j] EXCEPT !.status = "CANCELED", !.error = why]
                 ELSE job[j]]

\* The n smallest ids not yet used (cuids grow with time).
NextIds(n) == {j \in Job : /\ job[j].status = "NONE"
                           /\ Cardinality({i \in Job : job[i].status = "NONE" /\ i < j}) < n}

\* createMany with skipDuplicates: a row with the same appointment, channel and
\* due instant, whatever its status, suppresses the new one.
Created(table0, a, P) ==
  LET new == {p \in P : ~ Taken(a, p)}
  IN  {[j \in Job |-> IF \E p \in new : f[p] = j
                      THEN LET p == CHOOSE x \in new : f[x] = j
                           IN  [status |-> "PENDING", appt |-> a, channel |-> p.channel,
                                due |-> p.due, error |-> "none"]
                      ELSE table0[j]] :
       f \in {g \in [new -> NextIds(Cardinality(new))] : \A p, q \in new : g[p] = g[q] => p = q}}

Dirty(a) == pass' = [w \in Worker |-> IF pass[w].pc = "idle" THEN pass[w]
                                      ELSE [pass[w] EXCEPT !.dirty = @ \cup {a}]]

Book(a) ==
  /\ ~ appt[a].exists
  /\ \E s \in Start :
       /\ appt' = [appt EXCEPT ![a] = [exists |-> TRUE, active |-> TRUE, start |-> s]]
       /\ job' \in Created(job, a, Ahead(s))
  /\ UNCHANGED <<now, key, handle, pass, moves, passes, sent, unsure, overrun,
                 bare, reading>>

\* Mutant: the jobs of the new slot are created before the old ones are canceled.
RescheduledCreatesFirst(a, active) ==
  \E s \in Start :
    /\ appt' = [appt EXCEPT ![a].start = s, ![a].active = active]
    /\ \E t \in Created(job, a, Ahead(s)) :
         job' = [j \in Job |-> IF t[j].appt = a /\ t[j].status \in Pending
                               THEN [t[j] EXCEPT !.status = "CANCELED"] ELSE t[j]]
    /\ bare' = IF \E p \in Ahead(s) : Taken(a, p) THEN bare \cup {a} ELSE bare \ {a}

\* The transaction of both reschedule handlers, for a new status.
Rescheduled(a, active) ==
  \E s \in Start :
    /\ appt' = [appt EXCEPT ![a].start = s, ![a].active = active]
    /\ job' \in Created(Canceled(a, "appointment_rescheduled"), a, Ahead(s))
    /\ bare' = IF \E p \in Ahead(s) : Taken(a, p) THEN bare \cup {a} ELSE bare \ {a}

\* The client moves a canceled appointment too, and leaves it canceled.
ClientMove(a) ==
  /\ appt[a].exists
  /\ moves < MaxMoves
  /\ moves' = moves + 1
  /\ Rescheduled(a, appt[a].active)
  /\ Dirty(a)
  /\ UNCHANGED <<now, key, handle, passes, sent, unsure, overrun, reading>>

\* The professional's reschedule and the client's confirmation read the status
\* first; it may be CANCELED by the time they write theirs.
ReadStatus(a) ==
  /\ appt[a].active
  /\ moves < MaxMoves
  /\ reading' = reading \cup {a}
  /\ UNCHANGED <<now, appt, job, key, handle, pass, moves, passes, sent, unsure,
                 overrun, bare>>

ProMove(a) ==
  /\ a \in reading
  /\ moves < MaxMoves
  /\ moves' = moves + 1
  /\ Rescheduled(a, TRUE)
  /\ reading' = reading \ {a}
  /\ Dirty(a)
  /\ UNCHANGED <<now, key, handle, passes, sent, unsure, overrun>>

Confirm(a) ==
  /\ a \in reading
  /\ moves < MaxMoves
  /\ moves' = moves + 1
  /\ appt' = [appt EXCEPT ![a].active = TRUE]
  /\ bare' = IF appt[a].active THEN bare ELSE bare \cup {a}
  /\ reading' = reading \ {a}
  /\ UNCHANGED <<now, job, key, handle, pass, passes, sent, unsure, overrun>>

Cancel(a) ==
  /\ appt[a].active
  /\ appt' = [appt EXCEPT ![a].active = FALSE]
  /\ job' = Canceled(a, "none")
  /\ Dirty(a)
  /\ UNCHANGED <<now, key, handle, moves, passes, sent, unsure, overrun,
                 bare, reading>>

-----------------------------------------------------------------------------
(* The pass of a worker.                                                   *)

At(w, pc) == pass[w].pc = pc
Goto(w, q) == pass' = [pass EXCEPT ![w] = q]

\* The cron finds the lock free, or ends here.
Begin(w) ==
  /\ At(w, "idle")
  /\ passes < MaxPasses
  /\ passes' = passes + 1
  /\ Lock!TryAcquire(w)
  /\ IF handle'[w] = None THEN UNCHANGED pass
     ELSE Goto(w, [Idle EXCEPT !.pc = "clean", !.at = now])
  /\ UNCHANGED <<table, overrun>>

\* Jobs that are too old are not sent any more.
SkipLate(w) ==
  /\ At(w, "clean")
  /\ job' = [j \in Job |-> IF job[j].status \in Pending /\ job[j].due < pass[w].at - Grace
                           THEN [job[j] EXCEPT !.status = "SKIPPED", !.error = "none"]
                           ELSE job[j]]
  /\ Goto(w, [pass[w] EXCEPT !.pc = "page"])
  /\ UNCHANGED <<now, appt, key, handle, moves, passes, sent, unsure, overrun,
                 bare, reading>>

DueNow(w, j) == /\ job[j].status \in Pending
                /\ pass[w].at - Grace <= job[j].due
                /\ job[j].due <= pass[w].at

Before(i, j) == job[i].due < job[j].due \/ (job[i].due = job[j].due /\ i < j)

\* findMany from the position of the cursor row, one row skipped.
PageIds(w) ==
  LET from == pass[w].cursor
      found == {j \in Job : DueNow(w, j) /\ (from # 0 => ~ Before(j, from))}
      position(j) == Cardinality({i \in found : Before(i, j)})
      skip == IF from = 0 THEN 0 ELSE 1
  IN  {j \in found : skip <= position(j) /\ position(j) < skip + Batch}

\* The lock is renewed (the result is not looked at), a page is read.
ReadPage(w) ==
  /\ At(w, "page")
  /\ Lock!Renew(w)
  /\ LET ids == PageIds(w)
         page == {[id |-> j, appt |-> job[j].appt, channel |-> job[j].channel,
                   due |-> job[j].due, active |-> appt[job[j].appt].active,
                   start |-> appt[job[j].appt].start] : j \in ids}
         last == CHOOSE j \in ids : \A i \in ids : ~ Before(j, i)
     IN  IF ids = {} THEN Goto(w, [pass[w] EXCEPT !.pc = "release"])
         ELSE Goto(w, [pass[w] EXCEPT !.pc = "send", !.page = page, !.cursor = last,
                                      !.full = (Cardinality(ids) = Batch),
                                      !.dirty = {}])
  /\ UNCHANGED <<table, passes, overrun>>

\* The jobs of a page for the same appointment and instant are one group; the
\* groups are treated in the order of their first rows.
First(page) == CHOOSE x \in page : \A y \in page : x.due < y.due \/ (x.due = y.due /\ x.id <= y.id)
Front(w) == LET f == First(pass[w].page)
            IN  {x \in pass[w].page : x.appt = f.appt /\ x.due = f.due}
Of(G, c) == {x \in G : x.channel = c}
HasGroup(w) == At(w, "send") /\ pass[w].page # {}

\* What decides whether a group is sent, from its first row as the page read it.
Delta(x) == x.start - x.due
Matches(x) == \E o \in Offset : o - Delta(x) \in -Tolerance .. Tolerance
Shifted(x) == x.active /\ Delta(x) > 0 /\ ~ Matches(x)

\* Mutant: the status of the appointment is not looked at.
SendableAny(x) == Delta(x) > 0 /\ Matches(x)

Sendable(x) == x.active /\ Delta(x) > 0 /\ Matches(x)
Send(w) == HasGroup(w) /\ Sendable(First(pass[w].page))

Mark(S, status, error) ==
  job' = [j \in Job |-> IF j \in S THEN [job[j] EXCEPT !.status = status, !.error = error]
                        ELSE job[j]]
Ids(G) == {x.id : x \in G}

\* The rest of a pass step: nothing but the job table and the pass changed.
OnlyJobs == UNCHANGED <<now, appt, key, handle, moves, passes, sent, unsure, overrun,
                        bare, reading>>
OnlySent == UNCHANGED <<now, appt, job, key, handle, moves, passes, unsure, overrun,
                        bare, reading>>

SkipGroup(w) ==
  /\ HasGroup(w) /\ ~ Send(w)
  /\ Mark(Ids(Front(w)), "SKIPPED",
          IF Shifted(First(pass[w].page)) THEN "appointment_rescheduled" ELSE "none")
  /\ Goto(w, [pass[w] EXCEPT !.page = @ \ Front(w)])
  /\ OnlyJobs

Count(G) == sent' = [j \in Job |-> IF j \in Ids(G) /\ sent[j] < 2 THEN sent[j] + 1
                                   ELSE sent[j]]

\* After the push of group G: its WhatsApp, if it has one, or the next group.
AfterPush(w, G, pc) == [pass[w] EXCEPT !.page = @ \ G, !.group = Of(G, "WHATSAPP"),
                          !.pc = IF Of(G, "WHATSAPP") = {} THEN "send" ELSE pc]

\* A push is published; errors of the broker are swallowed.
SendPush(w) ==
  /\ Send(w)
  /\ Of(Front(w), "PUSH") # {}
  /\ Count(Of(Front(w), "PUSH"))
  /\ Goto(w, [pass[w] EXCEPT !.pc = "pushed", !.page = @ \ Front(w), !.group = Front(w)])
  /\ OnlySent

\* Without a push token the push is skipped and the WhatsApp goes out at once.
NoToken(w) ==
  /\ Send(w)
  /\ Of(Front(w), "PUSH") # {}
  /\ Mark(Ids(Of(Front(w), "PUSH")), "SKIPPED", "none")
  /\ Goto(w, AfterPush(w, Front(w), "whatsapp"))
  /\ OnlyJobs

Told(w) == pass[w].told \cup {[appt |-> x.appt, due |-> x.due] : x \in pass[w].group}

\* Mutant: the WhatsApp follows the push at once.
MarkPushBoth(w) ==
  /\ At(w, "pushed")
  /\ Mark(Ids(Of(pass[w].group, "PUSH")), "SENT", "none")
  /\ Goto(w, [AfterPush(w, pass[w].group, "whatsapp") EXCEPT !.told = Told(w)])
  /\ OnlyJobs

MarkPush(w) ==
  /\ At(w, "pushed")
  /\ Mark(Ids(Of(pass[w].group, "PUSH")), "SENT", "none")
  /\ Goto(w, [AfterPush(w, pass[w].group, "later") EXCEPT !.told = Told(w)])
  /\ OnlyJobs

\* Mutant: the job is left for another pass.
FailPushRetry(w) ==
  /\ At(w, "pushed")
  /\ Goto(w, AfterPush(w, pass[w].group, "whatsapp"))
  /\ UNCHANGED <<table, key, handle, passes, overrun>>

\* The push is out but markSent throws (its update, or the event after it): the
\* job is marked FAILED and the WhatsApp goes out as if there had been no push.
FailPush(w) ==
  /\ At(w, "pushed")
  /\ Mark(Ids(Of(pass[w].group, "PUSH")), "FAILED", "none")
  /\ Goto(w, AfterPush(w, pass[w].group, "whatsapp"))
  /\ OnlyJobs

Latest(m, n) == IF m < n THEN n ELSE m

\* scheduleLater: the WhatsApp of the group waits, whatever became of its job.
\* On a row with the new instant the unique index makes the query fail.
ScheduleLater(w) ==
  /\ At(w, "later")
  /\ \E x \in pass[w].group :
       LET due == Stagger + Latest(now, x.due)
       IN  /\ ~ Taken(x.appt, [channel |-> x.channel, due |-> due])
           /\ job' = [job EXCEPT ![x.id].status = "SCHEDULED", ![x.id].due = due]
  /\ Goto(w, [pass[w] EXCEPT !.pc = "send", !.group = {}])
  /\ OnlyJobs

\* A group without a push.
PickWhatsApp(w) ==
  /\ Send(w)
  /\ Of(Front(w), "PUSH") = {}
  /\ Goto(w, [pass[w] EXCEPT !.pc = "whatsapp", !.page = @ \ Front(w), !.group = Front(w)])
  /\ UNCHANGED <<table, key, handle, passes, overrun>>

SendWhatsApp(w) ==
  /\ At(w, "whatsapp")
  /\ Count(pass[w].group)
  /\ Goto(w, [pass[w] EXCEPT !.pc = "sent"])
  /\ OnlySent

NoPhone(w) ==
  /\ At(w, "whatsapp")
  /\ Mark(Ids(pass[w].group), "SKIPPED", "none")
  /\ Goto(w, [pass[w] EXCEPT !.pc = "send", !.group = {}])
  /\ OnlyJobs

\* Recorded, or FAILED when markSent throws.
MarkWhatsApp(w) ==
  /\ At(w, "sent")
  /\ \E status \in {"SENT", "FAILED"} : Mark(Ids(pass[w].group), status, "none")
  /\ Goto(w, [pass[w] EXCEPT !.pc = "send", !.group = {}])
  /\ OnlyJobs

EndPage(w) ==
  /\ At(w, "send")
  /\ pass[w].page = {}
  /\ Goto(w, [pass[w] EXCEPT !.pc = IF pass[w].full THEN "page" ELSE "release"])
  /\ UNCHANGED <<table, key, handle, passes, overrun>>

EndPass(w) ==
  /\ At(w, "release")
  /\ Lock!Release(w)
  /\ Goto(w, Idle)
  /\ UNCHANGED <<table, passes, overrun>>

\* What a pass that stops here published and did not record.
Unrecorded(w) == IF At(w, "pushed") THEN Ids(Of(pass[w].group, "PUSH"))
                 ELSE IF At(w, "sent") THEN Ids(pass[w].group) ELSE {}

\* A query fails: the pass ends and the lock is released.
Fail(w) ==
  /\ pass[w].pc \notin {"idle", "release"}
  /\ unsure' = unsure \cup Unrecorded(w)
  /\ Goto(w, [Idle EXCEPT !.pc = "release"])
  /\ UNCHANGED <<now, appt, job, key, handle, moves, passes, sent, overrun,
                 bare, reading>>

Crash(w) ==
  /\ ~ At(w, "idle")
  /\ unsure' = unsure \cup Unrecorded(w)
  /\ Lock!Lose(w)
  /\ Goto(w, Idle)
  /\ UNCHANGED <<now, appt, job, moves, passes, sent, overrun, bare, reading>>

\* Time passes, in the middle of passes too; a lease may run out under a pass.
Tick ==
  /\ now < Horizon
  /\ now' = now + 1
  /\ IF key.left > 0 THEN Lock!Tick ELSE UNCHANGED <<key, handle>>
  /\ overrun' = (overrun \/ (key.left = 1 /\ \E w \in Worker : Lock!Owns(w)))
  /\ UNCHANGED <<appt, job, pass, moves, passes, sent, unsure, bare, reading>>

Next == \/ Tick
        \/ \E a \in Appt : 
             \/ Book(a) \/ ClientMove(a) \/ ReadStatus(a) \/ ProMove(a)
             \/ Confirm(a) \/ Cancel(a)
        \/ \E w \in Worker :
             \/ Begin(w) \/ SkipLate(w) \/ ReadPage(w) \/ SkipGroup(w)
             \/ SendPush(w) \/ NoToken(w) \/ MarkPush(w) \/ FailPush(w)
             \/ ScheduleLater(w) \/ PickWhatsApp(w) \/ SendWhatsApp(w) \/ NoPhone(w) \/ MarkWhatsApp(w)
             \/ EndPage(w) \/ EndPass(w) \/ Fail(w) \/ Crash(w)

Spec == Init /\ [][Next]_vars

-----------------------------------------------------------------------------
\* A message goes out twice only if a sender died before it recorded the first,
\* or a pass outlived its lease: the lock keeps two passes apart exactly as long
\* as the lease lasts, and a recorded message is never picked up again.
TwiceOnlyUnsure == \A j \in Job : sent[j] = 2 => j \in unsure \/ overrun

Publishing(w, x) == sent'[x.id] > sent[x.id] /\ pass'[w] # pass[w]

\* What a reminder says was true when its page was read: an appointment that was
\* canceled or moved before is never announced, though jobs of canceled
\* appointments come back to life when a pass reschedules them by id.
ReminderIsCurrent ==
  [][\A w \in Worker : \A x \in pass'[w].group :
       Publishing(w, x)
       => \/ appt[x.appt].active /\ appt[x.appt].start = x.start
          \/ x.appt \in pass[w].dirty]_vars

\* A pass that recorded a push leaves the WhatsApp of the same appointment and
\* instant to a later pass, page boundaries and skipped rows included.
NeverTogether ==
  [][\A w \in Worker : \A x \in pass'[w].group :
       Publishing(w, x) /\ x.channel = "WHATSAPP"
       => [appt |-> x.appt, due |-> x.due] \notin pass[w].told]_vars

\* Every active appointment has the jobs of its present slot that are still
\* ahead, unless old rows suppressed them when it was moved, or a confirmation
\* brought it back from CANCELED.
EverySlotHasJobs ==
  \A a \in Appt \ bare : \A p \in Planned(appt[a].start) :
    appt[a].active /\ p.due > now
    => \E j \in Job : /\ job[j].appt = a /\ job[j].channel = p.channel
                      /\ job[j].due = p.due /\ job[j].status = "PENDING"

\* "tolera pequenos ajustes e stagger": while nothing was rescheduled, no job is
\* given up as rescheduled.
SkippedOnlyIfMoved ==
  moves = 0 => \A j \in Job : job[j].status = "SKIPPED"
                              => job[j].error # "appointment_rescheduled"

=============================================================================
