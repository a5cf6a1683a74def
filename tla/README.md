# Verification of the Marquei backend

TLA+ modules, TLC configurations and TLAPS proofs for this repository: the
booking of appointments and what hangs on it, the scheduler's jobs, the
subscription of a business, the codes, tokens and caches of the accounts, and
the catalogue, lists, ratings, notices and reports around them.  Paths below are
relative to the repository; `AG` stands for `src/apps/api-gateway/src/modules`,
`SC` for `src/apps/scheduler/src`, `MS` for `src/apps/messaging/src`.

## 1. The system

Four NestJS programs (api-gateway, scheduler, messaging, payment) share one
PostgreSQL database (Prisma), one Redis and one RabbitMQ.  Each may run in
several instances.

| part | state | operations | talks to | module |
|---|---|---|---|---|
| agenda (`AG/client/customer-appointments`, `AG/professional/appointments`) | `Appointment`, `ProfessionalTimesBlock` | create, reschedule, confirm, cancel (client and professional), block times, delete blocked time | writes `ReminderJob` in the same transaction; after the commit: streams, push, mail, Google Calendar | `Agenda` |
| reminders (`SC/application/appointments/use-cases/schedule-reminder.use-case.ts`) | `ReminderJob` | pass of every minute: skip, send, stagger, record | lock, messaging | `Reminders` |
| close-due job (`SC/application/appointments/use-cases/close-due-appointments.use-case.ts`) | `Appointment.status`, `ProfessionalStatement` | cron every 5 minutes publishes, handler closes pages | lock, queue to itself | `Closing` |
| distributed lock (`SC/infrastructure/locks/redis-lock.service.ts`) | one Redis key per job | tryAcquire, acquire, renew, release, withLock | Redis | `RedisLock`, `Lease` |
| subscriptions (`src/apps/payment/src/gateways/revenuecat`, `SC/application/business/use-cases`) | `BusinessSubscription`, `Business.is_active` | eight RevenueCat events; nightly deactivation of expired free trials | webhook of the api-gateway, RabbitMQ | `Subscriptions` |
| validation codes (`src/apps/api-gateway/src/shared/services/{mail,whatsapp}-*.ts`, consumers in `MS`) | `MailValidation`, `WhatsAppValidation` | ask, send, judge, expire | RabbitMQ | `Codes` |
| passwords and accounts (`AG/{client,professional}/auth/use-cases`) | one Redis key per request, `User` | reset, confirmed change, sign-up | validation codes | `Accounts` |
| refresh tokens (`src/libs/shared/src/services/token.service.ts`) | one Redis key per token, a set per user, a lock per token | issue, rotate, revoke one, revoke all, sign-on link | Redis | `Sessions` |
| user cache (`src/libs/shared/src/modules/redis/redis.service.ts`) | one Redis key per user, a day long | read through by the guards, cleared by some writers | database | `UserCache` |
| available times (`get-available-times*.use-case.ts`) | none of its own | two queries per day, the scan for free slots | reads the agenda | `Times` |
| Google Calendar (`src/libs/shared/src/modules/google-calendar`, `AG/professional/integrations`) | `Appointment.google_calendar_event_id`, `UserIntegration`, the calendar | create, patch, delete an event after the commit; connect, disconnect | Google, RabbitMQ | `Calendar` |
| catalogue (services, combos, professionals) | their tables and links | create, update, withdraw, price | read by bookings | `Catalogue` |
| customers (`AG/professional/customers`, client auth and profile) | `Person`, `BusinessCustomer`, `User` | register, edit, sign up, edit own profile, link who booked | queue to itself | `People` |
| confirmation requests | `AppointmentEvent`, status | ask, confirm, move | messaging | `Confirmations` |
| home modals (`AG/professional/app-updates`, `AG/innovate-connect`) | modals, interactions, a Redis key | create, toggle, show, record | | `Prompts` |
| lists read by pages | none of their own | LIMIT, OFFSET and a count | every table | `Listings` |
| ratings (`AG/client/business-rating`) | ratings, counters of the business, dismissals | rate, ask, dismiss | push to the owner | `Ratings` |
| messaging (`MS/modules`) | in-app notifications, a WhatsApp token in Redis | push in chunks, mail, text | the push, mail and WhatsApp services | `Messaging` |
| live streams (`appointment-events-stream.service.ts`) | memory of one gateway | open, subscribe, publish, close, shut down | fed by the agenda's handlers | `Streams` |
| analytics (`AG/professional/analytics`) | a Redis key per report | totals, chart, cache | database | `Reports` |

What is hard here, and what the properties are about:

* **No handler locks a row.**  Each api-gateway handler is a chain of separate
  queries; the transaction at its end contains only writes.  Everything checked
  before it can be stale when it commits.
* **What follows the commit is not tied to it.**  Calendar, notices, streams and
  links act on what was read before, in another process or after a lost message.
* **Locks are leases.**  A job or a rotation that outlives the time to live of
  its key, or whose owner dies, runs beside the next one.  The jobs ignore the
  result of `renew`; one job holds the lock only while it publishes a message.
* **One Redis connection for all calls.**  WATCH and EXEC of the token service
  belong to the connection, not to the call.
* **Messages are delivered at least once** and errors of the publisher are
  swallowed (`src/libs/shared/src/modules/rmq/rmq.service.ts:14`).
* **Pages over rows that change**, by cursor in the jobs and by OFFSET in every
  list.
* **Caches** filled by readers while writers delete or forget them.
* **Constants that add up, zones that do not**: grace, tolerance, stagger, time
  to live; the server's, the session's and the business's day.

The list `hazards` of `PROJECT.json` names each of these at its line.

## 2. The modules

| module | models | instance for TLC | proofs |
|---|---|---|---|
| `Agenda` | the ten handlers of the agenda and the status write of the close-due job | `MCAgenda` | `Agenda_proofs` |
| `Lease` | what a lock with a time to live promises (abstract) | | |
| `RedisLock` | `RedisLockService` on one key | `MCRedisLock` | `Redis_proofs` |
| `Closing` | the close-due job, its queue, the writes of the api-gateway | `MCClosing` | `Closing_proofs` |
| `Reminders` | the `ReminderJob` table and the reminder pass; composed with `RedisLock` by INSTANCE | `MCReminders` | `Reminders_proofs` |
| `Subscriptions` | the eight RevenueCat handlers, their queue, the free trial, the nightly deactivation | `MCSubscriptions` | `Subscriptions_proofs` |
| `Codes` | validation codes by mail and WhatsApp, both ends of the queue | | `Accounts_proofs` |
| `Accounts` | reset, confirmed change, sign-up; EXTENDS `Codes` and composes it | `MCAccounts` | `Accounts_proofs` |
| `UserCache` | the guards' copy of the user and who writes the row | `MCAccounts` | `Accounts_proofs` |
| `Sessions` | refresh tokens, their locks, sign-on links | `MCSessions` | `Redis_proofs` |
| `Times` | the slots offered | `MCOffice` | `Calendar_proofs` |
| `Calendar` | Google events and the notices to both sides | `MCOffice` | `Calendar_proofs` |
| `Catalogue` | services, combos, professionals, and bookings of them | `MCOffice` | `Office_proofs` |
| `People` | persons, accounts, links | `MCOffice` | `Office_proofs` |
| `Confirmations` | asking to confirm, confirming, moving | `MCOffice` | `Office_proofs` |
| `Prompts` | home modals | `MCOffice` | `Office_proofs` |
| `Listings` | twenty-three lists read by pages | `MCOffice` | `Office_proofs` |
| `Ratings` | ratings, counters, the rating prompt | `MCOffice` | `Office_proofs` |
| `Messaging` | the consumers of the messaging service | `MCOffice` | `Office_proofs` |
| `Streams` | live streams of one gateway | `MCOffice` | `Office_proofs` |
| `Reports` | dashboard and analytics | `MCOffice` | `Office_proofs` |

In all of them every query, transaction and Redis command is one step, a request
in flight is a record (or a value of one variable) that holds what it has read
and where it is, and a request may stop at any step.

### Agenda

A request is a record in `req`: what it has read, the slots it wants (`want`),
those still to check (`pend`), and a control point.  The first action of each
handler (`ClientCreate`, `ProfessionalReschedule`, ...) reads the row and applies
the early returns; `CheckAppts` and `CheckBlocks` are the conflict queries, one
step per query (`BlockTimes` makes one per day); `CommitCreate`, `CommitMove`,
`CommitConfirm`, `CommitCancel`, `CommitBlock`, `CommitUnblock` are the writes;
`Abort` is a request that stops at any point.  The differences between the two
apps are kept: the client may confirm a COMPLETED appointment and reschedule one
in any status; leaving `professional_id` out of a client reschedule means the
slot is checked on the professional read earlier but the column is not written;
the professional's reschedule writes PENDING.

Two history variables say what a step cannot: `concurrent`, the pairs of rows
placed by requests that overlapped in time, and `unguarded`, appointments put in
a slot nobody checked (a confirmation that brings a COMPLETED or CANCELED row
back, a move that ends on an agenda it did not look at).

* `OverlapOnlyConcurrent`, `BlockedOnlyConcurrent`, `BlocksOverlapOnlyConcurrent`:
  the checks of the handlers are complete.  An overlap on an agenda has exactly
  two causes, a race or an unguarded write.
* `CancelIsFinal`: a canceled appointment comes back only through a request that
  had read it before the cancellation.
* `UnblockTakesRun`: deleting one day of an all-day block deletes the run of days
  it belongs to, the list being read before the delete.
* `NoDoubleBooking` is what the handler's comment and error message say; the run
  `agenda_double_booking` shows two creates that break it.

### Lease and RedisLock

`key` is the Redis key with its token and remaining time, `handle` the token each
worker believes in, `patience` the time a worker in `acquire` still waits.  SET NX
EX and the two Lua scripts are one step each, since Redis runs them so; a worker
may die after SET ran and before it has the handle (`Grab` leaves a key nobody
holds), and `Lose` is a worker that dies or whose release fails.  `Lease` states
the promise with no token: an owner loses the lock by giving it back, by dying, or
by time, and every step names the worker that makes it (`mover`), so that a worker
who comes too late can only be `Idle`: his release is no `Give` of the next owner's.
In `RedisLock` that worker is the auxiliary `actor`.  `IsLease` is the refinement, the
owner being the worker whose handle has the key's token, together with
`LateCallsDoNothing`, an action property in the terms of the code: whatever a worker
does whose handle is no longer the key's (a late renew or release), the key stays as
it is, whether its next owner is alive or dead.

### Closing

`queue` counts messages, `run[w]` is the handler of a worker: the instant of its
cutoff, the cursor, the page and the professionals read with it.  `Cron`
publishes while it holds the lock, so the lock does not appear: what it excludes
is two crons that publish at once, and `MaxQueue` messages bound that anyway.
`ReadPage` is `findMany` with cursor and `skip: 1`; `WritePage` the transaction
(status and statement rows); `Fail` the catch; `Crash` the death of the process,
after which RabbitMQ delivers the message again.  `Book`, `Confirm`, `Cancel`,
`ClientMove`, `ProMove` are the api-gateway's writes, one step each here.

### Reminders

`job` is the table, `pass[w]` the pass of a worker: `at` (its `nowUtc`), the
cursor, the rows of the page still to treat with the copy of their appointment,
the group it is treating.  The control points follow the code: `clean`, `page`,
`send`, `pushed` (published, not recorded), `later` (recorded, WhatsApp to be
postponed), `whatsapp`, `sent`, `release`.  A failing query is `FailPush` where the code
catches it at the job (the job becomes FAILED and the WhatsApp goes out) and
`Fail` where the pass ends.  The transactions of the api-gateway cancel the
waiting jobs and create those of the new slot, an existing row of the unique
index suppressing the new one; the professional's reschedule and the client's
confirmation read the status in a step of its own (`ReadStatus`).

* `TwiceOnlyUnsure`: a message goes out twice only after a crash between
  publishing and recording, or when a pass outlived its lease.
* `ReminderIsCurrent`: what a pass announces was true when it read the page.
* `NeverTogether`: a WhatsApp is not sent by the pass that recorded the push of
  the same reminder.
* `EverySlotHasJobs`: an active appointment has its future reminders, with two
  exceptions the code really has (see the definition).
* `SkippedOnlyIfMoved` is what two comments say of the tolerance; the run
  `reminders_stagger` breaks it with the constants of the code.

### Subscriptions

`store` is the subscription as the app store sees it; its actions (`Buy`,
`Renew`, `TurnOff`, ...) are external and send the events, in the order and with
the end dates that make sense for a store.  From then on nothing is ordered:
`sky` holds the events on their way, `Take` hands any of them to any idle worker,
again as often as `MaxRepeats` allows, and `Lose` drops one (the api-gateway
swallows the error of the broker; an unknown product is dropped too).  A handler
is `Take` (its `findFirst`), `WriteRow` (the row by id, one operator per use case:
`Bought`, `Renewed`, `Expired`, ...) and `WriteBusiness` (`is_active`), with
`Fail` (the catch of the webhook handler, after which the message is
acknowledged) and `Crash` between any two.  `SweepFind` and `SweepWrite` are the
nightly job.

The code never orders or deduplicates events, so no property can promise the
right state always.  What it does promise:

* `InSync`: if the events arrived in order, each once, one at a time, the business
  is active while the store's subscription runs and inactive when it is over.
* `NoFreeRide`: in any order and with any repetition, an active business has a
  live row, unless handlers overlapped or one stopped between its two writes;
  the next undisturbed handler repairs that.
* `OneSubscription`: what can give a business two live rows, exhaustively.
* `SweepOnlyExpired`: the job switches off a paying business only if the payment
  was written after it had looked.
* `CancelFlagIsTrue` is the meaning the code's comment gives to
  `cancel_at_period_end`; the run `subscriptions_cancel_flag` breaks it.

The history variables `next`, `torn` and `doubled` serve these four definitions.

### Codes and Accounts

`Codes` keeps the rows (`row`), the messages that ask for a code (`queue`), the
consumers (`sender`) and the calls of `validateCode` (`caller`).  The channels
differ in one thing that matters: a mail request id comes from the client and its
row is upserted, a phone request id is the server's and its row is only created.
A row may expire at any moment.  `Accounts` is the composition: `work[c]` is the
handler that request is in, `caller[c]` its call of `validateCode`.

* `GuessesBounded`: `attempts` is read, judged and raised in three queries; a code
  meets at most `MaxAttempts` wrong guesses and one more for each further call.
* `NothingUnproven`: a validated row, an account and a change of a password each
  rest on a code that was sent to that address and came back; with the one race
  that breaks it (a resend between reading and validating) as its exception.
* `OneChangePerRequest`: a request changes a password once, unless two calls
  worked on it or one died before it deleted the key.  (The consumption of a code
  by id is what `whatsapp-validation.service.ts:185` is about.)
* `PendingEnds`, the liveness property: a mail asked for is sent or FAILED in the
  end, since its redelivered message finds and renews the row of the first
  attempt; a phone row whose consumer died stays PENDING.

### Sessions

One user.  Tokens are numbered in the order they are signed; `store` holds the
keys, `members` the set of the user, `lock` the owner of each rotation's lock.
All calls share one connection, so `watched` and `dirty` are single variables and
the EXEC or UNWATCH of one call ends the watch of every other (`blinded`).
`overrun`, `unlisted`, `revoked` and `parent` are history.

* `RotatedOnce`: two clients that present one token get one successor, unless a
  rotation outlived its five seconds.
* `RevocationHolds`: a rotation that starts after the logout does not get past the
  read; and every live token is in the set that logging out everywhere reads, but for
  one being issued or whose call died between key and set.
* `ReleasesOwnLock`: a release deletes another's lock only if its own ran out and
  another release on the connection ended its watch in between.

### UserCache

`stored` is the row, `cached` the Redis key, `request[c]` what each request does.
Registering a push token and selecting a business update the row and delete the
key in parallel; editing the profile deletes nothing.  `clean` marks a copy that
no write crossed while it was made.  `CleanIsFresh`: such a copy has the row's
push token and business whenever no writer is at work (the name it may lack).

### Times

A question reads the opening hours, then, day by day, appointments and blocks
(`ReadAppointments`, `ReadBlocks`), and scans the opening ranges of the day: one busy
range a step (`PassBusy`, ranges with the same start in any order), then the window
that is left (`EndRange`).  `OffersAreWhatFits` compares what the scan gathered with
a reference definition, minute by minute.  `OfferedMinutesWereFree`: two queries and
no snapshot, and still every minute offered was free at some moment since the
question.  The scan is synchronous code and reads nothing that others write; it is
cut into steps so that its loop has an invariant, and since the writes of others
touch nothing it uses, letting them fall between its steps adds no answer (the run
leaves them out there, the proofs do not).

### Calendar

One appointment for its whole life, professionals who connect, revoke and
disconnect, the queue consumer that makes the event and stores its id afterwards.
Handlers commit first and then notify and call Google with what they read before.
The message names the professional of the moment of creation, and the consumer makes
the event in that professional's calendar, whoever has the appointment by then.  What
a handler tells is what the handler does (`Notice`): nobody reads the status again,
so a canceled appointment its customer moves is announced as one that stands (`moved`
remembers it, and `TrueOf` then asks for the slot only).
`excuse` records why the two may differ: a failed call, or a step that acted on what
was no longer so (a change committed over another, an event made for a slot or a
professional left meanwhile, an id cleared that another handler had stored).
`CalendarShowsAppointment` and `BothSidesKnow` say that there is no third reason.
Confirmations are not among the changes here: they touch neither slot nor calendar,
and the one that undoes a racing cancellation is `Agenda`'s `CancelIsFinal`.

### Catalogue

Services, combos with their items, professionals and their links, bookings as far
as they rest on these.  Only the writes of a combo are a transaction.
`SoldAsListed` joins `ComboAddsUp` (base, price and length of a combo are those of
the items it keeps) and `FutureIsOnSale` (what is still to come is of something on
sale, but for bookings made, moved or confirmed while the withdrawal was under way or
after it).  A booking has the status of its appointment as far as the catalogue looks
at it: live (pending or confirmed), completed, canceled.  No status is final for
every handler: the customer moves an appointment of any status and confirms a
completed one, and the professional's move writes pending over whatever it became.

### People

Persons are found by e-mail, else by telephone, else made; accounts belong to one
person; a queue consumer links who booked.  `CustomersAreKnown` joins
`MailFindsAccount` (the e-mail of an account leads to its person, unless a business
gave him another) and `BookedIsLinked`.

### Confirmations

`hand[x]` is what a request of either side remembers.  `HourIsKnown`: a confirmed
appointment lies at an hour its confirmer saw, and the event that forbids asking
again means that this very hour was asked about, unless a move crossed it
(`crossed`).

### Prompts, Listings, Ratings, Messaging, Streams, Reports

* `ModalRests`: a modal shown is not shown again within its day, unless the record
  behind the response failed or another request was faster than it.
* `NoneMissed`: who reads a list to the last page has read every row that was
  there all along; of a list with no order, or while keys tie, it claims nothing.
  Each list is described by what decides this: its order (a
  unique key, a key that ties, or none), how the count is taken, and what can
  happen to its rows; `stir` records what may hide a row.
* `RatingsHold`: counters and average are those of the ratings there are, whoever
  rates at once and whichever transaction fails; and nobody is asked who had rated
  or dismissed the prompt before it came up.
* `EachDeviceTried`: a handled push was tried with each well-formed device though
  chunks failed, and nothing is sent twice without a death.  (A lost connection to
  the broker redelivers too, while the old consumer works on; it is left out.)
* `HeardWhileConnected`: an open and subscribed stream hears what its business
  publishes on this gateway and nothing else, and none that ended is kept.
* `ReportAddsUp`: a chart adds up to the total beside it, under the relation of
  the zones the queries need.

## 3. The runs

| run | instance | question |
|---|---|---|
| `agenda_professionals` | 2 professionals, 2 appointments, 2 requests, one slot size | who ends on whose agenda; does a cancellation last |
| `agenda_blocks` | 1 professional, 1 appointment, 2 blocks, 2 requests, 2 days | bookings against blocks, multi-day plans, deletion of runs |
| `agenda_double_booking` | 2 appointments, 2 requests | violation of `NoDoubleBooking` |
| `lock` | 3 workers, 4 tokens, times 1 and 2, wait 2 | refinement of `Lease`, late calls included; `NobodyIsStuck`: waits end, dead owners are freed |
| `closing` | 2 workers, 2 appointments, pages of 1, one write | statement exact, rows left behind, everything closed in the end |
| `reminders` | 2 workers, 2 passes, 1 appointment, 4 jobs, pages of 2, lease of 2 minutes | duplicates, stale messages, stagger, missing jobs |
| `reminders_stagger` | 1 worker, the minutes of the code | violation of `SkippedOnlyIfMoved` |
| `subscriptions` | 2 workers, 2 rows, 3 events, 1 repetition, periods of 1 | lost, late, repeated, overlapping events; the nightly job |
| `subscriptions_cancel_flag` | 1 worker, 3 events | violation of `CancelFlagIsTrue` |
| `accounts` | 1 mail request, 1 phone request, 2 addresses, 2 callers, 2 consumers, 2 attempts; a user with 2 requests | codes, passwords, sign-up; the cached user |
| `sessions` | 3 calls at once, 4 in all, 3 tokens, 1 link | rotations, logouts and dying calls of one user |
| `office` | the eleven parts below, one at a time | one property of each part, two of `Times` and of `Calendar` |

**The bounds.**  A race in this code needs two requests or two workers on one row,
and each conflict is between two rows, so two of each show every pairwise case;
the proofs remove the bound where they exist.  Pages of one (`Closing`) and two
rows (`Reminders`) put page boundaries between any two rows.  Two passes are
enough for a message sent, lost from the record and sent again, and for a
postponed WhatsApp to be picked up.  In `Reminders` grace, tolerance and stagger
are one minute each, which keeps the inequalities of the code (stagger fits in
the tolerance, grace and stagger together do not).  The constants named `Max...`,
`Last...` and `Horizon` are bounds of the models, not of the code.
In `subscriptions` three events are a purchase, what undoes it and what undoes
that, and a failed charge followed by its renewal; two rows are the found one
and a second one.  Every purchase starts with a trial
of the store there (`Intro`); a product change does not, and the code treats
TRIALING and ACTIVE alike.  The five minutes of `Buffer` are 0, since periods are as
short as the clock; the boundary (a refund that ends now) is still met.
`agenda_blocks` has the constraint `NoMoves` (no reschedules in that run): moves
are the subject of `agenda_professionals`.  Where a case needs more than a run
holds, the theorem alone covers it: a blocked professional an appointment moves to
(`BlockedIsConcurrent`), a run of three days with a neighbour hidden by racing
requests (`UnblockTakesRunTheorem`), a push and its WhatsApp split by a page boundary
(`NeverTogetherTheorem`).

`accounts` takes the mail request, the phone request and the cached user one after
the other (`part`): a password change works on one request, and the cache shares
no variable with the codes.  `sessions` needs three calls, since the release that
takes another's lock involves two releases and a rotation; three tokens are a
login and two successors of it.  `FewMishaps` allows one lock to run out and one
token to stay unlisted: each excuses what follows from it, and a second would
excuse the same things again.

**`office`.**  Its eleven modules share no variable (what a part takes from the
agenda is an environment of its own), so the states of their product are those of
the parts.  `MCOffice` therefore explores one part at a time: `part` is chosen in
the initial state, that part starts in any of its initial states and the others
rest in one.  Nothing is lost by it, since each property speaks of one part.  The
instances: two days of five minutes, opening ranges with gaps, in disorder, closed, as
an object and as null; two professionals, two slots, two calls beside the
consumer; two services, a combo, an owner and an employee with three requests;
three persons, two accounts, two mails and three requests; two hours and four
requests; two modals and two builds; four rows in pages of one and two, for all
the lists; two raters, two days; a push in chunks of two with one malformed
device, a mail, a text and a notification; three streams of two businesses; two
zones, ranges of two, three and more days with two rows.

What `MCOffice` leaves out of these instances, and why nothing is missed:

* ids that are interchangeable are used in order (`Lowest`);
* once a divergence is excused (`excuse`, `stir`), the properties of `Calendar` and
  `Listings` claim nothing more, so such states are not explored further than what
  their first steps need;
* reads and writes of the environment that commute with what surrounds them are
  taken at one moment (`MCTimesNext`, `MCReportsNext`), and the last request of the
  catalogue is about what the properties speak of;
* in `Ratings` the customer who may be asked is the first, and while he is, he is
  the only one who rates: the prompt reads his own rows only.

**Deadlock** is not checked: clocks, tables and counters are bounded, so every model
ends in states where nothing is left to do; what must still happen is stated
as liveness instead.

**Fairness.**  `RedisLock`: weak fairness of time (Redis expires keys) and of a waiting
worker's next attempt (its `while (true)`).  `Closing`: weak fairness of the
clock, of the cron and of message delivery and acknowledgement; strong fairness
of reading and writing a page, which says that a database query that is tried
again and again (every five minutes, by every new run) does not fail for ever,
crashes included.  The api-gateway's writes are not fair; they are bounded by
`MaxWrites`, since a client who confirmed a COMPLETED row again after every
closing would keep it from staying closed.  `Codes`: weak fairness of the steps of
each consumer (`CodesFairness`): RabbitMQ delivers and redelivers what is queued.
A call of the api-gateway is not fair, nor is the expiry of a row or of a cached
user.  All others state safety only: an event, a message or a call may be lost for
good, so nothing must happen in the end.

## 4. The proofs

The eight proof modules hold for every value of the constants, under the named
`ASSUME`s of the modules (values that mark absence are no members of the sorts,
numbers are natural, zones whole, the ids of appointments to close, of blocked
times and of the reminders, the rows of a list and the modals finite sets, and the
lease of the reminders longer than nothing, appointments and blocks no empty
intervals, the hours of a day a sequence of intervals; TLC evaluates them on every
run).

* `Agenda_proofs`.  The invariant `IInv` adds to the type invariant what each
  request in flight knows: every slot it has already checked is free, except for
  rows placed while it ran, and those are in `concurrent` as soon as it commits
  (`ApptsSeen`, `BlocksSeen`, `ConfirmSeen`).  The safety properties are not
  inductive without it, because the step that violates them is the write and what
  makes it safe is the check some steps before.  From it: `TypeCorrect`,
  `OverlapIsConcurrent`, `BlockedIsConcurrent`, `BlocksOverlapIsConcurrent`, and
  the action property `CanceledStays`.
  `UnblockTakesRunTheorem` needs a second invariant, `RunInv`: all-day rows cover
  whole days (`RowDays`), so between two neighbours in the list ordered by start
  can only stand a row over one of them, which `BlocksOverlapIsConcurrent` says was
  raced (`RunFound`); from the look for the run on, a neighbour left out was placed
  since or raced (`RunSeen`).  This is where ids must be fresh: with ids that came
  back while a race was still remembered the property was false on three rows,
  and a table hands out no id twice (`FreeBlocks`).
* `Closing_proofs`.  `IInv` adds that a row of a page nobody wrote since the read
  is still due and still belongs to the professional read with it (`PageFresh`).
  From it: `TypeCorrect`, `CompletedPaid`, `IncomeExact`.
  `FewLeftBehindTheorem` counts: of the due rows nobody else wrote, fewer than one
  per full page lie behind a cursor, and when a page is held, at most that many lie
  behind its last row (`BehindFew`).  A page is a slice of the rows in order, and
  the places of a finite set of rows are the numbers from zero on, one each
  (`Positions`): so what a slice leaves behind is the one row skip 1 dropped
  (`SliceLeaves`).
* `Reminders_proofs`.  Three groups of facts.  Rows and copies: whatever a pass
  holds, it holds copies of different rows that were due when it read them, and
  what a copy says of its appointment is so unless it was written since
  (`CopiesOK`, `CopiesCurrent`).  The lock: tokens are unique and a pass has the key
  unless it outlived its lease (`LockOK`), so only one pass holds anything
  (`Alone`).  Messages: what a pass has yet to publish was never published
  (`NotYetSent`), what was published is recorded, still to be recorded, or unsure
  (`SentIsRecorded`).  From them: `RemindersTypeCorrect`, `TwiceOnlyUnsureTheorem`,
  `EverySlotHasJobsTheorem`, and the action property `ReminderIsCurrentTheorem`.
  That a page has a first and a last row, which `CHOOSE` alone does not say, comes
  from the well-founded order of finite sets (`SmallestOf`, `LargestOf`).
  `NeverTogetherTheorem` rests on a second invariant, `Apart`.  When a page ends
  between a push and its WhatsApp, the push no longer waits when the next page is
  read, and the one row that is skipped is the first one behind it: it must be the
  WhatsApp.  `TableOK` says so of the table (the unique index holds, and between a
  push that waits and later rows of its appointment are only rows of that
  appointment), `Reached` of a push that a page contained (no row is put beside it
  later, since what is created or put off is due after the present instant: this is
  where `Stagger` must not be zero), `HandsOK` that every instant a pass told is that
  of such a push, ended, and `GroupsOK` that nothing in its hands is a WhatsApp it
  told; `ToldIsSkipped` is the argument for the next page.  That the rows of one
  `createMany` get ids that follow one another is how the model reads the cuids
  (`NextIds`): ids that two processes generate in the same millisecond could mix.
* `Subscriptions_proofs`.  `NoFreeRide` speaks of moments when no handler runs
  and is broken in between by design (row first, business second).  The invariant
  `Safe` adds what a handler knows: one that believes to be alone is alone
  (`AloneIsAlone`), what it is about to write of the business is true of the row it
  wrote (`ClaimIsTrue`), and an active business without a live row has a handler
  on its way to switch it off or to be recorded as torn (`DebtIsDue`).  `Single` says
  that a handler that found no live row, alone, still sees none.  `SweepKnows` says
  the same of the nightly job: what it found is so, or was written since.  `InOrder`
  follows the store: as long as the events came in order (`next` is not 0), there is
  a history of its phases, one for each event, of which the table and the business
  show the one last handled.  From them: `TypeCorrect`, `NoFreeRideTheorem`,
  `OneSubscriptionTheorem`, `InSyncTheorem`, and the action property
  `SweepOnlyExpiredTheorem`.
* `Accounts_proofs`, the largest, in four layers.  `CodesInv`: every code was
  generated for one row, rows keep request and address, a consumed row had its code
  received; each message costs one code, so codes never run out.  On it rests
  `MissesCounted`: the wrong guesses at a code are its counted attempts and those
  whose calls have yet to count them, from which `GuessesBoundedTheorem`.
  `PhoneRows`: a phone row has one sender, a row that is being sent is new, and a
  call that judged a row judged that row.  Then the handlers: `WorkFits` (a handler
  past its check holds a validated request), `ValidKeyIsProven` (so does a key),
  `OneOwner` (nobody else claims the address of a phone request), from which
  `NothingUnprovenTheorem`.  Last `OnceInv`: a request no two calls work on has one
  worker, and once it changed a password it is over (`ChangedIsOver`), from which
  `OneChangeTheorem`.  The user cache, which shares no variable: nobody makes a
  clean copy while a writer works (`FillsSpoiled`), a clean copy under way is the
  row (`FillsFresh`), the key is the row or a writer has yet to delete it
  (`KeyFresh`), and a writer past his deletion has left no clean key
  (`ClearedFirst`), from which `CleanStaysFresh`.
* `Redis_proofs`, two parts that share no variable.  Refresh tokens: `CallOK` says
  what a call may rely on at its place: it holds the lock of the token it rotates
  unless that lock ran out; a token about to be rotated has no successor yet; a
  release whose watch stands notices that the lock has changed hands.  `IssuingOK`
  and `Numbered` make a new token nobody's (`SessionsInv`).  From it:
  `TokensRotateOnce`, `LogoutsHold`, and the action property `LocksReleasedByOwner`.
  The distributed lock: `LockInv` is the type invariant and the uniqueness of
  tokens; one of its parts, `EmptyHanded`, says that a worker who waits holds no
  handle.  From it: `LateNext` (a step of a worker whose handle is not the key's
  leaves the key alone) and with it `LeaseKept`, `Spec => IsLease`: the refinement,
  and the action property.
* `Calendar_proofs`.  The two properties speak of moments when all is quiet, so the
  invariant says who still has to act.  `CalendarBase` holds always: where a handler
  can stand, and that an event within reach lies in a calendar still connected.  As
  long as nothing is excused, `Safe` and `Informed` hold with it.  `Safe`: an event
  within reach is the appointment's as it stands and carries its id, or is being
  made, or a handler owes its change (`Shown`); one that lies in a former
  professional's calendar, or that another handler's new event will replace, is
  doomed, its handler having still to delete it (`Astray`, `HandsOK`); and no two
  events are being made at once (`OneMaker`).  `Informed`: a side whose last word is
  no longer true (`UpToDate`) has a notice coming.  Quiet means that nobody owes
  anything any more, from which `CalendarShows` and `BothKnow`.  The proof was worth its length: it
  showed that with four calls an id just stored can be cleared by an older
  cancellation, a staleness that the run with its two calls does not reach and
  `excuse` had not noted.
  In the same module `Times`, which shares no variable with it.  The loop over the
  busy ranges has the invariant `ScanOK`: the cursor stands at the start of the
  opening range or at the end of a busy one, every range already passed ends before
  it (`ScanAt`), and the slots gathered are those that fit and start before the cursor,
  with those of the ranges before (`Gathered`).  A step keeps it because what is free
  between the cursor and its next place is one window (`Cuts`, `PassedBusy`), and what
  fits there counts from the start of the window, which is the start of the free
  stretch (`FitsFrom`, `WindowExact`).  Behind the last busy range the whole opening
  range is gathered (`RangeGathered`), so an answer is exact: `OffersExact`.
  `WitnessOK` carries the two queries: after the first, a minute of the opening hours
  that no appointment covers was free once, or a block has lain on it ever since; the
  second finds that block (`FoundByQuery`).  From it: `OfferedWereFree`.
* `Office_proofs`, nine parts that share no variable.  Streams: a stream lies in
  the bucket of its business exactly as long as it has a heartbeat (`StreamsHear`).
  Ratings: a customer's row, once inserted, is his alone until it is committed or
  given up, so counters and rows change together; the cardinalities come from
  `FiniteSetTheorems` (`RatingsStayTrue`).  People: no two persons have one e-mail,
  no two accounts one person, and whatever is linked, being linked or booked for
  exists (`CustomersStayKnown`).  Confirmations: what a request remembers of the
  appointment is true until a move has crossed it, and then it is noted in `crossed`
  (`HourStaysKnown`).
  Lists: while no rows tie, the number of rows before a row is its place, a page is
  what has its places, and what was there all along and is still unread lies behind
  the pages read (`Ahead`), from which `NoneMissedTheorem`.  Messages: a message is
  waiting, at work or settled (`JobOK`), what a consumer has still to send to was
  sent less often than the message was delivered, and each delivery but the last
  ended with a death (`EachDeviceTriedTheorem`).  Prompts: what was answered has its
  viewing recorded, still to be recorded, or slipped; an update is found by the
  latest of finitely many modals (`ModalRestsTheorem`).  Catalogue: a request's
  values follow from the items it holds, which are the combo's unless two updates
  overlapped, and a request that withdraws remembers every booking made, moved or
  confirmed since it looked (`SoldAsListedTheorem`).  Reports: a total read is that of its range as
  long as nothing was entered since (`TotalsOK`); an instant lies in a day by the
  server's zone exactly if it is charted to that day (`DayWithin`), and the points of
  a chart by several days follow one another and reach the end (`BucketsApart`,
  `BucketsAddUpToTotal`), from which `ReportAddsUpTheorem`.

Every safety invariant and action property of a passing run is a theorem here.
Only model-checked is liveness (`DueIsClosed`, `NobodyIsStuck`, `PendingEnds`),
which under fairness is out of the prover's reach.

## 5. Findings

`agenda_double_booking`, `reminders_stagger` and `subscriptions_cancel_flag` are
recorded in `PROJECT.json`.  Seen while modelling, and kept in the models as the
code has them:

* Agenda: a cancellation is undone by a racing confirmation (`CancelIsFinal` says
  when); a combo appointment moved by its customer shrinks to the duration of its
  first service.
* Calendar: an appointment created with one professional and moved to another before
  the consumer has read the message gets its event in the former one's calendar, and
  the event's id on the new one's appointment (client
  `create-appointment.use-case.ts:356,403,428`).  A canceled appointment that its
  customer moves stays canceled, and the professional is told of its new hour as of
  one that stands (client `reschedule-appointment.use-case.ts:41-78,257`).
* Jobs: a row skipped at a page boundary of the close-due job waits for the next
  run (`FewLeftBehind`); a push and a WhatsApp go out together when the push was
  sent but not recorded.
* Codes: a phone row whose consumer died stays PENDING; first access
  (`first-access.use-case.ts`) sets a password with no code, its comment saying the
  check is still to be written.
* People: `schema.prisma:513` says E.164 of a telephone that registering stores as
  plain digits, so two forms of one number make two persons although the comment
  before speaks of one; a link somebody made before never becomes verified by the
  customer's own booking; `toE164` takes the area code 55 for the country's.
* Catalogue: no code makes a professional of PENDING_VERIFICATION active; an
  inactive professional can be booked by a direct request.  A completed appointment
  can be moved to the future by its customer, is then not counted when its service
  is withdrawn (`soft-delete-service.use-case.ts:50`), and can be confirmed afterwards:
  a future booking of a withdrawn service, with no two requests at once.
* Lists: most orders are by keys that tie, some lists have none.
* Messaging: a WhatsApp token the service refuses stays cached up to an hour.
* Home modals: a comment speaks of seven days where the code counts five
  (`get-home-modal.use-case.ts:172`).
* Analytics: `created_at` is a timestamp without zone, so `at time zone` moves the
  charted day against the totals unless the server's zone is the session's plus
  three hours; `get-analytics.use-case.ts` reads a cache that nothing writes
  (136).
* Streams: the first event is published before anybody is subscribed and is lost; a
  stream nobody subscribes to is kept; an event of another gateway instance reaches
  nobody here.

## 6. Not modelled, and the plan

* The review eligibility job: pages as in the close-due job, a flag set once that
  nothing reads back.
* The Stripe gateway: commented out or reached by no controller.
* Portfolio, images and files: uploads and rows beside them, one request each.
* Controllers, seeds, configuration, templates and texts, the validation of DTOs.
* The cursor of `findMany` (position of the cursor row, then `skip`) is Prisma's
  and is modelled from its documented behaviour; so are PostgreSQL's locks, Redis'
  WATCH, and the queues, from how the code uses them.

What would come next: `Calendar` for two appointments of one professional.
