--------------------------- MODULE Subscriptions ---------------------------
(***************************************************************************)
(* The subscription of a business.  The app store (RevenueCat) sends one   *)
(* webhook per event; the api-gateway puts it on a queue and the payment   *)
(* service handles it with three separate queries: find a row of           *)
(* BusinessSubscription, write it, write Business.is_active.  Webhooks     *)
(* come in any order, more than once or not at all; handlers of several    *)
(* instances overlap; an error is caught and the message acknowledged.  A  *)
(* nightly job switches off the businesses whose free trial is over.       *)
(*                                                                         *)
(* Businesses do not share rows, so one is modelled.  The statuses that no *)
(* handler writes (INCOMPLETE, INCOMPLETE_EXPIRED, UNPAID) are left out,   *)
(* as are payments, the history of plans and the message to the owner.     *)
(* Every event carries the end of its period.                              *)
(***************************************************************************)
EXTENDS Naturals, FiniteSets

CONSTANTS
  Worker,     \* payment instances
  Row,        \* ids of BusinessSubscription rows
  Trial,      \* length of the free trial
  Period,     \* length of a paid period
  Intro,      \* is a purchase a trial of the store: some of TRUE, FALSE
  Buffer,     \* EXPIRATION_BUFFER_MINUTES
  MaxEvents,  \* bound: events the store sends
  MaxRepeats, \* bound: deliveries of an event after its first
  Horizon     \* bound: last instant of the clock

ASSUME RowAssumption == Row # {} /\ IsFiniteSet(Row)
ASSUME IntroAssumption == Intro \subseteq BOOLEAN
ASSUME NumberAssumption == {Trial, Period, Buffer, MaxEvents, MaxRepeats, Horizon} \subseteq Nat

Live == {"ACTIVE", "TRIALING", "PAST_DUE"}
Buying == {"INITIAL_PURCHASE", "RENEWAL", "PRODUCT_CHANGE"}
Ending == {"CANCELLATION", "EXPIRATION", "BILLING_ISSUE"}
Kind == Buying \cup Ending \cup {"UNCANCELLATION", "NON_RENEWING_PURCHASE"}

VARIABLES
  now,      \* the clock
  store,    \* what the store knows of the subscription
  sent,     \* number of events the store has sent
  sky,      \* the events on their way to a handler
  repeats,  \* deliveries after the first
  sub,      \* the BusinessSubscription table; status "NONE" is no row
  active,   \* Business.is_active
  run,      \* the handler each worker executes
  sweep,    \* the nightly job
  next,     \* history: the next event in order; 0 when one was late, lost or
            \* repeated, or was not about the subscription
  torn,     \* history: the last writes of the row and of the business were not
            \* made by one handler alone
  doubled   \* history: what can give a business two live rows has happened

vars == <<now, store, sent, sky, repeats, sub, active, run, sweep, next, torn, doubled>>
local == <<sub, active, run, sweep, torn, doubled>>

Id == 1 .. MaxEvents
Event == [no : Id, kind : Kind, end : Nat, trial : BOOLEAN]
SubRow == [status : Live \cup {"CANCELED", "NONE"}, paid : BOOLEAN, end : Nat,
           cancel : BOOLEAN]
NoRow == [status |-> "NONE", paid |-> FALSE, end |-> 0, cancel |-> FALSE]

(***************************************************************************)
(* A handler: ev its event and row the row it found (sets of at most one), *)
(* cancel the flag read with it, on the value for is_active.  History:     *)
(* alone, no other handler ran at the same time.                           *)
(***************************************************************************)
Idle == [pc |-> "idle", ev |-> {}, row |-> {}, cancel |-> FALSE, on |-> FALSE,
         alone |-> TRUE]
Run == [pc : {"idle", "row", "business"}, ev : SUBSET Event, row : SUBSET Row,
        cancel : BOOLEAN, on : BOOLEAN, alone : BOOLEAN]

TypeOK ==
  /\ now \in 0 .. Horizon
  /\ store \in [on : {"never", "on", "off", "over"}, end : Nat]
  /\ sent \in 0 .. MaxEvents
  /\ sky \subseteq Event
  /\ repeats \in 0 .. MaxRepeats
  /\ sub \in [Row -> SubRow]
  /\ active \in BOOLEAN
  /\ run \in [Worker -> Run]
  /\ sweep \in [pc : {"idle", "found"}, dirty : BOOLEAN]
  /\ next \in Nat
  /\ torn \in BOOLEAN /\ doubled \in BOOLEAN

\* create-account: the business starts with a free trial and is active.
Init == /\ now = 0
        /\ store = [on |-> "never", end |-> 0]
        /\ sent = 0
        /\ sky = {}
        /\ repeats = 0
        /\ \E r \in Row : sub = [[s \in Row |-> NoRow] EXCEPT ![r] =
             [status |-> "ACTIVE", paid |-> FALSE, end |-> Trial, cancel |-> TRUE]]
        /\ active = TRUE
        /\ run = [w \in Worker |-> Idle]
        /\ sweep = [pc |-> "idle", dirty |-> FALSE]
        /\ next = 1
        /\ torn = FALSE
        /\ doubled = FALSE

-----------------------------------------------------------------------------
(* The store, as its events describe it.                                   *)

Send(kind, end, trial) ==
  /\ sent < MaxEvents
  /\ sent' = sent + 1
  /\ sky' = sky \cup {[no |-> sent + 1, kind |-> kind, end |-> end, trial |-> trial]}

Becomes(on, end) == store' = [on |-> on, end |-> end]

\* The owner buys, changes the product, stops and resumes the renewal.
Buy == /\ store.on \in {"never", "over"}
       /\ Becomes("on", now + Period)
       /\ \E trial \in Intro : Send("INITIAL_PURCHASE", now + Period, trial)

Change == /\ store.on = "on" /\ now < store.end
          /\ Becomes("on", now + Period)
          /\ Send("PRODUCT_CHANGE", now + Period, FALSE)

TurnOff == /\ store.on = "on" /\ now < store.end
           /\ Becomes("off", store.end)
           /\ Send("CANCELLATION", store.end, FALSE)

TurnOn == /\ store.on = "off" /\ now < store.end
          /\ Becomes("on", store.end)
          /\ Send("UNCANCELLATION", store.end, FALSE)

\* The store renews, fails to charge, ends or refunds.
Renew == /\ store.on = "on" /\ now >= store.end
         /\ Becomes("on", now + Period)
         /\ Send("RENEWAL", now + Period, FALSE)

Issue == /\ store.on = "on" /\ now >= store.end
         /\ UNCHANGED store
         /\ Send("BILLING_ISSUE", store.end, FALSE)

Expire == /\ store.on \in {"on", "off"} /\ now >= store.end
          /\ Becomes("over", store.end)
          /\ Send("EXPIRATION", store.end, FALSE)

Refund == /\ store.on \in {"on", "off"}
          /\ Becomes("over", now)
          /\ Send("CANCELLATION", now, FALSE)

\* A product that does not renew, bought beside the subscription.
BuyOnce == /\ UNCHANGED store
           /\ next' = 0
           /\ Send("NON_RENEWING_PURCHASE", now + Period, FALSE)

Store == /\ \/ BuyOnce
            \/ /\ \/ Buy \/ Change \/ TurnOff \/ TurnOn
                  \/ Renew \/ Issue \/ Expire \/ Refund
               /\ UNCHANGED next
         /\ UNCHANGED <<now, repeats, local>>

\* publishToQueue swallows an error of the broker: the event is lost.  So is one
\* whose product is none of the plans.
Lose == /\ \E e \in sky : sky' = sky \ {e}
        /\ next' = 0
        /\ UNCHANGED <<now, store, sent, repeats, local>>

-----------------------------------------------------------------------------
(* The handlers.                                                           *)

Busy(w) == run[w].pc # "idle"
Quiet == \A w \in Worker : ~ Busy(w)
Kept(w) == CHOOSE e \in run[w].ev : TRUE
LiveRows == {r \in Row : sub[r].status \in Live}
Stopped == {r \in Row : sub[r].status = "CANCELED"}

\* Mutant: a subscription that is past due is not found.
FindableCurrent(kind) ==
  IF kind = "NON_RENEWING_PURCHASE" THEN {}
  ELSE IF kind = "UNCANCELLATION" THEN Stopped
  ELSE {r \in Row : sub[r].status \in {"ACTIVE", "TRIALING"}}

\* The rows findFirst may return.
Findable(kind) == IF kind = "NON_RENEWING_PURCHASE" THEN {}
                  ELSE IF kind = "UNCANCELLATION" THEN Stopped ELSE LiveRows

Begun(e, row, cancel) == [pc |-> "row", ev |-> {e}, row |-> row, cancel |-> cancel,
                          on |-> FALSE, alone |-> Quiet]

\* The others learn that they do not run alone.
Joined(w, r) == [v \in Worker |-> IF v = w THEN r
                                  ELSE IF Busy(v) THEN [run[v] EXCEPT !.alone = FALSE]
                                  ELSE run[v]]

\* A message arrives, for the first time or again, and its handler finds a row;
\* without one only purchases go on.
Take(w) ==
  /\ ~ Busy(w)
  /\ \E e \in sky :
       /\ \/ sky' = sky \ {e} /\ UNCHANGED repeats
          \/ repeats < MaxRepeats /\ repeats' = repeats + 1 /\ UNCHANGED sky
       /\ next' = IF e.no = next /\ e \notin sky' /\ Quiet THEN next + 1 ELSE 0
       /\ IF Findable(e.kind) # {}
          THEN \E r \in Findable(e.kind) :
                 run' = Joined(w, Begun(e, {r}, sub[r].cancel))
          ELSE run' = IF e.kind \in Buying \cup {"NON_RENEWING_PURCHASE"}
                      THEN Joined(w, Begun(e, {}, FALSE)) ELSE run
  /\ UNCHANGED <<now, store, sent, sub, active, sweep, torn, doubled>>

\* Mutant: one that ends at this very instant is not over.
ExpireNowStrict(e) == e.kind = "CANCELLATION" /\ e.end < now + Buffer

\* The period of a cancellation is over, or nearly.
ExpireNow(e) == e.kind = "CANCELLATION" /\ e.end <= now + Buffer

\* What each handler makes of the row s it found, or of a new one.
Bought(e) == [status |-> IF e.trial THEN "TRIALING" ELSE "ACTIVE", paid |-> TRUE,
              end |-> e.end, cancel |-> FALSE]
Changed(e) == Bought(e)
Renewed(e) == [status |-> "ACTIVE", paid |-> TRUE, end |-> e.end, cancel |-> FALSE]
BoughtOnce(e) == [status |-> "ACTIVE", paid |-> TRUE, end |-> e.end, cancel |-> TRUE]
Resumed(e, s) == [s EXCEPT !.status = "ACTIVE", !.end = e.end, !.cancel = FALSE]
Expired(e, s) == [s EXCEPT !.status = "CANCELED", !.end = e.end, !.cancel = TRUE]
EndsLater(e, s) == [s EXCEPT !.end = e.end, !.cancel = TRUE]
PastDue(e, s, cancel) == [s EXCEPT !.status = "PAST_DUE", !.end = e.end, !.cancel = cancel]

Written(e, s, cancel) ==
  CASE e.kind = "INITIAL_PURCHASE" -> Bought(e)
    [] e.kind = "PRODUCT_CHANGE" -> Changed(e)
    [] e.kind = "RENEWAL" -> Renewed(e)
    [] e.kind = "NON_RENEWING_PURCHASE" -> BoughtOnce(e)
    [] e.kind = "UNCANCELLATION" -> Resumed(e, s)
    [] e.kind = "EXPIRATION" \/ ExpireNow(e) -> Expired(e, s)
    [] e.kind = "CANCELLATION" /\ ~ ExpireNow(e) -> EndsLater(e, s)
    [] e.kind = "BILLING_ISSUE" -> PastDue(e, s, cancel)

Switches(e) == e.kind \notin {"BILLING_ISSUE", "CANCELLATION"} \/ ExpireNow(e)
SwitchesOn(e) == e.kind \notin {"CANCELLATION", "EXPIRATION"}

\* The row that was found is written by id, or a new one is created.
WriteRow(w) ==
  /\ run[w].pc = "row"
  /\ \E r \in IF run[w].row # {} THEN run[w].row
              ELSE {s \in Row : sub[s].status = "NONE"} :
       /\ sub' = [sub EXCEPT ![r] = Written(Kept(w), sub[r], run[w].cancel)]
       /\ doubled' = (doubled \/ (/\ Kept(w).kind \in {"NON_RENEWING_PURCHASE", "UNCANCELLATION"}
                                  /\ LiveRows # {})
                              \/ ~ run[w].alone)
  /\ run' = [run EXCEPT ![w] = IF Switches(Kept(w))
                               THEN [run[w] EXCEPT !.pc = "business", !.on = SwitchesOn(Kept(w))]
                               ELSE Idle]
  /\ sweep' = [sweep EXCEPT !.dirty = (sweep.pc = "found")]
  /\ UNCHANGED <<now, store, sent, sky, repeats, active, next, torn>>

\* Mutant: an expiration leaves the business switched on.
WriteBusinessOn(w) ==
  /\ run[w].pc = "business"
  /\ active' = TRUE
  /\ torn' = ~ run[w].alone
  /\ run' = [run EXCEPT ![w] = Idle]
  /\ UNCHANGED <<now, store, sent, sky, repeats, sub, sweep, next, doubled>>

WriteBusiness(w) ==
  /\ run[w].pc = "business"
  /\ active' = run[w].on
  /\ torn' = ~ run[w].alone
  /\ run' = [run EXCEPT ![w] = Idle]
  /\ UNCHANGED <<now, store, sent, sky, repeats, sub, sweep, next, doubled>>

\* A query fails: the error is caught and the message acknowledged.
Fail(w) ==
  /\ Busy(w)
  /\ run' = [run EXCEPT ![w] = Idle]
  /\ torn' = (torn \/ run[w].pc = "business")
  /\ next' = 0
  /\ UNCHANGED <<now, store, sent, sky, repeats, sub, active, sweep, doubled>>

\* The process dies: the message is delivered again.
Crash(w) ==
  /\ Busy(w)
  /\ repeats < MaxRepeats
  /\ repeats' = repeats + 1
  /\ sky' = sky \cup run[w].ev
  /\ run' = [run EXCEPT ![w] = Idle]
  /\ torn' = (torn \/ run[w].pc = "business")
  /\ next' = 0
  /\ UNCHANGED <<now, store, sent, sub, active, sweep, doubled>>

-----------------------------------------------------------------------------
(* The nightly job.                                                        *)

Ongoing(r) == sub[r].status \in Live /\ sub[r].end > now
TrialOver == \E r \in Row : sub[r].status # "NONE" /\ ~ sub[r].paid /\ sub[r].end <= now

\* Mutant: any expired trial counts.
ExpiredTrial == active /\ TrialOver

ExpiredFree == /\ active
               /\ TrialOver
               /\ \A r \in Row : sub[r].status # "NONE" => ~ sub[r].paid
               /\ \A r \in Row : ~ Ongoing(r)

SweepFind == /\ sweep.pc = "idle"
             /\ ExpiredFree
             /\ sweep' = [pc |-> "found", dirty |-> FALSE]
             /\ UNCHANGED <<now, store, sent, sky, repeats, sub, active, run, next,
                            torn, doubled>>

\* updateMany by id; or the job dies, or its query fails.
SweepWrite == /\ sweep.pc = "found"
              /\ active' \in {active, FALSE}
              /\ sweep' = [pc |-> "idle", dirty |-> FALSE]
              /\ next' = IF sweep.dirty \/ \E w \in Worker : Busy(w) THEN 0 ELSE next
              /\ UNCHANGED <<now, store, sent, sky, repeats, sub, run, torn, doubled>>

Tick == /\ now < Horizon
        /\ now' = now + 1
        /\ UNCHANGED <<store, sent, sky, repeats, local, next>>

Next == \/ Store \/ Lose \/ Tick \/ SweepFind \/ SweepWrite
        \/ \E w \in Worker : Take(w) \/ WriteRow(w) \/ WriteBusiness(w) \/ Fail(w) \/ Crash(w)

Spec == Init /\ [][Next]_vars

-----------------------------------------------------------------------------
\* Whatever order the events came in and however often, a business that is
\* switched on has a live subscription, unless two handlers overlapped or one
\* failed between its two writes; the next event handled alone repairs that.
NoFreeRide == Quiet /\ active => torn \/ LiveRows # {}

\* When the events of the subscription were handled in order, each once, by one
\* handler at a time, and no sweep raced them, the business is switched on as
\* long as the store's subscription runs, and off when it is over.  (Within
\* Buffer of its end a canceled one may be off already.)
InSync ==
  Quiet /\ sky = {} /\ next = sent + 1
  => /\ store.on = "on" => active
     /\ store.on = "off" /\ store.end > now + Buffer => active
     /\ store.on = "over" => ~ active

\* While the sweep is about to write, a business with a running subscription is
\* switched off only if that was written after the sweep had read the business.
SweepOnlyExpired ==
  [][sweep.pc = "found" /\ active /\ ~ active' /\ (\E r \in Row : Ongoing(r))
     => sweep.dirty]_vars

\* A business has one live subscription, so that the first one found is the
\* one: a second appears only beside a purchase that does not renew, through an
\* uncancellation that revives an old row, or from handlers that overlapped.
OneSubscription == Cardinality(LiveRows) > 1 => doubled

\* "indica que sera cancelada ao final do periodo": with all events handled in
\* order, the flag of a live paid row says whether the store will renew it.
CancelFlagIsTrue ==
  Quiet /\ sky = {} /\ next = sent + 1 /\ store.on = "on"
  => \A r \in LiveRows : sub[r].paid => ~ sub[r].cancel

=============================================================================
