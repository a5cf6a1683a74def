-------------------------- MODULE Calendar_proofs ---------------------------
(***************************************************************************)
(* What a change of an appointment leaves in the calendars and with both   *)
(* sides, for any number of professionals, slots, handlers and events.     *)
(*                                                                         *)
(* CalendarBase says where the handlers and the consumer can stand.  Each  *)
(* action has a lemma (...Step) that keeps it and says what the action     *)
(* leaves alone.  On top of it, as long as nothing has failed and no step  *)
(* acted on what was no longer so:                                         *)
(*   Safe      an event within reach that is not the appointment's as it   *)
(*             stands is owed by some handler, and one that has gone       *)
(*             astray is doomed: its handler will delete it;               *)
(*   Informed  a side that does not know has a notice coming.              *)
(* Once all is quiet nobody owes anything any more.                        *)
(*                                                                         *)
(* And what the times offered are worth, for any opening hours and agenda. *)
(* The scan of an opening range (ScanAt) stands behind the busy ranges it  *)
(* has passed; what it has gathered (Gathered) is what fits before the     *)
(* cursor, and a minute the first query did not find busy was free once,   *)
(* or a block has lain on it ever since (WitnessOK).                       *)
(***************************************************************************)
EXTENDS Calendar, Times, TLAPS

\* An event there is, in a calendar within reach.
InSight(e) == Exists(e) /\ google[e].reach

PlaceOK(k) ==
    /\ k.event # None => google[k.event] # None
    /\ k.at \in {"delete", "clear", "both", "update", "new calendar", "create", "store"} => k.event # None
    /\ k.at = "delete" => k.kind = "pro cancels" \/ ToAnother(k)
    /\ k.at = "clear" => k.kind = "pro cancels" /\ ~InSight(k.event)
    /\ k.at = "both" => k.kind = "customer cancels"
    /\ k.at = "update" => k.kind # "customer cancels" /\ ~ToAnother(k) /\ k.kind # "pro cancels"
    /\ k.at \in {"new calendar", "create", "store"} => ToAnother(k)

CalendarBase ==
    /\ CalendarTypeOK
    /\ \A e \in EventIds : InSight(e) => row[google[e].pro] = "good"
    /\ \A c \in Calls : call[c] # None => PlaceOK(call[c]) /\ appt # None
    /\ consumer # None => message # None
    /\ appt = None => message = None /\ \A e \in EventIds : google[e] = None
    /\ appt # None => (appt.event # None => google[appt.event] # None)
    /\ consumer # None => (consumer.at = "store" => google[consumer.event] # None)

\* What stays of a call while it works.
Like(x, k) ==
    /\ x.kind = k.kind /\ x.slot = k.slot /\ x.pro = k.pro /\ x.oldPro = k.oldPro /\ x.event = k.event

LEMMA ConsumerFields ==
  ASSUME CalendarTypeOK, consumer # None
  PROVE  /\ consumer.at \in {"read", "create", "store"} /\ consumer.pro \in Pros
         /\ consumer.at = "create" => consumer.slot \in Slots
         /\ consumer.at = "store" => consumer.event \in EventIds
BY DEF CalendarTypeOK, ConsumerRow

LEMMA GoShape ==
  ASSUME CalendarTypeOK, NEW c \in Calls, call[c] # None, NEW place \in Places, Go(c, place)
  PROVE  \E x \in CallRow : /\ call' = [call EXCEPT ![c] = x] /\ Like(x, call[c])
                            /\ x.at = place /\ x.todo = call[c].todo
<1> DEFINE x == [call[c] EXCEPT !.at = place]
<1>1. call[c] \in CallRow
  BY DEF CalendarTypeOK
<1>2. x \in CallRow /\ Like(x, call[c]) /\ x.at = place /\ x.todo = call[c].todo
  BY <1>1 DEF CallRow, Like
<1>3. call' = [call EXCEPT ![c] = x]
  BY DEF Go
<1> QED BY <1>2, <1>3

LEMMA CallsAfter ==
  ASSUME CalendarTypeOK, NEW c \in Calls, NEW x \in CallRow \cup {None}, call' = [call EXCEPT ![c] = x]
  PROVE  /\ call' \in [Calls -> CallRow \cup {None}] /\ call'[c] = x
         /\ \A d \in Calls : d # c => call'[d] = call[d]
BY DEF CalendarTypeOK

LEMMA RowsAreNot ==
  /\ None # Gone /\ None \notin EventIds /\ "customer" \notin Pros
  /\ \A x \in ApptRow : x # None
  /\ \A x \in CallRow : x # None
  /\ \A x \in ConsumerRow : x # None
  /\ \A x \in EventRow : x # None /\ x # Gone
  /\ \A x \in NoticeRow : x # None
BY CalendarAssumption DEF CalendarAssumption

\* Each event of its own kind.
LEMMA SightFrame ==
  ASSUME CalendarTypeOK, NEW e \in EventIds, google'[e] = google[e]
  PROVE  InSight(e)' <=> InSight(e)
BY DEF InSight, Exists

-----------------------------------------------------------------------------
(* How each call to Google changes the events: one is made where there was *)
(* none, one is deleted, one is moved, or a calendar gets out of reach.    *)
Narrows ==
    /\ google' \in [EventIds -> EventRow \cup {None, Gone}]
    /\ \A e \in EventIds : google[e] # None => google'[e] # None
    /\ \A e \in EventIds : InSight(e)' => InSight(e) /\ google'[e].pro = google[e].pro

LEMMA DeletedNarrows ==
  ASSUME CalendarTypeOK, NEW e \in EventIds, google' = Deleted(e)
  PROVE  Narrows /\ google'[e] = Gone /\ ~InSight(e)' /\ \A f \in EventIds : f # e => google'[f] = google[f]
<1>1. google'[e] = Gone /\ \A f \in EventIds : f # e => google'[f] = google[f]
  BY DEF Deleted, CalendarTypeOK
<1>2. google' \in [EventIds -> EventRow \cup {None, Gone}]
  BY DEF Deleted, CalendarTypeOK
<1>3. ~InSight(e)'
  BY <1>1 DEF InSight, Exists
<1> QED BY <1>1, <1>2, <1>3, RowsAreNot DEF Narrows, InSight, Exists

LEMMA PatchedNarrows ==
  ASSUME CalendarTypeOK, NEW e \in EventIds, Exists(e), NEW s \in Slots, google' = Patched(e, s)
  PROVE  /\ Narrows /\ google'[e].slot = s /\ google'[e].pro = google[e].pro
         /\ \A f \in EventIds : f # e => google'[f] = google[f]
<1>1. google[e] \in EventRow
  BY DEF CalendarTypeOK, Exists
<1> DEFINE x == [google[e] EXCEPT !.slot = s]
<1>2. x \in EventRow /\ x.slot = s /\ x.pro = google[e].pro /\ x.reach = google[e].reach
  BY <1>1 DEF EventRow
<1>3. google' = [google EXCEPT ![e] = x]
  BY DEF Patched
<1> HIDE DEF x
<1>4. google'[e] = x /\ \A f \in EventIds : f # e => google'[f] = google[f]
  BY <1>3 DEF CalendarTypeOK
<1>5. google' \in [EventIds -> EventRow \cup {None, Gone}]
  BY <1>2, <1>3 DEF CalendarTypeOK
<1>6. InSight(e)' => InSight(e)
  BY <1>2, <1>4 DEF InSight, Exists
<1>7. google'[e] # None
  BY <1>2, <1>4, RowsAreNot
<1> QED BY <1>2, <1>4, <1>5, <1>6, <1>7 DEF Narrows, InSight, Exists

LEMMA UnreachableNarrows ==
  ASSUME CalendarTypeOK, NEW p \in Pros, google' = Unreachable(p)
  PROVE  /\ Narrows
         /\ \A e \in EventIds : InSight(e)' => google'[e] = google[e] /\ google[e].pro # p
<1> SUFFICES ASSUME NEW e \in EventIds
             PROVE  /\ google'[e] \in EventRow \cup {None, Gone}
                    /\ google[e] # None => google'[e] # None
                    /\ InSight(e)' => google'[e] = google[e] /\ google[e].pro # p
  BY DEF Narrows, Unreachable, InSight, Exists
<1>1. e # None
  BY RowsAreNot
<1>2. CASE InCalendar(e, p)
  <2>1. google[e] \in EventRow
    BY <1>2 DEF InCalendar, Exists, CalendarTypeOK
  <2> DEFINE x == [google[e] EXCEPT !.reach = FALSE]
  <2>2. x \in EventRow /\ ~x.reach
    BY <2>1 DEF EventRow
  <2>3. google'[e] = x
    BY <1>2 DEF Unreachable
  <2> HIDE DEF x
  <2>4. ~InSight(e)'
    BY <2>2, <2>3 DEF InSight
  <2> QED BY <2>2, <2>3, <2>4, RowsAreNot
<1>3. CASE ~InCalendar(e, p)
  <2>1. google'[e] = google[e]
    BY <1>3 DEF Unreachable
  <2> QED BY <1>1, <1>3, <2>1 DEF InSight, InCalendar, Exists, CalendarTypeOK
<1> QED BY <1>2, <1>3

LEMMA MadeShape ==
  ASSUME CalendarTypeOK, NEW e \in EventIds, google[e] = None, NEW p \in Pros, NEW s \in Slots,
         google' = [google EXCEPT ![e] = Event(p, s)]
  PROVE  /\ google' \in [EventIds -> EventRow \cup {None, Gone}]
         /\ google'[e] = Event(p, s) /\ google'[e].pro = p /\ google'[e].slot = s /\ google'[e] # None
         /\ \A f \in EventIds : f # e => google'[f] = google[f]
<1>1. Event(p, s) \in EventRow /\ Event(p, s).pro = p /\ Event(p, s).slot = s
  BY DEF Event, EventRow
<1> QED BY <1>1, RowsAreNot DEF CalendarTypeOK

Older ==
    \A e \in EventIds : google[e] # None => google'[e] # None /\ (InSight(e)' => InSight(e))

LEMMA PlaceFrame ==
  ASSUME Older, NEW k \in CallRow, PlaceOK(k)
  PROVE  PlaceOK(k)'
<1>1. k.event \in EventIds \cup {None}
  BY DEF CallRow
<1>2. k.at = "clear" => k.event \in EventIds /\ google[k.event] # None
  BY <1>1 DEF PlaceOK
<1> QED BY <1>1, <1>2 DEF PlaceOK, Older, ToAnother

LEMMA BaseStep ==
  ASSUME CalendarBase, CalendarTypeOK', Older,
         \A e \in EventIds : InSight(e)' => row'[google'[e].pro] = "good",
         \A c \in Calls : call'[c] # None => call'[c] = call[c] \/ PlaceOK(call[c])',
         appt' # None,
         (consumer # None => message # None)',
         appt'.event # None => google'[appt'.event] # None,
         consumer' # None => (consumer'.at = "store" => google'[consumer'.event] # None)
  PROVE  CalendarBase'
<1>1. ASSUME NEW c \in Calls, call'[c] # None PROVE PlaceOK(call[c])'
  <2>1. CASE call'[c] = call[c]
    <3> PICK k : k = call[c]
      OBVIOUS
    <3>1. k \in CallRow /\ PlaceOK(k)
      BY <1>1, <2>1 DEF CalendarBase, CalendarTypeOK
    <3>2. PlaceOK(k)'
      BY <3>1, PlaceFrame
    <3>3. call'[c] = k
      BY <2>1
    <3> QED BY <3>2, <3>3 DEF PlaceOK, ToAnother, InSight, Exists
  <2> QED BY <1>1, <2>1
<1> QED BY <1>1 DEF CalendarBase

\* What the steps of one call have in common.
CallStep(c, x) ==
    /\ UNCHANGED <<row, linking, message, consumer, calls, links>>
    /\ appt # None /\ appt' \in ApptRow
    /\ call' = [call EXCEPT ![c] = x] /\ x \in CallRow \cup {None}

LEMMA CallBase ==
  ASSUME CalendarBase, NEW c \in Calls, NEW x, CallStep(c, x), Narrows,
         knows' \in [Sides -> NoticeRow \cup {None}],
         excuse' \subseteq {"failure", "stale"},
         x # None => PlaceOK(x)',
         appt'.event # None => google'[appt'.event] # None
  PROVE  CalendarBase'
<1>1. CalendarTypeOK'
  BY DEF CalendarBase, CalendarTypeOK, CallStep, Narrows
<1>2. Older
  BY DEF Older, Narrows
<1>3. \A e \in EventIds : InSight(e)' => row'[google'[e].pro] = "good"
  BY DEF Narrows, CalendarBase, CallStep
<1>4. \A d \in Calls : d # c => call'[d] = call[d]
  BY CallsAfter DEF CallStep, CalendarBase
<1>5. call'[c] = x
  BY CallsAfter DEF CallStep, CalendarBase
<1>6. ASSUME NEW d \in Calls, call'[d] # None PROVE call'[d] = call[d] \/ PlaceOK(call[d])'
  <2>1. CASE d = c
    BY <1>5, <1>6, <2>1 DEF PlaceOK, ToAnother, InSight, Exists
  <2> QED BY <1>4, <2>1
<1>7. appt' # None
  BY RowsAreNot DEF CallStep
<1>8. (consumer # None => message # None)'
  BY DEF CallStep, CalendarBase
<1>9. consumer' # None => (consumer'.at = "store" => google'[consumer'.event] # None)
  <2> SUFFICES ASSUME consumer # None, consumer.at = "store" PROVE google'[consumer.event] # None
    BY DEF CallStep
  <2> QED BY ConsumerFields, <1>2 DEF CalendarBase, Older
<1> QED BY <1>1, <1>2, <1>3, <1>6, <1>7, <1>8, <1>9, BaseStep

LEMMA NothingNarrows ==
  ASSUME CalendarTypeOK, UNCHANGED google PROVE Narrows
BY DEF Narrows, CalendarTypeOK, InSight, Exists

\* The place a call has reached, and what it holds there.
LEMMA Holds ==
  ASSUME CalendarBase, NEW c \in Calls, NEW place, InCall(c, place)
  PROVE  /\ call[c] # None /\ call[c] \in CallRow /\ PlaceOK(call[c]) /\ call[c].at = place
         /\ appt # None /\ appt \in ApptRow
BY DEF CalendarBase, CalendarTypeOK, InCall

LEMMA StaleTyped ==
  ASSUME CalendarBase, NEW wrong \in BOOLEAN, Stale(wrong)
  PROVE  excuse' \subseteq {"failure", "stale"}
BY DEF CalendarBase, CalendarTypeOK, Stale

\* A call that did not reach its end goes on as it was.
Onward(c, x) ==
    /\ CallStep(c, x) /\ (x # None => Like(x, call[c]))

LEMMA OnwardTo ==
  ASSUME CalendarBase, NEW c \in Calls, call[c] # None, appt # None,
         UNCHANGED <<appt, row, linking, message, consumer, calls, links>>,
         NEW place \in Places \cup {"end"}, GoOn(c, place)
  PROVE  \E x : /\ Onward(c, x) /\ (x = None <=> place = "end")
                /\ x # None => x.at = place /\ x.todo = call[c].todo
<1>1. appt' \in ApptRow
  BY DEF CalendarBase, CalendarTypeOK
<1>2. CASE place = "end"
  <2>1. call' = [call EXCEPT ![c] = None]
    BY <1>2 DEF GoOn, Finish
  <2> QED BY <1>1, <1>2, <2>1 DEF Onward, CallStep
<1>3. CASE place # "end"
  <2>1. Go(c, place) /\ place \in Places
    BY <1>3 DEF GoOn
  <2>2. PICK x \in CallRow : /\ call' = [call EXCEPT ![c] = x] /\ Like(x, call[c])
                             /\ x.at = place /\ x.todo = call[c].todo
    BY <2>1, GoShape DEF CalendarBase
  <2>3. x # None
    BY RowsAreNot
  <2> QED BY <1>1, <1>3, <2>2, <2>3 DEF Onward, CallStep
<1> QED BY <1>2, <1>3

KnowsOK == knows \in [Sides -> NoticeRow \cup {None}]

LEMMA KnowsKept ==
  ASSUME CalendarBase, UNCHANGED knows
  PROVE  KnowsOK'
BY DEF CalendarBase, CalendarTypeOK, KnowsOK

LEMMA EventKept ==
  ASSUME CalendarBase, appt # None, UNCHANGED <<appt, google>>
  PROVE  appt'.event # None => google'[appt'.event] # None
BY DEF CalendarBase

LEMMA FindCalendarStep ==
  ASSUME CalendarBase, NEW c \in Calls, FindCalendar(c)
  PROVE  /\ CalendarBase' /\ UNCHANGED <<appt, google, knows, excuse>>
         /\ \E x : /\ Onward(c, x) /\ (x = None => call[c].kind # "customer cancels")
                   /\ x # None => x.at # "commit" /\ x.at # "store"
                   /\ call[c].event # None /\ row[call[c].oldPro] # "none" =>
                        /\ x # None /\ x.todo = {"delete", "clear"}
                        /\ x.at \in {"both", "delete", "update"}
                   /\ call[c].event # None /\ row[call[c].oldPro] = "none" =>
                        x = None \/ x.at \in {"new calendar", "notify"}
                   /\ call[c].kind = "customer cancels" => x.at \in {"both", "notify"}
<1> PICK k : k = call[c]
  OBVIOUS
<1>1. /\ InCall(c, "calendar") /\ k \in CallRow /\ k # None /\ PlaceOK(k) /\ k.at = "calendar"
      /\ appt # None /\ appt \in ApptRow /\ CalendarTypeOK
      /\ UNCHANGED <<appt, row, linking, google, message, consumer, knows, excuse, calls, links>>
  BY Holds DEF FindCalendar, CalendarBase, agendaRow
<1>2. \E x : /\ Onward(c, x) /\ (x = None => k.kind # "customer cancels")
             /\ x # None => x.at # "commit" /\ x.at # "store"
             /\ x # None => PlaceOK(x)
             /\ k.event # None /\ row[k.oldPro] # "none" =>
                  /\ x # None /\ x.todo = {"delete", "clear"}
                  /\ x.at \in {"both", "delete", "update"}
             /\ k.event # None /\ row[k.oldPro] = "none" => x = None \/ x.at \in {"new calendar", "notify"}
             /\ k.kind = "customer cancels" => x.at \in {"both", "notify"}
  <2>1. CASE k.event = None \/ (k.event # None /\ row[k.oldPro] = "none")
    <3> DEFINE place == IF k.event = None \/ ~ToAnother(k) THEN After(k) ELSE "new calendar"
    <3>1. GoOn(c, place)
      BY <2>1 DEF FindCalendar
    <3>2. /\ place \in {"notify", "end", "new calendar"}
          /\ place = "new calendar" => ToAnother(k) /\ k.event # None
          /\ place = "end" => k.kind # "customer cancels"
          /\ k.kind = "customer cancels" => place = "notify"
      BY DEF After, ToAnother
    <3> HIDE DEF place
    <3>3. PICK x : /\ Onward(c, x) /\ (x = None <=> place = "end")
                   /\ x # None => x.at = place /\ x.todo = call[c].todo
      BY <1>1, <3>1, <3>2, OnwardTo DEF Places
    <3>4. x # None => PlaceOK(x)
      BY <1>1, <3>2, <3>3 DEF Onward, Like, PlaceOK, ToAnother
    <3> QED BY <2>1, <3>2, <3>3, <3>4
  <2>2. CASE k.event # None /\ row[k.oldPro] # "none"
    <3> DEFINE x == [k EXCEPT !.at = StartOf(k), !.todo = {"delete", "clear"}]
    <3>0. /\ StartOf(k) \in {"both", "delete", "update"}
          /\ StartOf(k) = "both" <=> k.kind = "customer cancels"
          /\ StartOf(k) = "delete" => k.kind = "pro cancels" \/ ToAnother(k)
          /\ StartOf(k) = "update" => k.kind # "pro cancels" /\ ~ToAnother(k)
      BY <1>1 DEF StartOf
    <3>1. x \in CallRow /\ Like(x, k) /\ x.at = StartOf(k) /\ x.todo = {"delete", "clear"}
      BY <1>1, <3>0 DEF CallRow, Places, Like
    <3>2. call' = [call EXCEPT ![c] = x]
      BY <2>2 DEF FindCalendar
    <3> HIDE DEF x
    <3>3. x # None /\ Onward(c, x)
      BY <1>1, <3>1, <3>2, RowsAreNot DEF Onward, CallStep
    <3>4. PlaceOK(x)
      BY <1>1, <2>2, <3>0, <3>1 DEF Like, PlaceOK, ToAnother
    <3> QED BY <2>2, <3>0, <3>1, <3>3, <3>4
  <2> QED BY <2>1, <2>2
<1>3. ASSUME NEW x, Onward(c, x), x # None => PlaceOK(x) PROVE CalendarBase'
  <2>1. x # None => PlaceOK(x)'
    BY <1>1, <1>3 DEF PlaceOK, ToAnother, InSight, Exists
  <2>2. excuse' \subseteq {"failure", "stale"}
    BY <1>1 DEF CalendarTypeOK
  <2> QED BY <1>1, <1>3, <2>1, <2>2, CallBase, KnowsKept, EventKept, NothingNarrows DEF Onward, KnowsOK
<1> QED BY <1>1, <1>2, <1>3

LEMMA EnterNewCalendarStep ==
  ASSUME CalendarBase, NEW c \in Calls, EnterNewCalendar(c)
  PROVE  /\ CalendarBase' /\ UNCHANGED <<appt, google, knows, excuse>>
         /\ call[c].at = "new calendar"
         /\ \E x : Onward(c, x) /\ (x # None => x.at = "create" /\ x.todo = call[c].todo)
<1> PICK k : k = call[c]
  OBVIOUS
<1>1. /\ InCall(c, "new calendar") /\ k \in CallRow /\ k # None /\ PlaceOK(k) /\ k.at = "new calendar"
      /\ appt # None /\ appt \in ApptRow /\ CalendarTypeOK
      /\ UNCHANGED <<appt, row, linking, google, message, consumer, knows, excuse, calls, links>>
  BY Holds DEF EnterNewCalendar, CalendarBase, agendaRow
<1>2. PICK place \in {"end", "create"} : GoOn(c, place)
  BY DEF EnterNewCalendar
<1>3. PICK x : /\ Onward(c, x) /\ (x = None <=> place = "end")
               /\ x # None => x.at = place /\ x.todo = call[c].todo
  BY <1>1, <1>2, OnwardTo DEF Places
<1>4. x # None => PlaceOK(x)'
  BY <1>1, <1>2, <1>3 DEF Onward, Like, PlaceOK, ToAnother, InSight, Exists
<1>5. excuse' \subseteq {"failure", "stale"}
  BY <1>1 DEF CalendarTypeOK
<1>6. CalendarBase'
  BY <1>1, <1>3, <1>4, <1>5, CallBase, KnowsKept, EventKept, NothingNarrows DEF Onward, KnowsOK
<1> QED BY <1>1, <1>2, <1>3, <1>6

LEMMA DieStep ==
  ASSUME CalendarBase, NEW c \in Calls, Die(c)
  PROVE  CalendarBase' /\ "failure" \in excuse' /\ excuse \subseteq excuse'
<1>1. /\ call[c] # None /\ appt # None /\ appt \in ApptRow /\ CalendarTypeOK
      /\ UNCHANGED <<appt, row, linking, google, message, consumer, knows, calls, links>>
      /\ excuse' = excuse \cup {"failure"} /\ call' = [call EXCEPT ![c] = None]
  BY DEF Die, Finish, CalendarBase, CalendarTypeOK, agendaRow
<1>2. CallStep(c, None)
  BY <1>1 DEF CallStep
<1>3. excuse' \subseteq {"failure", "stale"}
  BY <1>1 DEF CalendarTypeOK
<1>4. CalendarBase'
  BY <1>1, <1>2, <1>3, CallBase, KnowsKept, EventKept, NothingNarrows DEF KnowsOK
<1> QED BY <1>1, <1>4

LEMMA CleanStale ==
  ASSUME CalendarBase, NEW wrong \in BOOLEAN, Stale(wrong)
  PROVE  excuse' \subseteq {"failure", "stale"} /\ (excuse' = {} => excuse = {} /\ ~wrong)
BY DEF CalendarBase, CalendarTypeOK, Stale

LEMMA CleanRefused ==
  ASSUME CalendarBase, NEW p \in Pros, Refused(p)
  PROVE  excuse' \subseteq {"failure", "stale"} /\ (excuse' = {} => excuse = {} /\ row[p] # "good")
BY DEF CalendarBase, CalendarTypeOK, Refused

LEMMA NoticeTyped ==
  ASSUME CalendarTypeOK, appt \in ApptRow, NEW k \in CallRow
  PROVE  /\ Notice(k) \in NoticeRow
         /\ Addressee(k) \in Sides
BY DEF Notice, Addressee, Sides, ApptRow, CallRow, NoticeRow

LEMMA NotifyStep ==
  ASSUME CalendarBase, NEW c \in Calls, Notify(c)
  PROVE  /\ CalendarBase' /\ UNCHANGED <<appt, google>>
         /\ call[c].at = "notify" /\ call[c] \in CallRow
         /\ \E x : /\ Onward(c, x) /\ (x = None <=> call[c].kind = "customer cancels")
                   /\ x # None => x.at = "calendar" /\ x.todo = call[c].todo
         /\ excuse' = {} => /\ excuse = {} /\ knows' = [knows EXCEPT ![Addressee(call[c])] = Notice(call[c])]
                            /\ TrueOf(Notice(call[c])) /\ appt.pro = call[c].pro
<1> PICK k : k = call[c]
  OBVIOUS
<1>1. /\ InCall(c, "notify") /\ k \in CallRow /\ k # None /\ PlaceOK(k) /\ k.at = "notify"
      /\ appt # None /\ appt \in ApptRow /\ CalendarTypeOK
      /\ UNCHANGED <<appt, row, linking, google, message, consumer, calls, links>>
  BY Holds DEF Notify, CalendarBase
<1>2. \E x : /\ Onward(c, x) /\ (x = None <=> k.kind = "customer cancels")
             /\ x # None => x.at = "calendar" /\ x.todo = k.todo
  <2>1. CASE k.kind = "customer cancels"
    <3>1. call' = [call EXCEPT ![c] = None]
      BY <2>1 DEF Notify, Finish
    <3> QED BY <1>1, <2>1, <3>1 DEF Onward, CallStep
  <2>2. CASE k.kind # "customer cancels"
    <3>1. Go(c, "calendar") /\ "calendar" \in Places
      BY <2>2 DEF Notify, Places
    <3>2. PICK x \in CallRow : /\ call' = [call EXCEPT ![c] = x] /\ Like(x, call[c])
                               /\ x.at = "calendar" /\ x.todo = call[c].todo
      BY <1>1, <3>1, GoShape
    <3> QED BY <1>1, <2>2, <3>2, RowsAreNot DEF Onward, CallStep
  <2> QED BY <2>1, <2>2
<1>3. /\ KnowsOK' /\ excuse' \subseteq {"failure", "stale"}
      /\ excuse' = {} => /\ excuse = {} /\ knows' = [knows EXCEPT ![Addressee(k)] = Notice(k)]
                         /\ TrueOf(Notice(k)) /\ appt.pro = k.pro
  <2>1. CASE knows' = [knows EXCEPT ![Addressee(k)] = Notice(k)] /\ Stale(~TrueOf(Notice(k)) \/ appt.pro # k.pro)
    <3>1. KnowsOK'
      BY <1>1, <2>1, NoticeTyped DEF KnowsOK, CalendarTypeOK
    <3> DEFINE wrong == ~TrueOf(Notice(k)) \/ appt.pro # k.pro
    <3>2. excuse' \subseteq {"failure", "stale"} /\ (excuse' = {} => excuse = {} /\ ~wrong)
      BY <2>1, CleanStale
    <3> QED BY <2>1, <3>1, <3>2
  <2>2. CASE UNCHANGED knows /\ excuse' = excuse \cup {"failure"}
    BY <1>1, <2>2, KnowsKept DEF CalendarTypeOK
  <2> QED BY <2>1, <2>2 DEF Notify
<1>4. PICK x : /\ Onward(c, x) /\ (x = None <=> k.kind = "customer cancels")
               /\ x # None => x.at = "calendar" /\ x.todo = k.todo
  BY <1>2
<1>5. x # None => PlaceOK(x)'
  BY <1>1, <1>4 DEF Onward, Like, PlaceOK, ToAnother, InSight, Exists
<1>6. CalendarBase'
  BY <1>1, <1>3, <1>4, <1>5, CallBase, EventKept, NothingNarrows DEF Onward, KnowsOK
<1> QED BY <1>1, <1>3, <1>4, <1>6

\* The row without its event.
LEMMA Cleared ==
  ASSUME appt \in ApptRow, appt' = [appt EXCEPT !.event = None]
  PROVE  /\ appt' \in ApptRow /\ appt'.event = None /\ appt'.pro = appt.pro /\ appt'.slot = appt.slot
         /\ appt'.status = appt.status /\ appt'.moved = appt.moved
BY DEF ApptRow

LEMMA ClearEventStep ==
  ASSUME CalendarBase, NEW c \in Calls, ClearEvent(c)
  PROVE  /\ CalendarBase' /\ UNCHANGED <<google, knows>> /\ Onward(c, None)
         /\ call[c].at = "clear" /\ call[c].kind = "pro cancels"
         /\ call[c].event \in EventIds /\ ~InSight(call[c].event)
         /\ appt \in ApptRow /\ appt' = [appt EXCEPT !.event = None]
         /\ excuse' = {} => excuse = {} /\ appt.event \in {call[c].event, None}
<1> PICK k : k = call[c]
  OBVIOUS
<1>1. /\ InCall(c, "clear") /\ k \in CallRow /\ k # None /\ PlaceOK(k) /\ k.at = "clear"
      /\ appt # None /\ appt \in ApptRow /\ CalendarTypeOK
      /\ UNCHANGED <<row, linking, google, message, consumer, knows, calls, links>>
      /\ appt' = [appt EXCEPT !.event = None] /\ call' = [call EXCEPT ![c] = None]
  BY Holds DEF ClearEvent, CalendarBase, Finish
<1>2. k.kind = "pro cancels" /\ k.event \in EventIds /\ ~InSight(k.event)
  BY <1>1 DEF PlaceOK, CallRow
<1> DEFINE wrong == appt.event \notin {k.event, None}
<1>3. excuse' \subseteq {"failure", "stale"} /\ (excuse' = {} => excuse = {} /\ ~wrong)
  BY CleanStale DEF ClearEvent
<1>4. Onward(c, None) /\ CallStep(c, None)
  BY <1>1, Cleared DEF Onward, CallStep
<1>5. appt'.event = None
  BY <1>1, Cleared
<1>6. CalendarBase'
  BY <1>1, <1>3, <1>4, <1>5, CallBase, KnowsKept, NothingNarrows DEF KnowsOK
<1> QED BY <1>1, <1>2, <1>3, <1>4, <1>6

\* A call to Google about the event a call knows of.
LEMMA DeleteEventStep ==
  ASSUME CalendarBase, NEW c \in Calls, DeleteEvent(c)
  PROVE  /\ CalendarBase' /\ UNCHANGED <<appt, knows>>
         /\ call[c].at = "delete" /\ call[c].event \in EventIds
         /\ excuse' = {} => excuse = {}
         /\ \E x : /\ Onward(c, x) /\ (x # None => x.at \in {"new calendar", "clear"})
                   /\ \/ Narrows /\ (\A f \in EventIds : f = call[c].event => ~InSight(f)')
                         /\ \A f \in EventIds : f # call[c].event => google'[f] = google[f]
                      \/ /\ UNCHANGED google /\ x = None
                         /\ excuse' = {} => row[call[c].oldPro] # "good" \/ ~InCalendar(call[c].event, call[c].oldPro)
<1> PICK k : k = call[c]
  OBVIOUS
<1>1. /\ InCall(c, "delete") /\ k \in CallRow /\ k # None /\ PlaceOK(k) /\ k.at = "delete"
      /\ appt # None /\ appt \in ApptRow /\ CalendarTypeOK
      /\ UNCHANGED <<appt, row, linking, message, consumer, knows, calls, links>>
  BY Holds DEF DeleteEvent, CalendarBase, agendaRow
<1>2. k.event \in EventIds /\ k.oldPro \in Pros /\ (k.kind = "pro cancels" \/ ToAnother(k))
  BY <1>1 DEF PlaceOK, CallRow
<1>3. CASE google' = Deleted(k.event) /\ UNCHANGED excuse /\ Go(c, IF ToAnother(k) THEN "new calendar" ELSE "clear")
  <2>1. PICK place \in {"new calendar", "clear"} :
            Go(c, place) /\ (place = "new calendar" <=> ToAnother(k))
    BY <1>3
  <2>9. Go(c, place) /\ place \in Places /\ call[c] # None
    BY <1>1, <2>1 DEF Places
  <2>2. PICK x \in CallRow : /\ call' = [call EXCEPT ![c] = x] /\ Like(x, call[c])
                             /\ x.at = place /\ x.todo = call[c].todo
    BY <1>1, <2>9, GoShape
  <2>3. Onward(c, x) /\ CallStep(c, x) /\ x # None
    BY <1>1, <2>2, RowsAreNot DEF Onward, CallStep
  <2>4. /\ Narrows /\ google'[k.event] = Gone /\ ~InSight(k.event)'
        /\ \A f \in EventIds : f # k.event => google'[f] = google[f]
    BY <1>1, <1>2, <1>3, DeletedNarrows
  <2>5. PlaceOK(x)'
    <3>1. google'[k.event] # None
      BY <2>4, RowsAreNot
    <3> QED BY <1>1, <1>2, <2>1, <2>2, <2>4, <3>1 DEF Like, PlaceOK, ToAnother, InSight
  <2>6. appt'.event # None => google'[appt'.event] # None
    BY <1>1, <2>4 DEF CalendarBase, Narrows, ApptRow
  <2>7. CalendarBase'
    BY <1>1, <1>3, <2>3, <2>4, <2>5, <2>6, CallBase, KnowsKept DEF KnowsOK, CalendarTypeOK
  <2>8. /\ Onward(c, x) /\ (x # None => x.at \in {"new calendar", "clear"})
        /\ Narrows /\ (\A f \in EventIds : f = call[c].event => ~InSight(f)')
        /\ \A f \in EventIds : f # call[c].event => google'[f] = google[f]
    <3>1. \A f \in EventIds : f = call[c].event => ~InSight(f)'
      BY <1>1, <2>4 DEF InSight, Exists
    <3> QED BY <2>1, <2>2, <2>3, <2>4, <3>1
  <2> QED BY <1>1, <1>2, <1>3, <2>7, <2>8
<1>4. CASE /\ Refused(k.oldPro) \/ (~InCalendar(k.event, k.oldPro) /\ UNCHANGED excuse)
           /\ Finish(c) /\ UNCHANGED google
  <2>1. Onward(c, None) /\ CallStep(c, None)
    BY <1>1, <1>4 DEF Onward, CallStep, Finish
  <2>2. /\ excuse' \subseteq {"failure", "stale"}
        /\ excuse' = {} => excuse = {} /\ (row[k.oldPro] # "good" \/ ~InCalendar(k.event, k.oldPro))
    BY <1>1, <1>2, <1>4, CleanRefused DEF CalendarTypeOK
  <2>3. CalendarBase'
    BY <1>1, <1>4, <2>1, <2>2, CallBase, KnowsKept, EventKept, NothingNarrows DEF KnowsOK
  <2> QED BY <1>1, <1>2, <1>4, <2>1, <2>2, <2>3
<1> QED BY <1>3, <1>4 DEF DeleteEvent

LEMMA DeleteAndClearStep ==
  ASSUME CalendarBase, NEW c \in Calls, DeleteAndClear(c)
  PROVE  /\ CalendarBase' /\ UNCHANGED knows
         /\ call[c].at = "both" /\ call[c].event \in EventIds /\ call[c].kind = "customer cancels"
         /\ \E x : /\ Onward(c, x) /\ x # None /\ x.at \in {"notify", "both"}
                   /\ x.at = "both" => x.todo \subseteq call[c].todo
                   /\ \/ /\ UNCHANGED appt /\ Narrows /\ (\A f \in EventIds : f = call[c].event => ~InSight(f)')
                         /\ \A f \in EventIds : f # call[c].event => google'[f] = google[f]
                         /\ excuse' = {} => excuse = {}
                      \/ /\ UNCHANGED <<appt, google>>
                         /\ excuse' = {} => /\ excuse = {}
                                            /\ row[call[c].oldPro] # "good" \/ ~InCalendar(call[c].event, call[c].oldPro)
                      \/ /\ UNCHANGED google /\ appt \in ApptRow /\ appt' = [appt EXCEPT !.event = None]
                         /\ excuse' = {} => excuse = {} /\ appt.event \in {call[c].event, None}
                         /\ "delete" \in call[c].todo => x.at = "both" /\ "delete" \in x.todo
<1> PICK k : k = call[c]
  OBVIOUS
<1>1. /\ InCall(c, "both") /\ k \in CallRow /\ k # None /\ PlaceOK(k) /\ k.at = "both"
      /\ appt # None /\ appt \in ApptRow /\ CalendarTypeOK
      /\ UNCHANGED <<row, linking, message, consumer, knows, calls, links>>
  BY Holds DEF DeleteAndClear, CalendarBase
<1>2. k.event \in EventIds /\ k.oldPro \in Pros /\ k.kind = "customer cancels"
  BY <1>1 DEF PlaceOK, CallRow
<1>3. PICK task \in {"delete", "clear"} :
          /\ task \in k.todo
          /\ call' = [call EXCEPT ![c].todo = @ \ {task}, ![c].at = IF k.todo = {task} THEN "notify" ELSE "both"]
          /\ task = "delete" => /\ UNCHANGED appt
                                /\ \/ google' = Deleted(k.event) /\ UNCHANGED excuse
                                   \/ /\ Refused(k.oldPro) \/ (~InCalendar(k.event, k.oldPro) /\ UNCHANGED excuse)
                                      /\ UNCHANGED google
          /\ task = "clear" => /\ appt' = [appt EXCEPT !.event = None]
                               /\ Stale(appt.event \notin {k.event, None})
                               /\ UNCHANGED google
  BY DEF DeleteAndClear
<1>4. PICK place \in {"notify", "both"} :
          place = IF k.todo = {task} THEN "notify" ELSE "both"
  OBVIOUS
<1>5. PICK rest \in SUBSET {"delete", "clear"} : rest = k.todo \ {task}
  BY <1>1 DEF CallRow
<1> DEFINE y == [k EXCEPT !.at = place, !.todo = rest]
<1>6. PICK x : x = y
  OBVIOUS
<1>7. x \in CallRow /\ Like(x, k) /\ x.at = place /\ x.todo = rest
  BY <1>1, <1>6 DEF CallRow, Like, Places
<1>8. call' = [call EXCEPT ![c] = x]
  BY <1>3, <1>4, <1>5, <1>6
<1> HIDE DEF y
<1>9. x # None
  BY <1>7, RowsAreNot
<1>10. x.at \in {"notify", "both"} /\ (x.at = "both" => x.todo \subseteq k.todo)
  BY <1>5, <1>7
<1>11. CASE task = "delete" /\ google' = Deleted(k.event) /\ UNCHANGED excuse
  <2>1. UNCHANGED appt
    BY <1>3, <1>11
  <2>2. /\ Narrows /\ google'[k.event] = Gone /\ ~InSight(k.event)'
        /\ \A f \in EventIds : f # k.event => google'[f] = google[f]
    BY <1>1, <1>2, <1>11, DeletedNarrows
  <2>3. Onward(c, x) /\ CallStep(c, x)
    BY <1>1, <1>7, <1>8, <2>1 DEF Onward, CallStep
  <2>4. PlaceOK(x)'
    BY <1>1, <1>2, <1>4, <1>7, <2>2, RowsAreNot DEF Like, PlaceOK, ToAnother
  <2>5. appt'.event # None => google'[appt'.event] # None
    BY <1>1, <2>1, <2>2 DEF CalendarBase, Narrows, ApptRow
  <2>6. CalendarBase'
    BY <1>1, <1>11, <2>2, <2>3, <2>4, <2>5, CallBase, KnowsKept DEF KnowsOK, CalendarTypeOK
  <2>7. \A f \in EventIds : f = call[c].event => ~InSight(f)'
    BY <2>2 DEF InSight, Exists
  <2>8. /\ UNCHANGED appt /\ Narrows /\ (\A f \in EventIds : f = call[c].event => ~InSight(f)')
        /\ \A f \in EventIds : f # call[c].event => google'[f] = google[f]
        /\ excuse' = {} => excuse = {}
    BY <1>11, <2>1, <2>2, <2>7
  <2> QED BY <1>1, <1>2, <1>9, <1>10, <2>3, <2>6, <2>8
<1>12. CASE /\ task = "delete" /\ UNCHANGED google
            /\ Refused(k.oldPro) \/ (~InCalendar(k.event, k.oldPro) /\ UNCHANGED excuse)
  <2>1. UNCHANGED appt
    BY <1>3, <1>12
  <2>3. Onward(c, x) /\ CallStep(c, x)
    BY <1>1, <1>7, <1>8, <2>1 DEF Onward, CallStep
  <2>4. PlaceOK(x)'
    BY <1>1, <1>2, <1>4, <1>7, <1>12 DEF Like, PlaceOK, ToAnother
  <2>5. /\ excuse' \subseteq {"failure", "stale"}
        /\ excuse' = {} => excuse = {} /\ (row[k.oldPro] # "good" \/ ~InCalendar(k.event, k.oldPro))
    BY <1>1, <1>2, <1>12, CleanRefused DEF CalendarTypeOK
  <2>6. CalendarBase'
    BY <1>1, <1>12, <2>1, <2>3, <2>4, <2>5, CallBase, KnowsKept, EventKept, NothingNarrows DEF KnowsOK
  <2> QED BY <1>1, <1>2, <1>9, <1>10, <1>12, <2>1, <2>3, <2>5, <2>6
<1>13. CASE task = "clear"
  <2>1. UNCHANGED google /\ appt' = [appt EXCEPT !.event = None]
    BY <1>3, <1>13
  <2>2. appt' \in ApptRow /\ appt'.event = None
    BY <1>1, <2>1, Cleared
  <2>3. Onward(c, x) /\ CallStep(c, x)
    BY <1>1, <1>7, <1>8, <2>2 DEF Onward, CallStep
  <2>4. PlaceOK(x)'
    BY <1>1, <1>2, <1>4, <1>7, <2>1 DEF Like, PlaceOK, ToAnother
  <2> DEFINE wrong == appt.event \notin {k.event, None}
  <2>5. excuse' \subseteq {"failure", "stale"} /\ (excuse' = {} => excuse = {} /\ ~wrong)
    BY <1>3, <1>13, CleanStale
  <2>6. CalendarBase'
    BY <1>1, <2>1, <2>2, <2>3, <2>4, <2>5, CallBase, KnowsKept, NothingNarrows DEF KnowsOK
  <2>7. "delete" \in k.todo => x.at = "both" /\ "delete" \in x.todo
    BY <1>4, <1>5, <1>7, <1>13
  <2> QED BY <1>1, <1>2, <1>9, <1>10, <2>1, <2>3, <2>5, <2>6, <2>7
<1> QED BY <1>3, <1>11, <1>12, <1>13

LEMMA UpdateEventStep ==
  ASSUME CalendarBase, NEW c \in Calls, UpdateEvent(c)
  PROVE  /\ CalendarBase' /\ UNCHANGED <<appt, knows>> /\ Onward(c, None)
         /\ call[c].at = "update" /\ call[c].event \in EventIds
         /\ call[c].kind \notin Cancels /\ ~ToAnother(call[c])
         /\ \/ /\ Narrows /\ \A f \in EventIds : f # call[c].event => google'[f] = google[f]
               /\ excuse' = {} =>
                    /\ excuse = {} /\ appt.event = call[c].event /\ Current(call[c].oldPro, call[c].slot)
                    /\ \A e \in EventIds : e = call[c].event =>
                          google'[e].pro = call[c].oldPro /\ google'[e].slot = call[c].slot
            \/ /\ UNCHANGED google
               /\ excuse' = {} => /\ excuse = {}
                                  /\ row[call[c].oldPro] # "good" \/ ~InCalendar(call[c].event, call[c].oldPro)
<1> PICK k : k = call[c]
  OBVIOUS
<1>1. /\ InCall(c, "update") /\ k \in CallRow /\ k # None /\ PlaceOK(k) /\ k.at = "update"
      /\ appt # None /\ appt \in ApptRow /\ CalendarTypeOK
      /\ UNCHANGED <<appt, row, linking, message, consumer, knows, calls, links>>
      /\ call' = [call EXCEPT ![c] = None]
  BY Holds DEF UpdateEvent, CalendarBase, agendaRow, Finish
<1>2. /\ k.event \in EventIds /\ k.oldPro \in Pros /\ k.slot \in Slots
      /\ k.kind \notin Cancels /\ ~ToAnother(k)
  BY <1>1 DEF PlaceOK, CallRow, Cancels
<1>3. Onward(c, None) /\ CallStep(c, None)
  BY <1>1 DEF Onward, CallStep
<1>4. CASE /\ InCalendar(k.event, k.oldPro) /\ google' = Patched(k.event, k.slot)
           /\ Stale(appt.event # k.event \/ ~Current(k.oldPro, k.slot))
  <2>1. /\ Narrows /\ google'[k.event].slot = k.slot /\ google'[k.event].pro = google[k.event].pro
        /\ \A f \in EventIds : f # k.event => google'[f] = google[f]
    BY <1>1, <1>2, <1>4, PatchedNarrows DEF InCalendar
  <2>2. google[k.event].pro = k.oldPro
    BY <1>4 DEF InCalendar
  <2> DEFINE wrong == appt.event # k.event \/ ~Current(k.oldPro, k.slot)
  <2>3. excuse' \subseteq {"failure", "stale"} /\ (excuse' = {} => excuse = {} /\ ~wrong)
    BY <1>4, CleanStale
  <2>4. appt'.event # None => google'[appt'.event] # None
    BY <1>1, <2>1 DEF CalendarBase, Narrows, ApptRow
  <2>5. CalendarBase'
    BY <1>1, <1>3, <2>1, <2>3, <2>4, CallBase, KnowsKept DEF KnowsOK
  <2>6. \A e \in EventIds : e = k.event => google'[e].pro = k.oldPro /\ google'[e].slot = k.slot
    BY <2>1, <2>2
  <2> QED BY <1>1, <1>2, <1>3, <2>1, <2>3, <2>5, <2>6
<1>5. CASE /\ Refused(k.oldPro) \/ (~InCalendar(k.event, k.oldPro) /\ UNCHANGED excuse)
           /\ UNCHANGED google
  <2>2. /\ excuse' \subseteq {"failure", "stale"}
        /\ excuse' = {} => excuse = {} /\ (row[k.oldPro] # "good" \/ ~InCalendar(k.event, k.oldPro))
    BY <1>1, <1>2, <1>5, CleanRefused DEF CalendarTypeOK
  <2>3. CalendarBase'
    BY <1>1, <1>3, <1>5, <2>2, CallBase, KnowsKept, EventKept, NothingNarrows DEF KnowsOK
  <2> QED BY <1>1, <1>2, <1>3, <1>5, <2>2, <2>3
<1> QED BY <1>4, <1>5 DEF UpdateEvent

LEMMA MadeOlder ==
  ASSUME CalendarBase, NEW e \in EventIds, google[e] = None, NEW p \in Pros, NEW s \in Slots,
         google' = [google EXCEPT ![e] = Event(p, s)], row[p] = "good", UNCHANGED row
  PROVE  Older /\ \A f \in EventIds : InSight(f)' => row'[google'[f].pro] = "good"
<1>1. /\ google'[e].pro = p /\ google'[e] # None /\ \A f \in EventIds : f # e => google'[f] = google[f]
  BY MadeShape DEF CalendarBase
<1>2. \A f \in EventIds : f # e => (InSight(f)' <=> InSight(f))
  BY <1>1 DEF InSight, Exists
<1>3. Older
  BY <1>1, <1>2 DEF Older
<1>4. \A f \in EventIds : InSight(f)' => row'[google'[f].pro] = "good"
  BY <1>1, <1>2 DEF CalendarBase
<1> QED BY <1>3, <1>4

\* A call makes an event, or gives up.
LEMMA CreateInNewStep ==
  ASSUME CalendarBase, NEW c \in Calls, NEW e \in EventIds, CreateInNew(c, e)
  PROVE  /\ CalendarBase' /\ UNCHANGED <<appt, row, message, consumer, knows>>
         /\ call[c].at = "create" /\ call[c] \in CallRow
         /\ \A d \in Calls : d # c => call'[d] = call[d]
         /\ \/ UNCHANGED google /\ Onward(c, None) /\ (excuse' = {} => excuse = {})
            \/ /\ google[e] = None /\ google'[e] = Event(call[c].pro, call[c].slot)
               /\ \A f \in EventIds : f # e => google'[f] = google[f]
               /\ call'[c] # None /\ call'[c].at = "store" /\ call'[c].event = e /\ call'[c].kind = call[c].kind
               /\ call'[c].pro = call[c].pro /\ call'[c].slot = call[c].slot
               /\ excuse' = {} => /\ excuse = {} /\ ~BeingMade
                                  /\ appt.event = call[c].event /\ Current(call[c].pro, call[c].slot)
<1> PICK k : k = call[c]
  OBVIOUS
<1>1. /\ InCall(c, "create") /\ k \in CallRow /\ k # None /\ PlaceOK(k) /\ k.at = "create"
      /\ appt # None /\ appt \in ApptRow /\ CalendarTypeOK
      /\ UNCHANGED <<appt, row, linking, message, consumer, knows, calls, links>>
  BY Holds DEF CreateInNew, CalendarBase, agendaRow
<1>2. k.pro \in Pros /\ k.slot \in Slots /\ ToAnother(k)
  BY <1>1 DEF PlaceOK, CallRow
<1>3. CASE Refused(k.pro) /\ Finish(c) /\ UNCHANGED google
  <2>1. CallStep(c, None) /\ Onward(c, None)
    BY <1>1, <1>3 DEF CallStep, Onward, Finish
  <2>2. excuse' \subseteq {"failure", "stale"} /\ (excuse' = {} => excuse = {})
    BY <1>2, <1>3, CleanRefused
  <2>3. CalendarBase'
    BY <1>1, <1>3, <2>1, <2>2, CallBase, KnowsKept, EventKept, NothingNarrows DEF KnowsOK
  <2>4. \A d \in Calls : d # c => call'[d] = call[d]
    BY <1>1, <2>1, CallsAfter DEF CallStep
  <2> QED BY <1>1, <1>3, <2>1, <2>2, <2>3, <2>4
<1>4. CASE /\ row[k.pro] = "good" /\ google[e] = None
           /\ google' = [google EXCEPT ![e] = Event(k.pro, k.slot)]
           /\ call' = [call EXCEPT ![c].at = "store", ![c].event = e]
           /\ Stale(BeingMade \/ appt.event # k.event \/ ~Current(k.pro, k.slot))
  <2> DEFINE y == [k EXCEPT !.at = "store", !.event = e]
  <2>1. PICK x : x = y
    OBVIOUS
  <2>2. /\ x \in CallRow /\ x.at = "store" /\ x.event = e /\ x.kind = k.kind /\ x.pro = k.pro
        /\ x.slot = k.slot /\ x.oldPro = k.oldPro
    BY <1>1, <2>1 DEF CallRow, Places
  <2>3. call' = [call EXCEPT ![c] = x]
    BY <1>4, <2>1
  <2> HIDE DEF y
  <2>4. call' \in [Calls -> CallRow \cup {None}] /\ call'[c] = x /\ \A d \in Calls : d # c => call'[d] = call[d]
    BY <1>1, <2>2, <2>3, CallsAfter
  <2>5. /\ google' \in [EventIds -> EventRow \cup {None, Gone}]
        /\ google'[e] = Event(k.pro, k.slot) /\ google'[e] # None
        /\ \A f \in EventIds : f # e => google'[f] = google[f]
    BY <1>1, <1>2, <1>4, MadeShape
  <2> DEFINE wrong == BeingMade \/ appt.event # k.event \/ ~Current(k.pro, k.slot)
  <2>6. excuse' \subseteq {"failure", "stale"} /\ (excuse' = {} => excuse = {} /\ ~wrong)
    BY <1>4, CleanStale
  <2>7. Older /\ \A f \in EventIds : InSight(f)' => row'[google'[f].pro] = "good"
    BY <1>1, <1>2, <1>4, MadeOlder
  <2>8. CalendarTypeOK'
    BY <1>1, <2>4, <2>5, <2>6 DEF CalendarTypeOK
  <2>9. PlaceOK(x)'
    BY <1>2, <2>2, <2>5, RowsAreNot DEF PlaceOK, ToAnother
  <2>10. \A d \in Calls : call'[d] # None => call'[d] = call[d] \/ PlaceOK(call[d])'
    <3> SUFFICES ASSUME NEW d \in Calls, d = c PROVE PlaceOK(call[d])'
      BY <2>4
    <3> QED BY <2>4, <2>9 DEF PlaceOK, ToAnother, InSight, Exists
  <2>11. appt'.event # None => google'[appt'.event] # None
    BY <1>1, <2>7 DEF CalendarBase, Older, ApptRow
  <2>12. (consumer # None => message # None)'
    BY <1>1 DEF CalendarBase
  <2>13. consumer' # None => (consumer'.at = "store" => google'[consumer'.event] # None)
    BY <1>1, <2>7, ConsumerFields DEF CalendarBase, Older
  <2>14. CalendarBase'
    BY <1>1, <2>7, <2>8, <2>10, <2>11, <2>12, <2>13, BaseStep
  <2>15. x # None
    BY <2>2, RowsAreNot
  <2> QED BY <1>1, <1>4, <2>2, <2>4, <2>5, <2>6, <2>14, <2>15
<1> QED BY <1>3, <1>4 DEF CreateInNew

\* The row with the event's id.
LEMMA Stored ==
  ASSUME appt \in ApptRow, NEW e \in EventIds, appt' = WithId(e)
  PROVE  /\ appt' \in ApptRow /\ appt'.event = e /\ appt'.pro = appt.pro /\ appt'.slot = appt.slot
         /\ appt'.status = appt.status /\ appt'.moved = appt.moved
BY DEF ApptRow, WithId

LEMMA StoreNewStep ==
  ASSUME CalendarBase, NEW c \in Calls, StoreNew(c)
  PROVE  /\ CalendarBase' /\ UNCHANGED <<google, knows, excuse>> /\ Onward(c, None)
         /\ InCall(c, "store") /\ call[c].event \in EventIds
         /\ appt' = WithId(call[c].event)
<1> PICK k : k = call[c]
  OBVIOUS
<1>1. /\ InCall(c, "store") /\ k \in CallRow /\ k # None /\ PlaceOK(k) /\ k.at = "store"
      /\ appt # None /\ appt \in ApptRow /\ CalendarTypeOK
      /\ UNCHANGED <<row, linking, google, message, consumer, knows, excuse, calls, links>>
      /\ appt' = WithId(k.event) /\ call' = [call EXCEPT ![c] = None]
  BY Holds DEF StoreNew, CalendarBase, Finish
<1>2. k.event \in EventIds /\ google[k.event] # None
  BY <1>1 DEF PlaceOK, CallRow
<1>3. appt' \in ApptRow /\ appt'.event = k.event
  BY <1>1, <1>2, Stored
<1>4. Onward(c, None) /\ CallStep(c, None)
  BY <1>1, <1>3 DEF Onward, CallStep
<1>5. excuse' \subseteq {"failure", "stale"}
  BY <1>1 DEF CalendarTypeOK
<1>6. appt'.event # None => google'[appt'.event] # None
  BY <1>1, <1>2, <1>3
<1>7. CalendarBase'
  BY <1>1, <1>4, <1>5, <1>6, CallBase, KnowsKept, NothingNarrows DEF KnowsOK
<1> QED BY <1>1, <1>2, <1>4, <1>7

LEMMA CommittedRow ==
  ASSUME appt \in ApptRow, NEW k \in CallRow, NEW sent \in BOOLEAN,
         ToAnother(k) => sent, appt' = Committed(k, sent)
  PROVE  /\ appt' \in ApptRow /\ appt'.event = appt.event
         /\ k.kind # "customer moves" => appt'.pro = appt.pro
         /\ appt'.pro = k.pro \/ appt'.pro = appt.pro
         /\ ToAnother(k) => appt'.pro = k.pro
         /\ k.kind = "customer moves" /\ k.oldPro = appt.pro => appt'.pro = k.pro
         /\ Notice(k).status = appt'.status \/ appt'.moved
         /\ k.kind \notin Cancels => appt'.slot = k.slot
         /\ k.kind \in Cancels => appt'.slot = appt.slot
<1>1. k.kind \in ChangeKinds /\ k.slot \in Slots /\ k.pro \in Pros
  BY DEF CallRow
<1>2. CASE k.kind \in Cancels
  <2>0. k.kind # "pro moves" /\ k.kind # "customer moves"
    BY <1>2 DEF Cancels
  <2>1. appt' = [appt EXCEPT !.status = "canceled"]
    BY <1>2, <2>0 DEF Committed
  <2> QED BY <1>2, <2>1 DEF ApptRow, ToAnother, Cancels, Notice
<1>3. CASE k.kind = "pro moves"
  <2>1. appt' = [appt EXCEPT !.status = "live", !.slot = k.slot]
    BY <1>3 DEF Committed, Cancels
  <2> QED BY <1>1, <1>3, <2>1 DEF ApptRow, ToAnother, Cancels, Notice
<1>4. CASE k.kind = "customer moves"
  <2>1. k.kind \notin Cancels /\ k.kind # "pro moves"
    BY <1>4 DEF Cancels
  <2>2. PICK moved \in BOOLEAN : moved <=> appt.moved \/ appt.status = "canceled"
    OBVIOUS
  <2>3. Notice(k).status = "live" /\ (appt.status = "live" \/ moved)
    BY <1>4, <2>1, <2>2 DEF Notice, ApptRow
  <2>4. PICK pro \in Pros : pro = IF sent THEN k.pro ELSE appt.pro
    BY <1>1 DEF ApptRow
  <2>5. appt' = [appt EXCEPT !.slot = k.slot, !.pro = pro, !.moved = @ \/ appt.status = "canceled"]
    BY <1>4, <2>1, <2>4 DEF Committed
  <2>6. appt.moved \in BOOLEAN
    BY DEF ApptRow
  <2>7. (appt.moved \/ appt.status = "canceled") = moved
    BY <2>2, <2>6, Zenon
  <2>8. appt' = [appt EXCEPT !.slot = k.slot, !.pro = pro, !.moved = moved]
    BY <2>5, <2>7
  <2>9. /\ appt' \in ApptRow /\ appt'.event = appt.event /\ appt'.pro = pro /\ appt'.slot = k.slot
        /\ appt'.status = appt.status /\ appt'.moved = moved
    BY <1>1, <2>8 DEF ApptRow
  <2> QED BY <1>1, <1>4, <2>1, <2>3, <2>4, <2>9 DEF ToAnother
<1> QED BY <1>1, <1>2, <1>3, <1>4 DEF ChangeKinds, Cancels

\* Who commits knows what he wrote.
Author(k) == IF k.kind \in ByCustomer THEN "customer" ELSE k.pro

LEMMA CommitStep ==
  ASSUME CalendarBase, NEW c \in Calls, Commit(c)
  PROVE  /\ CalendarBase' /\ UNCHANGED google /\ call[c].at = "commit" /\ call[c] \in CallRow
         /\ \E x : /\ Onward(c, x) /\ x # None
                   /\ x.at = IF call[c].kind = "customer cancels" THEN "calendar" ELSE "notify"
         /\ appt \in ApptRow
         /\ \E sent \in BOOLEAN : (ToAnother(call[c]) => sent) /\ appt' = Committed(call[c], sent)
         /\ \E n \in NoticeRow : TrueOf(n)' /\ knows' = [knows EXCEPT ![Author(call[c])] = n]
         /\ excuse' = {} => excuse = {} /\ ~BeingMade /\ appt.event = call[c].event /\ appt.pro = call[c].oldPro
<1> PICK k : k = call[c]
  OBVIOUS
<1>1. /\ InCall(c, "commit") /\ k \in CallRow /\ k # None /\ PlaceOK(k) /\ k.at = "commit"
      /\ appt # None /\ appt \in ApptRow /\ CalendarTypeOK
      /\ UNCHANGED <<row, linking, google, message, consumer, calls, links>>
  BY Holds DEF Commit, CalendarBase
<1>2. PICK sent \in BOOLEAN : (ToAnother(k) => sent) /\ appt' = Committed(k, sent)
  BY DEF Commit
<1>3. appt' \in ApptRow /\ appt'.event = appt.event
  BY <1>1, <1>2, CommittedRow
<1>4. PICK place \in {"calendar", "notify"} :
          Go(c, place) /\ place = IF k.kind = "customer cancels" THEN "calendar" ELSE "notify"
  BY DEF Commit
<1>5. Go(c, place) /\ place \in Places
  BY <1>4 DEF Places
<1>6. PICK x \in CallRow : /\ call' = [call EXCEPT ![c] = x] /\ Like(x, call[c])
                           /\ x.at = place /\ x.todo = call[c].todo
  BY <1>1, <1>5, GoShape
<1>7. x # None /\ CallStep(c, x) /\ Onward(c, x)
  BY <1>1, <1>3, <1>6, RowsAreNot DEF CallStep, Onward
<1>8. PlaceOK(x)'
  BY <1>1, <1>4, <1>6 DEF Like, PlaceOK, ToAnother, InSight, Exists
<1>9. PICK n \in NoticeRow : TrueOf(n)' /\ knows' = [knows EXCEPT ![Author(k)] = n]
  <2>1. PICK n : n = [status |-> Notice(k).status, slot |-> appt'.slot]
    OBVIOUS
  <2>2. n \in NoticeRow /\ n.status = Notice(k).status /\ n.slot = appt'.slot
    BY <1>1, <1>3, <2>1 DEF Notice, ApptRow, NoticeRow
  <2>3. knows' = [knows EXCEPT ![Author(k)] = n]
    BY <2>1 DEF Commit, Author
  <2>4. Notice(k).status = appt'.status \/ appt'.moved
    BY <1>1, <1>2, CommittedRow
  <2> QED BY <2>2, <2>3, <2>4 DEF TrueOf
<1>10. KnowsOK'
  <2>1. Author(k) \in Sides
    BY <1>1 DEF Author, Sides, CallRow
  <2> QED BY <1>1, <1>9, <2>1 DEF KnowsOK, CalendarTypeOK
<1>11. excuse' = excuse \cup {y \in {"stale"} : BeingMade \/ appt.event # k.event \/ appt.pro # k.oldPro}
  BY DEF Commit
<1>12. /\ excuse' \subseteq {"failure", "stale"}
       /\ excuse' = {} => excuse = {} /\ ~BeingMade /\ appt.event = k.event /\ appt.pro = k.oldPro
  BY <1>1, <1>11 DEF CalendarTypeOK
<1>13. appt'.event # None => google'[appt'.event] # None
  BY <1>1, <1>3 DEF CalendarBase
<1>14. CalendarBase'
  BY <1>1, <1>7, <1>8, <1>10, <1>12, <1>13, CallBase, NothingNarrows DEF KnowsOK
<1>15. x.at = IF k.kind = "customer cancels" THEN "calendar" ELSE "notify"
  BY <1>4, <1>6
<1> QED BY <1>1, <1>2, <1>7, <1>9, <1>12, <1>14, <1>15

LEMMA CountUp ==
  \A n \in Nat : n + 1 \in Nat
OBVIOUS

\* A call that begins.
Entered(c) ==
    /\ UNCHANGED <<appt, row, linking, google, message, consumer, knows, excuse, links>>
    /\ call[c] = None /\ appt # None /\ appt \in ApptRow
    /\ \E x \in CallRow : /\ call' = [call EXCEPT ![c] = x] /\ x.at = "commit" /\ x.event = appt.event
                          /\ x.kind # "customer moves" => x.pro = x.oldPro

LEMMA EnterStep ==
  ASSUME CalendarBase, NEW c \in Calls, appt # None,
         NEW kind \in ChangeKinds, NEW s \in Slots, NEW p \in Pros, Enter(c, kind, s, p),
         kind # "customer moves" => p = appt.pro
  PROVE  CalendarBase' /\ Entered(c)
<1> DEFINE y == [at |-> "commit", kind |-> kind, slot |-> s, pro |-> p,
                 oldPro |-> appt.pro, event |-> appt.event, todo |-> {}]
<1>1. /\ CalendarTypeOK /\ appt \in ApptRow /\ call[c] = None /\ calls' = calls + 1
      /\ UNCHANGED <<appt, row, linking, google, message, consumer, knows, excuse, links>>
  BY DEF Enter, CalendarBase, CalendarTypeOK, agendaRow
<1>2. PICK x : x = y
  OBVIOUS
<1>3. /\ x \in CallRow /\ x.at = "commit" /\ x.event = appt.event
      /\ x.kind # "customer moves" => x.pro = x.oldPro
  BY <1>1, <1>2 DEF CallRow, Places, ApptRow
<1>4. call' = [call EXCEPT ![c] = x]
  BY <1>2 DEF Enter
<1> HIDE DEF y
<1>5. call' \in [Calls -> CallRow \cup {None}] /\ call'[c] = x /\ \A d \in Calls : d # c => call'[d] = call[d]
  BY <1>1, <1>3, <1>4, CallsAfter
<1>6. CalendarTypeOK'
  <2>1. calls \in Nat
    BY <1>1 DEF CalendarTypeOK
  <2>2. calls' \in Nat
    <3>1. calls' = calls + 1
      BY <1>1
    <3> QED BY <2>1, <3>1, CountUp, Zenon
  <2> QED BY <1>1, <1>5, <2>2 DEF CalendarTypeOK
<1>7. Older
  BY <1>1 DEF Older, InSight, Exists
<1>8. \A f \in EventIds : InSight(f)' => row'[google'[f].pro] = "good"
  BY <1>1 DEF CalendarBase, InSight, Exists
<1>9. PlaceOK(x)'
  BY <1>1, <1>3 DEF PlaceOK, CalendarBase
<1>10. \A d \in Calls : call'[d] # None => call'[d] = call[d] \/ PlaceOK(call[d])'
  <2> SUFFICES ASSUME NEW d \in Calls, d = c PROVE PlaceOK(call[d])'
    BY <1>5
  <2> QED BY <1>5, <1>9 DEF PlaceOK, ToAnother, InSight, Exists
<1>11. /\ (consumer # None => message # None)'
       /\ appt'.event # None => google'[appt'.event] # None
       /\ consumer' # None => (consumer'.at = "store" => google'[consumer'.event] # None)
       /\ appt' # None
  BY <1>1 DEF CalendarBase
<1>12. CalendarBase'
  BY <1>6, <1>7, <1>8, <1>10, <1>11, BaseStep
<1> QED BY <1>1, <1>3, <1>4, <1>12 DEF Entered

LEMMA EntersStep ==
  ASSUME CalendarBase, NEW c \in Calls,
         \/ CancelByProfessional(c) \/ CancelByCustomer(c)
         \/ \E s \in Slots : RescheduleByProfessional(c, s)
         \/ \E s \in Slots, p \in Pros : RescheduleByCustomer(c, s, p)
  PROVE  CalendarBase' /\ Entered(c)
<1>1. appt # None
  BY DEF CancelByProfessional, CancelByCustomer, RescheduleByProfessional, RescheduleByCustomer, Live
<1>2. appt.slot \in Slots /\ appt.pro \in Pros
  BY <1>1 DEF CalendarBase, CalendarTypeOK, ApptRow
<1>3. PICK kind \in ChangeKinds, s \in Slots, p \in Pros :
          Enter(c, kind, s, p) /\ (kind # "customer moves" => p = appt.pro)
  BY <1>2 DEF ChangeKinds, CancelByProfessional, CancelByCustomer, RescheduleByProfessional, RescheduleByCustomer
<1> QED BY <1>1, <1>3, EnterStep

-----------------------------------------------------------------------------
\* What the steps of the consumer have in common.
LEMMA ConsumerBase ==
  ASSUME CalendarBase, appt # None, appt' \in ApptRow,
         UNCHANGED <<row, linking, call, knows, calls, links>>,
         excuse' \subseteq {"failure", "stale"},
         google' \in [EventIds -> EventRow \cup {None, Gone}], Older,
         \A e \in EventIds : InSight(e)' => row'[google'[e].pro] = "good",
         consumer' \in ConsumerRow \cup {None}, message' \in Pros \cup {None},
         (consumer # None => message # None)',
         appt'.event # None => google'[appt'.event] # None,
         consumer' # None => (consumer'.at = "store" => google'[consumer'.event] # None)
  PROVE  CalendarBase'
<1>1. CalendarTypeOK'
  BY DEF CalendarBase, CalendarTypeOK
<1>2. \A d \in Calls : call'[d] # None => call'[d] = call[d] \/ PlaceOK(call[d])'
  OBVIOUS
<1>3. appt' # None
  BY RowsAreNot
<1> QED BY <1>1, <1>2, <1>3, BaseStep

LEMMA SameEvents ==
  ASSUME CalendarBase, UNCHANGED <<google, row>>
  PROVE  /\ google' \in [EventIds -> EventRow \cup {None, Gone}] /\ Older
         /\ \A e \in EventIds : InSight(e)' => row'[google'[e].pro] = "good"
BY DEF CalendarBase, CalendarTypeOK, Older, InSight, Exists

\* There is a message only of an appointment.
LEMMA MessageOfAppointment ==
  ASSUME CalendarBase, message # None \/ consumer # None
  PROVE  appt # None /\ appt \in ApptRow /\ appt.pro \in Pros /\ appt.slot \in Slots
BY DEF CalendarBase, CalendarTypeOK, ApptRow

LEMMA QuietConsumerBase ==
  ASSUME CalendarBase, message # None \/ consumer # None,
         UNCHANGED <<appt, google, row, linking, call, knows, calls, links>>,
         excuse' \subseteq {"failure", "stale"},
         consumer' \in ConsumerRow \cup {None}, message' \in Pros \cup {None},
         (consumer # None => message # None)',
         consumer' # None => consumer'.at # "store"
  PROVE  CalendarBase'
<1>1. appt # None /\ appt' \in ApptRow /\ appt' = appt
  BY MessageOfAppointment
<1>2. appt'.event # None => google'[appt'.event] # None
  BY <1>1 DEF CalendarBase
<1> QED BY <1>1, <1>2, SameEvents, ConsumerBase

LEMMA ConsumeStep ==
  ASSUME CalendarBase, Consume
  PROVE  /\ CalendarBase' /\ UNCHANGED <<appt, google, call, knows, excuse>>
         /\ message # None /\ consumer = None
         /\ consumer' # None => consumer'.at = "read"
<1>1. /\ message \in Pros /\ message # None /\ consumer = None
      /\ UNCHANGED <<appt, google, row, linking, call, knows, excuse, calls, links>>
  BY DEF Consume, CalendarBase, CalendarTypeOK, agendaRow
<1> DEFINE y == [at |-> "read", pro |-> message]
<1>2. y \in ConsumerRow /\ y.at = "read"
  BY <1>1 DEF ConsumerRow
<1>3. \/ message' = None /\ consumer' = None
      \/ message' = message /\ consumer' = y
  BY <1>1 DEF Consume
<1> HIDE DEF y
<1>4. y # None
  BY <1>2, RowsAreNot
<1>5. excuse' \subseteq {"failure", "stale"}
  BY <1>1 DEF CalendarBase, CalendarTypeOK
<1>6. CalendarBase'
  BY <1>1, <1>2, <1>3, <1>4, <1>5, QuietConsumerBase
<1> QED BY <1>1, <1>2, <1>3, <1>6

LEMMA ReadForEventStep ==
  ASSUME CalendarBase, ReadForEvent
  PROVE  /\ CalendarBase' /\ UNCHANGED <<appt, google, message, call, knows, excuse>>
         /\ consumer # None /\ consumer.at = "read" /\ consumer' # None /\ consumer'.at = "create"
<1>1. /\ consumer # None /\ consumer.at = "read"
      /\ UNCHANGED <<appt, google, row, linking, message, call, knows, excuse, calls, links>>
      /\ consumer' = [at |-> "create", pro |-> consumer.pro, slot |-> appt.slot]
  BY DEF ReadForEvent, agendaRow
<1>2. consumer' \in ConsumerRow /\ consumer'.at = "create"
  BY <1>1, ConsumerFields, MessageOfAppointment DEF CalendarBase, ConsumerRow
<1>3. consumer' # None
  BY <1>2, RowsAreNot
<1>4. /\ excuse' \subseteq {"failure", "stale"} /\ message' \in Pros \cup {None}
      /\ (consumer # None => message # None)'
  BY <1>1, <1>3 DEF CalendarBase, CalendarTypeOK
<1>5. CalendarBase'
  BY <1>1, <1>2, <1>4, QuietConsumerBase
<1> QED BY <1>1, <1>2, <1>3, <1>5

LEMMA CreateRefusedStep ==
  ASSUME CalendarBase, CreateRefused
  PROVE  /\ CalendarBase' /\ UNCHANGED <<appt, google, call, knows>>
         /\ consumer # None /\ consumer.at = "create" /\ consumer' = None /\ message' = None
         /\ excuse' = {} => excuse = {}
<1>1. /\ consumer # None /\ consumer.at = "create" /\ consumer' = None /\ message' = None
      /\ UNCHANGED <<appt, google, row, linking, call, knows, calls, links>>
  BY DEF CreateRefused, agendaRow
<1>2. excuse' \subseteq {"failure", "stale"} /\ (excuse' = {} => excuse = {})
  BY ConsumerFields, CleanRefused DEF CreateRefused, CalendarBase
<1>3. CalendarBase'
  BY <1>1, <1>2, QuietConsumerBase
<1> QED BY <1>1, <1>2, <1>3

LEMMA ConsumerDiesStep ==
  ASSUME CalendarBase, ConsumerDies
  PROVE  CalendarBase' /\ "failure" \in excuse'
<1>1. /\ consumer # None /\ consumer' = None /\ message' = message /\ excuse' = excuse \cup {"failure"}
      /\ UNCHANGED <<appt, google, row, linking, call, knows, calls, links>>
  BY DEF ConsumerDies, agendaRow
<1>2. excuse' \subseteq {"failure", "stale"} /\ message' \in Pros \cup {None}
  BY <1>1 DEF CalendarBase, CalendarTypeOK
<1>3. CalendarBase'
  BY <1>1, <1>2, QuietConsumerBase
<1> QED BY <1>1, <1>3

LEMMA CreateEventStep ==
  ASSUME CalendarBase, NEW e \in EventIds, CreateEvent(e)
  PROVE  /\ CalendarBase' /\ UNCHANGED <<appt, message, call, knows>>
         /\ consumer # None /\ consumer.at = "create"
         /\ google[e] = None /\ google'[e] = Event(consumer.pro, consumer.slot)
         /\ \A f \in EventIds : f # e => google'[f] = google[f]
         /\ consumer' # None /\ consumer'.at = "store" /\ consumer'.event = e
         /\ excuse' = {} => /\ excuse = {} /\ ~BeingMade /\ appt.event = None
                            /\ Current(consumer.pro, consumer.slot)
<1>1. /\ consumer # None /\ consumer.at = "create" /\ google[e] = None /\ row[consumer.pro] = "good"
      /\ google' = [google EXCEPT ![e] = Event(consumer.pro, consumer.slot)]
      /\ consumer' = [at |-> "store", pro |-> consumer.pro, event |-> e]
      /\ UNCHANGED <<appt, row, linking, message, call, knows, calls, links>>
  BY DEF CreateEvent, agendaRow
<1>2. consumer.pro \in Pros /\ consumer.slot \in Slots /\ appt # None /\ appt \in ApptRow
  BY <1>1, ConsumerFields, MessageOfAppointment DEF CalendarBase
<1>3. consumer' \in ConsumerRow /\ consumer'.at = "store" /\ consumer'.event = e
  BY <1>1, <1>2 DEF ConsumerRow
<1>4. consumer' # None
  BY <1>3, RowsAreNot
<1>5. /\ google' \in [EventIds -> EventRow \cup {None, Gone}]
      /\ google'[e] = Event(consumer.pro, consumer.slot) /\ google'[e] # None
      /\ \A f \in EventIds : f # e => google'[f] = google[f]
  BY <1>1, <1>2, MadeShape DEF CalendarBase
<1>6. Older /\ \A f \in EventIds : InSight(f)' => row'[google'[f].pro] = "good"
  BY <1>1, <1>2, MadeOlder
<1> DEFINE wrong == BeingMade \/ appt.event # None \/ ~Current(consumer.pro, consumer.slot)
<1>7. excuse' \subseteq {"failure", "stale"} /\ (excuse' = {} => excuse = {} /\ ~wrong)
  BY CleanStale DEF CreateEvent
<1>8. /\ message' \in Pros \cup {None} /\ (consumer # None => message # None)'
  BY <1>1, <1>4 DEF CalendarBase, CalendarTypeOK
<1>9. appt'.event # None => google'[appt'.event] # None
  BY <1>1, <1>2, <1>6 DEF CalendarBase, Older, ApptRow
<1>10. CalendarBase'
  BY <1>1, <1>2, <1>3, <1>5, <1>6, <1>7, <1>8, <1>9, ConsumerBase
<1> QED BY <1>1, <1>3, <1>4, <1>5, <1>7, <1>10

LEMMA StoreEventStep ==
  ASSUME CalendarBase, StoreEvent
  PROVE  /\ CalendarBase' /\ UNCHANGED <<google, call, knows, excuse>>
         /\ consumer # None /\ consumer.at = "store" /\ consumer.event \in EventIds
         /\ consumer' = None /\ message' = None
         /\ appt # None /\ appt \in ApptRow /\ appt' = WithId(consumer.event)
<1>1. /\ consumer # None /\ consumer.at = "store" /\ consumer' = None /\ message' = None
      /\ UNCHANGED <<google, row, linking, call, knows, excuse, calls, links>>
      /\ appt' = WithId(consumer.event)
  BY DEF StoreEvent
<1>2. /\ consumer.event \in EventIds /\ google[consumer.event] # None /\ appt # None /\ appt \in ApptRow
  BY <1>1, ConsumerFields, MessageOfAppointment DEF CalendarBase
<1>3. appt' \in ApptRow /\ appt'.event = consumer.event
  BY <1>1, <1>2, Stored
<1>4. excuse' \subseteq {"failure", "stale"}
  BY <1>1 DEF CalendarBase, CalendarTypeOK
<1>5. appt'.event # None => google'[appt'.event] # None
  BY <1>1, <1>2, <1>3
<1>6. CalendarBase'
  BY <1>1, <1>2, <1>3, <1>4, <1>5, SameEvents, ConsumerBase
<1> QED BY <1>1, <1>2, <1>6

\* Whose notice a move or a cancellation is: only a customer's move is to another.
Faithful == \A c \in Calls : call[c] # None => (call[c].kind # "customer moves" => call[c].pro = call[c].oldPro)

LEMMA SightTyped ==
  ASSUME CalendarTypeOK, NEW e \in EventIds, InSight(e)
  PROVE  google[e] \in EventRow /\ google[e].pro \in Pros
<1>1. google[e] \in EventRow
  BY DEF InSight, Exists, CalendarTypeOK
<1> QED BY <1>1 DEF EventRow

LEMMA EmptyBefore ==
  ASSUME CalendarBase, appt = None
  PROVE  /\ \A c \in Calls : call[c] = None
         /\ \A e \in EventIds : google[e] = None
         /\ message = None /\ consumer = None
BY DEF CalendarBase

LEMMA CreatedStep ==
  ASSUME CalendarBase, NEW s \in Slots, NEW p \in Pros, NEW author \in Sides, NEW told \in Sides,
         Created(s, p, author, told)
  PROVE  /\ CalendarBase' /\ appt = None /\ UNCHANGED <<google, call, consumer>>
         /\ appt' # None /\ appt'.event = None
         /\ appt'.pro = p
         /\ excuse' = {} => UpToDate(author)' /\ UpToDate(told)'
<1>1. /\ appt = None /\ appt' = [status |-> "live", slot |-> s, pro |-> p, event |-> None, moved |-> FALSE]
      /\ message' \in {p, None}
      /\ UNCHANGED <<row, linking, google, consumer, call, calls, links>>
  BY DEF Created
<1>2. PICK heard \in SUBSET {told} :
         /\ knows' = [x \in Sides |-> IF x \in heard \cup {author} THEN [status |-> "live", slot |-> s] ELSE None]
         /\ excuse' = IF heard = {} THEN {"failure"} ELSE {}
  BY DEF Created
<1>3. appt' \in ApptRow /\ appt'.event = None /\ appt'.pro = p
  BY <1>1 DEF ApptRow
<1>4. appt' # None
  BY <1>3, RowsAreNot
<1>5. excuse' = {} => UpToDate(author)' /\ UpToDate(told)'
  <2>1. PICK n \in NoticeRow : n = [status |-> "live", slot |-> s]
    BY DEF NoticeRow
  <2>2. n # None /\ TrueOf(n)'
    BY <1>1, <2>1, RowsAreNot DEF TrueOf
  <2>3. knows' = [x \in Sides |-> IF x \in heard \cup {author} THEN n ELSE None]
    BY <1>2, <2>1
  <2>4. heard # {} => knows'[author] = n /\ knows'[told] = n
    BY <2>3
  <2>5. excuse' = {} => heard # {}
    BY <1>2
  <2> QED BY <2>2, <2>4, <2>5 DEF UpToDate, TrueOf
<1>6. CalendarTypeOK'
  <2>1. [status |-> "live", slot |-> s] \in NoticeRow
    BY DEF NoticeRow
  <2>2. knows' \in [Sides -> NoticeRow \cup {None}]
    BY <1>2, <2>1
  <2> QED BY <1>1, <1>2, <1>3, <2>2 DEF CalendarTypeOK, CalendarBase
<1>7. Older /\ \A e \in EventIds : ~InSight(e)'
  BY <1>1, EmptyBefore DEF Older, InSight, Exists
<1>8. consumer' = None /\ (consumer # None => message # None)'
  BY <1>1, EmptyBefore
<1>9. \A c \in Calls : call'[c] # None => call'[c] = call[c] \/ PlaceOK(call[c])'
  BY <1>1
<1>10. CalendarBase'
  BY <1>3, <1>4, <1>6, <1>7, <1>8, <1>9, BaseStep
<1> QED BY <1>1, <1>3, <1>4, <1>5, <1>10

LEMMA CreationStep ==
  ASSUME CalendarBase, NEW s \in Slots, NEW p \in Pros, CreateByCustomer(s, p) \/ CreateByProfessional(s, p)
  PROVE  /\ CalendarBase' /\ appt = None /\ UNCHANGED <<google, call, consumer>>
         /\ appt' # None /\ appt'.event = None
         /\ excuse' = {} => \A x \in {"customer", appt'.pro} : UpToDate(x)'
<1>1. p \in Sides /\ "customer" \in Sides
  BY DEF Sides
<1>2. Created(s, p, "customer", p) \/ Created(s, p, p, "customer")
  BY DEF CreateByCustomer, CreateByProfessional
<1> QED BY <1>1, <1>2, CreatedStep

-----------------------------------------------------------------------------
\* What the steps of the connection have in common.
Linked ==
    /\ UNCHANGED <<appt, message, consumer, call, knows, excuse>>
    /\ Narrows /\ \A e \in EventIds : InSight(e)' => google'[e] = google[e]

LEMMA LinkedBase ==
  ASSUME CalendarBase, CalendarTypeOK', Linked, \A e \in EventIds : google'[e] # None => google[e] # None,
         \A e \in EventIds : InSight(e)' => row'[google[e].pro] = "good"
  PROVE  CalendarBase'
<1>1. Older
  BY DEF Linked, Narrows, Older
<1>2. \A e \in EventIds : InSight(e)' => row'[google'[e].pro] = "good"
  BY DEF Linked
<1>3. \A c \in Calls : call'[c] # None => call'[c] = call[c] \/ PlaceOK(call[c])'
  BY DEF Linked
<1>4. /\ (consumer # None => message # None)'
      /\ consumer' # None => (consumer'.at = "store" => google'[consumer'.event] # None)
  BY <1>1, ConsumerFields DEF Linked, CalendarBase, Older
<1>5. CASE appt # None
  <2>1. appt' # None /\ appt \in ApptRow /\ (appt'.event # None => google'[appt'.event] # None)
    BY <1>1, <1>5 DEF Linked, CalendarBase, CalendarTypeOK, Older, ApptRow
  <2> QED BY <1>1, <1>2, <1>3, <1>4, <2>1, BaseStep
<1>6. CASE appt = None
  <2>1. /\ \A c \in Calls : call'[c] = None
        /\ \A e \in EventIds : google'[e] = None
        /\ message' = None /\ consumer' = None /\ appt' = None
    BY <1>6, EmptyBefore DEF Linked
  <2> QED BY <1>2, <1>4, <2>1 DEF CalendarBase
<1> QED BY <1>5, <1>6

LEMMA UnlinkedStep ==
  ASSUME CalendarBase, NEW p \in Pros, google' = Unreachable(p), links' \in Nat,
         row' \in [Pros -> {"none", "good", "dead"}], \A q \in Pros : q # p => row'[q] = row[q],
         linking' \in [Pros -> {"no", "at google", "tokens", "disconnecting"}],
         UNCHANGED <<appt, message, consumer, call, knows, excuse, calls>>
  PROVE  CalendarBase' /\ Linked
<1>1. Narrows /\ \A e \in EventIds : InSight(e)' => google'[e] = google[e] /\ google[e].pro # p
  BY UnreachableNarrows DEF CalendarBase
<1>2. Linked
  BY <1>1 DEF Linked
<1>3. CalendarTypeOK'
  BY <1>1 DEF CalendarBase, CalendarTypeOK, Narrows
<1>4. \A e \in EventIds : InSight(e)' => row'[google[e].pro] = "good"
  <2> SUFFICES ASSUME NEW e \in EventIds, InSight(e)' PROVE row'[google[e].pro] = "good"
    OBVIOUS
  <2>1. InSight(e) /\ google[e].pro # p /\ row[google[e].pro] = "good"
    BY <1>1 DEF Narrows, CalendarBase
  <2>2. google[e].pro \in Pros
    BY <2>1, SightTyped DEF CalendarBase
  <2> QED BY <2>1, <2>2
<1>5. \A e \in EventIds : google'[e] # None => google[e] # None
  BY DEF Unreachable, InCalendar, Exists
<1> QED BY <1>2, <1>3, <1>4, <1>5, LinkedBase

LEMMA SameGoogleStep ==
  ASSUME CalendarBase, NEW p \in Pros, links' \in Nat,
         row' \in [Pros -> {"none", "good", "dead"}], \A q \in Pros : row'[q] = row[q] \/ row'[q] = "good",
         linking' \in [Pros -> {"no", "at google", "tokens", "disconnecting"}],
         UNCHANGED <<appt, google, message, consumer, call, knows, excuse, calls>>
  PROVE  CalendarBase' /\ Linked
<1>1. Narrows /\ \A e \in EventIds : InSight(e)' => InSight(e)
  BY NothingNarrows DEF CalendarBase, InSight, Exists
<1>2. Linked
  BY <1>1 DEF Linked
<1>3. CalendarTypeOK'
  BY DEF CalendarBase, CalendarTypeOK
<1>4. \A e \in EventIds : InSight(e)' => row'[google[e].pro] = "good"
  <2> SUFFICES ASSUME NEW e \in EventIds, InSight(e) PROVE row'[google[e].pro] = "good"
    BY <1>1
  <2>1. row[google[e].pro] = "good"
    BY DEF CalendarBase
  <2>2. google[e].pro \in Pros
    BY SightTyped DEF CalendarBase
  <2> QED BY <2>1, <2>2
<1> QED BY <1>2, <1>3, <1>4, LinkedBase

LEMMA LinkingStep ==
  ASSUME CalendarBase, NEW p \in Pros,
         \/ AskAuthUrl(p) \/ TakeState(p) \/ StoreTokens(p) \/ Abandon(p)
         \/ Revoke(p) \/ Disconnect(p)
  PROVE  CalendarBase' /\ Linked
<1>1. /\ row \in [Pros -> {"none", "good", "dead"}] /\ links \in Nat
      /\ linking \in [Pros -> {"no", "at google", "tokens", "disconnecting"}]
  BY DEF CalendarBase, CalendarTypeOK
<1>2. CASE AskAuthUrl(p) \/ TakeState(p) \/ StoreTokens(p) \/ Abandon(p)
  <2>1. /\ UNCHANGED <<appt, google, message, consumer, call, knows, excuse, calls>>
        /\ \/ UNCHANGED row
           \/ row' = [row EXCEPT ![p] = "good"]
        /\ links' = links \/ links' = links + 1
    BY <1>2 DEF AskAuthUrl, TakeState, StoreTokens, Abandon
  <2>2. \E to \in {"no", "at google", "tokens"} : linking' = [linking EXCEPT ![p] = to]
    BY <1>2 DEF AskAuthUrl, TakeState, StoreTokens, Abandon
  <2>3. linking' \in [Pros -> {"no", "at google", "tokens", "disconnecting"}]
    BY <1>1, <2>2
  <2>4. links' \in Nat
    <3>1. links' = links \/ links' = links + 1
      BY <2>1
    <3>2. links \in Nat
      BY <1>1
    <3> QED BY <3>1, <3>2
  <2>5. row' \in [Pros -> {"none", "good", "dead"}] /\ \A q \in Pros : row'[q] = row[q] \/ row'[q] = "good"
    BY <1>1, <2>1
  <2> QED BY <2>1, <2>3, <2>4, <2>5, SameGoogleStep
<1>3. CASE Revoke(p) \/ Disconnect(p)
  <2>1. /\ UNCHANGED <<appt, message, consumer, call, knows, excuse, calls>> /\ google' = Unreachable(p)
        /\ links' = links \/ links' = links + 1
    BY <1>3 DEF Revoke, Disconnect
  <2>2. \E to \in {"no", "disconnecting"} : linking' = [linking EXCEPT ![p] = to]
    BY <1>3 DEF Revoke, Disconnect
  <2>3. UNCHANGED row \/ \E to \in {"none", "dead"} : row' = [row EXCEPT ![p] = to]
    BY <1>3 DEF Revoke, Disconnect
  <2>4. linking' \in [Pros -> {"no", "at google", "tokens", "disconnecting"}]
    BY <1>1, <2>2
  <2>5. links' \in Nat
    <3>1. links' = links \/ links' = links + 1
      BY <2>1
    <3>2. links \in Nat
      BY <1>1
    <3> QED BY <3>1, <3>2
  <2>6. row' \in [Pros -> {"none", "good", "dead"}] /\ \A q \in Pros : q # p => row'[q] = row[q]
    BY <1>1, <2>3
  <2> QED BY <2>1, <2>4, <2>5, <2>6, UnlinkedStep
<1> QED BY <1>2, <1>3

LEMMA BaseInit ==
  CalendarInit => CalendarBase /\ Faithful
<1> SUFFICES ASSUME CalendarInit PROVE CalendarBase /\ Faithful
  OBVIOUS
<1>1. CalendarTypeOK
  BY DEF CalendarInit, CalendarTypeOK
<1> QED BY <1>1 DEF CalendarInit, CalendarBase, Faithful, InSight, Exists

-----------------------------------------------------------------------------
(* While nothing has failed and no step acted on what was no longer so:    *)
(* an event just being made is right; every other one within reach is      *)
(* right and carried by the appointment, or some handler has still to      *)
(* change or delete it; and one that is in the calendar of another         *)
(* professional than the appointment's, or about to be replaced, is to be  *)
(* deleted.                                                                *)
ConsumerMakes(e) == consumer # None /\ consumer.at = "store" /\ consumer.event = e
Making(e) == ConsumerMakes(e) \/ \E c \in Calls : InCall(c, "store") /\ call[c].event = e

Deletes(k) == k.kind \in Cancels \/ ToAnother(k)

Pending(k) ==
    \/ k.at \in {"calendar", "delete", "update"}
    \/ k.at = "notify" /\ k.kind # "customer cancels"
    \/ k.at = "both" /\ "delete" \in k.todo

Owes(c, e) == call[c] # None /\ call[c].event = e /\ Pending(call[c]) /\ call[c].oldPro = google[e].pro
Owed(e) == \E c \in Calls : Owes(c, e)
Doomed(e) == \E c \in Calls : Owes(c, e) /\ Deletes(call[c])
Right(e) == google[e].pro = appt.pro /\ google[e].slot = appt.slot /\ appt.status = "live"

\* As long as the message is about, there is no event but the consumer's.
NothingYet ==
    message # None =>
        /\ appt.event = None
        /\ \A c \in Calls : call[c] # None => call[c].event = None
        /\ \A e \in EventIds : InSight(e) => ConsumerMakes(e)

MadeRight == \A e \in EventIds : InSight(e) /\ Making(e) => Right(e)
OneMaker == \A c, d \in Calls : InCall(c, "store") /\ InCall(d, "store") => c = d
Shown == \A e \in EventIds : InSight(e) => Making(e) \/ Owed(e) \/ (Right(e) /\ appt.event = e)
Astray ==
    \A e \in EventIds : InSight(e) /\ appt.event = e /\ (google[e].pro # appt.pro \/ BeingMade) => Doomed(e)

\* A handler past the deletion, or one the event has been moved away from.
Behind(k, e) ==
    \/ google[e].pro # k.oldPro
    \/ k.at \in {"new calendar", "create"}
    \/ k.at = "both" /\ "delete" \notin k.todo

HandsOK ==
    \A c \in Calls, e \in EventIds :
        /\ call[c] # None /\ call[c].event = e /\ call[c].at \notin {"commit", "store"}
        /\ InSight(e) /\ Behind(call[c], e)
        => Doomed(e)

Safe == NothingYet /\ MadeRight /\ OneMaker /\ Shown /\ Astray /\ HandsOK

-----------------------------------------------------------------------------
\* A call between its commit and its last step: what it may do to the event it knows of.
Settles(c, e) ==
    Right(e)' /\ UNCHANGED appt /\ appt.event = e /\ ~Deletes(call[c])

Keeps(c, x, e) ==
    google'[e] = google[e] /\ (Owes(c, e) => x # None /\ Pending(x))

\* Clearing the id only of an event that somebody has still to deal with.
ApptKept ==
    \/ UNCHANGED appt
    \/ /\ appt \in ApptRow /\ appt' = [appt EXCEPT !.event = None]
       /\ \A e \in EventIds : InSight(e)' /\ appt.event = e => Owed(e)

Works(c, x) ==
    /\ Onward(c, x) /\ Narrows /\ ApptKept
    /\ call[c] # None /\ call[c].at \notin {"commit", "store"}
    /\ x # None => x.at \notin {"commit", "store"}
    /\ \A e \in EventIds : InSight(e)' /\ call[c].event # e => google'[e] = google[e]
    /\ \A e \in EventIds : InSight(e)' /\ call[c].event = e => Settles(c, e) \/ Keeps(c, x, e)
    /\ \A e \in EventIds : InSight(e)' /\ call[c].event = e /\ x # None /\ Behind(x, e)' => Doomed(e)

LEMMA WorksCalls ==
  ASSUME CalendarBase, NEW c \in Calls, NEW x, Works(c, x)
  PROVE  /\ call'[c] = x /\ \A d \in Calls : d # c => call'[d] = call[d]
         /\ \A d \in Calls : InCall(d, "store")' <=> InCall(d, "store")
         /\ \A e \in EventIds : Making(e)' <=> Making(e)
         /\ BeingMade' <=> BeingMade
<1>1. call'[c] = x /\ \A d \in Calls : d # c => call'[d] = call[d]
  BY CallsAfter DEF Works, Onward, CallStep, CalendarBase
<1>2. ASSUME NEW d \in Calls
      PROVE  /\ InCall(d, "store")' <=> InCall(d, "store")
             /\ InCall(d, "store") => call'[d] = call[d]
  BY <1>1 DEF InCall, Works
<1>3. UNCHANGED consumer
  BY DEF Works, Onward, CallStep
<1>4. ASSUME NEW e \in EventIds PROVE Making(e)' <=> Making(e)
  BY <1>2, <1>3 DEF Making, ConsumerMakes, InCall
<1>5. BeingMade' <=> BeingMade
  BY <1>2, <1>3 DEF BeingMade
<1> QED BY <1>1, <1>2, <1>4, <1>5

\* Who owes a change of an event still does, or the event is right.
LEMMA WorksOwed ==
  ASSUME CalendarBase, NEW c \in Calls, NEW x, Works(c, x), NEW e \in EventIds, InSight(e)'
  PROVE  /\ Doomed(e) => Doomed(e)'
         /\ Owed(e) => Owed(e)' \/ (Right(e)' /\ UNCHANGED appt /\ appt.event = e)
<1>1. call'[c] = x /\ \A d \in Calls : d # c => call'[d] = call[d]
  BY WorksCalls
<1>2. InSight(e) /\ google'[e].pro = google[e].pro
  BY DEF Works, Narrows
<1>3. ASSUME NEW d \in Calls, d # c, Owes(d, e)
      PROVE  Owes(d, e)' /\ (Deletes(call[d]) => Deletes(call[d])')
  BY <1>1, <1>2, <1>3 DEF Owes, Pending, Deletes, ToAnother
<1>4. ASSUME Owes(c, e), Keeps(c, x, e) PROVE Owes(c, e)' /\ (Deletes(call[c]) => Deletes(call[c])')
  <2>1. x # None /\ Pending(x) /\ Like(x, call[c])
    BY <1>4 DEF Keeps, Works, Onward
  <2> QED BY <1>1, <1>2, <1>4, <2>1 DEF Owes, Pending, Deletes, ToAnother, Like
<1>5. Owes(c, e) => Settles(c, e) \/ Keeps(c, x, e)
  BY DEF Works, Owes
<1>6. ASSUME Doomed(e) PROVE Doomed(e)'
  <2>1. PICK d \in Calls : Owes(d, e) /\ Deletes(call[d])
    BY <1>6 DEF Doomed
  <2>2. d = c => Keeps(c, x, e)
    BY <1>5, <2>1 DEF Settles
  <2>3. Owes(d, e)' /\ Deletes(call[d])'
    BY <1>3, <1>4, <2>1, <2>2
  <2> QED BY <2>3 DEF Doomed
<1>7. ASSUME Owed(e) PROVE Owed(e)' \/ (Right(e)' /\ UNCHANGED appt /\ appt.event = e)
  <2>1. PICK d \in Calls : Owes(d, e)
    BY <1>7 DEF Owed
  <2>2. CASE d = c /\ Settles(c, e)
    BY <2>2 DEF Settles
  <2>3. CASE d # c \/ ~Settles(c, e)
    <3>1. Owes(d, e)'
      BY <1>3, <1>4, <1>5, <2>1, <2>3
    <3> QED BY <3>1 DEF Owed
  <2> QED BY <2>2, <2>3
<1> QED BY <1>6, <1>7

\* What the appointment says of an event is as before.
LEMMA RightKept ==
  ASSUME NEW e \in EventIds, google'[e].pro = google[e].pro, google'[e].slot = google[e].slot,
         appt'.pro = appt.pro, appt'.slot = appt.slot, appt'.status = appt.status
  PROVE  Right(e)' <=> Right(e)
BY DEF Right

LEMMA WorksRight ==
  ASSUME CalendarBase, NEW c \in Calls, NEW x, Works(c, x), NEW e \in EventIds, InSight(e)', Right(e)
  PROVE  Right(e)'
<1>1. appt'.pro = appt.pro /\ appt'.slot = appt.slot /\ appt'.status = appt.status
  BY Cleared DEF Works, ApptKept
<1>2. google'[e] = google[e] \/ Settles(c, e)
  BY DEF Works, Keeps
<1> QED BY <1>1, <1>2, RightKept DEF Settles

LEMMA WorksSafe ==
  ASSUME CalendarBase, Safe, NEW c \in Calls, NEW x, Works(c, x)
  PROVE  Safe'
<1>1. /\ call'[c] = x /\ \A d \in Calls : d # c => call'[d] = call[d]
      /\ \A d \in Calls : InCall(d, "store")' <=> InCall(d, "store")
      /\ \A e \in EventIds : Making(e)' <=> Making(e)
      /\ BeingMade' <=> BeingMade
  BY WorksCalls
<1>2. \A e \in EventIds : InSight(e)' => InSight(e) /\ google'[e].pro = google[e].pro
  BY DEF Works, Narrows
<1>3. UNCHANGED <<message, consumer>> /\ (x # None => Like(x, call[c])) /\ call[c] # None
  BY DEF Works, Onward, CallStep
<1>4. appt'.event \in {appt.event, None} /\ appt'.pro = appt.pro /\ (UNCHANGED appt \/ appt'.event = None)
  BY Cleared DEF Works, ApptKept
<1>5. NothingYet'
  <2> SUFFICES ASSUME message # None
               PROVE  /\ appt'.event = None
                      /\ \A d \in Calls : call'[d] # None => call'[d].event = None
                      /\ \A e \in EventIds : InSight(e)' => ConsumerMakes(e)
    BY <1>3 DEF NothingYet, ConsumerMakes
  <2>1. /\ appt.event = None
        /\ \A d \in Calls : call[d] # None => call[d].event = None
        /\ \A e \in EventIds : InSight(e) => ConsumerMakes(e)
    BY DEF Safe, NothingYet
  <2>2. ASSUME NEW d \in Calls, call'[d] # None PROVE call'[d].event = None
    BY <1>1, <1>3, <2>1, <2>2 DEF Like
  <2> QED BY <1>2, <1>4, <2>1, <2>2
<1>6. MadeRight'
  <2> SUFFICES ASSUME NEW e \in EventIds, InSight(e)', Making(e)' PROVE Right(e)'
    BY DEF MadeRight
  <2>1. Right(e)
    BY <1>1, <1>2 DEF Safe, MadeRight
  <2> QED BY <2>1, WorksRight
<1>7. OneMaker'
  BY <1>1 DEF Safe, OneMaker
<1>8. Shown'
  <2> SUFFICES ASSUME NEW e \in EventIds, InSight(e)'
               PROVE  Making(e)' \/ Owed(e)' \/ (Right(e)' /\ appt'.event = e)
    BY DEF Shown
  <2>1. Owed(e) => Owed(e)' \/ (Right(e)' /\ UNCHANGED appt /\ appt.event = e)
    BY WorksOwed
  <2>2. CASE Making(e)
    BY <1>1, <2>2
  <2>3. CASE Owed(e)
    BY <2>1, <2>3
  <2>4. CASE Right(e) /\ appt.event = e
    <3>1. CASE UNCHANGED appt
      BY <2>4, <3>1, WorksRight
    <3>2. CASE ~UNCHANGED appt
      <4>1. Owed(e)
        BY <2>4, <3>2 DEF Works, ApptKept
      <4> QED BY <2>1, <4>1
    <3> QED BY <3>1, <3>2
  <2> QED BY <1>2, <2>2, <2>3, <2>4 DEF Safe, Shown
<1>9. Astray'
  <2> SUFFICES ASSUME NEW e \in EventIds, InSight(e)', appt'.event = e, google'[e].pro # appt'.pro \/ BeingMade'
               PROVE  Doomed(e)'
    BY DEF Astray
  <2>1. appt.event = e
    BY <1>4, RowsAreNot
  <2>2. Doomed(e)
    BY <1>1, <1>2, <1>4, <2>1 DEF Safe, Astray
  <2> QED BY <2>2, WorksOwed
<1>10. HandsOK'
  <2> SUFFICES ASSUME NEW d \in Calls, NEW e \in EventIds, call'[d] # None, call'[d].event = e,
                      call'[d].at \notin {"commit", "store"}, InSight(e)', Behind(call[d], e)'
               PROVE  Doomed(e)'
    BY DEF HandsOK
  <2>1. Doomed(e)
    <3>1. CASE d = c
      <4>1. x # None /\ call[c].event = e
        BY <1>1, <1>3, <3>1 DEF Like
      <4>2. Behind(x, e)'
        BY <1>1, <3>1 DEF Behind
      <4> QED BY <4>1, <4>2 DEF Works
    <3>2. CASE d # c
      <4>1. call'[d] = call[d]
        BY <1>1, <3>2
      <4>2. Behind(call[d], e)
        BY <1>2, <4>1 DEF Behind
      <4> QED BY <1>2, <4>1, <4>2 DEF Safe, HandsOK
    <3> QED BY <3>1, <3>2
  <2> QED BY <2>1, WorksOwed
<1> QED BY <1>5, <1>6, <1>7, <1>8, <1>9, <1>10 DEF Safe

\* An event in the calendar of its call's former professional can be reached.
LEMMA SightGood ==
  ASSUME CalendarBase, NEW c \in Calls, call[c] # None, NEW e \in EventIds, call[c].event = e, InSight(e),
         \/ row[call[c].oldPro] # "good"
         \/ ~InCalendar(call[c].event, call[c].oldPro)
  PROVE  google[e].pro # call[c].oldPro
<1>1. row[google[e].pro] = "good" /\ Exists(e) /\ e # None
  BY RowsAreNot DEF CalendarBase, InSight
<1> QED BY <1>1 DEF InCalendar

LEMMA PastDoomed ==
  ASSUME Safe, NEW c \in Calls, NEW e \in EventIds, call[c] # None, call[c].event = e,
         call[c].at \notin {"commit", "store"}, InSight(e), Behind(call[c], e)
  PROVE  Doomed(e)
BY DEF Safe, HandsOK

\* A handler that has not acted on the events.
LEMMA SameWorks ==
  ASSUME CalendarBase, Safe, NEW c \in Calls, NEW x, Onward(c, x), UNCHANGED <<appt, google>>,
         call[c] # None, call[c].at \notin {"commit", "store"},
         x # None => x.at \notin {"commit", "store"},
         \A e \in EventIds : InSight(e) /\ Owes(c, e) => x # None /\ Pending(x),
         \A e \in EventIds : /\ InSight(e) /\ call[c].event = e /\ x # None
                             /\ x.at \in {"new calendar", "create"} \/ (x.at = "both" /\ "delete" \notin x.todo)
                             => Behind(call[c], e)
  PROVE  Works(c, x)
<1>1. Narrows /\ ApptKept
  BY NothingNarrows DEF CalendarBase, ApptKept
<1>2. \A e \in EventIds : InSight(e)' <=> InSight(e)
  BY DEF InSight, Exists
<1>3. \A e \in EventIds : InSight(e)' /\ call[c].event = e => Keeps(c, x, e)
  BY <1>2 DEF Keeps
<1>4. ASSUME NEW e \in EventIds, InSight(e)', call[c].event = e, x # None, Behind(x, e)' PROVE Doomed(e)
  <2>1. Behind(call[c], e)
    <3>1. x.oldPro = call[c].oldPro
      BY <1>4 DEF Onward, Like
    <3> QED BY <1>2, <1>4, <3>1 DEF Behind
  <2> QED BY <1>2, <1>4, <2>1, PastDoomed
<1> QED BY <1>1, <1>3, <1>4 DEF Works

LEMMA NotifyWorks ==
  ASSUME CalendarBase, Safe, NEW c \in Calls, Notify(c)
  PROVE  Safe'
<1>1. /\ UNCHANGED <<appt, google>> /\ call[c].at = "notify" /\ call[c] # None
  BY NotifyStep, Holds DEF Notify
<1>2. PICK x : /\ Onward(c, x) /\ (x = None <=> call[c].kind = "customer cancels")
               /\ x # None => x.at = "calendar" /\ x.todo = call[c].todo
  BY NotifyStep
<1>3. \A e \in EventIds : InSight(e) /\ Owes(c, e) => x # None /\ Pending(x)
  BY <1>1, <1>2 DEF Owes, Pending
<1>4. Works(c, x)
  BY <1>1, <1>2, <1>3, SameWorks
<1> QED BY <1>4, WorksSafe

LEMMA FindCalendarWorks ==
  ASSUME CalendarBase, Safe, NEW c \in Calls, FindCalendar(c)
  PROVE  Safe'
<1>1. /\ UNCHANGED <<appt, google>> /\ call[c].at = "calendar" /\ call[c] # None
  BY FindCalendarStep, Holds DEF FindCalendar
<1>2. PICK x : /\ Onward(c, x)
               /\ x # None => x.at # "commit" /\ x.at # "store"
               /\ call[c].event # None /\ row[call[c].oldPro] # "none" =>
                        /\ x # None /\ x.todo = {"delete", "clear"}
                        /\ x.at \in {"both", "delete", "update"}
               /\ call[c].event # None /\ row[call[c].oldPro] = "none" =>
                        x = None \/ x.at \in {"new calendar", "notify"}
  BY FindCalendarStep
<1>3. ASSUME NEW e \in EventIds, InSight(e), call[c].event = e, row[call[c].oldPro] = "none"
      PROVE  google[e].pro # call[c].oldPro
  BY <1>1, <1>3, SightGood
<1>4. ASSUME NEW e \in EventIds, InSight(e), Owes(c, e) PROVE x # None /\ Pending(x)
  <2>1. call[c].event = e /\ e # None /\ google[e].pro = call[c].oldPro
    BY <1>4, RowsAreNot DEF Owes
  <2> QED BY <1>2, <1>3, <1>4, <2>1 DEF Pending
<1>5. ASSUME NEW e \in EventIds, InSight(e), call[c].event = e, x # None,
             x.at \in {"new calendar", "create"} \/ (x.at = "both" /\ "delete" \notin x.todo)
      PROVE  Behind(call[c], e)
  <2>1. e # None
    BY RowsAreNot
  <2> QED BY <1>2, <1>3, <1>5, <2>1 DEF Behind
<1>6. Works(c, x)
  BY <1>1, <1>2, <1>4, <1>5, SameWorks
<1> QED BY <1>6, WorksSafe

LEMMA EnterNewCalendarWorks ==
  ASSUME CalendarBase, Safe, NEW c \in Calls, EnterNewCalendar(c)
  PROVE  Safe'
<1>1. /\ UNCHANGED <<appt, google>> /\ call[c].at = "new calendar" /\ call[c] # None
  BY EnterNewCalendarStep, Holds DEF EnterNewCalendar
<1>2. PICK x : Onward(c, x) /\ (x # None => x.at = "create" /\ x.todo = call[c].todo)
  BY EnterNewCalendarStep
<1>3. \A e \in EventIds : ~Owes(c, e) /\ Behind(call[c], e)
  BY <1>1 DEF Owes, Pending, Behind
<1>4. Works(c, x)
  BY <1>1, <1>2, <1>3, SameWorks
<1> QED BY <1>4, WorksSafe

\* The event is gone from the calendar.
LEMMA DeletedWorks ==
  ASSUME CalendarBase, Safe, NEW c \in Calls, NEW x, Onward(c, x), UNCHANGED appt, Narrows,
         call[c] # None, call[c].at \notin {"commit", "store"},
         x # None => x.at \notin {"commit", "store"},
         \A f \in EventIds : f = call[c].event => ~InSight(f)',
         \A f \in EventIds : f # call[c].event => google'[f] = google[f]
  PROVE  Works(c, x)
BY DEF Works, ApptKept

LEMMA DeleteEventWorks ==
  ASSUME CalendarBase, Safe, NEW c \in Calls, DeleteEvent(c), excuse' = {}
  PROVE  Safe'
<1>1. /\ UNCHANGED appt /\ call[c].at = "delete" /\ call[c] # None
  BY DeleteEventStep, Holds DEF DeleteEvent
<1>2. PICK x : /\ Onward(c, x) /\ (x # None => x.at \in {"new calendar", "clear"})
               /\ \/ Narrows /\ (\A f \in EventIds : f = call[c].event => ~InSight(f)')
                         /\ \A f \in EventIds : f # call[c].event => google'[f] = google[f]
                  \/ /\ UNCHANGED google /\ x = None
                     /\ excuse' = {} => row[call[c].oldPro] # "good" \/ ~InCalendar(call[c].event, call[c].oldPro)
  BY DeleteEventStep
<1>3. CASE /\ Narrows /\ (\A f \in EventIds : f = call[c].event => ~InSight(f)')
           /\ \A f \in EventIds : f # call[c].event => google'[f] = google[f]
  BY <1>1, <1>2, <1>3, DeletedWorks, WorksSafe
<1>4. CASE /\ UNCHANGED google /\ x = None
           /\ row[call[c].oldPro] # "good" \/ ~InCalendar(call[c].event, call[c].oldPro)
  <2>1. \A e \in EventIds : InSight(e) => ~Owes(c, e)
    BY <1>1, <1>4, SightGood DEF Owes
  <2>2. Works(c, x)
    BY <1>1, <1>2, <1>4, <2>1, SameWorks
  <2> QED BY <2>2, WorksSafe
<1> QED BY <1>2, <1>3, <1>4

\* Only its id is taken off.
LEMMA ClearedWorks ==
  ASSUME CalendarBase, Safe, NEW c \in Calls, NEW x, Onward(c, x), UNCHANGED google,
         appt \in ApptRow, appt' = [appt EXCEPT !.event = None], appt.event \in {call[c].event, None},
         call[c] # None, call[c].at \notin {"commit", "store"},
         x # None => x.at \notin {"commit", "store"},
         \A e \in EventIds : InSight(e) /\ Owes(c, e) => x # None /\ Pending(x),
         \A e \in EventIds : InSight(e) /\ call[c].event = e => Owed(e),
         \A e \in EventIds : /\ InSight(e) /\ call[c].event = e /\ x # None
                             /\ x.at \in {"new calendar", "create"} \/ (x.at = "both" /\ "delete" \notin x.todo)
                             => Behind(call[c], e)
  PROVE  Works(c, x)
<1>1. Narrows
  BY NothingNarrows DEF CalendarBase
<1>2. \A e \in EventIds : InSight(e)' <=> InSight(e)
  BY DEF InSight, Exists
<1>3. ApptKept
  BY <1>2, RowsAreNot DEF ApptKept
<1>4. \A e \in EventIds : InSight(e)' /\ call[c].event = e => Keeps(c, x, e)
  BY <1>2 DEF Keeps
<1>5. ASSUME NEW e \in EventIds, InSight(e)', call[c].event = e, x # None, Behind(x, e)' PROVE Doomed(e)
  <2>1. Behind(call[c], e)
    <3>1. x.oldPro = call[c].oldPro
      BY <1>5 DEF Onward, Like
    <3> QED BY <1>2, <1>5, <3>1 DEF Behind
  <2> QED BY <1>2, <1>5, <2>1, PastDoomed
<1> QED BY <1>1, <1>3, <1>4, <1>5 DEF Works

LEMMA ClearEventWorks ==
  ASSUME CalendarBase, Safe, NEW c \in Calls, ClearEvent(c), excuse' = {}
  PROVE  Safe'
<1>1. /\ UNCHANGED google /\ call[c].at = "clear" /\ call[c] # None /\ Onward(c, None)
      /\ call[c].event \in EventIds /\ ~InSight(call[c].event)
      /\ appt \in ApptRow /\ appt' = [appt EXCEPT !.event = None] /\ appt.event \in {call[c].event, None}
  BY ClearEventStep, Holds DEF ClearEvent
<1>2. \A e \in EventIds : ~Owes(c, e)
  BY <1>1 DEF Owes, Pending
<1>3. \A e \in EventIds : call[c].event = e => ~InSight(e)
  BY <1>1
<1>4. Works(c, None)
  BY <1>1, <1>2, <1>3, ClearedWorks
<1> QED BY <1>4, WorksSafe

LEMMA DoomedOwed ==
  ASSUME NEW e \in EventIds, Doomed(e)
  PROVE  Owed(e)
BY DEF Doomed, Owed

LEMMA DeleteAndClearWorks ==
  ASSUME CalendarBase, Safe, NEW c \in Calls, DeleteAndClear(c), excuse' = {}
  PROVE  Safe'
<1>1. call[c].at = "both" /\ call[c] # None /\ call[c].event \in EventIds
  BY DeleteAndClearStep, Holds DEF DeleteAndClear
<1>2. PICK x : /\ Onward(c, x) /\ x # None /\ x.at \in {"notify", "both"}
               /\ x.at = "both" => x.todo \subseteq call[c].todo
               /\ \/ /\ UNCHANGED appt /\ Narrows /\ (\A f \in EventIds : f = call[c].event => ~InSight(f)')
                     /\ \A f \in EventIds : f # call[c].event => google'[f] = google[f]
                  \/ /\ UNCHANGED <<appt, google>>
                     /\ row[call[c].oldPro] # "good" \/ ~InCalendar(call[c].event, call[c].oldPro)
                  \/ /\ UNCHANGED google /\ appt \in ApptRow /\ appt' = [appt EXCEPT !.event = None]
                     /\ appt.event \in {call[c].event, None}
                     /\ "delete" \in call[c].todo => x.at = "both" /\ "delete" \in x.todo
  BY DeleteAndClearStep
<1>3. CASE /\ UNCHANGED appt /\ Narrows /\ (\A f \in EventIds : f = call[c].event => ~InSight(f)')
           /\ \A f \in EventIds : f # call[c].event => google'[f] = google[f]
  BY <1>1, <1>2, <1>3, DeletedWorks, WorksSafe
<1>4. CASE /\ UNCHANGED <<appt, google>>
           /\ row[call[c].oldPro] # "good" \/ ~InCalendar(call[c].event, call[c].oldPro)
  <2>1. ASSUME NEW e \in EventIds, InSight(e), call[c].event = e PROVE google[e].pro # call[c].oldPro
    BY <1>1, <1>4, <2>1, SightGood
  <2>2. \A e \in EventIds : InSight(e) => ~Owes(c, e)
    BY <2>1 DEF Owes
  <2>3. \A e \in EventIds : InSight(e) /\ call[c].event = e => Behind(call[c], e)
    BY <2>1 DEF Behind
  <2>4. Works(c, x)
    BY <1>1, <1>2, <1>4, <2>2, <2>3, SameWorks
  <2> QED BY <2>4, WorksSafe
<1>5. CASE /\ UNCHANGED google /\ appt \in ApptRow /\ appt' = [appt EXCEPT !.event = None]
           /\ appt.event \in {call[c].event, None}
           /\ "delete" \in call[c].todo => x.at = "both" /\ "delete" \in x.todo
  <2>1. \A e \in EventIds : InSight(e) /\ Owes(c, e) => x # None /\ Pending(x)
    BY <1>1, <1>2, <1>5 DEF Owes, Pending
  <2>2. ASSUME NEW e \in EventIds, InSight(e), call[c].event = e PROVE Owed(e)
    <3>1. CASE Behind(call[c], e)
      BY <1>1, <2>2, <3>1, PastDoomed, DoomedOwed
    <3>2. CASE ~Behind(call[c], e)
      <4>1. Owes(c, e)
        BY <1>1, <2>2, <3>2 DEF Behind, Owes, Pending
      <4> QED BY <4>1 DEF Owed
    <3> QED BY <3>1, <3>2
  <2>3. ASSUME NEW e \in EventIds, x.at \in {"new calendar", "create"} \/ (x.at = "both" /\ "delete" \notin x.todo)
        PROVE  Behind(call[c], e)
    BY <1>1, <1>2, <1>5, <2>3 DEF Behind
  <2>4. Works(c, x)
    BY <1>1, <1>2, <1>5, <2>1, <2>2, <2>3, ClearedWorks
  <2> QED BY <2>4, WorksSafe
<1> QED BY <1>2, <1>3, <1>4, <1>5

LEMMA UpdateEventWorks ==
  ASSUME CalendarBase, Safe, NEW c \in Calls, UpdateEvent(c), excuse' = {}
  PROVE  Safe'
<1>1. /\ UNCHANGED appt /\ call[c].at = "update" /\ call[c] # None /\ Onward(c, None)
      /\ call[c].kind \notin Cancels /\ ~ToAnother(call[c])
  BY UpdateEventStep, Holds DEF UpdateEvent
<1>2. CASE /\ Narrows /\ \A f \in EventIds : f # call[c].event => google'[f] = google[f]
           /\ appt.event = call[c].event /\ Current(call[c].oldPro, call[c].slot)
           /\ \A e \in EventIds : e = call[c].event =>
                 google'[e].pro = call[c].oldPro /\ google'[e].slot = call[c].slot
  <2>1. \A e \in EventIds : call[c].event = e => Settles(c, e)
    BY <1>1, <1>2 DEF Settles, Right, Current, Deletes
  <2>2. ApptKept
    BY <1>1 DEF ApptKept
  <2>3. Works(c, None)
    BY <1>1, <1>2, <2>1, <2>2 DEF Works
  <2> QED BY <2>3, WorksSafe
<1>3. CASE /\ UNCHANGED google
           /\ row[call[c].oldPro] # "good" \/ ~InCalendar(call[c].event, call[c].oldPro)
  <2>1. \A e \in EventIds : InSight(e) => ~Owes(c, e)
    BY <1>1, <1>3, SightGood DEF Owes
  <2>2. Works(c, None)
    BY <1>1, <1>3, <2>1, SameWorks
  <2> QED BY <2>2, WorksSafe
<1> QED BY <1>2, <1>3, UpdateEventStep

\* A handler at its last call to Google that gives up.
LEMMA GivesUpWorks ==
  ASSUME CalendarBase, Safe, NEW c \in Calls, Onward(c, None), UNCHANGED <<appt, google>>,
         call[c] # None, call[c].at = "create"
  PROVE  Safe'
<1>1. \A e \in EventIds : ~Owes(c, e)
  BY DEF Owes, Pending
<1>2. Works(c, None)
  BY <1>1, SameWorks
<1> QED BY <1>2, WorksSafe

-----------------------------------------------------------------------------
\* The steps in which only what other calls owe stays as it is.
LEMMA OthersOwe ==
  ASSUME NEW c \in Calls, \A d \in Calls : d # c => call'[d] = call[d],
         NEW e \in EventIds, google'[e].pro = google[e].pro, ~Owes(c, e)
  PROVE  (Doomed(e) => Doomed(e)') /\ (Owed(e) => Owed(e)')
<1>1. ASSUME NEW d \in Calls, Owes(d, e)
      PROVE  d # c /\ Owes(d, e)' /\ (Deletes(call[d]) => Deletes(call[d])')
  BY <1>1 DEF Owes, Pending, Deletes, ToAnother
<1> QED BY <1>1 DEF Doomed, Owed

LEMMA EnterSafe ==
  ASSUME CalendarBase, Safe, NEW c \in Calls, Entered(c)
  PROVE  Safe'
<1>1. /\ UNCHANGED <<appt, row, google, message, consumer>> /\ call[c] = None
  BY DEF Entered
<1>2. PICK x \in CallRow : /\ call' = [call EXCEPT ![c] = x] /\ x.at = "commit" /\ x.event = appt.event
                           /\ x.kind # "customer moves" => x.pro = x.oldPro
  BY DEF Entered
<1>3. call'[c] = x /\ x # None /\ \A d \in Calls : d # c => call'[d] = call[d]
  BY <1>2, CallsAfter, RowsAreNot DEF CalendarBase
<1>4. \A e \in EventIds : InSight(e)' <=> InSight(e)
  BY <1>1 DEF InSight, Exists
<1>5. /\ \A d \in Calls : InCall(d, "store")' <=> InCall(d, "store")
      /\ \A e \in EventIds : Making(e)' <=> Making(e)
      /\ BeingMade' <=> BeingMade
  <2>1. \A d \in Calls : /\ InCall(d, "store")' <=> InCall(d, "store")
                         /\ InCall(d, "store") => d # c
    BY <1>1, <1>2, <1>3 DEF InCall
  <2>2. \A e \in EventIds : Making(e)' <=> Making(e)
    BY <1>1, <1>3, <2>1 DEF Making, ConsumerMakes
  <2> QED BY <1>1, <2>1, <2>2 DEF BeingMade
<1>6. \A e \in EventIds : (Doomed(e) => Doomed(e)') /\ (Owed(e) => Owed(e)')
  BY <1>1, <1>3, OthersOwe DEF Owes
<1>7. \A e \in EventIds : Right(e)' <=> Right(e)
  BY <1>1 DEF Right
<1>8. NothingYet'
  BY <1>1, <1>2, <1>3, <1>4 DEF Safe, NothingYet, ConsumerMakes
<1>9. MadeRight' /\ OneMaker'
  BY <1>4, <1>5, <1>7 DEF Safe, MadeRight, OneMaker
<1>10. Shown' /\ Astray'
  BY <1>1, <1>4, <1>5, <1>6, <1>7 DEF Safe, Shown, Astray
<1>11. HandsOK'
  <2> SUFFICES ASSUME NEW d \in Calls, NEW e \in EventIds, call'[d] # None, call'[d].event = e,
                      call'[d].at \notin {"commit", "store"}, InSight(e)', Behind(call[d], e)'
               PROVE  Doomed(e)'
    BY DEF HandsOK
  <2>1. d # c /\ call'[d] = call[d]
    BY <1>2, <1>3
  <2>2. Behind(call[d], e)
    BY <1>1, <2>1 DEF Behind
  <2>3. Doomed(e)
    BY <1>4, <2>1, <2>2 DEF Safe, HandsOK
  <2> QED BY <1>6, <2>3
<1> QED BY <1>8, <1>9, <1>10, <1>11 DEF Safe

LEMMA CommitSafe ==
  ASSUME CalendarBase, Safe, NEW c \in Calls, Commit(c), excuse' = {}
  PROVE  Safe'
<1>1. /\ UNCHANGED google /\ call[c].at = "commit" /\ call[c] \in CallRow /\ call[c] # None
      /\ ~BeingMade /\ appt.event = call[c].event /\ appt.pro = call[c].oldPro
  BY CommitStep, Holds DEF Commit
<1>2. PICK x : /\ Onward(c, x) /\ x # None
               /\ x.at = IF call[c].kind = "customer cancels" THEN "calendar" ELSE "notify"
  BY CommitStep
<1>3. /\ appt'.event = appt.event
      /\ call[c].kind # "customer moves" => appt'.pro = appt.pro
      /\ call[c].kind = "customer moves" => appt'.pro = call[c].pro
  <2>1. PICK sent \in BOOLEAN : (ToAnother(call[c]) => sent) /\ appt' = Committed(call[c], sent)
    BY CommitStep
  <2>2. appt \in ApptRow
    BY CommitStep
  <2> QED BY <1>1, <2>1, <2>2, CommittedRow
<1>4. /\ call'[c] = x /\ \A d \in Calls : d # c => call'[d] = call[d]
      /\ UNCHANGED <<message, consumer>> /\ Like(x, call[c])
  BY <1>2, CallsAfter DEF Onward, CallStep, CalendarBase
<1>5. \A e \in EventIds : InSight(e)' <=> InSight(e)
  BY <1>1 DEF InSight, Exists
<1>6. /\ ~BeingMade' /\ \A e \in EventIds : ~Making(e) /\ ~Making(e)'
      /\ \A d \in Calls : ~InCall(d, "store")'
  <2>1. \A d \in Calls : ~InCall(d, "store")
    BY <1>1 DEF BeingMade
  <2>2. \A d \in Calls : ~InCall(d, "store")'
    BY <1>1, <1>2, <1>4, <2>1 DEF InCall
  <2> QED BY <1>1, <1>4, <2>1, <2>2 DEF BeingMade, Making, ConsumerMakes
<1>7. \A e \in EventIds : (Doomed(e) => Doomed(e)') /\ (Owed(e) => Owed(e)')
  BY <1>1, <1>4, OthersOwe DEF Owes, Pending
<1>8. Pending(x)
  BY <1>2, <1>4 DEF Pending, Like
<1>9. ASSUME NEW e \in EventIds, appt.event = e, google[e].pro = appt.pro
      PROVE  Owes(c, e)' /\ (appt'.pro # appt.pro => Doomed(e)')
  <2>1. Owes(c, e)'
    BY <1>1, <1>2, <1>4, <1>8, <1>9 DEF Owes, Like, Pending
  <2>2. ASSUME appt'.pro # appt.pro PROVE Deletes(call[c])'
    <3>1. ToAnother(x)
      BY <1>1, <1>3, <1>4, <2>2 DEF ToAnother, Like
    <3> QED BY <1>4, <3>1 DEF Deletes, ToAnother
  <2> QED BY <2>1, <2>2 DEF Doomed
<1>10. NothingYet'
  <2> SUFFICES ASSUME message # None
               PROVE  /\ appt'.event = None
                      /\ \A d \in Calls : call'[d] # None => call'[d].event = None
                      /\ \A e \in EventIds : InSight(e) => ConsumerMakes(e)
    BY <1>4, <1>5 DEF NothingYet, ConsumerMakes
  <2>1. /\ appt.event = None
        /\ \A d \in Calls : call[d] # None => call[d].event = None
        /\ \A e \in EventIds : InSight(e) => ConsumerMakes(e)
    BY DEF Safe, NothingYet
  <2> QED BY <1>1, <1>3, <1>4, <2>1 DEF Like
<1>11. MadeRight' /\ OneMaker'
  BY <1>6 DEF MadeRight, OneMaker
<1>12. Shown'
  <2> SUFFICES ASSUME NEW e \in EventIds, InSight(e) PROVE Owed(e)'
    BY <1>5 DEF Shown
  <2>1. Owed(e) \/ (Right(e) /\ appt.event = e)
    BY <1>6 DEF Safe, Shown
  <2>2. Right(e) /\ appt.event = e => Owed(e)'
    BY <1>9 DEF Right, Owed
  <2> QED BY <1>7, <2>1, <2>2
<1>13. Astray'
  <2> SUFFICES ASSUME NEW e \in EventIds, InSight(e), appt.event = e, google[e].pro # appt'.pro
               PROVE  Doomed(e)'
    BY <1>1, <1>3, <1>5, <1>6 DEF Astray
  <2>1. CASE google[e].pro = appt.pro
    BY <1>9, <2>1
  <2>2. CASE google[e].pro # appt.pro
    BY <1>7, <2>2 DEF Safe, Astray
  <2> QED BY <2>1, <2>2
<1>14. HandsOK'
  <2> SUFFICES ASSUME NEW d \in Calls, NEW e \in EventIds, call'[d] # None, call'[d].event = e,
                      call'[d].at \notin {"commit", "store"}, InSight(e), Behind(call[d], e)'
               PROVE  Doomed(e)
    BY <1>5, <1>7 DEF HandsOK
  <2>1. CASE d = c
    <3>1. x.event = e /\ Behind(x, e)
      BY <1>1, <1>4, <2>1 DEF Behind
    <3>2. google[e].pro # appt.pro /\ appt.event = e
      BY <1>1, <1>2, <1>4, <3>1 DEF Behind, Like
    <3> QED BY <3>2 DEF Safe, Astray
  <2>2. CASE d # c
    <3>1. call'[d] = call[d]
      BY <1>4, <2>2
    <3>2. Behind(call[d], e)
      BY <1>1, <3>1 DEF Behind
    <3> QED BY <3>1, <3>2 DEF Safe, HandsOK
  <2> QED BY <2>1, <2>2
<1> QED BY <1>10, <1>11, <1>12, <1>13, <1>14 DEF Safe

LEMMA CreateInNewSafe ==
  ASSUME CalendarBase, Safe, NEW c \in Calls, NEW e \in EventIds, CreateInNew(c, e), excuse' = {}
  PROVE  Safe'
<1>1. /\ UNCHANGED <<appt, row, message, consumer>> /\ call[c].at = "create" /\ call[c] # None
      /\ PlaceOK(call[c]) /\ call[c].event # None
      /\ \A d \in Calls : d # c => call'[d] = call[d]
  BY CreateInNewStep, Holds DEF CreateInNew, PlaceOK
<1>2. CASE UNCHANGED google /\ Onward(c, None)
  BY <1>1, <1>2, GivesUpWorks
<1>3. CASE /\ google[e] = None /\ google'[e] = Event(call[c].pro, call[c].slot)
           /\ \A f \in EventIds : f # e => google'[f] = google[f]
           /\ call'[c] # None /\ call'[c].at = "store" /\ call'[c].event = e
           /\ ~BeingMade /\ appt.event = call[c].event /\ Current(call[c].pro, call[c].slot)
  <2>1. \A f \in EventIds : f # e => (InSight(f)' <=> InSight(f)) /\ google'[f].pro = google[f].pro
    BY <1>3 DEF InSight, Exists
  <2>2. \A f \in EventIds : ~Making(f) /\ (Making(f)' => f = e)
    <3>1. \A d \in Calls : ~InCall(d, "store")
      BY <1>3 DEF BeingMade
    <3> QED BY <1>1, <1>3, <3>1 DEF BeingMade, Making, ConsumerMakes, InCall
  <2>3. \A d \in Calls : InCall(d, "store")' => d = c
    BY <1>1, <1>3 DEF BeingMade, InCall
  <2>4. Making(e)'
    BY <1>3 DEF Making, InCall
  <2>5. Right(e)'
    BY <1>1, <1>3 DEF Right, Current, Event
  <2>6. ASSUME NEW f \in EventIds, f # e PROVE (Doomed(f) => Doomed(f)') /\ (Owed(f) => Owed(f)')
    <3>1. ~Owes(c, f)
      BY <1>1 DEF Owes, Pending
    <3> QED BY <1>1, <2>1, <2>6, <3>1, OthersOwe
  <2>7. NothingYet'
    BY <1>1 DEF Safe, NothingYet
  <2>8. MadeRight' /\ OneMaker'
    BY <2>2, <2>3, <2>5 DEF MadeRight, OneMaker
  <2>9. Shown'
    <3> SUFFICES ASSUME NEW f \in EventIds, f # e, InSight(f)' PROVE Owed(f)' \/ (Right(f)' /\ appt'.event = f)
      BY <2>4 DEF Shown
    <3>1. Owed(f) \/ (Right(f) /\ appt.event = f)
      BY <2>1, <2>2 DEF Safe, Shown
    <3>2. Right(f)' <=> Right(f)
      BY <1>1, <1>3 DEF Right
    <3> QED BY <1>1, <2>6, <3>1, <3>2
  <2>10. Astray'
    <3> SUFFICES ASSUME NEW f \in EventIds, InSight(f)', appt.event = f PROVE Doomed(f)'
      BY <1>1 DEF Astray
    <3>1. f # e /\ f # None
      BY <1>1, <1>3, RowsAreNot DEF CalendarBase
    <3>2. InSight(f) /\ Behind(call[c], f) /\ call[c].event = f
      BY <1>1, <1>3, <2>1, <3>1 DEF Behind
    <3> QED BY <1>1, <2>6, <3>1, <3>2, PastDoomed
  <2>11. HandsOK'
    <3> SUFFICES ASSUME NEW d \in Calls, NEW f \in EventIds, call'[d] # None, call'[d].event = f,
                        call'[d].at \notin {"commit", "store"}, InSight(f)', Behind(call[d], f)'
                 PROVE  Doomed(f)'
      BY DEF HandsOK
    <3>1. d # c /\ call'[d] = call[d]
      BY <1>1, <1>3
    <3>2. f # e
      <4>1. PlaceOK(call[d])
        BY <3>1 DEF CalendarBase
      <4> QED BY <1>3, <3>1, <4>1, RowsAreNot DEF PlaceOK
    <3>3. Behind(call[d], f) /\ InSight(f)
      BY <2>1, <3>1, <3>2 DEF Behind
    <3>4. Doomed(f)
      BY <3>1, <3>3 DEF Safe, HandsOK
    <3> QED BY <2>6, <3>2, <3>4
  <2> QED BY <2>7, <2>8, <2>9, <2>10, <2>11 DEF Safe
<1> QED BY <1>2, <1>3, CreateInNewStep

LEMMA StoreNewSafe ==
  ASSUME CalendarBase, Safe, NEW c \in Calls, StoreNew(c)
  PROVE  Safe'
<1>1. /\ UNCHANGED google /\ Onward(c, None) /\ InCall(c, "store") /\ call[c].event \in EventIds
      /\ appt \in ApptRow /\ appt' = WithId(call[c].event)
      /\ call[c] # None /\ call[c].at = "store"
  BY StoreNewStep, Holds DEF StoreNew, InCall
<1>2. PICK e \in EventIds : e = call[c].event
  BY <1>1
<1>3. /\ appt'.event = e /\ appt'.pro = appt.pro /\ appt'.slot = appt.slot /\ appt'.status = appt.status
  BY <1>1, <1>2, Stored
<1>4. /\ call'[c] = None /\ \A d \in Calls : d # c => call'[d] = call[d]
      /\ UNCHANGED <<message, consumer>>
  BY <1>1, CallsAfter DEF Onward, CallStep, CalendarBase
<1>5. message = None /\ consumer = None
  BY <1>1, RowsAreNot DEF Safe, NothingYet, CalendarBase
<1>6. /\ \A d \in Calls : ~InCall(d, "store")' /\ (InCall(d, "store") => d = c)
      /\ ~BeingMade' /\ BeingMade /\ \A f \in EventIds : ~Making(f)' /\ (Making(f) => f = e)
  <2>1. \A d \in Calls : InCall(d, "store") => d = c
    BY <1>1 DEF Safe, OneMaker
  <2>2. \A d \in Calls : ~InCall(d, "store")'
    BY <1>4, <2>1 DEF InCall
  <2> QED BY <1>1, <1>2, <1>4, <1>5, <2>1, <2>2 DEF BeingMade, Making, ConsumerMakes
<1>7. \A f \in EventIds : InSight(f)' <=> InSight(f)
  BY <1>1 DEF InSight, Exists
<1>8. \A f \in EventIds : Right(f)' <=> Right(f)
  BY <1>1, <1>3 DEF Right
<1>9. \A f \in EventIds : (Doomed(f) => Doomed(f)') /\ (Owed(f) => Owed(f)')
  BY <1>1, <1>4, OthersOwe DEF Owes, Pending
<1>10. InSight(e) => Right(e)
  BY <1>1, <1>2 DEF Safe, MadeRight, Making
<1>11. NothingYet' /\ MadeRight' /\ OneMaker'
  BY <1>4, <1>5, <1>6 DEF NothingYet, MadeRight, OneMaker
<1>12. Shown'
  <2> SUFFICES ASSUME NEW f \in EventIds, InSight(f)
               PROVE  Owed(f)' \/ (Right(f)' /\ appt'.event = f)
    BY <1>7 DEF Shown
  <2>1. CASE f = e
    BY <1>3, <1>8, <1>10, <2>1
  <2>2. CASE f # e /\ Owed(f)
    BY <1>9, <2>2
  <2>3. CASE f # e /\ appt.event = f
    <3>1. Doomed(f)
      BY <1>6, <2>3 DEF Safe, Astray
    <3> QED BY <1>9, <3>1, DoomedOwed
  <2> QED BY <1>6, <2>1, <2>2, <2>3 DEF Safe, Shown
<1>13. Astray'
  BY <1>1, <1>3, <1>6, <1>7, <1>10 DEF Astray, Right
<1>14. HandsOK'
  <2> SUFFICES ASSUME NEW d \in Calls, NEW f \in EventIds, call'[d] # None, call'[d].event = f,
                      call'[d].at \notin {"commit", "store"}, InSight(f), Behind(call[d], f)'
               PROVE  Doomed(f)
    BY <1>7, <1>9 DEF HandsOK
  <2>1. d # c /\ call'[d] = call[d]
    BY <1>4
  <2>2. Behind(call[d], f)
    BY <1>1, <2>1 DEF Behind
  <2> QED BY <2>1, <2>2 DEF Safe, HandsOK
<1> QED BY <1>11, <1>12, <1>13, <1>14 DEF Safe

-----------------------------------------------------------------------------
\* As long as no event is within reach and none is being made.
LEMMA NoneInSight ==
  ASSUME \A e \in EventIds : ~InSight(e)', \A c \in Calls : ~InCall(c, "store")', NothingYet'
  PROVE  Safe'
BY DEF Safe, MadeRight, OneMaker, Shown, Astray, HandsOK

\* While the message is about nobody else makes or knows of an event.
LEMMA OnlyConsumer ==
  ASSUME CalendarBase, Safe, message # None
  PROVE  /\ \A c \in Calls : ~InCall(c, "store")
         /\ \A c \in Calls : call[c] # None => call[c].event = None
         /\ appt.event = None
         /\ \A e \in EventIds : InSight(e) => ConsumerMakes(e)
<1>1. \A c \in Calls : call[c] # None => call[c].event = None
  BY DEF Safe, NothingYet
<1>2. \A c \in Calls : ~InCall(c, "store")
  BY <1>1 DEF CalendarBase, PlaceOK, InCall
<1> QED BY <1>1, <1>2 DEF Safe, NothingYet

LEMMA WaitingSafe ==
  ASSUME CalendarBase, Safe, message # None, ~(consumer # None /\ consumer.at = "store"),
         UNCHANGED <<appt, google, call>>
  PROVE  Safe'
<1>1. \A e \in EventIds : ~InSight(e)'
  BY OnlyConsumer DEF ConsumerMakes, InSight, Exists
<1>2. \A c \in Calls : ~InCall(c, "store")'
  BY OnlyConsumer DEF InCall
<1>3. NothingYet'
  BY <1>1, OnlyConsumer DEF NothingYet
<1> QED BY <1>1, <1>2, <1>3, NoneInSight

LEMMA CreateEventSafe ==
  ASSUME CalendarBase, Safe, NEW e \in EventIds, CreateEvent(e), excuse' = {}
  PROVE  Safe'
<1>1. /\ UNCHANGED <<appt, message, call>> /\ consumer # None /\ consumer.at = "create"
      /\ google'[e] = Event(consumer.pro, consumer.slot)
      /\ \A f \in EventIds : f # e => google'[f] = google[f]
      /\ consumer' # None /\ consumer'.at = "store" /\ consumer'.event = e
      /\ Current(consumer.pro, consumer.slot)
  BY CreateEventStep
<1>2. message # None
  BY <1>1 DEF CalendarBase
<1>3. /\ \A c \in Calls : ~InCall(c, "store")'
      /\ \A c \in Calls : call'[c] # None => call'[c].event = None
      /\ appt'.event = None
  BY <1>1, <1>2, OnlyConsumer DEF InCall
<1>4. \A f \in EventIds : InSight(f)' => f = e
  BY <1>1, <1>2, OnlyConsumer DEF InSight, Exists, ConsumerMakes
<1>5. Making(e)' /\ ConsumerMakes(e)'
  BY <1>1 DEF Making, ConsumerMakes
<1>6. Right(e)'
  BY <1>1 DEF Right, Event, Current
<1>7. NothingYet'
  BY <1>3, <1>4, <1>5 DEF NothingYet
<1>8. MadeRight' /\ OneMaker' /\ Shown'
  BY <1>3, <1>4, <1>5, <1>6 DEF MadeRight, OneMaker, Shown
<1>9. Astray' /\ HandsOK'
  BY <1>3, RowsAreNot DEF Astray, HandsOK
<1> QED BY <1>7, <1>8, <1>9 DEF Safe

LEMMA StoreEventSafe ==
  ASSUME CalendarBase, Safe, StoreEvent
  PROVE  Safe'
<1>1. /\ UNCHANGED <<google, call>> /\ consumer # None /\ consumer.at = "store" /\ consumer.event \in EventIds
      /\ consumer' = None /\ message' = None
      /\ appt \in ApptRow /\ appt' = WithId(consumer.event)
  BY StoreEventStep
<1>2. PICK e \in EventIds : e = consumer.event
  BY <1>1
<1>3. appt'.event = e /\ appt'.pro = appt.pro /\ appt'.slot = appt.slot /\ appt'.status = appt.status
  BY <1>1, <1>2, Stored
<1>4. message # None
  BY <1>1 DEF CalendarBase
<1>5. /\ \A c \in Calls : ~InCall(c, "store")'
      /\ \A c \in Calls : call'[c] # None => call'[c].event = None
  BY <1>1, <1>4, OnlyConsumer DEF InCall
<1>6. \A f \in EventIds : InSight(f)' => f = e /\ Right(f)'
  <2> SUFFICES ASSUME NEW f \in EventIds, InSight(f)' PROVE f = e /\ Right(f)'
    OBVIOUS
  <2>1. InSight(f)
    BY <1>1 DEF InSight, Exists
  <2>2. f = e /\ Making(f)
    BY <1>2, <1>4, <2>1, OnlyConsumer DEF Making, ConsumerMakes
  <2>3. Right(f)
    BY <2>1, <2>2 DEF Safe, MadeRight
  <2> QED BY <1>1, <1>3, <2>2, <2>3, RightKept
<1>7. ~BeingMade'
  BY <1>1, <1>5 DEF BeingMade
<1>8. NothingYet' /\ OneMaker' /\ HandsOK'
  BY <1>1, <1>5, RowsAreNot DEF NothingYet, OneMaker, HandsOK
<1>9. MadeRight' /\ Shown' /\ Astray'
  BY <1>3, <1>6, <1>7 DEF MadeRight, Shown, Astray, Right
<1> QED BY <1>8, <1>9 DEF Safe

LEMMA CreationSafe ==
  ASSUME CalendarBase, NEW s \in Slots, NEW p \in Pros, CreateByCustomer(s, p) \/ CreateByProfessional(s, p)
  PROVE  Safe'
<1>1. /\ appt = None /\ UNCHANGED <<google, call, consumer>> /\ appt'.event = None
  BY CreationStep
<1>2. \A c \in Calls : call'[c] = None
  BY <1>1, EmptyBefore
<1>3. \A e \in EventIds : ~InSight(e)'
  BY <1>1, EmptyBefore DEF InSight, Exists
<1>4. NothingYet' /\ \A c \in Calls : ~InCall(c, "store")'
  BY <1>1, <1>2, <1>3 DEF NothingYet, InCall
<1> QED BY <1>3, <1>4, NoneInSight

\* What is done about a connection takes events out of reach, no more.
LEMMA LinkedSafe ==
  ASSUME CalendarBase, Safe, Linked
  PROVE  Safe'
<1>1. /\ UNCHANGED <<appt, message, consumer, call>>
      /\ \A e \in EventIds : InSight(e)' => InSight(e) /\ google'[e] = google[e]
  BY DEF Linked, Narrows
<1>2. \A e \in EventIds : (Making(e)' <=> Making(e)) /\ (ConsumerMakes(e)' <=> ConsumerMakes(e))
  BY <1>1 DEF Making, ConsumerMakes, InCall
<1>3. ASSUME NEW e \in EventIds, InSight(e)'
      PROVE  /\ Right(e)' <=> Right(e)
             /\ Owed(e)' <=> Owed(e)
             /\ Doomed(e)' <=> Doomed(e)
             /\ \A c \in Calls : Behind(call[c], e)' <=> Behind(call[c], e)
  <2>1. google'[e] = google[e]
    BY <1>1, <1>3
  <2>2. \A c \in Calls : /\ Owes(c, e)' <=> Owes(c, e)
                         /\ Deletes(call[c])' <=> Deletes(call[c])
                         /\ Behind(call[c], e)' <=> Behind(call[c], e)
    BY <1>1, <2>1 DEF Owes, Pending, Deletes, ToAnother, Behind
  <2> QED BY <1>1, <2>1, <2>2 DEF Right, Owed, Doomed
<1>4. BeingMade' <=> BeingMade
  BY <1>1 DEF BeingMade, InCall
<1>5. NothingYet' /\ OneMaker'
  BY <1>1, <1>2 DEF Safe, NothingYet, OneMaker, InCall
<1>6. MadeRight' /\ Shown'
  BY <1>1, <1>2, <1>3 DEF Safe, MadeRight, Shown
<1>7. Astray'
  BY <1>1, <1>3, <1>4 DEF Safe, Astray
<1>8. HandsOK'
  BY <1>1, <1>3 DEF Safe, HandsOK
<1> QED BY <1>5, <1>6, <1>7, <1>8 DEF Safe

-----------------------------------------------------------------------------
\* Who has still to be told, and by whom.
Tells(c, x) ==
    /\ call[c] # None /\ Addressee(call[c]) = x
    /\ \/ call[c].at = "notify"
       \/ call[c].kind = "customer cancels" /\ call[c].at \in {"calendar", "both"}

Informed ==
    appt # None => \A x \in {"customer", appt.pro} : UpToDate(x) \/ \E c \in Calls : Tells(c, x)

LEMMA InformedKept ==
  ASSUME Informed, appt # None, UNCHANGED knows,
         appt'.pro = appt.pro, appt'.slot = appt.slot, appt'.status = appt.status,
         appt'.moved = appt.moved, \A c \in Calls, x \in {"customer", appt.pro} : Tells(c, x) => Tells(c, x)'
  PROVE  Informed'
<1> SUFFICES ASSUME NEW x \in {"customer", appt.pro}
             PROVE  UpToDate(x)' \/ (\E c \in Calls : Tells(c, x))'
  BY DEF Informed
<1>1. UpToDate(x) => UpToDate(x)'
  BY DEF UpToDate, TrueOf
<1>2. UpToDate(x) \/ \E c \in Calls : Tells(c, x)
  BY DEF Informed
<1> QED BY <1>1, <1>2

LEMMA SameCallsInformed ==
  ASSUME Informed, UNCHANGED <<call, knows>>, appt # None,
         appt'.pro = appt.pro, appt'.slot = appt.slot, appt'.status = appt.status,
         appt'.moved = appt.moved
  PROVE  Informed'
<1>1. \A c \in Calls, x \in {"customer", appt.pro} : Tells(c, x) => Tells(c, x)'
  BY DEF Tells, Addressee
<1> QED BY <1>1, InformedKept

\* A handler that tells nobody in this step, and still will if it was to.
LEMMA OnwardInformed ==
  ASSUME CalendarBase, Informed, NEW c \in Calls, call[c] # None, NEW x, Onward(c, x), UNCHANGED knows,
         appt'.pro = appt.pro, appt'.slot = appt.slot, appt'.status = appt.status,
         appt'.moved = appt.moved, call[c].at # "notify",
         call[c].kind = "customer cancels" /\ call[c].at \in {"calendar", "both"} =>
             x # None /\ x.at \in {"both", "notify"}
  PROVE  Informed'
<1>1. /\ call'[c] = x /\ (\A d \in Calls : d # c => call'[d] = call[d]) /\ appt # None
  BY CallsAfter DEF Onward, CallStep, CalendarBase
<1>2. ASSUME NEW d \in Calls, NEW s \in {"customer", appt.pro}, Tells(d, s) PROVE Tells(d, s)'
  <2>1. CASE d # c
    BY <1>1, <1>2, <2>1 DEF Tells, Addressee
  <2>2. CASE d = c
    <3>1. x # None /\ x.at \in {"both", "notify"} /\ Like(x, call[c]) /\ call[c].kind = "customer cancels"
      BY <1>2, <2>2 DEF Tells, Onward
    <3> QED BY <1>1, <1>2, <2>2, <3>1 DEF Tells, Addressee, Like
  <2> QED BY <2>1, <2>2
<1> QED BY <1>1, <1>2, InformedKept

LEMMA NotifyInformed ==
  ASSUME CalendarBase, Informed, NEW c \in Calls, Notify(c), excuse' = {}
  PROVE  Informed'
<1> PICK y : y = Addressee(call[c])
  OBVIOUS
<1> PICK n : n = Notice(call[c])
  OBVIOUS
<1>1. /\ UNCHANGED appt /\ appt # None /\ TrueOf(n) /\ knows' = [knows EXCEPT ![y] = n] /\ n # None
  BY NotifyStep, NoticeTyped, Holds, RowsAreNot DEF Notify, CalendarBase
<1>2. y \in Sides
  BY NotifyStep, NoticeTyped, Holds DEF CalendarBase, Notify
<1>3. UpToDate(y)' /\ \A x \in Sides : x # y /\ UpToDate(x) => UpToDate(x)'
  <2>1. knows'[y] = n /\ \A x \in Sides : x # y => knows'[x] = knows[x]
    BY <1>1, <1>2 DEF CalendarBase, CalendarTypeOK
  <2> QED BY <1>1, <2>1 DEF UpToDate, TrueOf
<1>4. PICK z : Onward(c, z)
  BY NotifyStep
<1>5. \A d \in Calls : d # c => call'[d] = call[d]
  BY <1>4, CallsAfter DEF Onward, CallStep, CalendarBase
<1> SUFFICES ASSUME NEW x \in {"customer", appt.pro}, x # y, ~UpToDate(x)
             PROVE  (\E d \in Calls : Tells(d, x))'
  <2>1. appt.pro \in Pros
    BY <1>1 DEF CalendarBase, CalendarTypeOK, ApptRow
  <2> QED BY <1>1, <1>3, <2>1 DEF Informed, Sides
<1>6. PICK d \in Calls : Tells(d, x)
  BY <1>1 DEF Informed
<1>7. d # c
  BY <1>6 DEF Tells
<1>8. Tells(d, x)'
  BY <1>5, <1>6, <1>7 DEF Tells, Addressee
<1> QED BY <1>8

\* After a commit the author knows, and the other side will be told.
LEMMA CommitInformed ==
  ASSUME CalendarBase, Faithful, NEW c \in Calls, Commit(c), excuse' = {}
  PROVE  Informed'
<1> PICK k : k = call[c]
  OBVIOUS
<1>1. /\ k \in CallRow /\ k # None /\ appt.pro = k.oldPro /\ appt \in ApptRow
      /\ k.kind # "customer moves" => k.pro = k.oldPro
  BY CommitStep, Holds DEF Commit, Faithful
<1>2. appt'.pro = k.pro
  <2>1. PICK sent \in BOOLEAN : (ToAnother(k) => sent) /\ appt' = Committed(k, sent)
    BY CommitStep
  <2> QED BY <1>1, <2>1, CommittedRow
<1>3. UpToDate(Author(k))'
  <2>1. PICK n \in NoticeRow : TrueOf(n)' /\ knows' = [knows EXCEPT ![Author(k)] = n]
    BY CommitStep
  <2>2. Author(k) \in Sides
    BY <1>1 DEF Author, Sides, CallRow
  <2>3. PICK a : a = Author(k)
    OBVIOUS
  <2>4. knows'[a] = n /\ n # None
    BY <2>1, <2>2, <2>3, RowsAreNot DEF CalendarBase, CalendarTypeOK
  <2>5. UpToDate(a)'
    BY <2>1, <2>4 DEF UpToDate, TrueOf
  <2>6. Author(k)' = Author(k)
    BY DEF Author
  <2> QED BY <2>3, <2>5, <2>6
<1>4. PICK x : /\ Onward(c, x) /\ x # None
               /\ x.at = IF k.kind = "customer cancels" THEN "calendar" ELSE "notify"
  BY CommitStep
<1>5. call'[c] = x /\ Like(x, k)
  BY <1>4, CallsAfter DEF Onward, CallStep, CalendarBase
<1>6. Tells(c, Addressee(k))'
  BY <1>4, <1>5 DEF Tells, Addressee, Like
<1>7. \A y \in {"customer", appt'.pro} : y = Author(k) \/ y = Addressee(k)
  BY <1>2 DEF Author, Addressee
<1>8. ASSUME NEW y \in {"customer", appt'.pro} PROVE UpToDate(y)' \/ (\E d \in Calls : Tells(d, y))'
  <2>1. CASE y = Author(k)
    BY <1>3, <2>1
  <2>2. CASE y = Addressee(k)
    <3>1. PICK z : z = Addressee(k)
      OBVIOUS
    <3>2. Tells(c, z)'
      BY <1>4, <1>5, <3>1 DEF Tells, Addressee, Like
    <3> QED BY <2>2, <3>1, <3>2
  <2> QED BY <1>7, <2>1, <2>2
<1> QED BY <1>8 DEF Informed

-----------------------------------------------------------------------------
CalendarInv ==
    /\ CalendarBase /\ Faithful
    /\ excuse = {} => Safe /\ Informed

LEMMA FaithfulOnward ==
  ASSUME CalendarBase, Faithful, NEW c \in Calls, call[c] # None, NEW x, Onward(c, x)
  PROVE  Faithful'
<1>1. call'[c] = x /\ \A d \in Calls : d # c => call'[d] = call[d]
  BY CallsAfter DEF Onward, CallStep, CalendarBase
<1> SUFFICES ASSUME NEW d \in Calls, call'[d] # None
             PROVE call'[d].kind # "customer moves" => call'[d].pro = call'[d].oldPro
  BY DEF Faithful
<1>2. CASE d = c
  BY <1>1, <1>2 DEF Faithful, Onward, Like
<1>3. CASE d # c
  BY <1>1, <1>3 DEF Faithful
<1> QED BY <1>2, <1>3

LEMMA FaithfulSame ==
  ASSUME Faithful, UNCHANGED call
  PROVE  Faithful'
BY DEF Faithful

\* Every step of a call but its first.
CallWorks(c) ==
    \/ Commit(c) \/ Notify(c) \/ FindCalendar(c) \/ DeleteEvent(c) \/ ClearEvent(c)
    \/ DeleteAndClear(c) \/ UpdateEvent(c) \/ EnterNewCalendar(c) \/ StoreNew(c) \/ Die(c)
    \/ \E e \in EventIds : CreateInNew(c, e)

LEMMA CallWorksBase ==
  ASSUME CalendarBase, Faithful, NEW c \in Calls, CallWorks(c)
  PROVE  CalendarBase' /\ Faithful' /\ (excuse' = {} => excuse = {})
<1>1. CASE Commit(c)
  BY <1>1, CommitStep, Holds, FaithfulOnward DEF Commit
<1>2. CASE Notify(c)
  BY <1>2, NotifyStep, Holds, FaithfulOnward DEF Notify
<1>3. CASE FindCalendar(c)
  BY <1>3, FindCalendarStep, Holds, FaithfulOnward DEF FindCalendar
<1>4. CASE DeleteEvent(c)
  BY <1>4, DeleteEventStep, Holds, FaithfulOnward DEF DeleteEvent
<1>5. CASE ClearEvent(c)
  BY <1>5, ClearEventStep, Holds, FaithfulOnward DEF ClearEvent
<1>6. CASE DeleteAndClear(c)
  <2>1. PICK x : Onward(c, x) /\ (excuse' = {} => excuse = {})
    BY <1>6, DeleteAndClearStep
  <2> QED BY <1>6, <2>1, DeleteAndClearStep, Holds, FaithfulOnward DEF DeleteAndClear
<1>7. CASE UpdateEvent(c)
  BY <1>7, UpdateEventStep, Holds, FaithfulOnward DEF UpdateEvent
<1>8. CASE EnterNewCalendar(c)
  BY <1>8, EnterNewCalendarStep, Holds, FaithfulOnward DEF EnterNewCalendar
<1>9. CASE StoreNew(c)
  BY <1>9, StoreNewStep, Holds, FaithfulOnward DEF StoreNew
<1>10. CASE Die(c)
  <2>1. call' = [call EXCEPT ![c] = None] /\ excuse \subseteq excuse'
    BY <1>10, DieStep DEF Die, Finish
  <2>2. Faithful'
    BY <2>1, CallsAfter DEF Faithful, CalendarBase
  <2> QED BY <1>10, <2>1, <2>2, DieStep
<1>11. ASSUME NEW e \in EventIds, CreateInNew(c, e)
       PROVE  CalendarBase' /\ Faithful' /\ (excuse' = {} => excuse = {})
  <2>1. /\ CalendarBase' /\ (\A d \in Calls : d # c => call'[d] = call[d]) /\ call[c] # None
        /\ call[c].at = "create" /\ call[c] \in CallRow /\ (excuse' = {} => excuse = {})
    BY <1>11, CreateInNewStep, Holds DEF CreateInNew
  <2>2. CASE Onward(c, None)
    BY <2>1, <2>2, FaithfulOnward
  <2>3. CASE ~Onward(c, None)
    <3>1. call'[c].kind = call[c].kind
      BY <1>11, <2>3, CreateInNewStep
    <3>2. call[c].kind = "customer moves"
      BY <2>1 DEF CalendarBase, PlaceOK, ToAnother
    <3> QED BY <2>1, <3>1, <3>2 DEF Faithful
  <2> QED BY <2>1, <2>2, <2>3
<1> QED BY <1>1, <1>2, <1>3, <1>4, <1>5, <1>6, <1>7, <1>8, <1>9, <1>10, <1>11 DEF CallWorks

LEMMA CallWorksSafe ==
  ASSUME CalendarBase, Safe, NEW c \in Calls, CallWorks(c), excuse' = {}
  PROVE  Safe'
<1>1. ~Die(c)
  BY DEF Die
<1> QED
  BY <1>1, CommitSafe, NotifyWorks, FindCalendarWorks, DeleteEventWorks, ClearEventWorks, DeleteAndClearWorks,
     UpdateEventWorks, EnterNewCalendarWorks, StoreNewSafe, CreateInNewSafe DEF CallWorks

LEMMA CallWorksInformed ==
  ASSUME CalendarBase, Faithful, Informed, NEW c \in Calls, CallWorks(c), excuse' = {}
  PROVE  Informed'
<1>1. CASE Commit(c)
  BY <1>1, CommitInformed
<1>2. CASE Notify(c)
  BY <1>2, NotifyInformed
<1>3. CASE FindCalendar(c)
  <2>1. UNCHANGED <<appt, knows>> /\ call[c].at = "calendar" /\ call[c] # None
    BY <1>3, FindCalendarStep, Holds DEF FindCalendar
  <2>2. PICK x : /\ Onward(c, x) /\ (x = None => call[c].kind # "customer cancels")
                 /\ call[c].kind = "customer cancels" => x.at \in {"both", "notify"}
    BY <1>3, FindCalendarStep
  <2> QED BY <2>1, <2>2, OnwardInformed
<1>4. CASE DeleteEvent(c)
  <2>1. UNCHANGED <<appt, knows>> /\ call[c].at = "delete" /\ call[c] # None
    BY <1>4, DeleteEventStep, Holds DEF DeleteEvent
  <2>2. PICK x : Onward(c, x)
    BY <1>4, DeleteEventStep
  <2> QED BY <2>1, <2>2, OnwardInformed
<1>5. CASE ClearEvent(c)
  <2>1. /\ UNCHANGED knows /\ call[c].at = "clear" /\ call[c] # None /\ Onward(c, None)
        /\ appt'.pro = appt.pro /\ appt'.slot = appt.slot /\ appt'.status = appt.status /\ appt'.moved = appt.moved
    BY <1>5, ClearEventStep, Holds, Cleared DEF ClearEvent
  <2> QED BY <2>1, OnwardInformed
<1>6. CASE DeleteAndClear(c)
  <2>1. UNCHANGED knows /\ call[c] # None /\ call[c].at = "both"
    BY <1>6, DeleteAndClearStep, Holds DEF DeleteAndClear
  <2>2. PICK x : /\ Onward(c, x) /\ x # None /\ x.at \in {"notify", "both"}
                 /\ UNCHANGED appt \/ (appt \in ApptRow /\ appt' = [appt EXCEPT !.event = None])
    BY <1>6, DeleteAndClearStep
  <2>3. appt'.pro = appt.pro /\ appt'.slot = appt.slot /\ appt'.status = appt.status /\ appt'.moved = appt.moved
    BY <2>2, Cleared
  <2> QED BY <2>1, <2>2, <2>3, OnwardInformed
<1>7. CASE UpdateEvent(c)
  <2>1. UNCHANGED <<appt, knows>> /\ call[c].at = "update" /\ call[c] # None /\ Onward(c, None)
    BY <1>7, UpdateEventStep, Holds DEF UpdateEvent
  <2> QED BY <2>1, OnwardInformed
<1>8. CASE EnterNewCalendar(c)
  <2>1. UNCHANGED <<appt, knows>> /\ call[c].at = "new calendar" /\ call[c] # None
    BY <1>8, EnterNewCalendarStep, Holds DEF EnterNewCalendar
  <2>2. PICK x : Onward(c, x)
    BY <1>8, EnterNewCalendarStep
  <2> QED BY <2>1, <2>2, OnwardInformed
<1>9. CASE StoreNew(c)
  <2>1. /\ UNCHANGED knows /\ call[c].at = "store" /\ call[c] # None /\ Onward(c, None)
        /\ appt'.pro = appt.pro /\ appt'.slot = appt.slot /\ appt'.status = appt.status /\ appt'.moved = appt.moved
    BY <1>9, StoreNewStep, Holds, Stored DEF StoreNew
  <2> QED BY <2>1, OnwardInformed
<1>10. ~Die(c)
  BY DEF Die
<1>11. ASSUME NEW e \in EventIds, CreateInNew(c, e) PROVE Informed'
  <2>1. /\ (\A d \in Calls : d # c => call'[d] = call[d])
        /\ call[c].at = "create" /\ UNCHANGED <<appt, knows>> /\ appt # None
    BY <1>11, CreateInNewStep, Holds DEF CreateInNew
  <2>2. ASSUME NEW d \in Calls, NEW x \in {"customer", appt.pro}, Tells(d, x) PROVE Tells(d, x)'
    <3>1. d # c
      BY <2>1, <2>2 DEF Tells
    <3> QED BY <2>1, <2>2, <3>1 DEF Tells, Addressee
  <2> QED BY <2>1, <2>2, InformedKept
<1> QED BY <1>1, <1>2, <1>3, <1>4, <1>5, <1>6, <1>7, <1>8, <1>9, <1>10, <1>11 DEF CallWorks

LEMMA EntersInv ==
  ASSUME CalendarInv, NEW c \in Calls, Entered(c), CalendarBase'
  PROVE  CalendarInv'
<1>1. UNCHANGED <<appt, knows, excuse>> /\ call[c] = None /\ appt # None
  BY DEF Entered
<1>2. PICK x \in CallRow : /\ call' = [call EXCEPT ![c] = x] /\ x.at = "commit" /\ x.event = appt.event
                           /\ x.kind # "customer moves" => x.pro = x.oldPro
  BY DEF Entered
<1>3. call'[c] = x /\ \A d \in Calls : d # c => call'[d] = call[d]
  BY <1>2, CallsAfter DEF CalendarInv, CalendarBase
<1>4. Faithful'
  <2> SUFFICES ASSUME NEW d \in Calls, call'[d] # None
               PROVE  call'[d].kind # "customer moves" => call'[d].pro = call'[d].oldPro
    BY DEF Faithful
  <2>1. CASE d = c
    BY <1>2, <1>3, <2>1
  <2>2. CASE d # c
    BY <1>3, <2>2 DEF CalendarInv, Faithful
  <2> QED BY <2>1, <2>2
<1>5. ASSUME excuse = {} PROVE Safe' /\ Informed'
  <2>1. Safe'
    BY <1>5, EnterSafe DEF CalendarInv
  <2>2. ASSUME NEW d \in Calls, NEW s \in {"customer", appt.pro}, Tells(d, s) PROVE Tells(d, s)'
    <3>1. d # c
      BY <1>1, <2>2 DEF Tells
    <3> QED BY <1>3, <2>2, <3>1 DEF Tells, Addressee
  <2>3. Informed'
    BY <1>1, <1>5, <2>2, InformedKept DEF CalendarInv
  <2> QED BY <2>1, <2>3
<1> QED BY <1>1, <1>4, <1>5 DEF CalendarInv

LEMMA CallWorksInv ==
  ASSUME CalendarInv, NEW c \in Calls, CallWorks(c)
  PROVE  CalendarInv'
<1>1. CalendarBase' /\ Faithful' /\ (excuse' = {} => excuse = {})
  BY CallWorksBase DEF CalendarInv
<1>2. excuse' = {} => Safe' /\ Informed'
  BY <1>1, CallWorksSafe, CallWorksInformed DEF CalendarInv
<1> QED BY <1>1, <1>2 DEF CalendarInv

LEMMA CreationInv ==
  ASSUME CalendarInv, NEW s \in Slots, NEW p \in Pros, CreateByCustomer(s, p) \/ CreateByProfessional(s, p)
  PROVE  CalendarInv'
<1>1. /\ CalendarBase' /\ UNCHANGED call /\ appt' # None
      /\ excuse' = {} => \A x \in {"customer", appt'.pro} : UpToDate(x)'
  BY CreationStep DEF CalendarInv
<1>2. Safe'
  BY CreationSafe DEF CalendarInv
<1>3. excuse' = {} => Informed'
  BY <1>1 DEF Informed
<1> QED BY <1>1, <1>2, <1>3, FaithfulSame DEF CalendarInv

LEMMA LinkingInv ==
  ASSUME CalendarInv, NEW p \in Pros,
         \/ AskAuthUrl(p) \/ TakeState(p) \/ StoreTokens(p) \/ Abandon(p)
         \/ Revoke(p) \/ Disconnect(p)
  PROVE  CalendarInv'
<1>1. CalendarBase' /\ Linked
  BY LinkingStep DEF CalendarInv
<1>2. UNCHANGED <<appt, call, knows, excuse>>
  BY <1>1 DEF Linked
<1>3. ASSUME excuse = {} PROVE Safe' /\ Informed'
  <2>1. Safe'
    BY <1>1, <1>3, LinkedSafe DEF CalendarInv
  <2>2. Informed'
    <3>1. CASE appt # None
      BY <1>2, <1>3, <3>1, SameCallsInformed DEF CalendarInv
    <3>2. CASE appt = None
      BY <1>2, <3>2 DEF Informed
    <3> QED BY <3>1, <3>2
  <2> QED BY <2>1, <2>2
<1> QED BY <1>1, <1>2, <1>3, FaithfulSame DEF CalendarInv

\* The consumer of the message.
ConsumerWorks ==
    \/ Consume \/ ReadForEvent \/ CreateRefused \/ StoreEvent \/ ConsumerDies
    \/ \E e \in EventIds : CreateEvent(e)

LEMMA ConsumerInv ==
  ASSUME CalendarInv, ConsumerWorks
  PROVE  CalendarInv'
<1>1. CalendarBase /\ Faithful /\ (excuse = {} => Safe /\ Informed)
  BY DEF CalendarInv
<1>2. CASE Consume
  <2>1. /\ CalendarBase' /\ UNCHANGED <<appt, google, call, knows, excuse>> /\ message # None /\ consumer = None
    BY <1>1, <1>2, ConsumeStep
  <2>2. appt # None
    BY <1>1, <2>1 DEF CalendarBase
  <2>3. excuse' = {} => Safe' /\ Informed'
    BY <1>1, <2>1, <2>2, WaitingSafe, SameCallsInformed
  <2> QED BY <1>1, <2>1, <2>3, FaithfulSame DEF CalendarInv
<1>3. CASE ReadForEvent
  <2>1. /\ CalendarBase' /\ UNCHANGED <<appt, google, call, knows, excuse>> /\ consumer # None /\ consumer.at = "read"
    BY <1>1, <1>3, ReadForEventStep
  <2>2. appt # None /\ message # None
    BY <1>1, <2>1 DEF CalendarBase
  <2>3. excuse' = {} => Safe' /\ Informed'
    BY <1>1, <2>1, <2>2, WaitingSafe, SameCallsInformed
  <2> QED BY <1>1, <2>1, <2>3, FaithfulSame DEF CalendarInv
<1>4. CASE CreateRefused
  <2>1. /\ CalendarBase' /\ UNCHANGED <<appt, google, call, knows>> /\ consumer # None /\ consumer.at = "create"
        /\ excuse' = {} => excuse = {}
    BY <1>1, <1>4, CreateRefusedStep
  <2>2. appt # None /\ message # None
    BY <1>1, <2>1 DEF CalendarBase
  <2>3. excuse' = {} => Safe' /\ Informed'
    BY <1>1, <2>1, <2>2, WaitingSafe, SameCallsInformed
  <2> QED BY <1>1, <2>1, <2>3, FaithfulSame DEF CalendarInv
<1>5. CASE StoreEvent
  <2>1. /\ CalendarBase' /\ UNCHANGED <<call, knows, excuse>> /\ consumer.event \in EventIds
        /\ appt # None /\ appt \in ApptRow /\ appt' = WithId(consumer.event)
    BY <1>1, <1>5, StoreEventStep
  <2>2. appt'.pro = appt.pro /\ appt'.slot = appt.slot /\ appt'.status = appt.status /\ appt'.moved = appt.moved
    BY <2>1, Stored
  <2>3. excuse' = {} => Safe' /\ Informed'
    BY <1>1, <1>5, <2>1, <2>2, StoreEventSafe, SameCallsInformed
  <2> QED BY <1>1, <2>1, <2>3, FaithfulSame DEF CalendarInv
<1>6. CASE ConsumerDies
  <2>1. CalendarBase' /\ excuse' # {} /\ UNCHANGED call
    BY <1>1, <1>6, ConsumerDiesStep DEF ConsumerDies
  <2> QED BY <1>1, <2>1, FaithfulSame DEF CalendarInv
<1>7. ASSUME NEW e \in EventIds, CreateEvent(e) PROVE CalendarInv'
  <2>1. /\ CalendarBase' /\ UNCHANGED <<appt, call, knows>> /\ consumer # None /\ (excuse' = {} => excuse = {})
    BY <1>1, <1>7, CreateEventStep
  <2>2. appt # None
    BY <1>1, <2>1 DEF CalendarBase
  <2>3. excuse' = {} => Safe' /\ Informed'
    BY <1>1, <1>7, <2>1, <2>2, CreateEventSafe, SameCallsInformed
  <2> QED BY <1>1, <2>1, <2>3, FaithfulSame DEF CalendarInv
<1> QED BY <1>2, <1>3, <1>4, <1>5, <1>6, <1>7 DEF ConsumerWorks

LEMMA CalendarInvInit ==
  CalendarInit => CalendarInv
<1> SUFFICES ASSUME CalendarInit PROVE CalendarInv
  OBVIOUS
<1>1. CalendarBase /\ Faithful
  BY BaseInit
<1>2. appt = None /\ \A e \in EventIds : google[e] = None
  BY DEF CalendarInit
<1>3. \A e \in EventIds : ~InSight(e)
  BY <1>2 DEF InSight, Exists
<1>4. \A c \in Calls : call[c] = None
  BY DEF CalendarInit
<1>5. message = None
  BY DEF CalendarInit
<1>6. Safe
  BY <1>3, <1>4, <1>5 DEF Safe, NothingYet, MadeRight, OneMaker, Shown, Astray, HandsOK, InCall
<1> QED BY <1>1, <1>2, <1>6 DEF CalendarInv, Informed

\* Every step leaves an event that is wrong to a handler that will change or
\* delete it, and a side that does not know to one that will tell it.
THEOREM CalendarStep == CalendarInv /\ [CalendarNext]_calendarVars => CalendarInv'
<1> SUFFICES ASSUME CalendarInv, [CalendarNext]_calendarVars PROVE CalendarInv'
  OBVIOUS
<1>1. ASSUME NEW s \in Slots, NEW p \in Pros, CreateByCustomer(s, p) \/ CreateByProfessional(s, p) PROVE CalendarInv'
  BY <1>1, CreationInv
<1>2. CASE ConsumerWorks
  BY <1>2, ConsumerInv
<1>3. ASSUME NEW c \in Calls,
             \/ CancelByProfessional(c) \/ CancelByCustomer(c)
             \/ \E s \in Slots : RescheduleByProfessional(c, s)
             \/ \E s \in Slots, p \in Pros : RescheduleByCustomer(c, s, p)
      PROVE  CalendarInv'
  BY <1>3, EntersStep, EntersInv DEF CalendarInv
<1>4. ASSUME NEW c \in Calls, CallWorks(c) PROVE CalendarInv'
  BY <1>4, CallWorksInv
<1>5. ASSUME NEW p \in Pros,
             \/ AskAuthUrl(p) \/ TakeState(p) \/ StoreTokens(p) \/ Abandon(p)
             \/ Revoke(p) \/ Disconnect(p)
      PROVE  CalendarInv'
  BY <1>5, LinkingInv
<1>6. CASE UNCHANGED calendarVars
  <2>1. UNCHANGED <<appt, row, linking, google, message, consumer, call, knows, excuse, calls, links>>
    BY <1>6 DEF calendarVars
  <2>2. CalendarBase'
    <3>1. CalendarTypeOK' /\ Linked /\ \A e \in EventIds : InSight(e)' => InSight(e)
      BY <2>1, NothingNarrows DEF CalendarInv, CalendarBase, CalendarTypeOK, Linked, InSight, Exists
    <3> QED BY <2>1, <3>1, LinkedBase DEF CalendarInv, CalendarBase
  <2>3. excuse' = {} => Safe' /\ Informed'
    <3>1. Linked
      BY <2>1, NothingNarrows DEF CalendarInv, CalendarBase, Linked, InSight, Exists
    <3>2. appt = None => Informed'
      BY <2>1 DEF Informed
    <3> QED BY <2>1, <3>1, <3>2, LinkedSafe, SameCallsInformed DEF CalendarInv
  <2> QED BY <2>1, <2>2, <2>3, FaithfulSame DEF CalendarInv
<1> QED BY <1>1, <1>2, <1>3, <1>4, <1>5, <1>6 DEF CalendarNext, ConsumerWorks, CallWorks

LEMMA CalendarInvHolds == CalendarSpec => []CalendarInv
BY CalendarInvInit, CalendarStep, PTL DEF CalendarSpec

\* For any number of professionals, slots, handlers at once, calls and
\* connections: once all is quiet, and nothing failed and nothing was stale,
\* every event within reach is the appointment as it stands.
THEOREM CalendarShows == CalendarSpec => []CalendarShowsAppointment
<1>1. CalendarInv => CalendarShowsAppointment
  <2> SUFFICES ASSUME CalendarInv, Quiet, excuse = {}, NEW e \in InReach
               PROVE  /\ google[e] = Event(appt.pro, appt.slot)
                      /\ appt.status = "live" /\ appt.event = e
    BY DEF CalendarShowsAppointment
  <2>1. e \in EventIds /\ InSight(e)
    BY DEF InReach, InSight
  <2>2. ~Making(e) /\ ~Owed(e)
    BY DEF Quiet, CalendarInv, CalendarBase, Making, ConsumerMakes, Owed, Owes, InCall
  <2>3. Right(e) /\ appt.event = e
    BY <2>1, <2>2 DEF CalendarInv, Safe, Shown
  <2>4. google[e] \in EventRow /\ google[e].reach
    BY <2>1, SightTyped DEF CalendarInv, CalendarBase, InSight
  <2> QED BY <2>3, <2>4 DEF Right, Event, EventRow
<1> QED BY <1>1, CalendarInvHolds, PTL

\* For the same: once all is quiet, both sides know of the appointment what it is.
THEOREM BothKnow == CalendarSpec => []BothSidesKnow
<1>1. CalendarInv => BothSidesKnow
  <2> SUFFICES ASSUME CalendarInv, Quiet, excuse = {}
               PROVE  UpToDate("customer") /\ UpToDate(appt.pro)
    BY DEF BothSidesKnow
  <2>1. appt # None /\ \A c \in Calls : call[c] = None
    BY DEF Quiet
  <2> QED BY <2>1 DEF CalendarInv, Informed, Tells
<1> QED BY <1>1, CalendarInvHolds, PTL

-----------------------------------------------------------------------------
(* Times offered.  One opening range at a time: what of it fits is found   *)
(* window by window.                                                       *)
Late(read, d, s) == read \div DayLength = d => read < s

\* The slots of range r, and those of them that are still to come.
FitsIn(r, dur, taken) == {s \in r.from .. r.to - dur : Fits(s, dur, r, taken)}

\* Where the scan of r stands: behind the busy ranges it has passed, at the
\* start of r or at the end of one of them.
ScanAt(r, busy, todo, cursor) ==
    /\ todo \subseteq {b \in busy : Overlapping(b, r)}
    /\ r.from <= cursor /\ cursor <= r.to
    /\ cursor = r.from \/ cursor - 1 \in Covered(busy)
    /\ \A b \in busy \ todo : Overlapping(b, r) => b.to <= cursor \/ r.to <= cursor

\* A range of opening hours, or of the agenda, in minutes of the calendar.
Proper(r) == r \in Interval /\ r.from < r.to
Charted(r) == Proper(r) /\ \A m \in r.from .. r.to : m \in Minutes

\* The multiple of dur that fits counts from the start of the free stretch.
LEMMA FitsFrom ==
  ASSUME NEW r \in Interval, NEW taken, NEW w \in Int, NEW s \in Int, NEW dur \in Int,
         r.from <= w, w <= s, \A m \in w .. s : m \notin taken,
         w = r.from \/ w - 1 \in taken
  PROVE  Fits(s, dur, r, taken) <=> /\ \A m \in s .. s + dur - 1 : m \notin taken
                                    /\ (s - w) % dur = 0
<1> DEFINE stretch == {v \in r.from .. s : \A m \in v .. s : m \notin taken}
<1>0. r.from \in Int
  BY DEF Interval
<1>1. w \in stretch
  BY <1>0
<1>2. \A v \in stretch : w <= v
  <2> SUFFICES ASSUME NEW v \in stretch, v < w PROVE FALSE
    BY <1>0
  <2>1. w - 1 \in v .. s /\ w # r.from
    BY <1>0
  <2> QED BY <2>1
<1>3. \A u \in stretch : (\A v \in stretch : u <= v) => u = w
  BY <1>0, <1>1, <1>2
<1>4. (CHOOSE u \in stretch : \A v \in stretch : u <= v) = w
  <2> HIDE DEF stretch
  <2> QED BY <1>1, <1>2, <1>3
<1> QED BY <1>4 DEF Fits

\* What is free between the cursor and next is the window from the cursor to to.
Cuts(r, taken, cursor, to, next) ==
    /\ cursor \in Int /\ to \in Int /\ next \in Int
    /\ r.from <= cursor /\ cursor <= next /\ next <= r.to /\ to <= r.to
    /\ cursor = r.from \/ cursor - 1 \in taken
    /\ \A m \in cursor .. to - 1 : m \notin taken
    /\ \A m \in cursor .. next - 1 : to <= m => m \in taken
    /\ to = r.to \/ (cursor < to => to \in taken)
    /\ cursor < to => to <= next

\* The slots of that window are what fits from the cursor on and before next.
LEMMA WindowExact ==
  ASSUME NEW r \in Interval, NEW taken, NEW dur \in Int, dur > 0,
         NEW cursor, NEW to, NEW next, Cuts(r, taken, cursor, to, next),
         NEW s \in Int
  PROVE  s \in FitsIn(r, dur, taken) /\ cursor <= s /\ s < next
            <=> cursor < to /\ s \in cursor .. to - dur /\ (s - cursor) % dur = 0
<1>0. r.from \in Int /\ r.to \in Int
  BY DEF Interval
<1> USE DEF Cuts
<1>1. ASSUME s \in FitsIn(r, dur, taken), cursor <= s, s < next
      PROVE  cursor < to /\ s \in cursor .. to - dur /\ (s - cursor) % dur = 0
  <2>1. /\ s \in r.from .. r.to - dur /\ Fits(s, dur, r, taken)
        /\ \A m \in s .. s + dur - 1 : m \notin taken
    BY <1>1 DEF FitsIn, Fits
  <2>2. s < to
    BY <1>0, <1>1, <2>1
  <2>3. \A m \in cursor .. s : m \notin taken
    BY <2>2
  <2>4. (s - cursor) % dur = 0
    BY <1>1, <2>1, <2>3, FitsFrom
  <2>5. s <= to - dur
    <3>1. CASE to = r.to
      BY <1>0, <2>1, <3>1
    <3>2. CASE to \in taken
      BY <2>1, <2>2, <3>2
    <3> QED BY <1>1, <2>2, <3>1, <3>2
  <2> QED BY <1>1, <2>2, <2>4, <2>5
<1>2. ASSUME cursor < to, s \in cursor .. to - dur, (s - cursor) % dur = 0
      PROVE  s \in FitsIn(r, dur, taken) /\ cursor <= s /\ s < next
  <2>1. \A m \in cursor .. s + dur - 1 : m \notin taken
    BY <1>2
  <2>2. (\A m \in cursor .. s : m \notin taken) /\ \A m \in s .. s + dur - 1 : m \notin taken
    BY <1>2, <2>1
  <2>3. Fits(s, dur, r, taken)
    BY <1>2, <2>2, FitsFrom
  <2> QED BY <1>0, <1>2, <2>3 DEF FitsIn
<1> QED BY <1>1, <1>2

-----------------------------------------------------------------------------
LEMMA CoveredMinute ==
  ASSUME NEW busy, NEW m \in Minutes
  PROVE  m \in Covered(busy) <=> \E b \in busy : Covers(b, m)
BY DEF Covered

\* While the scan stands at the cursor, no range it has passed, nor one that
\* starts later, covers what follows.
LEMMA FreeAhead ==
  ASSUME NEW r, Charted(r), NEW busy \in SUBSET Intervals, NEW todo, NEW cursor \in Int,
         ScanAt(r, busy, todo, cursor), NEW to \in Int, to <= r.to,
         \A b \in todo : to <= b.from
  PROVE  \A m \in cursor .. to - 1 : m \notin Covered(busy)
<1> SUFFICES ASSUME NEW m \in cursor .. to - 1, m \in Covered(busy) PROVE FALSE
  OBVIOUS
<1>1. r.from \in Int /\ r.to \in Int
  BY DEF Charted, Proper, Interval
<1>2. PICK b \in busy : Covers(b, m)
  BY DEF Covered
<1>3. b.from \in Int /\ b.to \in Int
  BY TimesAssumption DEF TimesAssumption, Interval
<1>4. b \notin todo
  BY <1>1, <1>2, <1>3 DEF Covers
<1>5. Overlapping(b, r)
  BY <1>1, <1>2, <1>3 DEF Covers, Overlapping, ScanAt
<1> QED BY <1>1, <1>2, <1>3, <1>4, <1>5 DEF Covers, ScanAt

\* Passing a busy range c of the opening range moves the cursor to next and
\* leaves the window before it.
Passed(r, busy, todo, b, cursor, dur, c, next) ==
    /\ c.from \in Int /\ next \in Int /\ cursor <= next
    /\ ScanAt(r, busy, todo \ {b}, next)
    /\ \A s \in Int : s \in FitsIn(r, dur, Covered(busy)) /\ cursor <= s /\ s < next
           <=> cursor < c.from /\ s \in cursor .. c.from - dur /\ (s - cursor) % dur = 0

\* It is the one that starts first.
LEMMA PassedBusy ==
  ASSUME NEW r, Charted(r), NEW busy \in SUBSET Intervals, NEW todo, NEW cursor \in Int,
         ScanAt(r, busy, todo, cursor), NEW b \in todo, \A o \in todo : b.from <= o.from,
         NEW dur \in Int, dur > 0
  PROVE  Passed(r, busy, todo, b, cursor, dur, Clipped(b, r), Past(cursor, Clipped(b, r).to))
<1>0. PICK c, next : c = Clipped(b, r) /\ next = Past(cursor, c.to)
  OBVIOUS
<1>1. r \in Interval /\ r.from \in Int /\ r.to \in Int /\ r.from < r.to
  BY DEF Charted, Proper, Interval
<1>2. b \in busy /\ Overlapping(b, r) /\ r.from <= cursor /\ cursor <= r.to
  BY DEF ScanAt
<1>3. b.from \in Int /\ b.to \in Int /\ b.from < b.to
  BY <1>2, TimesAssumption DEF TimesAssumption, Interval
<1>4. /\ c.from = (IF b.from < r.from THEN r.from ELSE b.from)
      /\ c.to = (IF r.to < b.to THEN r.to ELSE b.to)
  BY <1>0 DEF Clipped
<1>5. /\ c.from \in Int /\ c.to \in Int /\ c.from < c.to /\ r.from <= c.from /\ c.to <= r.to
      /\ b.from <= c.from /\ c.to <= b.to /\ (c.to = b.to \/ c.to = r.to)
  BY <1>1, <1>2, <1>3, <1>4 DEF Overlapping
<1>6. next = (IF cursor < c.to THEN c.to ELSE cursor)
  BY <1>0 DEF Past
<1>7. next \in Int /\ cursor <= next /\ r.from <= next /\ next <= r.to /\ c.to <= next
  BY <1>1, <1>2, <1>5, <1>6
<1>8. \A m \in c.from .. c.to - 1 : m \in Covered(busy)
  <2> SUFFICES ASSUME NEW m \in c.from .. c.to - 1 PROVE m \in Covered(busy)
    OBVIOUS
  <2>1. m \in Minutes
    BY <1>1, <1>5 DEF Charted
  <2>2. Covers(b, m)
    BY <1>3, <1>5 DEF Covers
  <2> QED BY <1>2, <2>1, <2>2, CoveredMinute
<1>9. cursor = r.from \/ cursor - 1 \in Covered(busy)
  BY DEF ScanAt
<1>10. next = r.from \/ next - 1 \in Covered(busy)
  <2>1. CASE cursor < c.to
    BY <1>5, <1>6, <1>8, <2>1
  <2>2. CASE ~(cursor < c.to)
    BY <1>6, <1>9, <2>2
  <2> QED BY <2>1, <2>2
<1>11. ScanAt(r, busy, todo \ {b}, next)
  <2>1. \A o \in busy \ (todo \ {b}) : Overlapping(o, r) => o.to <= next \/ r.to <= next
    <3> SUFFICES ASSUME NEW o \in busy \ (todo \ {b}), Overlapping(o, r)
                 PROVE  o.to <= next \/ r.to <= next
      OBVIOUS
    <3>1. o.to \in Int
      BY TimesAssumption DEF TimesAssumption, Interval
    <3>2. CASE o = b
      BY <1>3, <1>5, <1>7, <3>2
    <3>3. CASE o # b
      <4>1. o.to <= cursor \/ r.to <= cursor
        BY <3>3 DEF ScanAt
      <4> QED BY <1>1, <1>7, <3>1, <4>1
    <3> QED BY <3>2, <3>3
  <2> QED BY <1>7, <1>10, <2>1 DEF ScanAt
<1>12. \A m \in cursor .. c.from - 1 : m \notin Covered(busy)
  <2>1. CASE cursor < c.from
    <3>1. c.from = b.from
      BY <1>1, <1>2, <1>3, <1>4, <1>5, <2>1
    <3>2. c.from <= r.to
      BY <1>1, <1>5
    <3> QED BY <1>5, <3>1, <3>2, FreeAhead
  <2>2. CASE ~(cursor < c.from)
    BY <1>5, <2>2
  <2> QED BY <2>1, <2>2
<1>13. \A m \in cursor .. next - 1 : c.from <= m => m \in Covered(busy)
  <2> SUFFICES ASSUME NEW m \in cursor .. next - 1, c.from <= m PROVE m \in Covered(busy)
    OBVIOUS
  <2>1. m \in c.from .. c.to - 1
    BY <1>5, <1>6, <1>7
  <2> QED BY <1>8, <2>1
<1>14. c.from \in Covered(busy) /\ c.from <= r.to /\ (cursor < c.from => c.from <= next)
  BY <1>1, <1>5, <1>7, <1>8
<1>15. \A s \in Int : s \in FitsIn(r, dur, Covered(busy)) /\ cursor <= s /\ s < next
          <=> cursor < c.from /\ s \in cursor .. c.from - dur /\ (s - cursor) % dur = 0
  <2> TAKE s \in Int
  <2>1. Cuts(r, Covered(busy), cursor, c.from, next)
    BY <1>2, <1>5, <1>7, <1>9, <1>12, <1>13, <1>14 DEF Cuts
  <2>2. s \in Int /\ r \in Interval /\ c.from \in Int /\ next \in Int
    BY <1>1, <1>5, <1>7
  <2> QED BY <2>1, <2>2, WindowExact
<1>16. Passed(r, busy, todo, b, cursor, dur, c, next)
  BY <1>5, <1>7, <1>11, <1>15 DEF Passed
<1> QED BY <1>0, <1>16

\* The window behind the last of them.
LEMMA RangeEnded ==
  ASSUME NEW r, Charted(r), NEW busy \in SUBSET Intervals, NEW cursor \in Int,
         ScanAt(r, busy, {}, cursor), NEW dur \in Int, dur > 0
  PROVE  \A s \in Int : s \in FitsIn(r, dur, Covered(busy)) /\ cursor <= s
            <=> cursor < r.to /\ s \in cursor .. r.to - dur /\ (s - cursor) % dur = 0
<1>1. r \in Interval /\ r.from \in Int /\ r.to \in Int /\ r.from < r.to
  BY DEF Charted, Proper, Interval
<1>2. r.from <= cursor /\ cursor <= r.to /\ (cursor = r.from \/ cursor - 1 \in Covered(busy))
  BY DEF ScanAt
<1>3. \A m \in cursor .. r.to - 1 : m \notin Covered(busy)
  BY <1>1, FreeAhead
<1> SUFFICES ASSUME NEW s \in Int
             PROVE  s \in FitsIn(r, dur, Covered(busy)) /\ cursor <= s
                      <=> cursor < r.to /\ s \in cursor .. r.to - dur /\ (s - cursor) % dur = 0
  OBVIOUS
<1>4. s \in FitsIn(r, dur, Covered(busy)) /\ cursor <= s /\ s < r.to
         <=> cursor < r.to /\ s \in cursor .. r.to - dur /\ (s - cursor) % dur = 0
  <2>1. \A m \in cursor .. r.to - 1 : r.to <= m => m \in Covered(busy)
    BY <1>1
  <2>2. Cuts(r, Covered(busy), cursor, r.to, r.to)
    BY <1>1, <1>2, <1>3, <2>1 DEF Cuts
  <2> QED BY <1>1, <2>2, WindowExact
<1>5. s \in FitsIn(r, dur, Covered(busy)) => s < r.to
  BY <1>1 DEF FitsIn
<1> QED BY <1>4, <1>5

-----------------------------------------------------------------------------
(* The question being answered.                                            *)
OpeningOf(a, k) == Shift(a.hours.times[a.day][k], a.day)
Fit(a, k) == {s \in FitsIn(OpeningOf(a, k), Duration[a.item], Covered(a.seen)) : Late(a.read, a.day, s)}

\* The slots gathered are those that fit, as far as the scan has come.
Gathered(a) == (UNION {Fit(a, k) : k \in 1 .. a.range - 1}) \cup {s \in Fit(a, a.range) : s < a.cursor}

ScanOK(a) ==
    /\ a.range \in DOMAIN a.hours.times[a.day]
    /\ ScanAt(OpeningOf(a, a.range), a.seen, a.todo, a.cursor)
    /\ a.slots = Gathered(a)

Exactly(h, dur, x) ==
    x.slots = {s \in UNION {FitsIn(r, dur, Covered(x.busy)) : r \in RangesOf(h, x.day)} :
                  Late(x.read, x.day, s)}

AskOK(a) ==
    /\ Accepted(a.hours) /\ Duration[a.item] > 0
    /\ a.at \in {"appointments", "blocks", "scan"} => a.day <= a.last
    /\ a.at \in {"blocks", "scan"} => a.hours.times[a.day] # <<>>
    /\ a.at \in {"appointments", "blocks"} => a.slots = {}
    /\ a.at = "scan" => ScanOK(a)
    /\ \A x \in a.answers : Exactly(a.hours, Duration[a.item], x)

\* What was not busy on the opening hours of day d was free once.
InHours(h, d, m) == \E r \in RangesOf(h, d) : m \in r.from .. r.to - 1
Known(h, d, busy, free) == \A m \in Minutes : InHours(h, d, m) /\ m \notin Covered(busy) => m \in free

\* A minute no appointment covered at the first query was free once, or a
\* block has covered it ever since.
WitnessOK(a, l, b) ==
    /\ Minutes \ Covered(l \cup b) \subseteq a.free
    /\ ~a.clash =>
        /\ Covered(l) \cap Covered(b) = {}
        /\ a.at = "blocks" =>
              \A m \in Minutes : InHours(a.hours, a.day, m) /\ m \notin Covered(a.seen)
                                     => m \in a.free \cup Covered(b)
        /\ a.at = "scan" => Known(a.hours, a.day, a.seen, a.free)
        /\ \A x \in a.answers : Known(a.hours, x.day, x.busy, a.free)

TimesInv ==
    /\ TimesTypeOK /\ Accepted(openingHours)
    /\ ask # Nobody => AskOK(ask) /\ WitnessOK(ask, live, blocks)

LEMMA AskedFields ==
  ASSUME NEW a \in Asked
  PROVE  /\ a.item \in Items /\ a.hours \in HoursInputs /\ a.day \in Nat /\ a.last \in Days
         /\ a.seen \in SUBSET Intervals /\ a.read \in Int /\ a.answers \subseteq DayAnswer
         /\ a.range \in Nat /\ a.todo \in SUBSET Intervals /\ a.cursor \in Int
         /\ a.slots \subseteq Int /\ a.free \subseteq Minutes /\ a.clash \in BOOLEAN
         /\ Duration[a.item] \in Int /\ a.last \in 0 .. LastDay
BY TimesAssumption DEF Asked, TimesAssumption, Days

LEMMA DayAsked ==
  ASSUME NEW a \in Asked, AskOK(a), a.at \in {"appointments", "blocks", "scan"}
  PROVE  a.day \in Days
BY AskedFields, TimesAssumption DEF AskOK, Days, TimesAssumption

\* Days follow one another.
LEMMA DayFollows ==
  ASSUME NEW d \in Days
  PROVE  /\ d * DayLength \in Nat /\ (d + 1) * DayLength = d * DayLength + DayLength
         /\ (d + 1) * DayLength <= (LastDay + 1) * DayLength
         /\ d \in Nat /\ (LastDay + 1) * DayLength \in Nat
<1>1. d \in Nat /\ LastDay \in Nat /\ d <= LastDay /\ DayLength \in Nat /\ DayLength > 0
  BY TimesAssumption DEF TimesAssumption, Days
<1>2. d * DayLength \in Nat /\ (d + 1) * DayLength = d * DayLength + DayLength
  BY <1>1
<1>3. PICK e \in Nat : LastDay = d + e
  <2>1. LastDay - d \in Nat /\ LastDay = d + (LastDay - d)
    BY <1>1
  <2> QED BY <2>1
<1>4. (LastDay + 1) * DayLength = (d + 1) * DayLength + e * DayLength /\ e * DayLength \in Nat
  BY <1>1, <1>3
<1> QED BY <1>1, <1>2, <1>4

\* The opening hours lie within their day.
LEMMA OpeningCharted ==
  ASSUME NEW h \in HoursInputs, Accepted(h), NEW d \in Days, NEW k \in DOMAIN h.times[d],
         NEW r, r = Shift(h.times[d][k], d)
  PROVE  /\ Charted(r)
         /\ \A m \in r.from .. r.to : m \in Int /\ d * DayLength <= m /\ m < (d + 1) * DayLength
<1>1. h.times[d] \in Seq(Interval)
  BY TimesAssumption DEF TimesAssumption
<1>2. h.times[d][k] \in Interval
  BY <1>1
<1> DEFINE t == h.times[d][k]
<1>3. 0 <= t.from /\ t.from < t.to /\ t.to < DayLength /\ t.from \in Int /\ t.to \in Int
  BY <1>2 DEF Accepted, Interval
<1>4. r = [from |-> t.from + d * DayLength, to |-> t.to + d * DayLength]
  BY DEF Shift
<1>5. /\ d * DayLength \in Nat /\ (d + 1) * DayLength = d * DayLength + DayLength
      /\ (d + 1) * DayLength <= (LastDay + 1) * DayLength /\ (LastDay + 1) * DayLength \in Nat
  BY DayFollows
<1> DEFINE start == d * DayLength
           next == (d + 1) * DayLength
           end == (LastDay + 1) * DayLength
<1>6. DayLength \in Nat
  BY TimesAssumption DEF TimesAssumption
<1>7. /\ start \in Nat /\ next = start + DayLength /\ next <= end /\ end \in Nat
      /\ r = [from |-> t.from + start, to |-> t.to + start]
      /\ Minutes = 0 .. end - 1
  BY <1>4, <1>5 DEF Minutes
<1> HIDE DEF t, start, next, end
<1>8. Proper(r)
  BY <1>3, <1>7 DEF Proper, Interval
<1>9. \A m \in r.from .. r.to : m \in Int /\ start <= m /\ m < next
  BY <1>3, <1>6, <1>7
<1>10. \A m \in r.from .. r.to : m \in Minutes
  BY <1>6, <1>7, <1>9
<1> QED BY <1>8, <1>9, <1>10 DEF Charted, start, next

LEMMA FitSame ==
  ASSUME NEW a, NEW e, e.hours = a.hours, e.day = a.day, e.item = a.item, e.seen = a.seen, e.read = a.read
  PROVE  \A k : Fit(e, k) = Fit(a, k) /\ OpeningOf(e, k) = OpeningOf(a, k)
BY DEF Fit, OpeningOf

\* At the start of a range the scan has come past the ranges before it.
LEMMA EnteredRange ==
  ASSUME ask \in Asked, AskOK(ask), NEW a \in Asked, a.day \in Days, a.hours = ask.hours, a.day = ask.day,
         a.item = ask.item, a.answers = ask.answers,
         NEW k \in DOMAIN a.hours.times[a.day], a.slots = UNION {Fit(a, j) : j \in 1 .. k - 1},
         a.day <= a.last, NEW e, e = EnterRange(a, k)
  PROVE  /\ e \in Asked /\ AskOK(e) /\ e.at = "scan"
         /\ e.hours = a.hours /\ e.day = a.day /\ e.item = a.item /\ e.seen = a.seen /\ e.read = a.read
         /\ e.answers = a.answers /\ e.free = a.free /\ e.clash = a.clash
<1> DEFINE r == OpeningOf(a, k)
           todo == {b \in a.seen : Overlapping(b, r)}
<1>1. Opening(k) = r
  BY DEF Opening, OpeningOf
<1>2. e = [a EXCEPT !.at = "scan", !.range = k, !.cursor = r.from, !.todo = todo]
  BY <1>1 DEF EnterRange
<1>3. a.hours \in HoursInputs /\ Accepted(a.hours)
  BY AskedFields DEF AskOK
<1>4. Charted(r)
  BY <1>3, OpeningCharted DEF OpeningOf
<1>5. r.from \in Int /\ r.to \in Int /\ r.from < r.to
  BY <1>4 DEF Charted, Proper, Interval
<1>6. a.hours.times[a.day] \in Seq(Interval)
  BY <1>3, TimesAssumption DEF TimesAssumption
<1>7. k \in Nat /\ a.hours.times[a.day] # <<>>
  BY <1>6
<1>8. todo \subseteq a.seen /\ todo \in SUBSET Intervals
  BY AskedFields
<1> HIDE DEF r, todo
<1>9. e \in Asked
  BY <1>2, <1>5, <1>7, <1>8 DEF Asked
<1>10. /\ e.at = "scan" /\ e.range = k /\ e.cursor = r.from /\ e.todo = todo /\ e.slots = a.slots
       /\ e.hours = a.hours /\ e.day = a.day /\ e.item = a.item /\ e.seen = a.seen /\ e.read = a.read
       /\ e.answers = a.answers /\ e.free = a.free /\ e.clash = a.clash /\ e.last = a.last
  BY <1>2 DEF Asked
<1>11. \A j : Fit(e, j) = Fit(a, j) /\ OpeningOf(e, j) = OpeningOf(a, j)
  BY <1>10, FitSame
<1>12. ScanAt(r, a.seen, todo, r.from)
  BY <1>5 DEF ScanAt, todo
<1>13. \A s \in Fit(a, k) : ~(s < r.from)
  <2>1. Fit(a, k) \subseteq r.from .. r.to - Duration[a.item]
    BY DEF Fit, FitsIn, r
  <2> QED BY <1>5, <2>1, AskedFields
<1>14. Gathered(e) = (UNION {Fit(a, j) : j \in 1 .. k - 1}) \cup {s \in Fit(a, k) : s < r.from}
  <2>1. \A n : {Fit(e, j) : j \in 1 .. n} = {Fit(a, j) : j \in 1 .. n}
    BY <1>11
  <2>2. Gathered(e) = (UNION {Fit(e, j) : j \in 1 .. k - 1}) \cup {s \in Fit(e, k) : s < r.from}
    BY <1>10 DEF Gathered
  <2>3. {s \in Fit(e, k) : s < r.from} = {s \in Fit(a, k) : s < r.from}
    BY <1>11
  <2>4. UNION {Fit(e, j) : j \in 1 .. k - 1} = UNION {Fit(a, j) : j \in 1 .. k - 1}
    BY <2>1
  <2> QED BY <2>2, <2>3, <2>4
<1>15. ScanOK(e)
  BY <1>10, <1>11, <1>12, <1>13, <1>14 DEF ScanOK, r
<1>16. Duration[e.item] > 0 /\ \A x \in e.answers : Exactly(e.hours, Duration[e.item], x)
  BY <1>10 DEF AskOK
<1> QED BY <1>3, <1>7, <1>9, <1>10, <1>15, <1>16 DEF AskOK

\* A window adds the slots that start in it and are still to come.
LEMMA WindowAdds ==
  ASSUME ask \in Asked, Duration[ask.item] > 0, NEW to \in Int
  PROVE  /\ WithWindow(to) \subseteq Int
         /\ \A s \in Int : s \in WithWindow(to) <=>
               s \in ask.slots \/ /\ ask.cursor < to /\ s \in ask.cursor .. to - Duration[ask.item]
                                  /\ (s - ask.cursor) % Duration[ask.item] = 0
                                  /\ Late(ask.read, ask.day, s)
<1>1. ask.slots \subseteq Int /\ ask.cursor \in Int /\ Duration[ask.item] \in Int
  BY AskedFields
<1>2. WithWindow(to) = ask.slots \cup
         IF ask.cursor < to
         THEN {s \in ask.cursor .. to - Duration[ask.item] :
                  (s - ask.cursor) % Duration[ask.item] = 0 /\ Late(ask.read, ask.day, s)}
         ELSE {}
  BY DEF WithWindow, SlotsOf, Late
<1> QED BY <1>1, <1>2

LEMMA GatheredSame ==
  ASSUME NEW a, NEW e, e.hours = a.hours, e.day = a.day, e.item = a.item, e.seen = a.seen, e.read = a.read,
         e.range = a.range, e.cursor = a.cursor
  PROVE  Gathered(e) = Gathered(a)
<1>1. \A j : Fit(e, j) = Fit(a, j)
  BY FitSame
<1>2. \A n : {Fit(e, j) : j \in 1 .. n} = {Fit(a, j) : j \in 1 .. n}
  BY <1>1
<1>3. UNION {Fit(e, j) : j \in 1 .. e.range - 1} = UNION {Fit(a, j) : j \in 1 .. a.range - 1}
  BY <1>2
<1>4. {s \in Fit(e, e.range) : s < e.cursor} = {s \in Fit(a, a.range) : s < a.cursor}
  BY <1>1
<1> QED BY <1>3, <1>4 DEF Gathered

\* What the environment writes on the question does not touch the scan.
LEMMA AskOKSame ==
  ASSUME NEW a, AskOK(a), NEW e, e.hours = a.hours, e.day = a.day, e.item = a.item, e.seen = a.seen,
         e.read = a.read, e.range = a.range, e.cursor = a.cursor, e.todo = a.todo, e.slots = a.slots,
         e.at = a.at, e.last = a.last, e.answers = a.answers
  PROVE  AskOK(e)
<1>1. Gathered(e) = Gathered(a) /\ \A k : OpeningOf(e, k) = OpeningOf(a, k)
  BY GatheredSame, FitSame
<1>2. ScanOK(a) => ScanOK(e)
  BY <1>1 DEF ScanOK
<1> QED BY <1>2 DEF AskOK

LEMMA CoveredUnion ==
  ASSUME NEW S, NEW T
  PROVE  Covered(S \cup T) = Covered(S) \cup Covered(T)
BY DEF Covered

\* What covers a minute of the day is found by the query for the day.
LEMMA FoundByQuery ==
  ASSUME NEW h \in HoursInputs, Accepted(h), NEW d \in Days, NEW S \in SUBSET Intervals,
         NEW m \in Minutes, InHours(h, d, m), m \in Covered(S)
  PROVE  m \in Covered(Intersecting(S, d))
<1>1. PICK k \in DOMAIN h.times[d] : m \in Shift(h.times[d][k], d).from .. Shift(h.times[d][k], d).to - 1
  BY DEF InHours, RangesOf
<1> DEFINE r == Shift(h.times[d][k], d)
<1>2. \A n \in r.from .. r.to : n \in Int /\ d * DayLength <= n /\ n < (d + 1) * DayLength
  BY OpeningCharted
<1>3. Charted(r)
  BY OpeningCharted
<1>4. r.from \in Int /\ r.to \in Int
  BY <1>3 DEF Charted, Proper, Interval
<1>5. m \in r.from .. r.to - 1
  BY <1>1
<1> HIDE DEF r
<1>6. m \in Int /\ d * DayLength <= m /\ m < (d + 1) * DayLength
  BY <1>2, <1>4, <1>5
<1>7. PICK i \in S : Covers(i, m)
  BY DEF Covered
<1>8. i.from \in Int /\ i.to \in Int
  BY TimesAssumption DEF TimesAssumption, Interval
<1>9. d * DayLength \in Int /\ (d + 1) * DayLength \in Int
  BY DayFollows, TimesAssumption DEF TimesAssumption
<1> DEFINE start == d * DayLength
           next == (d + 1) * DayLength
<1>10. start \in Int /\ next \in Int /\ start <= m /\ m < next
  BY <1>6, <1>9
<1> HIDE DEF start, next
<1>11. i.from < next /\ i.to > start
  BY <1>6, <1>7, <1>8, <1>10 DEF Covers
<1>12. i \in Intersecting(S, d)
  BY <1>11 DEF Intersecting, start, next
<1> QED BY <1>7, <1>12 DEF Covered

\* The agenda changes: appointments or blocks, never both at once.
LEMMA AgendaInv ==
  ASSUME TimesInv, NEW l \in SUBSET Intervals, NEW b \in SUBSET Intervals, l = live \/ b = blocks,
         ChangeAgenda(l, b)
  PROVE  TimesInv'
<1>1. /\ changes' = changes + 1 /\ changes < MaxChanges /\ live' = l /\ blocks' = b
      /\ ask' = Witnessed(l, b) /\ UNCHANGED <<openingHours, bookable, now>>
  BY DEF ChangeAgenda
<1>2. changes' \in 0 .. MaxChanges
  BY <1>1, TimesAssumption DEF TimesInv, TimesTypeOK, TimesAssumption
<1>3. CASE ask = Nobody
  BY <1>1, <1>2, <1>3 DEF TimesInv, TimesTypeOK, Witnessed
<1>4. CASE ask # Nobody
  <2> DEFINE busy == Covered(l) \cap Covered(b) # {}
             newly == Minutes \ Covered(l \cup b)
  <2>1. ask \in Asked /\ AskOK(ask) /\ WitnessOK(ask, live, blocks)
    BY <1>4 DEF TimesInv, TimesTypeOK
  <2>2. ask' = [ask EXCEPT !.free = ask.free \cup newly, !.clash = ask.clash \/ busy]
    BY <1>1, <1>4 DEF Witnessed
  <2>3. newly \subseteq Minutes
    OBVIOUS
  <2>4. busy \in BOOLEAN
    OBVIOUS
  <2>5. newly = Minutes \ (Covered(l) \cup Covered(b))
    BY CoveredUnion
  <2>6. ~busy => Covered(l) \cap Covered(b) = {}
    OBVIOUS
  <2> HIDE DEF busy, newly
  <2>7. ask' \in Asked
    BY <2>1, <2>2, <2>3, <2>4 DEF Asked
  <2>8. /\ ask'.hours = ask.hours /\ ask'.day = ask.day /\ ask'.item = ask.item /\ ask'.seen = ask.seen
        /\ ask'.read = ask.read /\ ask'.range = ask.range /\ ask'.cursor = ask.cursor
        /\ ask'.todo = ask.todo /\ ask'.slots = ask.slots /\ ask'.at = ask.at /\ ask'.last = ask.last
        /\ ask'.answers = ask.answers
    BY <2>1, <2>2 DEF Asked
  <2>9. ask'.free = ask.free \cup newly /\ (~ask'.clash => ~ask.clash /\ ~busy)
    BY <2>1, <2>2, <2>4 DEF Asked
  <2>10. AskOK(ask')
    BY <2>1, <2>8, AskOKSame
  <2>11. \A h, d, seen : Known(h, d, seen, ask.free) => Known(h, d, seen, ask'.free)
    BY <2>9 DEF Known
  <2>12. Minutes \ Covered(l \cup b) \subseteq ask'.free
    BY <2>9 DEF newly
  <2>13. ASSUME ~ask'.clash, ask'.at = "blocks", NEW m \in Minutes, InHours(ask'.hours, ask'.day, m),
                m \notin Covered(ask'.seen)
         PROVE  m \in ask'.free \cup Covered(b)
    <3>1. m \in ask.free \cup Covered(blocks) /\ Covered(live) \cap Covered(blocks) = {}
      BY <2>1, <2>8, <2>9, <2>13 DEF WitnessOK
    <3>2. CASE m \in ask.free
      BY <2>9, <3>2
    <3>3. CASE m \in Covered(blocks) /\ b = blocks
      BY <3>3
    <3>4. CASE m \in Covered(blocks) /\ l = live
      <4>1. m \notin Covered(l)
        BY <3>1, <3>4
      <4> QED BY <2>5, <2>9, <4>1
    <3> QED BY <3>1, <3>2, <3>3, <3>4
  <2>14. WitnessOK(ask', l, b)
    <3>1. ~ask'.clash => /\ Covered(l) \cap Covered(b) = {}
                         /\ ask'.at = "scan" => Known(ask'.hours, ask'.day, ask'.seen, ask'.free)
                         /\ \A x \in ask'.answers : Known(ask'.hours, x.day, x.busy, ask'.free)
      BY <2>1, <2>6, <2>8, <2>9, <2>11 DEF WitnessOK
    <3> QED BY <2>12, <2>13, <3>1 DEF WitnessOK
  <2> QED BY <1>1, <1>2, <2>7, <2>10, <2>14 DEF TimesInv, TimesTypeOK
<1> QED BY <1>3, <1>4

LEMMA AskInv ==
  ASSUME TimesInv, NEW i \in Items, NEW d \in Days, NEW last \in Days, d <= last, Ask(i, d, last)
  PROVE  TimesInv'
<1>1. openingHours \in HoursInputs /\ Accepted(openingHours)
  BY DEF TimesInv, TimesTypeOK
<1> DEFINE at == IF openingHours.form = "list" THEN "appointments" ELSE "failed"
           known == Minutes \ Covered(live \cup blocks)
           both == Covered(live) \cap Covered(blocks) # {}
<1>2. /\ ask' = [at |-> at, item |-> i, hours |-> openingHours, day |-> d, last |-> last,
                 seen |-> {}, read |-> 0, answers |-> {}, range |-> 0, todo |-> {}, cursor |-> 0, slots |-> {},
                 free |-> known, clash |-> both]
      /\ Duration[i] > 0 /\ UNCHANGED <<openingHours, live, blocks, bookable, now, changes>>
  BY DEF Ask
<1>3. at \in {"appointments", "failed"} /\ known \subseteq Minutes /\ both \in BOOLEAN /\ d \in Nat
  BY TimesAssumption DEF Days, TimesAssumption
<1>4. ~both => Covered(live) \cap Covered(blocks) = {}
  OBVIOUS
<1>5. Minutes \ Covered(live \cup blocks) \subseteq known
  OBVIOUS
<1> HIDE DEF at, known, both
<1>6. ask' \in Asked
  BY <1>1, <1>2, <1>3 DEF Asked
<1>7. AskOK(ask')
  BY <1>1, <1>2, <1>3 DEF AskOK
<1>8. WitnessOK(ask', live, blocks)
  BY <1>2, <1>3, <1>4, <1>5 DEF WitnessOK
<1> QED BY <1>1, <1>2, <1>6, <1>7, <1>8 DEF TimesInv, TimesTypeOK

Rest == UNCHANGED <<openingHours, live, blocks, bookable, now, changes>>

LEMMA RestInv ==
  ASSUME TimesInv, Rest, ask' \in Asked, AskOK(ask'), WitnessOK(ask', live, blocks)
  PROVE  TimesInv'
BY DEF TimesInv, TimesTypeOK, Rest

\* The scan of a day is put away.
LEMMA PutAway ==
  ASSUME NEW a \in Asked, NEW answers \in SUBSET DayAnswer, NEW day \in Nat,
         NEW at \in {"appointments", "blocks", "scan", "answered", "failed"}
  PROVE  [a EXCEPT !.answers = answers, !.day = day, !.at = at,
                   !.seen = {}, !.range = 0, !.todo = {}, !.cursor = 0, !.slots = {}] \in Asked
<1> DEFINE e1 == [a EXCEPT !.answers = answers, !.day = day, !.at = at]
           e2 == [e1 EXCEPT !.seen = {}, !.range = 0]
           e3 == [e2 EXCEPT !.todo = {}]
           e4 == [e3 EXCEPT !.cursor = 0]
<1>1. e1 \in Asked
  BY DEF Asked
<1> HIDE DEF e1
<1>2. e2 \in Asked
  BY <1>1 DEF Asked
<1> HIDE DEF e2
<1>3. e3 \in Asked
  BY <1>2 DEF Asked
<1> HIDE DEF e3
<1>4. e4 \in Asked
  BY <1>3 DEF Asked
<1> HIDE DEF e4
<1>5. [e4 EXCEPT !.slots = {}] \in Asked
  BY <1>4 DEF Asked
<1> QED BY <1>5 DEF e1, e2, e3, e4

\* A day is answered by what fits it.
LEMMA AnsweredInv ==
  ASSUME TimesInv, ask # Nobody, ask.at \in {"appointments", "scan"}, Rest,
         NEW busy \in SUBSET Intervals, NEW slots \in SUBSET Int, NEW read \in Int,
         NEW x, x = [day |-> ask.day, busy |-> busy, slots |-> slots, read |-> read],
         Exactly(ask.hours, Duration[ask.item], x),
         ~ask.clash => Known(ask.hours, ask.day, busy, ask.free),
         ask' = Answered(busy, slots, read)
  PROVE  TimesInv'
<1>1. ask \in Asked /\ AskOK(ask) /\ WitnessOK(ask, live, blocks)
  BY DEF TimesInv, TimesTypeOK
<1>2. ask.day \in Days
  BY <1>1, DayAsked
<1>3. ask.day \in Nat /\ ask.last \in Nat /\ ask.day <= ask.last
  BY <1>1, AskedFields DEF AskOK
<1>4. x \in DayAnswer
  BY <1>2 DEF DayAnswer
<1> DEFINE at == IF ask.day = ask.last THEN "answered" ELSE "appointments"
<1>5. ask' = [ask EXCEPT !.answers = ask.answers \cup {x}, !.day = ask.day + 1, !.at = at,
                         !.seen = {}, !.range = 0, !.todo = {}, !.cursor = 0, !.slots = {}]
  BY DEF Answered
<1>6. at \in {"answered", "appointments"} /\ (at = "appointments" => ask.day + 1 <= ask.last)
  BY <1>3
<1> HIDE DEF at
<1>7. ask' \in Asked
  <2>1. ask.answers \cup {x} \in SUBSET DayAnswer /\ ask.day + 1 \in Nat
    BY <1>1, <1>3, <1>4, AskedFields
  <2>2. at \in {"appointments", "blocks", "scan", "answered", "failed"}
    BY <1>6
  <2> DEFINE answers == ask.answers \cup {x}
             day == ask.day + 1
  <2>3. ask' = [ask EXCEPT !.answers = answers, !.day = day, !.at = at,
                           !.seen = {}, !.range = 0, !.todo = {}, !.cursor = 0, !.slots = {}]
    BY <1>5
  <2>4. answers \in SUBSET DayAnswer /\ day \in Nat
    BY <2>1
  <2> HIDE DEF answers, day
  <2>5. [ask EXCEPT !.answers = answers, !.day = day, !.at = at,
                    !.seen = {}, !.range = 0, !.todo = {}, !.cursor = 0, !.slots = {}] \in Asked
    BY <1>1, <2>2, <2>4, PutAway, Zenon
  <2> QED BY <2>3, <2>5, Zenon
<1>8. /\ ask'.answers = ask.answers \cup {x} /\ ask'.day = ask.day + 1 /\ ask'.at = at
      /\ ask'.slots = {} /\ ask'.hours = ask.hours /\ ask'.item = ask.item /\ ask'.last = ask.last
      /\ ask'.free = ask.free /\ ask'.clash = ask.clash
  BY <1>1, <1>5 DEF Asked
<1>9. AskOK(ask')
  BY <1>1, <1>6, <1>8 DEF AskOK
<1>10. x.day = ask.day /\ x.busy = busy
  OBVIOUS
<1>11. WitnessOK(ask', live, blocks)
  BY <1>1, <1>6, <1>8, <1>10 DEF WitnessOK
<1> QED BY <1>7, <1>9, <1>11, RestInv

LEMMA ReadClosedDayInv ==
  ASSUME TimesInv, ReadClosedDay PROVE TimesInv'
<1>1. /\ ask # Nobody /\ ask.at = "appointments" /\ ask.hours.times[ask.day] = <<>>
      /\ ask' = Answered({}, {}, now) /\ Rest
  BY DEF ReadClosedDay, At, Rest
<1>2. RangesOf(ask.hours, ask.day) = {}
  BY <1>1 DEF RangesOf
<1> DEFINE x == [day |-> ask.day, busy |-> {}, slots |-> {}, read |-> now]
<1>3. Exactly(ask.hours, Duration[ask.item], x)
  BY <1>2 DEF Exactly
<1>4. Known(ask.hours, ask.day, {}, ask.free)
  BY <1>2 DEF Known, InHours
<1>5. now \in Int
  BY DayFollows, TimesAssumption DEF TimesInv, TimesTypeOK, Minutes
<1> QED BY <1>1, <1>3, <1>4, <1>5, AnsweredInv

LEMMA ReadAppointmentsInv ==
  ASSUME TimesInv, ReadAppointments PROVE TimesInv'
<1> DEFINE seen == Intersecting(live, ask.day)
<1>1. /\ ask # Nobody /\ ask.at = "appointments" /\ ask.hours.times[ask.day] # <<>>
      /\ ask' = [ask EXCEPT !.at = "blocks", !.seen = seen, !.read = now] /\ Rest
  BY DEF ReadAppointments, At, Rest
<1>2. ask \in Asked /\ AskOK(ask) /\ WitnessOK(ask, live, blocks)
  BY <1>1 DEF TimesInv, TimesTypeOK
<1>3. live \in SUBSET Intervals /\ now \in Int
  BY DayFollows, TimesAssumption DEF TimesInv, TimesTypeOK, Minutes
<1>4. seen \in SUBSET Intervals
  BY <1>3 DEF Intersecting
<1>5. ask.day \in Days /\ ask.hours \in HoursInputs /\ Accepted(ask.hours)
  BY <1>1, <1>2, DayAsked, AskedFields DEF AskOK
<1>6. \A m \in Minutes : InHours(ask.hours, ask.day, m) /\ m \notin Covered(seen) => m \notin Covered(live)
  BY <1>3, <1>5, FoundByQuery
<1> HIDE DEF seen
<1>7. ask' \in Asked
  BY <1>1, <1>2, <1>3, <1>4 DEF Asked
<1>8. /\ ask'.at = "blocks" /\ ask'.seen = seen /\ ask'.day = ask.day /\ ask'.last = ask.last
      /\ ask'.hours = ask.hours /\ ask'.item = ask.item /\ ask'.answers = ask.answers /\ ask'.slots = ask.slots
      /\ ask'.free = ask.free /\ ask'.clash = ask.clash
  BY <1>1, <1>2 DEF Asked
<1>9. AskOK(ask')
  BY <1>1, <1>2, <1>8 DEF AskOK
<1>10. \A m \in Minutes : InHours(ask'.hours, ask'.day, m) /\ m \notin Covered(ask'.seen)
                             => m \in ask'.free \cup Covered(blocks)
  BY <1>2, <1>6, <1>8, CoveredUnion DEF WitnessOK
<1>11. WitnessOK(ask', live, blocks)
  BY <1>2, <1>8, <1>10 DEF WitnessOK
<1> QED BY <1>1, <1>7, <1>9, <1>11, RestInv

LEMMA ReadBlocksInv ==
  ASSUME TimesInv, ReadBlocks PROVE TimesInv'
<1> DEFINE found == Intersecting(blocks, ask.day)
           a == [ask EXCEPT !.seen = ask.seen \cup found]
<1>1. ask # Nobody /\ ask.at = "blocks" /\ ask' = EnterRange(a, 1) /\ Rest
  BY DEF ReadBlocks, At, Rest
<1>2. ask \in Asked /\ AskOK(ask) /\ WitnessOK(ask, live, blocks)
  BY <1>1 DEF TimesInv, TimesTypeOK
<1>3. blocks \in SUBSET Intervals
  BY DEF TimesInv, TimesTypeOK
<1>4. found \in SUBSET Intervals
  BY <1>3 DEF Intersecting
<1>5. ask.day \in Days /\ ask.hours \in HoursInputs /\ Accepted(ask.hours) /\ ask.seen \in SUBSET Intervals
  BY <1>1, <1>2, DayAsked, AskedFields DEF AskOK
<1>6. \A m \in Minutes : InHours(ask.hours, ask.day, m) /\ m \notin Covered(found) => m \notin Covered(blocks)
  BY <1>3, <1>5, FoundByQuery
<1>7. Covered(ask.seen \cup found) = Covered(ask.seen) \cup Covered(found)
  BY CoveredUnion
<1> HIDE DEF found
<1>8. a \in Asked
  BY <1>2, <1>4, <1>5 DEF Asked
<1>9. /\ a.at = "blocks" /\ a.seen = ask.seen \cup found /\ a.day = ask.day /\ a.last = ask.last
      /\ a.hours = ask.hours /\ a.item = ask.item /\ a.answers = ask.answers /\ a.slots = ask.slots
      /\ a.free = ask.free /\ a.clash = ask.clash
  BY <1>1, <1>2 DEF Asked
<1> HIDE DEF a
<1>10. a.day <= a.last /\ a.slots = {}
  BY <1>1, <1>2, <1>9 DEF AskOK
<1>11. 1 \in DOMAIN a.hours.times[a.day]
  <2>1. a.hours.times[a.day] \in Seq(Interval)
    BY <1>5, <1>9, TimesAssumption DEF TimesAssumption
  <2>2. a.hours.times[a.day] # <<>>
    BY <1>2, <1>1, <1>9 DEF AskOK
  <2> QED BY <2>1, <2>2
<1>12. a.slots = UNION {Fit(a, j) : j \in 1 .. 1 - 1}
  BY <1>10
<1>13. /\ ask' \in Asked /\ AskOK(ask') /\ ask'.at = "scan"
       /\ ask'.hours = a.hours /\ ask'.day = a.day /\ ask'.seen = a.seen
       /\ ask'.answers = a.answers /\ ask'.free = a.free /\ ask'.clash = a.clash
  BY <1>1, <1>2, <1>5, <1>8, <1>9, <1>10, <1>11, <1>12, EnteredRange
<1>14. ~ask'.clash => Known(ask'.hours, ask'.day, ask'.seen, ask'.free)
  BY <1>1, <1>2, <1>6, <1>7, <1>9, <1>13 DEF WitnessOK, Known
<1>15. WitnessOK(ask', live, blocks)
  BY <1>2, <1>9, <1>13, <1>14 DEF WitnessOK
<1> QED BY <1>1, <1>13, <1>15, RestInv

LEMMA PassBusyInv ==
  ASSUME TimesInv, NEW b \in Intervals, PassBusy(b) PROVE TimesInv'
<1> DEFINE r == OpeningOf(ask, ask.range)
           c == Clipped(b, r)
           next == Past(ask.cursor, c.to)
           slots == WithWindow(c.from)
           dur == Duration[ask.item]
           fitting == FitsIn(r, dur, Covered(ask.seen))
<1>1. /\ ask # Nobody /\ ask.at = "scan" /\ b \in ask.todo /\ \A o \in ask.todo : b.from <= o.from
      /\ ask' = [ask EXCEPT !.slots = slots, !.cursor = next, !.todo = ask.todo \ {b}] /\ Rest
  BY DEF PassBusy, At, Rest, Opening, OpeningOf
<1>2. ask \in Asked /\ AskOK(ask) /\ WitnessOK(ask, live, blocks)
  BY <1>1 DEF TimesInv, TimesTypeOK
<1>3. ScanOK(ask) /\ ask.day \in Days /\ Accepted(ask.hours) /\ dur > 0
  BY <1>1, <1>2, DayAsked DEF AskOK
<1>4. /\ ask.hours \in HoursInputs /\ ask.seen \in SUBSET Intervals /\ ask.cursor \in Int
      /\ dur \in Int /\ ask.todo \in SUBSET Intervals /\ ask.slots \subseteq Int
  BY <1>2, AskedFields
<1>5. Charted(r)
  BY <1>3, <1>4, OpeningCharted DEF ScanOK, OpeningOf
<1>6. ScanAt(r, ask.seen, ask.todo, ask.cursor)
  BY <1>3 DEF ScanOK
<1>7. /\ c.from \in Int /\ next \in Int /\ ask.cursor <= next
      /\ ScanAt(r, ask.seen, ask.todo \ {b}, next)
      /\ \A s \in Int : s \in fitting /\ ask.cursor <= s /\ s < next
            <=> ask.cursor < c.from /\ s \in ask.cursor .. c.from - dur /\ (s - ask.cursor) % dur = 0
  <2>1. b \in ask.todo /\ \A o \in ask.todo : b.from <= o.from
    BY <1>1
  <2>2. dur \in Int /\ dur > 0
    BY <1>3, <1>4
  <2> HIDE DEF r, dur
  <2>3. Passed(r, ask.seen, ask.todo, b, ask.cursor, dur, Clipped(b, r), Past(ask.cursor, Clipped(b, r).to))
    BY <1>4, <1>5, <1>6, <2>1, <2>2, PassedBusy
  <2> QED BY <2>3 DEF Passed
<1>8. /\ slots \subseteq Int
      /\ \A s \in Int : s \in slots <=> s \in ask.slots \/ /\ ask.cursor < c.from
                                                           /\ s \in ask.cursor .. c.from - dur
                                                           /\ (s - ask.cursor) % dur = 0
                                                           /\ Late(ask.read, ask.day, s)
  BY <1>2, <1>3, <1>7, WindowAdds
<1>9. fitting \subseteq Int
  BY <1>4, <1>5 DEF FitsIn, Charted, Proper, Interval
<1>10. Fit(ask, ask.range) = {s \in fitting : Late(ask.read, ask.day, s)}
  BY DEF Fit
<1> HIDE DEF r, c, next, slots, dur, fitting
<1>11. slots = ask.slots \cup {s \in Fit(ask, ask.range) : ask.cursor <= s /\ s < next}
  BY <1>4, <1>7, <1>8, <1>9, <1>10
<1>12. ask' \in Asked
  BY <1>1, <1>2, <1>4, <1>7, <1>8 DEF Asked
<1>13. /\ ask'.slots = slots /\ ask'.cursor = next /\ ask'.todo = ask.todo \ {b}
       /\ ask'.at = "scan" /\ ask'.hours = ask.hours /\ ask'.day = ask.day /\ ask'.item = ask.item
       /\ ask'.seen = ask.seen /\ ask'.read = ask.read /\ ask'.range = ask.range /\ ask'.last = ask.last
       /\ ask'.answers = ask.answers /\ ask'.free = ask.free /\ ask'.clash = ask.clash
  BY <1>1, <1>2 DEF Asked
<1>14. Gathered(ask') = (UNION {Fit(ask, k) : k \in 1 .. ask.range - 1}) \cup {s \in Fit(ask, ask.range) : s < next}
  <2>1. \A k : Fit(ask', k) = Fit(ask, k)
    BY <1>13, FitSame
  <2>2. \A n : {Fit(ask', k) : k \in 1 .. n} = {Fit(ask, k) : k \in 1 .. n}
    BY <2>1
  <2>3. UNION {Fit(ask', k) : k \in 1 .. ask.range - 1} = UNION {Fit(ask, k) : k \in 1 .. ask.range - 1}
    BY <2>2
  <2>4. {s \in Fit(ask', ask.range) : s < next} = {s \in Fit(ask, ask.range) : s < next}
    BY <2>1
  <2> QED BY <1>13, <2>3, <2>4 DEF Gathered
<1>15. Fit(ask, ask.range) \subseteq Int
  BY <1>9, <1>10
<1>16. {s \in Fit(ask, ask.range) : s < next} =
          {s \in Fit(ask, ask.range) : s < ask.cursor} \cup
          {s \in Fit(ask, ask.range) : ask.cursor <= s /\ s < next}
  BY <1>4, <1>7, <1>15
<1>17. slots = Gathered(ask')
  BY <1>3, <1>11, <1>14, <1>16 DEF ScanOK, Gathered
<1>18. OpeningOf(ask', ask.range) = r
  BY <1>13, FitSame DEF r
<1>19. ScanOK(ask')
  BY <1>3, <1>7, <1>13, <1>17, <1>18 DEF ScanOK
<1>20. AskOK(ask')
  BY <1>1, <1>2, <1>13, <1>19 DEF AskOK
<1>21. WitnessOK(ask', live, blocks)
  BY <1>1, <1>2, <1>13 DEF WitnessOK
<1> QED BY <1>1, <1>12, <1>20, <1>21, RestInv

\* Behind the last busy range the whole range has been gathered.
LEMMA RangeGathered ==
  ASSUME ask \in Asked, AskOK(ask), ask.at = "scan", ask.todo = {},
         NEW r, r = OpeningOf(ask, ask.range), Charted(r)
  PROVE  /\ WithWindow(r.to) \subseteq Int
         /\ WithWindow(r.to) = UNION {Fit(ask, j) : j \in 1 .. ask.range}
<1> DEFINE slots == WithWindow(r.to)
           dur == Duration[ask.item]
           fitting == FitsIn(r, dur, Covered(ask.seen))
           before == UNION {Fit(ask, j) : j \in 1 .. ask.range - 1}
<1>1. ScanOK(ask) /\ dur > 0
  BY DEF AskOK
<1>2. /\ ask.seen \in SUBSET Intervals /\ ask.cursor \in Int /\ dur \in Int
      /\ ask.hours \in HoursInputs /\ ask.range \in Nat
  BY AskedFields
<1>3. r.to \in Int /\ r.from \in Int
  BY DEF Charted, Proper, Interval
<1>4. ScanAt(r, ask.seen, {}, ask.cursor)
  BY <1>1 DEF ScanOK
<1>5. \A s \in Int : s \in fitting /\ ask.cursor <= s
         <=> ask.cursor < r.to /\ s \in ask.cursor .. r.to - dur /\ (s - ask.cursor) % dur = 0
  BY <1>1, <1>2, <1>4, RangeEnded
<1>6. /\ slots \subseteq Int
      /\ \A s \in Int : s \in slots <=> s \in ask.slots \/ /\ ask.cursor < r.to
                                                           /\ s \in ask.cursor .. r.to - dur
                                                           /\ (s - ask.cursor) % dur = 0
                                                           /\ Late(ask.read, ask.day, s)
  BY <1>1, <1>3, WindowAdds
<1>7. fitting \subseteq Int
  BY <1>2, <1>3 DEF FitsIn
<1>8. Fit(ask, ask.range) = {s \in fitting : Late(ask.read, ask.day, s)}
  BY DEF Fit
<1>9. ask.slots = before \cup {s \in Fit(ask, ask.range) : s < ask.cursor} /\ ask.slots \subseteq Int
  BY <1>1, AskedFields DEF ScanOK, Gathered
<1>10. ask.range \in 1 .. ask.range
  <2>1. ask.range \in DOMAIN ask.hours.times[ask.day] /\ ask.day \in Days
    BY <1>1, DayAsked DEF ScanOK
  <2>2. ask.hours.times[ask.day] \in Seq(Interval)
    BY <1>2, <2>1, TimesAssumption DEF TimesAssumption
  <2> QED BY <1>2, <2>1, <2>2
<1>11. UNION {Fit(ask, j) : j \in 1 .. ask.range} = before \cup Fit(ask, ask.range)
  <2>1. 1 .. ask.range = (1 .. ask.range - 1) \cup {ask.range}
    BY <1>2, <1>10
  <2>2. {Fit(ask, j) : j \in 1 .. ask.range} = {Fit(ask, j) : j \in 1 .. ask.range - 1} \cup {Fit(ask, ask.range)}
    <3> HIDE DEF fitting
    <3> QED BY <2>1
  <2> QED BY <2>2
<1> HIDE DEF slots, fitting, before, dur
<1>12. \A s \in Int : s \in slots <=> s \in before \cup Fit(ask, ask.range)
  BY <1>2, <1>5, <1>6, <1>8, <1>9
<1>13. before \subseteq Int /\ Fit(ask, ask.range) \subseteq Int
  BY <1>7, <1>8, <1>9
<1>14. slots = before \cup Fit(ask, ask.range)
  BY <1>6, <1>12, <1>13
<1> QED BY <1>6, <1>11, <1>14 DEF slots

LEMMA EndRangeInv ==
  ASSUME TimesInv, EndRange PROVE TimesInv'
<1> DEFINE r == OpeningOf(ask, ask.range)
           slots == WithWindow(r.to)
           t == ask.hours.times[ask.day]
           a == [ask EXCEPT !.slots = slots]
<1>1. /\ ask # Nobody /\ ask.at = "scan" /\ ask.todo = {} /\ Rest
      /\ ask' = IF ask.range < Len(t) THEN EnterRange(a, ask.range + 1)
                                      ELSE Answered(ask.seen, slots, ask.read)
  BY DEF EndRange, At, Rest, Opening, OpeningOf
<1>2. ask \in Asked /\ AskOK(ask) /\ WitnessOK(ask, live, blocks)
  BY <1>1 DEF TimesInv, TimesTypeOK
<1>3. ScanOK(ask) /\ ask.day \in Days /\ Accepted(ask.hours) /\ ask.day <= ask.last
  BY <1>1, <1>2, DayAsked DEF AskOK
<1>4. ask.hours \in HoursInputs /\ ask.seen \in SUBSET Intervals /\ ask.read \in Int /\ ask.range \in Nat
  BY <1>2, AskedFields
<1>5. t \in Seq(Interval) /\ ask.range \in DOMAIN t
  BY <1>3, <1>4, TimesAssumption DEF TimesAssumption, ScanOK
<1>6. Charted(r)
  BY <1>3, <1>4, OpeningCharted DEF ScanOK, OpeningOf
<1>7. slots \in SUBSET Int /\ slots = UNION {Fit(ask, j) : j \in 1 .. ask.range}
  BY <1>1, <1>2, <1>6, RangeGathered
<1>8. ~ask.clash => Known(ask.hours, ask.day, ask.seen, ask.free)
  BY <1>1, <1>2 DEF WitnessOK
<1>9. DOMAIN t = 1 .. Len(t) /\ Len(t) \in Nat
  BY <1>5
<1> HIDE DEF slots, r
<1>10. CASE ask.range < Len(t)
  <2>1. a \in Asked
    BY <1>2, <1>7 DEF Asked
  <2>2. /\ a.hours = ask.hours /\ a.day = ask.day /\ a.item = ask.item /\ a.seen = ask.seen
        /\ a.read = ask.read /\ a.last = ask.last /\ a.answers = ask.answers
        /\ a.slots = slots /\ a.free = ask.free /\ a.clash = ask.clash
    BY <1>2 DEF Asked
  <2> DEFINE k == ask.range + 1
  <2>3. ask' = EnterRange(a, k)
    BY <1>1, <1>10
  <2> HIDE DEF a
  <2>4. k \in DOMAIN a.hours.times[a.day] /\ k - 1 = ask.range
    BY <1>4, <1>9, <1>10, <2>2
  <2>5. a.slots = UNION {Fit(a, j) : j \in 1 .. k - 1}
    <3>1. \A j : Fit(a, j) = Fit(ask, j)
      BY <2>2, FitSame
    <3>2. {Fit(a, j) : j \in 1 .. k - 1} = {Fit(ask, j) : j \in 1 .. ask.range}
      BY <2>4, <3>1
    <3> QED BY <1>7, <2>2, <3>2
  <2> HIDE DEF k
  <2>6. /\ ask' \in Asked /\ AskOK(ask') /\ ask'.at = "scan"
        /\ ask'.hours = a.hours /\ ask'.day = a.day /\ ask'.seen = a.seen
        /\ ask'.answers = a.answers /\ ask'.free = a.free /\ ask'.clash = a.clash
    BY <1>2, <1>3, <2>1, <2>2, <2>3, <2>4, <2>5, EnteredRange
  <2>7. WitnessOK(ask', live, blocks)
    BY <1>1, <1>2, <2>2, <2>6 DEF WitnessOK
  <2> QED BY <1>1, <2>6, <2>7, RestInv
<1>11. CASE ~(ask.range < Len(t))
  <2> DEFINE x == [day |-> ask.day, busy |-> ask.seen, slots |-> slots, read |-> ask.read]
             dur == Duration[ask.item]
             fitting == {FitsIn(q, dur, Covered(ask.seen)) : q \in RangesOf(ask.hours, ask.day)}
  <2>1. ask.range = Len(t)
    BY <1>4, <1>5, <1>9, <1>11
  <2>2. \A s : s \in slots <=> \E j \in DOMAIN t : s \in Fit(ask, j)
    BY <1>7, <1>9, <2>1
  <2>3. \A s : s \in UNION fitting <=> \E j \in DOMAIN t : s \in FitsIn(OpeningOf(ask, j), dur, Covered(ask.seen))
    BY DEF RangesOf, OpeningOf
  <2>4. \A s, j : s \in Fit(ask, j) <=> /\ s \in FitsIn(OpeningOf(ask, j), dur, Covered(ask.seen))
                                        /\ Late(ask.read, ask.day, s)
    BY DEF Fit
  <2>5. slots = {s \in UNION fitting : Late(ask.read, ask.day, s)}
    <3> HIDE DEF fitting, dur
    <3> QED BY <2>2, <2>3, <2>4
  <2>6. Exactly(ask.hours, Duration[ask.item], x)
    BY <2>5 DEF Exactly
  <2>7. ask' = Answered(ask.seen, slots, ask.read)
    BY <1>1, <1>11
  <2> QED BY <1>1, <1>4, <1>7, <1>8, <2>6, <2>7, AnsweredInv
<1> QED BY <1>10, <1>11

LEMMA LeaveInv ==
  ASSUME TimesInv, Leave PROVE TimesInv'
BY DEF TimesInv, TimesTypeOK, Leave

\* What changes neither the agenda nor the question.
LEMMA ElsewhereInv ==
  ASSUME TimesInv, UNCHANGED <<live, blocks, ask>>,
         openingHours' \in HoursInputs, Accepted(openingHours'), bookable' \subseteq Items,
         now' \in Minutes, changes' \in 0 .. MaxChanges
  PROVE  TimesInv'
BY DEF TimesInv, TimesTypeOK

LEMMA TimesStarts ==
  ASSUME TimesInit PROVE TimesInv
<1>1. 0 \in Minutes
  <2>1. 0 \in Days
    BY TimesAssumption DEF TimesAssumption, Days
  <2>2. 0 * DayLength = 0 /\ (0 + 1) * DayLength = DayLength /\ DayLength > 0 /\ DayLength \in Nat
    BY TimesAssumption DEF TimesAssumption
  <2>3. DayLength <= (LastDay + 1) * DayLength /\ (LastDay + 1) * DayLength \in Nat
    BY <2>1, <2>2, DayFollows
  <2> QED BY <2>2, <2>3 DEF Minutes
<1>2. 0 \in 0 .. MaxChanges
  BY TimesAssumption DEF TimesAssumption
<1> QED BY <1>1, <1>2 DEF TimesInit, TimesInv, TimesTypeOK

LEMMA TimesInductive ==
  ASSUME TimesInv, [TimesNext]_timesVars PROVE TimesInv'
<1> USE DEF TimesNext
<1>0. /\ openingHours \in HoursInputs /\ Accepted(openingHours) /\ bookable \subseteq Items
      /\ live \in SUBSET Intervals /\ blocks \in SUBSET Intervals /\ now \in Minutes /\ changes \in 0 .. MaxChanges
  BY DEF TimesInv, TimesTypeOK
<1>1. changes < MaxChanges => changes + 1 \in 0 .. MaxChanges
  BY <1>0, TimesAssumption DEF TimesAssumption
<1>2. CASE \E h \in HoursInputs : EditHours(h)
  BY <1>0, <1>1, <1>2, ElsewhereInv DEF EditHours
<1>3. ASSUME NEW i \in Intervals, BookInterval(i) \/ CancelInterval(i) \/ Block(i) \/ Unblock(i)
      PROVE  TimesInv'
  <2>1. CASE BookInterval(i)
    <3>1. live \cup {i} \in SUBSET Intervals
      BY <1>0
    <3> QED BY <1>0, <2>1, <3>1, AgendaInv DEF BookInterval
  <2>2. CASE CancelInterval(i)
    <3>1. live \ {i} \in SUBSET Intervals
      BY <1>0
    <3> QED BY <1>0, <2>2, <3>1, AgendaInv DEF CancelInterval
  <2>3. CASE Block(i)
    <3>1. blocks \cup {i} \in SUBSET Intervals
      BY <1>0
    <3> QED BY <1>0, <2>3, <3>1, AgendaInv DEF Block
  <2>4. CASE Unblock(i)
    <3>1. blocks \ {i} \in SUBSET Intervals
      BY <1>0
    <3> QED BY <1>0, <2>4, <3>1, AgendaInv DEF Unblock
  <2> QED BY <1>3, <2>1, <2>2, <2>3, <2>4
<1>4. ASSUME NEW i \in Intervals, NEW j \in Intervals, Reschedule(i, j)
      PROVE  TimesInv'
  <2>1. (live \ {i}) \cup {j} \in SUBSET Intervals
    BY <1>0
  <2> QED BY <1>0, <1>4, <2>1, AgendaInv DEF Reschedule
<1>5. ASSUME NEW i \in Items, Withdraw(i)
      PROVE  TimesInv'
  <2>1. bookable' \subseteq Items
    BY <1>0, <1>5 DEF Withdraw
  <2> QED BY <1>0, <1>1, <1>5, <2>1, ElsewhereInv DEF Withdraw
<1>6. ASSUME NEW t \in Clock, Tick(t)
      PROVE  TimesInv'
  <2>1. t \in Minutes
    BY TimesAssumption DEF TimesAssumption
  <2> QED BY <1>0, <1>6, <2>1, ElsewhereInv DEF Tick
<1>7. ASSUME NEW i \in Items, NEW d \in Days, AskClient(i, d) \/ AskProfessional(i, d)
      PROVE  TimesInv'
  <2>1. d \in Nat /\ ProDays \in Nat \ {0}
    BY TimesAssumption DEF TimesAssumption, Days
  <2>2. CASE AskClient(i, d)
    BY <2>1, <2>2, AskInv DEF AskClient
  <2>3. CASE AskProfessional(i, d)
    <3> DEFINE last == d + ProDays - 1
    <3>1. last \in Days /\ d <= last /\ Ask(i, d, last)
      BY <2>1, <2>3 DEF AskProfessional
    <3> HIDE DEF last
    <3> QED BY <3>1, AskInv
  <2> QED BY <1>7, <2>2, <2>3
<1>8. CASE ReadClosedDay \/ ReadAppointments \/ ReadBlocks
  BY <1>8, ReadClosedDayInv, ReadAppointmentsInv, ReadBlocksInv
<1>9. ASSUME NEW b \in Intervals, PassBusy(b)
      PROVE  TimesInv'
  BY <1>9, PassBusyInv
<1>10. CASE EndRange \/ Leave
  BY <1>10, EndRangeInv, LeaveInv
<1>11. CASE UNCHANGED timesVars
  BY <1>0, <1>11, ElsewhereInv DEF timesVars
<1> QED BY <1>2, <1>3, <1>4, <1>5, <1>6, <1>7, <1>8, <1>9, <1>10, <1>11

\* The handler that answers, the hours, the agenda and the clock keep their
\* types, and the hours in the database are always ones that were validated.
THEOREM TimesTyped == TimesSpec => [](TimesTypeOK /\ Accepted(openingHours))
<1>1. TimesInit => TimesInv
  BY TimesStarts
<1>2. TimesInv /\ [TimesNext]_timesVars => TimesInv'
  BY TimesInductive
<1>3. TimesInv => TimesTypeOK /\ Accepted(openingHours)
  BY DEF TimesInv
<1> QED BY <1>1, <1>2, <1>3, PTL DEF TimesSpec

LEMMA OffersFollow ==
  TimesInv => OffersAreWhatFits
<1> SUFFICES ASSUME TimesInv, ask # Nobody, NEW a \in ask.answers
             PROVE  Exactly(ask.hours, Duration[ask.item], a)
  BY DEF OffersAreWhatFits, Exactly, FitsIn, Late
<1> QED BY DEF TimesInv, AskOK

LEMMA FreeFollow ==
  TimesInv => OfferedMinutesWereFree
<1> SUFFICES ASSUME TimesInv, ask # Nobody, ~ask.clash, NEW a \in ask.answers, NEW s \in a.slots,
                    NEW m \in s .. s + Duration[ask.item] - 1
             PROVE  m \in ask.free
  BY DEF OfferedMinutesWereFree
<1> DEFINE dur == Duration[ask.item]
<1>1. ask \in Asked /\ AskOK(ask) /\ WitnessOK(ask, live, blocks)
  BY DEF TimesInv, TimesTypeOK
<1>2. /\ a \in DayAnswer /\ a.day \in Days /\ ask.hours \in HoursInputs /\ Accepted(ask.hours)
      /\ dur \in Int
  BY <1>1, AskedFields DEF AskOK, DayAnswer
<1>3. Exactly(ask.hours, dur, a) /\ Known(ask.hours, a.day, a.busy, ask.free)
  BY <1>1 DEF AskOK, WitnessOK
<1>4. PICK r \in RangesOf(ask.hours, a.day) : s \in FitsIn(r, dur, Covered(a.busy))
  BY <1>3 DEF Exactly
<1>5. Charted(r)
  BY <1>2, OpeningCharted DEF RangesOf
<1>6. r.from \in Int /\ r.to \in Int
  BY <1>5 DEF Charted, Proper, Interval
<1>7. s \in r.from .. r.to - dur /\ m \in s .. s + dur - 1 /\ m \notin Covered(a.busy)
  BY <1>4 DEF FitsIn, Fits
<1>8. m \in r.from .. r.to - 1
  BY <1>2, <1>6, <1>7
<1>9. m \in Minutes
  BY <1>5, <1>6, <1>8 DEF Charted
<1>10. InHours(ask.hours, a.day, m)
  BY <1>8 DEF InHours
<1> QED BY <1>3, <1>7, <1>9, <1>10 DEF Known

\* The answer a customer or the professional reads for a day is exactly what
\* fits the opening hours around the busy ranges the handler saw, whatever
\* their number and however they overlap each other, the opening range or
\* midnight: the loop with the cursor (get-available-times) loses no slot
\* and invents none.
THEOREM OffersExact == TimesSpec => []OffersAreWhatFits
<1>1. TimesInit => TimesInv
  BY TimesStarts
<1>2. TimesInv /\ [TimesNext]_timesVars => TimesInv'
  BY TimesInductive
<1> QED BY <1>1, <1>2, OffersFollow, PTL DEF TimesSpec

\* Appointments and blocks are read in two queries, with bookings, blocks and
\* cancellations between them: still every minute of an offered slot was free
\* at some moment since the question was asked, unless an appointment and a
\* block lay on the same minute meanwhile.
THEOREM OfferedWereFree == TimesSpec => []OfferedMinutesWereFree
<1>1. TimesInit => TimesInv
  BY TimesStarts
<1>2. TimesInv /\ [TimesNext]_timesVars => TimesInv'
  BY TimesInductive
<1> QED BY <1>1, <1>2, FreeFollow, PTL DEF TimesSpec
=============================================================================
