------------------------ MODULE Subscriptions_proofs ------------------------
(***************************************************************************)
(* Four properties of Subscriptions, for any number of workers, rows,      *)
(* events and repeated deliveries; none is inductive.                      *)
(*                                                                         *)
(* NoFreeRide: a business without a live row is switched on for a moment   *)
(* between the two writes of an expiration; Safe says what a handler knows *)
(* then.  OneSubscription: a handler that runs alone writes the live row   *)
(* it found, or a new one where there was none (Single).                   *)
(* SweepOnlyExpired: what a sweep found is still so when no row was        *)
(* written since (SweepKnows).  InSync: the store passes from phase to     *)
(* phase, one per event, and the tables follow it while the events are     *)
(* handled in order (InOrder).                                             *)
(***************************************************************************)
EXTENDS Subscriptions, FiniteSetTheorems, TLAPS

\* A handler at work holds its event.
HoldsEvent == \A w \in Worker : Busy(w) => run[w].ev # {}

\* One that believes to be alone is alone.
AloneIsAlone ==
  \A w, v \in Worker : Busy(w) /\ Busy(v) /\ run[w].alone => v = w

\* What it is about to claim of the business is true of the row it wrote.
ClaimIsTrue ==
  \A w \in Worker :
    run[w].pc = "business" /\ run[w].on /\ run[w].alone => LiveRows # {}

\* A business without a live row is switched on only while a handler is on its
\* way to switch it off, or to spoil it.
DebtIsDue ==
  active /\ LiveRows = {} =>
    torn \/ \E w \in Worker : run[w].pc = "business" /\ ~ (run[w].on /\ run[w].alone)

-----------------------------------------------------------------------------
(* The handlers' operators.                                                *)

\* The event a handler reads is one of the store's.
LEMMA KeptType ==
  ASSUME TypeOK, HoldsEvent, NEW w \in Worker, Busy(w)
  PROVE  Kept(w) \in Event
BY DEF TypeOK, HoldsEvent, Kept, Run

\* What a handler writes is a row.
LEMMA WrittenType ==
  ASSUME TypeOK, NEW e \in Event, NEW s \in SubRow, NEW c \in BOOLEAN
  PROVE  Written(e, s, c) \in SubRow
<1>1. e.kind \in Kind /\ e.end \in Nat
  BY DEF Event
<1>2. \A st \in Live \cup {"CANCELED", "NONE"}, p, f \in BOOLEAN, n \in Nat :
        [status |-> st, paid |-> p, end |-> n, cancel |-> f] \in SubRow
  BY DEF SubRow
<1>3. /\ s.status \in Live \cup {"CANCELED", "NONE"}
      /\ s.paid \in BOOLEAN
      /\ s = [status |-> s.status, paid |-> s.paid, end |-> s.end, cancel |-> s.cancel]
  BY DEF SubRow
<1> QED
  BY <1>1, <1>2, <1>3 DEF Written, Bought, Changed, Renewed, BoughtOnce, Resumed, Expired, EndsLater,
         PastDue, Kind, Buying, Ending, ExpireNow, Live, SubRow

\* A handler that switches the business on has made its row live, and one that
\* leaves the business alone keeps a live row live.
LEMMA WrittenLive ==
  ASSUME NEW e \in Event, NEW s \in SubRow, NEW c \in BOOLEAN
  PROVE  /\ SwitchesOn(e) => Written(e, s, c).status \in Live
         /\ ~ Switches(e) /\ s.status \in Live => Written(e, s, c).status \in Live
<1>1. e.kind \in Kind
  BY DEF Event
<1> QED
  BY <1>1 DEF Written, Bought, Changed, Renewed, BoughtOnce, Resumed, Expired, EndsLater,
         PastDue, Switches, SwitchesOn, Kind, Buying, Ending, ExpireNow, Live, SubRow

-----------------------------------------------------------------------------
(* Types.                                                                  *)

TypedInv == TypeOK /\ HoldsEvent

LEMMA TypedInit == Init => TypedInv
<1> SUFFICES ASSUME Init PROVE TypedInv
  OBVIOUS
<1>0. /\ 0 \in 0 .. MaxEvents /\ 0 \in 0 .. MaxRepeats /\ 0 \in 0 .. Horizon
      /\ Trial \in Nat
  BY NumberAssumption
<1>1. PICK r \in Row : sub = [[s \in Row |-> NoRow] EXCEPT ![r] =
             [status |-> "ACTIVE", paid |-> FALSE, end |-> Trial, cancel |-> TRUE]]
  BY DEF Init
<1>2. sub \in [Row -> SubRow]
  BY <1>0, <1>1 DEF SubRow, NoRow, Live
<1>3. run \in [Worker -> Run]
  BY DEF Init, Idle, Run
<1>4. TypeOK
  BY <1>0, <1>2, <1>3 DEF Init, TypeOK
<1>5. HoldsEvent
  BY DEF Init, HoldsEvent, Busy, Idle
<1> QED
  BY <1>4, <1>5 DEF TypedInv

\* The handler a worker starts, and what the others learn of it.
LEMMA JoinedType ==
  ASSUME TypeOK, NEW w \in Worker, NEW r \in Run
  PROVE  Joined(w, r) \in [Worker -> Run]
<1> SUFFICES ASSUME NEW v \in Worker
             PROVE  (IF v = w THEN r
                     ELSE IF Busy(v) THEN [run[v] EXCEPT !.alone = FALSE] ELSE run[v]) \in Run
  BY DEF Joined
<1>1. run[v] \in Run
  BY DEF TypeOK
<1>2. [run[v] EXCEPT !.alone = FALSE] \in Run
  BY <1>1 DEF Run
<1> QED
  BY <1>1, <1>2

\* The store sends well-formed events.
LEMMA SendType ==
  ASSUME TypeOK, NEW k \in Kind, NEW n \in Nat, NEW t \in BOOLEAN, Send(k, n, t)
  PROVE  sent' \in 0 .. MaxEvents /\ sky' \subseteq Event
<1>1. sent + 1 \in Id /\ sent' \in 0 .. MaxEvents
  BY NumberAssumption DEF TypeOK, Send, Id
<1>2. [no |-> sent + 1, kind |-> k, end |-> n, trial |-> t] \in Event
  BY <1>1 DEF Event
<1> QED
  BY <1>1, <1>2 DEF Send, TypeOK

LEMMA TypedStore == TypedInv /\ Store => TypedInv'
<1> SUFFICES ASSUME TypedInv, Store PROVE TypedInv'
  OBVIOUS
<1>1. now \in Nat /\ now + Period \in Nat /\ store.end \in Nat
  BY NumberAssumption DEF TypedInv, TypeOK
<1>2. \E k \in Kind, n \in Nat, t \in BOOLEAN : Send(k, n, t)
  <2>1. CASE Buy
    BY <2>1, <1>1, IntroAssumption DEF Buy, Kind, Buying
  <2>2. CASE Change \/ Renew \/ BuyOnce
    BY <2>2, <1>1 DEF Change, Renew, BuyOnce, Kind, Buying
  <2>3. CASE TurnOff \/ TurnOn \/ Issue \/ Expire \/ Refund
    BY <2>3, <1>1 DEF TurnOff, TurnOn, Issue, Expire, Refund, Kind, Ending
  <2> QED
    BY <2>1, <2>2, <2>3 DEF Store
<1>3. sent' \in 0 .. MaxEvents /\ sky' \subseteq Event
  BY <1>2, SendType DEF TypedInv
<1>4. store' \in [on : {"never", "on", "off", "over"}, end : Nat]
  <2>1. store \in [on : {"never", "on", "off", "over"}, end : Nat]
    BY DEF TypedInv, TypeOK
  <2>2. \/ store' = store
        \/ \E o \in {"never", "on", "off", "over"}, n \in Nat : Becomes(o, n)
    BY <1>1 DEF Store, Buy, Change, TurnOff, TurnOn, Renew, Issue, Expire, Refund, BuyOnce
  <2> QED
    BY <2>1, <2>2 DEF Becomes
<1>5. next' \in Nat
  <2>1. next \in Nat
    BY DEF TypedInv, TypeOK
  <2>2. next' = 0 \/ next' = next
    BY DEF Store, BuyOnce
  <2> QED
    BY <2>1, <2>2
<1> QED
  BY <1>3, <1>4, <1>5 DEF TypedInv, TypeOK, HoldsEvent, Store, local, Busy

\* The handler that begins.
LEMMA BegunType ==
  ASSUME NEW e \in Event, NEW c \in SUBSET Row, NEW f \in BOOLEAN
  PROVE  /\ Begun(e, c, f) \in Run
         /\ Begun(e, c, f).pc = "row" /\ Begun(e, c, f).ev = {e}
<1>1. Quiet \in BOOLEAN
  BY DEF Quiet
<1> QED
  BY <1>1 DEF Begun, Run

LEMMA TypedTake ==
  ASSUME TypedInv, NEW w \in Worker, Take(w)
  PROVE  TypedInv'
<1>1. PICK e \in sky :
        /\ \/ sky' = sky \ {e} /\ UNCHANGED repeats
           \/ repeats < MaxRepeats /\ repeats' = repeats + 1 /\ UNCHANGED sky
        /\ next' = IF e.no = next /\ e \notin sky' /\ Quiet THEN next + 1 ELSE 0
        /\ \/ run' = run
           \/ \E c \in SUBSET Row, f \in BOOLEAN : run' = Joined(w, Begun(e, c, f))
  <2>1. \A r \in Row : sub[r].cancel \in BOOLEAN
    BY DEF TypedInv, TypeOK, SubRow
  <2>2. \A e \in sky : Findable(e.kind) \subseteq Row
    BY DEF Findable, Stopped, LiveRows
  <2> QED
    BY <2>1, <2>2 DEF Take
<1>2. e \in Event /\ run \in [Worker -> Run]
  BY DEF TypedInv, TypeOK
<1>3. run' \in [Worker -> Run] /\ HoldsEvent'
  <2>1. CASE run' = run
    BY <2>1, <1>2 DEF TypedInv, HoldsEvent, Busy
  <2>2. CASE \E c \in SUBSET Row, f \in BOOLEAN : run' = Joined(w, Begun(e, c, f))
    <3>1. PICK c \in SUBSET Row, f \in BOOLEAN : run' = Joined(w, Begun(e, c, f))
      BY <2>2
    <3>2. /\ Begun(e, c, f) \in Run
          /\ Begun(e, c, f).pc = "row" /\ Begun(e, c, f).ev = {e}
      BY <1>2, BegunType
    <3>3. run' \in [Worker -> Run]
      BY <3>1, <3>2, JoinedType DEF TypedInv
    <3>4. HoldsEvent'
      BY <1>2, <3>1, <3>2 DEF TypedInv, HoldsEvent, Joined, Busy, Run
    <3> QED
      BY <3>3, <3>4
  <2> QED
    BY <1>1, <2>1, <2>2
<1>4. repeats' \in 0 .. MaxRepeats /\ next' \in Nat /\ sky' \subseteq Event
  BY <1>1, NumberAssumption DEF TypedInv, TypeOK
<1> QED
  BY <1>3, <1>4 DEF TypedInv, TypeOK, Take

\* What WriteRow does to the handler that executes it.
LEMMA WriteRowRun ==
  ASSUME TypedInv, NEW w \in Worker, WriteRow(w)
  PROVE  /\ Kept(w) \in Event
         /\ run' = [run EXCEPT ![w] =
              IF Switches(Kept(w))
              THEN [run[w] EXCEPT !.pc = "business", !.on = SwitchesOn(Kept(w))] ELSE Idle]
         /\ \E r \in Row :
              /\ sub' = [sub EXCEPT ![r] = Written(Kept(w), sub[r], run[w].cancel)]
              /\ doubled' \in BOOLEAN
         /\ run[w].cancel \in BOOLEAN
         /\ Busy(w)
<1>1. Busy(w)
  BY DEF WriteRow, Busy
<1>2. run[w] \in Run /\ doubled \in BOOLEAN
  BY DEF TypedInv, TypeOK
<1> QED
  BY <1>1, <1>2, KeptType DEF WriteRow, TypedInv, Run

LEMMA TypedWriteRow ==
  ASSUME TypedInv, NEW w \in Worker, WriteRow(w)
  PROVE  TypedInv'
<1>1. PICK r \in Row :
        /\ sub' = [sub EXCEPT ![r] = Written(Kept(w), sub[r], run[w].cancel)]
        /\ doubled' \in BOOLEAN
  BY WriteRowRun
<1>2. /\ Kept(w) \in Event /\ run[w].cancel \in BOOLEAN /\ Busy(w)
      /\ run' = [run EXCEPT ![w] =
           IF Switches(Kept(w))
           THEN [run[w] EXCEPT !.pc = "business", !.on = SwitchesOn(Kept(w))] ELSE Idle]
  BY WriteRowRun
<1>3. sub \in [Row -> SubRow] /\ run \in [Worker -> Run]
  BY DEF TypedInv, TypeOK
<1>4. sub' \in [Row -> SubRow]
  <2>1. Written(Kept(w), sub[r], run[w].cancel) \in SubRow
    BY <1>2, <1>3, WrittenType DEF TypedInv
  <2> QED
    BY <2>1, <1>1, <1>3
<1>5. run' \in [Worker -> Run]
  <2>1. \A b \in BOOLEAN : [run[w] EXCEPT !.pc = "business", !.on = b] \in Run
    BY <1>3 DEF Run
  <2>2. SwitchesOn(Kept(w)) \in BOOLEAN
    BY DEF SwitchesOn
  <2>3. Idle \in Run
    BY DEF Idle, Run
  <2> QED
    BY <2>1, <2>2, <2>3, <1>2, <1>3
<1>6. HoldsEvent'
  <2> SUFFICES ASSUME NEW v \in Worker, run'[v].pc # "idle" PROVE run'[v].ev # {}
    BY DEF HoldsEvent, Busy
  <2>1. \A b \in BOOLEAN : [run[w] EXCEPT !.pc = "business", !.on = b].ev = run[w].ev
    BY <1>3 DEF Run
  <2>2. SwitchesOn(Kept(w)) \in BOOLEAN
    BY DEF SwitchesOn
  <2>3. run[w].ev # {}
    BY <1>2 DEF TypedInv, HoldsEvent
  <2>4. CASE v = w
    BY <2>1, <2>2, <2>3, <2>4, <1>2, <1>3 DEF Idle
  <2>5. CASE v # w
    BY <2>5, <1>2, <1>3 DEF TypedInv, HoldsEvent, Busy
  <2> QED
    BY <2>4, <2>5
<1>7. sweep' \in [pc : {"idle", "found"}, dirty : BOOLEAN]
  BY DEF TypedInv, TypeOK, WriteRow
<1> QED
  BY <1>1, <1>4, <1>5, <1>6, <1>7 DEF TypedInv, TypeOK, WriteRow

\* A handler ends: with its second write, by an error or with its process.
LEMMA TypedEnd ==
  ASSUME TypedInv, NEW w \in Worker, WriteBusiness(w) \/ Fail(w) \/ Crash(w)
  PROVE  TypedInv'
<1>1. run' = [run EXCEPT ![w] = Idle] /\ run \in [Worker -> Run]
  BY DEF WriteBusiness, Fail, Crash, TypedInv, TypeOK
<1>2. Idle \in Run
  BY DEF Idle, Run
<1>3. run' \in [Worker -> Run]
  BY <1>1, <1>2
<1>4. HoldsEvent'
  BY <1>1 DEF TypedInv, HoldsEvent, Busy, Idle
<1>5. run[w] \in Run
  BY <1>1
<1>6. active' \in BOOLEAN /\ torn' \in BOOLEAN /\ next' \in Nat
  <2>1. active \in BOOLEAN /\ run[w].on \in BOOLEAN
    BY <1>5 DEF TypedInv, TypeOK, Run
  <2>2. active' \in BOOLEAN
    BY <2>1 DEF WriteBusiness, Fail, Crash
  <2>3. torn' \in BOOLEAN
    <3>1. (~ run[w].alone) \in BOOLEAN /\ (torn \/ run[w].pc = "business") \in BOOLEAN
      OBVIOUS
    <3> QED
      BY <3>1 DEF WriteBusiness, Fail, Crash
  <2>4. next \in Nat
    BY DEF TypedInv, TypeOK
  <2> QED
    BY <2>2, <2>3, <2>4 DEF WriteBusiness, Fail, Crash
<1>7. sky' \subseteq Event /\ repeats' \in 0 .. MaxRepeats
  BY <1>5, NumberAssumption DEF WriteBusiness, Fail, Crash, TypedInv, TypeOK, Run
<1> QED
  BY <1>3, <1>4, <1>6, <1>7 DEF TypedInv, TypeOK, WriteBusiness, Fail, Crash

LEMMA TypedOthers == TypedInv /\ (Lose \/ Tick \/ SweepFind \/ SweepWrite) => TypedInv'
<1> SUFFICES ASSUME TypedInv, Lose \/ Tick \/ SweepFind \/ SweepWrite PROVE TypedInv'
  OBVIOUS
<1>1. HoldsEvent'
  BY DEF TypedInv, HoldsEvent, Busy, Lose, Tick, SweepFind, SweepWrite, local
<1>2. CASE Lose
  BY <1>2, <1>1 DEF Lose, TypedInv, TypeOK, local
<1>3. CASE Tick
  BY <1>3, <1>1, NumberAssumption DEF Tick, TypedInv, TypeOK, local
<1>4. CASE SweepFind
  BY <1>4, <1>1 DEF SweepFind, TypedInv, TypeOK
<1>5. CASE SweepWrite
  BY <1>5, <1>1 DEF SweepWrite, TypedInv, TypeOK
<1> QED
  BY <1>2, <1>3, <1>4, <1>5

LEMMA TypedStep == TypedInv /\ [Next]_vars => TypedInv'
<1> SUFFICES ASSUME TypedInv, [Next]_vars PROVE TypedInv'
  OBVIOUS
<1>1. CASE Store
  BY <1>1, TypedStore
<1>2. CASE Lose \/ Tick \/ SweepFind \/ SweepWrite
  BY <1>2, TypedOthers
<1>3. CASE \E w \in Worker : Take(w)
  BY <1>3, TypedTake
<1>4. CASE \E w \in Worker : WriteRow(w)
  BY <1>4, TypedWriteRow
<1>5. CASE \E w \in Worker : WriteBusiness(w) \/ Fail(w) \/ Crash(w)
  BY <1>5, TypedEnd
<1>6. CASE UNCHANGED vars
  BY <1>6 DEF vars, TypedInv, TypeOK, HoldsEvent, Busy
<1> QED
  BY <1>1, <1>2, <1>3, <1>4, <1>5, <1>6 DEF Next

\* The variables keep their types: whatever the store sends and the network does
\* with it, the tables hold rows and a handler at work holds one of the events.
THEOREM TypeCorrect == Spec => []TypeOK
<1>1. Spec => []TypedInv
  BY TypedInit, TypedStep, PTL DEF Spec
<1>2. TypedInv => TypeOK
  BY DEF TypedInv
<1> QED
  BY <1>1, <1>2, PTL

-----------------------------------------------------------------------------
(* No free ride.                                                           *)

Safe == AloneIsAlone /\ ClaimIsTrue /\ DebtIsDue

LEMMA SafeInit == Init => Safe
<1> SUFFICES ASSUME Init PROVE Safe
  OBVIOUS
<1>1. \E r \in Row : sub[r].status = "ACTIVE"
  BY DEF Init
<1>2. LiveRows # {}
  BY <1>1 DEF LiveRows, Live
<1>3. \A w \in Worker : run[w].pc = "idle"
  BY DEF Init, Idle
<1> QED
  BY <1>2, <1>3 DEF Safe, AloneIsAlone, ClaimIsTrue, DebtIsDue, Busy

\* A handler begins; those at work learn of it.
LEMMA SafeTake ==
  ASSUME TypedInv, Safe, NEW w \in Worker, Take(w)
  PROVE  Safe'
<1>1. UNCHANGED <<sub, active, torn>> /\ ~ Busy(w)
  BY DEF Take
<1>2. LiveRows' = LiveRows
  BY <1>1 DEF LiveRows
<1>3. CASE run' = run
  BY <1>1, <1>2, <1>3 DEF Safe, AloneIsAlone, ClaimIsTrue, DebtIsDue, Busy
<1>4. CASE \E e \in sky, c \in SUBSET Row, f \in BOOLEAN : run' = Joined(w, Begun(e, c, f))
  <2>1. PICK r : run' = Joined(w, r) /\ r.pc = "row" /\ (r.alone <=> Quiet)
    <3>1. PICK e, c, f : run' = Joined(w, Begun(e, c, f))
      BY <1>4
    <3>2. Begun(e, c, f).pc = "row" /\ Begun(e, c, f).alone = Quiet
      BY DEF Begun
    <3> QED
      BY <3>1, <3>2
  <2>2. run'[w].pc = "row" /\ (run'[w].alone <=> Quiet)
    BY <2>1 DEF Joined
  <2>3. \A v \in Worker \ {w} :
          /\ Busy(v) => ~ run'[v].alone /\ run'[v].pc = run[v].pc /\ run'[v].on = run[v].on
          /\ ~ Busy(v) => run'[v] = run[v]
    <3>1. run \in [Worker -> Run]
      BY DEF TypedInv, TypeOK
    <3> QED
      BY <2>1, <3>1 DEF Joined, Busy, Run
  <2>4. AloneIsAlone'
    BY <2>2, <2>3 DEF AloneIsAlone, Busy, Quiet
  <2>5. ClaimIsTrue'
    BY <1>2, <2>2, <2>3 DEF ClaimIsTrue, Busy
  <2>6. DebtIsDue'
    BY <1>1, <1>2, <2>3 DEF Safe, DebtIsDue, Busy
  <2> QED
    BY <2>4, <2>5, <2>6 DEF Safe
<1>5. \/ run' = run
      \/ \E e \in sky, c \in SUBSET Row, f \in BOOLEAN : run' = Joined(w, Begun(e, c, f))
  <2>1. \A r \in Row : sub[r].cancel \in BOOLEAN
    BY DEF TypedInv, TypeOK, SubRow
  <2>2. \A e \in sky : Findable(e.kind) \subseteq Row
    BY DEF Findable, Stopped, LiveRows
  <2> QED
    BY <2>1, <2>2 DEF Take
<1> QED
  BY <1>3, <1>4, <1>5

\* A handler writes its row: what it will then claim is true, and if no live
\* row is left it is going to say so.
LEMMA SafeWriteRow ==
  ASSUME TypedInv, Safe, NEW w \in Worker, WriteRow(w)
  PROVE  Safe'
<1> DEFINE e == Kept(w)
<1>1. PICK r \in Row : sub' = [sub EXCEPT ![r] = Written(e, sub[r], run[w].cancel)]
  BY WriteRowRun
<1>2. /\ e \in Event /\ run[w].cancel \in BOOLEAN /\ Busy(w) /\ run[w].pc = "row"
      /\ run' = [run EXCEPT ![w] =
           IF Switches(e) THEN [run[w] EXCEPT !.pc = "business", !.on = SwitchesOn(e)]
           ELSE Idle]
      /\ active' = active /\ torn' = torn
  BY WriteRowRun DEF WriteRow
<1>3. sub \in [Row -> SubRow] /\ run \in [Worker -> Run]
  BY DEF TypedInv, TypeOK
<1>4. /\ SwitchesOn(e) => Written(e, sub[r], run[w].cancel).status \in Live
      /\ ~ Switches(e) /\ sub[r].status \in Live
           => Written(e, sub[r], run[w].cancel).status \in Live
  BY <1>2, <1>3, WrittenLive
<1> HIDE DEF e
<1>5. SwitchesOn(e) => r \in LiveRows'
  BY <1>1, <1>3, <1>4 DEF LiveRows
<1>6. ~ Switches(e) => LiveRows \subseteq LiveRows'
  BY <1>1, <1>3, <1>4 DEF LiveRows
<1>7. SwitchesOn(e) \in BOOLEAN
  BY DEF SwitchesOn
<1>8. CASE Switches(e)
  <2>1. /\ run'[w].pc = "business" /\ (run'[w].on <=> SwitchesOn(e))
        /\ run'[w].alone = run[w].alone
    <3>1. \A b \in BOOLEAN :
            LET n == [run[w] EXCEPT !.pc = "business", !.on = b]
            IN  n.pc = "business" /\ n.on = b /\ n.alone = run[w].alone
      BY <1>3 DEF Run
    <3> QED
      BY <3>1, <1>2, <1>3, <1>7, <1>8
  <2>2. \A v \in Worker \ {w} : run'[v] = run[v]
    BY <1>2, <1>3
  <2>3. AloneIsAlone'
    BY <1>2, <2>1, <2>2 DEF Safe, AloneIsAlone, Busy
  <2>4. ClaimIsTrue'
    <3> SUFFICES ASSUME NEW v \in Worker, run'[v].pc = "business", run'[v].on, run'[v].alone
                 PROVE  LiveRows' # {}
      BY DEF ClaimIsTrue
    <3>1. v = w
      BY <1>2, <2>2 DEF Safe, AloneIsAlone, Busy
    <3> QED
      BY <3>1, <2>1, <1>5
  <2>5. DebtIsDue'
    BY <2>1, <1>5 DEF DebtIsDue
  <2> QED
    BY <2>3, <2>4, <2>5 DEF Safe
<1>9. CASE ~ Switches(e)
  <2>1. run' = [run EXCEPT ![w] = Idle]
    BY <1>2, <1>9
  <2>2. run'[w].pc = "idle" /\ \A v \in Worker \ {w} : run'[v] = run[v]
    BY <2>1, <1>3 DEF Idle
  <2>3. AloneIsAlone'
    BY <2>2 DEF Safe, AloneIsAlone, Busy
  <2>4. ClaimIsTrue'
    BY <2>2, <1>6, <1>9 DEF Safe, ClaimIsTrue
  <2>5. DebtIsDue'
    BY <2>2, <1>2, <1>6, <1>9 DEF Safe, DebtIsDue
  <2> QED
    BY <2>3, <2>4, <2>5 DEF Safe
<1> QED
  BY <1>8, <1>9

\* A handler ends.  Alone it tells the truth; otherwise the business is torn.
LEMMA SafeEnd ==
  ASSUME TypedInv, Safe, NEW w \in Worker, WriteBusiness(w) \/ Fail(w) \/ Crash(w)
  PROVE  Safe'
<1>1. /\ run' = [run EXCEPT ![w] = Idle] /\ run \in [Worker -> Run] /\ sub' = sub
  BY DEF WriteBusiness, Fail, Crash, TypedInv, TypeOK
<1>2. run'[w].pc = "idle" /\ \A v \in Worker \ {w} : run'[v] = run[v]
  BY <1>1 DEF Idle
<1>3. LiveRows' = LiveRows
  BY <1>1 DEF LiveRows
<1>4. AloneIsAlone'
  BY <1>2 DEF Safe, AloneIsAlone, Busy
<1>5. ClaimIsTrue'
  BY <1>2, <1>3 DEF Safe, ClaimIsTrue
<1>6. DebtIsDue'
  <2>1. CASE WriteBusiness(w)
    <3>1. run[w].pc = "business" /\ active' = run[w].on /\ (torn' <=> ~ run[w].alone)
      BY <2>1 DEF WriteBusiness
    <3> QED
      BY <3>1, <1>3 DEF Safe, ClaimIsTrue, DebtIsDue
  <2>2. CASE Fail(w) \/ Crash(w)
    <3>1. active' = active /\ (torn' <=> torn \/ run[w].pc = "business")
      BY <2>2 DEF Fail, Crash
    <3> QED
      BY <3>1, <1>2, <1>3 DEF Safe, DebtIsDue
  <2> QED
    BY <2>1, <2>2
<1> QED
  BY <1>4, <1>5, <1>6 DEF Safe

LEMMA SafeStep == TypedInv /\ Safe /\ [Next]_vars => Safe'
<1> SUFFICES ASSUME TypedInv, Safe, [Next]_vars PROVE Safe'
  OBVIOUS
<1>1. CASE Store \/ Lose \/ Tick \/ SweepFind \/ SweepWrite \/ UNCHANGED vars
  <2>1. run' = run /\ sub' = sub /\ torn' = torn /\ (active' = active \/ active' = FALSE)
    BY <1>1 DEF Store, Lose, Tick, SweepFind, SweepWrite, local, vars
  <2>2. LiveRows' = LiveRows
    BY <2>1 DEF LiveRows
  <2> QED
    BY <2>1, <2>2 DEF Safe, AloneIsAlone, ClaimIsTrue, DebtIsDue, Busy
<1>2. CASE \E w \in Worker : Take(w)
  BY <1>2, SafeTake
<1>3. CASE \E w \in Worker : WriteRow(w)
  BY <1>3, SafeWriteRow
<1>4. CASE \E w \in Worker : WriteBusiness(w) \/ Fail(w) \/ Crash(w)
  BY <1>4, SafeEnd
<1> QED
  BY <1>1, <1>2, <1>3, <1>4 DEF Next

\* With no handler at work, a business that is switched on has a live
\* subscription, unless two handlers overlapped or one stopped between its two
\* writes: for any number of instances, events, rows and repeated deliveries.
THEOREM NoFreeRideTheorem == Spec => []NoFreeRide
<1>1. Spec => [](TypedInv /\ Safe)
  <2>1. Init => TypedInv /\ Safe
    BY TypedInit, SafeInit
  <2>2. TypedInv /\ Safe /\ [Next]_vars => (TypedInv /\ Safe)'
    BY TypedStep, SafeStep
  <2> QED
    BY <2>1, <2>2, PTL DEF Spec
<1>2. TypedInv /\ Safe => NoFreeRide
  BY DEF Safe, DebtIsDue, NoFreeRide, Quiet, Busy
<1> QED
  BY <1>1, <1>2, PTL
-----------------------------------------------------------------------------
(* The shapes of the handlers' steps, for the proofs below.                *)

\* A message is taken: nothing to do, or a handler begins with the row it found.
LEMMA TakeShape ==
  ASSUME TypedInv, NEW w \in Worker, Take(w)
  PROVE  \E e \in sky :
           /\ e \in Event
           /\ next' = IF e.no = next /\ e \notin sky' /\ Quiet THEN next + 1 ELSE 0
           /\ \/ /\ run' = run
                 /\ Findable(e.kind) = {}
                 /\ e.kind \notin Buying \cup {"NON_RENEWING_PURCHASE"}
              \/ \E row \in SUBSET Row, c \in BOOLEAN :
                   /\ run' = Joined(w, Begun(e, row, c))
                   /\ \/ \E r \in Findable(e.kind) : row = {r}
                      \/ /\ row = {} /\ Findable(e.kind) = {}
                         /\ e.kind \in Buying \cup {"NON_RENEWING_PURCHASE"}
<1>1. \A r \in Row : sub[r].cancel \in BOOLEAN
  BY DEF TypedInv, TypeOK, SubRow
<1>2. \A e \in sky : Findable(e.kind) \subseteq Row /\ e \in Event
  BY DEF Findable, Stopped, LiveRows, TypedInv, TypeOK
<1>3. PICK e \in sky :
        /\ next' = IF e.no = next /\ e \notin sky' /\ Quiet THEN next + 1 ELSE 0
        /\ IF Findable(e.kind) # {}
           THEN \E r \in Findable(e.kind) :
                  run' = Joined(w, Begun(e, {r}, sub[r].cancel))
           ELSE run' = IF e.kind \in Buying \cup {"NON_RENEWING_PURCHASE"}
                       THEN Joined(w, Begun(e, {}, FALSE)) ELSE run
  BY DEF Take
<1>4. CASE Findable(e.kind) # {}
  <2>1. PICK r \in Findable(e.kind) : run' = Joined(w, Begun(e, {r}, sub[r].cancel))
    BY <1>3, <1>4
  <2>2. {r} \in SUBSET Row /\ sub[r].cancel \in BOOLEAN
    BY <1>1, <1>2
  <2> QED
    BY <1>2, <1>3, <2>1, <2>2
<1>5. CASE Findable(e.kind) = {}
  <2>1. {} \in SUBSET Row /\ FALSE \in BOOLEAN
    OBVIOUS
  <2> QED
    BY <1>2, <1>3, <1>5, <2>1
<1> QED
  BY <1>4, <1>5

\* What the others keep when a handler begins.
LEMMA JoinedShape ==
  ASSUME TypedInv, NEW w \in Worker, NEW b, ~ Busy(w), run' = Joined(w, b)
  PROVE  /\ run'[w] = b
         /\ \A v \in Worker \ {w} :
              /\ Busy(v) => /\ ~ run'[v].alone
                            /\ run'[v].pc = run[v].pc /\ run'[v].ev = run[v].ev
                            /\ run'[v].row = run[v].row /\ run'[v].on = run[v].on
              /\ ~ Busy(v) => run'[v] = run[v]
<1>1. run \in [Worker -> Run]
  BY DEF TypedInv, TypeOK
<1> QED
  BY <1>1 DEF Joined, Busy, Run

\* The row is written: the handler goes on to the business or ends.
LEMMA WriteRowShape ==
  ASSUME TypedInv, NEW w \in Worker, WriteRow(w)
  PROVE  /\ Kept(w) \in Event /\ run[w].cancel \in BOOLEAN
         /\ \A v \in Worker \ {w} : run'[v] = run[v]
         /\ Switches(Kept(w)) => /\ run'[w].pc = "business"
                                 /\ run'[w].ev = run[w].ev /\ run'[w].alone = run[w].alone
                                 /\ run'[w].on = SwitchesOn(Kept(w))
         /\ ~ Switches(Kept(w)) => run'[w].pc = "idle"
<1>1. /\ Kept(w) \in Event /\ run[w].cancel \in BOOLEAN
      /\ run' = [run EXCEPT ![w] =
           IF Switches(Kept(w))
           THEN [run[w] EXCEPT !.pc = "business", !.on = SwitchesOn(Kept(w))] ELSE Idle]
  BY WriteRowRun
<1>2. run \in [Worker -> Run]
  BY DEF TypedInv, TypeOK
<1>3. SwitchesOn(Kept(w)) \in BOOLEAN
  BY DEF SwitchesOn
<1>4. \A b \in BOOLEAN :
        /\ [run[w] EXCEPT !.pc = "business", !.on = b].pc = "business"
        /\ [run[w] EXCEPT !.pc = "business", !.on = b].on = b
        /\ [run[w] EXCEPT !.pc = "business", !.on = b].ev = run[w].ev
        /\ [run[w] EXCEPT !.pc = "business", !.on = b].alone = run[w].alone
  BY <1>2 DEF Run
<1> QED
  BY <1>1, <1>2, <1>3, <1>4 DEF Idle

-----------------------------------------------------------------------------
(* One live subscription.  A handler that runs alone writes the live row   *)
(* it found, or a new row when it found that there is none.                *)

AtMostOneLive == doubled \/ \A r, s \in LiveRows : r = s

FoundIsLive ==
  \A w \in Worker :
    /\ run[w].pc = "row" /\ run[w].alone
    /\ Kept(w).kind \notin {"NON_RENEWING_PURCHASE", "UNCANCELLATION"}
    => run[w].row \subseteq LiveRows /\ (run[w].row = {} => LiveRows = {})

Single == AtMostOneLive /\ FoundIsLive

LEMMA SingleInit == Init => Single
<1> SUFFICES ASSUME Init PROVE Single
  OBVIOUS
<1>1. PICK r \in Row : sub = [[s \in Row |-> NoRow] EXCEPT ![r] =
             [status |-> "ACTIVE", paid |-> FALSE, end |-> Trial, cancel |-> TRUE]]
  BY DEF Init
<1>2. LiveRows \subseteq {r}
  BY <1>1 DEF LiveRows, Live, NoRow
<1>3. \A w \in Worker : run[w].pc = "idle"
  BY DEF Init, Idle
<1> QED
  BY <1>2, <1>3 DEF Single, AtMostOneLive, FoundIsLive

LEMMA SingleTake ==
  ASSUME TypedInv, Safe, Single, NEW w \in Worker, Take(w)
  PROVE  Single'
<1>1. UNCHANGED <<sub, doubled>> /\ ~ Busy(w)
  BY DEF Take
<1>2. LiveRows' = LiveRows
  BY <1>1 DEF LiveRows
<1>3. AtMostOneLive'
  BY <1>1, <1>2 DEF Single, AtMostOneLive
<1>4. CASE run' = run
  BY <1>2, <1>3, <1>4 DEF Single, FoundIsLive, Kept
<1>5. CASE \E e \in Event, row \in SUBSET Row, c \in BOOLEAN :
             /\ run' = Joined(w, Begun(e, row, c))
             /\ \/ \E r \in Findable(e.kind) : row = {r}
                \/ row = {} /\ Findable(e.kind) = {}
  <2>1. PICK e \in Event, row \in SUBSET Row, c \in BOOLEAN :
             /\ run' = Joined(w, Begun(e, row, c))
             /\ \/ \E r \in Findable(e.kind) : row = {r}
                \/ row = {} /\ Findable(e.kind) = {}
    BY <1>5
  <2>2. /\ run'[w] = Begun(e, row, c)
        /\ \A v \in Worker \ {w} : Busy(v) => ~ run'[v].alone
        /\ \A v \in Worker \ {w} : ~ Busy(v) => run'[v] = run[v]
    BY <1>1, <2>1, JoinedShape
  <2>3. Kept(w)' = e /\ run'[w].row = row
    BY <2>2 DEF Kept, Begun
  <2>4. FoundIsLive'
    <3> SUFFICES ASSUME NEW v \in Worker, run'[v].pc = "row", run'[v].alone,
                        Kept(v)'.kind \notin {"NON_RENEWING_PURCHASE", "UNCANCELLATION"}
                 PROVE  run'[v].row \subseteq LiveRows' /\ (run'[v].row = {} => LiveRows' = {})
      BY DEF FoundIsLive
    <3>1. v = w
      BY <2>2 DEF Busy
    <3> QED
      BY <3>1, <2>1, <2>3, <1>2 DEF Findable
  <2> QED
    BY <1>3, <2>4 DEF Single
<1> QED
  BY <1>4, <1>5, TakeShape

LEMMA SingleWriteRow ==
  ASSUME TypedInv, Safe, Single, NEW w \in Worker, WriteRow(w)
  PROVE  Single'
<1> DEFINE e == Kept(w)
<1>1. PICK r \in IF run[w].row # {} THEN run[w].row ELSE {s \in Row : sub[s].status = "NONE"} :
        /\ sub' = [sub EXCEPT ![r] = Written(e, sub[r], run[w].cancel)]
        /\ doubled' = (doubled \/ (/\ e.kind \in {"NON_RENEWING_PURCHASE", "UNCANCELLATION"}
                                   /\ LiveRows # {})
                               \/ ~ run[w].alone)
  BY DEF WriteRow
<1>2. /\ run[w].pc = "row" /\ Busy(w)
      /\ \A v \in Worker \ {w} : run'[v] = run[v]
      /\ run'[w].pc \in {"business", "idle"}
  BY WriteRowShape DEF WriteRow, Busy
<1> HIDE DEF e
<1>3. LiveRows' \subseteq LiveRows \cup {r}
  BY <1>1 DEF LiveRows, TypedInv, TypeOK
<1>4. AtMostOneLive'
  <2> SUFFICES ASSUME ~ doubled', NEW s \in LiveRows', NEW t \in LiveRows' PROVE s = t
    BY DEF AtMostOneLive
  <2>1. /\ ~ doubled /\ run[w].alone
        /\ e.kind \in {"NON_RENEWING_PURCHASE", "UNCANCELLATION"} => LiveRows = {}
    BY <1>1
  <2>2. LiveRows = {} \/ r \in LiveRows
    BY <1>1, <1>2, <2>1 DEF Single, FoundIsLive, e
  <2>3. \A p, q \in LiveRows : p = q
    BY <2>1 DEF Single, AtMostOneLive
  <2> QED
    BY <1>3, <2>2, <2>3
<1>5. FoundIsLive'
  <2> SUFFICES ASSUME NEW v \in Worker, run'[v].pc = "row", run'[v].alone PROVE FALSE
    BY DEF FoundIsLive
  <2>1. v # w /\ run'[v] = run[v]
    BY <1>2
  <2>2. Busy(v)
    BY <2>1 DEF Busy
  <2> QED
    BY <1>2, <2>1, <2>2 DEF Safe, AloneIsAlone
<1> QED
  BY <1>4, <1>5 DEF Single

LEMMA SingleStep == TypedInv /\ Safe /\ Single /\ [Next]_vars => Single'
<1> SUFFICES ASSUME TypedInv, Safe, Single, [Next]_vars PROVE Single'
  OBVIOUS
<1>1. CASE Store \/ Lose \/ Tick \/ SweepFind \/ SweepWrite \/ UNCHANGED vars
  <2>1. UNCHANGED <<run, sub, doubled>>
    BY <1>1 DEF Store, Lose, Tick, SweepFind, SweepWrite, local, vars
  <2> QED
    BY <2>1 DEF Single, AtMostOneLive, FoundIsLive, LiveRows, Kept
<1>2. CASE \E w \in Worker : Take(w)
  BY <1>2, SingleTake
<1>3. CASE \E w \in Worker : WriteRow(w)
  BY <1>3, SingleWriteRow
<1>4. CASE \E w \in Worker : WriteBusiness(w) \/ Fail(w) \/ Crash(w)
  <2>1. PICK w \in Worker : WriteBusiness(w) \/ Fail(w) \/ Crash(w)
    BY <1>4
  <2>2. /\ run' = [run EXCEPT ![w] = Idle] /\ run \in [Worker -> Run]
        /\ UNCHANGED <<sub, doubled>>
    BY <2>1 DEF WriteBusiness, Fail, Crash, TypedInv, TypeOK
  <2>3. run'[w].pc = "idle" /\ \A v \in Worker \ {w} : run'[v] = run[v]
    BY <2>2 DEF Idle
  <2>4. LiveRows' = LiveRows /\ \A v \in Worker \ {w} : Kept(v)' = Kept(v)
    BY <2>2, <2>3 DEF LiveRows, Kept
  <2> QED
    BY <2>2, <2>3, <2>4 DEF Single, AtMostOneLive, FoundIsLive
<1> QED
  BY <1>1, <1>2, <1>3, <1>4 DEF Next

\* A business has one live subscription, however many instances handle its
\* events, unless an event that may double it was handled or handlers overlapped.
THEOREM OneSubscriptionTheorem == Spec => []OneSubscription
<1>1. Spec => [](TypedInv /\ Safe /\ Single)
  <2>1. Init => TypedInv /\ Safe /\ Single
    BY TypedInit, SafeInit, SingleInit
  <2>2. TypedInv /\ Safe /\ Single /\ [Next]_vars => (TypedInv /\ Safe /\ Single)'
    BY TypedStep, SafeStep, SingleStep
  <2> QED
    BY <2>1, <2>2, PTL DEF Spec
<1>2. Single => OneSubscription
  <2> SUFFICES ASSUME Single, ~ doubled PROVE ~ (Cardinality(LiveRows) > 1)
    BY DEF OneSubscription
  <2>1. \A r, s \in LiveRows : r = s
    BY DEF Single, AtMostOneLive
  <2>2. CASE LiveRows = {}
    BY <2>2, FS_EmptySet
  <2>3. CASE LiveRows # {}
    <3>1. PICK r : LiveRows = {r}
      BY <2>1, <2>3
    <3>2. Cardinality({r}) = 1
      BY FS_Singleton
    <3>3. Cardinality(LiveRows) = 1
      BY <3>1, <3>2
    <3> QED
      BY <3>3
  <2> QED
    BY <2>2, <2>3
<1> QED
  BY <1>1, <1>2, PTL

-----------------------------------------------------------------------------
(* The sweep.                                                              *)

\* What the sweep found is still so, unless a row was written since.
SweepKnows == sweep.pc = "found" /\ ~ sweep.dirty => \A r \in Row : ~ Ongoing(r)

LEMMA SweepKnowsStep == TypedInv /\ SweepKnows /\ [Next]_vars => SweepKnows'
<1> SUFFICES ASSUME TypedInv, SweepKnows, [Next]_vars PROVE SweepKnows'
  OBVIOUS
<1>0. /\ now \in Nat /\ \A r \in Row : sub[r].end \in Nat
      /\ sweep \in [pc : {"idle", "found"}, dirty : BOOLEAN]
  BY NumberAssumption DEF TypedInv, TypeOK, SubRow
<1>1. CASE UNCHANGED <<now, sub, sweep>>
  BY <1>1 DEF SweepKnows, Ongoing
<1>2. CASE Tick
  <2>1. now' = now + 1 /\ UNCHANGED <<sub, sweep>>
    BY <1>2 DEF Tick, local
  <2>2. \A r \in Row : Ongoing(r)' => Ongoing(r)
    BY <1>0, <2>1 DEF Ongoing
  <2> QED
    BY <2>1, <2>2 DEF SweepKnows
<1>3. CASE SweepFind
  BY <1>3 DEF SweepFind, SweepKnows, ExpiredFree, Ongoing
<1>4. CASE SweepWrite
  BY <1>4 DEF SweepWrite, SweepKnows
<1>5. CASE \E w \in Worker : WriteRow(w)
  <2>1. sweep' = [sweep EXCEPT !.dirty = (sweep.pc = "found")]
    BY <1>5 DEF WriteRow
  <2>2. sweep'.pc = sweep.pc /\ (sweep'.dirty <=> sweep.pc = "found")
    BY <2>1, <1>0
  <2> QED
    BY <2>2 DEF SweepKnows
<1>6. Store \/ Lose \/ (\E w \in Worker : Take(w) \/ WriteBusiness(w) \/ Fail(w) \/ Crash(w))
        \/ UNCHANGED vars => UNCHANGED <<now, sub, sweep>>
  BY DEF Store, Lose, Take, WriteBusiness, Fail, Crash, local, vars
<1> QED
  BY <1>1, <1>2, <1>3, <1>4, <1>5, <1>6 DEF Next

\* The sweep never switches off a business with a running subscription, unless
\* that subscription was written after the sweep had read the business.
THEOREM SweepOnlyExpiredTheorem == Spec => SweepOnlyExpired
<1>1. Spec => [](TypedInv /\ SweepKnows)
  <2>1. Init => SweepKnows
    BY DEF Init, SweepKnows
  <2> QED
    BY <2>1, TypedInit, TypedStep, SweepKnowsStep, PTL DEF Spec
<1>2. TypedInv /\ SweepKnows /\ [Next]_vars =>
        [sweep.pc = "found" /\ active /\ ~ active' /\ (\E r \in Row : Ongoing(r))
           => sweep.dirty]_vars
  <2> SUFFICES ASSUME SweepKnows, [Next]_vars,
                      sweep.pc = "found", active, ~ active', NEW r \in Row, Ongoing(r), ~ sweep.dirty
               PROVE  FALSE
    OBVIOUS
  <2> QED
    BY DEF SweepKnows
<1> QED
  BY <1>1, <1>2, PTL DEF SweepOnlyExpired, Spec
-----------------------------------------------------------------------------
(* In step with the store.  The store passes from phase to phase, one per  *)
(* event.  As long as the events are handled in order the tables reflect   *)
(* the phase after the last event that was handled; a handler between its  *)
(* two writes carries what is_active still lacks.                          *)

Phase == [on : {"never", "on", "off", "over"}, end : Nat]

\* The event e takes the store from the phase p to the phase q.
Follows(p, e, q) ==
  \/ e.kind = "INITIAL_PURCHASE" /\ q.on = "on"
  \/ e.kind \in {"PRODUCT_CHANGE", "RENEWAL", "BILLING_ISSUE"} /\ p.on = "on" /\ q.on = "on"
  \/ e.kind = "UNCANCELLATION" /\ p.on = "off" /\ q.on = "on"
  \/ e.kind = "EXPIRATION" /\ p.on \in {"on", "off"} /\ q.on = "over"
  \/ e.kind = "CANCELLATION" /\ p.on = "on" /\ q.on = "off" /\ q.end = e.end
  \/ e.kind = "CANCELLATION" /\ p.on \in {"on", "off"} /\ q.on = "over" /\ e.end <= now

PaidRow == \E r \in Row : sub[r].status # "NONE" /\ sub[r].paid

\* The rows, and on as the value of is_active, reflect the phase p.
Settled(p, on) ==
  /\ p.on # "never" => PaidRow
  /\ p.on = "on" => on
  /\ p.on = "off" => (on \/ Stopped # {}) /\ (p.end > now + Buffer => on)
  /\ p.on = "over" => ~ on
  /\ on => LiveRows # {}

\* The row a handler is about to write is one that its query returns.
Found(w) ==
  \/ run[w].row = {} /\ Kept(w).kind \in Buying
  \/ \E r \in Findable(Kept(w).kind) : run[w].row = {r}

OneHandler == \A v, w \in Worker : Busy(v) /\ Busy(w) => v = w

InOrderWith(f) ==
  /\ f[sent] = store
  /\ next <= sent + 1
  /\ \A e \in sky : e.no <= sent /\ Follows(f[e.no - 1], e, f[e.no])
  /\ Quiet => Settled(f[next - 1], active)
  /\ \A w \in Worker : run[w].pc = "business" => Settled(f[next - 1], run[w].on)
  /\ \A w \in Worker : run[w].pc = "row" => /\ next >= 2 /\ Settled(f[next - 2], active)
                                            /\ Follows(f[next - 2], Kept(w), f[next - 1])
                                            /\ Found(w)
  /\ OneHandler

InOrder == next # 0 => \E f \in [Nat -> Phase] : InOrderWith(f)

\* A sweep that found no paid row finds none when it writes, or is dirty.
SweepPaid == sweep.pc = "found" /\ ~ sweep.dirty => ~ PaidRow

LEMMA OrderInit == Init => InOrder /\ SweepPaid
<1> SUFFICES ASSUME Init PROVE InOrder /\ SweepPaid
  OBVIOUS
<1>1. SweepPaid
  BY DEF Init, SweepPaid
<1>2. PICK r \in Row : sub[r].status = "ACTIVE"
  BY DEF Init
<1>3. LiveRows # {}
  BY <1>2 DEF LiveRows, Live
<1>4. \A w \in Worker : run[w].pc = "idle"
  BY DEF Init, Idle
<1> DEFINE f == [n \in Nat |-> [on |-> "never", end |-> 0]]
<1>5. f \in [Nat -> Phase]
  BY DEF Phase
<1>6. f[0] = [on |-> "never", end |-> 0]
  OBVIOUS
<1> HIDE DEF f
<1>7. Settled(f[0], active)
  BY <1>3, <1>6 DEF Settled
<1>8. next = 1 /\ next - 1 = 0 /\ sent = 0 /\ sky = {} /\ store = f[0]
  BY <1>6 DEF Init
<1>9. InOrderWith(f)
  BY <1>4, <1>7, <1>8 DEF InOrderWith, OneHandler, Busy
<1> QED
  BY <1>1, <1>5, <1>9 DEF InOrder

\* The store's own steps: the event says where they lead.
LEMMA StoreFollows ==
  ASSUME TypedInv, Store, next' # 0
  PROVE  /\ next' = next /\ sent' = sent + 1
         /\ \E e : /\ sky' = sky \cup {e} /\ e.no = sent + 1
                   /\ Follows(store, e, store')
         /\ UNCHANGED <<now, local>>
<1>0. now \in Nat /\ store.end \in Nat /\ sent \in Nat
  BY NumberAssumption DEF TypedInv, TypeOK
<1>1. /\ Buy \/ Change \/ TurnOff \/ TurnOn \/ Renew \/ Issue \/ Expire \/ Refund
      /\ next' = next /\ UNCHANGED <<now, local>>
  BY DEF Store, BuyOnce
<1> DEFINE E(k, n, t) == [no |-> sent + 1, kind |-> k, end |-> n, trial |-> t]
<1>2. \A k, n, t : E(k, n, t).no = sent + 1 /\ E(k, n, t).kind = k /\ E(k, n, t).end = n
  OBVIOUS
<1>3. \A k, n, t : Send(k, n, t) => sent' = sent + 1 /\ sky' = sky \cup {E(k, n, t)}
  BY DEF Send
<1> HIDE DEF E
<1> SUFFICES \E k, n, t : Send(k, n, t) /\ Follows(store, E(k, n, t), store')
  BY <1>1, <1>2, <1>3
<1>4. CASE Buy
  <2>1. PICK t \in Intro : Send("INITIAL_PURCHASE", now + Period, t) /\ store'.on = "on"
    BY <1>4 DEF Buy, Becomes
  <2>2. Follows(store, E("INITIAL_PURCHASE", now + Period, t), store')
    BY <2>1, <1>0 DEF Follows, E
  <2> QED
    BY <2>1, <2>2
<1>5. CASE Change
  <2>1. Send("PRODUCT_CHANGE", now + Period, FALSE) /\ store.on = "on" /\ store'.on = "on"
    BY <1>5 DEF Change, Becomes
  <2>2. Follows(store, E("PRODUCT_CHANGE", now + Period, FALSE), store')
    BY <2>1, <1>0 DEF Follows, E
  <2> QED
    BY <2>1, <2>2
<1>6. CASE Renew
  <2>1. Send("RENEWAL", now + Period, FALSE) /\ store.on = "on" /\ store'.on = "on"
    BY <1>6 DEF Renew, Becomes
  <2>2. Follows(store, E("RENEWAL", now + Period, FALSE), store')
    BY <2>1, <1>0 DEF Follows, E
  <2> QED
    BY <2>1, <2>2
<1>7. CASE Issue
  <2>1. Send("BILLING_ISSUE", store.end, FALSE) /\ store.on = "on" /\ store'.on = "on"
    BY <1>7 DEF Issue
  <2>2. Follows(store, E("BILLING_ISSUE", store.end, FALSE), store')
    BY <2>1, <1>0 DEF Follows, E
  <2> QED
    BY <2>1, <2>2
<1>8. CASE TurnOff
  <2>1. Send("CANCELLATION", store.end, FALSE) /\ store.on = "on" /\ store'.on = "off" /\ store'.end = store.end
    BY <1>8 DEF TurnOff, Becomes
  <2>2. Follows(store, E("CANCELLATION", store.end, FALSE), store')
    BY <2>1, <1>0 DEF Follows, E
  <2> QED
    BY <2>1, <2>2
<1>9. CASE TurnOn
  <2>1. Send("UNCANCELLATION", store.end, FALSE) /\ store.on = "off" /\ store'.on = "on"
    BY <1>9 DEF TurnOn, Becomes
  <2>2. Follows(store, E("UNCANCELLATION", store.end, FALSE), store')
    BY <2>1, <1>0 DEF Follows, E
  <2> QED
    BY <2>1, <2>2
<1>10. CASE Expire
  <2>1. Send("EXPIRATION", store.end, FALSE) /\ store.on \in {"on", "off"} /\ store'.on = "over"
    BY <1>10 DEF Expire, Becomes
  <2>2. Follows(store, E("EXPIRATION", store.end, FALSE), store')
    BY <2>1, <1>0 DEF Follows, E
  <2> QED
    BY <2>1, <2>2
<1>11. CASE Refund
  <2>1. Send("CANCELLATION", now, FALSE) /\ store.on \in {"on", "off"} /\ store'.on = "over"
    BY <1>11 DEF Refund, Becomes
  <2>2. Follows(store, E("CANCELLATION", now, FALSE), store')
    BY <2>1, <1>0 DEF Follows, E
  <2> QED
    BY <2>1, <2>2
<1> QED
  BY <1>1, <1>4, <1>5, <1>6, <1>7, <1>8, <1>9, <1>10, <1>11

LEMMA OrderStore ==
  ASSUME TypedInv, InOrder, Store
  PROVE  InOrder'
<1> SUFFICES ASSUME next' # 0 PROVE \E f \in [Nat -> Phase] : InOrderWith(f)'
  BY DEF InOrder
<1>1. next' = next /\ sent' = sent + 1 /\ UNCHANGED <<now, sub, active, run>>
  BY StoreFollows DEF local
<1>2. PICK e : sky' = sky \cup {e} /\ e.no = sent + 1 /\ Follows(store, e, store')
  BY StoreFollows
<1>3. PICK f \in [Nat -> Phase] : InOrderWith(f)
  BY <1>1 DEF InOrder
<1>4. /\ sent \in Nat /\ next \in Nat /\ next # 0 /\ next - 1 \in Nat /\ store' \in Phase
      /\ \A d \in sky : d.no \in Nat /\ d.no - 1 \in Nat
  BY <1>1, TypedStore, NumberAssumption DEF TypedInv, TypeOK, Phase, Event, Id
<1>5. PICK g \in [Nat -> Phase] : g[sent + 1] = store' /\ \A n \in Nat : n <= sent => g[n] = f[n]
  <2>1. /\ [f EXCEPT ![sent + 1] = store'] \in [Nat -> Phase]
        /\ [f EXCEPT ![sent + 1] = store'][sent + 1] = store'
        /\ \A n \in Nat : n <= sent => [f EXCEPT ![sent + 1] = store'][n] = f[n]
    BY <1>4
  <2> QED
    BY <2>1
<1>6. g[next - 1] = f[next - 1] /\ (next >= 2 => g[next - 2] = f[next - 2]) /\ g[sent] = store
  BY <1>3, <1>4, <1>5 DEF InOrderWith
<1>8. \A d \in sky' : d.no <= sent' /\ Follows(g[d.no - 1], d, g[d.no])'
  <2> SUFFICES ASSUME NEW d \in sky' PROVE d.no <= sent' /\ Follows(g[d.no - 1], d, g[d.no])'
    OBVIOUS
  <2>1. CASE d = e
    <3>1. d.no - 1 = sent /\ g[d.no - 1] = store /\ g[d.no] = store'
      BY <2>1, <1>2, <1>4, <1>5, <1>6
    <3>2. Follows(store, d, store')
      BY <2>1, <1>2
    <3> QED
      BY <3>1, <3>2, <1>1, <1>2, <1>4, <1>5, <1>6, <2>1 DEF Follows
  <2>2. CASE d \in sky
    <3>1. d.no <= sent /\ Follows(f[d.no - 1], d, f[d.no])
      BY <2>2, <1>3 DEF InOrderWith
    <3>2. g[d.no - 1] = f[d.no - 1] /\ g[d.no] = f[d.no] /\ d.no <= sent'
      BY <2>2, <3>1, <1>1, <1>4, <1>5
    <3> QED
      BY <3>1, <3>2, <1>1 DEF Follows
  <2> QED
    BY <2>1, <2>2, <1>2
<1>9. InOrderWith(g)'
  BY <1>1, <1>3, <1>4, <1>5, <1>6, <1>8
     DEF InOrderWith, Settled, Follows, PaidRow, Stopped, LiveRows, Found, Findable, Kept,
         OneHandler, Busy, Quiet
<1> QED
  BY <1>5, <1>9
-----------------------------------------------------------------------------
\* Time passes: nothing that was settled becomes unsettled.
LEMMA OrderTick ==
  ASSUME TypedInv, InOrder, Tick
  PROVE  InOrder'
<1> SUFFICES ASSUME next' # 0 PROVE \E f \in [Nat -> Phase] : InOrderWith(f)'
  BY DEF InOrder
<1>1. /\ now' = now + 1 /\ now \in Nat /\ Buffer \in Nat /\ next \in Nat /\ sent \in Nat
      /\ UNCHANGED <<store, sent, sky, next, sub, active, run>>
  BY NumberAssumption DEF Tick, local, TypedInv, TypeOK
<1>2. PICK f \in [Nat -> Phase] : InOrderWith(f)
  BY <1>1 DEF InOrder
<1>3. \A e \in sky : Follows(f[e.no - 1], e, f[e.no])'
  <2> SUFFICES ASSUME NEW e \in sky PROVE Follows(f[e.no - 1], e, f[e.no])'
    OBVIOUS
  <2>1. Follows(f[e.no - 1], e, f[e.no]) /\ e.end \in Nat
    BY <1>2 DEF InOrderWith, TypedInv, TypeOK, Event
  <2>2. e.end <= now => e.end <= now'
    BY <2>1, <1>1
  <2> QED
    BY <2>1, <2>2 DEF Follows
<1>4. \A w \in Worker : run[w].pc = "row" => Follows(f[next - 2], Kept(w), f[next - 1])'
  <2> SUFFICES ASSUME NEW w \in Worker, run[w].pc = "row"
               PROVE  Follows(f[next - 2], Kept(w), f[next - 1])'
    OBVIOUS
  <2>1. Follows(f[next - 2], Kept(w), f[next - 1])
    BY <1>2 DEF InOrderWith
  <2>2. Kept(w) \in Event
    BY KeptType DEF TypedInv, Busy
  <2>3. Kept(w).end <= now => Kept(w).end <= now'
    BY <2>2, <1>1 DEF Event
  <2>4. Kept(w)' = Kept(w)
    BY <1>1 DEF Kept
  <2> QED
    BY <2>1, <2>3, <2>4, <1>1 DEF Follows
<1>5. \A n \in Nat : \A on : Settled(f[n], on) => Settled(f[n], on)'
  <2> SUFFICES ASSUME NEW n \in Nat, NEW on, Settled(f[n], on) PROVE Settled(f[n], on)'
    OBVIOUS
  <2>1. f[n].end \in Nat
    BY <1>2 DEF Phase
  <2>2. f[n].end > now' + Buffer => f[n].end > now + Buffer
    BY <2>1, <1>1
  <2> QED
    BY <2>2, <1>1 DEF Settled, PaidRow, Stopped, LiveRows
<1>6. next - 1 \in Nat /\ (next >= 2 => next - 2 \in Nat)
  BY <1>1
<1>7. /\ Quiet => Settled(f[next - 1], active)'
      /\ \A w \in Worker : run[w].pc = "business" => Settled(f[next - 1], run[w].on)'
      /\ \A w \in Worker : run[w].pc = "row" => Settled(f[next - 2], active)'
  <2>1. /\ Quiet => Settled(f[next - 1], active)
        /\ \A w \in Worker : run[w].pc = "business" => Settled(f[next - 1], run[w].on)
        /\ \A w \in Worker : run[w].pc = "row" => next >= 2 /\ Settled(f[next - 2], active)
    BY <1>2 DEF InOrderWith
  <2> QED
    BY <2>1, <1>1, <1>5, <1>6 DEF Settled
<1>8. InOrderWith(f)'
  BY <1>1, <1>2, <1>3, <1>4, <1>7
     DEF InOrderWith, Found, Findable, Stopped, LiveRows, Kept, OneHandler, Busy, Quiet
<1> QED
  BY <1>8

\* An event for which nothing is found changes nothing, and rightly so.
LEMMA NothingToDo ==
  ASSUME NEW p \in Phase, NEW e \in Event, NEW q \in Phase,
         Settled(p, active), Follows(p, e, q), Findable(e.kind) = {}, e.kind \notin Buying
  PROVE  Settled(q, active)
BY DEF Settled, Follows, Findable, Buying

LEMMA OrderTake ==
  ASSUME TypedInv, InOrder, NEW w \in Worker, Take(w)
  PROVE  InOrder'
<1> SUFFICES ASSUME next' # 0 PROVE \E f \in [Nat -> Phase] : InOrderWith(f)'
  BY DEF InOrder
<1>1. /\ UNCHANGED <<now, store, sent, sub, active>> /\ ~ Busy(w) /\ sky' \subseteq sky
      /\ sent \in Nat /\ next \in Nat
  BY NumberAssumption DEF Take, TypedInv, TypeOK
<1>2. PICK e \in sky :
        /\ e \in Event /\ e.no = next /\ Quiet /\ next' = next + 1
        /\ \/ run' = run /\ Findable(e.kind) = {} /\ e.kind \notin Buying
           \/ \E row \in SUBSET Row, c \in BOOLEAN :
                /\ run' = Joined(w, Begun(e, row, c))
                /\ \/ \E r \in Findable(e.kind) : row = {r}
                   \/ row = {} /\ e.kind \in Buying \cup {"NON_RENEWING_PURCHASE"}
  BY TakeShape
<1>3. next # 0 /\ next' - 1 = next /\ next' - 2 = next - 1 /\ next' >= 2 /\ next - 1 \in Nat
  BY <1>1, <1>2 DEF Event, Id
<1>4. PICK f \in [Nat -> Phase] : InOrderWith(f)
  BY <1>3 DEF InOrder
<1>5. /\ Settled(f[next - 1], active) /\ next <= sent
      /\ Follows(f[next - 1], e, f[next]) /\ f[next - 1] \in Phase /\ f[next] \in Phase
  BY <1>1, <1>2, <1>3, <1>4 DEF InOrderWith
<1>6. /\ f[sent'] = store' /\ next' <= sent' + 1
      /\ \A d \in sky' : d.no <= sent' /\ Follows(f[d.no - 1], d, f[d.no])'
  BY <1>1, <1>2, <1>3, <1>4, <1>5 DEF InOrderWith, Follows
<1>7. \A v \in Worker : run[v].pc = "idle"
  BY <1>2 DEF Quiet, Busy
<1>8. CASE run' = run /\ Findable(e.kind) = {} /\ e.kind \notin Buying
  <2>1. Settled(f[next], active)
    BY <1>2, <1>5, <1>8, NothingToDo
  <2>2. Settled(f[next - 1], active)'
    BY <2>1, <1>1, <1>3 DEF Settled, PaidRow, Stopped, LiveRows
  <2> QED
    BY <2>2, <1>6, <1>7, <1>8 DEF InOrderWith, OneHandler, Busy
<1>9. CASE \E row \in SUBSET Row, c \in BOOLEAN :
             /\ run' = Joined(w, Begun(e, row, c))
             /\ \/ \E r \in Findable(e.kind) : row = {r}
                \/ row = {} /\ e.kind \in Buying \cup {"NON_RENEWING_PURCHASE"}
  <2>1. PICK row \in SUBSET Row, c \in BOOLEAN :
             /\ run' = Joined(w, Begun(e, row, c))
             /\ \/ \E r \in Findable(e.kind) : row = {r}
                \/ row = {} /\ e.kind \in Buying \cup {"NON_RENEWING_PURCHASE"}
    BY <1>9
  <2>2. /\ run'[w] = Begun(e, row, c)
        /\ \A v \in Worker \ {w} : run'[v] = run[v]
    BY <1>1, <1>2, <2>1, JoinedShape DEF Quiet
  <2>3. Kept(w)' = e /\ run'[w].row = row /\ run'[w].pc = "row"
    BY <2>2 DEF Kept, Begun
  <2>4. Found(w)'
    <3>1. e.kind # "NON_RENEWING_PURCHASE"
      BY <1>5 DEF Follows
    <3>2. Findable(e.kind)' = Findable(e.kind)
      BY <1>1 DEF Findable, Stopped, LiveRows
    <3>3. \/ run'[w].row = {} /\ e.kind \in Buying
          \/ \E r \in Findable(e.kind)' : run'[w].row = {r}
      BY <2>1, <2>3, <3>1, <3>2
    <3> QED
      BY <3>3, <2>3 DEF Found, Findable, Stopped, LiveRows
  <2>5. Settled(f[next - 2], active)'
    BY <1>1, <1>3, <1>5 DEF Settled, PaidRow, Stopped, LiveRows
  <2>6. Follows(f[next - 2], Kept(w), f[next - 1])'
    BY <1>1, <1>3, <1>5, <2>3 DEF Follows
  <2>7. \A v \in Worker : v # w => run'[v].pc = "idle"
    BY <2>2, <1>7
  <2> QED
    BY <2>3, <2>4, <2>5, <2>6, <2>7, <1>3, <1>6 DEF InOrderWith, OneHandler, Busy, Quiet
<1> QED
  BY <1>2, <1>8, <1>9
-----------------------------------------------------------------------------
\* What a written row is, for the phases.
LEMMA WrittenShape ==
  ASSUME NEW e \in Event, NEW s \in SubRow, NEW c \in BOOLEAN
  PROVE  /\ e.kind \in Buying => Written(e, s, c).paid /\ Written(e, s, c).status \in Live
         /\ e.kind \notin Buying \cup {"NON_RENEWING_PURCHASE"}
              => /\ Written(e, s, c).paid = s.paid
                 /\ s.status # "NONE" => Written(e, s, c).status # "NONE"
         /\ e.kind = "EXPIRATION" \/ ExpireNow(e) => Written(e, s, c).status = "CANCELED"
<1>1. e.kind \in Kind
  BY DEF Event
<1> QED
  BY <1>1 DEF Written, Bought, Changed, Renewed, BoughtOnce, Resumed, Expired, EndsLater,
         PastDue, Kind, Buying, Ending, ExpireNow, Live, SubRow

\* The write of a handler leads from one phase to the next.
LEMMA Landed ==
  ASSUME TypedInv, NEW w \in Worker, WriteRow(w), Found(w),
         NEW p \in Phase, NEW q \in Phase, Settled(p, active), Follows(p, Kept(w), q)
  PROVE  /\ Switches(Kept(w)) => Settled(q, SwitchesOn(Kept(w)))'
         /\ ~ Switches(Kept(w)) => Settled(q, active)'
         /\ PaidRow => PaidRow'
<1>1. PICK e \in Event : e = Kept(w)
  BY WriteRowShape
<1>2. PICK r \in Row :
        /\ sub' = [sub EXCEPT ![r] = Written(e, sub[r], run[w].cancel)]
        /\ run[w].row # {} => r \in run[w].row
  BY <1>1 DEF WriteRow, TypedInv, TypeOK, Run
<1>3. /\ run[w].cancel \in BOOLEAN /\ sub \in [Row -> SubRow] /\ active' = active /\ now' = now
  BY WriteRowShape DEF WriteRow, TypedInv, TypeOK
<1>4. \/ run[w].row = {} /\ e.kind \in Buying
      \/ r \in Findable(e.kind)
  BY <1>1, <1>2 DEF Found
<1>5. /\ e.kind \in Kind /\ e.kind # "NON_RENEWING_PURCHASE"
      /\ Follows(p, e, q)
  BY <1>1 DEF Follows, Event
<1>6. PICK n : n = Written(e, sub[r], run[w].cancel)
  OBVIOUS
<1>7. /\ sub'[r] = n /\ \A s \in Row \ {r} : sub'[s] = sub[s]
  BY <1>2, <1>3, <1>6
<1>8. /\ e.kind \in Buying => n.paid /\ n.status \in Live
      /\ e.kind \notin Buying => /\ n.paid = sub[r].paid
                                 /\ sub[r].status # "NONE" => n.status # "NONE"
      /\ e.kind = "EXPIRATION" \/ ExpireNow(e) => n.status = "CANCELED"
      /\ SwitchesOn(e) => n.status \in Live
      /\ ~ Switches(e) /\ sub[r].status \in Live => n.status \in Live
  BY <1>3, <1>5, <1>6, WrittenShape, WrittenLive
<1>9. /\ SwitchesOn(e) => r \in LiveRows'
      /\ ~ Switches(e) /\ e.kind \notin Buying => r \in LiveRows'
      /\ e.kind = "EXPIRATION" \/ ExpireNow(e) => r \in Stopped'
  <2>1. ~ Switches(e) /\ e.kind \notin Buying => sub[r].status \in Live
    BY <1>4, <1>5 DEF Switches, Findable, LiveRows, Buying
  <2> QED
    BY <1>7, <1>8, <2>1 DEF LiveRows, Stopped
<1>10. PaidRow => PaidRow'
  <2> SUFFICES ASSUME PaidRow PROVE PaidRow'
    OBVIOUS
  <2>1. PICK s \in Row : sub[s].status # "NONE" /\ sub[s].paid
    BY DEF PaidRow
  <2>2. sub'[s].status # "NONE" /\ sub'[s].paid
    BY <1>7, <1>8, <2>1 DEF Live
  <2> QED
    BY <2>2 DEF PaidRow
<1>11. e.kind \in Buying => PaidRow'
  BY <1>7, <1>8 DEF PaidRow, Live
<1>12. PaidRow'
  <2>1. e.kind \in Buying \/ p.on # "never"
    BY <1>5 DEF Follows, Buying
  <2> QED
    BY <2>1, <1>10, <1>11 DEF Settled
<1>13. ASSUME Switches(e) PROVE Settled(q, SwitchesOn(e))'
  <2>1. CASE e.kind = "CANCELLATION"
    <3>1. ExpireNow(e) /\ ~ SwitchesOn(e) /\ e.end <= now + Buffer
      BY <1>13, <2>1 DEF Switches, SwitchesOn, ExpireNow
    <3>2. q.on = "over" \/ (q.on = "off" /\ q.end = e.end)
      BY <1>5, <2>1 DEF Follows
    <3>3. r \in Stopped' /\ ~ (e.end > now' + Buffer)
      BY <1>3, <1>9, <3>1, NumberAssumption DEF Event, TypedInv, TypeOK
    <3>4. SwitchesOn(e)' = SwitchesOn(e)
      BY DEF SwitchesOn
    <3> QED
      BY <1>12, <3>1, <3>2, <3>3, <3>4 DEF Settled
  <2>2. CASE e.kind = "EXPIRATION"
    <3>1. ~ SwitchesOn(e) /\ q.on = "over"
      BY <1>5, <2>2 DEF Follows, SwitchesOn
    <3> QED
      BY <1>12, <3>1 DEF Settled, SwitchesOn
  <2>3. CASE e.kind \notin {"CANCELLATION", "EXPIRATION"}
    <3>1. SwitchesOn(e) /\ q.on = "on" /\ r \in LiveRows'
      BY <1>5, <1>9, <2>3 DEF Follows, SwitchesOn
    <3>2. SwitchesOn(e)'
      BY <3>1 DEF SwitchesOn
    <3> QED
      BY <1>12, <3>1, <3>2 DEF Settled
  <2> QED
    BY <2>1, <2>2, <2>3
<1>14. ASSUME ~ Switches(e) PROVE Settled(q, active)'
  <2>1. e.kind = "BILLING_ISSUE" \/ (e.kind = "CANCELLATION" /\ ~ (e.end <= now + Buffer))
    BY <1>14 DEF Switches, ExpireNow
  <2>2. ~ (e.end <= now + Buffer) => ~ (e.end <= now)
    BY NumberAssumption DEF Event, TypedInv, TypeOK
  <2>3. p.on = "on" /\ q.on \in {"on", "off"}
    BY <1>5, <2>1, <2>2 DEF Follows
  <2>4. active
    BY <2>3 DEF Settled
  <2>5. r \in LiveRows'
    BY <1>9, <1>14, <2>1 DEF Buying
  <2> QED
    BY <1>3, <1>12, <2>3, <2>4, <2>5 DEF Settled
<1>15. Kept(w) = e
  BY <1>1
<1>16. Switches(e) => Settled(q, SwitchesOn(Kept(w)))'
  <2>1. SwitchesOn(e)' = SwitchesOn(e)
    BY DEF SwitchesOn
  <2>2. SUFFICES ASSUME Switches(e) PROVE Settled(q, SwitchesOn(Kept(w)))'
    OBVIOUS
  <2>3. run'[w].ev = run[w].ev
    BY <1>15, <2>2, WriteRowShape
  <2>4. Kept(w)' = e
    BY <1>15, <2>3 DEF Kept
  <2> QED
    BY <1>13, <2>2, <2>4 DEF Settled, SwitchesOn
<1> QED
  BY <1>10, <1>14, <1>15, <1>16

LEMMA OrderWriteRow ==
  ASSUME TypedInv, InOrder, NEW w \in Worker, WriteRow(w)
  PROVE  InOrder'
<1> SUFFICES ASSUME next' # 0 PROVE \E f \in [Nat -> Phase] : InOrderWith(f)'
  BY DEF InOrder
<1>1. /\ UNCHANGED <<now, store, sent, sky, next, active>> /\ run[w].pc = "row" /\ Busy(w)
      /\ sent \in Nat /\ next \in Nat
  BY NumberAssumption DEF WriteRow, Busy, TypedInv, TypeOK
<1>2. PICK f \in [Nat -> Phase] : InOrderWith(f)
  BY <1>1 DEF InOrder
<1>3. /\ next >= 2 /\ Settled(f[next - 2], active) /\ Follows(f[next - 2], Kept(w), f[next - 1])
      /\ Found(w) /\ \A v \in Worker : v # w => run[v].pc = "idle"
  BY <1>1, <1>2 DEF InOrderWith, OneHandler, Busy
<1>4. f[next - 2] \in Phase /\ f[next - 1] \in Phase
  BY <1>1, <1>2, <1>3
<1>5. /\ Switches(Kept(w)) => Settled(f[next - 1], SwitchesOn(Kept(w)))'
      /\ ~ Switches(Kept(w)) => Settled(f[next - 1], active)'
  <2> DEFINE p == f[next - 2]
             q == f[next - 1]
  <2>0. PICK x \in Phase, y \in Phase : x = p /\ y = q
    BY <1>4
  <2>1. /\ Switches(Kept(w)) => Settled(y, SwitchesOn(Kept(w)))'
        /\ ~ Switches(Kept(w)) => Settled(y, active)'
    BY <1>3, <2>0, Landed
  <2> QED
    BY <1>1, <2>0, <2>1 DEF Settled
<1>6. \A v \in Worker : v # w => run'[v].pc = "idle"
  BY <1>3, WriteRowShape
<1>7. \A e \in sky' : e.no <= sent' /\ Follows(f[e.no - 1], e, f[e.no])'
  BY <1>1, <1>2 DEF InOrderWith, Follows
<1>8. f[sent'] = store' /\ next' <= sent' + 1 /\ next' - 1 = next - 1
  BY <1>1, <1>2 DEF InOrderWith
<1>9. CASE Switches(Kept(w))
  <2>1. /\ run'[w].pc = "business" /\ run'[w].ev = run[w].ev
        /\ run'[w].on = SwitchesOn(Kept(w))
    BY <1>9, WriteRowShape
  <2>2. SwitchesOn(Kept(w))' = SwitchesOn(Kept(w))
    BY <2>1 DEF SwitchesOn, Kept
  <2>3. Settled(f[next - 1], run[w].on)'
    BY <1>5, <1>9, <2>1, <2>2 DEF Settled
  <2>4. ~ Quiet'
    BY <2>1 DEF Quiet, Busy
  <2> QED
    BY <1>6, <1>7, <1>8, <2>1, <2>3, <2>4 DEF InOrderWith, OneHandler, Busy
<1>10. CASE ~ Switches(Kept(w))
  <2>1. \A v \in Worker : run'[v].pc = "idle"
    BY <1>6, <1>10, WriteRowShape
  <2> QED
    BY <1>5, <1>7, <1>8, <1>10, <2>1 DEF InOrderWith, OneHandler, Busy
<1> QED
  BY <1>9, <1>10

\* The business is written; a handler that fails ends the order.
LEMMA OrderEnd ==
  ASSUME TypedInv, InOrder, NEW w \in Worker, WriteBusiness(w) \/ Fail(w) \/ Crash(w)
  PROVE  InOrder'
<1> SUFFICES ASSUME next' # 0 PROVE \E f \in [Nat -> Phase] : InOrderWith(f)'
  BY DEF InOrder
<1>1. WriteBusiness(w)
  BY DEF Fail, Crash
<1>2. /\ UNCHANGED <<now, store, sent, sky, sub, next>> /\ run[w].pc = "business"
      /\ active' = run[w].on /\ run' = [run EXCEPT ![w] = Idle] /\ run \in [Worker -> Run]
  BY <1>1 DEF WriteBusiness, TypedInv, TypeOK
<1>3. PICK f \in [Nat -> Phase] : InOrderWith(f)
  BY <1>2 DEF InOrder
<1>4. /\ Settled(f[next - 1], run[w].on) /\ \A v \in Worker : v # w => run[v].pc = "idle"
  BY <1>2, <1>3 DEF InOrderWith, OneHandler, Busy
<1>5. \A v \in Worker : run'[v].pc = "idle"
  BY <1>2, <1>4 DEF Idle
<1>6. Settled(f[next - 1], active)'
  <2>1. run[w].on \in BOOLEAN
    BY <1>2 DEF Run
  <2>2. PICK b \in BOOLEAN : b = run[w].on
    BY <2>1
  <2>3. Settled(f[next - 1], b)
    BY <1>4, <2>2
  <2>4. Settled(f[next - 1], b)'
    BY <1>2, <2>3 DEF Settled, PaidRow, Stopped, LiveRows
  <2>5. active' = b
    BY <1>2, <2>2
  <2> QED
    BY <2>2, <2>4, <2>5 DEF Settled
<1>7. InOrderWith(f)'
  BY <1>2, <1>3, <1>5, <1>6 DEF InOrderWith, OneHandler, Busy, Follows
<1> QED
  BY <1>7

\* A sweep that nothing disturbed switches off only a business that never paid.
LEMMA OrderSweep ==
  ASSUME TypedInv, InOrder, SweepPaid, SweepWrite
  PROVE  InOrder'
<1> SUFFICES ASSUME next' # 0 PROVE \E f \in [Nat -> Phase] : InOrderWith(f)'
  BY DEF InOrder
<1>1. /\ UNCHANGED <<now, store, sent, sky, sub, run, next>> /\ Quiet /\ ~ sweep.dirty
      /\ sweep.pc = "found" /\ active' \in {active, FALSE}
  BY DEF SweepWrite, Quiet
<1>2. PICK f \in [Nat -> Phase] : InOrderWith(f)
  BY <1>1 DEF InOrder
<1>3. Settled(f[next - 1], active)
  BY <1>1, <1>2 DEF InOrderWith
<1>4. f[next - 1].on = "never"
  BY <1>1, <1>3 DEF Settled, SweepPaid
<1>5. Settled(f[next - 1], active)'
  <2>1. active' => LiveRows # {}
    <3>1. active' => active
      BY <1>1
    <3> QED
      BY <3>1, <1>3 DEF Settled
  <2>2. active' => LiveRows' # {}
    BY <2>1, <1>1 DEF LiveRows
  <2>3. f[next' - 1].on = "never"
    BY <1>1, <1>4
  <2> QED
    BY <2>2, <2>3 DEF Settled
<1>6. InOrderWith(f)'
  BY <1>1, <1>2, <1>5
     DEF InOrderWith, OneHandler, Busy, Quiet, Follows
<1> QED
  BY <1>6

LEMMA SweepPaidStep == TypedInv /\ InOrder /\ SweepPaid /\ [Next]_vars => SweepPaid'
<1> SUFFICES ASSUME TypedInv, SweepPaid, [Next]_vars PROVE SweepPaid'
  OBVIOUS
<1>0. sweep \in [pc : {"idle", "found"}, dirty : BOOLEAN]
  BY DEF TypedInv, TypeOK
<1>1. CASE UNCHANGED <<sub, sweep>>
  BY <1>1 DEF SweepPaid, PaidRow
<1>2. CASE SweepFind
  BY <1>2 DEF SweepFind, SweepPaid, ExpiredFree, PaidRow
<1>3. CASE SweepWrite
  BY <1>3 DEF SweepWrite, SweepPaid
<1>4. CASE \E w \in Worker : WriteRow(w)
  <2>1. sweep' = [sweep EXCEPT !.dirty = (sweep.pc = "found")]
    BY <1>4 DEF WriteRow
  <2>2. sweep'.pc = sweep.pc /\ (sweep'.dirty <=> sweep.pc = "found")
    BY <2>1, <1>0
  <2> QED
    BY <2>2 DEF SweepPaid
<1>5. Store \/ Lose \/ Tick \/ (\E w \in Worker : Take(w) \/ WriteBusiness(w) \/ Fail(w) \/ Crash(w))
        \/ UNCHANGED vars => UNCHANGED <<sub, sweep>>
  BY DEF Store, Lose, Tick, Take, WriteBusiness, Fail, Crash, local, vars
<1> QED
  BY <1>1, <1>2, <1>3, <1>4, <1>5 DEF Next

LEMMA OrderStep == TypedInv /\ InOrder /\ SweepPaid /\ [Next]_vars => InOrder'
<1> SUFFICES ASSUME TypedInv, InOrder, SweepPaid, [Next]_vars PROVE InOrder'
  OBVIOUS
<1>1. CASE Store
  BY <1>1, OrderStore
<1>2. CASE Tick
  BY <1>2, OrderTick
<1>3. CASE Lose
  BY <1>3 DEF Lose, InOrder
<1>4. CASE SweepFind \/ UNCHANGED vars
  <2>1. UNCHANGED <<now, store, sent, sky, sub, active, run, next>>
    BY <1>4 DEF SweepFind, vars
  <2>2. SUFFICES ASSUME next # 0 PROVE \E f \in [Nat -> Phase] : InOrderWith(f)'
    BY <2>1 DEF InOrder
  <2>3. PICK f \in [Nat -> Phase] : InOrderWith(f)
    BY <2>2 DEF InOrder
  <2>4. /\ PaidRow' = PaidRow /\ Stopped' = Stopped /\ LiveRows' = LiveRows /\ Quiet' = Quiet
        /\ \A w \in Worker : Kept(w)' = Kept(w) /\ (Found(w) => Found(w)')
    BY <2>1 DEF PaidRow, Stopped, LiveRows, Quiet, Busy, Kept, Found, Findable
  <2>5. /\ Quiet => Settled(f[next - 1], active)'
        /\ \A w \in Worker : run[w].pc = "business" => Settled(f[next - 1], run[w].on)'
        /\ \A w \in Worker : run[w].pc = "row" => Settled(f[next - 2], active)'
    BY <2>1, <2>3, <2>4 DEF InOrderWith, Settled
  <2>6. InOrderWith(f)'
    BY <2>1, <2>3, <2>4, <2>5 DEF InOrderWith, Follows, OneHandler, Busy
  <2> QED
    BY <2>6
<1>5. CASE SweepWrite
  BY <1>5, OrderSweep
<1>6. CASE \E w \in Worker : Take(w)
  BY <1>6, OrderTake
<1>7. CASE \E w \in Worker : WriteRow(w)
  BY <1>7, OrderWriteRow
<1>8. CASE \E w \in Worker : WriteBusiness(w) \/ Fail(w) \/ Crash(w)
  BY <1>8, OrderEnd
<1> QED
  BY <1>1, <1>2, <1>3, <1>4, <1>5, <1>6, <1>7, <1>8 DEF Next

\* When the events of the subscription were handled in order, each once and by
\* one handler at a time, and no sweep raced them, is_active says what the store
\* says: for any number of instances, rows and events, and however long they take.
THEOREM InSyncTheorem == Spec => []InSync
<1>1. Spec => [](TypedInv /\ InOrder /\ SweepPaid)
  <2>1. Init => TypedInv /\ InOrder /\ SweepPaid
    BY TypedInit, OrderInit
  <2>2. TypedInv /\ InOrder /\ SweepPaid /\ [Next]_vars => (TypedInv /\ InOrder /\ SweepPaid)'
    BY TypedStep, OrderStep, SweepPaidStep
  <2> QED
    BY <2>1, <2>2, PTL DEF Spec
<1>2. TypedInv /\ InOrder => InSync
  <2> SUFFICES ASSUME TypedInv, InOrder, Quiet, next = sent + 1
               PROVE  /\ store.on = "on" => active
                      /\ store.on = "off" /\ store.end > now + Buffer => active
                      /\ store.on = "over" => ~ active
    BY DEF InSync
  <2>1. next # 0 /\ next - 1 = sent
    BY NumberAssumption DEF TypedInv, TypeOK
  <2>2. PICK f \in [Nat -> Phase] : InOrderWith(f)
    BY <2>1 DEF InOrder
  <2>3. Settled(store, active)
    BY <2>1, <2>2 DEF InOrderWith
  <2> QED
    BY <2>3 DEF Settled
<1> QED
  BY <1>1, <1>2, PTL
=============================================================================
