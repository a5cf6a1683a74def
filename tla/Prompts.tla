------------------------------ MODULE Prompts ------------------------------
(***************************************************************************)
(* What pops up on the professional's home screen: a version of the app to *)
(* install, the news of the one installed, or a word about his plan or his *)
(* photos.  The home request answers from a short-lived cache, else it     *)
(* looks for the first of these that applies, answers, and writes the      *)
(* viewing and the cached answer behind the response, where either may     *)
(* fail unseen.                                                            *)
(*                                                                         *)
(* One user, one business and one device: nothing is shared between users  *)
(* but the modals.  Time is counted in lives of the cache (a minute).      *)
(***************************************************************************)
EXTENDS Integers, FiniteSets

CONSTANTS
    Modals,       \* ids, in the order of creation: a set of naturals
    Builds,       \* builds of the app
    Day,          \* how long an update rests once viewed
    LastTick,     \* bound: the clock
    MaxTurns,     \* bound: changes of modals, build and the rest
    Homes,        \* home requests that may be under way at once
    NoOne         \* no value

ASSUME PromptsAssumption ==
    /\ Modals \subseteq Nat /\ IsFiniteSet(Modals) /\ Builds \subseteq Nat \ {0}
    /\ Day \in Nat \ {0} /\ LastTick \in Nat /\ MaxTurns \in Nat
    /\ NoOne \notin Nat

VARIABLES
    modal,     \* each modal: NoOne or [mode, target, active]
    viewed,    \* when the interaction "viewed" was made, NoOne before
    clicked,   \* likewise "primary_clicked"
    cached,    \* until when the answer for a build is kept, NoOne if never
    build,     \* the build installed
    other,     \* a trial about to end, or photos missing
    tick,      \* the clock
    turns,     \* changes so far
    home,      \* what each home request is doing
    duties,    \* what responses have left to be written behind them
    shown,     \* modals answered afresh
    slipped    \* modals whose viewing was not recorded in time

promptsVars ==
    <<modal, viewed, clicked, cached, build, other, tick, turns, home, duties, shown, slipped>>

Modes == {"new_app_version", "whats_new"}

PromptsInit ==
    /\ modal = [m \in Modals |-> NoOne]
    /\ viewed = [m \in Modals |-> NoOne] /\ clicked = [m \in Modals |-> NoOne]
    /\ cached = [b \in Builds |-> NoOne]
    /\ build = CHOOSE b \in Builds : \A a \in Builds : b <= a
    /\ other = FALSE /\ tick = 0 /\ turns = 0
    /\ home = [x \in Homes |-> NoOne] /\ duties = {}
    /\ shown = {} /\ slipped = {}

Turn == turns < MaxTurns /\ turns' = turns + 1

-----------------------------------------------------------------------------
(* The back office: a modal is created switched off, then toggled.         *)
CreateModal(m, mode, target) ==
    /\ modal[m] = NoOne /\ \A n \in Modals : n < m => modal[n] # NoOne
    /\ modal' = [modal EXCEPT ![m] = [mode |-> mode, target |-> target, active |-> FALSE]]
    /\ Turn
    /\ UNCHANGED <<viewed, clicked, cached, build, other, home, duties, shown, slipped, tick>>

ToggleModal(m, isActive) ==
    /\ modal[m] # NoOne /\ modal[m].active # isActive
    /\ modal' = [modal EXCEPT ![m].active = isActive]
    /\ Turn
    /\ UNCHANGED <<viewed, clicked, cached, build, other, home, duties, shown, slipped, tick>>

-----------------------------------------------------------------------------
Active(mode) == {m \in Modals : modal[m] # NoOne /\ modal[m].active /\ modal[m].mode = mode}
Newest(S) == IF S = {} THEN NoOne ELSE CHOOSE m \in S : \A n \in S : n <= m

\* Mutant: only a click counts, not the viewing.
RecentClick(m) == clicked[m] # NoOne /\ tick - clicked[m] <= Day

Recent(m) == \E t \in {viewed[m], clicked[m]} : t # NoOne /\ tick - t <= Day

UpdateFor(b) == Newest({m \in Active("new_app_version") : modal[m].target > b /\ ~Recent(m)})
NewsFor(b) == Newest({m \in Active("whats_new") : modal[m].target = b /\ viewed[m] = NoOne})

Record(m) == [task |-> "record", modal |-> m]
Save(b) == [task |-> "save", build |-> b]

(* A modal answered now, out of the database.  It counts as slipped if the *)
(* record of an earlier answer is still due or was lost.                   *)
Fresh(m) ==
    /\ shown' = shown \cup {m}
    /\ slipped' = IF Record(m) \in duties THEN slipped \cup {m} ELSE slipped

OpenHome(x) ==
    /\ home[x] = NoOne
    /\ home' = [home EXCEPT ![x] =
            IF cached[build] # NoOne /\ tick < cached[build] THEN NoOne
            ELSE [at |-> "update", build |-> build]]
    /\ UNCHANGED <<turns, modal, viewed, clicked, cached, build, other, duties, shown, slipped, tick>>

(* First the business and the update, together.                            *)
FindUpdate(x) ==
    /\ home[x] # NoOne /\ home[x].at = "update"
    /\ LET b == home[x].build
           m == UpdateFor(b)
       IN IF m # NoOne
          THEN /\ Fresh(m)
               /\ duties' = duties \cup {Record(m), Save(b)}
               /\ home' = [home EXCEPT ![x] = NoOne]
          ELSE IF other
          THEN /\ duties' = duties \cup {Save(b)}
               /\ home' = [home EXCEPT ![x] = NoOne]
               /\ UNCHANGED <<shown, slipped>>
          ELSE /\ home' = [home EXCEPT ![x].at = "news"]
               /\ UNCHANGED <<duties, shown, slipped>>
    /\ UNCHANGED <<turns, modal, viewed, clicked, cached, build, other, tick>>

\* Only then the news.
FindNews(x) ==
    /\ home[x] # NoOne /\ home[x].at = "news"
    /\ LET b == home[x].build
           m == NewsFor(b)
       IN IF m # NoOne
          THEN Fresh(m) /\ duties' = duties \cup {Record(m), Save(b)}
          ELSE duties' = duties \cup {Save(b)} /\ UNCHANGED <<shown, slipped>>
    /\ home' = [home EXCEPT ![x] = NoOne]
    /\ UNCHANGED <<turns, modal, viewed, clicked, cached, build, other, tick>>

(* Behind the response.  The record of a modal is made once and its date   *)
(* never renewed.                                                          *)
RecordViewed(d) ==
    /\ d.task = "record"
    /\ \/ /\ viewed' = IF viewed[d.modal] = NoOne THEN [viewed EXCEPT ![d.modal] = tick] ELSE viewed
          /\ UNCHANGED slipped
       \/ slipped' = slipped \cup {d.modal} /\ UNCHANGED viewed
    /\ duties' = duties \ {d}
    /\ UNCHANGED <<turns, modal, clicked, cached, build, other, home, shown, tick>>

SaveCache(d) ==
    /\ d.task = "save"
    /\ cached' \in {[cached EXCEPT ![d.build] = tick + 1], cached}
    /\ duties' = duties \ {d}
    /\ UNCHANGED <<turns, modal, viewed, clicked, build, other, home, shown, slipped, tick>>

(* The app reports that he viewed a modal or followed it: once each.       *)
RegisterInteraction(m, action) ==
    /\ modal[m] # NoOne /\ modal[m].active
    /\ CASE action = "viewed" /\ viewed[m] = NoOne ->
                viewed' = [viewed EXCEPT ![m] = tick] /\ UNCHANGED clicked
         [] action = "primary_clicked" /\ clicked[m] = NoOne ->
                clicked' = [clicked EXCEPT ![m] = tick] /\ UNCHANGED viewed
         [] OTHER -> FALSE
    /\ UNCHANGED <<turns, modal, cached, build, other, home, duties, shown, slipped, tick>>

-----------------------------------------------------------------------------
InstallBuild(b) ==
    /\ build < b /\ build' = b
    /\ Turn
    /\ UNCHANGED <<modal, viewed, clicked, cached, other, home, duties, shown, slipped, tick>>

TurnOther ==
    /\ other' = ~other
    /\ Turn
    /\ UNCHANGED <<modal, viewed, clicked, cached, build, home, duties, shown, slipped, tick>>

Elapse ==
    /\ tick < LastTick
    /\ tick' = tick + 1
    /\ UNCHANGED <<turns, modal, viewed, clicked, cached, build, other, home, duties, shown, slipped>>

PromptsNext ==
    \/ \E m \in Modals, mode \in Modes, b \in Builds : CreateModal(m, mode, b)
    \/ \E m \in Modals, isActive \in BOOLEAN : ToggleModal(m, isActive)
    \/ \E x \in Homes : OpenHome(x) \/ FindUpdate(x) \/ FindNews(x)
    \/ \E d \in duties : RecordViewed(d) \/ SaveCache(d)
    \/ \E m \in Modals, action \in {"viewed", "primary_clicked"} : RegisterInteraction(m, action)
    \/ \E b \in Builds : InstallBuild(b)
    \/ TurnOther \/ Elapse

PromptsSpec == PromptsInit /\ [][PromptsNext]_promptsVars

-----------------------------------------------------------------------------
PromptsTypeOK ==
    /\ modal \in [Modals -> {NoOne} \cup [mode : Modes, target : Builds, active : BOOLEAN]]
    /\ viewed \in [Modals -> {NoOne} \cup 0 .. LastTick]
    /\ clicked \in [Modals -> {NoOne} \cup 0 .. LastTick]
    /\ build \in Builds /\ other \in BOOLEAN /\ tick \in 0 .. LastTick

(* News is answered once, an update never in the day that follows its      *)
(* first viewing (afterwards at every request, the record's date being the *)
(* first), unless the record of the viewing failed or another request was  *)
(* faster than it.                                                         *)
ModalRests ==
    [][\A m \in shown \ slipped : Record(m) \in duties' \ duties =>
            /\ modal[m].mode = "new_app_version"
            /\ viewed[m] # NoOne /\ tick - viewed[m] > Day]_promptsVars
=============================================================================
