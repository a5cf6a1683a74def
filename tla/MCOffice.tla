----------------------------- MODULE MCOffice -----------------------------
(* Small instances of the parts of the system that the appointments lean   *)
(* on.  They share no variable (what they take from the agenda is an       *)
(* environment of their own), so each is explored while the others rest.   *)
(*                                                                         *)
(* Ids are numbers, and of two that are interchangeable the lower is taken *)
(* first: what the other order reaches is the same up to their names.      *)
EXTENDS Times, Calendar, Catalogue, People, Confirmations, Prompts,
        Listings, Ratings, Messaging, Streams, Reports

CONSTANT Part   \* the parts to explore

VARIABLE part

mcVars ==
    <<part, timesVars, calendarVars, catalogueVars, peopleVars, confirmationsVars, promptsVars,
      listingsVars, ratingsVars, messagingVars, streamsVars, reportsVars>>

\* Of the ids S, those used are the lowest, a new one being the next.
Lowest(used, new) == \A x \in new \ used : \A y \in 1 .. x - 1 : y \in used \cup new

-----------------------------------------------------------------------------
(* Times: two days of five minutes.  Ranges with and without a gap, out of *)
(* order, a closed day, and sent as an object or as null.                  *)
From(a, b) == [from |-> a, to |-> b]
Hours2(form, first, second, closed) ==
    [form |-> form, closed |-> closed, times |-> [d \in 0 .. 1 |-> IF d = 0 THEN first ELSE second]]

MCDuration == [i \in Items |-> i]
MCHoursInputs == {
    Hours2("list", <<From(0, 4)>>, <<From(3, 4), From(1, 2)>>, {}),
    Hours2("list", <<From(1, 3), From(2, 4)>>, <<>>, {}),
    Hours2("list", <<From(0, 2), From(2, 4)>>, <<From(0, 4)>>, {0}),
    Hours2("list", <<>>, <<From(0, 4)>>, {0}),
    Hours2("object", <<From(0, 4)>>, <<>>, {}),
    Hours2("none", <<>>, <<>>, {}) }
MCIntervals == {From(1, 4), From(2, 3), From(3, 6), From(6, 8)}

MCTimesInit == TimesInit /\ openingHours = Hours2("list", <<From(0, 4)>>, <<From(3, 4), From(1, 2)>>, {})

\* What follows an answer cannot change it, nor can hours and items after the
\* question; and what the agenda does between the question and its first read
\* might as well have come before; what it does during the scan, after it.
Unread == ask # Nobody /\ ask.at = "appointments" /\ ask.answers = {}
MCTimesNext ==
    /\ TimesNext
    /\ At("answered") \/ At("failed") => ask' = Nobody
    /\ Unread => live' = live /\ blocks' = blocks
    /\ At("scan") => changes' = changes /\ now' = now
    /\ ask # Nobody => bookable' = bookable /\ openingHours' = openingHours

-----------------------------------------------------------------------------
(* Calendar: the appointment starts with the first professional and slot.  *)
(* Once a divergence is excused nothing more is claimed: such states are   *)
(* only kept early on.  What a professional does at Google concerns no one *)
(* before he is back: nothing else happens meanwhile.  Tokens stored over  *)
(* good ones change nothing.                                               *)
Taken(c) == {x \in DOMAIN c : c[x] # None}

MCCalendarNext ==
    /\ excuse = {}
    /\ CalendarNext
    /\ excuse' # {} => calls <= 1 /\ links = 0
    /\ (\E p \in Pros : linking[p] \in {"at google", "tokens"}) => linking' # linking
    /\ \A p \in Pros : linking'[p] = "at google" => row[p] # "good"
    /\ appt = None /\ appt' # None => appt'.slot = 1 /\ appt'.pro = CHOOSE p \in Pros : TRUE
    /\ Lowest(Taken(google), Taken(google'))
    /\ Lowest(Taken(call), Taken(call'))

-----------------------------------------------------------------------------
(* Catalogue: two services, one combo, its owner and one employee.  The    *)
(* last request is about what the properties speak of: another could only  *)
(* have prepared one more.                                                 *)
Deal(pricing, fixed, percent, timing, custom) ==
    [pricing |-> pricing, fixed |-> fixed, percent |-> percent, timing |-> timing, custom |-> custom]
Change(deal, services, team, active) ==
    [deal |-> deal, services |-> services, staff |-> team, active |-> active]
NoDeal == Deal(Nothing, Nothing, Nothing, Nothing, Nothing)

MCPrices == {[price |-> 1, length |-> 1], [price |-> 2, length |-> 1]}
MCTeams == {{}, {Owner}}
MCMenus == {Services, {1}}
MCDeals == {Deal("FIXED_PRICE", 1, Nothing, "SUM", Nothing), Deal("PERCENT_DISCOUNT", Nothing, 50, "CUSTOM", 1)}
MCChanges == {
    Change(NoDeal, Services, Nothing, Nothing),
    Change(Deal("FIXED_PRICE", Nothing, Nothing, Nothing, Nothing), Nothing, Nothing, Nothing),
    Change(Deal("PERCENT_DISCOUNT", Nothing, Nothing, "CUSTOM", Nothing), Nothing, Staff, TRUE) }

MCCatalogueInit == CatalogueInit /\ \A s \in Services : service[s].price = 1

Busy == {d \in Desks : request[d] # Nothing}
MCCatalogueNext ==
    /\ CatalogueNext
    /\ Lowest(Busy, Busy')
    /\ requests < requests' /\ requests' = MaxRequests =>
        \A d \in Desks : request[d] = Nothing /\ request'[d] # Nothing =>
            request'[d].at \notin {"hire", "dismiss", "read links", "set visibility"}

-----------------------------------------------------------------------------
(* People.                                                                 *)
Accounts == {u \in Customers : account[u] # Absent}
AtWork == {c \in Clerks : clerk[c] # Absent}
Booked == {k \in Checks : check[k] # Absent}
MailsInUse ==
    {person[p].mail : p \in Known} \cup {account[u].mail : u \in Accounts}
        \cup {clerk[c].mail : c \in {x \in AtWork : "mail" \in DOMAIN clerk[x]}}

Asking2(c) == "user" \in DOMAIN clerk[c]
UsersInUse == Accounts \cup {clerk[c].user : c \in {x \in AtWork : Asking2(x)}}
ShopsInUse ==
    {l[1] : l \in {l \in DOMAIN link : link[l] # Absent}} \cup {check[k].shop : k \in Booked}
        \cup {clerk[c].shop : c \in {x \in AtWork : ~Asking2(x)}}

MCPeopleNext ==
    /\ PeopleNext
    /\ Lowest(Known, Known')
    /\ Lowest(AtWork, AtWork')
    /\ Lowest(Booked, Booked')
    /\ Lowest(MailsInUse, (MailsInUse \ {Absent})')
    /\ Lowest(UsersInUse, UsersInUse')
    /\ Lowest(ShopsInUse, ShopsInUse')

-----------------------------------------------------------------------------
(* Prompts: an update or news for build 2 to start with.                   *)
FirstModal == {[mode |-> m, target |-> 2, active |-> TRUE] : m \in Modes}
MCPromptsInit ==
    /\ viewed = [m \in Modals |-> NoOne] /\ clicked = viewed
    /\ cached = [b \in Builds |-> NoOne]
    /\ build \in Builds /\ other = FALSE /\ tick = 0 /\ turns = 0
    /\ home = [x \in Homes |-> NoOne] /\ duties = {}
    /\ shown = {} /\ slipped = {}
    /\ \E f \in FirstModal : modal = [m \in Modals |-> IF m = 1 THEN f ELSE NoOne]

-----------------------------------------------------------------------------
(* Listings: the rows that are there are the lowest, in their order.       *)
MCLists == AllLists
Sorted == \A r \in Listed \ {1} : r - 1 \in Listed /\ key[r - 1] >= key[r]
MCListingsInit == ListingsInit /\ Sorted

\* Once the reading is upset nothing more is claimed.
MCListingsNext == stir = {} /\ ListingsNext /\ Lowest(Listed, Listed')

-----------------------------------------------------------------------------
(* Ratings: the first customer is the one who may be asked, and then he is *)
(* the only one who rates.                                                 *)
Rating == {x \in Pens : rating[x] # Nil}
OthersRate == (Rated \cup {rating[x].by : x \in Rating}) \ {1} # {}
Prompting == prompt # Nil \/ day > 0 \/ served # {} \/ \E u \in Raters : dismissed[u] # {}

MCRatingsNext ==
    /\ RatingsNext
    /\ Lowest(Rating, Rating')
    /\ served' \subseteq {1} /\ dismissed'[2] = {}
    /\ prompt' # Nil => prompt'.user = 1
    /\ ~(Prompting /\ OthersRate)'

-----------------------------------------------------------------------------
(* Messaging: two texts; a push to four devices, one of them malformed; a  *)
(* mail; and a notification.  Of one queue or of two at a time.            *)
MCQueueOf ==
    [m \in Messages |->
        CASE m = "push" -> "push" [] m = "note" -> "in-app" [] m = "mail" -> "mail" [] OTHER -> "text"]
MCTo == [m \in Messages |->
            CASE m = "push" -> {"d1", "bad", "d2", "d3"} [] m = "unsent" -> {"bad"} [] OTHER -> {"n"}]
MCMessagingInit == MessagingInit /\ \E m \in Messages : waiting = {"push", m}

Opened == {s \in Streams : office[s] # Unopened}
MCStreamsNext == StreamsNext /\ Lowest(Opened, Opened')

-----------------------------------------------------------------------------
(* Reports: time passes, and rows come, before a report, while it is read  *)
(* (rows only), and while a dashboard is cached; then only that dashboard  *)
(* is asked for again.                                                     *)
MCZones == {-1, 0}
MCReportsInit == ReportsInit /\ \A r \in rows : clock = r.at

MCReportsNext ==
    /\ ReportsNext
    /\ clock' # clock \/ (rows' # rows /\ ~Reading) =>
            /\ cache # Empty /\ report.kind = "none"
            /\ clock - 1 <= cache.until - TTL
    /\ report' = NoReport => report.kind # "analytics"
    /\ cache # Empty /\ report.kind = "none" /\ report' # NoReport =>
            report'.kind = "dashboard" /\ report'.range = cache.range /\ clock <= cache.until

-----------------------------------------------------------------------------
\* A part at rest has one initial state.
MCInit ==
    /\ part \in Part
    /\ MCTimesInit /\ MCCatalogueInit /\ PeopleInit /\ RatingsInit /\ StreamsInit
    /\ CalendarInit
    /\ part # "calendar" => \A p \in Pros : row[p] = "none"
    /\ ConfirmationsInit
    /\ part # "confirmations" => hour = CHOOSE h \in Hours : TRUE
    /\ MCPromptsInit
    /\ part # "prompts" => build = 1 /\ modal[1] = CHOOSE f \in FirstModal : TRUE
    /\ IF part = "listings" THEN MCListingsInit
       ELSE list = Statements /\ size = 1 /\ key = [r \in Ids |-> NoRow] /\ ListingsInit
    /\ IF part = "messaging" THEN MCMessagingInit ELSE waiting = {} /\ MessagingInit
    /\ IF part = "reports" THEN MCReportsInit
       ELSE server = 0 /\ session = 0 /\ rows = {} /\ clock = FirstDay * DayTicks /\ ReportsInit

All == {"times", "calendar", "catalogue", "people", "confirmations", "prompts",
        "listings", "ratings", "messaging", "streams", "reports"}

\* What rests while another part is explored.
Rests(p) ==
    CASE p = "times" -> UNCHANGED timesVars
      [] p = "calendar" -> UNCHANGED calendarVars
      [] p = "catalogue" -> UNCHANGED catalogueVars
      [] p = "people" -> UNCHANGED peopleVars
      [] p = "confirmations" -> UNCHANGED confirmationsVars
      [] p = "prompts" -> UNCHANGED promptsVars
      [] p = "listings" -> UNCHANGED listingsVars
      [] p = "ratings" -> UNCHANGED ratingsVars
      [] p = "messaging" -> UNCHANGED messagingVars
      [] p = "streams" -> UNCHANGED streamsVars
      [] p = "reports" -> UNCHANGED reportsVars

MCNext ==
    /\ UNCHANGED part
    /\ \/ part = "times" /\ MCTimesNext
       \/ part = "calendar" /\ MCCalendarNext
       \/ part = "catalogue" /\ MCCatalogueNext
       \/ part = "people" /\ MCPeopleNext
       \/ part = "confirmations" /\ ConfirmationsNext
       \/ part = "prompts" /\ PromptsNext
       \/ part = "listings" /\ MCListingsNext
       \/ part = "ratings" /\ MCRatingsNext
       \/ part = "messaging" /\ MessagingNext
       \/ part = "streams" /\ MCStreamsNext
       \/ part = "reports" /\ MCReportsNext
    /\ \A p \in All \ {part} : Rests(p)

MCSpec == MCInit /\ [][MCNext]_mcVars
=============================================================================
