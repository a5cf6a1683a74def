------------------------------ MODULE Reports -------------------------------
(***************************************************************************)
(* The reports of a business over a range of days: totals for the range    *)
(* and for the one before it, and a chart.  They are read by separate      *)
(* queries, the totals first.                                              *)
(*                                                                         *)
(* A row (an income, a new customer, a completed appointment: each is      *)
(* reported in the same way) is the instant it carries, in ticks of UTC    *)
(* time, and whether it falls into the last second of its tick.  A total   *)
(* is given as the set of the rows in it, a chart as the set of the rows   *)
(* in each of its points.                                                  *)
(*                                                                         *)
(* Three clocks matter.  The server's zone turns the days asked for into   *)
(* instants.  Sao Paulo is Behind ticks behind UTC.  And created_at is a   *)
(* timestamp without a zone holding UTC time: AT TIME ZONE 'Sao_Paulo'     *)
(* takes it for Sao Paulo's time, and ::date or a comparison goes by the   *)
(* zone of the database session.                                           *)
(***************************************************************************)
EXTENDS Integers, FiniteSets, FiniteSetsExt

CONSTANTS
    DayTicks,       \* ticks of a day
    Behind,         \* how many Sao Paulo is behind UTC
    FirstDay,       \* the first and
    EndDay,        \* the last day that may be asked for
    TwoDayLimit,    \* ranges up to this many days (16) are charted by two days,
    WeekLimit,      \* up to this many (31) by weeks, longer ones by months
    Week,           \* days of a week (7)
    Month,          \* days of a month
    Zones,          \* offsets the server and the session may have
    TTL,            \* ticks for which a dashboard is cached: 300 seconds
    MaxRows         \* bound: rows made

ASSUME ReportsAssumption ==
    /\ DayTicks \in Nat \ {0} /\ Behind \in Nat /\ FirstDay \in Int /\ EndDay \in Int
    /\ {Week, Month} \subseteq Nat \ {0} /\ TTL \in Nat /\ MaxRows \in Nat
    /\ {TwoDayLimit, WeekLimit} \subseteq Nat /\ TwoDayLimit <= WeekLimit
    /\ Zones \subseteq Int /\ \A z \in Zones : -Behind <= z /\ z <= Behind

-----------------------------------------------------------------------------
VARIABLES
    server, session,  \* the zones: ticks ahead of UTC
    rows,             \* the rows that are there
    clock,            \* the present instant
    cache,            \* the dashboard kept: its range, the answer, the last instant it serves; or Empty
    report            \* the report being made or answered

reportsVars == <<server, session, rows, clock, cache, report>>

Empty == [range |-> [from |-> 0, to |-> -1], until |-> FirstDay * DayTicks - Behind - 1]
NoReport == [kind |-> "none"]
Rows == [at : FirstDay * DayTicks - Behind .. (EndDay + 1) * DayTicks + Behind, last : BOOLEAN]
Ranges == {r \in [from : FirstDay .. EndDay, to : FirstDay .. EndDay] : r.from <= r.to}

ReportsInit ==
    /\ server \in Zones /\ session \in Zones
    /\ rows \in {{}} \cup {{r} : r \in Rows}
    /\ clock \in {r.at : r \in Rows} /\ \A r \in rows : r.at <= clock
    /\ cache = Empty /\ report = NoReport

-----------------------------------------------------------------------------
DaysIn(range) == range.to - range.from + 1
\* From the range's last instant back: as long, and up to its first.
Previous(range) == [from |-> range.from - DaysIn(range), to |-> range.from - 1]

\* The rows of a range, by the server's days.
Within(range) ==
    {r \in rows : range.from * DayTicks - server <= r.at /\ r.at < (range.to + 1) * DayTicks - server}

\* The day, and the first day of the month, to which a row is charted.
DayOf(r) == (r.at + Behind + session) \div DayTicks
MonthOf(d) == (d \div Month) * Month

DaysOf(range) == range.from .. range.to

DailyChart(range) == [d \in DaysOf(range) |-> {r \in rows : DayOf(r) = d}]

MonthlyChart(range) ==
    [m \in {MonthOf(d) : d \in range.from .. range.to} |-> {r \in rows : MonthOf(DayOf(r)) = m}]

\* Mutant: the last point runs its full length.
Unlimited(from, step, end) == from + step

Limited(from, step, end) == Min({from + step, end})

\* Points of so many days, up to the end of the range but for its last
\* second: the end is written down without its milliseconds.
BucketChart(range, days) ==
    LET start == range.from * DayTicks + Behind
        end == (range.to + 1) * DayTicks + Behind
        step == days * DayTicks
    IN [from \in {start + i * step : i \in 0 .. (end - start - 1) \div step} |->
            LET stop == Limited(from, step, end)
            IN {r \in rows :
                    /\ from <= r.at - session /\ r.at - session < stop
                    /\ ~(r.last /\ r.at - session = end - 1)}]

Chart(kind, range) ==
    CASE kind = "dashboard" -> DailyChart(range)
      [] kind = "analytics" /\ DaysIn(range) <= TwoDayLimit -> BucketChart(range, 2)
      [] kind = "analytics" /\ DaysIn(range) > TwoDayLimit /\ DaysIn(range) <= WeekLimit -> BucketChart(range, Week)
      [] OTHER -> MonthlyChart(range)

-----------------------------------------------------------------------------
\* The analytics look into the cache too, but nothing is put there.
RequestReport(kind, range) ==
    /\ report.kind = "none"
    /\ report' = IF kind = "dashboard" /\ cache.range = range /\ clock <= cache.until THEN cache.answer
                 ELSE [kind |-> kind, range |-> range, left |-> {"now", "before"},
                       now |-> {}, before |-> {}, chart |-> <<>>, moved |-> FALSE, done |-> FALSE]
    /\ UNCHANGED <<server, session, rows, clock, cache>>

Reading == report.kind # "none" /\ ~report.done

\* The totals are read side by side.
ReadTotal(t) ==
    /\ Reading /\ t \in report.left
    /\ report' = [report EXCEPT
            !.left = report.left \ {t},
            !.now = IF t = "now" THEN Within(report.range) ELSE report.now,
            !.before = IF t = "before" THEN Within(Previous(report.range)) ELSE report.before]
    /\ UNCHANGED <<server, session, rows, clock, cache>>

ReadChart ==
    /\ Reading /\ report.left = {}
    /\ report' = [report EXCEPT !.chart = Chart(report.kind, report.range), !.done = TRUE]
    /\ cache' = IF report.kind = "dashboard"
                THEN [range |-> report.range, answer |-> report', until |-> clock + TTL]
                ELSE cache
    /\ UNCHANGED <<server, session, rows, clock>>

\* Something is entered.
MakeRow(last) ==
    /\ Cardinality(rows) < MaxRows
    /\ LET r == [at |-> clock, last |-> last] IN
       /\ r \notin rows
       /\ rows' = rows \cup {r}
    /\ report' = IF Reading THEN [report EXCEPT !.moved = TRUE] ELSE report
    /\ UNCHANGED <<server, session, clock, cache>>

ClockMoves ==
    /\ clock < (EndDay + 1) * DayTicks + Behind
    /\ clock' = clock + 1
    /\ UNCHANGED <<server, session, rows, cache, report>>

CloseReport ==
    /\ report.kind # "none" /\ report.done
    /\ report' = NoReport
    /\ UNCHANGED <<server, session, rows, clock, cache>>

ReportsNext ==
    \/ \E kind \in {"dashboard", "analytics"}, range \in Ranges : RequestReport(kind, range)
    \/ \E t \in {"now", "before"} : ReadTotal(t)
    \/ ReadChart
    \/ \E last \in BOOLEAN : MakeRow(last)
    \/ ClockMoves \/ CloseReport

ReportsSpec == ReportsInit /\ [][ReportsNext]_reportsVars

-----------------------------------------------------------------------------
Charted == UNION {report.chart[p] : p \in DOMAIN report.chart}
Settled == report.kind # "none" /\ report.done /\ ~report.moved
OnePointEach == \A p, q \in DOMAIN report.chart : p # q => report.chart[p] \cap report.chart[q] = {}

(* The points of a dashboard's chart add up to its total, none counting    *)
(* twice or for the range before, if the server's days are those to which  *)
(* the database charts (which are Sao Paulo's only if the session is       *)
(* behind UTC by twice as much) and nothing was entered between the        *)
(* queries.                                                                *)
ChartAddsUp ==
    Settled /\ report.kind = "dashboard" /\ server = session + Behind =>
        Charted = report.now /\ OnePointEach /\ report.now \cap report.before = {}

(* The points of the analytics' chart add up to their total, but for what  *)
(* fell into the last second of the range, if the server keeps Sao Paulo's *)
(* time and the session UTC.  By months the whole months are charted: what *)
(* is in the range, and no row twice.                                      *)
BucketsAddUp ==
    Settled /\ report.kind = "analytics" =>
        /\ OnePointEach
        /\ DaysIn(report.range) <= WeekLimit /\ server = -Behind /\ session = 0 =>
            /\ Charted \subseteq report.now
            /\ \A r \in report.now \ Charted : r.last
        /\ DaysIn(report.range) > WeekLimit /\ server = session + Behind => report.now \subseteq Charted

(* Either chart adds up to the totals beside it.                           *)
ReportAddsUp == ChartAddsUp /\ BucketsAddUp
=============================================================================
