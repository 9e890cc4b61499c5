----------------------------- MODULE TimeSeries -----------------------------
(***************************************************************************)
(* The time series of the dashboards (campaign-analytics.ts): what the     *)
(* database adds up per day or per week, spread over a window with a point *)
(* for every bucket in it; and the requests that ask for one, while rows   *)
(* arrive, are rewritten and leave.  Instants are numbers of ticks, days   *)
(* are numbers, and day 0 is a Monday.                                     *)
(***************************************************************************)
EXTENDS Integers, Functions, FiniteSetsExt

CONSTANTS
    DayTicks,       \* ticks in DAY_MS
    DailyMaxDays,   \* DAILY_MAX_DAYS
    FirstTick,      \* bounds: the instants of a window and of what it counts
    LastTick,
    CampaignDate,   \* instants campaigns start or end at
    MaxTotal,       \* bound: what all rows add up to
    Now             \* the instant of the request

ASSUME TimeSeriesAssumption ==
    /\ DayTicks \in Nat \ {0} /\ DailyMaxDays \in Nat /\ MaxTotal \in Nat
    /\ FirstTick \in Nat /\ LastTick \in Nat /\ Now \in FirstTick .. LastTick
    /\ CampaignDate \subseteq FirstTick .. LastTick

VARIABLES
    stored,         \* what the rows a request's filters admit, dated at an
                    \* instant, add up to: comments, or the dollars of runs
    page            \* a request for a chart, and what it has so far

Instant == FirstTick .. LastTick
Earlier(s, t) == IF s < t THEN s ELSE t

DayOf(t) == t \div DayTicks
Midnight(d) == d * DayTicks

pickGranularity(from, to) ==
    IF (to - from) \div DayTicks > DailyMaxDays THEN "week" ELSE "day"

\* Mutant: weeks start on Sunday.
SundayStart(t, g) ==
    IF g = "week" THEN DayOf(t) - ((DayOf(t) + 1) % 7) ELSE DayOf(t)

\* The day a bucket starts with.
bucketStart(t, g) == IF g = "week" THEN DayOf(t) - (DayOf(t) % 7) ELSE DayOf(t)

\* date_trunc of the database, whose weeks start on Monday, too.
DateTrunc(t, g) == IF g = "week" THEN 7 * (DayOf(t) \div 7) ELSE DayOf(t)

\* The instants of a window that rows are dated at.
Within(rows, from, to) == {t \in Instant : rows[t] # 0 /\ from <= t /\ t <= to}

\* The query: the rows of a window, added up per bucket.
Grouped(rows, from, to, g) ==
    LET within == Within(rows, from, to)
    IN  [b \in {DateTrunc(t, g) : t \in within} |->
           SumFunctionOnSet(rows, {t \in within : DateTrunc(t, g) = b})]

\* counts: by the first day of the bucket the date of the row is in.
CountOn(grouped, g, day) ==
    LET match == {b \in DOMAIN grouped : bucketStart(Midnight(b), g) = day}
    IN  IF match = {} THEN 0 ELSE grouped[CHOOSE b \in match : TRUE]

\* The cursor goes from the first bucket to the last one; none if to is before.
zeroFillBuckets(grouped, from, to, g) ==
    LET step  == IF g = "week" THEN 7 ELSE 1
        start == bucketStart(from, g)
        count == ((bucketStart(to, g) - start) \div step) + 1
    IN  [i \in 1 .. count |->
           [date |-> start + (i - 1) * step,
            count |-> CountOn(grouped, g, start + (i - 1) * step)]]

Series(rows, from, to) ==
    LET g == pickGranularity(from, to)
    IN  zeroFillBuckets(Grouped(rows, from, to, g), from, to, g)

\* SUM over a window; a run without an amount counts nothing.
TotalIn(rows, from, to) == SumFunctionOnSet(rows, Within(rows, from, to))
TotalOf(rows) == TotalIn(rows, FirstTick, LastTick)

-----------------------------------------------------------------------------
NoPage == [at |-> "closed"]

SeriesInit == stored = [t \in Instant |-> 0] /\ page = NoPage

\* Writes come between the queries of a page.  One on show is not drawn again:
\* what is written then may as well be written later.
Writable == page.at # "shown"
Room == MaxTotal - TotalOf(stored)

Written(t, amount) ==
    /\ stored' = [stored EXCEPT ![t] = amount]
    /\ page' = IF page.at = "figure" THEN [page EXCEPT !.moved = TRUE] ELSE page

\* A row is stored, with any date: a comment is dated by its platform, a run by
\* its start.
RowArrives ==
    /\ Writable
    /\ \E n \in 1 .. Room, t \in Instant : Written(t, stored[t] + n)

\* The refresh replaces the amount of a run: a higher one, a lower one or none.
AmountUpdated ==
    /\ Writable
    /\ LET room == Room
       IN  \E t \in Instant : \E n \in (0 .. stored[t] + room) \ {stored[t]} :
              Written(t, n)

\* A post is deleted: its comments go, and its runs lose the post, and with it
\* the platform a filter asks for.
RowLeaves ==
    /\ Writable
    /\ \E t \in Instant : \E n \in 0 .. stored[t] - 1 : Written(t, n)

\* The answer to a request of some kind; total is the figure above the chart,
\* moved whether rows were written after it was read.
Draw(kind, from, to, total, moved) ==
    page' = [at |-> "shown", kind |-> kind, from |-> from, to |-> to,
             total |-> total, moved |-> moved, points |-> Series(stored, from, to)]

AwaitSeries(kind, from, to, total) ==
    page' = [at |-> "figure", kind |-> kind, from |-> from, to |-> to,
             total |-> total, moved |-> FALSE]

\* A campaign's volume: from its start to its end or, before that, to now.  It
\* has one query, and no figure beside it.
GetCommentVolume(start, end) ==
    /\ page = NoPage
    /\ Draw("comments", start, Earlier(end, Now), 0, FALSE)
    /\ UNCHANGED stored

\* A campaign's spending, over the same window.  The figure adds up all of its
\* runs, also those before its start or after its end.
GetSpending(start, end) ==
    /\ page = NoPage
    /\ AwaitSeries("spending", start, Earlier(end, Now), TotalOf(stored))
    /\ UNCHANGED stored

\* The cost explorer: whole days, the last one to its last tick.
GetSummary(first, last) ==
    /\ page = NoPage /\ first <= last
    /\ LET from == Midnight(first)
           to   == Midnight(last) + DayTicks - 1
       IN  AwaitSeries("overview", from, to, TotalIn(stored, from, to))
    /\ UNCHANGED stored

\* The spend over time is the next query of either, outside a transaction.
GetSeries ==
    /\ page.at = "figure"
    /\ Draw(page.kind, page.from, page.to, page.total, page.moved)
    /\ UNCHANGED stored

Leave == page.at # "closed" /\ page' = NoPage /\ UNCHANGED stored

SeriesNext ==
    \/ RowArrives \/ AmountUpdated \/ RowLeaves
    \/ GetSeries \/ Leave
    \/ \E start, end \in CampaignDate :
        GetCommentVolume(start, end) \/ GetSpending(start, end)
    \/ \E first, last \in {DayOf(t) : t \in Instant} : GetSummary(first, last)

SeriesSpec == SeriesInit /\ [][SeriesNext]_<<stored, page>>

-----------------------------------------------------------------------------
(***************************************************************************)
(* Properties                                                              *)
(***************************************************************************)

SeriesTotal(series) == SumFunction([i \in DOMAIN series |-> series[i].count])

\* The points of a chart add up to the rows of its window as they were when it
\* was drawn: neither the start nor the end of a window in the middle of a day or
\* of a week, nor the switch from days to weeks, drops an amount or counts it
\* twice.  The figure is read before that, so the two agree if nothing was written
\* between the queries: the cost explorer's is the sum of the points, and that of
\* a campaign, which is not limited to the window, is not less.
ChartsAddUp ==
    page.at = "shown" =>
        LET sum == SeriesTotal(page.points) IN
        /\ sum = TotalIn(stored, page.from, page.to)
        /\ page.kind = "overview" /\ ~page.moved => page.total = sum
        /\ page.kind = "spending" /\ ~page.moved => page.total >= sum
=============================================================================
