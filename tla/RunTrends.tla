------------------------------- MODULE RunTrends --------------------------------
(***************************************************************************)
(* The report on the runs of the old crawl: each store's rates in the last  *)
(* days against the days before them.  A run's row says when it began and   *)
(* is written when it ends; the report takes the time, then asks for the    *)
(* latest rows, at most RowLimit of them.                                   *)
(***************************************************************************)
EXTENDS Integers, Sequences, FiniteSets, FiniteSetsExt

CONSTANTS
    CrawledStores,    \* stores
    Found,      \* bound: pages a run may discover
    LastHour,   \* bound: the clock
    MaxCrawls,  \* bound: runs there ever are
    RowLimit,   \* rows the report asks for
    RecentDays,     \* lookback_days
    BaselineDays,   \* baseline_days
    ParseDrop,  \* the thresholds, in hundredths
    ErrorRise,
    DealDrop

ASSUME TrendsAssumption ==
    /\ {LastHour, MaxCrawls, RowLimit, RecentDays, BaselineDays} \subseteq Nat \ {0}
    /\ {Found, ErrorRise} \subseteq Nat /\ {ParseDrop, DealDrop} \subseteq Nat \ {0}

VARIABLES
    hour,
    crawls,     \* the runs in hand: their store and when each began
    stats,      \* the rows: one for each run that ended
    asked,      \* when the report took the time, 0 when none is made
    given,     \* the rows it was given
    there,      \* the rows in the table then
    alarms      \* the alerts: a store and the rate

trendVars == <<hour, crawls, stats, asked, given, there, alarms>>

Crawl == [n : 1 .. MaxCrawls, store : CrawledStores, began : 1 .. LastHour]
\* What pipeline and command line say of a run: it found nothing; it failed
\* before it could look; it read pages, some skipped, some not parsed, some
\* offers refused by the audit; or a stop signal threw its work away.
Empty == [discovered |-> 0, parsed |-> 0, errors |-> 0, confirmed |-> 0, skipped |-> 0]
Outcomes ==
    {Empty, [Empty EXCEPT !.errors = 1]}
    \cup {o \in [discovered : 1 .. Found, parsed : 0 .. Found, errors : 0 .. Found,
                  confirmed : 0 .. Found, skipped : 0 .. Found] :
              /\ o.parsed + o.skipped <= o.discovered
              /\ o.confirmed <= o.parsed
              /\ o.errors <= o.discovered - o.skipped - o.confirmed}
    \cup {o \in [discovered : 1 .. Found, parsed : {0}, errors : 1 .. Found + 1,
                  confirmed : {0}, skipped : 0 .. Found] : o.skipped < o.discovered}

Stat == [n : 1 .. MaxCrawls, store : CrawledStores, began : 1 .. LastHour, of : Outcomes]

TrendsTypeOK ==
    /\ hour \in 1 .. LastHour /\ asked \in 0 .. LastHour
    /\ crawls \subseteq Crawl
    /\ stats \subseteq Stat
    /\ given \subseteq there /\ there \subseteq stats
    /\ alarms \subseteq CrawledStores \X {"parse", "errors", "deals"}

TrendsInit ==
    /\ hour = 1
    /\ crawls = {} /\ stats = {}
    /\ asked = 0 /\ given = {} /\ there = {} /\ alarms = {}

Elapse ==
    /\ hour < LastHour
    /\ hour' = hour + 1
    /\ UNCHANGED <<crawls, stats, asked, given, there, alarms>>

\* A store's turn in the crawl, or another crawl of it by another process.
BeginCrawl(s) ==
    LET n == Cardinality(crawls) + Cardinality(stats) + 1
    IN  /\ n <= MaxCrawls
        /\ crawls' = crawls \cup {[n |-> n, store |-> s, began |-> hour]}
        /\ UNCHANGED <<hour, stats, asked, given, there, alarms>>

\* insert_run_stats: the row is of the time the run began.
EndCrawl(c, outcome) ==
    /\ c \in crawls /\ outcome \in Outcomes
    /\ crawls' = crawls \ {c}
    /\ stats' = stats \cup {[n |-> c.n, store |-> c.store, began |-> c.began,
                             of |-> outcome]}
    /\ UNCHANGED <<hour, asked, given, there, alarms>>

\* The process is killed: the run leaves no row.
LoseCrawl(c) ==
    /\ c \in crawls
    /\ crawls' = crawls \ {c}
    /\ UNCHANGED <<hour, stats, asked, given, there, alarms>>

\* run(): the time is taken before the rows are asked for.
AskReport ==
    /\ asked = 0
    /\ asked' = hour
    /\ UNCHANGED <<hour, crawls, stats, given, there, alarms>>

\* get_recent_runs: the rows that began last.  Rows that began together come in
\* no order, and the limit may part them.
RowsFor(rows) ==
    {some \in SUBSET rows :
        /\ Cardinality(some) = Min({RowLimit, Cardinality(rows)})
        /\ \A r \in some, q \in rows \ some : q.began <= r.began}

\* _filter_runs: from the start on, before the end.
Within(rows, from, to) == {r \in rows : r.began >= from /\ r.began < to}

RecentOf(rows) == Within(rows, asked - RecentDays, asked)
BaselineOf(rows) == Within(rows, asked - RecentDays - BaselineDays, asked - RecentDays)

\* The same with nothing missing where there is nothing.
ShareOfNothingIsAll(part, whole) == IF whole > 0 THEN (100 * part) \div whole ELSE 100

\* _compute_rates, in hundredths: a share of nothing is nothing.
Share(part, whole) == IF whole > 0 THEN (100 * part) \div whole ELSE 0

\* _aggregate: what the rows of a store add up to.
SumOf(rows, s, count) == MapThenSumSet(LAMBDA r : r.of[count], {r \in rows : r.store = s})

\* The rates of a store.
Rate(rows, s, kind) ==
    LET found == SumOf(rows, s, "discovered")
    IN  CASE kind = "parse" -> Share(SumOf(rows, s, "parsed"), found - SumOf(rows, s, "skipped"))
          [] kind = "errors" -> Share(SumOf(rows, s, "errors"), found)
          [] kind = "deals" -> Share(SumOf(rows, s, "confirmed"), found)

\* The thresholds: each rate has a bad direction.
IsAlarm(now, before, kind) ==
    CASE kind = "parse" -> before - now >= ParseDrop
      [] kind = "errors" -> now - before >= ErrorRise
      [] kind = "deals" -> before - now >= DealDrop

StoresIn(rows) == {r.store : r \in rows}

\* _build_report: a store with runs in both windows is compared with itself.
Alarmed(rows) ==
    {a \in (StoresIn(RecentOf(rows)) \cap StoresIn(BaselineOf(rows))) \X {"parse", "errors", "deals"} :
        IsAlarm(Rate(RecentOf(rows), a[1], a[2]), Rate(BaselineOf(rows), a[1], a[2]), a[2])}

\* The rows come, and with recent ones among them the report is written.
LoadReport(rows) ==
    /\ asked /= 0 /\ there = {}
    /\ rows \in RowsFor(stats)
    /\ IF RecentOf(rows) = {}
       THEN asked' = 0 /\ UNCHANGED <<given, there, alarms>>
       ELSE /\ given' = rows /\ there' = stats
            /\ alarms' = Alarmed(rows)
            /\ UNCHANGED asked
    /\ UNCHANGED <<hour, crawls, stats>>

ForgetReport ==
    /\ there /= {}
    /\ asked' = 0 /\ given' = {} /\ there' = {} /\ alarms' = {}
    /\ UNCHANGED <<hour, crawls, stats>>

TrendsNext ==
    \/ Elapse \/ AskReport \/ ForgetReport
    \/ \E s \in CrawledStores : BeginCrawl(s)
    \/ \E c \in crawls :
          LoseCrawl(c) \/ \E o \in Outcomes : EndCrawl(c, o)
    \/ \E rows \in SUBSET stats : LoadReport(rows)

TrendsSpec == TrendsInit /\ [][TrendsNext]_trendVars

-----------------------------------------------------------------------------

\* The limit takes from the past first: when any run of the baseline is
\* counted, every run of the recent window that had a row is counted too, even
\* though runs that began after the time was taken use up rows of the limit.
RecentIsWhole ==
    there /= {} /\ BaselineOf(given) /= {} => RecentOf(there) \subseteq given

\* No run is on both sides of a comparison, and one that had a row and is on
\* neither side is outside both windows or was cut off by the limit.
WindowsPartTheRuns ==
    there /= {} =>
        /\ RecentOf(given) \cap BaselineOf(given) = {}
        /\ \A r \in there \ (RecentOf(given) \cup BaselineOf(given)) :
              \/ r.began >= asked \/ r.began < asked - RecentDays - BaselineDays
              \/ r \notin given /\ Cardinality(given) = RowLimit

\* An alert is earned: its store has rows in the table from both windows, and
\* unless the limit cut its baseline short, all of its rows there, not only the
\* ones counted, show the change.
AlarmsAreEarned ==
    \A a \in alarms :
        /\ a[1] \in StoresIn(RecentOf(there)) /\ a[1] \in StoresIn(BaselineOf(there))
        /\ BaselineOf(there) \subseteq given =>
              IsAlarm(Rate(RecentOf(there), a[1], a[2]), Rate(BaselineOf(there), a[1], a[2]), a[2])

\* A store that could be read and of which no recent run parsed a page is
\* noticed, also when every run failed before it found a page and so counts no
\* share of errors at all.
DeadStoreIsNoticed ==
    there /= {} =>
        \A s \in StoresIn(RecentOf(there)) :
            LET ran == {r \in RecentOf(there) : r.store = s}
            IN  /\ \A r \in ran : r.of.parsed = 0
                /\ Rate(BaselineOf(given), s, "parse") >= ParseDrop
                => \E a \in alarms : a[1] = s

\* The windows of the report lose no run to one another or to the limit, and it
\* raises the alarms they earn and no others.
ReportIsEarned == RecentIsWhole /\ WindowsPartTheRuns /\ AlarmsAreEarned /\ DeadStoreIsNoticed
=============================================================================
