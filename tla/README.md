# DealWatch in TLA+

DealWatch watches product prices. An operator creates *watch tasks* (one
product page) and *watch groups* (several candidate pages for one product); a
worker process runs the ones that are due, stores what it saw, alerts by e-mail
when a threshold is reached, and keeps health columns from which an operator's
recovery inbox is built. The API runs monitors on demand, edits them, compares
pasted product pages, and answers pages that put rows, files and AI narratives
together. Beside it lives the older crawl: store by store, into a SQLite price
history and dated folders, with jobs that index, replay, report on and prune
what it leaves. Every request, run and job has a session or a process of its
own; they meet in PostgreSQL, in SQLite and in the file system.

These modules model what those sessions read, lock, compute, write and commit,
in which order, and what happens when they overlap, fail or die. Paths below
are relative to `src/dealwatch/` of the repository.

## 1. Inventory

| Part | State it keeps | What is hard about it | What makes it correct |
|---|---|---|---|
| Task runtime (`application/services.py`, `runtime_notifications.py`, `runtime_attention.py`) | `watch_tasks`, `task_runs`, `delivery_events` | the overlap guard has no lock; a ValueError leaves the function with the run RUNNING; PATCH and runs write one row, column by column; a mail cannot be rolled back | no failure hides from the inbox, a block stops automation, a pause survives, an alert keeps its cooldown, a run ends |
| Group runtime (`services.py`, `runtime_watch_groups.py`) | `watch_groups`, `watch_group_runs`, `delivery_events` | the lock is taken and given back before the fetches; the outcome is applied to an object read minutes before | runs follow one another, each counted once, on the row as it is; the cooldown holds; a run ends |
| Worker (`worker/main.py`) | APScheduler jobs | the list is read once; one ValueError ends the tick; deaths leave RUNNING rows | a due monitor waits only for its own kind, or for a wedged run |
| Recovery inbox, operator pages (`services.py`, `runtime_attention.py`) | none | several queries at READ COMMITTED beside runs that commit; files read afterwards; a provider awaited | a page does not contradict itself and holds no lock while it waits |
| Group decision (`runtime_watch_groups.py`) | columns of `watch_group_runs` | ties; former runs that failed with a winner; a page that mixes columns of the run and of now | the winner is the cheapest, the explanation agrees with the run, an alert is a real fall |
| Notification settings (`services.py`) | preferences and the rule of each task | one policy copied to many rows by sessions that merge columns | a saving reaches the rules it should, and says what it did |
| Delivery webhook (`api/app.py`, `providers/email`) | `delivery_events` | callbacks duplicated, reordered, before the commit they are about | what Postmark reported is shown, what was answered has left its mark |
| Compare intake (`application/compare_evidence.py`, `services.py`) | a page's rows, packages | rows fail one by one, stores are switched meanwhile, rows are checked twice | evidence, hint and recommendation agree; the group is whole or not made |
| Shadow review and replay corpus (`jobs/recommendation_evaluation.py`) | packages, a log, marks, two index files | no lock, deaths between any two writes | a review given stands; the indexes agree; a campaign keeps the reviews |
| AI integration (`application/ai_integration.py`) | none | limits cut lists; providers fail in many ways | the envelope is whole and blames the right side |
| Store switchboard (`persistence/store_bindings.py`) | `store_adapter_bindings` | every start of a process rewrites what an operator set | one register, there before anybody reads it |
| Configuration, preflight (`infra/config.py`, `runtime_preflight.py`) | the environment | changes while the page that judges it reads | what is ready was earned; stricter targets refuse more |
| Scrape engine, legacy pass (`infra/playwright_client.py`, `retry_budget.py`, `core/pipeline.py`, `cli.py`) | one browser context, a retry budget, statistics | concurrent fetches share all of it; a block stops a store | retries stay within the budget, pages are closed, each url is counted once |
| Store adapters (`stores/*/parser.py`) | notes for the next failure | many places for one value, of several sellers | an offer is of one product that is for sale |
| Price history (`legacy/db_repo.py`, `core/rules.py`) | SQLite rows | retention between any two queries; outliers | a low is a low; a regular price is not refused |
| Legacy schema (`legacy/db_repo.py`, `infra/migrations.py`) | columns, version | an upgrade may die between statements | the version never runs ahead |
| Folders, index, replay, reports (`core/artifacts.py`, `jobs/run_index.py`, `failure_replay.py`, `run_report.py`, `artifact_audit.py`, `artifact_report.py`) | dated folders with index files | midnight, several writers, a sweep meanwhile; shared retries; row limits | entries lie by their files, each entry is replayed once, windows lose no run |
| Housekeeping (`jobs/maintenance.py`) | files, caches, a lock file | a directory is found empty, then removed; a pass may die; the budget keeps a count of its own | passes exclude one another, take only what is old, and tell the truth |
| Builder surfaces, MCP, CLI output, browser debug lane, redaction | none | no control | not modelled |

## 2. Modules

    MonitorRow             the health columns and what the code assigns to them
      GroupRuns            the runs of one group     => SequentialMonitor
      TaskRuns             the runs of one task
    DueLoop                the worker's tick over all monitors
    GroupDecision          what a group's runs decide, and what its page says
    OperatorPages          pages and the inbox beside the runs they report on
    AlertSettings          the saving of the notification settings
    Deliveries             one alert mail and the callbacks about it
    CompareIntake          from pasted urls to evidence to a group
    ShadowReview           packages, reviews, and the files that follow them
    ReplayCorpus           the replay campaign over the runtime's summaries
    AiNarrative            what becomes of a provider's answer
    StoreSwitches          starts and PATCHes on a switch => SwitchRegister
    RuntimeReadiness       the environment, the start, the readiness page
    ScrapeClient           the shared browser context and retry budget
      StoreImport          the pass over the stores
    PageReading            what a parser makes of a product page
    PriceHistory           the audit of an offer, and retention
    SchemaUpgrade          the upgrade of a database of any age
    RunFolder              the folder of a day
    DayReports             the readers of the days' folders, and the sweep
    FailureReplay          the replay of a day's failures
    RunTrends              the report on many runs
    Housekeeping           retention of evidence against running runs
    CacheBudget            the cache budget of a maintenance pass

`SequentialMonitor` and `SwitchRegister` are the abstract specifications: a
monitor whose runs follow one another and are counted once, and a register
each request changes at one moment. `MC*` modules hold instances for TLC,
`*Proofs` the theorems.

**Rows and sessions.** A monitor row is a record of the columns the runtime
decides on. `Read` and `Flush` are the ORM: an UPDATE has only the columns whose
value in the object differs from the one that was read, and a time computed
later always differs. `AlertSettings`, `Deliveries` and `StoreSwitches` follow
the same rule. Times count down to zero; `Aged` is a unit of time.

**Runs.** `GroupRuns` and `TaskRuns` have one action per database interaction:
the locked or plain read, the guard, the commit of the RUNNING row, the fetches,
the flush whose UPDATE locks the row, the mail, the caller's commit, and a PATCH
and a death at any point. `OperatorPages` looks at the same runs from outside:
what is committed when, and what each query of a page sees of it.

**Decisions.** `GroupDecision`, `PageReading`, `AiNarrative`, `CompareIntake` and
`RunTrends` are mostly operators: what the code computes, over inputs from small
sets, with properties that state the meaning rather than the computation.
`known` (the last decision), `met` (sessions that overlapped), `patched`,
`streak`, `dead`, `granted` and the like are history variables.

**Files.** In `ShadowReview`, `RunFolder`, `DayReports`, `FailureReplay` and
`Housekeeping` each write is a step, because others read or sweep in between.

**The old crawl.** `StoreImport` extends `ScrapeClient`: its tasks are the
processes of the client, and a pass visits the stores one after another.

Constants of a module are unbounded sets and numbers with the assumptions its
proofs need; the bounds are in the `.cfg` files only.

## 3. Runs

Small modules share a run. `MCSchedules`, `MCRecords` and `MCServices` have a
*lane* per module: a behaviour stays in the lane it begins in, and the variables
of the others rest at an initial value, so the states are the sum of the lanes',
not their product. Nothing is lost: the modules of one run share no state.

| Run | Bounds | Shows |
|---|---|---|
| `group_runs` | 1 worker, 1 caller, 1 operator, 3 runs, cooldown 1 | the lock keeps runs apart (`AtMostOneRunning`, `RunsAreSequential`), hence no lost count (`FailureCountExact`), no stale verdict (`VerdictOnCurrentRow`), no repeated alert even after a death (`AlertsKeepCooldown`) |
| `group_live` | 2 runs | `RunEndsOrDies` under `FairSpec` |
| `task_runs` | 2 runs, 1 operator, rows that failed 0, 1 or 2 times | `FailureReachesInbox`, `BlockStopsAutomation`, `PauseLostOnlyToEscalation` under overlapping runs and PATCHes; `RepeatNeedsDeath` |
| `schedules` | 2 tasks and 2 groups, 2 disruptions; 2 cleaners, 4 runs; 4 cache items; 2 stores of 2 urls, 2 attempts, 1 retry; 2 processes and an operator | `DueMonitorsRun` (who may starve in a tick), `PassesAreSafe`, `BudgetIsTold`, `ClientIsSound`, `PassIsSound`, `SwitchesAreSafe`; `EveryPassEnds` |
| `records` | 4 samples of 3 prices and 5 days; 2 products; 2 pages and 2 days; 4 index lines, 2 slots, 2 retries; 3 crawls; 3 members and 2 runs; 3 items of a list | `LowsAreTrue`, `RegularPricePasses`, `VersionIsHonest`, `FolderIsTrue`, `ReplayIsTrue`, `ReportIsEarned`, `DecisionIsSound`, `ReadingIsSound`, `NarrativeIsSound` |
| `services` | 4 urls of 2 stores; 2 tasks and 2 cooldowns; 3 jobs on 2 artifacts; 1 campaign over 3 runs; 2 runs of a task and 1 of a group, of which at most two begin (`TwoRunsBegin`); 4 callbacks; 3 days | `EvidenceIsSound`, `IntakeIsSafe`, `SavingIsTrue`, `ReviewsAreSafe`, `CorpusIsSound`, `PagesAreSound`, `ReadinessIsHonest`, `ReportsAreTrue`, `DayIsTold` |
| `task_overlap`, `task_wedge`, `group_changed`, `housekeeping_race`, `budget_failure`, `backfill` | the smallest that show it | counterexamples, see below |

A property such as `PagesAreSound` is the conjunction of what its module
promises, each part defined and explained just above it.

**Why the bounds are enough.** Every race here is between a pair: two sessions,
two processes, a reader and a writer. Two of each are there, with a third run
where a third failure counts, a third cleaner's place taken by a death, a third
member so that the winner, the runner-up and the tie of two members of a store
are different. Limits are small enough to be passed: one retry for two failing
pages, two slots for three entries, a row limit of two for three crawls, a
pattern limit of two for three cases, three items of a list for a draft of four.
Sizes 0, 1 and 3 around a budget of 4 make the cache loop stop at every place.
`p` and `q` in `services` are patterns of a case and interchangeable, as run ids
are in the first runs: hence the symmetry sets; no liveness is checked there.

**Fairness.** `FairSpec` of the run modules assumes that an await in a started
run returns or raises (fetches, SMTP and queries have timeouts) and that
PostgreSQL grants row locks in order, hence strong fairness for the steps that
wait for the row. It does not assume that anybody starts a run nor that
processes stay alive. In `DueLoop` the interval trigger fires again and again
(`WorkerTick`) and a run asked for by hand ends (`EndManualRun`). A maintenance
pass goes on unless its process dies (`CleanerStep`): it awaits nothing. A crawl
goes on (`ImportNext`): its awaits have timeouts.

**Deadlock** is checked in `group_runs`, `group_live`, `task_runs` and
`schedules`. In `records` and `services` a lane ends when its bounded inputs are
used up, so it is not checked there, nor for a budget's pass, which ends.

**Disagreements the runs show.** `task_overlap`: the guard of tasks is
check-then-insert without a lock. `task_wedge`: an offer that does not parse
leaves its run RUNNING, and the branch that would record it is unreachable.
`group_changed`: the page calls a winner cheaper when the former one was only
not fetched. `housekeeping_race`: a directory found empty is removed with the
run that was started meanwhile. `budget_failure`: a removal that fails counts as
reclaimed, and the pass stops early. `backfill`: one product of two stores keeps
every row of an upgraded history from getting its store. PROJECT.json quotes the
lines.

## 4. Proofs

Every invariant and every safety property of the passing runs is proved for every
value of the constants; what is left to TLC is named below. Each theorem is an
inductive invariant, one lemma per kind of step, and a temporal step at the end.
The type invariant of each module is proved with it.

| proof module | of the models |
|---|---|
| `GroupRunsProofs` | `GroupRuns`, against `SequentialMonitor` |
| `TaskRunsProofs` | `TaskRuns` |
| `MonitorRowProofs`, `SetLemmas` | lemmas that the others share |
| `ScheduleProofs` | `Housekeeping`, `CacheBudget`, `DueLoop`, `StoreSwitches` against `SwitchRegister`, `StoreImport` with `ScrapeClient`; `MCSchedules` |
| `RecordProofs` | `PriceHistory`, `SchemaUpgrade`, `RunFolder`, `PageReading`, `AiNarrative`, `RunTrends`, `GroupDecision`, `FailureReplay`; `MCRecords` |
| `ReviewProofs` | `ShadowReview`, `ReplayCorpus`, `DayReports` |
| `ServiceProofs` | `Deliveries`, `RuntimeReadiness`, `AlertSettings`, `CompareIntake`, `OperatorPages`; `MCServices` |

`MCSchedules`, `MCRecords` and `MCServices` put modules beside each other for one
run; in each behaviour only one of them moves. That this changes none of them is proved too
(`SchedulesAreTheirParts` and its like): the composition implements the
specification of every part, so each theorem about a part is one about the
composition, and the types of all its parts hold at once (`SchedulesStayTyped`,
`RecordsStayTyped`, `ServicesStayTyped`).

**`GroupRunsProofs`.** The exclusion: a session between
its locked read and its insertion holds the lock (`GuardHoldsLock`), what it
checked stays true while it does (`CheckedStaysTrue`), a session in its run has
a RUNNING row (`RunIsRunning`), and one session at most is there (`OneInRun`).
None of these is inductive alone. From it: a session past its read has the row's
count (`CountIsCurrent`) and, without a PATCH, the row (`ObjectIsCurrent`), since
`CommitsAlone`; and `GroupRuns` implements `SequentialMonitor`. The cooldown
looks at committed events only; `MailIsRecorded` says that the last mail is one
of them, or its session is about to commit, or a session died in its run, and
then the dead run stays RUNNING: the wedge that keeps a group from running also
keeps it from alerting twice.

**`TaskRunsProofs`.** A task has no exclusion. `RunInv` says that no session read
a paused row to run it, that the row's lock is held from the flush on, and that
a run is its session's own; `DeadStayRunning` and `MailIsRecorded` carry the
cooldown over any overlap until a death takes an event with it.

**`ScheduleProofs`.** A pass that is not idle holds the lock, so its listing
stays true, and the directory of a task goes only when no fresh run was seen in
it. What the worker runs is busy, so a due monitor leaves the list only by
having been run, whatever disrupts it (`DueStaysUntilRun`). A switch's row stays
once it is there (`RowStays`), and a request takes effect at one moment, which is
the refinement of `SwitchRegister`. A pass over the stores: the retries granted
and left add up to the budget, who makes the context holds its lock, a page
belongs to the task that fetches with it, and the statistics count each url once
at each stage (`BooksBalance`, `StatsAddUp`). The cache budget
(`BudgetInv`): the items listed come before those still to be taken, and what the
pass counts as used is the size of what it has not listed; so it never goes
further than a dry run, whatever fails.

**`RecordProofs`.** The price history: the row that retention spares for its
price carries the memory of all that are gone (`LowIsKept`), so no query of an
audit sees a difference and a new low is below every price ever stored; the
invariant says it of what an audit has already read as well (`LowIsRead`). The
folder: filing happens in order (`FilingIsOrdered`), notes are a page's own until
another page of the store is in hand (`NotesAreOwn`), and a board tells what
its stores had when it was made (`BoardsAreTrue`). The schema's version, and
the reading of a page for any amounts, follow from invariants near them.
The report on the runs: the rows that the limit keeps are the latest, so a row
it dropped began no later than one it kept; sums of counts that are each within
another's are within its sum, so a rate is at most 100, and a store whose rows
parsed nothing has the rate 0. The decision of a group: the ranking lists every
fetched candidate once, each before those that are worse (`RankingLists`), so
its first is no dearer than any other and the page's explanation, which compares
again, agrees with the sort; `DecisionInv` keeps that for the latest run and the
last one with a winner. The replay: what a slot holds, what the report lists and
what was taken from the index are one order (`ToldInOrder`), and the retries
spent by the entries add up to what the budget has granted (`GrantedTotal`). The
rules against odd prices (`RegularPricesPass`): of sorted samples a quarter of
which is one price, the quartiles enclose it, so their rule does not refuse it;
the deviation of the price from the mean weighs on the variance as often as the
price occurs (`SquaresWeigh`), so its z-score is below 2; and where all samples
are one price the shift is 0. The theorem supposes settings for which this is so
(`SettingsAreUsual`, which the defaults of config.py satisfy and which nothing
there enforces): a multiplier of 1 or more, a z-score of 2 or more, limits above
0. A narrative is made of the request's lines and the draft's, cut at the limits
(`UpTo`), and the anchors come first; each request is shown to fit the envelope
for any number of risks and groups (`FitsEnvelope`).

**`SetLemmas`.** What these need about finite sets: a set of numbers has a least
element and a bounded one a greatest, a finite set under a total order can be
listed in it (`SetSorts`), and how the library's sums behave (`TotalTakes`,
`TotalOfSame`, `TotalGrows`). Induction is by a least counterexample: were the
claim false of a set, it would be false of one with the fewest elements
(`LeastSubset`), and taking an element from that one refutes it. So nothing here
needs an induction theorem that takes an operator.

**`ServiceProofs`.** Deliveries: a status is backed by a callback that came,
committed or about to be. Readiness: the page judges what the start has judged,
in the same classes. Settings: a save that nobody met leaves the rules it read.
Intake: the accepted rows are those that were ready, then checked twice, and the
counts of the evidence are numbers of rows. Pages: after the first n queries a
page has seen the first n parts, each within what later ones see
(`SeesInOrder`), and the page of a task holds the row from its first query, so
that no run of the task can end while it is built (`HoldsRow`). For its signal,
the order in which runs found a price and the order in which they concluded from
it are compared (`SignalInv`): while runs of the task do not overlap, the one
that is open is the last that found anything, the low it had read is the least
price of those that had ended before its own, and the latest of the one order is
the latest of the other.

**`ReviewProofs`.** Whatever dies where, a mark has its line in the log and the
log only grows (`ReviewInv`); while one job works at a time and none has died the
indexes agree (`Calm`). The replay
campaign (`CorpusInv`): unless it met a review, a case in hand is prepared with
what the log still says of it (`QueueIsTrue`), and after a reset what was
ingested of an origin is the number of its artifacts, each written under an id
that was free (`BuiltAnew`). The case whose turn it is precedes all that wait
(`NextIs`), which is why no repeat comes before a first. The readers of the days:
a file that is not swept away only grows, so what a job counts in it lies between
the file as the job began and the file now (`CountsFairly`), and a page is opened
after its data was written.

Assumptions are named in the module that declares the constants and say only
that ids of different kinds differ, that numbers are in the ranges configuration
admits, and that reserved names are not taken.

**Only model-checked.** Liveness: `RunEndsOrDies`, `EveryPassEnds` and
`DueMonitorsRun`. The prover has no rules for fairness and ENABLED. Of
`DueMonitorsRun` the safety half is proved (`DueUntilRun` in `DueStaysUntilRun`:
a due monitor leaves the schedule only by having been run), and every `...TypeOK`
such an argument would need. No model has a RECURSIVE operator; what a recursive
function computes is proved only where a least counterexample suffices in place
of induction (`SetLemmas`).

## 5. Assumptions, and what is left out

* PostgreSQL at READ COMMITTED, as `runtime_preflight.py` demands; SQLite, used
  by tests, ignores FOR UPDATE.
* In `GroupRuns` and `TaskRuns` the threshold types are those the frontend
  sends; another one, which PATCH accepts, is in `GroupDecision`. A group's
  members do not change. Operators send `active` and `paused`; an edit of
  other fields is `keep`. A monitor has one recipient.
* A group listed as due that came to need manual intervention is run once more:
  the models have the behaviour, and no property forbids it.
* The compare page admits a percentage of 0 for a drop. Then a price that has not
  changed alerts, and `DropAlertsAreFalls` asks only that it has not risen.
* A task that is created while notifications are switched off alerts: the
  same.
* `rmtree` removes a tree or, when it fails, nothing; in the code it may fail
  halfway. Sizes do not change while the budget is enforced. Backups and VACUUM
  are left out, as are the legacy mail and its AI summary.
* String similarity, page texts and provider answers are inputs. Prices are
  whole units or cents; the layout of pages, mails and reports is left out.
* The browser, Postmark, AI providers and the stores are external: any answer
  the code tells apart may come.

## 6. Plan

1. The two hazards that no property covers: what a due group that came to need
   manual intervention may do, and what a task created while notifications are off
   may send, once the documentation says what is meant.
2. The browser debug lane and the builder surfaces, which keep little state.
3. In `RegularPricesPass`, settings beyond `SettingsAreUsual`, once configuration
   enforces a range for them.
