------------------------------ MODULE StoreImport ------------------------------
(***************************************************************************)
(* One legacy-import pass (cli._run_legacy_import): the enabled stores one *)
(* after the other, each through MonitoringPipeline.run_store, which parses *)
(* its urls in concurrent tasks over one shared ScrapeClient and then      *)
(* stores their offers one by one; then the health check, the artifacts    *)
(* and, at the end, the combined report.                                   *)
(***************************************************************************)
EXTENDS ScrapeClient, FiniteSetsExt

CONSTANTS
    Stores,         \* enabled stores of the pass
    MaxConcurrency  \* _MAX_CONCURRENCY

ASSUME ImportAssumption == Stores \in Nat \ {0} /\ MaxConcurrency \in Nat \ {0}

VARIABLES
    store,      \* the store being run, 1..Stores
    turn,
    total,      \* urls its discovery returned
    task,       \* what _parse_url of each url has come to
    audited,    \* offers the audit loop has looked at
    errors,     \* error_count
    deals,      \* deals found in this store
    stats,      \* pipeline.last_stats, with last_error_snippet's block signal
    evaluated,  \* stores whose run the health monitor has recorded
    alerts,     \* alert mails sent, by <<store, issue>>
    collected,  \* len(all_deals)
    found,      \* deals whose price point was stored, over all stores (history)
    report      \* the combined report: "none", "sent", or "lost"

importVars == <<clientVars, store, turn, total, task, audited, errors, deals, stats,
          evaluated, alerts, collected, found, report>>
passVars == <<evaluated, alerts, collected, report>>

Phases == {"build", "discover", "parse", "audit", "health", "closing", "done"}
Running == {"fetching", "parsing"}
Outcomes == {"offer", "nil", "skip", "stop"}
Issues == {"IP_RESTRICTED", "DISCOVERY_EMPTY", "PARSE_RATE_LOW"}
StatsSet == [store: 0..Stores, discovered: Nat, parsed: Nat, errors: Nat,
             deals: Nat, skipped: Nat, restricted: BOOLEAN]

Started == 1..total
Tasks(where) == {u \in Started : task[u] \in where}

ImportTypeOK ==
    /\ ClientTypeOK
    /\ store \in 1..Stores + 1 /\ turn \in Phases
    /\ total \in 0..MaxUrls /\ audited \in 0..MaxUrls
    /\ task \in [Urls -> {"queued"} \cup Running \cup Outcomes]
    /\ errors \in Nat /\ deals \in 0..MaxUrls /\ stats \in StatsSet
    /\ evaluated \subseteq 1..Stores /\ alerts \subseteq (1..Stores) \X Issues
    /\ collected \in Nat /\ found \in Nat
    /\ report \in {"none", "sent", "lost"}

NoStats == [store |-> 0, discovered |-> 0, parsed |-> 0, errors |-> 0,
            deals |-> 0, skipped |-> 0, restricted |-> FALSE]

ImportInit ==
    /\ ClientInit
    /\ store = 1 /\ turn = "build" /\ total = 0
    /\ task = [u \in Urls |-> "queued"]
    /\ audited = 0 /\ errors = 0 /\ deals = 0 /\ stats = NoStats
    /\ evaluated = {} /\ alerts = {} /\ collected = 0 /\ found = 0
    /\ report = "none"

\* _set_run_stats.
SetStats(parsed, errs, confirmed, restricted) ==
    stats' = [store |-> store, discovered |-> total, parsed |-> parsed,
              errors |-> errs, deals |-> confirmed,
              skipped |-> Cardinality(Tasks({"skip"})), restricted |-> restricted]

(***************************************************************************)
(* Discovery.                                                              *)
(***************************************************************************)

\* The adapter's constructor: when it raises, run_store does not run and the
\* pass goes on with a RunStats of its own; the error snippet is still the
\* one of the store before.
BuildAdapter ==
    /\ turn = "build" /\ store <= Stores
    /\ \/ turn' = "discover" /\ UNCHANGED stats
       \/ /\ turn' = "health"
          /\ stats' = [NoStats EXCEPT !.store = store, !.errors = 1,
                                      !.restricted = stats.restricted]
    /\ UNCHANGED <<clientVars, store, total, task, audited, errors, deals,
                   passVars, found>>

\* The locals of run_store are gone when it returns.
ReturnFromStore ==
    /\ total' = 0 /\ audited' = 0 /\ errors' = 0
    /\ task' = [u \in Urls |-> "queued"]
    /\ attempt' = [u \in Urls |-> 1]
    /\ turn' = "health"

Discover ==
    /\ turn = "discover"
    /\ \E n \in 1..MaxUrls : total' = n
    /\ turn' = "parse"
    /\ UNCHANGED <<clientVars, store, task, audited, errors, deals, stats,
                   passVars, found>>

\* It raised (one error) or it found nothing (no error).
DiscoverNothing ==
    /\ turn = "discover"
    /\ \E errs \in {0, 1} : SetStats(0, errs, 0, FALSE)
    /\ turn' = "health"
    /\ UNCHANGED <<clientVars, store, total, task, audited, errors, deals,
                   passVars, found>>

(***************************************************************************)
(* The tasks of _parse_url.                                                *)
(***************************************************************************)

PassBecomes(u, what) == task' = [task EXCEPT ![u] = what]

\* The semaphore lets the tasks in in the order they were created.
EnterSemaphore(u) ==
    /\ turn = "parse" /\ u \in Started /\ task[u] = "queued"
    /\ \A v \in 1..u - 1 : task[v] # "queued"
    /\ Cardinality(Tasks(Running)) < MaxConcurrency
    /\ PassBecomes(u, "fetching")
    /\ StartFetch(u)
    /\ UNCHANGED <<shared, page, store, turn, total, audited, errors, deals, stats,
                   passVars, found>>

Fetch(u) ==
    /\ turn = "parse" /\ u \in Started /\ task[u] = "fetching"
    /\ FetchStep(u)
    /\ UNCHANGED <<store, turn, total, task, audited, errors, deals, stats,
                   passVars, found>>

\* A page goes to the store's parser; an error ends in safe_parse, which
\* logs it and returns None; only the stop signal leaves parse_product.
FetchEnds(u) ==
    /\ turn = "parse" /\ task[u] = "fetching"
    /\ \/ fetch[u] = "page" /\ PassBecomes(u, "parsing")
       \/ fetch[u] = "failed" /\ PassBecomes(u, "nil")
       \/ fetch[u] = "stopped" /\ PassBecomes(u, "stop")
    /\ UNCHANGED <<clientVars, store, turn, total, audited, errors, deals, stats,
                   passVars, found>>

\* parse_product's finally clause closes the page whatever the parser did.
ParseEnds(u) ==
    /\ turn = "parse" /\ task[u] = "parsing"
    /\ \E what \in {"offer", "nil", "skip"} : PassBecomes(u, what)
    /\ page' = [page EXCEPT ![u] = FALSE]
    /\ UNCHANGED <<shared, fetch, attempt, store, turn, total, audited, errors,
                   deals, stats, passVars, found>>

\* The stop signal ends gather: every task that is left is cancelled, and
\* what the others parsed is dropped.  The blocked url is an error, and the
\* stop itself is one more.
StopStore ==
    /\ turn = "parse" /\ Tasks({"stop"}) # {}
    /\ CancelFetches(Tasks({"queued"} \cup Running))
    /\ SetStats(0, 2, 0, TRUE)
    /\ ReturnFromStore
    /\ UNCHANGED <<store, deals, passVars, found>>

Gather ==
    /\ turn = "parse"
    /\ Tasks({"offer", "nil", "skip"}) = Started
    /\ turn' = "audit"
    /\ UNCHANGED <<clientVars, store, total, task, audited, errors, deals, stats,
                   passVars, found>>

(***************************************************************************)
(* The audit loop, one offer after the other.                              *)
(***************************************************************************)

\* No offer; one the validator, the anomaly rule or the database refuses;
\* one that is stored, as a deal or not.
AuditNext ==
    /\ turn = "audit" /\ audited < total
    /\ audited' = audited + 1
    /\ \/ task[audited'] # "offer" /\ UNCHANGED <<errors, deals, found>>
       \/ /\ task[audited'] = "offer"
          /\ \/ errors' = errors + 1 /\ UNCHANGED <<deals, found>>
             \/ deals' = deals + 1 /\ found' = found + 1 /\ UNCHANGED errors
             \/ UNCHANGED <<errors, deals, found>>
    /\ UNCHANGED <<clientVars, store, turn, total, task, stats, passVars>>

\* Mutant: the error snippet of the store before is kept.
FinishStoreStaleSnippet ==
    /\ turn = "audit" /\ audited = total
    /\ SetStats(Cardinality(Tasks({"offer"})), errors, deals, stats.restricted)
    /\ fetch' = [u \in Urls |-> "off"]
    /\ ReturnFromStore
    /\ UNCHANGED <<shared, page, store, deals, passVars, found>>

FinishStore ==
    /\ turn = "audit" /\ audited = total
    /\ SetStats(Cardinality(Tasks({"offer"})), errors, deals, FALSE)
    /\ fetch' = [u \in Urls |-> "off"]
    /\ ReturnFromStore
    /\ UNCHANGED <<shared, page, store, deals, passVars, found>>

(***************************************************************************)
(* HealthMonitor.evaluate and the end of the pass.                         *)
(***************************************************************************)

Effective(s) == s.discovered - s.skipped

IssuesOf(s) ==
    (IF s.restricted THEN {"IP_RESTRICTED"} ELSE {})
    \cup (IF s.discovered = 0 THEN {"DISCOVERY_EMPTY"}
          ELSE IF Effective(s) > 0 /\ 10 * s.parsed < 7 * Effective(s)
               THEN {"PARSE_RATE_LOW"} ELSE {})

\* The run is recorded and judged; a restricted store leaves no artifacts
\* and its deals are not collected.
Evaluate ==
    /\ turn = "health"
    /\ evaluated' = evaluated \cup {store}
    /\ alerts' = alerts \cup {<<store, i>> : i \in IssuesOf(stats)}
    /\ collected' = IF "IP_RESTRICTED" \in IssuesOf(stats)
                    THEN collected ELSE collected + deals
    /\ store' = store + 1
    /\ turn' = IF store' <= Stores THEN "build" ELSE "closing"
    /\ deals' = 0
    /\ stats' = [NoStats EXCEPT !.restricted = stats.restricted]
    /\ UNCHANGED <<clientVars, total, task, audited, errors, report, found>>

\* The combined artifact and the mail; a combined artifact that cannot be
\* written ends the pass with the exception.
FinishPass ==
    /\ turn = "closing"
    /\ turn' = "done"
    /\ \/ collected > 0 /\ report' \in {"sent", "lost"}
       \/ collected = 0 /\ UNCHANGED report
    /\ UNCHANGED <<clientVars, store, total, task, audited, errors, deals, stats,
                   evaluated, alerts, collected, found>>

Done == turn = "done" /\ UNCHANGED importVars

ImportNext ==
    \/ BuildAdapter \/ Discover \/ DiscoverNothing
    \/ \E u \in Urls : EnterSemaphore(u) \/ Fetch(u) \/ FetchEnds(u) \/ ParseEnds(u)
    \/ StopStore \/ Gather \/ AuditNext \/ FinishStore
    \/ Evaluate \/ FinishPass \/ Done

ImportSpec == ImportInit /\ [][ImportNext]_importVars

\* Every await of the pass ends (page loads time out, back-offs are finite)
\* and the event loop runs what is ready.
ImportFairSpec == ImportSpec /\ WF_importVars(ImportNext)

(***************************************************************************)
(* Properties.                                                             *)
(***************************************************************************)

\* A store that is gathered without a stop has closed every page it opened,
\* on every path through retries, errors, skips and parses (fetch_page and
\* the adapters' finally clauses).
PagesAreClosed == turn = "audit" => \A u \in Urls : ~page[u]

\* The report holds every deal whose price point the pass has
\* stored: a deal that is stored and then left out would never be found
\* again, since the next pass compares with the stored price (cli.py's
\* continue on IP_RESTRICTED against run_store's early return).
ReportTellsAll ==
    turn = "done" /\ report # "lost" => collected = found

\* The numbers the health check divides agree: the urls that were skipped and
\* the offers are different urls, so the parse rate is a rate; the audit
\* accounts for every offer at most once; a stopped store has neither
\* (run_store's counts come from lists that the tasks append to).
StatsAddUp ==
    turn = "health" =>
        /\ stats.store = store
        /\ stats.parsed + stats.skipped <= stats.discovered
        /\ stats.parsed > 0 => stats.deals + stats.errors <= stats.parsed
        /\ stats.restricted => stats.parsed = 0 /\ stats.deals = 0

\* A pass that has built its first adapter ends, whatever fails, is retried,
\* blocked or cancelled on the way.
PassEnds == turn # "build" ~> turn = "done"

\* The pass over the stores leaves nothing behind: no open page, no deal that
\* is stored and not reported, no page that is counted twice.
PassIsSound == PagesAreClosed /\ ReportTellsAll /\ StatsAddUp
=================================================================================
