------------------------------ MODULE ScrapeClient ------------------------------
(***************************************************************************)
(* The browser client of infra/playwright_client.py: one context, one      *)
(* retry budget and one streak of blocked pages, shared by the tasks that  *)
(* fetch product pages at the same time.  fetch[u] says where the task of  *)
(* url u is in fetch_page; every value is a point where the code awaits.   *)
(***************************************************************************)
EXTENDS Naturals, FiniteSets

CONSTANTS
    MaxUrls,        \* urls one discovery may return
    RetryAttempts,  \* _RETRY_ATTEMPTS
    BudgetSize,         \* PLAYWRIGHT_RETRY_BUDGET; 0 configures none
    StreakLimit     \* _BLOCKED_STREAK_LIMIT

ASSUME ClientAssumption ==
    /\ MaxUrls \in Nat \ {0} /\ RetryAttempts \in Nat \ {0}
    /\ BudgetSize \in Nat /\ StreakLimit \in Nat \ {0}

Urls == 1..MaxUrls
Nobody == 0

VARIABLES
    context,    \* _context: "none", "opened" (not routed yet) or "ready"
    ctxLock,    \* who holds _context_lock, or Nobody
    retries,    \* _retry_budget.remaining
    blockStreak,     \* _blocked_streak
    fetch,      \* where each task is in fetch_page
    attempt,    \* the attempt of _retry_async it is in
    page,       \* whether the page it opened is still open
    granted     \* retries granted since the client was started (history)

clientVars == <<context, ctxLock, retries, blockStreak, fetch, attempt, page, granted>>
shared == <<context, ctxLock, retries, blockStreak, granted>>

InFetch == {"context", "lock", "create", "route", "open", "load", "blocked", "backoff"}
Results == {"page", "failed", "stopped"}

ClientTypeOK ==
    /\ context \in {"none", "opened", "ready"}
    /\ ctxLock \in Urls \cup {Nobody}
    /\ retries \in 0..BudgetSize /\ blockStreak \in Nat /\ granted \in Nat
    /\ fetch \in [Urls -> InFetch \cup Results \cup {"off"}]
    /\ attempt \in [Urls -> 1..RetryAttempts]
    /\ page \in [Urls -> BOOLEAN]

ClientInit ==
    /\ context = "none" /\ ctxLock = Nobody
    /\ retries = BudgetSize /\ blockStreak = 0 /\ granted = 0
    /\ fetch = [u \in Urls |-> "off"]
    /\ attempt = [u \in Urls |-> 1]
    /\ page = [u \in Urls |-> FALSE]

Goto(u, where) == fetch' = [fetch EXCEPT ![u] = where]

StartFetch(u) ==
    /\ Goto(u, "context")
    /\ attempt' = [attempt EXCEPT ![u] = 1]

(***************************************************************************)
(* get_context.                                                            *)
(***************************************************************************)

\* The check before the lock: a context that exists is used as it is.
LookForContext(u) ==
    /\ fetch[u] = "context"
    /\ Goto(u, IF context = "none" THEN "lock" ELSE "open")
    /\ UNCHANGED <<shared, attempt, page>>

\* Mutant: the check under the lock is left out.
LockContextBlind(u) ==
    /\ fetch[u] = "lock" /\ ctxLock = Nobody
    /\ Goto(u, "create") /\ ctxLock' = u
    /\ UNCHANGED <<context, retries, blockStreak, granted, attempt, page>>

\* The lock is taken; the check under it finds what another task has made.
LockContext(u) ==
    /\ fetch[u] = "lock" /\ ctxLock = Nobody
    /\ \/ context # "none" /\ Goto(u, "open") /\ UNCHANGED ctxLock
       \/ context = "none" /\ Goto(u, "create") /\ ctxLock' = u
    /\ UNCHANGED <<context, retries, blockStreak, granted, attempt, page>>

CreateContext(u) ==
    /\ fetch[u] = "create"
    /\ context' = "opened"
    /\ Goto(u, "route")
    /\ UNCHANGED <<ctxLock, retries, blockStreak, granted, attempt, page>>

ApplyRouting(u) ==
    /\ fetch[u] = "route"
    /\ context' = "ready" /\ ctxLock' = Nobody
    /\ Goto(u, "open")
    /\ UNCHANGED <<retries, blockStreak, granted, attempt, page>>

(***************************************************************************)
(* The page itself.                                                        *)
(***************************************************************************)

OpenPage(u) ==
    /\ fetch[u] = "open"
    /\ page' = [page EXCEPT ![u] = TRUE]
    /\ Goto(u, "load")
    /\ UNCHANGED <<shared, attempt>>

\* A page without a blocking keyword ends the streak and is handed out.
LoadClear(u) ==
    /\ fetch[u] = "load"
    /\ blockStreak' = 0
    /\ Goto(u, "page")
    /\ UNCHANGED <<context, ctxLock, retries, granted, attempt, page>>

\* A page with one is captured on disk before it is counted.
LoadBlocked(u) ==
    /\ fetch[u] = "load"
    /\ Goto(u, "blocked")
    /\ UNCHANGED <<shared, attempt, page>>

\* Counted: handed out all the same, or the stop signal once the streak is
\* long enough.
CountBlocked(u) ==
    /\ fetch[u] = "blocked"
    /\ blockStreak' = blockStreak + 1
    /\ \/ blockStreak' < StreakLimit /\ Goto(u, "page") /\ UNCHANGED page
       \/ /\ blockStreak' >= StreakLimit
          /\ Goto(u, "stopped")
          /\ page' = [page EXCEPT ![u] = FALSE]
    /\ UNCHANGED <<context, ctxLock, retries, granted, attempt>>

(***************************************************************************)
(* Failures and _retry_async.                                              *)
(***************************************************************************)

BudgetLeft == BudgetSize = 0 \/ retries > 0

\* RetryBudget.consume.
Consume == retries' = IF BudgetSize = 0 THEN retries ELSE retries - 1

Raising(u) == fetch[u] \in {"create", "route", "open", "load"}

ReleaseLock(u) == ctxLock' = IF ctxLock = u THEN Nobody ELSE ctxLock

\* A Playwright error: the page is closed and the call is tried again while
\* attempts and budget last.
FailAndRetry(u) ==
    /\ Raising(u)
    /\ attempt[u] < RetryAttempts /\ BudgetLeft
    /\ Consume
    /\ granted' = granted + 1
    /\ attempt' = [attempt EXCEPT ![u] = @ + 1]
    /\ page' = [page EXCEPT ![u] = FALSE]
    /\ ReleaseLock(u)
    /\ Goto(u, "backoff")
    /\ UNCHANGED <<context, blockStreak>>

\* The last attempt, an empty budget, or an error that is not retried.
FailForGood(u) ==
    /\ Raising(u)
    /\ page' = [page EXCEPT ![u] = FALSE]
    /\ ReleaseLock(u)
    /\ Goto(u, "failed")
    /\ UNCHANGED <<context, retries, blockStreak, granted, attempt>>

Resume(u) ==
    /\ fetch[u] = "backoff"
    /\ Goto(u, "context")
    /\ UNCHANGED <<shared, attempt, page>>

\* Cancelling the tasks of C: the lock goes back, but "except Exception" does
\* not see the cancellation, so a page that is still in fetch_page is closed
\* only with the context; one already handed out by the adapter's finally
\* clause.  Either way no task has it any more.
CancelFetches(C) ==
    /\ page' = [u \in Urls |-> page[u] /\ u \notin C]
    /\ fetch' = [u \in Urls |-> "off"]
    /\ ctxLock' = IF ctxLock \in C THEN Nobody ELSE ctxLock
    /\ UNCHANGED <<context, retries, blockStreak, granted>>

FetchStep(u) ==
    \/ LookForContext(u) \/ LockContext(u) \/ CreateContext(u) \/ ApplyRouting(u)
    \/ OpenPage(u) \/ LoadClear(u) \/ LoadBlocked(u) \/ CountBlocked(u)
    \/ FailAndRetry(u) \/ FailForGood(u) \/ Resume(u)

(***************************************************************************)
(* Properties of the client.                                               *)
(***************************************************************************)

\* However the tasks interleave, the client grants no more retries than the
\* budget of the whole pass (RetryBudget.consume has no await inside).
BudgetHolds == BudgetSize > 0 => granted <= BudgetSize

\* The context that every page shares is never replaced once its routing is
\* in place: a second task that waited for the lock finds it (get_context).
ContextIsKept == [][context = "ready" => context' = "ready"]_clientVars

\* What the fetches share stays sound however they interleave: the budget of
\* retries and the browser context.
ClientIsSound == []BudgetHolds /\ ContextIsKept
=================================================================================
