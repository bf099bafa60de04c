----------------------------- MODULE OperatorPages -----------------------------
(***************************************************************************)
(* The operator's pages beside the runs they report on.  A run commits its  *)
(* RUNNING row first and everything else in one transaction at its end,     *)
(* writing the files of its evidence in between; a page is built from       *)
(* several queries, each of which sees what is committed by then            *)
(* (PostgreSQL, READ COMMITTED), and the page of a group and the recovery   *)
(* inbox wait for an AI provider before they are answered.  The page of a   *)
(* task locks the task's row first.  The price signal of a task's run is    *)
(* computed from the history read before its fetch.                         *)
(***************************************************************************)
EXTENDS Naturals, Sequences, SequencesExt, FiniteSetsExt

CONSTANTS
    TaskRuns,     \* runs of one task, which may overlap
    GroupRuns,    \* runs of one group, which may not (see GroupRuns.tla)
    Pages,        \* page requests
    Amounts       \* listed prices a fetch may find, all above 0

ASSUME PagesAssumption ==
    /\ TaskRuns \cap GroupRuns = {} /\ Pages \cap (TaskRuns \cup GroupRuns) = {}
    /\ "nobody" \notin TaskRuns \cup GroupRuns \cup Pages
    /\ Amounts \subseteq Nat \ {0}

VARIABLES
    pagePhase,      \* how far each run has come
    priced,     \* what each run has found and concluded
    fetchedIn,  \* the fetches in the order of observed_at
    pricedIn,   \* the snapshots in the order of computed_at
    rowLock,    \* who holds the lock of the task's row
    evidenceOf,   \* the summary file of each run of the task
    page,       \* where each page is and what its queries have seen
    met         \* history: runs of the task that were open together

pageVars == <<pagePhase, priced, fetchedIn, pricedIn, rowLock, evidenceOf, page, met>>

Runs == TaskRuns \cup GroupRuns
NoOne == "nobody"

Parts == {"row", "observations", "runs", "mails", "effective", "groupRow", "groupRuns"}

\* Mutant: the inbox reads the latest runs before the rows.
QueriesRunsFirst(kind) ==
    CASE kind = "task"  -> <<"row", "observations", "runs", "mails", "effective">>
      [] kind = "group" -> <<"groupRow", "groupRuns", "mails">>
      [] kind = "inbox" -> <<"runs", "groupRuns", "row", "groupRow", "observations", "effective">>

\* The queries of get_watch_task_detail, get_watch_group_detail, and of the
\* recovery inbox with one task and one group in it.
Queries(kind) ==
    CASE kind = "task"  -> <<"row", "observations", "runs", "mails", "effective">>
      [] kind = "group" -> <<"groupRow", "groupRuns", "mails">>
      [] kind = "inbox" -> <<"row", "groupRow", "observations", "effective", "runs", "groupRuns">>

Kinds == {"task", "group", "inbox"}
NoPage == [kind |-> "none", at |-> "idle", left |-> <<>>, saw |-> <<>>,
           listed |-> {}, shown |-> {}]

PageTypeOK ==
    /\ pagePhase \in [Runs -> {"absent", "loaded", "running", "fetched", "flushed", "written",
                           "ended", "lost"}]
    /\ priced \in [Runs -> [amount : Amounts \cup {0}, low : Amounts \cup {0}, newLow : BOOLEAN]]
    /\ ToSet(fetchedIn) \subseteq TaskRuns /\ ToSet(pricedIn) \subseteq ToSet(fetchedIn)
    /\ rowLock \in Runs \cup Pages \cup {NoOne}
    /\ evidenceOf \in [TaskRuns -> {"absent", "there", "failed", "removed"}]
    /\ \A p \in Pages : /\ page[p].at \in {"idle", "open", "asking", "built", "sent"}
                        /\ DOMAIN page[p].saw \subseteq Parts
    /\ met \subseteq TaskRuns

PageInit ==
    /\ pagePhase = [r \in Runs |-> "absent"]
    /\ priced = [r \in Runs |-> [amount |-> 0, low |-> 0, newLow |-> FALSE]]
    /\ fetchedIn = <<>> /\ pricedIn = <<>>
    /\ rowLock = NoOne
    /\ evidenceOf = [r \in TaskRuns |-> "absent"]
    /\ page = [p \in Pages |-> NoPage]
    /\ met = {}

Open(r) == pagePhase[r] \in {"loaded", "running", "fetched", "flushed", "written"}
Ended == {r \in Runs : pagePhase[r] = "ended"}
Moves(r, to) == pagePhase' = [pagePhase EXCEPT ![r] = to]

-----------------------------------------------------------------------------
(* Runs.                                                                    *)

\* The history a run compares with, read before its RUNNING row is committed.
LoadHistory(r) ==
    /\ pagePhase[r] = "absent"
    /\ r \in GroupRuns => \A s \in GroupRuns : ~Open(s)
    /\ Moves(r, "loaded")
    /\ LET seen == {priced[s].amount : s \in Ended \cap TaskRuns} \ {0}
       IN  priced' = [priced EXCEPT ![r].low = IF seen = {} THEN 0 ELSE Min(seen)]
    /\ LET others == {s \in TaskRuns \ {r} : Open(s)}
       IN  met' = IF r \in TaskRuns /\ others # {} THEN met \cup others \cup {r} ELSE met
    /\ UNCHANGED <<fetchedIn, pricedIn, rowLock, evidenceOf, page>>

CommitRunning(r) ==
    /\ pagePhase[r] = "loaded"
    /\ Moves(r, "running")
    /\ UNCHANGED <<priced, fetchedIn, pricedIn, rowLock, evidenceOf, page, met>>

\* A fetch that finds an offer; the cashback quote is awaited after it.
FetchOfferOf(r) ==
    /\ pagePhase[r] = "running" /\ r \in TaskRuns
    /\ Moves(r, "fetched")
    /\ \E a \in Amounts : priced' = [priced EXCEPT ![r].amount = a]
    /\ fetchedIn' = Append(fetchedIn, r)
    /\ UNCHANGED <<pricedIn, rowLock, evidenceOf, page, met>>

\* The signal of _build_task_price_signal.
NewLow(r) == priced[r].low # 0 /\ priced[r].amount < priced[r].low

\* The first flush of an outcome updates the row of the task and locks it.
\* Without an offer (blocked, not parsed) there is no snapshot.
FlushRun(r) ==
    /\ \/ pagePhase[r] = "fetched" /\ rowLock = NoOne
          /\ rowLock' = r
          /\ pricedIn' = Append(pricedIn, r)
          /\ priced' = [priced EXCEPT ![r].newLow = NewLow(r)]
       \/ pagePhase[r] = "running" /\ UNCHANGED <<pricedIn, priced>>
          /\ IF r \in TaskRuns THEN rowLock = NoOne /\ rowLock' = r ELSE UNCHANGED rowLock
    /\ Moves(r, "flushed")
    /\ UNCHANGED <<fetchedIn, evidenceOf, page, met>>

\* _safe_write_task_run_artifact: an error is logged and the run goes on. The
\* page of a group does not read the files of its runs.
WriteEvidenceOf(r) ==
    /\ pagePhase[r] = "flushed"
    /\ Moves(r, "written")
    /\ IF r \in TaskRuns
         THEN \E outcome \in {"there", "failed"} : evidenceOf' = [evidenceOf EXCEPT ![r] = outcome]
         ELSE UNCHANGED evidenceOf
    /\ UNCHANGED <<priced, fetchedIn, pricedIn, rowLock, page, met>>

Unlocked(who) == IF rowLock = who THEN NoOne ELSE rowLock

CommitEnd(r) ==
    /\ pagePhase[r] = "written"
    /\ Moves(r, "ended")
    /\ rowLock' = Unlocked(r)
    /\ UNCHANGED <<priced, fetchedIn, pricedIn, evidenceOf, page, met>>

\* Mutant: a run whose process dies is recorded with a status of its own.
LoseRunUnlocked(r) ==
    /\ Open(r)
    /\ Moves(r, "dead")
    /\ rowLock' = Unlocked(r)
    /\ UNCHANGED <<priced, fetchedIn, pricedIn, evidenceOf, page, met>>

LoseRun(r) ==
    /\ Open(r)
    /\ Moves(r, "lost")
    /\ rowLock' = Unlocked(r)
    /\ UNCHANGED <<priced, fetchedIn, pricedIn, evidenceOf, page, met>>

\* Housekeeping removes the evidence of a run that is old and not RUNNING.
CleanUp(r) ==
    /\ r \in TaskRuns /\ pagePhase[r] = "ended" /\ evidenceOf[r] = "there"
    /\ evidenceOf' = [evidenceOf EXCEPT ![r] = "removed"]
    /\ UNCHANGED <<pagePhase, priced, fetchedIn, pricedIn, rowLock, page, met>>

-----------------------------------------------------------------------------
(* Pages.                                                                   *)

OpenPage(p, kind) ==
    /\ page[p].at = "idle"
    /\ page' = [page EXCEPT ![p] = [NoPage EXCEPT !.kind = kind, !.at = "open",
                                                  !.left = Queries(kind)]]
    /\ UNCHANGED <<pagePhase, priced, fetchedIn, pricedIn, rowLock, evidenceOf, met>>

Locks(p, part) == part = "row" /\ page[p].kind = "task"

\* A query sees the runs that have ended; the run lists show open runs too.
Query(p) ==
    /\ page[p].at = "open" /\ page[p].left # <<>>
    /\ LET part == Head(page[p].left)
       IN  /\ IF Locks(p, part) THEN rowLock = NoOne /\ rowLock' = p ELSE UNCHANGED rowLock
           /\ page' = [page EXCEPT ![p].left = Tail(@),
                                   ![p].saw = [q \in DOMAIN @ \cup {part} |->
                                                  IF q = part THEN Ended ELSE @[q]],
                                   ![p].listed = IF part = "runs" THEN Ended \cap TaskRuns ELSE @]
    /\ UNCHANGED <<pagePhase, priced, fetchedIn, pricedIn, evidenceOf, met>>

\* build_watch_group_ai_decision_explain and the inbox's copilot; the page of
\* a task has no narrative, nor does a provider have to be asked for one: it
\* may be disabled, missing, or have nothing to explain, as when the latest
\* run of the group is still RUNNING and has no winner.
Narrate(p) ==
    /\ page[p].at = "open" /\ page[p].left = <<>> /\ page[p].kind # "task"
    /\ \E to \in {"asking", "built"} : page' = [page EXCEPT ![p].at = to]
    /\ UNCHANGED <<pagePhase, priced, fetchedIn, pricedIn, rowLock, evidenceOf, met>>

\* A draft, an AiProviderError or any other exception of the provider: each
\* makes an envelope, and the page is built all the same.
HearProvider(p) ==
    /\ page[p].at = "asking"
    /\ page' = [page EXCEPT ![p].at = "built"]
    /\ UNCHANGED <<pagePhase, priced, fetchedIn, pricedIn, rowLock, evidenceOf, met>>

\* The files are read while the page is put together, after the queries.
Render(p) ==
    /\ page[p].at = "open" /\ page[p].left = <<>> /\ page[p].kind = "task"
    /\ page' = [page EXCEPT ![p].at = "built",
                            ![p].shown = {r \in page[p].listed : evidenceOf[r] = "there"}]
    /\ UNCHANGED <<pagePhase, priced, fetchedIn, pricedIn, rowLock, evidenceOf, met>>

SendPage(p) ==
    /\ page[p].at = "built"
    /\ page' = [page EXCEPT ![p] = [NoPage EXCEPT !.at = "sent"]]
    /\ rowLock' = Unlocked(p)
    /\ UNCHANGED <<pagePhase, priced, fetchedIn, pricedIn, evidenceOf, met>>

RunSteps(r) ==
    \/ LoadHistory(r) \/ CommitRunning(r) \/ FetchOfferOf(r) \/ FlushRun(r)
    \/ WriteEvidenceOf(r) \/ CommitEnd(r)
PageSteps(p) == Query(p) \/ Narrate(p) \/ HearProvider(p) \/ Render(p) \/ SendPage(p)

PageNext ==
    \/ \E r \in Runs : RunSteps(r) \/ LoseRun(r) \/ CleanUp(r)
    \/ \E p \in Pages : PageSteps(p) \/ \E kind \in Kinds : OpenPage(p, kind)

PageSpec == PageInit /\ [][PageNext]_pageVars

-----------------------------------------------------------------------------

Saw(p, part) == page[p].saw[part]
Built(p, kind) == page[p].at = "built" /\ page[p].kind = kind

\* Everything on the page of a task is of one moment, however many runs end
\* while it is built: none can commit while the page holds the row, except
\* runs that have left the row alone, and there are none.
TaskPageIsOneMoment ==
    \A p \in Pages : Built(p, "task") =>
        \A one, other \in DOMAIN page[p].saw :
            Saw(p, one) \cap TaskRuns = Saw(p, other) \cap TaskRuns

\* Pages that take no lock may be of several moments, but a row never tells
\* of a run that the page's list, read later, does not show as ended.
RowIsBacked ==
    \A p \in Pages :
        /\ Built(p, "group") => Saw(p, "groupRow") \subseteq Saw(p, "groupRuns")
        /\ Built(p, "inbox") => /\ Saw(p, "row") \subseteq Saw(p, "runs")
                               /\ Saw(p, "groupRow") \subseteq Saw(p, "groupRuns")

\* A finished run that the page of a task lists comes with its evidence,
\* unless that could not be written or has been removed.
EvidenceComesFirst ==
    \A p \in Pages : Built(p, "task") =>
        \A r \in page[p].listed \ page[p].shown : evidenceOf[r] \in {"failed", "removed"}

\* Nobody holds the row of a task while an AI provider is waited for.
NoLockAcrossProvider == \A p \in Pages : page[p].at = "asking" => rowLock # p

\* The price and the signal that a page puts side by side, the latest
\* observation and the latest snapshot, are of one run, and the signal calls
\* a price a new low exactly when it is below every earlier one on the page,
\* unless runs of the task have overlapped.
LatestOf(order, seen) ==
    LET known == {i \in DOMAIN order : order[i] \in seen}
    IN  IF known = {} THEN NoOne ELSE order[Max(known)]

SignalIsOfItsPrice ==
    \A p \in Pages : Built(p, "task") /\ met = {} =>
        LET observed == LatestOf(fetchedIn, Saw(p, "observations"))
            snapshot == LatestOf(pricedIn, Saw(p, "effective"))
            earlier == (Saw(p, "observations") \cap ToSet(fetchedIn)) \ {observed}
        IN  /\ observed = snapshot
            /\ observed # NoOne =>
                 (priced[observed].newLow <=>
                    /\ earlier # {}
                    /\ \A r \in earlier : priced[observed].amount < priced[r].amount)

\* A page never contradicts itself, although runs commit between its queries.
PagesAreSound ==
    /\ TaskPageIsOneMoment /\ RowIsBacked /\ EvidenceComesFirst
    /\ NoLockAcrossProvider /\ SignalIsOfItsPrice
=================================================================================
