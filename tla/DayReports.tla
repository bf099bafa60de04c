------------------------------- MODULE DayReports -------------------------------
(***************************************************************************)
(* The three jobs that read the folders of the days: the index of the runs, *)
(* the report on the failed pages and the audit of the files these name.    *)
(* Each has a reader of its own for the same two index files of a day, which *)
(* the crawl and the runtime append to and the maintenance sweeps away      *)
(* while they read.                                                         *)
(***************************************************************************)
EXTENDS Integers, Sequences, FiniteSets

CONSTANTS
    LastDay,    \* bound: the days are 1 .. LastDay
    IndexReach, \* lookback_days of the index and of the audit
    ReportReach,\* and of the report
    MaxLogLines,   \* bound: lines of all index files together
    MaxPapers,  \* bound: pages in the folder of the reports
    MaxBusy     \* bound: jobs an operator has running or before his eyes

DayJobs == {"index", "report", "audit"}
Logs == {"failure", "blocked"}

ASSUME DayReportsAssumption ==
    /\ {LastDay, MaxLogLines, MaxPapers, MaxBusy} \subseteq Nat \ {0}
    /\ {IndexReach, ReportReach} \subseteq Nat

VARIABLES
    today,
    logs,       \* the lines of each index file
    swept,      \* the days whose folder is gone
    jobStep,    \* what each job does next
    due,        \* the files it has still to read
    tally,      \* what it counted in each file it has read
    atStart,    \* the files in its reach when it began
    papers,     \* the pages in the folder of the reports
    linked      \* the pages the index being built links to

reportVars == <<today, logs, swept, jobStep, due, tally, atStart, papers, linked>>

\* A line names files that are there, or some that are not; a writer that died
\* left it "open", and the next entry glued to it makes it "torn".
LogLine == {"whole", "bare", "open", "torn"}
Reach == [j \in DayJobs |-> IF j = "report" THEN ReportReach ELSE IndexReach]
Folders == 1 .. today \ swept
Logfiles == (1 .. LastDay) \X Logs
Entries(s) == Cardinality({i \in 1 .. Len(s) : s[i] \in {"whole", "bare"}})
Lost(s) == Cardinality({i \in 1 .. Len(s) : s[i] = "bare"})
IsOpen(s) == Len(s) > 0 /\ s[Len(s)] = "open"
Uncounted == [entries |-> 0, lost |-> 0, bad |-> 0]
NoTally == [f \in {} |-> Uncounted]

DayReportsTypeOK ==
    /\ today \in 1 .. LastDay /\ swept \subseteq 1 .. LastDay
    /\ logs \in [Logfiles -> Seq(LogLine)] /\ atStart \in [DayJobs -> [Logfiles -> Seq(LogLine)]]
    /\ \A f \in Logfiles : \A i \in 1 .. Len(logs[f]) - 1 : logs[f][i] /= "open"
    /\ jobStep \in [DayJobs -> {"idle", "read", "json", "html", "shown"}]
    /\ \A j \in DayJobs :
          /\ due[j] \subseteq Logfiles
          /\ DOMAIN tally[j] \subseteq Logfiles
          /\ \A f \in DOMAIN tally[j] :
                tally[j][f] \in [entries : Nat, lost : Nat, bad : Nat]
    /\ Len(papers) <= MaxPapers
    /\ \A i \in DOMAIN papers : papers[i].by \in {"report", "audit"}
                                /\ {papers[i].json, papers[i].html} \subseteq BOOLEAN
    /\ linked \subseteq 1 .. MaxPapers

DayReportsInit ==
    /\ today = 1 /\ swept = {}
    /\ logs = [f \in Logfiles |-> <<>>]
    /\ jobStep = [j \in DayJobs |-> "idle"]
    /\ due = [j \in DayJobs |-> {}]
    /\ tally = [j \in DayJobs |-> NoTally]
    /\ atStart = [j \in DayJobs |-> logs]
    /\ papers = <<>> /\ linked = {}

jobVars == <<jobStep, due, tally, atStart, papers, linked>>

Written == Cardinality({at \in Logfiles \X (1 .. MaxLogLines) : at[2] <= Len(logs[at[1]])})

\* A page that failed or was blocked: its entry goes to the end of the day's file.
AppendEntry(k, l) ==
    LET f == <<today, k>>
    IN  /\ l \in {"whole", "bare"}
        /\ IsOpen(logs[f]) \/ Written < MaxLogLines
        /\ logs' = [logs EXCEPT ![f] = IF IsOpen(@) THEN [@ EXCEPT ![Len(@)] = "torn"] ELSE Append(@, l)]
        /\ UNCHANGED <<today, swept, jobVars>>

\* The writer dies, or the disk is full, in the middle of the line.
TearEntry(k) ==
    LET f == <<today, k>>
    IN  /\ Written < MaxLogLines
        /\ ~IsOpen(logs[f])
        /\ logs' = [logs EXCEPT ![f] = Append(@, "open")]
        /\ UNCHANGED <<today, swept, jobVars>>

NewDay ==
    /\ today < LastDay
    /\ today' = today + 1
    /\ UNCHANGED <<logs, swept, jobVars>>

\* The maintenance removes the folder of a past day.
SweepDay(d) ==
    /\ d \in Folders \ {today}
    /\ swept' = swept \cup {d}
    /\ logs' = [f \in Logfiles |-> IF f[1] = d THEN <<>> ELSE logs[f]]
    /\ UNCHANGED <<today, jobVars>>

\* The order of the files: each day's failures first; the index goes from the
\* newest day to the oldest, the others the other way round.
ComesBefore(j, f, g) ==
    IF f[1] = g[1] THEN f[2] = "failure" /\ g[2] = "blocked"
    ELSE IF j = "index" THEN f[1] > g[1] ELSE f[1] < g[1]

\* run(): the cutoff is taken first; the index then lists the reports that are
\* there, newest five of a kind, and each job lists the days.
BeginJob(j) ==
    LET from == IF today > Reach[j] THEN today - Reach[j] ELSE 1
        days == {d \in Folders : d >= from}
    IN  /\ jobStep[j] = "idle" /\ days /= {}
        /\ Cardinality({i \in DayJobs : jobStep[i] /= "idle"}) < MaxBusy
        /\ jobStep' = [jobStep EXCEPT ![j] = "read"]
        /\ due' = [due EXCEPT ![j] = days \X Logs]
        /\ tally' = [tally EXCEPT ![j] = NoTally]
        /\ atStart' = [atStart EXCEPT ![j] = [f \in Logfiles |-> IF f[1] \in days THEN logs[f] ELSE <<>>]]
        /\ linked' = IF j = "index" THEN {i \in DOMAIN papers : papers[i].html} ELSE linked
        /\ UNCHANGED <<today, logs, swept, papers>>

\* The job is over, and nothing of what it read is left.
Over(j) ==
    /\ jobStep' = [jobStep EXCEPT ![j] = "idle"]
    /\ due' = [due EXCEPT ![j] = {}]
    /\ tally' = [tally EXCEPT ![j] = NoTally]
    /\ atStart' = [atStart EXCEPT ![j] = [f \in Logfiles |-> <<>>]]
    /\ linked' = IF j = "index" THEN {} ELSE linked

Goes(j, where) ==
    /\ jobStep' = [jobStep EXCEPT ![j] = where]
    /\ UNCHANGED <<due, tally, atStart, linked>>

\* _count_index of the index and _load_index of the report: what is no JSON is
\* passed over; a file that is gone counts nothing.
Counted(s) == [Uncounted EXCEPT !.entries = Entries(s)]

\* _audit_index: what is no JSON is counted apart, and every entry's files are
\* looked for.
Audited(s) == [entries |-> Entries(s), lost |-> Lost(s), bad |-> Len(s) - Entries(s)]

\* What the job j makes of the lines of a file.
ReadBy(j, s) == IF j = "audit" THEN Audited(s) ELSE Counted(s)

\* One file is read at once.  A day that is gone when its turn comes is left
\* out; one that goes between its two files keeps what was counted.
ReadFile(j) ==
    LET f == CHOOSE g \in due[j] : \A h \in due[j] \ {g} : ComesBefore(j, g, h)
        skip == f[2] = "failure" /\ f[1] \in swept
        rest == IF skip THEN {g \in due[j] : g[1] # f[1]} ELSE due[j] \ {f}
        got == IF skip THEN tally[j]
               ELSE [g \in {f} \cup DOMAIN tally[j] |-> IF g = f THEN ReadBy(j, logs[f]) ELSE tally[j][g]]
    IN  /\ jobStep[j] = "read"
        /\ IF rest = {} /\ DOMAIN got = {} THEN Over(j)
           ELSE /\ jobStep' = [jobStep EXCEPT ![j] = IF rest = {} THEN "json" ELSE "read"]
                /\ due' = [due EXCEPT ![j] = rest]
                /\ tally' = [tally EXCEPT ![j] = got]
                /\ UNCHANGED <<atStart, linked>>
        /\ UNCHANGED <<today, logs, swept, papers>>

\* The same, going on when the JSON could not be written.
WriteJsonAnyway(j, written) ==
    /\ jobStep[j] = "json" /\ written \in BOOLEAN
    /\ j = "index" \/ Len(papers) < MaxPapers
    /\ Goes(j, "html")
    /\ papers' = IF j = "index" THEN papers
                 ELSE Append(papers, [by |-> j, json |-> written, html |-> FALSE])
    /\ UNCHANGED <<today, logs, swept>>

\* The JSON comes first; when it cannot be written there is no page.
WriteJson(j, written) ==
    /\ jobStep[j] = "json" /\ written \in BOOLEAN
    /\ j = "index" \/ Len(papers) < MaxPapers
    /\ IF written THEN Goes(j, "html") ELSE Over(j)
    /\ papers' = IF j = "index" THEN papers
                 ELSE Append(papers, [by |-> j, json |-> written, html |-> FALSE])
    /\ UNCHANGED <<today, logs, swept>>

\* Once opened, the page is there for the next index, even when its text cannot
\* all be written.
WriteHtml(j, written) ==
    LET mine == {i \in DOMAIN papers : papers[i].by = j}
        i == CHOOSE x \in mine : \A y \in mine : y <= x
    IN  /\ jobStep[j] = "html" /\ written \in BOOLEAN
        /\ IF written THEN Goes(j, "shown") ELSE Over(j)
        /\ \E there \in IF written THEN {TRUE} ELSE BOOLEAN :
              papers' = IF j = "index" THEN papers ELSE [papers EXCEPT ![i].html = there]
        /\ UNCHANGED <<today, logs, swept>>

ForgetJob(j) ==
    /\ jobStep[j] = "shown"
    /\ Over(j)
    /\ UNCHANGED <<today, logs, swept, papers>>

DayReportsNext ==
    \/ \E k \in Logs, l \in LogLine : AppendEntry(k, l)
    \/ \E k \in Logs : TearEntry(k)
    \/ NewDay
    \/ \E d \in 1 .. LastDay : SweepDay(d)
    \/ \E j \in DayJobs : \/ BeginJob(j) \/ ReadFile(j) \/ ForgetJob(j)
                          \/ \E w \in BOOLEAN : WriteJson(j, w) \/ WriteHtml(j, w)

DayReportsSpec == DayReportsInit /\ [][DayReportsNext]_reportVars

-----------------------------------------------------------------------------

\* A page that is shown, whichever of the three readers made it, counts for a
\* day no fewer entries than the file held when the job began and no more than
\* it holds now, and so do the audit's missing files; so the three agree about
\* a day nobody wrote to.  (Only a day swept away meanwhile is not checked.)
ReadersAgree ==
    \A j \in DayJobs :
        jobStep[j] = "shown" =>
            \A f \in DOMAIN tally[j] :
                f[1] \notin swept =>
                    /\ Entries(atStart[j][f]) <= tally[j][f].entries
                    /\ tally[j][f].entries <= Entries(logs[f])
                    /\ tally[j][f].lost <= Lost(logs[f])

\* The audit explains every line: with the entries it counted and the lines it
\* could not read, it tells of all that was in the file when it began, the two
\* halves of a torn line being one.
AuditOwnsEveryLine ==
    jobStep["audit"] = "shown" =>
        \A f \in DOMAIN tally["audit"] :
            f[1] \notin swept =>
                LET told == tally["audit"][f].entries + tally["audit"][f].bad
                IN  Len(atStart["audit"][f]) <= told /\ told <= Len(logs[f])

\* The page of a report that the index links to has its JSON beside it.
LinkedPagesHaveData == \A i \in linked : papers[i].json

\* The three readers of a day's files agree with the files, with one another and
\* with what the index links to, while others write and sweep.
DayIsTold == ReadersAgree /\ AuditOwnsEveryLine /\ LinkedPagesHaveData
=============================================================================
