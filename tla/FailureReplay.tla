------------------------------ MODULE FailureReplay ------------------------------
(***************************************************************************)
(* The replay of a day's failures: the entries of the day's index are      *)
(* fetched again, a few at a time and from one budget of retries, each is   *)
(* compared with the page archived for it, and an index and a report tell   *)
(* what came of it.  A page may have failed more than once that day.        *)
(***************************************************************************)
EXTENDS Naturals, Sequences, FiniteSets, SequencesExt, FiniteSetsExt

CONSTANTS
    Urls,          \* the pages that failed
    MaxLines,      \* bound: lines of the index
    MaxEntries,    \* entries one replay takes
    Slots,         \* fetches at the same time
    MaxRetries,    \* retries of an entry
    Budget,        \* retries of the replay; 0 for no limit
    MaxSecond      \* bound: the replay ends by then

ASSUME ReplayAssumption ==
    {MaxLines, MaxEntries, Slots, MaxRetries, Budget, MaxSecond} \subseteq Nat
    /\ {MaxEntries, Slots, MaxSecond} \subseteq Nat \ {0}

VARIABLES
    replayStage,      \* "idle", "replaying", "told", or how it ended without a word
    lines,      \* the index of failures, its readable lines
    second,
    fetch,      \* where each entry is
    tries,      \* its failed fetches
    granted,    \* the retries granted to it
    budget,     \* what is left of the budget
    result,     \* what came of it
    diffs,      \* whose comparison the file of a page and second holds
    told,       \* the index of the replay
    report

replayVars == <<replayStage, lines, second, fetch, tries, granted, budget, result, diffs, told, report>>

\* The url of an entry without a page.
NoUrl == ""
Slot == 1 .. MaxLines
NoResult == [status |-> "none", cause |-> "none", at |-> 0]
NoReport == [total |-> 0, replayed |-> 0, used |-> 0, left |-> 0]

ReplayTypeOK ==
    /\ replayStage \in {"idle", "replaying", "told", "nothing", "raised"}
    /\ Len(lines) <= MaxLines /\ \A i \in 1 .. Len(lines) : lines[i] \in Urls \cup {NoUrl}
    /\ fetch \in [Slot -> {"left", "queued", "fetching", "resting", "done", "raised"}]
    /\ \A i \in Slot : tries[i] \in 0 .. MaxRetries + 1 /\ granted[i] \in 0 .. MaxRetries
    /\ budget \in 0 .. Budget
    /\ \A i \in Slot : /\ result[i].status \in {"none", "replayed", "fetch_failed", "budget_exhausted"}
                       /\ result[i].cause \in {"none", "spent", "client", "error"}
    /\ \A i \in 1 .. Len(told) : told[i] \in Slot
    /\ report.total \in 0 .. MaxEntries /\ report.used \in 0 .. Budget

ReplayInit ==
    /\ replayStage = "idle"
    /\ lines \in SeqOf(Urls \cup {NoUrl}, MaxLines)
    /\ second = 1
    /\ fetch = [i \in Slot |-> "left"]
    /\ tries = [i \in Slot |-> 0] /\ granted = [i \in Slot |-> 0]
    /\ budget = Budget
    /\ result = [i \in Slot |-> NoResult]
    /\ diffs = [f \in Urls \X (1 .. MaxSecond) |-> 0]
    /\ told = <<>> /\ report = NoReport

\* The first entries with a page, in the order of the index.
Paged == {i \in 1 .. Len(lines) : lines[i] # NoUrl}
Taken == {i \in Paged : Cardinality({j \in Paged : j <= i}) <= MaxEntries}

-----------------------------------------------------------------------------
(* The replay.                                                              *)

\* No folder, no index or no entry in it ends the replay without a word.
BeginReplay ==
    /\ replayStage = "idle"
    /\ \/ Len(lines) = 0 /\ replayStage' = "nothing" /\ UNCHANGED fetch
       \/ Len(lines) > 0 /\ replayStage' = "replaying"
          /\ fetch' = [i \in Slot |-> IF i \in Taken THEN "queued" ELSE "left"]
    /\ UNCHANGED <<lines, second, tries, granted, budget, result, diffs, told, report>>

\* An entry holds its slot from its first fetch to its result, its rests included.
Holding == {i \in Slot : fetch[i] \in {"fetching", "resting"}}

TakeSlot(i) ==
    /\ replayStage = "replaying" /\ fetch[i] = "queued"
    /\ Cardinality(Holding) < Slots
    /\ \A j \in Slot : fetch[j] = "queued" => i <= j
    /\ fetch' = [fetch EXCEPT ![i] = "fetching"]
    /\ UNCHANGED <<replayStage, lines, second, tries, granted, budget, result, diffs, told, report>>

Resolve(i, status, cause) ==
    /\ fetch' = [fetch EXCEPT ![i] = "done"]
    /\ result' = [result EXCEPT ![i] = [status |-> status, cause |-> cause, at |-> second]]

\* Mutant: the comparison is filed under the second only.
FetchedUnderSecond(i) ==
    /\ replayStage = "replaying" /\ fetch[i] = "fetching"
    /\ Resolve(i, "replayed", "none")
    /\ diffs' = [f \in Urls \X (1 .. MaxSecond) |-> IF f[2] = second THEN i ELSE diffs[f]]
    /\ UNCHANGED <<replayStage, lines, second, tries, granted, budget, told, report>>

\* The page is compared with the entry's own archive; the files bear the page
\* and the second.
Fetched(i) ==
    /\ replayStage = "replaying" /\ fetch[i] = "fetching"
    /\ Resolve(i, "replayed", "none")
    /\ diffs' = [diffs EXCEPT ![<<lines[i], second>>] = i]
    /\ UNCHANGED <<replayStage, lines, second, tries, granted, budget, told, report>>

\* What the client raises last decides the entry's fate: the error of its own
\* budget reads like that of the replay's, another RuntimeError ends the replay.
Failure == {"error", "client", "runtime"}

GiveUp(i, kind) ==
    \/ kind = "error" /\ Resolve(i, "fetch_failed", "error") /\ UNCHANGED replayStage
    \/ kind = "client" /\ Resolve(i, "budget_exhausted", "client") /\ UNCHANGED replayStage
    \/ kind = "runtime" /\ replayStage' = "raised"
       /\ fetch' = [fetch EXCEPT ![i] = "raised"] /\ UNCHANGED result

\* Mutant: one retry more than MaxRetries.
TiredLate(i) == tries[i] > MaxRetries

Tired(i) == tries[i] + 1 > MaxRetries

\* Any exception is retried, up to MaxRetries times and as the budget allows.
FetchFails(i, kind) ==
    /\ replayStage = "replaying" /\ fetch[i] = "fetching"
    /\ tries' = [tries EXCEPT ![i] = @ + 1]
    /\ IF Tired(i) THEN GiveUp(i, kind) /\ UNCHANGED <<granted, budget>>
       ELSE IF Budget > 0 /\ budget = 0
       THEN Resolve(i, "budget_exhausted", "spent") /\ UNCHANGED <<replayStage, granted, budget>>
       ELSE /\ fetch' = [fetch EXCEPT ![i] = "resting"]
            /\ granted' = [granted EXCEPT ![i] = @ + 1]
            /\ budget' = IF Budget = 0 THEN 0 ELSE budget - 1
            /\ UNCHANGED <<replayStage, result>>
    /\ UNCHANGED <<lines, second, diffs, told, report>>

Wake(i) ==
    /\ replayStage = "replaying" /\ fetch[i] = "resting"
    /\ fetch' = [fetch EXCEPT ![i] = "fetching"]
    /\ UNCHANGED <<replayStage, lines, second, tries, granted, budget, result, diffs, told, report>>

\* gather gives the results in the order of the entries, not of their ends.
InOrder ==
    LET done == {i \in Slot : fetch[i] = "done"}
    IN  CHOOSE s \in [1 .. Cardinality(done) -> done] : \A i, j \in DOMAIN s : i < j => s[i] < s[j]

Summary ==
    [total |-> Cardinality({i \in Slot : fetch[i] = "done"}),
     replayed |-> Cardinality({i \in Slot : result[i].status = "replayed"}),
     used |-> IF Budget = 0 THEN 0 ELSE Budget - budget, left |-> budget]

\* Index and report are written once every entry has its result.
TellEntry ==
    /\ replayStage = "replaying"
    /\ \A i \in Taken : fetch[i] = "done"
    /\ told' = InOrder
    /\ report' = Summary
    /\ replayStage' = "told"
    /\ UNCHANGED <<lines, second, fetch, tries, granted, budget, result, diffs>>

Tick ==
    /\ replayStage = "replaying" /\ second < MaxSecond
    /\ second' = second + 1
    /\ UNCHANGED <<replayStage, lines, fetch, tries, granted, budget, result, diffs, told, report>>

ReplayNext ==
    \/ BeginReplay \/ TellEntry \/ Tick
    \/ \E i \in Slot : TakeSlot(i) \/ Fetched(i) \/ Wake(i)
    \/ \E i \in Slot, kind \in Failure : FetchFails(i, kind)

ReplaySpec == ReplayInit /\ [][ReplayNext]_replayVars

-----------------------------------------------------------------------------
(* What must hold.                                                          *)

\* A replay that ends with a word tells of the first entries that have a page,
\* each once and in the order of the day's index, and its report counts them.
ReplayTellsEachOnce ==
    replayStage = "told" =>
        /\ ToSet(told) = Taken /\ Len(told) = Cardinality(Taken)
        /\ \A i, j \in 1 .. Len(told) : i < j => told[i] < told[j]
        /\ report.total = Len(told)
        /\ report.replayed = Cardinality({i \in Taken : result[i].status = "replayed"})

\* The retries of all entries are those the budget paid for, and the report
\* says how many: never more than the budget, whatever the fetches' order.
RetriesArePaid ==
    /\ Budget > 0 => MapThenSumSet(LAMBDA i : granted[i], Slot) = Budget - budget
    /\ replayStage = "told" /\ Budget > 0 =>
          report.used = MapThenSumSet(LAMBDA i : granted[i], Slot)
    /\ \A i \in Slot : result[i].cause = "spent" => budget = 0 /\ tries[i] <= MaxRetries

\* The file a result names holds its own comparison, or that of a later entry
\* for the same page in the same second.
DiffIsOfItsPage ==
    \A i \in Slot : result[i].status = "replayed" =>
        LET holder == diffs[<<lines[i], result[i].at>>]
        IN  holder = i \/ /\ holder \in Taken /\ lines[holder] = lines[i]
                          /\ result[holder].at = result[i].at
                          /\ result[holder].status = "replayed"

\* A replay accounts for its entries, its retries and its files.
ReplayIsTrue == ReplayTellsEachOnce /\ RetriesArePaid /\ DiffIsOfItsPage
=================================================================================
