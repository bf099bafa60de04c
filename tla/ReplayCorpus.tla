------------------------------ MODULE ReplayCorpus ------------------------------
(***************************************************************************)
(* The replay campaign of the recommendation shadow: it collects cases from *)
(* the summaries the runtime has left, one queue of reconstructed cases and  *)
(* one of native comparisons, writes an artifact for each, and reports what  *)
(* the workspace then holds.  The runtime goes on while it collects, reviews *)
(* are recorded between and during campaigns, and a campaign may be killed.  *)
(***************************************************************************)
EXTENDS Integers, Sequences, FiniteSets, FiniteSetsExt

CONSTANTS
    Summaries,         \* what a run may leave: its kind, and its pattern (the url pair and
                       \* candidate keys, or the store, address, status and error)
    Verdicts,          \* the decisions a reviewer may record
    PerPatternLimit,   \* _DEFAULT_RUNTIME_GROUP_PER_PATTERN_LIMIT
    Wishes,            \* the sets of flags a campaign may be given
    Budgets,           \* the repeat budgets a harvest may be given
    MaxRuns,           \* bound on the summaries in the runtime's directory
    MaxCampaigns,      \* bound on the campaigns begun
    MaxReviews         \* bound on the reviews begun

ASSUME CorpusAssumption ==
    /\ \A s \in Summaries : s.kind \in {"task", "group", "package"}
    /\ Verdicts \cap {"pending_internal_review", "unread", "none"} = {}
    /\ PerPatternLimit \in Nat \ {0} /\ Budgets \subseteq Nat /\ 0 \in Budgets
    \* Seeding always begins with a reset.
    /\ Wishes \subseteq SUBSET {"reset", "seed", "import", "harvest"}
    /\ \A f \in Wishes : "seed" \in f => "reset" \in f
    /\ {MaxRuns, MaxCampaigns, MaxReviews} \subseteq Nat

VARIABLES
    runs,       \* the runtime's summaries, oldest first
    corpus,     \* the artifacts of the workspace and the review state each bears
    notes,      \* the review log of the workspace
    campaign,   \* the campaign under way
    review,     \* the review command under way
    report,     \* the campaign report, until the next command begins
    commands,   \* campaigns and reviews begun
    crossed     \* history: a campaign and a review have overlapped

corpusVars == <<runs, corpus, notes, campaign, review, report, commands, crossed>>

Waiting == "pending_internal_review"
Unusable == "unusable"   \* failed, not parsed, one member only, or the two too unlike
Origins == {"seed", "runtime", "native"}
\* What an artifact is named after: the fixture or the run it is made of.
Ids == [origin : Origins, run : Nat]
Phases == {"reset", "seed", "import", "importing", "harvest", "harvesting", "report"}
NoReport == [pending |-> {}, buckets |-> [o \in Origins |-> 0], held |-> 0, whole |-> FALSE]

CorpusTypeOK ==
    /\ runs \in Seq(Summaries) /\ Len(runs) <= MaxRuns
    /\ DOMAIN corpus \subseteq Ids
    /\ \A id \in DOMAIN corpus : corpus[id] \in Verdicts \cup {Waiting}
    /\ \A i \in DOMAIN notes : notes[i].id \in Ids /\ notes[i].verdict \in Verdicts
    /\ \/ campaign = [at |-> "idle"]
       \/ /\ campaign.at \in Phases /\ campaign.flags \subseteq {"reset", "seed", "import", "harvest"}
          /\ campaign.budget \in Budgets
          /\ campaign.queue \subseteq DOMAIN runs /\ campaign.deepest \in Nat /\ campaign.fresh \in BOOLEAN
          /\ campaign.state \in Verdicts \cup {Waiting, "unread"}
          /\ \A o \in Origins : campaign.ingested[o] \in Nat
    /\ \/ review = [at |-> "idle"]
       \/ review.id \in Ids /\ review.verdict \in Verdicts
    /\ report.pending \subseteq Ids /\ report.whole \in BOOLEAN
    /\ commands \in [campaigns : 0 .. MaxCampaigns, reviews : 0 .. MaxReviews]
    /\ crossed \in BOOLEAN

CorpusInit ==
    /\ runs = <<>> /\ corpus = <<>> /\ notes = <<>>
    /\ campaign = [at |-> "idle"] /\ review = [at |-> "idle"]
    /\ report = NoReport
    /\ commands = [campaigns |-> 0, reviews |-> 0] /\ crossed = FALSE

-----------------------------------------------------------------------------
(* What is taken from the runtime's directory.                               *)

Usable(kind) == {i \in DOMAIN runs : runs[i].kind = kind /\ runs[i].pattern # Unusable}

\* The runs of the same kind and pattern, how many of them are newer, and the
\* newest one.
Like(i) == {j \in Usable(runs[i].kind) : runs[j].pattern = runs[i].pattern}
Depth(i) == Cardinality({j \in Like(i) : j > i})
Latest(i) == Max(Like(i))

\* Mutant: all the cases of the newest pattern, then those of the next one.
DepthFirst(i, j) ==
    \/ Latest(i) > Latest(j)
    \/ Latest(i) = Latest(j) /\ i > j

\* One case of every pattern, the newest, then a second one of each, ...
RoundRobin(i, j) ==
    \/ Depth(i) < Depth(j)
    \/ Depth(i) = Depth(j) /\ Latest(i) > Latest(j)

\* The groups, and the newest run of each store, address, status and error.
ImportQueue ==
    {i \in Usable("group") : Depth(i) < PerPatternLimit}
        \cup {i \in Usable("task") : Depth(i) = 0}

\* The groups come first.
ImportsBefore(i, j) ==
    IF runs[i].kind # runs[j].kind THEN runs[i].kind = "group" ELSE RoundRobin(i, j)

\* Packages the runtime has saved, or its groups if there are none.
NativePool == IF Usable("package") # {} THEN Usable("package") ELSE Usable("group")

HarvestQueue(budget) == {i \in NativePool : Depth(i) <= budget}

\* The newest case of every pattern, then the repeats each is allowed.
HarvestsBefore(i, j) ==
    LET first(n) == Depth(n) = 0
    IN  IF first(i) # first(j) THEN first(i)
        ELSE Latest(i) > Latest(j) \/ (Latest(i) = Latest(j) /\ i > j)

Precedes(i, j) == IF campaign.at = "importing" THEN ImportsBefore(i, j) ELSE HarvestsBefore(i, j)

\* The case whose turn it is, and the id of the artifact it gets.
NextCase == CHOOSE i \in campaign.queue : \A j \in campaign.queue \ {i} : Precedes(i, j)
Origin == IF campaign.at = "importing" THEN "runtime" ELSE "native"
NextId == [origin |-> Origin, run |-> NextCase]

-----------------------------------------------------------------------------
(* The runtime.                                                              *)

\* A task run, a group run or a compare package leaves its summary.  Nobody but
\* the two plans looks at the runs: what is left at another time might as well
\* have been left just before the next plan.
LeaveSummary(s) ==
    /\ campaign.at \in {"import", "harvest"}
    /\ Len(runs) < MaxRuns
    /\ runs' = Append(runs, s)
    /\ UNCHANGED <<corpus, notes, campaign, review, report, commands, crossed>>

-----------------------------------------------------------------------------
(* generate_recommendation_replay_campaign.                                  *)

Order == <<"reset", "seed", "import", "harvest", "report">>

\* The first thing at or after phase n that the flags ask for.
Coming(n, flags) ==
    LET asked == {k \in n .. 5 : Order[k] = "report" \/ Order[k] \in flags}
    IN  Order[Min(asked)]

Begun(flags, budget) ==
    [at |-> Coming(1, flags), flags |-> flags, budget |-> budget, queue |-> {}, deepest |-> 0,
     fresh |-> "reset" \in flags, state |-> "unread", ingested |-> [o \in Origins |-> 0]]

BeginCampaign(flags, budget) ==
    /\ campaign.at = "idle" /\ commands.campaigns < MaxCampaigns
    /\ commands' = [commands EXCEPT !.campaigns = @ + 1]
    /\ campaign' = Begun(flags, budget)
    /\ crossed' = (crossed \/ review.at # "idle")
    /\ report' = NoReport
    /\ UNCHANGED <<runs, corpus, notes, review>>

\* The whole workspace goes, its review log too.
ResetWorkspace ==
    /\ campaign.at = "reset"
    /\ corpus' = <<>> /\ notes' = <<>>
    /\ campaign' = [campaign EXCEPT !.at = Coming(2, campaign.flags),
                                    !.flags = @ \ {"reset"}]
    /\ UNCHANGED <<runs, review, report, commands, crossed>>

\* Two packages of fixed offers, under new ids.
Fixtures == {[origin |-> "seed", run |-> n] : n \in 1 .. 2}

\* The artifacts once ids have been written with a review state.
Filed(ids, state) ==
    [id \in ids \cup DOMAIN corpus |-> IF id \in ids THEN state ELSE corpus[id]]

SeedFixtures ==
    /\ campaign.at = "seed"
    /\ corpus' = Filed(Fixtures, Waiting)
    /\ campaign' = [campaign EXCEPT !.at = Coming(3, campaign.flags), !.ingested["seed"] = 2,
                                    !.flags = @ \ {"seed"}]
    /\ UNCHANGED <<runs, notes, review, report, commands, crossed>>

PlanImport ==
    /\ campaign.at = "import"
    /\ campaign' = [campaign EXCEPT !.at = "importing", !.queue = ImportQueue]
    /\ UNCHANGED <<runs, corpus, notes, review, report, commands, crossed>>

PlanHarvest ==
    /\ campaign.at = "harvest"
    /\ campaign' = [campaign EXCEPT !.at = "harvesting", !.deepest = 0,
                                    !.queue = HarvestQueue(campaign.budget)]
    /\ UNCHANGED <<runs, corpus, notes, review, report, commands, crossed>>

LastVerdict(id) ==
    LET its == {i \in DOMAIN notes : notes[i].id = id}
    IN  IF its = {} THEN "none" ELSE notes[Max(its)].verdict

\* The review state an artifact is written with: the last one of the log, or
\* the one it bore.
Kept(id) ==
    IF LastVerdict(id) # "none" THEN LastVerdict(id)
    ELSE IF id \in DOMAIN corpus THEN corpus[id] ELSE Waiting

PrepareCase ==
    /\ campaign.at \in {"importing", "harvesting"}
    /\ campaign.queue # {} /\ campaign.state = "unread"
    /\ campaign' = [campaign EXCEPT !.state = Kept(NextId)]
    /\ UNCHANGED <<runs, corpus, notes, review, report, commands, crossed>>

WriteCase ==
    /\ campaign.at \in {"importing", "harvesting"} /\ campaign.state # "unread"
    /\ corpus' = Filed({NextId}, campaign.state)
    /\ campaign' = [campaign EXCEPT !.queue = @ \ {NextCase}, !.state = "unread",
                                    !.deepest = Max({@, Depth(NextCase)}),
                                    !.ingested[Origin] = @ + 1]
    /\ UNCHANGED <<runs, notes, review, report, commands, crossed>>

EndQueue ==
    /\ campaign.at \in {"importing", "harvesting"} /\ campaign.queue = {}
    /\ campaign' = [campaign EXCEPT !.at = Coming(IF @ = "importing" THEN 4 ELSE 5, campaign.flags),
                                    !.flags = IF campaign.at = "importing" THEN @ \ {"import"} ELSE {},
                                    !.deepest = 0]
    /\ UNCHANGED <<runs, corpus, notes, review, report, commands, crossed>>

\* The replay manifest believes the log before the artifact.
StateOf(id) == IF LastVerdict(id) # "none" THEN LastVerdict(id) ELSE corpus[id]

\* What was ingested just now, or, if nothing was, what the artifacts say of
\* where they come from.
Buckets(ingested) ==
    IF \E o \in Origins : ingested[o] > 0 THEN ingested
    ELSE [o \in Origins |-> Cardinality({id \in DOMAIN corpus : id.origin = o})]

ReportOn(fresh, ingested) ==
    [pending |-> {id \in DOMAIN corpus : StateOf(id) = Waiting},
     buckets |-> Buckets(ingested), held |-> Cardinality(DOMAIN corpus),
     whole |-> fresh \/ ingested = [o \in Origins |-> 0]]

WriteReport ==
    /\ campaign.at = "report"
    /\ report' = ReportOn(campaign.fresh, campaign.ingested)
    /\ campaign' = [at |-> "idle"]
    /\ UNCHANGED <<runs, corpus, notes, review, commands, crossed>>

KillCampaign ==
    /\ campaign.at # "idle"
    /\ campaign' = [at |-> "idle"]
    /\ UNCHANGED <<runs, corpus, notes, review, report, commands, crossed>>

-----------------------------------------------------------------------------
(* record_recommendation_review: the log, the artifact, a new report.        *)

BeginReviewOf(id, verdict) ==
    /\ review.at = "idle" /\ commands.reviews < MaxReviews /\ id \in DOMAIN corpus
    /\ commands' = [commands EXCEPT !.reviews = @ + 1]
    /\ review' = [at |-> "found", id |-> id, verdict |-> verdict]
    /\ crossed' = (crossed \/ campaign.at # "idle")
    /\ report' = NoReport
    /\ UNCHANGED <<runs, corpus, notes, campaign>>

NoteReview ==
    /\ review.at = "found"
    /\ notes' = Append(notes, [id |-> review.id, verdict |-> review.verdict])
    /\ review' = [review EXCEPT !.at = "noted"]
    /\ UNCHANGED <<runs, corpus, campaign, report, commands, crossed>>

\* The artifact is written whole, from what was read of it before.
MarkArtifact ==
    /\ review.at = "noted"
    /\ corpus' = Filed({review.id}, review.verdict)
    /\ review' = [review EXCEPT !.at = "marked"]
    /\ UNCHANGED <<runs, notes, campaign, report, commands, crossed>>

ReportReview ==
    /\ review.at = "marked"
    /\ report' = ReportOn(FALSE, [o \in Origins |-> 0])
    /\ review' = [at |-> "idle"]
    /\ UNCHANGED <<runs, corpus, notes, campaign, commands, crossed>>

CampaignStep ==
    \/ ResetWorkspace \/ SeedFixtures \/ PlanImport \/ PlanHarvest
    \/ PrepareCase \/ WriteCase \/ EndQueue \/ WriteReport
ReviewCommandStep == NoteReview \/ MarkArtifact \/ ReportReview

CorpusNext ==
    \/ \E s \in Summaries : LeaveSummary(s)
    \/ \E flags \in Wishes :
           \E b \in IF "harvest" \in flags THEN Budgets ELSE {0} : BeginCampaign(flags, b)
    \/ CampaignStep \/ KillCampaign
    \/ \E id \in DOMAIN corpus, v \in Verdicts : BeginReviewOf(id, v)
    \/ ReviewCommandStep

CorpusSpec == CorpusInit /\ [][CorpusNext]_corpusVars

-----------------------------------------------------------------------------

Quiet == campaign.at = "idle" /\ review.at = "idle"

\* A review outlives every later import and harvest: at rest each artifact that
\* was reviewed bears the last verdict the log has for it, unless a campaign and
\* a review overlapped.
ReviewsSurvive ==
    Quiet /\ ~crossed =>
        \A id \in DOMAIN corpus : LastVerdict(id) # "none" => corpus[id] = LastVerdict(id)

\* Nobody is asked to review what was reviewed: of an artifact that the report
\* lists as pending, and that is still there, the log knew nothing.
PendingIsUnreviewed ==
    [][ report' \notin {report, NoReport} =>
        \A id \in report'.pending : \A i \in DOMAIN notes : notes[i].id # id ]_corpusVars

\* Whenever a campaign is cut short, breadth came first: no repeat of a pattern
\* has been written while the newest case of another one still waits.
BreadthFirst ==
    campaign.at \in {"importing", "harvesting"} =>
        \A i \in campaign.queue :
            campaign.deepest > 0 /\ runs[i].kind # "task" => Depth(i) > 0

\* A report on a workspace that was built anew, or that nothing was added to,
\* accounts for every artifact it holds: each case has an id of its own.
BucketsCoverCorpus ==
    report.whole /\ ~crossed =>
        report.held = report.buckets["seed"] + report.buckets["runtime"] + report.buckets["native"]

\* A campaign keeps the reviews there are, takes the cases in the right order
\* and reports what it holds, wherever it is cut short.
CorpusIsSound ==
    [](ReviewsSurvive /\ BreadthFirst /\ BucketsCoverCorpus) /\ PendingIsUnreviewed
=================================================================================
