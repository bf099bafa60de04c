------------------------------ MODULE ShadowReview ------------------------------
(***************************************************************************)
(* The files of the recommendation shadow: a compare package writes its     *)
(* evidence and then its shadow artifact, a review appends to one log and   *)
(* then marks the artifact, and both end by rebuilding the replay manifest  *)
(* and the monitoring summary from what they find.  The API and the review  *)
(* commands are processes of their own, nothing locks the files, and a      *)
(* process may die between any two writes or in the middle of one.          *)
(***************************************************************************)
EXTENDS Naturals, Sequences, SequencesExt, FiniteSets

CONSTANTS
    Writers,     \* processes that save packages or record reviews
    Artifacts,   \* package ids
    Decisions,   \* "confirmed", "overridden", "rejected"
    MaxJobs      \* bound on the packages and reviews begun

ASSUME ReviewAssumption ==
    /\ MaxJobs \in Nat
    /\ Decisions \subseteq {"confirmed", "overridden", "rejected"}

VARIABLES
    evidence,   \* compare_evidence.json of each package
    shadow,     \* recommendation_shadow.json: unreadable, or its review state
    log,        \* the lines of recommendation_shadow_reviews.ndjson
    torn,       \* a line of the log is not JSON
    manifest,   \* the review state the replay manifest gives each package
    summary,    \* the review state the monitoring summary counts it under
    job,        \* what each process is doing
    begun,      \* jobs begun
    reviewed,   \* history: the artifacts whose review was carried through
    together,   \* history: two processes were at work at a time
    died        \* history: a process has died at work

reviewVars == <<evidence, shadow, log, torn, manifest, summary, job, begun,
                reviewed, together, died>>

Pending == "pending_internal_review"
States == Decisions \cup {Pending}
Readable == States
Listed == States \cup {"absent", "skipped"}
Lines == [artifact : Artifacts, decision : Decisions]

Idle == [at |-> "idle"]
Jobs == [at : {"opening", "saved", "drafting", "found", "logged", "marking", "listing",
               "walking", "listed", "counting", "counted"},
         artifact : Artifacts, decision : Decisions \cup {"none"},
         saw : [Artifacts -> Decisions \cup {"none"}], built : [Artifacts -> Listed]]

ReviewTypeOK ==
    /\ evidence \in [Artifacts -> {"absent", "torn", "good"}]
    /\ shadow \in [Artifacts -> States \cup {"absent", "torn"}]
    /\ log \in Seq(Lines) /\ torn \in BOOLEAN
    /\ manifest \in [Artifacts -> Listed] /\ summary \in [Artifacts -> Listed]
    /\ job \in [Writers -> Jobs \cup {Idle}]
    /\ begun \in 0 .. MaxJobs
    /\ reviewed \subseteq Artifacts /\ together \in BOOLEAN /\ died \in BOOLEAN
    /\ \A a \in Artifacts : shadow[a] # "absent" => evidence[a] # "absent"

ReviewInit ==
    /\ evidence = [a \in Artifacts |-> "absent"] /\ shadow = evidence
    /\ log = <<>> /\ torn = FALSE
    /\ manifest = [a \in Artifacts |-> "absent"] /\ summary = manifest
    /\ job = [w \in Writers |-> Idle]
    /\ begun = 0 /\ reviewed = {} /\ together = FALSE /\ died = FALSE

Nothing == [a \in Artifacts |-> "none"]

Begin(w, at, a, d) ==
    /\ job[w] = Idle /\ begun < MaxJobs
    /\ job' = [job EXCEPT ![w] = [at |-> at, artifact |-> a, decision |-> d,
                                  saw |-> Nothing, built |-> manifest]]
    /\ begun' = begun + 1
    /\ together' = (together \/ \E v \in Writers : job[v] # Idle)

At(w, at) == job[w].at = at
Goto(w, at) == job' = [job EXCEPT ![w].at = at]

(* create_compare_evidence_package, with a new id: write_text empties the    *)
(* file before it is written.                                               *)

BeginPackage(w, a) ==
    /\ evidence[a] = "absent"
    /\ Begin(w, "opening", a, "none")
    /\ evidence' = [evidence EXCEPT ![a] = "torn"]
    /\ UNCHANGED <<shadow, log, torn, manifest, summary, reviewed, died>>

WriteEvidence(w) ==
    /\ At(w, "opening")
    /\ evidence' = [evidence EXCEPT ![job[w].artifact] = "good"]
    /\ Goto(w, "saved")
    /\ UNCHANGED <<shadow, log, torn, manifest, summary, begun, reviewed, together, died>>

OpenShadow(w) ==
    /\ At(w, "saved")
    /\ shadow' = [shadow EXCEPT ![job[w].artifact] = "torn"]
    /\ Goto(w, "drafting")
    /\ UNCHANGED <<evidence, log, torn, manifest, summary, begun, reviewed, together, died>>

WriteShadow(w) ==
    /\ At(w, "drafting")
    /\ shadow' = [shadow EXCEPT ![job[w].artifact] = Pending]
    /\ Goto(w, "listing")
    /\ UNCHANGED <<evidence, log, torn, manifest, summary, begun, reviewed, together, died>>

(* record_recommendation_shadow_review: a second review of an artifact is    *)
(* another line of the log and replaces the first one's mark.               *)

BeginReview(w, a, d) ==
    /\ shadow[a] \in Readable
    /\ Begin(w, "found", a, d)
    /\ UNCHANGED <<evidence, shadow, log, torn, manifest, summary, reviewed, died>>

\* A line that follows a torn one is part of it.
Appended(w) ==
    IF torn THEN log ELSE Append(log, [artifact |-> job[w].artifact, decision |-> job[w].decision])

AppendReview(w) ==
    /\ At(w, "found")
    /\ log' = Appended(w)
    /\ Goto(w, "logged")
    /\ UNCHANGED <<evidence, shadow, torn, manifest, summary, begun, reviewed, together, died>>

OpenMark(w) ==
    /\ At(w, "logged")
    /\ shadow' = [shadow EXCEPT ![job[w].artifact] = "torn"]
    /\ Goto(w, "marking")
    /\ UNCHANGED <<evidence, log, torn, manifest, summary, begun, reviewed, together, died>>

WriteMark(w) ==
    /\ At(w, "marking")
    /\ shadow' = [shadow EXCEPT ![job[w].artifact] = job[w].decision]
    /\ reviewed' = reviewed \cup {job[w].artifact}
    /\ Goto(w, "listing")
    /\ UNCHANGED <<evidence, log, torn, manifest, summary, begun, together, died>>

(* The replay manifest and the monitoring summary.                          *)

\* The reviews the log shows: the last of each artifact, and none at all if a
\* line does not parse.
LastReview(a) ==
    IF torn \/ \A i \in DOMAIN log : log[i].artifact # a THEN "none"
    ELSE LET last == CHOOSE i \in DOMAIN log :
                        /\ log[i].artifact = a
                        /\ \A j \in DOMAIN log : log[j].artifact = a => j <= i
         IN  log[last].decision

ReadLog(w) ==
    /\ At(w, "listing")
    /\ job' = [job EXCEPT ![w].at = "walking", ![w].saw = [a \in Artifacts |-> LastReview(a)]]
    /\ UNCHANGED <<evidence, shadow, log, torn, manifest, summary, begun, reviewed, together, died>>

\* Mutant: the marks of the artifacts are not believed.
ManifestOfLog(saw, a) ==
    IF evidence[a] = "absent" THEN "absent"
    ELSE IF evidence[a] = "torn" \/ shadow[a] \notin Readable THEN "skipped"
    ELSE IF saw[a] # "none" THEN saw[a] ELSE Pending

ManifestState(saw, a) ==
    IF evidence[a] = "absent" THEN "absent"
    ELSE IF evidence[a] = "torn" \/ shadow[a] \notin Readable THEN "skipped"
    ELSE IF saw[a] # "none" THEN saw[a] ELSE shadow[a]

WalkPackages(w) ==
    /\ At(w, "walking")
    /\ job' = [job EXCEPT ![w].at = "listed",
                          ![w].built = [a \in Artifacts |-> ManifestState(job[w].saw, a)]]
    /\ UNCHANGED <<evidence, shadow, log, torn, manifest, summary, begun, reviewed, together, died>>

WriteManifest(w) ==
    /\ At(w, "listed")
    /\ manifest' = job[w].built
    /\ Goto(w, "counting")
    /\ UNCHANGED <<evidence, shadow, log, torn, summary, begun, reviewed, together, died>>

\* The summary does not read the evidence, nor the decisions of the log.
SummaryState(a) ==
    IF evidence[a] = "absent" THEN "absent"
    ELSE IF shadow[a] \notin Readable THEN "skipped" ELSE shadow[a]

CountArtifacts(w) ==
    /\ At(w, "counting")
    /\ job' = [job EXCEPT ![w].at = "counted", ![w].built = [a \in Artifacts |-> SummaryState(a)]]
    /\ UNCHANGED <<evidence, shadow, log, torn, manifest, summary, begun, reviewed, together, died>>

WriteSummary(w) ==
    /\ At(w, "counted")
    /\ summary' = job[w].built
    /\ job' = [job EXCEPT ![w] = Idle]
    /\ UNCHANGED <<evidence, shadow, log, torn, manifest, begun, reviewed, together, died>>

\* A process that dies while it appends may leave half a line.
Die(w) ==
    /\ job[w] # Idle
    /\ \/ torn' = torn
       \/ At(w, "found") /\ torn' = TRUE
    /\ job' = [job EXCEPT ![w] = Idle]
    /\ died' = TRUE
    /\ UNCHANGED <<evidence, shadow, log, manifest, summary, begun, reviewed, together>>

PackageStep(w) == WriteEvidence(w) \/ OpenShadow(w) \/ WriteShadow(w)
ReviewStep(w) == AppendReview(w) \/ OpenMark(w) \/ WriteMark(w)
IndexStep(w) ==
    ReadLog(w) \/ WalkPackages(w) \/ WriteManifest(w) \/ CountArtifacts(w) \/ WriteSummary(w)

ReviewNext == \E w \in Writers :
    \/ \E a \in Artifacts : BeginPackage(w, a) \/ \E d \in Decisions : BeginReview(w, a, d)
    \/ PackageStep(w) \/ ReviewStep(w) \/ IndexStep(w) \/ Die(w)

ReviewSpec == ReviewInit /\ [][ReviewNext]_reviewVars

-----------------------------------------------------------------------------

AtRest == \A w \in Writers : job[w] = Idle

\* The manifest believes the log and the summary the artifacts.  At rest the
\* two say the same of every package, unless a process has died at work or
\* two of them have worked at the same time.
IndexesAgree == AtRest /\ ~died /\ ~together => manifest = summary

\* A review that was carried through is never pending again for whoever looks
\* at the files, whatever dies later: a torn log hides every review, but the
\* marks of the artifacts remain; only a package somebody is marking again,
\* or died while marking, is left out.
ReviewStands ==
    \A a \in reviewed :
        ManifestState([b \in Artifacts |-> LastReview(b)], a) \in Decisions \cup {"skipped"}

\* What a review has logged is in the log for good and in its order.
LogOnlyGrows == [][IsPrefix(log, log')]_log

\* Every mark is backed by a line of the log, unless the log is torn.
MarksAreLogged ==
    \A a \in Artifacts : shadow[a] \in Decisions =>
        torn \/ \E i \in DOMAIN log : log[i] = [artifact |-> a, decision |-> shadow[a]]

\* A review that was given stands in the log, on its artifact and in the indexes,
\* although reviewers and packages overlap and die between any two writes.
ReviewsAreSafe == [](IndexesAgree /\ ReviewStands /\ MarksAreLogged) /\ LogOnlyGrows
=================================================================================
