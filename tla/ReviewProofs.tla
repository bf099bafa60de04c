----------------------------- MODULE ReviewProofs -----------------------------
(***************************************************************************)
(* What is said about the runs afterwards. The shadow review: the log is   *)
(* the memory of the reviews, and the marks, the manifest and the summary  *)
(* follow it; ReviewInv holds however many jobs are at work and wherever   *)
(* they die, and Calm says what more holds while there is one at a time    *)
(* and none has died. The campaign: what it writes keeps the last verdict  *)
(* on each case, and what it reports was counted from what it built. The   *)
(* readers of the days agree with the files and with one another, for any  *)
(* shops, pages and days.                                                  *)
(***************************************************************************)
EXTENDS ShadowReview, ReplayCorpus, DayReports, SequenceTheorems, SetLemmas, TLAPS

-------------------------------------------------------------------------------
(* The shadow review.                                                        *)

\* Where a job can be.
Stages == {"opening", "saved", "drafting", "found", "logged", "marking", "listing",
           "walking", "listed", "counting", "counted"}
\* A job that makes a package, until its shadow is written.
Packaging == {"opening", "saved", "drafting"}
\* A job that reviews one.
Reviewing == {"found", "logged", "marking"}
\* What writer w is about, and the line it logs.
Artifact(w) == job[w].artifact
LineOf(w) == [artifact |-> job[w].artifact, decision |-> job[w].decision]

\* Line i is the last one of artifact a in the lines s.
IsLast(s, i, a) ==
    /\ i \in DOMAIN s /\ s[i].artifact = a
    /\ \A j \in DOMAIN s : s[j].artifact = a => j <= i

\* No line of s is about artifact a.
NoLine(s, a) == \A i \in DOMAIN s : s[i].artifact # a

\* The last decision of artifact a in the lines s, as LastReview has it.
LastIn(s, a) ==
    IF NoLine(s, a) THEN "none"
    ELSE LET last == CHOOSE i \in DOMAIN s :
                        /\ s[i].artifact = a
                        /\ \A j \in DOMAIN s : s[j].artifact = a => j <= i
         IN  s[last].decision

\* An artifact without any line has no last one, and every other one has.
LastIsThere(s) == \A a \in Artifacts : NoLine(s, a) \/ \E i \in DOMAIN s : IsLast(s, i, a)

\* A reviewer works on an artifact that was readable, and has logged what it marks.
ReviewersHaveLogged ==
    \A w \in Writers :
        /\ job[w].at \in Reviewing =>
             job[w].decision \in Decisions /\ shadow[Artifact(w)] # "absent"
        /\ job[w].at \in {"logged", "marking"} =>
             torn \/ \E i \in DOMAIN log : log[i] = LineOf(w)

\* Nobody reviews a package, or makes it again, before its shadow is written.
PackagesAreFresh ==
    \A w \in Writers : job[w].at \in Packaging =>
        /\ evidence[Artifact(w)] # "absent"
        /\ shadow[Artifact(w)] \in {"absent", "torn"} /\ Artifact(w) \notin reviewed
        /\ \A v \in Writers \ {w} :
              job[v].at \in Packaging \cup Reviewing => Artifact(v) # Artifact(w)

\* The mark of an artifact that was reviewed is one of a review, or torn.
ReviewedAreMarked == \A a \in reviewed : shadow[a] \in Decisions \cup {"torn"}

\* What the log and the marks rest on.
ReviewInv ==
    /\ ReviewTypeOK /\ LastIsThere(log) /\ ReviewersHaveLogged /\ PackagesAreFresh
    /\ ReviewedAreMarked /\ MarksAreLogged

-----------------------------------------------------------------------------
\* The index LastReview chooses is that of the last line.
LEMMA LastIsChosen ==
    ASSUME NEW s \in Seq(Lines), LastIsThere(s), NEW a \in Artifacts
    PROVE  \/ NoLine(s, a) /\ LastIn(s, a) = "none"
           \/ \E i \in DOMAIN s : IsLast(s, i, a) /\ LastIn(s, a) = s[i].decision
<1>1. CASE NoLine(s, a)
  BY <1>1 DEF LastIn
<1>2. ASSUME NEW i \in DOMAIN s, IsLast(s, i, a)
      PROVE  LastIn(s, a) = s[i].decision
  <2> DEFINE P(k) == /\ s[k].artifact = a
                     /\ \A j \in DOMAIN s : s[j].artifact = a => j <= k
  <2>1. P(i)
    BY <1>2 DEF IsLast
  <2>2. \A k \in DOMAIN s : P(k) => k = i
    BY <2>1, <1>2 DEF IsLast
  <2>3. (CHOOSE k \in DOMAIN s : P(k)) = i
    <3> HIDE DEF P
    <3> QED
      BY <2>1, <2>2
  <2>4. ~NoLine(s, a)
    BY <1>2 DEF IsLast, NoLine
  <2> QED
    BY <2>3, <2>4 DEF LastIn
<1> QED
  BY <1>1, <1>2 DEF LastIsThere

\* It is a decision, or there is none.
LEMMA LastIsDecision ==
    ASSUME NEW s \in Seq(Lines), LastIsThere(s), NEW a \in Artifacts
    PROVE  LastIn(s, a) \in Decisions \cup {"none"}
<1>1. \A i \in DOMAIN s : s[i].decision \in Decisions
  <2>1. \A i \in DOMAIN s : s[i] \in Lines
    OBVIOUS
  <2> QED
    BY <2>1 DEF Lines
<1> QED
  BY <1>1, LastIsChosen

\* A line more is the last one of its artifact, and leaves the others theirs.
LEMMA AppendedIsLast ==
    ASSUME NEW s \in Seq(Lines), LastIsThere(s), NEW l \in Lines, NEW t, t = Append(s, l)
    PROVE  /\ LastIsThere(t) /\ t \in Seq(Lines)
           /\ \A i \in DOMAIN s : i \in DOMAIN t /\ t[i] = s[i]
           /\ \E i \in DOMAIN t : t[i] = l
<1>1. /\ t \in Seq(Lines) /\ Len(t) = Len(s) + 1 /\ Len(s) \in Nat
      /\ \A i \in 1 .. Len(s) : t[i] = s[i]
      /\ t[Len(s) + 1] = l
      /\ DOMAIN s = 1 .. Len(s) /\ DOMAIN t = 1 .. Len(s) + 1
  OBVIOUS
<1>2. IsLast(t, Len(s) + 1, l.artifact)
  BY <1>1 DEF IsLast
<1>3. ASSUME NEW a \in Artifacts, a # l.artifact
      PROVE  /\ NoLine(s, a) => NoLine(t, a)
             /\ \A i \in DOMAIN s : IsLast(s, i, a) => IsLast(t, i, a) /\ i \in DOMAIN t
  BY <1>1, <1>3 DEF NoLine, IsLast
<1>4. LastIsThere(t)
  BY <1>1, <1>2, <1>3 DEF LastIsThere
<1> QED
  BY <1>1, <1>2, <1>4

\* It gives its artifact a new last decision and leaves the others theirs.
LEMMA LastAfterAppend ==
    ASSUME NEW s \in Seq(Lines), LastIsThere(s), NEW l \in Lines, NEW t, t = Append(s, l),
           NEW a \in Artifacts
    PROVE  LastIn(t, a) = IF a = l.artifact THEN l.decision ELSE LastIn(s, a)
<1>1. /\ t \in Seq(Lines) /\ Len(t) = Len(s) + 1 /\ Len(s) \in Nat
      /\ \A i \in 1 .. Len(s) : t[i] = s[i]
      /\ t[Len(s) + 1] = l
      /\ DOMAIN s = 1 .. Len(s) /\ DOMAIN t = 1 .. Len(s) + 1
  OBVIOUS
<1>2. LastIsThere(t)
  BY AppendedIsLast, Zenon
<1>10. \/ NoLine(s, a) /\ LastIn(s, a) = "none"
      \/ \E i \in DOMAIN s : IsLast(s, i, a) /\ LastIn(s, a) = s[i].decision
  BY LastIsChosen
<1>20. \/ NoLine(t, a) /\ LastIn(t, a) = "none"
      \/ \E i \in DOMAIN t : IsLast(t, i, a) /\ LastIn(t, a) = t[i].decision
  BY <1>1, <1>2, LastIsChosen
<1>30. CASE a = l.artifact
  <2>1. ~NoLine(t, a)
    BY <1>1, <1>30 DEF NoLine
  <2>2. \A i \in DOMAIN t : IsLast(t, i, a) => i = Len(s) + 1
    BY <1>1, <1>30 DEF IsLast
  <2> QED
    BY <1>1, <1>20, <1>30, <2>1, <2>2
<1>40. CASE a # l.artifact
  <2>1. NoLine(t, a) <=> NoLine(s, a)
    BY <1>1, <1>40 DEF NoLine
  <2>2. \A i \in DOMAIN s, k \in DOMAIN t : IsLast(s, i, a) /\ IsLast(t, k, a) => i = k
    BY <1>1, <1>40 DEF IsLast
  <2>3. \A i \in DOMAIN s : IsLast(s, i, a) => ~NoLine(s, a)
    BY DEF IsLast, NoLine
  <2>4. \A i \in DOMAIN t : IsLast(t, i, a) => ~NoLine(t, a)
    BY DEF IsLast, NoLine
  <2> QED
    BY <1>1, <1>10, <1>20, <1>40, <2>1, <2>2, <2>3, <2>4
<1> QED
  BY <1>30, <1>40

\* The review the log shows of an artifact is a decision, or there is none.
LEMMA LastReviewIs ==
    ASSUME ReviewInv, NEW a \in Artifacts
    PROVE  /\ LastReview(a) = (IF torn THEN "none" ELSE LastIn(log, a))
           /\ LastReview(a) \in Decisions \cup {"none"}
<1>1. LastReview(a) = (IF torn THEN "none" ELSE LastIn(log, a))
  BY DEF LastReview, LastIn, NoLine
<1> QED
  BY <1>1, LastIsDecision DEF ReviewInv, ReviewTypeOK

\* A process goes on with its job, and no other does.
LEMMA GoesOn ==
    ASSUME ReviewInv, NEW w \in Writers, job[w].at # "idle", NEW at \in Stages, Goto(w, at)
    PROVE  /\ job' \in [Writers -> Jobs \cup {Idle}]
           /\ job[w] \in Jobs /\ job'[w] \in Jobs
           /\ job'[w].at = at /\ job'[w].artifact = job[w].artifact
           /\ job'[w].decision = job[w].decision
           /\ job'[w].saw = job[w].saw /\ job'[w].built = job[w].built
           /\ \A v \in Writers \ {w} : job'[v] = job[v]
<1>1. job \in [Writers -> Jobs \cup {Idle}]
  BY DEF ReviewInv, ReviewTypeOK
<1>2. job[w] \in Jobs
  BY <1>1 DEF Idle
<1>3. job' = [job EXCEPT ![w] = [job[w] EXCEPT !.at = at]]
  BY DEF Goto
<1>4. [job[w] EXCEPT !.at = at] \in Jobs
  BY <1>2 DEF Jobs, Stages
<1> QED
  BY <1>1, <1>2, <1>3, <1>4 DEF Jobs

\* A process begins a job.
LEMMA Begins ==
    ASSUME ReviewInv, NEW w \in Writers, NEW at \in Stages, NEW a \in Artifacts,
           NEW d \in Decisions \cup {"none"}, Begin(w, at, a, d)
    PROVE  /\ job' \in [Writers -> Jobs \cup {Idle}] /\ begun' \in 0 .. MaxJobs
           /\ together' \in BOOLEAN
           /\ job'[w] \in Jobs
           /\ job'[w].at = at /\ job'[w].artifact = a /\ job'[w].decision = d
           /\ \A v \in Writers \ {w} : job'[v] = job[v]
<1> DEFINE new == [at |-> at, artifact |-> a, decision |-> d, saw |-> Nothing, built |-> manifest]
<1>1. new \in Jobs
  BY DEF ReviewInv, ReviewTypeOK, Jobs, Stages, Nothing
<1>2. job' = [job EXCEPT ![w] = new]
  BY DEF Begin
<1>3. job' \in [Writers -> Jobs \cup {Idle}]
  BY <1>1, <1>2 DEF ReviewInv, ReviewTypeOK
<1>4. begun' \in 0 .. MaxJobs
  BY ReviewAssumption DEF Begin, ReviewInv, ReviewTypeOK
<1>5. together' \in BOOLEAN
  BY DEF Begin, ReviewInv, ReviewTypeOK
<1> QED
  BY <1>1, <1>2, <1>3, <1>4, <1>5 DEF ReviewInv, ReviewTypeOK

\* An empty directory has no mark and no line.
LEMMA ReviewInitLemma == ReviewInit => ReviewInv
<1> SUFFICES ASSUME ReviewInit PROVE ReviewInv
  OBVIOUS
<1>1. ReviewTypeOK
  <2>1. log \in Seq(Lines) /\ begun \in 0 .. MaxJobs
    BY ReviewAssumption DEF ReviewInit
  <2>2. /\ evidence \in [Artifacts -> {"absent", "torn", "good"}]
        /\ shadow \in [Artifacts -> States \cup {"absent", "torn"}]
        /\ \A a \in Artifacts : shadow[a] = "absent" /\ evidence[a] = "absent"
    BY DEF ReviewInit
  <2>3. manifest \in [Artifacts -> Listed] /\ summary \in [Artifacts -> Listed]
    BY DEF ReviewInit, Listed
  <2>4. job \in [Writers -> Jobs \cup {Idle}]
    BY DEF ReviewInit
  <2> QED
    BY <2>1, <2>2, <2>3, <2>4 DEF ReviewInit, ReviewTypeOK
<1>2. LastIsThere(log)
  BY DEF ReviewInit, LastIsThere, NoLine
<1>3. ReviewersHaveLogged /\ PackagesAreFresh
  BY DEF ReviewInit, ReviewersHaveLogged, PackagesAreFresh, Packaging, Reviewing, Idle
<1> QED
  BY <1>1, <1>2, <1>3, ReviewAssumption DEF ReviewInit, ReviewInv, ReviewedAreMarked, MarksAreLogged

\* Every step of a job, and its death at any of them, keeps it.
LEMMA ReviewStepLemma == ReviewInv /\ [ReviewNext]_reviewVars => ReviewInv'
<1> SUFFICES ASSUME ReviewInv, [ReviewNext]_reviewVars PROVE ReviewInv'
  OBVIOUS
<1>type. /\ ReviewTypeOK /\ LastIsThere(log) /\ ReviewersHaveLogged /\ PackagesAreFresh
         /\ ReviewedAreMarked /\ MarksAreLogged
  BY DEF ReviewInv
<1> USE <1>type
<1>a. Pending \notin Decisions /\ Decisions \subseteq States /\ Pending \in States
      /\ "absent" \notin States /\ "torn" \notin States
  BY ReviewAssumption DEF Pending, States
<1>1. ASSUME NEW w \in Writers, NEW a \in Artifacts, BeginPackage(w, a) PROVE ReviewInv'
  <2>1. evidence[a] = "absent" /\ shadow[a] = "absent"
        /\ evidence' = [evidence EXCEPT ![a] = "torn"]
        /\ UNCHANGED <<shadow, log, torn, manifest, summary, reviewed, died>>
    BY <1>1, <1>a DEF BeginPackage, ReviewTypeOK
  <2>2. Begin(w, "opening", a, "none")
    BY <1>1 DEF BeginPackage
  <2>3. /\ job' \in [Writers -> Jobs \cup {Idle}] /\ begun' \in 0 .. MaxJobs
        /\ together' \in BOOLEAN
        /\ job'[w].at = "opening" /\ job'[w].artifact = a
        /\ \A v \in Writers \ {w} : job'[v] = job[v]
    BY <2>2, Begins DEF Stages
  <2>4. ReviewTypeOK'
    BY <2>1, <2>3 DEF ReviewTypeOK
  <2>5. ReviewersHaveLogged'
    BY <2>1, <2>3 DEF ReviewersHaveLogged, Reviewing, Artifact, LineOf
  <2>6. a \notin reviewed
    BY <2>1, <1>a DEF ReviewedAreMarked
  <2>7. \A v \in Writers : job[v].at \in Packaging \cup Reviewing => job[v].artifact # a
    BY <2>1 DEF PackagesAreFresh, ReviewersHaveLogged, Packaging, Reviewing, Artifact
  <2>8. PackagesAreFresh'
    BY <2>1, <2>3, <2>6, <2>7 DEF PackagesAreFresh, Packaging, Reviewing, Artifact, ReviewTypeOK
  <2> QED
    BY <2>1, <2>4, <2>5, <2>8 DEF ReviewInv, ReviewedAreMarked, MarksAreLogged
<1>2. ASSUME NEW w \in Writers, NEW a \in Artifacts, NEW d \in Decisions, BeginReview(w, a, d)
      PROVE  ReviewInv'
  <2>1. shadow[a] \in States
        /\ UNCHANGED <<evidence, shadow, log, torn, manifest, summary, reviewed, died>>
    BY <1>2 DEF BeginReview, Readable
  <2>2. Begin(w, "found", a, d)
    BY <1>2 DEF BeginReview
  <2>3. /\ job' \in [Writers -> Jobs \cup {Idle}] /\ begun' \in 0 .. MaxJobs
        /\ together' \in BOOLEAN
        /\ job'[w].at = "found" /\ job'[w].artifact = a /\ job'[w].decision = d
        /\ \A v \in Writers \ {w} : job'[v] = job[v]
    BY <2>2, Begins DEF Stages
  <2>4. ReviewTypeOK'
    BY <2>1, <2>3 DEF ReviewTypeOK
  <2>5. ReviewersHaveLogged'
    BY <2>1, <2>3, <1>a DEF ReviewersHaveLogged, Reviewing, Artifact, LineOf
  <2>7. \A v \in Writers : job[v].at \in Packaging => job[v].artifact # a
    BY <2>1, <1>a DEF PackagesAreFresh, Packaging, Artifact
  <2>8. PackagesAreFresh'
    BY <2>1, <2>3, <2>7 DEF PackagesAreFresh, Packaging, Reviewing, Artifact
  <2> QED
    BY <2>1, <2>4, <2>5, <2>8 DEF ReviewInv, ReviewedAreMarked, MarksAreLogged
<1>3. ASSUME NEW w \in Writers, WriteEvidence(w) PROVE ReviewInv'
  <2>1. job[w].at = "opening" /\ Goto(w, "saved")
        /\ evidence' = [evidence EXCEPT ![job[w].artifact] = "good"]
        /\ UNCHANGED <<shadow, log, torn, manifest, summary, begun, reviewed, together, died>>
    BY <1>3 DEF WriteEvidence, At
  <2>2. /\ job' \in [Writers -> Jobs \cup {Idle}] /\ job[w] \in Jobs
        /\ job'[w].at = "saved" /\ job'[w].artifact = job[w].artifact
        /\ \A v \in Writers \ {w} : job'[v] = job[v]
    BY <2>1, GoesOn DEF Stages
  <2>3. \A b \in Artifacts : evidence'[b] \in {"absent", "torn", "good"}
                             /\ (evidence[b] # "absent" => evidence'[b] # "absent")
    BY <2>1 DEF ReviewTypeOK
  <2>4. ReviewTypeOK'
    BY <2>1, <2>2, <2>3 DEF ReviewTypeOK
  <2>5. ReviewersHaveLogged'
    BY <2>1, <2>2 DEF ReviewersHaveLogged, Reviewing, Artifact, LineOf
  <2>6. PackagesAreFresh'
    BY <2>1, <2>2, <2>3 DEF PackagesAreFresh, Packaging, Reviewing, Artifact, Jobs, Idle
  <2> QED
    BY <2>1, <2>4, <2>5, <2>6 DEF ReviewInv, ReviewedAreMarked, MarksAreLogged
<1>4. ASSUME NEW w \in Writers, OpenShadow(w) PROVE ReviewInv'
  <2>1. job[w].at = "saved" /\ Goto(w, "drafting")
        /\ shadow' = [shadow EXCEPT ![job[w].artifact] = "torn"]
        /\ UNCHANGED <<evidence, log, torn, manifest, summary, begun, reviewed, together, died>>
    BY <1>4 DEF OpenShadow, At
  <2>2. /\ job' \in [Writers -> Jobs \cup {Idle}] /\ job[w].artifact \in Artifacts
        /\ job'[w].at = "drafting" /\ job'[w].artifact = job[w].artifact
        /\ \A v \in Writers \ {w} : job'[v] = job[v]
    BY <2>1, GoesOn DEF Stages, Jobs
  <2>3. /\ evidence[job[w].artifact] # "absent" /\ job[w].artifact \notin reviewed
        /\ shadow'[job[w].artifact] = "torn"
        /\ \A b \in Artifacts \ {job[w].artifact} : shadow'[b] = shadow[b]
    BY <2>1, <2>2 DEF PackagesAreFresh, Packaging, Artifact, ReviewTypeOK
  <2>4. ReviewTypeOK'
    BY <2>1, <2>2, <2>3 DEF ReviewTypeOK
  <2>5. ReviewersHaveLogged'
    BY <2>1, <2>2 DEF ReviewersHaveLogged, Reviewing, Artifact, LineOf, ReviewTypeOK
  <2>6. PackagesAreFresh'
    BY <2>1, <2>2 DEF PackagesAreFresh, Packaging, Reviewing, Artifact, ReviewTypeOK
  <2>7. ReviewedAreMarked' /\ MarksAreLogged'
    BY <2>1, <2>2, <2>3, <1>a, ReviewAssumption DEF ReviewedAreMarked, MarksAreLogged, ReviewTypeOK
  <2> QED
    BY <2>1, <2>4, <2>5, <2>6, <2>7 DEF ReviewInv
<1>5. ASSUME NEW w \in Writers, WriteShadow(w) PROVE ReviewInv'
  <2>1. job[w].at = "drafting" /\ Goto(w, "listing")
        /\ shadow' = [shadow EXCEPT ![job[w].artifact] = Pending]
        /\ UNCHANGED <<evidence, log, torn, manifest, summary, begun, reviewed, together, died>>
    BY <1>5 DEF WriteShadow, At
  <2>2. /\ job' \in [Writers -> Jobs \cup {Idle}] /\ job[w].artifact \in Artifacts
        /\ job'[w].at = "listing" /\ job'[w].artifact = job[w].artifact
        /\ \A v \in Writers \ {w} : job'[v] = job[v]
    BY <2>1, GoesOn DEF Stages, Jobs
  <2>3. /\ evidence[job[w].artifact] # "absent" /\ job[w].artifact \notin reviewed
        /\ \A v \in Writers \ {w} :
              job[v].at \in Packaging => job[v].artifact # job[w].artifact
        /\ shadow'[job[w].artifact] = Pending
        /\ \A b \in Artifacts \ {job[w].artifact} : shadow'[b] = shadow[b]
    BY <2>1, <2>2 DEF PackagesAreFresh, Packaging, Artifact, ReviewTypeOK
  <2>4. ReviewTypeOK'
    BY <2>1, <2>2, <2>3, <1>a DEF ReviewTypeOK
  <2>5. ReviewersHaveLogged'
    BY <2>1, <2>2, <1>a DEF ReviewersHaveLogged, Reviewing, Artifact, LineOf, ReviewTypeOK
  <2>6. PackagesAreFresh'
    BY <2>1, <2>2, <2>3 DEF PackagesAreFresh, Packaging, Reviewing, Artifact, ReviewTypeOK, Jobs, Idle
  <2>7. ReviewedAreMarked' /\ MarksAreLogged'
    BY <2>1, <2>2, <2>3, <1>a DEF ReviewedAreMarked, MarksAreLogged, ReviewTypeOK
  <2> QED
    BY <2>1, <2>4, <2>5, <2>6, <2>7 DEF ReviewInv
<1>6. ASSUME NEW w \in Writers, AppendReview(w) PROVE ReviewInv'
  <2>1. job[w].at = "found" /\ Goto(w, "logged") /\ log' = Appended(w)
        /\ UNCHANGED <<evidence, shadow, torn, manifest, summary, begun, reviewed, together, died>>
    BY <1>6 DEF AppendReview, At
  <2>2. /\ job' \in [Writers -> Jobs \cup {Idle}] /\ job[w].artifact \in Artifacts
        /\ job'[w].at = "logged" /\ job'[w].artifact = job[w].artifact
        /\ job'[w].decision = job[w].decision
        /\ \A v \in Writers \ {w} : job'[v] = job[v]
    BY <2>1, GoesOn DEF Stages, Jobs
  <2>3. job[w].decision \in Decisions /\ LineOf(w) \in Lines
    BY <2>1, <2>2 DEF ReviewersHaveLogged, Reviewing, LineOf, Lines
  <2>4. /\ LastIsThere(log') /\ log' \in Seq(Lines)
        /\ \A i \in DOMAIN log : i \in DOMAIN log' /\ log'[i] = log[i]
        /\ torn \/ \E i \in DOMAIN log' : log'[i] = LineOf(w)
    <3>1. CASE torn
      BY <2>1, <3>1 DEF Appended, ReviewTypeOK
    <3>2. CASE ~torn
      <4>1. log' = Append(log, LineOf(w)) /\ log \in Seq(Lines)
        BY <2>1, <3>2 DEF Appended, LineOf, ReviewTypeOK
      <4>2. LastIsThere(log) /\ LineOf(w) \in Lines
        BY <2>3
      <4> DEFINE l == LineOf(w)
      <4>3. /\ LastIsThere(log') /\ log' \in Seq(Lines)
            /\ \A i \in DOMAIN log : i \in DOMAIN log' /\ log'[i] = log[i]
            /\ \E i \in DOMAIN log' : log'[i] = l
        <5> HIDE <1>type
        <5>1. log \in Seq(Lines) /\ LastIsThere(log) /\ l \in Lines /\ log' = Append(log, l)
          BY <4>1, <4>2
        <5> HIDE DEF l
        <5>2. LastIsThere(log') /\ log' \in Seq(Lines)
          BY <5>1, AppendedIsLast
        <5>3. \A i \in DOMAIN log : i \in DOMAIN log' /\ log'[i] = log[i]
          BY <5>1, AppendedIsLast
        <5>4. \E i \in DOMAIN log' : log'[i] = l
          BY <5>1, AppendedIsLast
        <5> QED
          BY <5>2, <5>3, <5>4
      <4> QED
        BY <4>3
    <3> QED
      BY <3>1, <3>2
  <2>5. ReviewTypeOK'
    BY <2>1, <2>2, <2>4 DEF ReviewTypeOK
  <2>6. ReviewersHaveLogged'
    BY <2>1, <2>2, <2>3, <2>4 DEF ReviewersHaveLogged, Reviewing, Artifact, LineOf
  <2>7. PackagesAreFresh'
    BY <2>1, <2>2 DEF PackagesAreFresh, Packaging, Reviewing, Artifact
  <2>8. MarksAreLogged' /\ ReviewedAreMarked'
    BY <2>1, <2>4 DEF MarksAreLogged, ReviewedAreMarked
  <2> QED
    BY <2>4, <2>5, <2>6, <2>7, <2>8 DEF ReviewInv
<1>7. ASSUME NEW w \in Writers, OpenMark(w) PROVE ReviewInv'
  <2>1. job[w].at = "logged" /\ Goto(w, "marking")
        /\ shadow' = [shadow EXCEPT ![job[w].artifact] = "torn"]
        /\ UNCHANGED <<evidence, log, torn, manifest, summary, begun, reviewed, together, died>>
    BY <1>7 DEF OpenMark, At
  <2>2. /\ job' \in [Writers -> Jobs \cup {Idle}] /\ job[w].artifact \in Artifacts
        /\ job'[w].at = "marking" /\ job'[w].artifact = job[w].artifact
        /\ job'[w].decision = job[w].decision
        /\ \A v \in Writers \ {w} : job'[v] = job[v]
    BY <2>1, GoesOn DEF Stages, Jobs
  <2>3. /\ shadow[job[w].artifact] # "absent" /\ shadow'[job[w].artifact] = "torn"
        /\ \A b \in Artifacts \ {job[w].artifact} : shadow'[b] = shadow[b]
    BY <2>1, <2>2 DEF ReviewersHaveLogged, Reviewing, Artifact, ReviewTypeOK
  <2>4. ReviewTypeOK'
    BY <2>1, <2>2, <2>3 DEF ReviewTypeOK
  <2>5. ReviewersHaveLogged'
    BY <2>1, <2>2 DEF ReviewersHaveLogged, Reviewing, Artifact, LineOf, ReviewTypeOK
  <2>6. PackagesAreFresh'
    BY <2>1, <2>2 DEF PackagesAreFresh, Packaging, Reviewing, Artifact, ReviewTypeOK
  <2>7. ReviewedAreMarked' /\ MarksAreLogged'
    BY <2>1, <2>2, <2>3, <1>a, ReviewAssumption DEF ReviewedAreMarked, MarksAreLogged, ReviewTypeOK
  <2> QED
    BY <2>1, <2>4, <2>5, <2>6, <2>7 DEF ReviewInv
<1>8. ASSUME NEW w \in Writers, WriteMark(w) PROVE ReviewInv'
  <2>1. job[w].at = "marking" /\ Goto(w, "listing")
        /\ shadow' = [shadow EXCEPT ![job[w].artifact] = job[w].decision]
        /\ reviewed' = reviewed \cup {job[w].artifact}
        /\ UNCHANGED <<evidence, log, torn, manifest, summary, begun, together, died>>
    BY <1>8 DEF WriteMark, At
  <2>2. /\ job' \in [Writers -> Jobs \cup {Idle}] /\ job[w].artifact \in Artifacts
        /\ job'[w].at = "listing" /\ job'[w].artifact = job[w].artifact
        /\ \A v \in Writers \ {w} : job'[v] = job[v]
    BY <2>1, GoesOn DEF Stages, Jobs
  <2>3. /\ shadow[job[w].artifact] # "absent" /\ job[w].decision \in Decisions
        /\ torn \/ \E i \in DOMAIN log : log[i] = LineOf(w)
        /\ shadow'[job[w].artifact] = job[w].decision
        /\ \A b \in Artifacts \ {job[w].artifact} : shadow'[b] = shadow[b]
    BY <2>1, <2>2 DEF ReviewersHaveLogged, Reviewing, Artifact, ReviewTypeOK
  <2>4. \A v \in Writers : job[v].at \in Packaging => job[v].artifact # job[w].artifact
    BY <2>1, <2>2 DEF PackagesAreFresh, Packaging, Reviewing, Artifact
  <2>5. ReviewTypeOK'
    BY <2>1, <2>2, <2>3, <1>a DEF ReviewTypeOK
  <2>6. ReviewersHaveLogged'
    BY <2>1, <2>2, <2>3, <1>a DEF ReviewersHaveLogged, Reviewing, Artifact, LineOf, ReviewTypeOK
  <2>7. PackagesAreFresh'
    <3>1. \A v \in Writers : job'[v].at \in Packaging =>
            /\ v # w /\ job'[v] = job[v] /\ job[v].artifact \in Artifacts
            /\ shadow'[job[v].artifact] = shadow[job[v].artifact]
            /\ job[v].artifact # job[w].artifact
      BY <2>2, <2>3, <2>4 DEF Packaging, Jobs, Idle, ReviewTypeOK
    <3> QED
      BY <2>1, <2>2, <3>1 DEF PackagesAreFresh, Packaging, Reviewing, Artifact
  <2>8. ReviewedAreMarked' /\ MarksAreLogged'
    BY <2>1, <2>2, <2>3 DEF ReviewedAreMarked, MarksAreLogged, LineOf, ReviewTypeOK
  <2> QED
    BY <2>1, <2>5, <2>6, <2>7, <2>8 DEF ReviewInv
<1>9. ASSUME NEW w \in Writers,
             UNCHANGED <<evidence, shadow, log, begun, reviewed, together>>, torn' \in BOOLEAN,
             torn => torn', died' \in BOOLEAN, manifest' \in [Artifacts -> Listed],
             summary' \in [Artifacts -> Listed],
             job' \in [Writers -> Jobs \cup {Idle}],
             \A v \in Writers \ {w} : job'[v] = job[v],
             job'[w].at \notin Packaging \cup Reviewing
      PROVE  ReviewInv'
  <2>1. ReviewTypeOK'
    BY <1>9 DEF ReviewTypeOK
  <2>2. ReviewersHaveLogged'
    BY <1>9 DEF ReviewersHaveLogged, Reviewing, Artifact, LineOf
  <2>3. PackagesAreFresh'
    BY <1>9 DEF PackagesAreFresh, Packaging, Reviewing, Artifact
  <2> QED
    BY <1>9, <2>1, <2>2, <2>3 DEF ReviewInv, ReviewedAreMarked, MarksAreLogged
<1>b. Stages \cap {"idle"} = {} /\ Idle.at = "idle"
      /\ {"listing", "walking", "listed", "counting", "counted", "idle"}
            \cap (Packaging \cup Reviewing) = {}
  BY DEF Stages, Idle, Packaging, Reviewing
<1>10. ASSUME NEW w \in Writers, ReadLog(w) PROVE ReviewInv'
  <2> DEFINE new == [job[w] EXCEPT !.at = "walking", !.saw = [a \in Artifacts |-> LastReview(a)]]
  <2>1. job[w] \in Jobs
    BY <1>10 DEF ReadLog, At, ReviewTypeOK, Idle
  <2>2. [a \in Artifacts |-> LastReview(a)] \in [Artifacts -> Decisions \cup {"none"}]
    BY LastReviewIs
  <2>3. new \in Jobs /\ new.at = "walking"
    BY <2>1, <2>2 DEF Jobs
  <2>4. job' = [job EXCEPT ![w] = new]
    BY <1>10 DEF ReadLog
  <2>5. job' \in [Writers -> Jobs \cup {Idle}] /\ job'[w].at = "walking"
        /\ \A v \in Writers \ {w} : job'[v] = job[v]
    BY <2>3, <2>4 DEF ReviewTypeOK
  <2> QED
    BY <1>9, <1>10, <1>b, <2>5 DEF ReadLog, ReviewTypeOK
<1>11. ASSUME NEW w \in Writers, WalkPackages(w) PROVE ReviewInv'
  <2> DEFINE made == [a \in Artifacts |-> ManifestState(job[w].saw, a)]
  <2> DEFINE new == [job[w] EXCEPT !.at = "listed", !.built = made]
  <2>1. job[w] \in Jobs
    BY <1>11 DEF WalkPackages, At, ReviewTypeOK, Idle
  <2>2. made \in [Artifacts -> Listed]
    <3>1. job[w].saw \in [Artifacts -> Decisions \cup {"none"}]
      BY <2>1 DEF Jobs
    <3> QED
      BY <3>1, <1>a DEF ManifestState, Listed, Readable
  <2>3. new \in Jobs /\ new.at = "listed"
    <3> HIDE DEF made
    <3> QED
      BY <2>1, <2>2 DEF Jobs
  <2>4. job' = [job EXCEPT ![w] = new]
    BY <1>11 DEF WalkPackages
  <2>5. job' \in [Writers -> Jobs \cup {Idle}] /\ job'[w].at = "listed"
        /\ \A v \in Writers \ {w} : job'[v] = job[v]
    <3> HIDE DEF new
    <3> QED
      BY <2>3, <2>4 DEF ReviewTypeOK
  <2> QED
    BY <1>9, <1>11, <1>b, <2>5 DEF WalkPackages, ReviewTypeOK
<1>12. ASSUME NEW w \in Writers, WriteManifest(w) PROVE ReviewInv'
  <2>1. job[w].at = "listed" /\ Goto(w, "counting") /\ manifest' = job[w].built
    BY <1>12 DEF WriteManifest, At
  <2>2. /\ job' \in [Writers -> Jobs \cup {Idle}] /\ job[w] \in Jobs
        /\ job'[w].at = "counting" /\ \A v \in Writers \ {w} : job'[v] = job[v]
    BY <2>1, GoesOn DEF Stages
  <2>3. manifest' \in [Artifacts -> Listed]
    BY <2>1, <2>2 DEF Jobs
  <2> QED
    BY <1>9, <1>12, <1>b, <2>2, <2>3 DEF WriteManifest, ReviewTypeOK
<1>13. ASSUME NEW w \in Writers, CountArtifacts(w) PROVE ReviewInv'
  <2> DEFINE made == [a \in Artifacts |-> SummaryState(a)]
  <2> DEFINE new == [job[w] EXCEPT !.at = "counted", !.built = made]
  <2>1. job[w] \in Jobs
    BY <1>13 DEF CountArtifacts, At, ReviewTypeOK, Idle
  <2>2. made \in [Artifacts -> Listed]
    BY DEF SummaryState, Listed, Readable
  <2>3. new \in Jobs /\ new.at = "counted"
    <3> HIDE DEF made
    <3> QED
      BY <2>1, <2>2 DEF Jobs
  <2>4. job' = [job EXCEPT ![w] = new]
    BY <1>13 DEF CountArtifacts
  <2>5. job' \in [Writers -> Jobs \cup {Idle}] /\ job'[w].at = "counted"
        /\ \A v \in Writers \ {w} : job'[v] = job[v]
    <3> HIDE DEF new
    <3> QED
      BY <2>3, <2>4 DEF ReviewTypeOK
  <2> QED
    BY <1>9, <1>13, <1>b, <2>5 DEF CountArtifacts, ReviewTypeOK
<1>14. ASSUME NEW w \in Writers, WriteSummary(w) PROVE ReviewInv'
  <2>1. job[w] \in Jobs
    BY <1>14 DEF WriteSummary, At, ReviewTypeOK, Idle
  <2>2. summary' \in [Artifacts -> Listed]
    BY <1>14, <2>1 DEF WriteSummary, Jobs
  <2>3. job' \in [Writers -> Jobs \cup {Idle}] /\ job'[w] = Idle
        /\ \A v \in Writers \ {w} : job'[v] = job[v]
    BY <1>14 DEF WriteSummary, ReviewTypeOK
  <2> QED
    BY <1>9, <1>14, <1>b, <2>2, <2>3 DEF WriteSummary, ReviewTypeOK
<1>15. ASSUME NEW w \in Writers, Die(w) PROVE ReviewInv'
  <2>1. job' \in [Writers -> Jobs \cup {Idle}] /\ job'[w] = Idle
        /\ \A v \in Writers \ {w} : job'[v] = job[v]
    BY <1>15 DEF Die, ReviewTypeOK
  <2>2. torn' \in BOOLEAN /\ (torn => torn')
    <3>1. torn' = torn \/ torn' = TRUE
      BY <1>15 DEF Die
    <3> QED
      BY <3>1, Zenon DEF ReviewTypeOK
  <2>3. died' \in BOOLEAN
    BY <1>15 DEF Die
  <2> QED
    BY <1>9, <1>15, <1>b, <2>1, <2>2, <2>3 DEF Die, ReviewTypeOK
<1>16. CASE UNCHANGED reviewVars
  BY <1>16 DEF reviewVars, ReviewInv, ReviewTypeOK, ReviewersHaveLogged, PackagesAreFresh,
     ReviewedAreMarked, MarksAreLogged, Artifact, LineOf
<1> QED
  BY <1>1, <1>2, <1>3, <1>4, <1>5, <1>6, <1>7, <1>8, <1>10, <1>11, <1>12, <1>13, <1>14,
     <1>15, <1>16 DEF ReviewNext, PackageStep, ReviewStep, IndexStep

-----------------------------------------------------------------------------
\* The files of artifact a tell one story.
Settled(a) ==
    \/ evidence[a] = "absent" /\ shadow[a] = "absent" /\ LastReview(a) = "none"
    \/ /\ evidence[a] = "good" /\ shadow[a] \in States
       /\ LastReview(a) = IF shadow[a] \in Decisions THEN shadow[a] ELSE "none"

\* What the summary would show of the files as they are.
Displayed == [a \in Artifacts |-> SummaryState(a)]

\* What the one process at work has done: all but its artifact is settled, its
\* artifact is as far as the process is, and so are the indexes.
Progress(w) ==
    /\ \A a \in Artifacts :
          \/ Settled(a)
          \/ /\ a = Artifact(w)
             /\ job[w].at \in {"opening", "saved", "drafting", "logged", "marking"}
    /\ job[w].at = "opening" => LastReview(Artifact(w)) = "none"
    /\ job[w].at \in {"saved", "drafting"} =>
          evidence[Artifact(w)] = "good" /\ LastReview(Artifact(w)) = "none"
    /\ job[w].at \in {"logged", "marking"} =>
          evidence[Artifact(w)] = "good" /\ LastReview(Artifact(w)) = job[w].decision
    /\ job[w].at = "walking" => \A a \in Artifacts : job[w].saw[a] = LastReview(a)
    /\ job[w].at = "listed" => job[w].built = Displayed
    /\ job[w].at = "counting" => manifest = Displayed
    /\ job[w].at = "counted" => job[w].built = manifest

\* While no two have been at work together and none has died, the log is whole
\* and the indexes agree between the jobs.
Calm == ~died /\ ~together =>
    /\ ~torn
    /\ \A v, w \in Writers : job[v] # Idle /\ job[w] # Idle => v = w
    /\ AtRest => manifest = summary /\ \A a \in Artifacts : Settled(a)
    /\ \A w \in Writers : job[w] # Idle => Progress(w)

\* An empty directory is calm.
LEMMA CalmInitLemma == ReviewInit => Calm
<1> SUFFICES ASSUME ReviewInit PROVE Calm
  OBVIOUS
<1>1. \A a \in Artifacts : Settled(a)
  BY DEF ReviewInit, Settled, LastReview
<1> QED
  BY <1>1 DEF ReviewInit, Calm

\* Where the files tell one story, manifest and summary do.
LEMMA OneStory ==
    ASSUME NEW a \in Artifacts, Settled(a), NEW saw, saw[a] = LastReview(a)
    PROVE  ManifestState(saw, a) = SummaryState(a)
<1>1. "none" \notin Decisions /\ "absent" \notin States /\ "torn" \notin States
  BY ReviewAssumption DEF States, Pending
<1> QED
  BY <1>1 DEF Settled, ManifestState, SummaryState, Readable

\* While one process is at work the directory stays calm.
LEMMA CalmStepLemma == ReviewInv /\ Calm /\ [ReviewNext]_reviewVars => Calm'
<1> SUFFICES ASSUME ReviewInv, Calm, [ReviewNext]_reviewVars, ~died', ~together' PROVE Calm'
  BY DEF Calm
<1>a. Pending \notin Decisions /\ Decisions \subseteq States /\ Pending \in States
      /\ "absent" \notin States /\ "torn" \notin States /\ "none" \notin Decisions
  BY ReviewAssumption DEF Pending, States
<1>b. ReviewTypeOK /\ PackagesAreFresh /\ ReviewersHaveLogged /\ LastIsThere(log)
  BY DEF ReviewInv
<1>0. CASE UNCHANGED reviewVars
  <2>1. \A a \in Artifacts : LastReview(a)' = LastReview(a) /\ SummaryState(a)' = SummaryState(a)
    BY <1>0 DEF reviewVars, LastReview, SummaryState
  <2>2. Displayed' = Displayed /\ \A a \in Artifacts : Settled(a) => Settled(a)'
    BY <1>0, <2>1 DEF reviewVars, Displayed, Settled
  <2>3. UNCHANGED <<job, manifest, summary, torn, evidence, died, together>>
    BY <1>0 DEF reviewVars
  <2>4. ASSUME NEW w \in Writers, Progress(w), job[w] # Idle PROVE Progress(w)'
    <3>1. \A a \in Artifacts : Settled(a)'
             \/ (a = Artifact(w) /\ job[w].at \in {"opening", "saved", "drafting", "logged", "marking"})
      <4> TAKE a \in Artifacts
      <4>1. \/ Settled(a)
            \/ a = Artifact(w) /\ job[w].at \in {"opening", "saved", "drafting", "logged", "marking"}
        BY <2>4 DEF Progress
      <4> QED
        BY <4>1, <2>2
    <3>2. Artifact(w)' = Artifact(w) /\ UNCHANGED <<job, manifest, evidence>>
      BY <2>3 DEF Artifact
    <3>3. job[w].at \in {"opening", "saved", "drafting", "logged", "marking"} =>
             LastReview(Artifact(w))' = LastReview(Artifact(w))
      BY <1>0 DEF reviewVars, LastReview, Artifact
    <3> QED
      BY <2>1, <2>2, <2>4, <3>1, <3>2, <3>3 DEF Progress
  <2> QED
    BY <2>2, <2>3, <2>4 DEF Calm, AtRest
<1> SUFFICES ASSUME NEW w \in Writers,
                    \/ \E a \in Artifacts : BeginPackage(w, a)
                                            \/ \E d \in Decisions : BeginReview(w, a, d)
                    \/ PackageStep(w) \/ ReviewStep(w) \/ IndexStep(w) \/ Die(w)
             PROVE  Calm'
  BY <1>0 DEF ReviewNext
<1>c. ~died /\ ~together
  <2>1. died' = died \/ died' = TRUE
    BY DEF BeginPackage, BeginReview, PackageStep, ReviewStep, IndexStep, Die,
           WriteEvidence, OpenShadow, WriteShadow, AppendReview, OpenMark, WriteMark,
           ReadLog, WalkPackages, WriteManifest, CountArtifacts, WriteSummary
  <2>2. together' = together \/ together' = (together \/ \E v \in Writers : job[v] # Idle)
    BY DEF BeginPackage, BeginReview, PackageStep, ReviewStep, IndexStep, Die, Begin,
           WriteEvidence, OpenShadow, WriteShadow, AppendReview, OpenMark, WriteMark,
           ReadLog, WalkPackages, WriteManifest, CountArtifacts, WriteSummary
  <2>3. ~died
    BY <2>1, Zenon
  <2>4. ~together
    BY <2>2, Zenon
  <2> QED
    BY <2>3, <2>4
<1>d. /\ ~torn
      /\ \A v, u \in Writers : job[v] # Idle /\ job[u] # Idle => v = u
      /\ AtRest => manifest = summary /\ \A a \in Artifacts : Settled(a)
      /\ \A v \in Writers : job[v] # Idle => Progress(v)
  BY <1>c DEF Calm
<1>e. ASSUME job[w] # Idle PROVE Progress(w) /\ \A v \in Writers \ {w} : job[v] = Idle
  BY <1>d, <1>e
<1>f. ASSUME \A v \in Writers \ {w} : job'[v] = Idle, job'[w] # Idle, ~torn', Progress(w)'
      PROVE  Calm'
  BY <1>f DEF Calm, AtRest
<1>g. ASSUME UNCHANGED <<log, torn>>, NEW a \in Artifacts PROVE LastReview(a)' = LastReview(a)
  BY <1>g DEF LastReview
<1>h. ASSUME NEW at \in Stages, Goto(w, at), job[w].at # "idle"
      PROVE  /\ job'[w].at = at /\ job'[w].artifact = job[w].artifact
             /\ job'[w].decision = job[w].decision
             /\ job'[w].saw = job[w].saw /\ job'[w].built = job[w].built
             /\ job'[w] # Idle /\ job[w] # Idle /\ job[w] \in Jobs
             /\ \A v \in Writers \ {w} : job'[v] = Idle
  <2>1. job[w] # Idle
    BY <1>h DEF Idle
  <2> QED
    BY <1>h, <1>e, <2>1, GoesOn DEF Idle, Stages
<1>i. ASSUME NEW at \in Stages, NEW a \in Artifacts, NEW d \in Decisions \cup {"none"},
             Begin(w, at, a, d)
      PROVE  /\ AtRest /\ job'[w] # Idle
             /\ job'[w].at = at /\ job'[w].artifact = a
             /\ \A v \in Writers \ {w} : job'[v] = Idle
  <2>1. AtRest
    BY <1>i DEF Begin, AtRest
  <2> QED
    BY <1>i, <2>1, Begins DEF AtRest, Idle, Stages
<1>1. ASSUME NEW a \in Artifacts, BeginPackage(w, a) PROVE Calm'
  <2>1. AtRest /\ job'[w].at = "opening" /\ job'[w].artifact = a /\ job'[w] # Idle
        /\ \A v \in Writers \ {w} : job'[v] = Idle
    BY <1>1, <1>i DEF BeginPackage, Stages
  <2>2. evidence[a] = "absent" /\ evidence' = [evidence EXCEPT ![a] = "torn"]
        /\ UNCHANGED <<shadow, log, torn>>
    BY <1>1 DEF BeginPackage
  <2>3. LastReview(a)' = "none"
    BY <2>1, <2>2, <1>d, <1>g DEF Settled
  <2>4. \A b \in Artifacts \ {a} : Settled(b)'
    BY <2>1, <2>2, <1>d, <1>g DEF Settled, ReviewTypeOK
  <2>5. Progress(w)'
    BY <2>1, <2>3, <2>4 DEF Progress, Artifact
  <2> QED
    BY <1>d, <1>f, <2>1, <2>2, <2>5
<1>2. ASSUME NEW a \in Artifacts, NEW d \in Decisions, BeginReview(w, a, d) PROVE Calm'
  <2>1. AtRest /\ job'[w].at = "found" /\ job'[w] # Idle
        /\ \A v \in Writers \ {w} : job'[v] = Idle
    BY <1>2, <1>i DEF BeginReview, Stages
  <2>2. UNCHANGED <<evidence, shadow, log, torn>>
    BY <1>2 DEF BeginReview
  <2>3. \A b \in Artifacts : Settled(b)'
    BY <2>1, <2>2, <1>d, <1>g DEF Settled
  <2>4. Progress(w)'
    BY <2>1, <2>3 DEF Progress
  <2> QED
    BY <1>d, <1>f, <2>1, <2>2, <2>4
<1>3. CASE WriteEvidence(w)
  <2>1. job[w].at = "opening" /\ Goto(w, "saved")
        /\ evidence' = [evidence EXCEPT ![job[w].artifact] = "good"]
        /\ UNCHANGED <<shadow, log, torn>>
    BY <1>3 DEF WriteEvidence, At
  <2>2. /\ job'[w].at = "saved" /\ job'[w].artifact = job[w].artifact /\ job'[w] # Idle
        /\ job[w].artifact \in Artifacts /\ Progress(w)
        /\ \A v \in Writers \ {w} : job'[v] = Idle
    BY <2>1, <1>e, <1>h DEF Stages, Jobs
  <2>3. \A b \in Artifacts \ {job[w].artifact} : Settled(b)'
    BY <2>1, <2>2, <1>b, <1>g DEF Settled, ReviewTypeOK, Progress, Artifact
  <2>4. evidence'[job[w].artifact] = "good" /\ LastReview(job[w].artifact)' = "none"
    BY <2>1, <2>2, <1>b, <1>g DEF Progress, Artifact, ReviewTypeOK
  <2>5. Progress(w)'
    BY <2>2, <2>3, <2>4 DEF Progress, Artifact
  <2> QED
    BY <1>d, <1>f, <2>1, <2>2, <2>5
<1>4. CASE OpenShadow(w)
  <2>1. job[w].at = "saved" /\ Goto(w, "drafting")
        /\ shadow' = [shadow EXCEPT ![job[w].artifact] = "torn"]
        /\ UNCHANGED <<evidence, log, torn>>
    BY <1>4 DEF OpenShadow, At
  <2>2. /\ job'[w].at = "drafting" /\ job'[w].artifact = job[w].artifact /\ job'[w] # Idle
        /\ job[w].artifact \in Artifacts /\ Progress(w)
        /\ \A v \in Writers \ {w} : job'[v] = Idle
    BY <2>1, <1>e, <1>h DEF Stages, Jobs
  <2>3. \A b \in Artifacts \ {job[w].artifact} : Settled(b)'
    BY <2>1, <2>2, <1>b, <1>g DEF Settled, ReviewTypeOK, Progress, Artifact
  <2>4. evidence'[job[w].artifact] = "good" /\ LastReview(job[w].artifact)' = "none"
    BY <2>1, <2>2, <1>b, <1>g DEF Progress, Artifact, ReviewTypeOK
  <2>5. Progress(w)'
    BY <2>2, <2>3, <2>4 DEF Progress, Artifact
  <2> QED
    BY <1>d, <1>f, <2>1, <2>2, <2>5
<1>5. CASE WriteShadow(w)
  <2>1. job[w].at = "drafting" /\ Goto(w, "listing")
        /\ shadow' = [shadow EXCEPT ![job[w].artifact] = Pending]
        /\ UNCHANGED <<evidence, log, torn>>
    BY <1>5 DEF WriteShadow, At
  <2>2. /\ job'[w].at = "listing" /\ job'[w].artifact = job[w].artifact /\ job'[w] # Idle
        /\ job[w].artifact \in Artifacts /\ Progress(w)
        /\ \A v \in Writers \ {w} : job'[v] = Idle
    BY <2>1, <1>e, <1>h DEF Stages, Jobs
  <2>3. \A b \in Artifacts \ {job[w].artifact} : Settled(b)'
    BY <2>1, <2>2, <1>b, <1>g DEF Settled, ReviewTypeOK, Progress, Artifact
  <2>4. Settled(job[w].artifact)'
    BY <2>1, <2>2, <1>a, <1>b, <1>g DEF Progress, Artifact, ReviewTypeOK, Settled
  <2>5. Progress(w)'
    BY <2>2, <2>3, <2>4 DEF Progress, Artifact
  <2> QED
    BY <1>d, <1>f, <2>1, <2>2, <2>5
<1>6. CASE AppendReview(w)
  <2>1. job[w].at = "found" /\ Goto(w, "logged") /\ log' = Append(log, LineOf(w))
        /\ UNCHANGED <<evidence, shadow, torn>>
    BY <1>6, <1>d DEF AppendReview, At, Appended, LineOf
  <2>2. /\ job'[w].at = "logged" /\ job'[w].artifact = job[w].artifact /\ job'[w] # Idle
        /\ job[w].artifact \in Artifacts /\ Progress(w) /\ job'[w].decision = job[w].decision
        /\ \A v \in Writers \ {w} : job'[v] = Idle
    BY <2>1, <1>e, <1>h DEF Stages, Jobs
  <2>3. LineOf(w) \in Lines /\ shadow[job[w].artifact] # "absent"
    BY <2>1, <2>2, <1>b DEF ReviewersHaveLogged, Reviewing, LineOf, Lines, Artifact
  <2>4. \A b \in Artifacts :
          LastIn(log', b) = IF b = job[w].artifact THEN job[w].decision ELSE LastIn(log, b)
    <3> DEFINE l == LineOf(w)
    <3>1. log \in Seq(Lines) /\ LastIsThere(log) /\ l \in Lines /\ log' = Append(log, l)
      BY <2>1, <2>3, <1>b DEF ReviewTypeOK
    <3> HIDE DEF l
    <3>2. ASSUME NEW s, s = log, NEW t, t = log', NEW k, k = l, NEW b \in Artifacts
          PROVE  /\ b = k.artifact => LastIn(t, b) = k.decision
                 /\ b # k.artifact => LastIn(t, b) = LastIn(s, b)
      <4>1. s \in Seq(Lines) /\ LastIsThere(s) /\ k \in Lines /\ t = Append(s, k)
        BY <3>1, <3>2
      <4>2. CASE b = k.artifact
        BY <4>1, <4>2, LastAfterAppend, ZenonT(60)
      <4>3. CASE b # k.artifact
        BY <4>1, <4>3, LastAfterAppend, ZenonT(60)
      <4> QED
        BY <4>2, <4>3
    <3>4. ASSUME NEW b \in Artifacts
          PROVE  /\ b = l.artifact => LastIn(log', b) = l.decision
                 /\ b # l.artifact => LastIn(log', b) = LastIn(log, b)
      BY <3>2
    <3>3. l.artifact = job[w].artifact /\ l.decision = job[w].decision
      BY DEF LineOf, l
    <3> QED
      <4> TAKE b \in Artifacts
      <4>1. CASE b = job[w].artifact
        <5>1. b = l.artifact
          BY <3>3, <4>1
        <5>2. LastIn(log', b) = l.decision
          BY <3>4, <5>1, SMT
        <5> QED
          BY <3>3, <4>1, <5>2
      <4>2. CASE b # job[w].artifact
        BY <3>3, <3>4, <4>2
      <4> QED
        BY <4>1, <4>2
  <2>5. \A b \in Artifacts : LastReview(b) = LastIn(log, b) /\ LastReview(b)' = LastIn(log', b)
    <3> TAKE b \in Artifacts
    <3>1. LastReview(b) = LastIn(log, b)
      BY <1>d DEF LastReview, LastIn, NoLine
    <3>2. ~torn'
      BY <1>d, <2>1
    <3>3. LastReview(b)' = LastIn(log', b)
      BY <3>2 DEF LastReview, LastIn, NoLine
    <3> QED
      BY <3>1, <3>3
  <2>6. \A b \in Artifacts \ {job[w].artifact} : Settled(b)'
    BY <2>1, <2>2, <2>4, <2>5 DEF Settled, Progress, Artifact
  <2>7. evidence'[job[w].artifact] = "good" /\ LastReview(job[w].artifact)' = job[w].decision
    BY <2>1, <2>2, <2>3, <2>4, <2>5 DEF Progress, Artifact, Settled
  <2>8. Progress(w)'
    BY <2>2, <2>6, <2>7 DEF Progress, Artifact
  <2> QED
    BY <1>d, <1>f, <2>1, <2>2, <2>8
<1>7. CASE OpenMark(w)
  <2>1. job[w].at = "logged" /\ Goto(w, "marking")
        /\ shadow' = [shadow EXCEPT ![job[w].artifact] = "torn"]
        /\ UNCHANGED <<evidence, log, torn>>
    BY <1>7 DEF OpenMark, At
  <2>2. /\ job'[w].at = "marking" /\ job'[w].artifact = job[w].artifact /\ job'[w] # Idle
        /\ job[w].artifact \in Artifacts /\ Progress(w) /\ job'[w].decision = job[w].decision
        /\ \A v \in Writers \ {w} : job'[v] = Idle
    BY <2>1, <1>e, <1>h DEF Stages, Jobs
  <2>3. \A b \in Artifacts \ {job[w].artifact} : Settled(b)'
    BY <2>1, <2>2, <1>b, <1>g DEF Settled, ReviewTypeOK, Progress, Artifact
  <2>4. evidence'[job[w].artifact] = "good" /\ LastReview(job[w].artifact)' = job[w].decision
    BY <2>1, <2>2, <1>g DEF Progress, Artifact
  <2>5. Progress(w)'
    BY <2>2, <2>3, <2>4 DEF Progress, Artifact
  <2> QED
    BY <1>d, <1>f, <2>1, <2>2, <2>5
<1>8. CASE WriteMark(w)
  <2>1. job[w].at = "marking" /\ Goto(w, "listing")
        /\ shadow' = [shadow EXCEPT ![job[w].artifact] = job[w].decision]
        /\ UNCHANGED <<evidence, log, torn>>
    BY <1>8 DEF WriteMark, At
  <2>2. /\ job'[w].at = "listing" /\ job'[w].artifact = job[w].artifact /\ job'[w] # Idle
        /\ job[w].artifact \in Artifacts /\ Progress(w)
        /\ \A v \in Writers \ {w} : job'[v] = Idle
    BY <2>1, <1>e, <1>h DEF Stages, Jobs
  <2>3. \A b \in Artifacts \ {job[w].artifact} : Settled(b)'
    BY <2>1, <2>2, <1>b, <1>g DEF Settled, ReviewTypeOK, Progress, Artifact
  <2>4. job[w].decision \in Decisions
    BY <2>1, <1>b DEF ReviewersHaveLogged, Reviewing
  <2>5. Settled(job[w].artifact)'
    BY <2>1, <2>2, <2>4, <1>a, <1>b, <1>g DEF Progress, Artifact, ReviewTypeOK, Settled
  <2>6. Progress(w)'
    BY <2>2, <2>3, <2>5 DEF Progress, Artifact
  <2> QED
    BY <1>d, <1>f, <2>1, <2>2, <2>6
<1>9. ASSUME job[w] # Idle, job[w].at \in {"found", "listing", "walking", "listed", "counting", "counted"},
             UNCHANGED <<evidence, shadow, log, torn>>
      PROVE  /\ \A a \in Artifacts : Settled(a) /\ Settled(a)'
             /\ Displayed' = Displayed /\ \A a \in Artifacts : LastReview(a)' = LastReview(a)
  <2>1. \A a \in Artifacts : Settled(a)
    BY <1>9, <1>e DEF Progress
  <2> QED
    BY <1>9, <1>g, <2>1 DEF Settled, Displayed, SummaryState
<1>j. job[w] # Idle => job[w] \in Jobs
  BY <1>b DEF ReviewTypeOK
<1>10. CASE ReadLog(w)
  <2>1. job[w].at = "listing" /\ UNCHANGED <<evidence, shadow, log, torn>>
        /\ job' = [job EXCEPT ![w].at = "walking", ![w].saw = [a \in Artifacts |-> LastReview(a)]]
    BY <1>10 DEF ReadLog, At
  <2>2. job[w] # Idle /\ job[w] \in Jobs
    BY <2>1, <1>j DEF Idle
  <2>3. job'[w].at = "walking" /\ job'[w].saw = [a \in Artifacts |-> LastReview(a)]
        /\ \A v \in Writers \ {w} : job'[v] = Idle
    BY <2>1, <2>2, <1>b, <1>e DEF ReviewTypeOK, Jobs
  <2>5. job'[w] # Idle
    BY <2>3 DEF Idle
  <2>6. \A a \in Artifacts : Settled(a)' /\ LastReview(a)' = LastReview(a)
    BY <2>1, <2>2, <1>9
  <2>4. Progress(w)'
    BY <2>3, <2>6 DEF Progress
  <2> QED
    BY <1>d, <1>f, <2>1, <2>3, <2>4, <2>5
<1>11. CASE WalkPackages(w)
  <2> DEFINE made == [a \in Artifacts |-> ManifestState(job[w].saw, a)]
  <2>1. job[w].at = "walking" /\ UNCHANGED <<evidence, shadow, log, torn>>
        /\ job' = [job EXCEPT ![w].at = "listed", ![w].built = made]
    BY <1>11 DEF WalkPackages, At
  <2>2. job[w] # Idle /\ job[w] \in Jobs
    BY <2>1, <1>j DEF Idle
  <2>3. made = Displayed
    <3>1. \A a \in Artifacts : Settled(a) /\ job[w].saw[a] = LastReview(a)
      BY <2>1, <2>2, <1>e, <1>9 DEF Progress
    <3> QED
      BY <3>1, OneStory DEF Displayed
  <2>4. job'[w].at = "listed" /\ job'[w].built = Displayed
        /\ \A v \in Writers \ {w} : job'[v] = Idle
    <3> HIDE DEF made
    <3> QED
      BY <2>1, <2>2, <2>3, <1>b, <1>e DEF ReviewTypeOK, Jobs
  <2>5. job'[w] # Idle
    BY <2>4 DEF Idle
  <2>6. Displayed' = Displayed /\ \A a \in Artifacts : Settled(a)'
    BY <2>1, <2>2, <1>9
  <2>7. Progress(w)'
    BY <2>4, <2>6 DEF Progress
  <2> QED
    BY <1>d, <1>f, <2>1, <2>4, <2>5, <2>7
<1>12. CASE WriteManifest(w)
  <2>1. job[w].at = "listed" /\ Goto(w, "counting") /\ manifest' = job[w].built
        /\ UNCHANGED <<evidence, shadow, log, torn>>
    BY <1>12 DEF WriteManifest, At
  <2>2. job'[w].at = "counting" /\ job'[w] # Idle /\ job[w] # Idle
        /\ \A v \in Writers \ {w} : job'[v] = Idle
    BY <2>1, <1>h DEF Stages
  <2>3. manifest' = Displayed
    BY <2>1, <2>2, <1>e DEF Progress
  <2>4. Progress(w)'
    BY <2>1, <2>2, <2>3, <1>9 DEF Progress, Artifact
  <2> QED
    BY <1>d, <1>f, <2>1, <2>2, <2>4
<1>13. CASE CountArtifacts(w)
  <2>1. job[w].at = "counting" /\ UNCHANGED <<evidence, shadow, log, torn, manifest>>
        /\ job' = [job EXCEPT ![w].at = "counted", ![w].built = Displayed]
    BY <1>13 DEF CountArtifacts, At, Displayed
  <2>2. job[w] # Idle /\ job[w] \in Jobs
    BY <2>1, <1>j DEF Idle
  <2>3. job'[w].at = "counted" /\ job'[w].built = Displayed
        /\ \A v \in Writers \ {w} : job'[v] = Idle
    BY <2>1, <2>2, <1>b, <1>e DEF ReviewTypeOK, Jobs
  <2>4. manifest' = Displayed
    BY <2>1, <2>2, <1>e DEF Progress
  <2>5. job'[w] # Idle
    BY <2>3 DEF Idle
  <2>6. Displayed' = Displayed /\ \A a \in Artifacts : Settled(a)'
    BY <2>1, <2>2, <1>9
  <2>7. Progress(w)'
    BY <2>1, <2>3, <2>4, <2>6 DEF Progress
  <2> QED
    BY <1>d, <1>f, <2>1, <2>3, <2>5, <2>7
<1>14. CASE WriteSummary(w)
  <2>1. job[w].at = "counted" /\ UNCHANGED <<evidence, shadow, log, torn, manifest>>
        /\ summary' = job[w].built /\ job' = [job EXCEPT ![w] = Idle]
    BY <1>14 DEF WriteSummary, At
  <2>2. job[w] # Idle /\ \A v \in Writers : job'[v] = Idle
    BY <2>1, <1>b, <1>e DEF Idle, ReviewTypeOK
  <2>3. summary' = manifest'
    BY <2>1, <2>2, <1>e DEF Progress
  <2> QED
    BY <2>1, <2>2, <2>3, <1>9, <1>d DEF Calm, AtRest
<1>15. CASE Die(w)
  BY <1>15 DEF Die
<1> QED
  BY <1>1, <1>2, <1>3, <1>4, <1>5, <1>6, <1>7, <1>8, <1>10, <1>11, <1>12, <1>13, <1>14,
     <1>15 DEF PackageStep, ReviewStep, IndexStep

-----------------------------------------------------------------------------
\* The log only grows, its marks are backed, a review stands and the indexes
\* agree, whatever overlaps and dies (create_compare_evidence_package,
\* record_recommendation_shadow_review and the two rebuilds they end with).
THEOREM ReviewsStaySafe == ReviewSpec => []ReviewTypeOK /\ ReviewsAreSafe
<1>1. ReviewInv => ReviewTypeOK /\ ReviewStands /\ MarksAreLogged
  <2> SUFFICES ASSUME ReviewInv PROVE ReviewStands
    BY DEF ReviewInv
  <2> SUFFICES ASSUME NEW a \in reviewed
               PROVE  ManifestState([b \in Artifacts |-> LastReview(b)], a) \in Decisions \cup {"skipped"}
    BY DEF ReviewStands
  <2>1. a \in Artifacts /\ shadow[a] \in Decisions \cup {"torn"} /\ evidence[a] # "absent"
        /\ "torn" \notin States /\ "absent" \notin Decisions
    BY ReviewAssumption DEF ReviewInv, ReviewTypeOK, ReviewedAreMarked, States, Pending
  <2>2. [b \in Artifacts |-> LastReview(b)][a] \in Decisions \cup {"none"}
    BY <2>1, LastReviewIs
  <2> QED
    BY <2>1, <2>2 DEF ManifestState, Readable
<1>2. Calm => IndexesAgree
  BY DEF Calm, IndexesAgree
<1>3. ReviewInv /\ [ReviewNext]_reviewVars => [IsPrefix(log, log')]_log
  <2> SUFFICES ASSUME ReviewInv, ReviewNext, log' # log
               PROVE  IsPrefix(log, log')
    BY DEF reviewVars
  <2>1. PICK w \in Writers : AppendReview(w)
    BY DEF ReviewNext, PackageStep, ReviewStep, IndexStep, BeginPackage, BeginReview,
           WriteEvidence, OpenShadow, WriteShadow, OpenMark, WriteMark, ReadLog,
           WalkPackages, WriteManifest, CountArtifacts, WriteSummary, Die
  <2> DEFINE l == [artifact |-> job[w].artifact, decision |-> job[w].decision]
  <2>2. log' = Append(log, l)
    BY <2>1 DEF AppendReview, Appended
  <2>3. log \in Seq(Lines)
    BY DEF ReviewInv, ReviewTypeOK
  <2> HIDE DEF l
  <2>4. Len(log') = Len(log) + 1 /\ SubSeq(log', 1, Len(log)) = SubSeq(log, 1, Len(log))
    BY <2>2, <2>3
  <2> QED
    BY <2>3, <2>4 DEF IsPrefix
<1> QED
  BY <1>1, <1>2, <1>3, ReviewInitLemma, ReviewStepLemma, CalmInitLemma, CalmStepLemma, PTL
     DEF ReviewSpec, ReviewsAreSafe, LogOnlyGrows

-------------------------------------------------------------------------------
(* The replay campaign.                                                      *)

\* What the ids, the commands and the notes of a workspace are.
CaseIds == [origin : Origins, run : Nat]
Marks == Verdicts \cup {Waiting}
IdleCommand == [at |-> "idle"]
Wanted == {"reset", "seed", "import", "harvest"}
Campaigns ==
    [at : Phases, flags : SUBSET Wanted, budget : Nat, queue : SUBSET Nat, deepest : Nat,
     fresh : BOOLEAN, state : Marks \cup {"unread"}, ingested : [Origins -> Nat]]
ReviewCommands == [at : {"found", "noted", "marked"}, id : CaseIds, verdict : Verdicts]
Notes == [id : CaseIds, verdict : Verdicts]

\* The types of what the commands work with.
CorpusIsTyped ==
    /\ runs \in Seq(Summaries)
    /\ corpus \in [DOMAIN corpus -> Marks] /\ DOMAIN corpus \subseteq CaseIds /\ IsFiniteSet(DOMAIN corpus)
    /\ notes \in Seq(Notes)
    /\ campaign \in Campaigns \cup {IdleCommand}
    /\ review \in ReviewCommands \cup {IdleCommand}
    /\ crossed \in BOOLEAN

\* The artifacts of one origin.
Of(o) == {id \in DOMAIN corpus : id.origin = o}

Taking == campaign.at \in {"importing", "harvesting"}

\* Who overlaps is noticed.
OverlapsAreSeen == campaign.at # "idle" /\ review.at # "idle" => crossed

\* An artifact bears the last verdict on it, but for the one that a review has
\* noted and not yet marked.
VerdictsAreBorne ==
    ~crossed =>
        /\ review.at # "idle" => review.id \in DOMAIN corpus
        /\ review.at = "noted" => LastVerdict(review.id) = review.verdict
        /\ \A id \in DOMAIN corpus :
              \/ LastVerdict(id) = "none" \/ corpus[id] = LastVerdict(id)
              \/ review.at = "noted" /\ id = review.id

\* What is in the queue can be taken, and what was prepared is still true.
QueueIsTrue ==
    /\ Taking =>
          /\ campaign.queue \subseteq {i \in DOMAIN runs : runs[i].pattern # Unusable}
          /\ campaign.at = "importing" => \A i \in campaign.queue : runs[i].kind \in {"group", "task"}
          /\ campaign.state # "unread" =>
                campaign.queue # {} /\ (~crossed => campaign.state = Kept(NextId))
    /\ campaign.at # "idle" /\ ~Taking => campaign.state = "unread" /\ campaign.deepest = 0

\* A campaign that began with a reset has ingested what there is, each under an
\* id that was free.
BuiltAnew ==
    campaign.at # "idle" =>
        /\ campaign.at \in {"reset", "seed"} => campaign.fresh
        /\ campaign.at = "reset" => \A o \in Origins : campaign.ingested[o] = 0
        /\ ~crossed /\ campaign.at = "seed" => DOMAIN corpus = {} /\ notes = <<>>
        /\ ~crossed /\ campaign.fresh /\ campaign.at # "reset" =>
              /\ \A o \in Origins : campaign.ingested[o] = Cardinality(Of(o))
              /\ campaign.at \in {"seed", "import"} => Of("runtime") = {}
              /\ campaign.at \in {"seed", "import", "importing", "harvest"} => Of("native") = {}
              /\ Taking => \A i \in campaign.queue : [origin |-> Origin, run |-> i] \notin DOMAIN corpus

\* What the campaigns and the reviews rest on.
CorpusInv ==
    /\ CorpusIsTyped /\ OverlapsAreSeen /\ VerdictsAreBorne /\ QueueIsTrue /\ BuiltAnew
    /\ BreadthFirst /\ BucketsCoverCorpus

-----------------------------------------------------------------------------
\* The reserved words are no verdicts.
LEMMA WordsDiffer ==
    /\ "none" \notin Marks /\ "unread" \notin Marks
    /\ Waiting \notin Verdicts
BY CorpusAssumption DEF Marks, Waiting

\* What the log says last of an id: nothing, or the verdict of a note about it.
LEMMA LastVerdictIs ==
    ASSUME NEW book \in Seq(Notes), NEW id
    PROVE  LET its == {i \in DOMAIN book : book[i].id = id}
           IN  its # {} => Max(its) \in its /\ (\A i \in its : Max(its) >= i)
                           /\ book[Max(its)].verdict \in Verdicts
<1> DEFINE its == {i \in DOMAIN book : book[i].id = id}
<1>1. Len(book) \in Nat /\ its \in SUBSET (0 .. Len(book))
  OBVIOUS
<1>2. ASSUME its # {} PROVE Max(its) \in its /\ \A i \in its : Max(its) >= i
  <2> HIDE DEF its
  <2> QED
    BY <1>1, <1>2, BoundedHasMax
<1>3. ASSUME its # {} PROVE book[Max(its)].verdict \in Verdicts
  <2>1. \A i \in DOMAIN book : book[i].verdict \in Verdicts
    <3>1. \A i \in DOMAIN book : book[i] \in Notes
      OBVIOUS
    <3> QED
      BY <3>1 DEF Notes
  <2>2. \A i \in its : i \in DOMAIN book
    OBVIOUS
  <2> HIDE DEF its
  <2> QED
    BY <1>2, <1>3, <2>1, <2>2
<1> QED
  BY <1>2, <1>3

\* The same of the log as it is.
LEMMA VerdictOrNone ==
    ASSUME notes \in Seq(Notes), NEW id
    PROVE  /\ LastVerdict(id) \in Verdicts \cup {"none"}
           /\ LastVerdict(id) = "none" => \A i \in DOMAIN notes : notes[i].id # id
           /\ notes = <<>> => LastVerdict(id) = "none"
<1> DEFINE its == {i \in DOMAIN notes : notes[i].id = id}
<1>1. LastVerdict(id) = IF its = {} THEN "none" ELSE notes[Max(its)].verdict
  BY DEF LastVerdict
<1>2. its # {} => notes[Max(its)].verdict \in Verdicts
  BY LastVerdictIs
<1>3. notes = <<>> => its = {}
  OBVIOUS
<1>4. "none" \notin Verdicts
  BY WordsDiffer DEF Marks
<1>5. its = {} => \A i \in DOMAIN notes : notes[i].id # id
  OBVIOUS
<1> HIDE DEF its
<1> QED
  BY <1>1, <1>2, <1>3, <1>4, <1>5

\* A note is the last word on what it is about, and none on anything else.
LEMMA NoteSpeaks ==
    ASSUME notes \in Seq(Notes), NEW n \in Notes, notes' = Append(notes, n), NEW id
    PROVE  LastVerdict(id)' = IF id = n.id THEN n.verdict ELSE LastVerdict(id)
<1> DEFINE book == Append(notes, n)
           its == {i \in DOMAIN notes : notes[i].id = id}
           new == {i \in DOMAIN book : book[i].id = id}
<1>1. LastVerdict(id) = IF its = {} THEN "none" ELSE notes[Max(its)].verdict
  BY DEF LastVerdict
<1>2. LastVerdict(id)' = IF new = {} THEN "none" ELSE book[Max(new)].verdict
  BY DEF LastVerdict
<1>3. /\ book \in Seq(Notes) /\ Len(notes) \in Nat /\ DOMAIN book = 1 .. Len(notes) + 1
      /\ DOMAIN notes = 1 .. Len(notes) /\ book[Len(notes) + 1] = n
      /\ \A i \in 1 .. Len(notes) : book[i] = notes[i]
  OBVIOUS
<1> HIDE DEF book
<1>4. new # {} => Max(new) \in new /\ \A i \in new : Max(new) >= i
  BY <1>3, LastVerdictIs
<1>5. CASE id = n.id
  <2>1. Len(notes) + 1 \in new
    BY <1>3, <1>5
  <2>2. Max(new) = Len(notes) + 1
    <3>1. new \subseteq 1 .. Len(notes) + 1
      BY <1>3
    <3>2. PICK m : m = Max(new)
      OBVIOUS
    <3> HIDE DEF new
    <3>3. m \in new /\ \A i \in new : m >= i
      BY <1>4, <2>1, <3>2
    <3>4. m = Len(notes) + 1
      BY <1>3, <2>1, <3>1, <3>3
    <3> QED
      BY <3>2, <3>4
  <2> HIDE DEF new, its
  <2> QED
    BY <1>2, <1>3, <1>5, <2>1, <2>2
<1>6. CASE id # n.id
  <2>1. new = its
    BY <1>3, <1>6
  <2>2. its # {} => Max(its) \in 1 .. Len(notes)
    BY <1>3, <1>4, <2>1
  <2> HIDE DEF new, its
  <2> QED
    BY <1>1, <1>2, <1>3, <1>6, <2>1, <2>2
<1> QED
  BY <1>5, <1>6

-----------------------------------------------------------------------------
\* The runs that can be taken.
Usables == {i \in DOMAIN runs : runs[i].pattern # Unusable}

\* A case is like itself, and one of those like it is the latest.
LEMMA LikeIs ==
    ASSUME runs \in Seq(Summaries), NEW i \in Usables
    PROVE  /\ i \in Nat /\ i \in Like(i) /\ Like(i) \subseteq Nat /\ IsFiniteSet(Like(i))
           /\ Depth(i) \in Nat /\ Latest(i) \in Nat /\ Latest(i) \in Like(i)
<1>1. Len(runs) \in Nat /\ DOMAIN runs = 1 .. Len(runs)
  OBVIOUS
<1>2. Like(i) \in SUBSET (0 .. Len(runs)) /\ i \in Like(i) /\ i \in Nat
  BY <1>1 DEF Like, Usable, Usables
<1>3. IsFiniteSet(0 .. Len(runs))
  BY <1>1, FS_Interval
<1>4. IsFiniteSet(Like(i))
  BY <1>2, <1>3, FS_Subset
<1>5. Depth(i) \in Nat
  <2> DEFINE later == {j \in Like(i) : j > i}
  <2>1. later \in SUBSET Like(i)
    OBVIOUS
  <2>2. Depth(i) = Cardinality(later)
    BY DEF Depth
  <2> HIDE DEF later
  <2> QED
    BY <1>4, <2>1, <2>2, FS_Subset, FS_CardinalityType
<1>6. Latest(i) \in Like(i)
  <2> DEFINE like == Like(i)
  <2>1. Latest(i) = Max(like)
    BY DEF Latest
  <2>2. like \in SUBSET (0 .. Len(runs)) /\ like # {}
    BY <1>2
  <2> HIDE DEF like
  <2>3. Max(like) \in like
    BY <1>1, <2>2, BoundedHasMax
  <2> QED
    BY <2>1, <2>3 DEF like
<1>7. Like(i) \subseteq Nat
  BY <1>1, <1>2
<1> QED
  BY <1>2, <1>4, <1>5, <1>6, <1>7

\* Of those with the same latest, each has a depth of its own.
LEMMA DepthsDiffer ==
    ASSUME runs \in Seq(Summaries), NEW i \in Usables, NEW j \in Usables,
           Latest(i) = Latest(j), Depth(i) = Depth(j)
    PROVE  i = j
<1>1. Like(i) = Like(j)
  <2>1. Latest(i) \in Like(i) /\ Latest(j) \in Like(j)
    BY LikeIs
  <2>2. runs[i].kind = runs[j].kind /\ runs[i].pattern = runs[j].pattern
    BY <2>1 DEF Like, Usable
  <2> QED
    BY <2>2 DEF Like
<1>2. ASSUME NEW a \in Usables, NEW b \in Usables, Like(a) = Like(b), Depth(a) = Depth(b), a < b
      PROVE  FALSE
  <2> DEFINE A == {k \in Like(a) : k > a}
             B == {k \in Like(b) : k > b}
  <2>1. a \in Nat /\ b \in Nat /\ b \in Like(b) /\ Like(b) \subseteq Nat /\ IsFiniteSet(Like(b))
    BY LikeIs
  <2>2. B \in SUBSET A /\ b \in A /\ b \notin B /\ A \in SUBSET Like(b)
    BY <1>2, <2>1
  <2>3. Cardinality(A) = Cardinality(B)
    BY <1>2 DEF Depth
  <2> HIDE DEF A, B
  <2>4. IsFiniteSet(A)
    BY <2>1, <2>2, FS_Subset
  <2>5. A = B
    BY <2>2, <2>3, <2>4, FS_Subset
  <2> QED
    BY <2>2, <2>5
<1>3. i \in Nat /\ j \in Nat
  BY LikeIs
<1>4. ~(i < j)
  BY <1>1, <1>2
<1>5. ~(j < i)
  BY <1>1, <1>2
<1> QED
  BY <1>3, <1>4, <1>5

\* The queue has a first case.
LEMMA NextIs ==
    ASSUME CorpusIsTyped, QueueIsTrue, Taking, campaign.queue # {}
    PROVE  NextCase \in campaign.queue /\ \A j \in campaign.queue \ {NextCase} : Precedes(NextCase, j)
<1> DEFINE Q == campaign.queue
           R == {ij \in Q \X Q : Precedes(ij[1], ij[2])}
<1>0. runs \in Seq(Summaries)
  BY DEF CorpusIsTyped
<1>1. Q \in SUBSET Usables
  BY DEF QueueIsTrue, Usables
<1>2. IsFiniteSet(Q)
  <2>1. Len(runs) \in Nat /\ DOMAIN runs = 1 .. Len(runs)
    BY <1>0
  <2>2. Q \in SUBSET (1 .. Len(runs))
    BY <1>1, <2>1 DEF Usables
  <2>3. IsFiniteSet(1 .. Len(runs))
    BY <2>1, FS_Interval
  <2> HIDE DEF Q
  <2> QED
    BY <2>2, <2>3, FS_Subset
<1>3. \A i \in Q : i \in Nat /\ Depth(i) \in Nat /\ Latest(i) \in Nat
  BY <1>0, <1>1, LikeIs
<1>4. \A i, j \in Q : Latest(i) = Latest(j) /\ Depth(i) = Depth(j) => i = j
  BY <1>0, <1>1, DepthsDiffer
<1>5. campaign.at = "importing" => \A i \in Q : runs[i].kind \in {"group", "task"}
  BY DEF QueueIsTrue
<1> HIDE DEF Q
<1>6. \A i, j \in Q : <<i, j>> \in R <=> Precedes(i, j)
  OBVIOUS
<1>7. /\ \A i \in Q : ~Precedes(i, i)
      /\ \A i, j \in Q : i # j => Precedes(i, j) \/ Precedes(j, i)
      /\ \A i, j, k \in Q : Precedes(i, j) /\ Precedes(j, k) => Precedes(i, k)
  <2>1. CASE campaign.at = "importing"
    <3> DEFINE G(i) == runs[i].kind = "group"
    <3>3. \A i, j \in Q : runs[i].kind # runs[j].kind <=> (G(i) # G(j))
      BY <1>5, <2>1
    <3>4. \A i, j \in Q : Precedes(i, j) <=> IF G(i) # G(j) THEN G(i) ELSE RoundRobin(i, j)
      BY <2>1, <3>3 DEF Precedes, ImportsBefore, RoundRobin
    <3>5. \A i, j \in Q : G(i) \in BOOLEAN /\ RoundRobin(i, j) \in BOOLEAN
      BY DEF RoundRobin
    <3>6. \A i \in Q : ~RoundRobin(i, i)
      BY <1>3 DEF RoundRobin
    <3>7. \A i, j \in Q : i # j => RoundRobin(i, j) \/ RoundRobin(j, i)
      BY <1>3, <1>4 DEF RoundRobin
    <3>8. \A i, j, k \in Q : RoundRobin(i, j) /\ RoundRobin(j, k) => RoundRobin(i, k)
      BY <1>3 DEF RoundRobin
    <3> HIDE DEF G
    <3>9. \A i \in Q : ~Precedes(i, i)
      BY <3>4, <3>5, <3>6
    <3>10. \A i, j \in Q : i # j => Precedes(i, j) \/ Precedes(j, i)
      BY <3>4, <3>5, <3>7
    <3>11. \A i, j, k \in Q : Precedes(i, j) /\ Precedes(j, k) => Precedes(i, k)
      BY <3>4, <3>5, <3>8
    <3> QED
      BY <3>9, <3>10, <3>11
  <2>2. CASE campaign.at # "importing"
    BY <1>3, <1>4, <2>2 DEF Precedes, HarvestsBefore
  <2> QED
    BY <2>1, <2>2
<1>8. Orders(R, Q)
  <2> HIDE DEF R
  <2> QED
    BY <1>6, <1>7 DEF Orders
<1>9. \E m \in Q : \A x \in Q \ {m} : <<m, x>> \in R
  <2> HIDE DEF R
  <2> QED
    BY <1>2, <1>8, HasFirst DEF Q
<1>10. \E m \in Q : \A x \in Q \ {m} : Precedes(m, x)
  BY <1>6, <1>9
<1> QED
  BY <1>10 DEF NextCase, Q

-----------------------------------------------------------------------------
\* The phases come in their order, and only those that were asked for.
LEMMA ComingIs ==
    ASSUME NEW n \in 1 .. 5, NEW flags
    PROVE  LET c == Coming(n, flags)
           IN  /\ c \in {"reset", "seed", "import", "harvest", "report"}
               /\ c = "reset" => n = 1 /\ "reset" \in flags
               /\ c = "seed" => n <= 2 /\ "seed" \in flags
               /\ c = "import" => n <= 3
               /\ c = "harvest" => n <= 4
               /\ n = 1 /\ "reset" \in flags => c = "reset"
<1> DEFINE asked == {k \in n .. 5 : Order[k] = "report" \/ Order[k] \in flags}
<1>1. asked \in SUBSET Nat /\ 5 \in asked
  BY DEF Order
<1>2. PICK m : m = Min(asked)
  OBVIOUS
<1>3. m \in asked /\ \A x \in asked : m <= x
  <2> HIDE DEF asked
  <2> QED
    BY <1>1, <1>2, NatHasMin
<1>4. m \in n .. 5 /\ (Order[m] = "report" \/ Order[m] \in flags)
  BY <1>3
<1>5. n = 1 /\ "reset" \in flags => m = 1
  <2>1. n = 1 /\ "reset" \in flags => 1 \in asked
    BY DEF Order
  <2> QED
    BY <1>3, <1>4, <2>1
<1>6. Coming(n, flags) = Order[m]
  BY <1>2 DEF Coming
<1>7. m \in {1, 2, 3, 4, 5}
  BY <1>4
<1>8. /\ Order[1] = "reset" /\ Order[2] = "seed" /\ Order[3] = "import" /\ Order[4] = "harvest"
      /\ Order[5] = "report"
  BY DEF Order
<1> HIDE DEF asked
<1> QED
  BY <1>4, <1>5, <1>6, <1>7, <1>8

\* An unchanged log says the same.
LEMMA LogStays == ASSUME notes' = notes, NEW id PROVE LastVerdict(id)' = LastVerdict(id)
BY DEF LastVerdict

\* A campaign's step that leaves the workspace alone leaves the verdicts.
LEMMA VerdictsStay ==
    ASSUME VerdictsAreBorne, notes' = notes, corpus' = corpus, review' = review, crossed' = FALSE => crossed = FALSE,
           crossed \in BOOLEAN, crossed' \in BOOLEAN
    PROVE  VerdictsAreBorne'
<1>1. \A id : LastVerdict(id)' = LastVerdict(id)
  BY LogStays
<1>2. LastVerdict(review.id)' = LastVerdict(review.id)
  BY DEF LastVerdict
<1> QED
  BY <1>1, <1>2 DEF VerdictsAreBorne

\* A report that is kept, or dropped, says nothing new.
LEMMA ReportStays ==
    ASSUME BucketsCoverCorpus, report' \in {report, NoReport}, crossed' = FALSE => crossed = FALSE,
           crossed \in BOOLEAN, crossed' \in BOOLEAN
    PROVE  BucketsCoverCorpus'
<1>1. NoReport.whole = FALSE
  BY DEF NoReport
<1> QED
  BY <1>1 DEF BucketsCoverCorpus

\* What a campaign is, field by field.
LEMMA CampaignIs ==
    ASSUME campaign \in Campaigns \cup {IdleCommand}, campaign.at # "idle"
    PROVE  /\ campaign \in Campaigns
           /\ campaign.at \in Phases /\ campaign.flags \subseteq Wanted /\ campaign.queue \subseteq Nat
           /\ campaign.deepest \in Nat /\ campaign.fresh \in BOOLEAN
           /\ campaign.state \in Marks \cup {"unread"} /\ campaign.ingested \in [Origins -> Nat]
<1>1. campaign \in Campaigns
  BY DEF IdleCommand
<1> QED
  BY <1>1 DEF Campaigns

\* A review that is under way is one of an artifact.
LEMMA ReviewIs ==
    ASSUME review \in ReviewCommands \cup {IdleCommand}, review.at # "idle"
    PROVE  review \in ReviewCommands /\ review.id \in CaseIds /\ review.verdict \in Verdicts
BY DEF ReviewCommands, IdleCommand

\* The empty workspace of a new machine is as it should be.
LEMMA CorpusInitLemma == CorpusInit => CorpusInv
<1> SUFFICES ASSUME CorpusInit PROVE CorpusInv
  OBVIOUS
<1>1. campaign.at = "idle" /\ review.at = "idle" /\ crossed = FALSE
  BY DEF CorpusInit
<1>2. DOMAIN corpus = {}
  BY DEF CorpusInit
<1>3. CorpusIsTyped
  <2>1. corpus \in [DOMAIN corpus -> Marks]
    BY <1>2 DEF CorpusInit
  <2>2. IsFiniteSet(DOMAIN corpus)
    BY <1>2, FS_EmptySet
  <2>3. runs \in Seq(Summaries) /\ notes \in Seq(Notes)
    BY DEF CorpusInit
  <2> QED
    BY <1>1, <1>2, <2>1, <2>2, <2>3 DEF CorpusIsTyped, CorpusInit, IdleCommand
<1>4. OverlapsAreSeen /\ QueueIsTrue /\ BuiltAnew /\ BreadthFirst
  BY <1>1 DEF OverlapsAreSeen, QueueIsTrue, BuiltAnew, BreadthFirst, Taking
<1>5. VerdictsAreBorne
  BY <1>1, <1>2 DEF VerdictsAreBorne
<1>6. BucketsCoverCorpus
  BY DEF CorpusInit, NoReport, BucketsCoverCorpus
<1> QED
  BY <1>3, <1>4, <1>5, <1>6 DEF CorpusInv

\* The runtime's summaries come while nothing is taken.
LEMMA SummaryKeepsCorpus == ASSUME CorpusInv, NEW s \in Summaries, LeaveSummary(s) PROVE CorpusInv'
<1>1. /\ campaign.at \in {"import", "harvest"} /\ runs' = Append(runs, s)
      /\ UNCHANGED <<corpus, notes, campaign, review, report, crossed>>
  BY DEF LeaveSummary
<1>2. CorpusIsTyped'
  <2>1. runs' \in Seq(Summaries)
    BY <1>1 DEF CorpusInv, CorpusIsTyped
  <2> QED
    BY <1>1, <2>1 DEF CorpusInv, CorpusIsTyped
<1>3. VerdictsAreBorne'
  BY <1>1, VerdictsStay DEF CorpusInv, CorpusIsTyped
<1>4. BucketsCoverCorpus'
  BY <1>1 DEF CorpusInv, BucketsCoverCorpus
<1>5. OverlapsAreSeen' /\ QueueIsTrue' /\ BuiltAnew' /\ BreadthFirst'
  BY <1>1 DEF CorpusInv, OverlapsAreSeen, QueueIsTrue, BuiltAnew, BreadthFirst, Taking, Of
<1> QED
  BY <1>2, <1>3, <1>4, <1>5 DEF CorpusInv

\* A campaign begins with nothing done; one that wants a reset begins with it.
LEMMA BeginKeepsCorpus ==
    ASSUME CorpusInv, NEW flags \in Wishes, NEW b \in Budgets, BeginCampaign(flags, b)
    PROVE  CorpusInv'
<1>1. /\ campaign' = Begun(flags, b) /\ crossed' = (crossed \/ review.at # "idle") /\ report' = NoReport
      /\ UNCHANGED <<runs, corpus, notes, review>>
  BY DEF BeginCampaign
<1>2. b \in Nat /\ flags \subseteq Wanted /\ ("seed" \in flags => "reset" \in flags)
  BY CorpusAssumption DEF Wanted
<1>3. PICK c : c = Coming(1, flags)
  OBVIOUS
<1>4. /\ c \in {"reset", "seed", "import", "harvest", "report"}
      /\ c = "reset" => "reset" \in flags
      /\ c = "seed" => "seed" \in flags
      /\ "reset" \in flags => c = "reset"
  BY <1>3, ComingIs
<1>5. /\ campaign' \in Campaigns /\ campaign'.at = c /\ campaign'.fresh = ("reset" \in flags)
      /\ campaign'.state = "unread" /\ campaign'.deepest = 0
      /\ \A o \in Origins : campaign'.ingested[o] = 0
  BY <1>1, <1>2, <1>3, <1>4 DEF Begun, Campaigns, Phases
<1>6. CorpusIsTyped'
  BY <1>1, <1>5 DEF CorpusInv, CorpusIsTyped
<1>7. VerdictsAreBorne'
  BY <1>1, <1>6, VerdictsStay DEF CorpusInv, CorpusIsTyped
<1>8. BucketsCoverCorpus'
  BY <1>1, <1>6, ReportStays DEF CorpusInv, CorpusIsTyped
<1>9. OverlapsAreSeen' /\ QueueIsTrue' /\ BuiltAnew' /\ BreadthFirst'
  BY <1>1, <1>2, <1>4, <1>5 DEF OverlapsAreSeen, QueueIsTrue, BuiltAnew, BreadthFirst, Taking
<1> QED
  BY <1>6, <1>7, <1>8, <1>9 DEF CorpusInv

\* A reset leaves nothing, neither artifacts nor verdicts.
LEMMA ResetKeepsCorpus == ASSUME CorpusInv, ResetWorkspace PROVE CorpusInv'
<1>1. /\ campaign.at = "reset" /\ corpus' = <<>> /\ notes' = <<>>
      /\ campaign' = [campaign EXCEPT !.at = Coming(2, campaign.flags), !.flags = @ \ {"reset"}]
      /\ UNCHANGED <<runs, review, report, crossed>>
  BY DEF ResetWorkspace
<1>2. /\ campaign \in Campaigns /\ campaign.ingested \in [Origins -> Nat] /\ campaign.fresh
      /\ campaign.state = "unread" /\ campaign.deepest = 0
      /\ \A o \in Origins : campaign.ingested[o] = 0
  <2>1. campaign \in Campaigns \cup {IdleCommand} /\ campaign.at # "idle" /\ ~Taking
    BY <1>1 DEF CorpusInv, CorpusIsTyped, Taking
  <2> QED
    BY <1>1, <2>1, CampaignIs DEF CorpusInv, QueueIsTrue, BuiltAnew
<1>3. PICK c : c = Coming(2, campaign.flags)
  OBVIOUS
<1>4. c \in {"seed", "import", "harvest", "report"}
  BY <1>3, ComingIs
<1>5. /\ campaign' \in Campaigns /\ campaign'.at = c /\ campaign'.fresh
      /\ campaign'.state = "unread" /\ campaign'.deepest = 0
      /\ \A o \in Origins : campaign'.ingested[o] = 0
  BY <1>1, <1>2, <1>3, <1>4 DEF Campaigns, Phases
<1>6. corpus' \in [DOMAIN corpus' -> Marks] /\ DOMAIN corpus' = {} /\ IsFiniteSet(DOMAIN corpus')
  <2>1. DOMAIN corpus' = {}
    BY <1>1
  <2>2. corpus' \in [DOMAIN corpus' -> Marks]
    BY <1>1, <2>1
  <2>3. IsFiniteSet(DOMAIN corpus')
    BY <2>1, FS_EmptySet
  <2> QED
    BY <2>1, <2>2, <2>3
<1>7. notes' \in Seq(Notes)
  BY <1>1
<1>8. CorpusIsTyped'
  BY <1>1, <1>5, <1>6, <1>7 DEF CorpusInv, CorpusIsTyped
<1>9. VerdictsAreBorne'
  BY <1>1, <1>6 DEF CorpusInv, OverlapsAreSeen, VerdictsAreBorne
<1>10. BucketsCoverCorpus'
  BY <1>1 DEF CorpusInv, BucketsCoverCorpus
<1>11. \A o \in Origins : Of(o)' = {} /\ Cardinality(Of(o)') = 0
  <2>1. \A o \in Origins : Of(o)' = {}
    BY <1>6 DEF Of
  <2> QED
    BY <2>1, FS_EmptySet
<1>12. BuiltAnew'
  <2>1. Of("runtime")' = {} /\ Of("native")' = {}
    BY <1>6 DEF Of
  <2>2. \A o \in Origins : campaign'.ingested[o] = Cardinality(Of(o)')
    BY <1>5, <1>11
  <2> QED
    BY <1>1, <1>4, <1>5, <1>6, <2>1, <2>2 DEF BuiltAnew, Taking
<1>13. OverlapsAreSeen' /\ QueueIsTrue' /\ BreadthFirst'
  BY <1>1, <1>4, <1>5 DEF CorpusInv, OverlapsAreSeen, QueueIsTrue, BreadthFirst, Taking
<1> QED
  BY <1>8, <1>9, <1>10, <1>12, <1>13 DEF CorpusInv

\* What is filed: new artifacts with a state, the others as they are.
LEMMA FiledIs ==
    ASSUME CorpusIsTyped, NEW ids \in SUBSET CaseIds, IsFiniteSet(ids), NEW state \in Marks,
           corpus' = Filed(ids, state)
    PROVE  /\ corpus' \in [DOMAIN corpus' -> Marks] /\ DOMAIN corpus' \subseteq CaseIds
           /\ IsFiniteSet(DOMAIN corpus') /\ DOMAIN corpus' = ids \cup DOMAIN corpus
           /\ \A id \in DOMAIN corpus' : corpus'[id] = IF id \in ids THEN state ELSE corpus[id]
<1>1. /\ DOMAIN corpus' = ids \cup DOMAIN corpus
      /\ corpus' = [id \in ids \cup DOMAIN corpus |-> IF id \in ids THEN state ELSE corpus[id]]
  BY DEF Filed
<1>2. IsFiniteSet(DOMAIN corpus')
  BY <1>1, FS_Union, ZenonT(60) DEF CorpusIsTyped
<1>3. \A id \in ids \cup DOMAIN corpus : (IF id \in ids THEN state ELSE corpus[id]) \in Marks
  BY DEF CorpusIsTyped
<1> QED
  BY <1>1, <1>2, <1>3 DEF CorpusIsTyped

\* There are two fixtures.
LEMMA TwoFixtures == Fixtures \in SUBSET CaseIds /\ IsFiniteSet(Fixtures) /\ Cardinality(Fixtures) = 2
<1> DEFINE a == [origin |-> "seed", run |-> 1]
           b == [origin |-> "seed", run |-> 2]
<1>1. Fixtures = {a} \cup {b}
  BY DEF Fixtures
<1>2. a \in CaseIds /\ b \in CaseIds /\ a # b
  BY DEF CaseIds, Origins
<1> HIDE DEF a, b
<1>3. IsFiniteSet({a}) /\ Cardinality({a}) = 1
  BY FS_Singleton
<1>4. IsFiniteSet({a} \cup {b}) /\ Cardinality({a} \cup {b}) = 2
  BY <1>2, <1>3, FS_AddElement
<1> QED
  BY <1>1, <1>2, <1>4

\* The fixtures come into an empty workspace.
LEMMA SeedKeepsCorpus == ASSUME CorpusInv, SeedFixtures PROVE CorpusInv'
<1>1. /\ campaign.at = "seed" /\ corpus' = Filed(Fixtures, Waiting)
      /\ campaign' = [campaign EXCEPT !.at = Coming(3, campaign.flags), !.ingested["seed"] = 2,
                                      !.flags = @ \ {"seed"}]
      /\ UNCHANGED <<runs, notes, review, report, crossed>>
  BY DEF SeedFixtures
<1>2. /\ campaign \in Campaigns /\ campaign.ingested \in [Origins -> Nat] /\ campaign.fresh
      /\ campaign.state = "unread" /\ campaign.deepest = 0
      /\ ~crossed => /\ DOMAIN corpus = {} /\ notes = <<>>
                     /\ \A o \in Origins : campaign.ingested[o] = Cardinality(Of(o))
  <2>1. campaign \in Campaigns \cup {IdleCommand} /\ campaign.at # "idle" /\ ~Taking
    BY <1>1 DEF CorpusInv, CorpusIsTyped, Taking
  <2> QED
    BY <1>1, <2>1, CampaignIs DEF CorpusInv, QueueIsTrue, BuiltAnew
<1>3. PICK c : c = Coming(3, campaign.flags)
  OBVIOUS
<1>4. c \in {"import", "harvest", "report"}
  BY <1>3, ComingIs
<1>5. /\ campaign' \in Campaigns /\ campaign'.at = c /\ campaign'.fresh
      /\ campaign'.state = "unread" /\ campaign'.deepest = 0
      /\ \A o \in Origins : campaign'.ingested[o] = IF o = "seed" THEN 2 ELSE campaign.ingested[o]
  BY <1>1, <1>2, <1>3, <1>4 DEF Campaigns, Phases, Origins
<1>6. Waiting \in Marks
  BY DEF Marks
<1>7. /\ corpus' \in [DOMAIN corpus' -> Marks] /\ DOMAIN corpus' \subseteq CaseIds
      /\ IsFiniteSet(DOMAIN corpus') /\ DOMAIN corpus' = Fixtures \cup DOMAIN corpus
  BY <1>1, <1>6, TwoFixtures, FiledIs DEF CorpusInv
<1>8. CorpusIsTyped'
  BY <1>1, <1>5, <1>7 DEF CorpusInv, CorpusIsTyped
<1>9. VerdictsAreBorne'
  <2> SUFFICES ASSUME ~crossed' PROVE VerdictsAreBorne'
    BY DEF VerdictsAreBorne
  <2>1. \A id : LastVerdict(id) = "none"
    BY <1>1, <1>2, VerdictOrNone DEF CorpusInv, CorpusIsTyped
  <2>2. \A id : LastVerdict(id)' = "none"
    BY <1>1, <2>1, LogStays
  <2>3. review'.at = "idle"
    BY <1>1 DEF CorpusInv, OverlapsAreSeen
  <2> QED
    BY <2>2, <2>3 DEF VerdictsAreBorne
<1>10. BucketsCoverCorpus'
  BY <1>1 DEF CorpusInv, BucketsCoverCorpus
<1>11. BuiltAnew'
  <2>1. ASSUME ~crossed PROVE \A o \in Origins : Of(o)' = IF o = "seed" THEN Fixtures ELSE {}
    BY <1>2, <1>7, <2>1 DEF Of, Fixtures
  <2>2. ASSUME ~crossed PROVE \A o \in Origins : Cardinality(Of(o)) = 0
    <3>1. \A o \in Origins : Of(o) = {}
      BY <1>2, <2>2 DEF Of
    <3> QED
      BY <3>1, FS_EmptySet
  <2>3. ASSUME ~crossed, NEW o \in Origins PROVE campaign'.ingested[o] = Cardinality(Of(o)')
    <3>1. CASE o = "seed"
      BY <1>5, <2>1, <2>3, <3>1, TwoFixtures
    <3>2. CASE o # "seed"
      BY <1>2, <1>5, <2>1, <2>2, <2>3, <3>2, FS_EmptySet
    <3> QED
      BY <3>1, <3>2
  <2>4. "runtime" \in Origins /\ "native" \in Origins
    BY DEF Origins
  <2>5. ~crossed => Of("runtime")' = {} /\ Of("native")' = {}
    BY <2>1, <2>4
  <2> QED
    BY <1>1, <1>4, <1>5, <2>3, <2>5 DEF BuiltAnew, Taking
<1>12. OverlapsAreSeen' /\ QueueIsTrue' /\ BreadthFirst'
  BY <1>1, <1>4, <1>5 DEF CorpusInv, OverlapsAreSeen, QueueIsTrue, BreadthFirst, Taking
<1> QED
  BY <1>8, <1>9, <1>10, <1>11, <1>12 DEF CorpusInv

\* The queues are made of runs that can be taken.
LEMMA QueuesAre ==
    ASSUME runs \in Seq(Summaries), NEW budget
    PROVE  /\ ImportQueue \subseteq Usables /\ HarvestQueue(budget) \subseteq Usables
           /\ Usables \subseteq Nat
           /\ \A i \in ImportQueue : runs[i].kind \in {"group", "task"}
BY DEF ImportQueue, HarvestQueue, NativePool, Usable, Usables

\* A plan takes the workspace as it is; an id it plans is free in a workspace
\* that was built anew.
LEMMA PlanKeepsCorpus == ASSUME CorpusInv, PlanImport \/ PlanHarvest PROVE CorpusInv'
<1>1. PICK at \in {"import", "harvest"}, to \in {"importing", "harvesting"}, q \in SUBSET Usables :
        /\ campaign.at = at /\ (at = "import" <=> to = "importing")
        /\ to = "importing" => \A i \in q : runs[i].kind \in {"group", "task"}
        /\ campaign' = [campaign EXCEPT !.at = to, !.queue = q, !.deepest = 0]
        /\ UNCHANGED <<runs, corpus, notes, review, report, crossed>>
  <2>0. runs \in Seq(Summaries)
    BY DEF CorpusInv, CorpusIsTyped
  <2>1. CASE PlanImport
    <3>1. campaign.at = "import" /\ campaign' = [campaign EXCEPT !.at = "importing", !.queue = ImportQueue]
      BY <2>1 DEF PlanImport
    <3>2. campaign \in Campaigns \cup {IdleCommand} /\ campaign.at # "idle" /\ ~Taking /\ campaign.deepest = 0
      BY <3>1 DEF CorpusInv, CorpusIsTyped, QueueIsTrue, Taking
    <3>3. campaign \in Campaigns
      BY <3>2, CampaignIs
    <3>4. campaign' = [campaign EXCEPT !.at = "importing", !.queue = ImportQueue, !.deepest = 0]
      BY <3>1, <3>2, <3>3 DEF Campaigns
    <3> QED
      BY <2>0, <2>1, <3>1, <3>4, QueuesAre DEF PlanImport
  <2>2. CASE PlanHarvest
    <3>1. HarvestQueue(campaign.budget) \in SUBSET Usables
      BY <2>0, QueuesAre
    <3>2. /\ campaign.at = "harvest"
          /\ campaign' = [campaign EXCEPT !.at = "harvesting", !.deepest = 0,
                                          !.queue = HarvestQueue(campaign.budget)]
          /\ UNCHANGED <<runs, corpus, notes, review, report, crossed>>
      BY <2>2 DEF PlanHarvest
    <3>3. campaign' = [campaign EXCEPT !.at = "harvesting", !.queue = HarvestQueue(campaign.budget), !.deepest = 0]
      BY <3>2
    <3> QED
      BY <3>1, <3>2, <3>3
  <2> QED
    BY <2>1, <2>2
<1>2. campaign.at # "idle" /\ ~Taking
  BY <1>1 DEF Taking
<1>3. /\ campaign \in Campaigns /\ campaign.fresh \in BOOLEAN
      /\ campaign.state = "unread" /\ campaign.deepest = 0 /\ campaign.ingested \in [Origins -> Nat]
  BY <1>2, CampaignIs DEF CorpusInv, CorpusIsTyped, QueueIsTrue
<1>4. q \subseteq Nat
  BY QueuesAre DEF CorpusInv, CorpusIsTyped
<1>5. /\ campaign' \in Campaigns /\ campaign'.at = to /\ campaign'.queue = q
      /\ campaign'.state = "unread" /\ campaign'.deepest = 0
      /\ campaign'.fresh = campaign.fresh /\ campaign'.ingested = campaign.ingested
  BY <1>1, <1>3, <1>4 DEF Campaigns, Phases
<1>6. CorpusIsTyped'
  BY <1>1, <1>5 DEF CorpusInv, CorpusIsTyped
<1>7. VerdictsAreBorne'
  BY <1>1, VerdictsStay DEF CorpusInv, CorpusIsTyped
<1>8. BucketsCoverCorpus'
  BY <1>1 DEF CorpusInv, BucketsCoverCorpus
<1>9. OverlapsAreSeen' /\ QueueIsTrue' /\ BreadthFirst'
  BY <1>1, <1>5 DEF CorpusInv, OverlapsAreSeen, QueueIsTrue, BreadthFirst, Taking, Usables
<1>10. BuiltAnew'
  <2>1. \A o : Of(o)' = Of(o)
    BY <1>1 DEF Of
  <2>2. to = "importing" => Origin' = "runtime"
    BY <1>5 DEF Origin
  <2>3. to = "harvesting" => Origin' = "native"
    BY <1>5 DEF Origin
  <2>4. \A i, o : [origin |-> o, run |-> i] \in DOMAIN corpus => [origin |-> o, run |-> i] \in Of(o)
    BY DEF Of
  <2>5. to = "importing" \/ to = "harvesting"
    OBVIOUS
  <2> DEFINE anew == ~crossed /\ campaign.fresh
  <2>6. ASSUME anew PROVE \A i \in q : [origin |-> Origin', run |-> i] \notin DOMAIN corpus
    <3>1. /\ campaign.at = "import" => Of("runtime") = {}
          /\ campaign.at = "harvest" => Of("native") = {}
      BY <1>1, <1>2, <2>6 DEF CorpusInv, BuiltAnew
    <3> QED
      BY <1>1, <2>2, <2>3, <2>4, <2>5, <3>1
  <2>7. anew /\ to = "importing" => Of("native") = {}
    BY <1>1, <1>2 DEF CorpusInv, BuiltAnew
  <2>8. anew => \A o \in Origins : campaign.ingested[o] = Cardinality(Of(o))
    BY <1>1, <1>2 DEF CorpusInv, BuiltAnew
  <2>9. ASSUME anew PROVE \A o \in Origins : campaign'.ingested[o] = Cardinality(Of(o)')
    BY <1>5, <2>1, <2>8, <2>9
  <2>10. Of("native")' = Of("native") /\ corpus' = corpus /\ crossed' = crossed
    BY <1>1, <2>1
  <2> HIDE DEF anew
  <2>11. ~crossed' /\ campaign'.fresh => anew
    BY <1>5, <2>10 DEF anew
  <2>12. campaign'.at \notin {"reset", "seed", "import", "harvest"}
    BY <1>5
  <2> QED
    BY <1>5, <2>6, <2>7, <2>9, <2>10, <2>11, <2>12 DEF BuiltAnew
<1> QED
  BY <1>6, <1>7, <1>8, <1>9, <1>10, ZenonT(60) DEF CorpusInv

\* The state of the case in hand does not change whose turn it is.
LEMMA TurnStays ==
    ASSUME runs' = runs, campaign'.queue = campaign.queue, campaign'.at = campaign.at
    PROVE  NextId' = NextId /\ Origin' = Origin /\ NextCase' = NextCase
BY DEF NextId, Origin, NextCase, Precedes, ImportsBefore, HarvestsBefore, RoundRobin, Latest, Depth,
       Like, Usable

\* What is kept of an artifact is a mark.
LEMMA KeptIs ==
    ASSUME CorpusIsTyped, NEW id
    PROVE  Kept(id) \in Marks /\ Kept(id) # "unread"
<1>1. LastVerdict(id) # "none" => LastVerdict(id) \in Verdicts
  BY VerdictOrNone DEF CorpusIsTyped
<1>2. id \in DOMAIN corpus => corpus[id] \in Marks
  BY DEF CorpusIsTyped
<1>3. Kept(id) \in Marks
  BY <1>1, <1>2 DEF Kept, Marks
<1> QED
  BY <1>3, WordsDiffer

\* A case is prepared from what log and artifact say.
LEMMA PrepareKeepsCorpus == ASSUME CorpusInv, PrepareCase PROVE CorpusInv'
<1>1. /\ Taking /\ campaign.queue # {} /\ campaign' = [campaign EXCEPT !.state = Kept(NextId)]
      /\ UNCHANGED <<runs, corpus, notes, review, report, crossed>>
  BY DEF PrepareCase, Taking
<1>2. CorpusIsTyped /\ campaign.at # "idle"
  BY <1>1 DEF CorpusInv, Taking
<1>3. campaign \in Campaigns
  BY <1>2, CampaignIs DEF CorpusIsTyped
<1>4. /\ campaign' \in Campaigns /\ campaign'.state = Kept(NextId) /\ campaign'.at = campaign.at
      /\ campaign'.queue = campaign.queue /\ campaign'.deepest = campaign.deepest
      /\ campaign'.fresh = campaign.fresh /\ campaign'.ingested = campaign.ingested
  <2>1. Kept(NextId) \in Marks
    BY <1>2, KeptIs
  <2> QED
    BY <1>1, <1>3, <2>1 DEF Campaigns
<1>5. CorpusIsTyped'
  BY <1>1, <1>2, <1>4 DEF CorpusIsTyped
<1>6. VerdictsAreBorne'
  BY <1>1, VerdictsStay DEF CorpusInv, CorpusIsTyped
<1>7. BucketsCoverCorpus'
  BY <1>1 DEF CorpusInv, BucketsCoverCorpus
<1>8. NextId' = NextId /\ Origin' = Origin
  BY <1>1, <1>4, TurnStays
<1>9. Kept(NextId)' = Kept(NextId)
  BY <1>1, <1>8 DEF Kept, LastVerdict
<1>10. QueueIsTrue'
  BY <1>1, <1>4, <1>9 DEF CorpusInv, QueueIsTrue, Taking
<1>11. BreadthFirst'
  BY <1>1, <1>4 DEF CorpusInv, BreadthFirst, Depth, Like, Usable
<1>12. BuiltAnew'
  BY <1>1, <1>4, <1>8 DEF CorpusInv, BuiltAnew, Of, Taking
<1>13. OverlapsAreSeen'
  BY <1>1, <1>4 DEF CorpusInv, OverlapsAreSeen
<1> QED
  BY <1>5, <1>6, <1>7, <1>10, <1>11, <1>12, <1>13 DEF CorpusInv

\* After the queue the campaign goes on to what else it was asked for.
LEMMA EndKeepsCorpus == ASSUME CorpusInv, EndQueue PROVE CorpusInv'
<1>1. PICK n \in {4, 5}, left \in SUBSET campaign.flags :
        /\ Taking /\ campaign.queue = {} /\ (campaign.at = "importing" <=> n = 4)
        /\ campaign' = [campaign EXCEPT !.at = Coming(n, campaign.flags), !.flags = left, !.deepest = 0]
        /\ UNCHANGED <<runs, corpus, notes, review, report, crossed>>
  <2>1. CASE campaign.at = "importing"
    BY <2>1 DEF EndQueue, Taking
  <2>2. CASE campaign.at # "importing"
    <3>1. /\ campaign' = [campaign EXCEPT !.at = Coming(5, campaign.flags), !.flags = {}, !.deepest = 0]
          /\ UNCHANGED <<runs, corpus, notes, review, report, crossed>>
      BY <2>2 DEF EndQueue
    <3>2. Taking /\ campaign.queue = {}
      BY DEF EndQueue, Taking
    <3>3. 5 \in {4, 5} /\ {} \in SUBSET campaign.flags /\ ~(5 = 4)
      OBVIOUS
    <3> QED
      BY <2>2, <3>1, <3>2, <3>3
  <2> QED
    BY <2>1, <2>2
<1>2. /\ campaign \in Campaigns /\ campaign.at # "idle" /\ campaign.flags \subseteq Wanted
      /\ campaign.state \in Marks \cup {"unread"} /\ campaign.fresh \in BOOLEAN
  BY <1>1, CampaignIs DEF CorpusInv, CorpusIsTyped, Taking
<1>3. campaign.state = "unread"
  BY <1>1 DEF CorpusInv, QueueIsTrue
<1>4. PICK c : c = Coming(n, campaign.flags)
  OBVIOUS
<1>5. c \in {"harvest", "report"} /\ (c = "harvest" => n = 4)
  <2>1. n \in 1 .. 5
    OBVIOUS
  <2>2. /\ c \in {"reset", "seed", "import", "harvest", "report"}
        /\ c = "reset" => n = 1
        /\ c = "seed" => n <= 2
        /\ c = "import" => n <= 3
        /\ c = "harvest" => n <= 4
    BY <1>4, <2>1, ComingIs
  <2> QED
    BY <2>2
<1>6. /\ campaign' \in Campaigns /\ campaign'.at = c /\ campaign'.fresh = campaign.fresh
      /\ campaign'.state = "unread" /\ campaign'.deepest = 0 /\ campaign'.ingested = campaign.ingested
  BY <1>1, <1>2, <1>3, <1>4, <1>5 DEF Campaigns, Phases
<1>7. CorpusIsTyped'
  BY <1>1, <1>6 DEF CorpusInv, CorpusIsTyped
<1>8. VerdictsAreBorne'
  BY <1>1, VerdictsStay DEF CorpusInv, CorpusIsTyped
<1>9. BucketsCoverCorpus'
  BY <1>1 DEF CorpusInv, BucketsCoverCorpus
<1>10. OverlapsAreSeen' /\ QueueIsTrue' /\ BreadthFirst'
  BY <1>1, <1>2, <1>5, <1>6 DEF CorpusInv, OverlapsAreSeen, QueueIsTrue, BreadthFirst, Taking
<1>11. BuiltAnew'
  <2>1. \A o : Of(o)' = Of(o)
    BY <1>1 DEF Of
  <2>2. c = "harvest" => campaign.at = "importing"
    BY <1>1, <1>5
  <2>3. Of("native")' = Of("native") /\ Of("runtime")' = Of("runtime")
    BY <2>1
  <2>4. campaign.at \notin {"reset", "seed"}
    BY <1>1 DEF Taking
  <2> QED
    BY <1>1, <1>2, <1>5, <1>6, <2>1, <2>2, <2>3, <2>4 DEF CorpusInv, BuiltAnew, Taking
<1> QED
  BY <1>7, <1>8, <1>9, <1>10, <1>11, ZenonT(60) DEF CorpusInv

\* A campaign that is killed leaves what it wrote.
LEMMA KillKeepsCorpus ==
    ASSUME CorpusInv, campaign' = IdleCommand, UNCHANGED <<runs, corpus, notes, review, crossed>>
    PROVE  /\ CorpusIsTyped' /\ VerdictsAreBorne' /\ OverlapsAreSeen' /\ QueueIsTrue' /\ BuiltAnew'
           /\ BreadthFirst'
<1>1. campaign'.at = "idle"
  BY DEF IdleCommand
<1>2. CorpusIsTyped'
  BY DEF CorpusInv, CorpusIsTyped
<1>3. VerdictsAreBorne'
  BY VerdictsStay DEF CorpusInv, CorpusIsTyped
<1>4. OverlapsAreSeen' /\ QueueIsTrue' /\ BuiltAnew' /\ BreadthFirst'
  BY <1>1 DEF OverlapsAreSeen, QueueIsTrue, BuiltAnew, BreadthFirst, Taking
<1> QED
  BY <1>2, <1>3, <1>4

\* The greater of two numbers.
LEMMA GreaterOf ==
    ASSUME NEW a \in Nat, NEW b \in Nat
    PROVE  Max({a, b}) \in {a, b} /\ Max({a, b}) >= a /\ Max({a, b}) >= b /\ Max({a, b}) \in Nat
<1> DEFINE S == {a, b}
<1>1. a + b \in Nat /\ S \in SUBSET (0 .. a + b) /\ a \in S /\ b \in S /\ \A x \in S : x \in Nat
  OBVIOUS
<1> HIDE DEF S
<1>2. Max(S) \in S /\ \A x \in S : Max(S) >= x
  BY <1>1, BoundedHasMax
<1>3. Max(S) \in S /\ Max(S) >= a /\ Max(S) >= b /\ Max(S) \in Nat
  BY <1>1, <1>2
<1> QED
  BY <1>3 DEF S

\* A case is written under the id whose turn it is.
LEMMA WriteKeepsCorpus == ASSUME CorpusInv, WriteCase PROVE CorpusInv'
<1>1. /\ Taking /\ campaign.state # "unread" /\ corpus' = Filed({NextId}, campaign.state)
      /\ campaign' = [campaign EXCEPT !.queue = @ \ {NextCase}, !.state = "unread",
                                      !.deepest = Max({@, Depth(NextCase)}),
                                      !.ingested[Origin] = @ + 1]
      /\ UNCHANGED <<runs, notes, review, report, crossed>>
  BY DEF WriteCase, Taking
<1>2. CorpusIsTyped /\ QueueIsTrue /\ campaign.at # "idle" /\ campaign.queue # {} /\ runs \in Seq(Summaries)
  BY <1>1 DEF CorpusInv, CorpusIsTyped, Taking, QueueIsTrue
<1>3. /\ campaign \in Campaigns /\ campaign.queue \subseteq Nat /\ campaign.deepest \in Nat
      /\ campaign.state \in Marks /\ campaign.ingested \in [Origins -> Nat] /\ campaign.fresh \in BOOLEAN
  BY <1>1, <1>2, CampaignIs DEF CorpusIsTyped
<1>4. /\ NextCase \in campaign.queue
      /\ \A j \in campaign.queue \ {NextCase} : Precedes(NextCase, j)
  BY <1>1, <1>2, NextIs
<1>5. campaign.queue \subseteq Usables
  BY <1>1, <1>2 DEF QueueIsTrue, Usables
<1>6. \A i \in campaign.queue : Depth(i) \in Nat
  BY <1>2, <1>5, LikeIs
<1>7. Origin \in Origins /\ NextId \in CaseIds /\ NextId.origin = Origin
  <2>1. Origin \in Origins
    BY DEF Origin, Origins
  <2> QED
    BY <1>3, <1>4, <2>1 DEF NextId, CaseIds
<1>8. PICK deep \in Nat : /\ deep = Max({campaign.deepest, Depth(NextCase)})
                          /\ deep = campaign.deepest \/ deep = Depth(NextCase)
                          /\ deep >= campaign.deepest /\ deep >= Depth(NextCase)
  BY <1>3, <1>4, <1>6, GreaterOf
<1>9. /\ campaign' \in Campaigns /\ campaign'.at = campaign.at /\ campaign'.queue = campaign.queue \ {NextCase}
      /\ campaign'.state = "unread" /\ campaign'.deepest = deep /\ campaign'.fresh = campaign.fresh
      /\ \A o \in Origins : campaign'.ingested[o] = IF o = Origin THEN campaign.ingested[o] + 1 ELSE campaign.ingested[o]
  <2> DEFINE rest == campaign.queue \ {NextCase}
             in == [campaign.ingested EXCEPT ![Origin] = @ + 1]
             o == Origin
  <2>1. in \in [Origins -> Nat] /\ rest \in SUBSET Nat
    BY <1>3, <1>7
  <2>2. \A x \in Origins : in[x] = IF x = Origin THEN campaign.ingested[x] + 1 ELSE campaign.ingested[x]
    BY <1>3, <1>7
  <2>3. campaign' = [campaign EXCEPT !.queue = rest, !.state = "unread", !.deepest = deep,
                                     !.ingested[o] = @ + 1]
    BY ONLY <1>1, <1>8
  <2>4. in = [campaign.ingested EXCEPT ![o] = @ + 1]
    OBVIOUS
  <2> HIDE DEF rest, o, in
  <2>5. campaign' = [campaign EXCEPT !.queue = rest, !.state = "unread", !.deepest = deep, !.ingested = in]
    BY <2>3, <2>4
  <2>6. /\ campaign' \in Campaigns /\ campaign'.at = campaign.at /\ campaign'.queue = rest
        /\ campaign'.state = "unread" /\ campaign'.deepest = deep /\ campaign'.fresh = campaign.fresh
        /\ campaign'.ingested = in
    BY <1>3, <2>1, <2>5 DEF Campaigns
  <2> QED
    BY <2>2, <2>6 DEF rest
<1>10. /\ corpus' \in [DOMAIN corpus' -> Marks] /\ DOMAIN corpus' \subseteq CaseIds
       /\ IsFiniteSet(DOMAIN corpus') /\ DOMAIN corpus' = {NextId} \cup DOMAIN corpus
       /\ \A id \in DOMAIN corpus' : corpus'[id] = IF id \in {NextId} THEN campaign.state ELSE corpus[id]
  <2> DEFINE ids == {NextId}
  <2>1. ids \in SUBSET CaseIds /\ IsFiniteSet(ids)
    BY <1>7, FS_Singleton
  <2>2. corpus' = Filed(ids, campaign.state)
    BY <1>1
  <2> HIDE DEF ids
  <2>3. /\ corpus' \in [DOMAIN corpus' -> Marks] /\ DOMAIN corpus' \subseteq CaseIds
        /\ IsFiniteSet(DOMAIN corpus') /\ DOMAIN corpus' = ids \cup DOMAIN corpus
        /\ \A id \in DOMAIN corpus' : corpus'[id] = IF id \in ids THEN campaign.state ELSE corpus[id]
    BY <1>2, <1>3, <2>1, <2>2, FiledIs
  <2> QED
    BY <2>3 DEF ids
<1>11. CorpusIsTyped'
  BY <1>1, <1>2, <1>9, <1>10 DEF CorpusIsTyped
<1>12. OverlapsAreSeen' /\ BucketsCoverCorpus'
  BY <1>1, <1>9 DEF CorpusInv, OverlapsAreSeen, BucketsCoverCorpus
<1>13. VerdictsAreBorne'
  <2> SUFFICES ASSUME ~crossed' PROVE VerdictsAreBorne'
    BY DEF VerdictsAreBorne
  <2>1. ~crossed /\ review.at = "idle" /\ review' = review
    BY <1>1, <1>2 DEF CorpusInv, OverlapsAreSeen
  <2>2. campaign.state = Kept(NextId)
    BY <1>1, <1>2, <2>1 DEF QueueIsTrue
  <2>3. \A id : LastVerdict(id)' = LastVerdict(id)
    BY <1>1, LogStays
  <2>4. ASSUME NEW id \in DOMAIN corpus' PROVE LastVerdict(id) = "none" \/ corpus'[id] = LastVerdict(id)
    <3>1. CASE id = NextId
      BY <1>10, <2>2, <2>4, <3>1 DEF Kept
    <3>2. CASE id # NextId
      BY <1>10, <2>1, <2>4, <3>2 DEF CorpusInv, VerdictsAreBorne
    <3> QED
      BY <3>1, <3>2
  <2> QED
    BY <2>1, <2>3, <2>4 DEF VerdictsAreBorne
<1>14. QueueIsTrue'
  BY <1>1, <1>2, <1>9 DEF QueueIsTrue, Taking
<1>15. BreadthFirst'
  <2>1. \A i : Depth(i)' = Depth(i)
    BY <1>1 DEF Depth, Like, Usable
  <2> SUFFICES ASSUME NEW i \in campaign.queue \ {NextCase}, deep > 0, runs[i].kind # "task"
               PROVE  Depth(i) > 0
    BY <1>1, <1>9, <2>1 DEF BreadthFirst
  <2>2. CASE campaign.deepest > 0
    BY <1>1, <2>2 DEF CorpusInv, BreadthFirst, Taking
  <2>3. CASE ~(campaign.deepest > 0)
    <3>1. Depth(NextCase) > 0
      BY <1>3, <1>8, <2>3
    <3>2. Depth(NextCase) \in Nat /\ Depth(i) \in Nat /\ Precedes(NextCase, i)
      BY <1>4, <1>6
    <3>3. CASE campaign.at = "importing"
      <4>1. runs[NextCase].kind # runs[i].kind => runs[NextCase].kind = "group"
        BY <3>2, <3>3 DEF Precedes, ImportsBefore
      <4>2. runs[i].kind \in {"group", "task"}
        BY <1>1, <1>2, <3>3 DEF QueueIsTrue
      <4>3. runs[NextCase].kind = runs[i].kind
        BY <4>1, <4>2
      <4>4. RoundRobin(NextCase, i)
        BY <3>2, <3>3, <4>3 DEF Precedes, ImportsBefore
      <4> QED
        BY <3>1, <3>2, <4>4 DEF RoundRobin
    <3>4. CASE campaign.at # "importing"
      BY <3>1, <3>2, <3>4 DEF Precedes, HarvestsBefore
    <3> QED
      BY <3>3, <3>4
  <2> QED
    BY <2>2, <2>3
<1>16. BuiltAnew'
  <2>1. Origin' = Origin
    BY <1>9 DEF Origin
  <2>2. campaign.at \notin {"reset", "seed", "import", "harvest", "idle"}
    BY <1>1 DEF Taking
  <2> DEFINE anew == ~crossed /\ campaign.fresh
  <2>3. ASSUME anew
        PROVE  /\ NextId \notin DOMAIN corpus
               /\ \A i \in campaign.queue : [origin |-> Origin, run |-> i] \notin DOMAIN corpus
               /\ \A o \in Origins : campaign.ingested[o] = Cardinality(Of(o))
               /\ campaign.at = "importing" => Of("native") = {}
    BY <1>1, <1>2, <1>4, <2>2, <2>3 DEF CorpusInv, BuiltAnew, NextId
  <2>4. \A o : Of(o)' = IF o = Origin THEN Of(o) \cup {NextId} ELSE Of(o)
    BY <1>7, <1>10 DEF Of
  <2>5. ASSUME anew, NEW o \in Origins PROVE campaign'.ingested[o] = Cardinality(Of(o)')
    <3>1. CASE o = Origin
      <4>1. IsFiniteSet(Of(o)) /\ NextId \notin Of(o)
        <5>1. Of(o) \in SUBSET DOMAIN corpus /\ IsFiniteSet(DOMAIN corpus)
          BY <1>2 DEF Of, CorpusIsTyped
        <5> QED
          BY <2>3, <2>5, <5>1, FS_Subset
      <4>2. Cardinality(Of(o) \cup {NextId}) = Cardinality(Of(o)) + 1
        BY <4>1, FS_AddElement
      <4> QED
        BY <1>9, <2>3, <2>4, <2>5, <3>1, <4>2
    <3>2. CASE o # Origin
      BY <1>9, <2>3, <2>4, <2>5, <3>2
    <3> QED
      BY <3>1, <3>2
  <2>6. ASSUME anew, NEW i \in campaign.queue \ {NextCase} PROVE [origin |-> Origin, run |-> i] \notin DOMAIN corpus'
    <3>1. [origin |-> Origin, run |-> i] # NextId
      BY <2>6 DEF NextId
    <3> QED
      BY <1>10, <2>3, <2>6, <3>1
  <2>7. anew /\ campaign.at = "importing" => Of("native")' = {}
    <3>1. campaign.at = "importing" => Origin # "native"
      BY DEF Origin
    <3> QED
      BY <2>3, <2>4, <3>1
  <2> HIDE DEF anew
  <2>8. ~crossed' /\ campaign'.fresh => anew
    BY <1>1, <1>9 DEF anew
  <2> QED
    BY <1>9, <2>1, <2>2, <2>5, <2>6, <2>7, <2>8 DEF BuiltAnew
<1> QED
  BY <1>11, <1>12, <1>13, <1>14, <1>15, <1>16 DEF CorpusInv

-----------------------------------------------------------------------------
\* Every artifact is of one of the three origins.
LEMMA OriginsPart ==
    ASSUME CorpusIsTyped
    PROVE  /\ \A o \in Origins : Cardinality(Of(o)) \in Nat
           /\ Cardinality(DOMAIN corpus)
                = Cardinality(Of("seed")) + Cardinality(Of("runtime")) + Cardinality(Of("native"))
<1> DEFINE A == Of("seed")
           B == Of("runtime")
           C == Of("native")
<1>1. \A o \in Origins : Of(o) \in SUBSET DOMAIN corpus
  BY DEF Of
<1>2. IsFiniteSet(DOMAIN corpus) /\ "seed" \in Origins /\ "runtime" \in Origins /\ "native" \in Origins
  BY DEF CorpusIsTyped, Origins
<1>3. \A o \in Origins : IsFiniteSet(Of(o)) /\ Cardinality(Of(o)) \in Nat
  BY <1>1, <1>2, FS_Subset, FS_CardinalityType
<1>4. DOMAIN corpus = (A \cup B) \cup C
  <2>1. \A id \in DOMAIN corpus : id.origin \in {"seed", "runtime", "native"}
    BY DEF CorpusIsTyped, CaseIds, Origins
  <2> QED
    BY <2>1 DEF Of
<1>5. A \cap B = {} /\ (A \cup B) \cap C = {}
  BY DEF Of
<1>6. IsFiniteSet(A) /\ IsFiniteSet(B) /\ IsFiniteSet(C)
  BY <1>2, <1>3
<1>7. Cardinality(A) \in Nat /\ Cardinality(B) \in Nat /\ Cardinality(C) \in Nat
  BY <1>2, <1>3
<1> HIDE DEF A, B, C
<1>8. Cardinality(A \cap B) = 0 /\ Cardinality((A \cup B) \cap C) = 0
  BY <1>5, FS_EmptySet
<1>9. IsFiniteSet(A \cup B) /\ Cardinality(A \cup B) = Cardinality(A) + Cardinality(B) - Cardinality(A \cap B)
  BY <1>6, FS_Union
<1>10. Cardinality((A \cup B) \cup C) = Cardinality(A \cup B) + Cardinality(C) - Cardinality((A \cup B) \cap C)
  BY <1>6, <1>9, FS_Union
<1>11. Cardinality((A \cup B) \cup C) = Cardinality(A) + Cardinality(B) + Cardinality(C)
  BY <1>7, <1>8, <1>9, <1>10
<1>12. Cardinality(DOMAIN corpus) = Cardinality(A) + Cardinality(B) + Cardinality(C)
  BY <1>4, <1>11
<1> QED
  BY <1>3, <1>12 DEF A, B, C

\* A report accounts for what it was made of, and asks for no review that is in
\* the log.
LEMMA ReportIsTrue ==
    ASSUME CorpusIsTyped, NEW fresh \in BOOLEAN, NEW in \in [Origins -> Nat],
           fresh /\ ~crossed => \A o \in Origins : in[o] = Cardinality(Of(o)),
           report' = ReportOn(fresh, in), crossed' = crossed
    PROVE  /\ BucketsCoverCorpus'
           /\ \A id \in report'.pending : \A i \in DOMAIN notes : notes[i].id # id
<1>1. /\ report'.whole = (fresh \/ in = [o \in Origins |-> 0])
      /\ report'.buckets = Buckets(in) /\ report'.held = Cardinality(DOMAIN corpus)
      /\ report'.pending = {id \in DOMAIN corpus : StateOf(id) = Waiting}
  BY DEF ReportOn
<1>2. ASSUME report'.whole, ~crossed PROVE \A o \in Origins : Buckets(in)[o] = Cardinality(Of(o))
  <2>1. CASE \E o \in Origins : in[o] > 0
    <3>1. fresh
      BY <1>1, <1>2, <2>1
    <3> QED
      BY <1>2, <2>1, <3>1 DEF Buckets
  <2>2. CASE ~\E o \in Origins : in[o] > 0
    BY <2>2 DEF Buckets, Of
  <2> QED
    BY <2>1, <2>2
<1>3. BucketsCoverCorpus'
  <2>1. "seed" \in Origins /\ "runtime" \in Origins /\ "native" \in Origins
    BY DEF Origins
  <2> SUFFICES ASSUME report'.whole, ~crossed
               PROVE  report'.held = report'.buckets["seed"] + report'.buckets["runtime"] + report'.buckets["native"]
    BY DEF BucketsCoverCorpus
  <2>2. /\ report'.buckets["seed"] = Cardinality(Of("seed"))
        /\ report'.buckets["runtime"] = Cardinality(Of("runtime"))
        /\ report'.buckets["native"] = Cardinality(Of("native"))
    BY <1>1, <1>2, <2>1
  <2> QED
    BY <1>1, <2>2, OriginsPart
<1>4. ASSUME NEW id \in report'.pending PROVE \A i \in DOMAIN notes : notes[i].id # id
  <2>1. StateOf(id) = Waiting
    BY <1>1, <1>4
  <2>2. LastVerdict(id) \in Verdicts \cup {"none"} /\ Waiting \notin Verdicts
    BY VerdictOrNone, WordsDiffer DEF CorpusIsTyped
  <2>3. LastVerdict(id) = "none"
    BY <2>1, <2>2 DEF StateOf
  <2> QED
    BY <2>3, VerdictOrNone DEF CorpusIsTyped
<1> QED
  BY <1>3, <1>4

\* A campaign reports on what it has built.
LEMMA CampaignReports ==
    ASSUME CorpusInv, WriteReport
    PROVE  CorpusInv' /\ \A id \in report'.pending : \A i \in DOMAIN notes : notes[i].id # id
<1>1. /\ campaign.at = "report" /\ report' = ReportOn(campaign.fresh, campaign.ingested)
      /\ campaign' = IdleCommand /\ UNCHANGED <<runs, corpus, notes, review, crossed>>
  BY DEF WriteReport, IdleCommand
<1>2. campaign.fresh \in BOOLEAN /\ campaign.ingested \in [Origins -> Nat]
  BY <1>1, CampaignIs DEF CorpusInv, CorpusIsTyped
<1>3. campaign.fresh /\ ~crossed => \A o \in Origins : campaign.ingested[o] = Cardinality(Of(o))
  BY <1>1 DEF CorpusInv, BuiltAnew
<1>4. CorpusIsTyped /\ crossed' = crossed
  BY <1>1 DEF CorpusInv
<1>5. BucketsCoverCorpus' /\ \A id \in report'.pending : \A i \in DOMAIN notes : notes[i].id # id
  BY <1>1, <1>2, <1>3, <1>4, ReportIsTrue
<1> QED
  BY <1>1, <1>5, KillKeepsCorpus DEF CorpusInv

\* So does a review; it leaves the campaign alone.
LEMMA ReviewReports ==
    ASSUME CorpusInv, ReportReview
    PROVE  CorpusInv' /\ \A id \in report'.pending : \A i \in DOMAIN notes : notes[i].id # id
<1> DEFINE none == [o \in Origins |-> 0]
<1>1. /\ review.at = "marked" /\ report' = ReportOn(FALSE, none)
      /\ review' = IdleCommand /\ UNCHANGED <<runs, corpus, notes, campaign, crossed>>
  BY DEF ReportReview, IdleCommand
<1>2. none \in [Origins -> Nat]
  OBVIOUS
<1> HIDE DEF none
<1>3. BucketsCoverCorpus' /\ \A id \in report'.pending : \A i \in DOMAIN notes : notes[i].id # id
  BY <1>1, <1>2, ReportIsTrue DEF CorpusInv
<1>4. review'.at = "idle"
  BY <1>1 DEF IdleCommand
<1>5. CorpusIsTyped'
  BY <1>1 DEF CorpusInv, CorpusIsTyped
<1>6. VerdictsAreBorne'
  <2>1. \A id : LastVerdict(id)' = LastVerdict(id)
    BY <1>1, LogStays
  <2> QED
    BY <1>1, <1>4, <2>1 DEF CorpusInv, VerdictsAreBorne
<1>7. OverlapsAreSeen'
  BY <1>4 DEF OverlapsAreSeen
<1>8. NextId' = NextId /\ Kept(NextId)' = Kept(NextId) /\ Origin' = Origin
  <2>1. NextId' = NextId /\ Origin' = Origin
    BY <1>1, TurnStays
  <2> QED
    BY <1>1, <2>1 DEF Kept, LastVerdict
<1>9. QueueIsTrue' /\ BreadthFirst' /\ BuiltAnew'
  BY <1>1, <1>8 DEF CorpusInv, QueueIsTrue, BreadthFirst, BuiltAnew, Taking, Of, Depth, Like, Usable
<1> QED
  BY <1>3, <1>5, <1>6, <1>7, <1>9 DEF CorpusInv

\* A review is begun on an artifact that is there.
LEMMA BeginReviewKeepsCorpus ==
    ASSUME CorpusInv, NEW id \in DOMAIN corpus, NEW v \in Verdicts, BeginReviewOf(id, v)
    PROVE  CorpusInv'
<1>1. /\ review.at = "idle" /\ review' = [at |-> "found", id |-> id, verdict |-> v]
      /\ crossed' = (crossed \/ campaign.at # "idle") /\ report' = NoReport
      /\ UNCHANGED <<runs, corpus, notes, campaign>>
  BY DEF BeginReviewOf
<1>2. CorpusIsTyped /\ crossed \in BOOLEAN /\ id \in CaseIds
  BY DEF CorpusInv, CorpusIsTyped
<1>3. review' \in ReviewCommands /\ review'.at = "found" /\ review'.id = id
  BY <1>1, <1>2 DEF ReviewCommands
<1>4. CorpusIsTyped'
  BY <1>1, <1>2, <1>3 DEF CorpusIsTyped
<1>5. BucketsCoverCorpus'
  BY <1>1, <1>2, <1>4, ReportStays DEF CorpusInv, CorpusIsTyped
<1>6. OverlapsAreSeen'
  BY <1>1 DEF OverlapsAreSeen
<1>7. VerdictsAreBorne'
  <2>1. \A x : LastVerdict(x)' = LastVerdict(x)
    BY <1>1, LogStays
  <2> QED
    BY <1>1, <1>3, <2>1 DEF CorpusInv, VerdictsAreBorne
<1>8. NextId' = NextId /\ Kept(NextId)' = Kept(NextId) /\ Origin' = Origin
  <2>1. NextId' = NextId /\ Origin' = Origin
    BY <1>1, TurnStays
  <2> QED
    BY <1>1, <2>1 DEF Kept, LastVerdict
<1>9. QueueIsTrue' /\ BreadthFirst' /\ BuiltAnew'
  BY <1>1, <1>8 DEF CorpusInv, QueueIsTrue, BreadthFirst, BuiltAnew, Taking, Of, Depth, Like, Usable
<1> QED
  BY <1>4, <1>5, <1>6, <1>7, <1>9 DEF CorpusInv

\* The log and the artifact change only while no campaign is under way, or the
\* two have crossed.
LEMMA CrossingFrees ==
    ASSUME CorpusInv, review.at # "idle", UNCHANGED <<runs, campaign, crossed>>
    PROVE  QueueIsTrue' /\ BreadthFirst' /\ BuiltAnew'
<1>1. crossed \/ campaign.at = "idle"
  BY DEF CorpusInv, OverlapsAreSeen
<1>2. crossed \in BOOLEAN
  BY DEF CorpusInv, CorpusIsTyped
<1>3. BreadthFirst'
  BY DEF CorpusInv, BreadthFirst, Depth, Like, Usable
<1>4. CASE campaign.at = "idle"
  BY <1>3, <1>4 DEF QueueIsTrue, BuiltAnew, Taking
<1>5. CASE crossed
  BY <1>3, <1>5 DEF CorpusInv, QueueIsTrue, BuiltAnew, Taking
<1> QED
  BY <1>1, <1>4, <1>5

\* The note becomes the last verdict on the artifact, which does not bear it yet.
LEMMA NoteKeepsCorpus == ASSUME CorpusInv, NoteReview PROVE CorpusInv'
<1> DEFINE n == [id |-> review.id, verdict |-> review.verdict]
<1>1. /\ review.at = "found" /\ notes' = Append(notes, n) /\ review' = [review EXCEPT !.at = "noted"]
      /\ UNCHANGED <<runs, corpus, campaign, report, crossed>>
  BY DEF NoteReview
<1>2. CorpusIsTyped /\ crossed \in BOOLEAN /\ notes \in Seq(Notes)
  BY DEF CorpusInv, CorpusIsTyped
<1>3. review \in ReviewCommands /\ n \in Notes /\ n.id = review.id /\ n.verdict = review.verdict
  BY <1>1, <1>2, ReviewIs DEF CorpusIsTyped, Notes
<1>4. review' \in ReviewCommands /\ review'.at = "noted" /\ review'.id = review.id /\ review'.verdict = review.verdict
  BY <1>1, <1>3 DEF ReviewCommands
<1> HIDE DEF n
<1>5. CorpusIsTyped'
  <2>1. notes' \in Seq(Notes)
    BY <1>1, <1>2, <1>3
  <2> QED
    BY <1>1, <1>2, <1>4, <2>1 DEF CorpusIsTyped
<1>6. \A x : LastVerdict(x)' = IF x = review.id THEN review.verdict ELSE LastVerdict(x)
  BY <1>1, <1>2, <1>3, NoteSpeaks
<1>7. LastVerdict(review.id)' = review.verdict
  <2> DEFINE i == review.id
  <2>1. review'.id = i
    BY <1>4
  <2> HIDE DEF i
  <2>2. PICK x : x = i
    OBVIOUS
  <2>3. LastVerdict(x)' = review.verdict
    BY <1>6, <2>2 DEF i
  <2> QED
    BY <2>1, <2>2, <2>3 DEF LastVerdict
<1>8. VerdictsAreBorne'
  BY <1>1, <1>4, <1>6, <1>7 DEF CorpusInv, VerdictsAreBorne
<1>9. OverlapsAreSeen' /\ BucketsCoverCorpus'
  BY <1>1, <1>4 DEF CorpusInv, OverlapsAreSeen, BucketsCoverCorpus
<1>10. QueueIsTrue' /\ BreadthFirst' /\ BuiltAnew'
  BY <1>1, CrossingFrees
<1> QED
  BY <1>5, <1>8, <1>9, <1>10 DEF CorpusInv

\* Then the artifact bears it.
LEMMA MarkKeepsCorpus == ASSUME CorpusInv, MarkArtifact PROVE CorpusInv'
<1>1. /\ review.at = "noted" /\ corpus' = Filed({review.id}, review.verdict)
      /\ review' = [review EXCEPT !.at = "marked"]
      /\ UNCHANGED <<runs, notes, campaign, report, crossed>>
  BY DEF MarkArtifact
<1>2. CorpusIsTyped /\ crossed \in BOOLEAN
  BY DEF CorpusInv, CorpusIsTyped
<1>3. review \in ReviewCommands /\ review.id \in CaseIds /\ review.verdict \in Marks
  BY <1>1, <1>2, ReviewIs DEF CorpusIsTyped, Marks
<1>4. review' \in ReviewCommands /\ review'.at = "marked" /\ review'.id = review.id
  BY <1>1, <1>3 DEF ReviewCommands
<1>5. /\ corpus' \in [DOMAIN corpus' -> Marks] /\ DOMAIN corpus' \subseteq CaseIds
      /\ IsFiniteSet(DOMAIN corpus') /\ DOMAIN corpus' = {review.id} \cup DOMAIN corpus
      /\ \A id \in DOMAIN corpus' : corpus'[id] = IF id = review.id THEN review.verdict ELSE corpus[id]
  <2> DEFINE ids == {review.id}
             v == review.verdict
  <2>1. ids \in SUBSET CaseIds /\ IsFiniteSet(ids) /\ v \in Marks
    BY <1>3, FS_Singleton
  <2>2. corpus' = Filed(ids, v)
    BY <1>1
  <2> HIDE DEF ids, v
  <2>3. /\ corpus' \in [DOMAIN corpus' -> Marks] /\ DOMAIN corpus' \subseteq CaseIds
        /\ IsFiniteSet(DOMAIN corpus') /\ DOMAIN corpus' = ids \cup DOMAIN corpus
        /\ \A id \in DOMAIN corpus' : corpus'[id] = IF id \in ids THEN v ELSE corpus[id]
    BY <1>2, <2>1, <2>2, FiledIs
  <2> QED
    BY <2>3 DEF ids, v
<1>6. CorpusIsTyped'
  BY <1>1, <1>2, <1>4, <1>5 DEF CorpusIsTyped
<1>7. VerdictsAreBorne'
  <2> SUFFICES ASSUME ~crossed' PROVE VerdictsAreBorne'
    BY DEF VerdictsAreBorne
  <2>1. \A x : LastVerdict(x)' = LastVerdict(x)
    BY <1>1, LogStays
  <2>2. LastVerdict(review.id) = review.verdict /\ review.id \in DOMAIN corpus
    BY <1>1 DEF CorpusInv, VerdictsAreBorne
  <2>3. ASSUME NEW id \in DOMAIN corpus' PROVE LastVerdict(id) = "none" \/ corpus'[id] = LastVerdict(id)
    <3>1. CASE id = review.id
      BY <1>5, <2>2, <2>3, <3>1
    <3>2. CASE id # review.id
      BY <1>1, <1>5, <2>3, <3>2 DEF CorpusInv, VerdictsAreBorne
    <3> QED
      BY <3>1, <3>2
  <2> QED
    BY <1>4, <1>5, <2>1, <2>2, <2>3 DEF VerdictsAreBorne
<1>8. OverlapsAreSeen' /\ BucketsCoverCorpus'
  BY <1>1, <1>4 DEF CorpusInv, OverlapsAreSeen, BucketsCoverCorpus
<1>9. QueueIsTrue' /\ BreadthFirst' /\ BuiltAnew'
  BY <1>1, CrossingFrees
<1> QED
  BY <1>6, <1>7, <1>8, <1>9 DEF CorpusInv

-----------------------------------------------------------------------------
\* Every step of a campaign, of a review and of the runtime keeps it, and what
\* a new report asks for was not reviewed.
LEMMA CorpusStepLemma ==
    CorpusInv /\ [CorpusNext]_corpusVars =>
        /\ CorpusInv'
        /\ report' \notin {report, NoReport} =>
              \A id \in report'.pending : \A i \in DOMAIN notes : notes[i].id # id
<1> DEFINE Honest == report' \notin {report, NoReport} =>
                       \A id \in report'.pending : \A i \in DOMAIN notes : notes[i].id # id
<1> SUFFICES ASSUME CorpusInv, [CorpusNext]_corpusVars PROVE CorpusInv' /\ Honest
  OBVIOUS
<1>1. ASSUME NEW s \in Summaries, LeaveSummary(s) PROVE CorpusInv' /\ Honest
  BY <1>1, SummaryKeepsCorpus DEF LeaveSummary
<1>2. ASSUME NEW flags \in Wishes, NEW b \in IF "harvest" \in flags THEN Budgets ELSE {0}, BeginCampaign(flags, b)
      PROVE  CorpusInv' /\ Honest
  <2>1. b \in Budgets
    BY CorpusAssumption
  <2> QED
    BY <1>2, <2>1, BeginKeepsCorpus DEF BeginCampaign
<1>3. CASE ResetWorkspace
  BY <1>3, ResetKeepsCorpus DEF ResetWorkspace
<1>4. CASE SeedFixtures
  BY <1>4, SeedKeepsCorpus DEF SeedFixtures
<1>5. CASE PlanImport
  BY <1>5, PlanKeepsCorpus DEF PlanImport
<1>6. CASE PlanHarvest
  BY <1>6, PlanKeepsCorpus DEF PlanHarvest
<1>7. CASE PrepareCase
  BY <1>7, PrepareKeepsCorpus DEF PrepareCase
<1>8. CASE WriteCase
  BY <1>8, WriteKeepsCorpus DEF WriteCase
<1>9. CASE EndQueue
  BY <1>9, EndKeepsCorpus DEF EndQueue
<1>10. CASE WriteReport
  BY <1>10, CampaignReports
<1>11. CASE KillCampaign
  <2>1. BucketsCoverCorpus'
    BY <1>11 DEF KillCampaign, CorpusInv, BucketsCoverCorpus
  <2> QED
    BY <1>11, <2>1, KillKeepsCorpus DEF KillCampaign, IdleCommand, CorpusInv
<1>12. ASSUME NEW id \in DOMAIN corpus, NEW v \in Verdicts, BeginReviewOf(id, v) PROVE CorpusInv' /\ Honest
  BY <1>12, BeginReviewKeepsCorpus DEF BeginReviewOf
<1>13. CASE NoteReview
  BY <1>13, NoteKeepsCorpus DEF NoteReview
<1>14. CASE MarkArtifact
  BY <1>14, MarkKeepsCorpus DEF MarkArtifact
<1>15. CASE ReportReview
  BY <1>15, ReviewReports
<1>16. CASE UNCHANGED corpusVars
  <2>1. UNCHANGED <<runs, corpus, notes, campaign, review, report, commands, crossed>>
    BY <1>16 DEF corpusVars
  <2>2. CorpusIsTyped' /\ BucketsCoverCorpus' /\ OverlapsAreSeen'
    BY <2>1 DEF CorpusInv, CorpusIsTyped, BucketsCoverCorpus, OverlapsAreSeen
  <2>3. VerdictsAreBorne'
    BY <2>1, VerdictsStay DEF CorpusInv, CorpusIsTyped
  <2>4. NextId' = NextId /\ Kept(NextId)' = Kept(NextId) /\ Origin' = Origin
    <3>1. NextId' = NextId /\ Origin' = Origin
      BY <2>1, TurnStays
    <3> QED
      BY <2>1, <3>1 DEF Kept, LastVerdict
  <2>5. QueueIsTrue' /\ BreadthFirst' /\ BuiltAnew'
    BY <2>1, <2>4 DEF CorpusInv, QueueIsTrue, BreadthFirst, BuiltAnew, Taking, Of, Depth, Like, Usable
  <2> QED
    BY <2>1, <2>2, <2>3, <2>5 DEF CorpusInv
<1> HIDE DEF Honest
<1> QED
  BY <1>1, <1>2, <1>3, <1>4, <1>5, <1>6, <1>7, <1>8, <1>9, <1>10, <1>11, <1>12, <1>13, <1>14, <1>15, <1>16
     DEF CorpusNext, CampaignStep, ReviewCommandStep

-----------------------------------------------------------------------------
(* The types that the properties do not rest on.                            *)

\* A campaign takes what is there, as deep as it was told.
TakesWhatIsThere == campaign.at = "idle" \/ (campaign.queue \subseteq DOMAIN runs /\ campaign.budget \in Budgets)

\* What the types ask for beyond CorpusInv.
CorpusBounds ==
    /\ Len(runs) <= MaxRuns /\ TakesWhatIsThere
    /\ report.pending \subseteq CaseIds /\ report.whole \in BOOLEAN
    /\ commands \in [campaigns : 0 .. MaxCampaigns, reviews : 0 .. MaxReviews]

\* The runs there are, and the campaign, after a step.
LEMMA CampaignTakes ==
    ASSUME CorpusInv, TakesWhatIsThere, [CorpusNext]_corpusVars
    PROVE  TakesWhatIsThere'
<1>1. /\ runs \in Seq(Summaries) /\ campaign \in Campaigns \cup {IdleCommand}
  BY DEF CorpusInv, CorpusIsTyped
<1>2. ASSUME campaign.at # "idle"
      PROVE  campaign \in Campaigns /\ campaign.queue \subseteq DOMAIN runs /\ campaign.budget \in Budgets
  BY <1>1, <1>2, CampaignIs DEF TakesWhatIsThere
<1>3. CASE runs' = runs /\ campaign' = campaign
  BY <1>3 DEF TakesWhatIsThere
<1>4. CASE runs' = runs /\ campaign' = IdleCommand
  BY <1>4 DEF TakesWhatIsThere, IdleCommand
<1>5. ASSUME NEW s \in Summaries, LeaveSummary(s) PROVE TakesWhatIsThere'
  <2>1. runs' = Append(runs, s) /\ campaign' = campaign
    BY <1>5 DEF LeaveSummary
  <2>2. DOMAIN runs \subseteq DOMAIN runs'
    BY <1>1, <2>1
  <2> QED
    BY <2>1, <2>2 DEF TakesWhatIsThere
<1>6. ASSUME NEW flags \in Wishes, NEW b \in IF "harvest" \in flags THEN Budgets ELSE {0}, BeginCampaign(flags, b)
      PROVE  TakesWhatIsThere'
  <2>1. b \in Budgets
    BY CorpusAssumption
  <2>2. campaign'.queue = {} /\ campaign'.budget = b
    BY <1>6 DEF BeginCampaign, Begun
  <2> QED
    BY <2>1, <2>2 DEF TakesWhatIsThere
<1>7. CASE ResetWorkspace
  <2>1. campaign.at # "idle" /\ runs' = runs
    BY <1>7 DEF ResetWorkspace
  <2>2. campaign'.queue = campaign.queue /\ campaign'.budget = campaign.budget
    BY <1>2, <1>7, <2>1 DEF ResetWorkspace, Campaigns
  <2> QED
    BY <1>2, <2>1, <2>2 DEF TakesWhatIsThere
<1>8. CASE SeedFixtures
  <2>1. campaign.at # "idle" /\ runs' = runs
    BY <1>8 DEF SeedFixtures
  <2>2. campaign'.queue = campaign.queue /\ campaign'.budget = campaign.budget
    BY <1>2, <1>8, <2>1 DEF SeedFixtures, Campaigns
  <2> QED
    BY <1>2, <2>1, <2>2 DEF TakesWhatIsThere
<1>9. CASE PlanImport
  <2>1. campaign.at # "idle" /\ runs' = runs
    BY <1>9 DEF PlanImport
  <2>2. campaign'.queue = ImportQueue /\ campaign'.budget = campaign.budget
    BY <1>2, <1>9, <2>1 DEF PlanImport, Campaigns
  <2>3. ImportQueue \subseteq DOMAIN runs
    BY <1>1, QueuesAre DEF Usables
  <2> QED
    BY <1>2, <2>1, <2>2, <2>3 DEF TakesWhatIsThere
<1>10. CASE PlanHarvest
  <2>1. campaign.at # "idle" /\ runs' = runs
    BY <1>10 DEF PlanHarvest
  <2>2. campaign'.queue = HarvestQueue(campaign.budget) /\ campaign'.budget = campaign.budget
    BY <1>2, <1>10, <2>1 DEF PlanHarvest, Campaigns
  <2>3. HarvestQueue(campaign.budget) \subseteq DOMAIN runs
    BY <1>1, QueuesAre DEF Usables
  <2> QED
    BY <1>2, <2>1, <2>2, <2>3 DEF TakesWhatIsThere
<1>11. CASE PrepareCase
  <2>1. campaign.at # "idle" /\ runs' = runs
    BY <1>11 DEF PrepareCase
  <2>2. campaign'.queue = campaign.queue /\ campaign'.budget = campaign.budget
    BY <1>2, <1>11, <2>1 DEF PrepareCase, Campaigns
  <2> QED
    BY <1>2, <2>1, <2>2 DEF TakesWhatIsThere
<1>12. CASE WriteCase
  <2>1. campaign.at # "idle" /\ runs' = runs
    BY <1>12 DEF WriteCase
  <2>2. campaign'.queue = campaign.queue \ {NextCase} /\ campaign'.budget = campaign.budget
    BY <1>2, <1>12, <2>1 DEF WriteCase, Campaigns
  <2> QED
    BY <1>2, <2>1, <2>2 DEF TakesWhatIsThere
<1>13. CASE EndQueue
  <2>1. campaign.at # "idle" /\ runs' = runs
    BY <1>13 DEF EndQueue
  <2>2. campaign'.queue = campaign.queue /\ campaign'.budget = campaign.budget
    BY <1>2, <1>13, <2>1 DEF EndQueue, Campaigns
  <2> QED
    BY <1>2, <2>1, <2>2 DEF TakesWhatIsThere
<1>14. CASE WriteReport \/ KillCampaign
  BY <1>4, <1>14 DEF WriteReport, KillCampaign, IdleCommand
<1>15. ASSUME NEW id \in DOMAIN corpus, NEW v \in Verdicts, BeginReviewOf(id, v) PROVE TakesWhatIsThere'
  BY <1>3, <1>15 DEF BeginReviewOf
<1>16. CASE ReviewCommandStep
  BY <1>3, <1>16 DEF ReviewCommandStep, NoteReview, MarkArtifact, ReportReview
<1>17. CASE UNCHANGED corpusVars
  BY <1>3, <1>17 DEF corpusVars
<1> QED
  BY <1>5, <1>6, <1>7, <1>8, <1>9, <1>10, <1>11, <1>12, <1>13, <1>14, <1>15, <1>16, <1>17
     DEF CorpusNext, CampaignStep

\* A report is of what the workspace holds.
LEMMA ReportIsTyped ==
    ASSUME CorpusIsTyped, NEW fresh \in BOOLEAN, NEW ingested
    PROVE  /\ ReportOn(fresh, ingested).pending \subseteq CaseIds
           /\ ReportOn(fresh, ingested).whole \in BOOLEAN
BY DEF ReportOn, CorpusIsTyped

\* The report, the runs and the commands after a step.
LEMMA BoundsKeep ==
    ASSUME CorpusInv, CorpusBounds, [CorpusNext]_corpusVars
    PROVE  /\ Len(runs') <= MaxRuns
           /\ report'.pending \subseteq CaseIds /\ report'.whole \in BOOLEAN
           /\ commands' \in [campaigns : 0 .. MaxCampaigns, reviews : 0 .. MaxReviews]
<1>1. /\ runs \in Seq(Summaries) /\ Len(runs) <= MaxRuns /\ CorpusIsTyped
      /\ report.pending \subseteq CaseIds /\ report.whole \in BOOLEAN
      /\ commands \in [campaigns : 0 .. MaxCampaigns, reviews : 0 .. MaxReviews]
      /\ {MaxRuns, MaxCampaigns, MaxReviews} \subseteq Nat
  BY CorpusAssumption DEF CorpusInv, CorpusIsTyped, CorpusBounds
<1>2. NoReport.pending \subseteq CaseIds /\ NoReport.whole \in BOOLEAN
  BY DEF NoReport
<1>3. ASSUME NEW s \in Summaries, LeaveSummary(s)
      PROVE  Len(runs') <= MaxRuns /\ UNCHANGED <<report, commands>>
  <2>1. Len(runs) < MaxRuns /\ runs' = Append(runs, s)
    BY <1>3 DEF LeaveSummary
  <2>2. Len(runs') = Len(runs) + 1 /\ Len(runs) \in Nat
    BY <1>1, <2>1
  <2> QED
    BY <1>1, <1>3, <2>1, <2>2 DEF LeaveSummary
<1>4. ASSUME NEW flags \in Wishes, NEW b, BeginCampaign(flags, b)
      PROVE  /\ runs' = runs /\ report' = NoReport
             /\ commands' \in [campaigns : 0 .. MaxCampaigns, reviews : 0 .. MaxReviews]
  <2>1. commands.campaigns < MaxCampaigns /\ commands' = [commands EXCEPT !.campaigns = @ + 1]
    BY <1>4 DEF BeginCampaign
  <2> QED
    BY <1>1, <1>4, <2>1 DEF BeginCampaign
<1>5. ASSUME NEW id \in DOMAIN corpus, NEW v \in Verdicts, BeginReviewOf(id, v)
      PROVE  /\ runs' = runs /\ report' = NoReport
             /\ commands' \in [campaigns : 0 .. MaxCampaigns, reviews : 0 .. MaxReviews]
  <2>1. commands.reviews < MaxReviews /\ commands' = [commands EXCEPT !.reviews = @ + 1]
    BY <1>5 DEF BeginReviewOf
  <2> QED
    BY <1>1, <1>5, <2>1 DEF BeginReviewOf
<1>6. CASE WriteReport
  <2>1. /\ campaign.at # "idle" /\ UNCHANGED <<runs, commands>>
        /\ report' = ReportOn(campaign.fresh, campaign.ingested)
    BY <1>6 DEF WriteReport
  <2>2. campaign.fresh \in BOOLEAN
    BY <1>1, <2>1, CampaignIs DEF CorpusIsTyped
  <2> QED
    BY <1>1, <2>1, <2>2, ReportIsTyped
<1>7. CASE ReportReview
  <2>1. UNCHANGED <<runs, commands>> /\ report' = ReportOn(FALSE, [o \in Origins |-> 0])
    BY <1>7 DEF ReportReview
  <2> QED
    BY <1>1, <2>1, ReportIsTyped
<1>8. CASE UNCHANGED <<runs, report, commands>>
  BY <1>1, <1>8
<1>9. \/ UNCHANGED <<runs, report, commands>>
      \/ \E s \in Summaries : LeaveSummary(s)
      \/ \E flags \in Wishes : \E b \in IF "harvest" \in flags THEN Budgets ELSE {0} : BeginCampaign(flags, b)
      \/ \E id \in DOMAIN corpus, v \in Verdicts : BeginReviewOf(id, v)
      \/ WriteReport \/ ReportReview
  BY DEF CorpusNext, CampaignStep, ReviewCommandStep, ResetWorkspace, SeedFixtures, PlanImport,
         PlanHarvest, PrepareCase, WriteCase, EndQueue, KillCampaign, NoteReview, MarkArtifact, corpusVars
<1> QED
  BY <1>1, <1>2, <1>3, <1>4, <1>5, <1>6, <1>7, <1>8, <1>9

\* Every step keeps the types.
LEMMA CorpusBoundsStep == CorpusInv /\ CorpusBounds /\ [CorpusNext]_corpusVars => CorpusBounds'
BY BoundsKeep, CampaignTakes DEF CorpusBounds

\* Nothing has been run, reported or begun.
LEMMA CorpusBoundsInit == CorpusInit => CorpusBounds
<1> SUFFICES ASSUME CorpusInit PROVE CorpusBounds
  OBVIOUS
<1>1. runs = <<>> /\ {MaxRuns, MaxCampaigns, MaxReviews} \subseteq Nat
  BY CorpusAssumption DEF CorpusInit
<1>2. Len(runs) <= MaxRuns
  BY <1>1
<1> QED
  BY <1>1, <1>2 DEF CorpusInit, CorpusBounds, TakesWhatIsThere, NoReport

\* With these, everything is of its type.
LEMMA CorpusHasTypes == CorpusInv /\ CorpusBounds => CorpusTypeOK
<1> SUFFICES ASSUME CorpusInv, CorpusBounds PROVE CorpusTypeOK
  OBVIOUS
<1>1. CorpusIsTyped
  BY DEF CorpusInv
<1>2. CaseIds = Ids /\ Marks = Verdicts \cup {Waiting}
  BY DEF CaseIds, Ids, Marks
<1>3. ASSUME NEW i \in DOMAIN notes PROVE notes[i].id \in Ids /\ notes[i].verdict \in Verdicts
  <2>1. notes[i] \in Notes
    BY <1>1 DEF CorpusIsTyped
  <2> QED
    BY <1>2, <2>1 DEF Notes
<1>4. \/ campaign = [at |-> "idle"]
      \/ /\ campaign.at \in Phases /\ campaign.flags \subseteq {"reset", "seed", "import", "harvest"}
         /\ campaign.budget \in Budgets
         /\ campaign.queue \subseteq DOMAIN runs /\ campaign.deepest \in Nat /\ campaign.fresh \in BOOLEAN
         /\ campaign.state \in Verdicts \cup {Waiting, "unread"}
         /\ \A o \in Origins : campaign.ingested[o] \in Nat
  <2>1. CASE campaign = IdleCommand
    BY <2>1 DEF IdleCommand
  <2>2. CASE campaign # IdleCommand
    <3>1. campaign.at # "idle"
      BY <1>1, <2>2 DEF CorpusIsTyped, Campaigns, Phases
    <3>2. /\ campaign.at \in Phases /\ campaign.flags \subseteq Wanted
          /\ campaign.deepest \in Nat /\ campaign.fresh \in BOOLEAN
          /\ campaign.state \in Marks \cup {"unread"} /\ campaign.ingested \in [Origins -> Nat]
      BY <1>1, <3>1, CampaignIs DEF CorpusIsTyped
    <3>3. campaign.queue \subseteq DOMAIN runs /\ campaign.budget \in Budgets
      BY <3>1 DEF CorpusBounds, TakesWhatIsThere
    <3> QED
      BY <1>2, <3>2, <3>3 DEF Wanted
  <2> QED
    BY <2>1, <2>2
<1>5. review = [at |-> "idle"] \/ (review.id \in Ids /\ review.verdict \in Verdicts)
  BY <1>1, <1>2 DEF CorpusIsTyped, ReviewCommands, IdleCommand
<1>6. \A id \in DOMAIN corpus : corpus[id] \in Verdicts \cup {Waiting}
  BY <1>1, <1>2 DEF CorpusIsTyped
<1> QED
  BY <1>1, <1>2, <1>3, <1>4, <1>5, <1>6 DEF CorpusTypeOK, CorpusIsTyped, CorpusBounds

-----------------------------------------------------------------------------
\* At rest, what was reviewed bears its last verdict.
LEMMA RestIsTrue == CorpusInv => ReviewsSurvive
BY DEF CorpusInv, VerdictsAreBorne, ReviewsSurvive, Quiet

\* A campaign keeps the reviews there are, takes the newest case of every
\* pattern before any repeat, and its report accounts for what it built, for
\* any runs, budgets and verdicts, and wherever a campaign is killed
\* (generate_recommendation_replay_campaign, record_recommendation_review).
THEOREM CorpusStaysSound == CorpusSpec => []CorpusTypeOK /\ CorpusIsSound
<1>1. CorpusInit => CorpusInv /\ CorpusBounds
  BY CorpusInitLemma, CorpusBoundsInit
<1>2. CorpusInv /\ CorpusBounds /\ [CorpusNext]_corpusVars => CorpusInv' /\ CorpusBounds'
  BY CorpusStepLemma, CorpusBoundsStep
<1>3. CorpusInv /\ CorpusBounds => CorpusTypeOK /\ ReviewsSurvive /\ BreadthFirst /\ BucketsCoverCorpus
  BY RestIsTrue, CorpusHasTypes DEF CorpusInv
<1>4. CorpusInv /\ [CorpusNext]_corpusVars =>
        [report' \notin {report, NoReport} =>
            \A id \in report'.pending : \A i \in DOMAIN notes : notes[i].id # id]_corpusVars
  BY CorpusStepLemma
<1> QED
  BY <1>1, <1>2, <1>3, <1>4, PTL DEF CorpusSpec, CorpusIsSound, PendingIsUnreviewed

-------------------------------------------------------------------------------
(* The readers of the days.                                                  *)

\* Lists with the same indices are of one length.
LEMMA SameLength ==
    ASSUME NEW T, NEW s \in Seq(T), NEW t \in Seq(T), DOMAIN s = DOMAIN t
    PROVE  Len(s) = Len(t)
OBVIOUS

\* A paper in the folder of the reports.
Paper == [by : {"report", "audit"}, json : BOOLEAN, html : BOOLEAN]

\* The types of what the jobs work with.
DayIsTyped ==
    /\ today \in 1 .. LastDay
    /\ logs \in [Logfiles -> Seq(LogLine)] /\ atStart \in [DayJobs -> [Logfiles -> Seq(LogLine)]]
    /\ jobStep \in [DayJobs -> {"idle", "read", "json", "html", "shown"}]
    /\ due \in [DayJobs -> SUBSET Logfiles]
    /\ DOMAIN tally = DayJobs
    /\ papers \in Seq(Paper) /\ linked \subseteq DOMAIN papers

\* The lines t of a file hold what its lines s held.
Grown(s, t) == Entries(s) <= Entries(t) /\ Lost(s) <= Lost(t) /\ Len(s) <= Len(t)

\* What job j counted in file f lies between what it held when the job began
\* and what it holds; the audit counted every line.
IsFair(j, f) ==
    LET got == tally[j][f]
    IN  /\ got.entries \in Nat /\ got.lost \in Nat /\ got.bad \in Nat
        /\ Entries(atStart[j][f]) <= got.entries /\ got.entries <= Entries(logs[f])
        /\ got.lost <= Lost(logs[f])
        /\ j = "audit" => /\ Len(atStart[j][f]) <= got.entries + got.bad
                          /\ got.entries + got.bad <= Len(logs[f])

\* What job j has counted, for the days that are there.
CountsFairly(j) ==
    /\ jobStep[j] = "read" => due[j] # {}
    /\ \A f \in Logfiles : f[1] \notin swept => Grown(atStart[j][f], logs[f])
    /\ \A f \in DOMAIN tally[j] : f \in Logfiles /\ (f[1] \notin swept => IsFair(j, f))

\* Paper i is the latest one of job j.
IsLatest(i, j) ==
    /\ i \in DOMAIN papers /\ papers[i].by = j
    /\ \A k \in DOMAIN papers : papers[k].by = j => k <= i

\* A page comes after its JSON.
PagesFollowData ==
    /\ \A i \in DOMAIN papers : papers[i].html => papers[i].json
    /\ \A i \in linked : papers[i].json
    /\ \A j \in DayJobs \ {"index"} :
          jobStep[j] = "html" => \E i \in DOMAIN papers : IsLatest(i, j) /\ papers[i].json

\* What the readers rest on.
DayInv == DayIsTyped /\ (\A j \in DayJobs : CountsFairly(j)) /\ PagesFollowData

-----------------------------------------------------------------------------
\* What is counted of lines: no more of them than there are.
LEMMA LinesCount ==
    ASSUME NEW s \in Seq(LogLine)
    PROVE  /\ Entries(s) \in Nat /\ Lost(s) \in Nat /\ Len(s) \in Nat /\ Entries(s) <= Len(s)
           /\ IsFiniteSet({i \in 1 .. Len(s) : s[i] \in {"whole", "bare"}})
           /\ IsFiniteSet({i \in 1 .. Len(s) : s[i] = "bare"})
<1> DEFINE E == {i \in 1 .. Len(s) : s[i] \in {"whole", "bare"}}
           L == {i \in 1 .. Len(s) : s[i] = "bare"}
<1>1. IsFiniteSet(1 .. Len(s)) /\ Cardinality(1 .. Len(s)) = Len(s) /\ Len(s) \in Nat
  <2>1. Len(s) \in Nat
    OBVIOUS
  <2> QED
    BY <2>1, FS_Interval, SMTT(30)
<1>2. IsFiniteSet(E) /\ Cardinality(E) <= Len(s) /\ IsFiniteSet(L)
  <2>1. E \in SUBSET (1 .. Len(s)) /\ L \in SUBSET (1 .. Len(s))
    OBVIOUS
  <2> HIDE DEF E, L
  <2>2. IsFiniteSet(E) /\ Cardinality(E) <= Cardinality(1 .. Len(s))
    BY <1>1, <2>1, FS_Subset
  <2>3. IsFiniteSet(L)
    BY <1>1, <2>1, FS_Subset
  <2> QED
    BY <1>1, <2>2, <2>3
<1>3. Cardinality(E) \in Nat /\ Cardinality(L) \in Nat
  BY <1>2, FS_CardinalityType
<1> QED
  BY <1>1, <1>2, <1>3 DEF Entries, Lost

\* Lines that keep what was entered have grown.
LEMMA KeptHasGrown ==
    ASSUME NEW s \in Seq(LogLine), NEW t \in Seq(LogLine), Len(s) <= Len(t),
           \A i \in 1 .. Len(s) : s[i] \in {"whole", "bare"} => t[i] = s[i]
    PROVE  Grown(s, t)
<1> DEFINE E(u) == {i \in 1 .. Len(u) : u[i] \in {"whole", "bare"}}
           L(u) == {i \in 1 .. Len(u) : u[i] = "bare"}
<1>1. Len(s) \in Nat /\ Len(t) \in Nat
  OBVIOUS
<1>2. E(s) \in SUBSET E(t) /\ L(s) \in SUBSET L(t)
  BY <1>1
<1>3. IsFiniteSet(E(t)) /\ IsFiniteSet(L(t))
  BY LinesCount
<1>4. Entries(s) = Cardinality(E(s)) /\ Entries(t) = Cardinality(E(t)) /\ Lost(s) = Cardinality(L(s)) /\ Lost(t) = Cardinality(L(t))
  BY DEF Entries, Lost
<1> HIDE DEF E, L
<1>5. Cardinality(E(s)) <= Cardinality(E(t))
  BY <1>2, <1>3, FS_Subset
<1>6. Cardinality(L(s)) <= Cardinality(L(t))
  BY <1>2, <1>3, FS_Subset
<1> QED
  BY <1>4, <1>5, <1>6 DEF Grown

\* Another line, or the end of a torn one, loses no entry.
LEMMA WritingGrows ==
    ASSUME NEW s \in Seq(LogLine), NEW l \in LogLine
    PROVE  /\ Append(s, l) \in Seq(LogLine) /\ Grown(s, Append(s, l))
           /\ IsOpen(s) => /\ [s EXCEPT ![Len(s)] = "torn"] \in Seq(LogLine)
                           /\ Grown(s, [s EXCEPT ![Len(s)] = "torn"])
<1>1. Append(s, l) \in Seq(LogLine) /\ Grown(s, Append(s, l))
  <2> DEFINE t == Append(s, l)
  <2>1. t \in Seq(LogLine) /\ Len(t) = Len(s) + 1 /\ Len(s) \in Nat /\ \A i \in 1 .. Len(s) : t[i] = s[i]
    OBVIOUS
  <2> HIDE DEF t
  <2>2. Grown(s, t)
    BY <2>1, KeptHasGrown
  <2> QED
    BY <2>1, <2>2 DEF t
<1>2. ASSUME IsOpen(s)
      PROVE  /\ [s EXCEPT ![Len(s)] = "torn"] \in Seq(LogLine)
             /\ Grown(s, [s EXCEPT ![Len(s)] = "torn"])
  <2> DEFINE t == [s EXCEPT ![Len(s)] = "torn"]
  <2>1. t \in Seq(LogLine) /\ Len(t) = Len(s) /\ Len(s) \in Nat
    <3>1. "torn" \in LogLine /\ Len(s) \in 1 .. Len(s)
      BY <1>2 DEF LogLine, IsOpen
    <3> QED
      BY <3>1, ExceptSeq
  <2>2. \A i \in 1 .. Len(s) : s[i] \in {"whole", "bare"} => t[i] = s[i]
    BY <1>2 DEF IsOpen
  <2> HIDE DEF t
  <2>3. Grown(s, t)
    BY <2>1, <2>2, KeptHasGrown
  <2> QED
    BY <2>1, <2>3 DEF t
<1> QED
  BY <1>1, <1>2

\* A file that is not there holds nothing.
LEMMA NothingCounts ==
    /\ <<>> \in Seq(LogLine) /\ Entries(<<>>) = 0 /\ Lost(<<>>) = 0
    /\ \A s \in Seq(LogLine) : Grown(<<>>, s)
<1>1. ASSUME NEW s, s = <<>> PROVE Len(s) = 0 /\ s \in Seq(LogLine)
  BY <1>1
<1>2. <<>> \in Seq(LogLine) /\ Len(<<>>) = 0
  BY <1>1, Zenon
<1>3. Entries(<<>>) = 0 /\ Lost(<<>>) = 0
  <2>1. {i \in 1 .. Len(<<>>) : <<>>[i] \in {"whole", "bare"}} = {} /\ {i \in 1 .. Len(<<>>) : <<>>[i] = "bare"} = {}
    BY <1>2
  <2> QED
    BY <2>1, FS_EmptySet DEF Entries, Lost
<1>4. ASSUME NEW s \in Seq(LogLine) PROVE Grown(<<>>, s)
  <2>1. Entries(s) \in Nat /\ Lost(s) \in Nat /\ Len(s) \in Nat
    BY LinesCount
  <2> QED
    BY <1>2, <1>3, <2>1 DEF Grown
<1> QED
  BY <1>2, <1>3, <1>4

\* What has grown since it had grown has grown.
LEMMA GrownTwice ==
    ASSUME NEW s \in Seq(LogLine), NEW t \in Seq(LogLine), NEW u \in Seq(LogLine), Grown(s, t), Grown(t, u)
    PROVE  Grown(s, u)
<1>1. Entries(s) \in Nat /\ Lost(s) \in Nat /\ Len(s) \in Nat
  BY LinesCount
<1>2. Entries(t) \in Nat /\ Lost(t) \in Nat /\ Len(t) \in Nat
  BY LinesCount
<1>3. Entries(u) \in Nat /\ Lost(u) \in Nat /\ Len(u) \in Nat
  BY LinesCount
<1> QED
  BY <1>1, <1>2, <1>3 DEF Grown

\* The files of a job can be put in its order.
LEMMA FilesAreOrdered ==
    ASSUME NEW j \in DayJobs, NEW S \in SUBSET Logfiles, S # {}
    PROVE  LET f == CHOOSE g \in S : \A h \in S \ {g} : ComesBefore(j, g, h) IN f \in S
<1> DEFINE R == {gh \in S \X S : ComesBefore(j, gh[1], gh[2])}
<1>1. \A g \in S : g \in Nat \X Logs
  BY DEF Logfiles
<1>2. Orders(R, S)
  <2>1. \A g \in S : ~ComesBefore(j, g, g)
    BY <1>1 DEF ComesBefore
  <2>2. \A g, h \in S : g # h => ComesBefore(j, g, h) \/ ComesBefore(j, h, g)
    BY <1>1 DEF ComesBefore, Logs
  <2>3. \A g, h, k \in S : ComesBefore(j, g, h) /\ ComesBefore(j, h, k) => ComesBefore(j, g, k)
    BY <1>1 DEF ComesBefore, Logs
  <2> QED
    BY <2>1, <2>2, <2>3 DEF Orders
<1>3. IsFiniteSet(S)
  <2>1. IsFiniteSet(1 .. LastDay) /\ IsFiniteSet(Logs)
    <3>1. IsFiniteSet(1 .. LastDay)
      BY FS_Interval, DayReportsAssumption
    <3> DEFINE a == "failure"
               b == "blocked"
    <3>2. Logs = ({} \cup {a}) \cup {b}
      BY DEF Logs
    <3> HIDE DEF a, b
    <3>3. IsFiniteSet({} \cup {a})
      BY FS_EmptySet, FS_AddElement
    <3>4. IsFiniteSet(({} \cup {a}) \cup {b})
      BY <3>3, FS_AddElement
    <3> QED
      BY <3>1, <3>2, <3>4
  <2>2. IsFiniteSet(Logfiles)
    BY <2>1, FS_Product DEF Logfiles
  <2> QED
    BY <2>2, FS_Subset
<1>4. \E g \in S : \A h \in S \ {g} : <<g, h>> \in R
  <2> HIDE DEF R
  <2> QED
    BY <1>2, <1>3, HasFirst
<1>5. \E g \in S : \A h \in S \ {g} : ComesBefore(j, g, h)
  BY <1>4
<1> QED
  BY <1>5

\* At first there is nothing to be read.
LEMMA DayInitLemma == DayReportsInit => DayInv
<1> SUFFICES ASSUME DayReportsInit PROVE DayInv
  OBVIOUS
<1>1. /\ logs = [f \in Logfiles |-> <<>>] /\ jobStep = [j \in DayJobs |-> "idle"]
      /\ due = [j \in DayJobs |-> {}] /\ tally = [j \in DayJobs |-> NoTally]
      /\ atStart = [j \in DayJobs |-> logs] /\ papers = <<>> /\ linked = {} /\ today = 1
  BY DEF DayReportsInit
<1>2. <<>> \in Seq(Paper) /\ DOMAIN papers = {}
  <2>1. ASSUME NEW s, s = <<>> PROVE s \in Seq(Paper) /\ DOMAIN s = {}
    BY <2>1
  <2> QED
    BY <1>1, <2>1, Zenon
<1>3. DayIsTyped
  BY <1>1, <1>2, NothingCounts, DayReportsAssumption DEF DayIsTyped
<1>4. \A j \in DayJobs : CountsFairly(j)
  <2> TAKE j \in DayJobs
  <2>1. \A f \in Logfiles : logs[f] = <<>> /\ atStart[j][f] = <<>>
    BY <1>1
  <2>2. DOMAIN tally[j] = {} /\ jobStep[j] = "idle"
    BY <1>1 DEF NoTally
  <2> QED
    BY <2>1, <2>2, NothingCounts DEF CountsFairly
<1>5. PagesFollowData
  BY <1>1, <1>2 DEF PagesFollowData
<1> QED
  BY <1>3, <1>4, <1>5 DEF DayInv

\* Whoever writes to the files or takes days away leaves the readers right.
LEMMA GrowingKeepsDays ==
    ASSUME DayInv, today' \in 1 .. LastDay, logs' \in [Logfiles -> Seq(LogLine)], swept \subseteq swept',
           \A f \in Logfiles : f[1] \notin swept' => Grown(logs[f], logs'[f]), UNCHANGED jobVars
    PROVE  DayInv'
<1>1. /\ UNCHANGED <<jobStep, due, tally, atStart, papers, linked>>
      /\ logs \in [Logfiles -> Seq(LogLine)] /\ atStart \in [DayJobs -> [Logfiles -> Seq(LogLine)]]
  BY DEF jobVars, DayInv, DayIsTyped
<1>2. DayIsTyped'
  BY <1>1 DEF DayInv, DayIsTyped
<1>3. PagesFollowData'
  BY <1>1 DEF DayInv, PagesFollowData, IsLatest
<1>4. ASSUME NEW j \in DayJobs PROVE CountsFairly(j)'
  <2>1. CountsFairly(j)
    BY DEF DayInv
  <2>2. ASSUME NEW f \in Logfiles, f[1] \notin swept' PROVE Grown(atStart[j][f], logs'[f])
    <3>1. Grown(atStart[j][f], logs[f]) /\ Grown(logs[f], logs'[f])
      BY <2>1, <2>2 DEF CountsFairly
    <3>2. atStart[j][f] \in Seq(LogLine) /\ logs[f] \in Seq(LogLine) /\ logs'[f] \in Seq(LogLine)
      BY <1>1
    <3> QED
      BY <3>1, <3>2, GrownTwice
  <2>3. ASSUME NEW f \in DOMAIN tally[j], f[1] \notin swept' PROVE IsFair(j, f)'
    <3>1. f \in Logfiles /\ IsFair(j, f) /\ Grown(logs[f], logs'[f])
      BY <2>1, <2>3 DEF CountsFairly
    <3>2. logs[f] \in Seq(LogLine) /\ logs'[f] \in Seq(LogLine)
      BY <1>1, <3>1
    <3>3. Entries(logs[f]) \in Nat /\ Lost(logs[f]) \in Nat /\ Len(logs[f]) \in Nat
      BY <3>2, LinesCount
    <3>4. Entries(logs'[f]) \in Nat /\ Lost(logs'[f]) \in Nat /\ Len(logs'[f]) \in Nat
      BY <3>2, LinesCount
    <3> DEFINE got == tally[j][f]
    <3>5. /\ got.entries \in Nat /\ got.lost \in Nat /\ got.bad \in Nat
          /\ Entries(atStart[j][f]) <= got.entries /\ got.entries <= Entries(logs[f])
          /\ got.lost <= Lost(logs[f])
          /\ j = "audit" => /\ Len(atStart[j][f]) <= got.entries + got.bad
                            /\ got.entries + got.bad <= Len(logs[f])
      BY <3>1 DEF IsFair
    <3>6. /\ got.entries <= Entries(logs'[f]) /\ got.lost <= Lost(logs'[f])
          /\ j = "audit" => got.entries + got.bad <= Len(logs'[f])
      <4> HIDE DEF got
      <4> QED
        BY <3>1, <3>3, <3>4, <3>5, SMTT(30) DEF Grown
    <3>7. tally'[j][f] = got /\ atStart'[j][f] = atStart[j][f]
      BY <1>1
    <3> HIDE DEF got
    <3> QED
      BY <3>5, <3>6, <3>7 DEF IsFair
  <2>4. DOMAIN tally'[j] = DOMAIN tally[j] /\ due' = due /\ jobStep' = jobStep /\ atStart' = atStart
    BY <1>1
  <2> QED
    BY <2>1, <2>2, <2>3, <2>4 DEF CountsFairly
<1> QED
  BY <1>2, <1>3, <1>4 DEF DayInv

\* The writers, the clock and the sweep.
LEMMA WritersKeepDays ==
    ASSUME DayInv, NEW k \in Logs, NEW l \in LogLine, NEW d \in 1 .. LastDay,
           AppendEntry(k, l) \/ TearEntry(k) \/ NewDay \/ SweepDay(d)
    PROVE  DayInv'
<1>1. logs \in [Logfiles -> Seq(LogLine)] /\ today \in 1 .. LastDay /\ LastDay \in Nat
  BY DayReportsAssumption DEF DayInv, DayIsTyped
<1>2. \A s \in Seq(LogLine) : Grown(s, s)
  BY KeptHasGrown
<1>3. CASE AppendEntry(k, l)
  <2> DEFINE f == <<today, k>>
             new(s) == IF IsOpen(s) THEN [s EXCEPT ![Len(s)] = "torn"] ELSE Append(s, l)
  <2>1. logs' = [logs EXCEPT ![f] = new(logs[f])] /\ UNCHANGED <<today, swept, jobVars>>
    BY <1>3 DEF AppendEntry
  <2>2. \A s \in Seq(LogLine) : new(s) \in Seq(LogLine) /\ Grown(s, new(s))
    BY WritingGrows
  <2> HIDE DEF new
  <2>3. \A g \in Logfiles : logs'[g] = new(logs[g]) \/ logs'[g] = logs[g]
    BY <1>1, <2>1
  <2>4. DOMAIN logs' = Logfiles /\ logs' = [g \in Logfiles |-> logs'[g]]
    BY <1>1, <2>1
  <2>5. logs' \in [Logfiles -> Seq(LogLine)] /\ \A g \in Logfiles : Grown(logs[g], logs'[g])
    BY <1>1, <1>2, <2>2, <2>3, <2>4
  <2> QED
    BY <1>1, <2>1, <2>5, GrowingKeepsDays
<1>4. CASE TearEntry(k)
  <2> DEFINE f == <<today, k>>
             new(s) == Append(s, "open")
  <2>1. logs' = [logs EXCEPT ![f] = new(logs[f])] /\ UNCHANGED <<today, swept, jobVars>>
    BY <1>4 DEF TearEntry
  <2>2. \A s \in Seq(LogLine) : new(s) \in Seq(LogLine) /\ Grown(s, new(s))
    <3>1. "open" \in LogLine
      BY DEF LogLine
    <3> DEFINE o == "open"
    <3> HIDE DEF o
    <3>2. \A s \in Seq(LogLine) : Append(s, o) \in Seq(LogLine) /\ Grown(s, Append(s, o))
      <4>1. o \in LogLine
        BY <3>1 DEF o
      <4> QED
        BY <4>1, WritingGrows
    <3> QED
      BY <3>2 DEF o
  <2> HIDE DEF new
  <2>3. \A g \in Logfiles : logs'[g] = new(logs[g]) \/ logs'[g] = logs[g]
    BY <1>1, <2>1
  <2>4. DOMAIN logs' = Logfiles /\ logs' = [g \in Logfiles |-> logs'[g]]
    BY <1>1, <2>1
  <2>5. logs' \in [Logfiles -> Seq(LogLine)] /\ \A g \in Logfiles : Grown(logs[g], logs'[g])
    BY <1>1, <1>2, <2>2, <2>3, <2>4
  <2> QED
    BY <1>1, <2>1, <2>5, GrowingKeepsDays
<1>5. CASE NewDay
  BY <1>1, <1>2, <1>5, GrowingKeepsDays DEF NewDay
<1>6. CASE SweepDay(d)
  <2>1. /\ swept' = swept \cup {d} /\ UNCHANGED <<today, jobVars>>
        /\ logs' = [f \in Logfiles |-> IF f[1] = d THEN <<>> ELSE logs[f]]
    BY <1>6 DEF SweepDay
  <2>2. logs' \in [Logfiles -> Seq(LogLine)]
    BY <1>1, <2>1, NothingCounts
  <2>3. \A f \in Logfiles : f[1] \notin swept' => Grown(logs[f], logs'[f])
    BY <1>1, <1>2, <2>1
  <2> QED
    BY <1>1, <2>1, <2>2, <2>3, GrowingKeepsDays
<1> QED
  BY <1>3, <1>4, <1>5, <1>6

-----------------------------------------------------------------------------
(* The jobs.                                                                *)

\* What job j does is its own, but for the papers.
LEMMA JobKeepsDays ==
    ASSUME DayInv, NEW j \in DayJobs, UNCHANGED <<today, logs, swept>>, DayIsTyped', CountsFairly(j)', PagesFollowData',
           \A k \in DayJobs \ {j} : /\ jobStep'[k] = jobStep[k] /\ due'[k] = due[k]
                                    /\ tally'[k] = tally[k] /\ atStart'[k] = atStart[k]
    PROVE  DayInv'
<1>1. ASSUME NEW k \in DayJobs \ {j} PROVE CountsFairly(k)'
  BY <1>1 DEF DayInv, CountsFairly, IsFair
<1> QED
  BY <1>1 DEF DayInv

\* A job that is over has counted nothing.
LEMMA OverKeepsDays ==
    ASSUME DayInv, NEW j \in DayJobs, Over(j), UNCHANGED <<today, logs, swept>>,
           papers' \in Seq(Paper), DOMAIN papers \subseteq DOMAIN papers', PagesFollowData'
    PROVE  DayInv'
<1>1. /\ jobStep' = [jobStep EXCEPT ![j] = "idle"] /\ due' = [due EXCEPT ![j] = {}]
      /\ tally' = [tally EXCEPT ![j] = NoTally]
      /\ atStart' = [atStart EXCEPT ![j] = [f \in Logfiles |-> <<>>]]
      /\ linked' = IF j = "index" THEN {} ELSE linked
  BY DEF Over
<1>2. DayIsTyped
  BY DEF DayInv
<1>3. DayIsTyped'
  <2>1. [f \in Logfiles |-> <<>>] \in [Logfiles -> Seq(LogLine)]
    BY NothingCounts
  <2> QED
    BY <1>1, <1>2, <2>1 DEF DayIsTyped
<1>4. CountsFairly(j)'
  <2>1. /\ jobStep'[j] = "idle" /\ tally'[j] = NoTally /\ logs' = logs
        /\ \A f \in Logfiles : atStart'[j][f] = <<>> /\ logs[f] \in Seq(LogLine)
    BY <1>1, <1>2 DEF DayIsTyped
  <2>2. DOMAIN tally'[j] = {}
    BY <2>1 DEF NoTally
  <2> QED
    BY <2>1, <2>2, NothingCounts DEF CountsFairly
<1>5. \A k \in DayJobs \ {j} : /\ jobStep'[k] = jobStep[k] /\ due'[k] = due[k]
                               /\ tally'[k] = tally[k] /\ atStart'[k] = atStart[k]
  BY <1>1, <1>2 DEF DayIsTyped
<1> QED
  BY <1>3, <1>4, <1>5, JobKeepsDays

\* A job begins.
LEMMA BeginKeepsDays == ASSUME DayInv, NEW j \in DayJobs, BeginJob(j) PROVE DayInv'
<1> DEFINE from == IF today > Reach[j] THEN today - Reach[j] ELSE 1
           days == {d \in Folders : d >= from}
<1>1. /\ days # {}
      /\ jobStep' = [jobStep EXCEPT ![j] = "read"]
      /\ due' = [due EXCEPT ![j] = days \X Logs]
      /\ tally' = [tally EXCEPT ![j] = NoTally]
      /\ atStart' = [atStart EXCEPT ![j] = [f \in Logfiles |-> IF f[1] \in days THEN logs[f] ELSE <<>>]]
      /\ linked' = IF j = "index" THEN {i \in DOMAIN papers : papers[i].html} ELSE linked
      /\ UNCHANGED <<today, logs, swept, papers>>
  BY DEF BeginJob
<1>2. DayIsTyped
  BY DEF DayInv
<1>3. days \subseteq 1 .. LastDay
  BY <1>2, DayReportsAssumption DEF DayIsTyped, Folders
<1> HIDE DEF days
<1>4. days \X Logs \in SUBSET Logfiles /\ days \X Logs # {}
  <2>1. PICK d \in days : TRUE
    BY <1>1
  <2>2. "failure" \in Logs
    BY DEF Logs
  <2>3. <<d, "failure">> \in days \X Logs
    BY <2>1, <2>2
  <2> QED
    BY <1>3, <2>3 DEF Logfiles
<1> DEFINE held == [f \in Logfiles |-> IF f[1] \in days THEN logs[f] ELSE <<>>]
<1>5. held \in [Logfiles -> Seq(LogLine)] /\ \A f \in Logfiles : Grown(held[f], logs[f])
  BY <1>2, NothingCounts, KeptHasGrown DEF DayIsTyped
<1>6. atStart' = [atStart EXCEPT ![j] = held]
  BY <1>1
<1> HIDE DEF held
<1>7. DayIsTyped'
  BY <1>1, <1>2, <1>4, <1>5, <1>6 DEF DayIsTyped
<1>8. CountsFairly(j)'
  <2>1. /\ due'[j] = days \X Logs /\ tally'[j] = NoTally /\ atStart'[j] = held /\ logs' = logs
    BY <1>1, <1>2, <1>6 DEF DayIsTyped
  <2>2. DOMAIN tally'[j] = {}
    BY <2>1 DEF NoTally
  <2> QED
    BY <1>4, <1>5, <2>1, <2>2 DEF CountsFairly
<1>9. \A k \in DayJobs \ {j} : /\ jobStep'[k] = jobStep[k] /\ due'[k] = due[k]
                               /\ tally'[k] = tally[k] /\ atStart'[k] = atStart[k]
  BY <1>1, <1>2 DEF DayIsTyped
<1>10. PagesFollowData'
  <2>1. PagesFollowData
    BY DEF DayInv
  <2>2. papers' = papers /\ jobStep'[j] = "read"
    BY <1>1, <1>2 DEF DayIsTyped
  <2>3. \A i \in linked' : (i \in linked) \/ (i \in DOMAIN papers /\ papers[i].html)
    BY <1>1
  <2> QED
    BY <1>9, <2>1, <2>2, <2>3 DEF PagesFollowData, IsLatest
<1> QED
  BY <1>1, <1>7, <1>8, <1>9, <1>10, JobKeepsDays

\* A job reads a file.
LEMMA ReadKeepsDays == ASSUME DayInv, NEW j \in DayJobs, ReadFile(j) PROVE DayInv'
<1> DEFINE f == CHOOSE g \in due[j] : \A h \in due[j] \ {g} : ComesBefore(j, g, h)
           skip == f[2] = "failure" /\ f[1] \in swept
           rest == IF skip THEN {g \in due[j] : g[1] # f[1]} ELSE due[j] \ {f}
           got == IF skip THEN tally[j]
                  ELSE [g \in {f} \cup DOMAIN tally[j] |-> IF g = f THEN ReadBy(j, logs[f]) ELSE tally[j][g]]
<1>1. /\ jobStep[j] = "read" /\ UNCHANGED <<today, logs, swept, papers>>
      /\ \/ Over(j)
         \/ /\ jobStep' = [jobStep EXCEPT ![j] = IF rest = {} THEN "json" ELSE "read"]
            /\ due' = [due EXCEPT ![j] = rest]
            /\ tally' = [tally EXCEPT ![j] = got]
            /\ UNCHANGED <<atStart, linked>>
  BY DEF ReadFile
<1>2. DayIsTyped /\ CountsFairly(j) /\ PagesFollowData
  BY DEF DayInv
<1>3. f \in due[j] /\ f \in Logfiles /\ due[j] \in SUBSET Logfiles
  <2>1. due[j] \in SUBSET Logfiles /\ due[j] # {}
    BY <1>1, <1>2 DEF DayIsTyped, CountsFairly
  <2>2. f \in due[j]
    BY <2>1, FilesAreOrdered
  <2> QED
    BY <2>1, <2>2
<1> HIDE DEF f
<1>4. rest \in SUBSET Logfiles /\ DOMAIN got \subseteq Logfiles
  BY <1>2, <1>3 DEF CountsFairly
<1>5. ASSUME NEW g \in DOMAIN got, g[1] \notin swept
      PROVE  /\ got[g].entries \in Nat /\ got[g].lost \in Nat /\ got[g].bad \in Nat
             /\ Entries(atStart[j][g]) <= got[g].entries /\ got[g].entries <= Entries(logs[g])
             /\ got[g].lost <= Lost(logs[g])
             /\ j = "audit" => /\ Len(atStart[j][g]) <= got[g].entries + got[g].bad
                               /\ got[g].entries + got[g].bad <= Len(logs[g])
  <2>1. CASE g = f /\ ~skip
    <3>1. got[g] = ReadBy(j, logs[f])
      BY <2>1
    <3>2. logs[f] \in Seq(LogLine) /\ atStart[j][f] \in Seq(LogLine) /\ Grown(atStart[j][f], logs[f])
      BY <1>2, <1>3, <1>5, <2>1 DEF DayIsTyped, CountsFairly
    <3>3. /\ Entries(logs[f]) \in Nat /\ Lost(logs[f]) \in Nat /\ Len(logs[f]) \in Nat
          /\ Entries(logs[f]) <= Len(logs[f])
      BY <3>2, LinesCount
    <3>4. /\ ReadBy(j, logs[f]).entries = Entries(logs[f])
          /\ ReadBy(j, logs[f]).lost \in {0, Lost(logs[f])}
          /\ ReadBy(j, logs[f]).bad \in {0, Len(logs[f]) - Entries(logs[f])}
          /\ j = "audit" => ReadBy(j, logs[f]).bad = Len(logs[f]) - Entries(logs[f])
      BY DEF ReadBy, Audited, Counted, Uncounted
    <3> HIDE DEF got
    <3> QED
      BY <2>1, <3>1, <3>2, <3>3, <3>4 DEF Grown
  <2>2. CASE g # f \/ skip
    <3>1. g \in DOMAIN tally[j] /\ got[g] = tally[j][g]
      BY <2>2
    <3> HIDE DEF got, skip
    <3> QED
      BY <1>2, <1>5, <3>1 DEF CountsFairly, IsFair
  <2> QED
    BY <2>1, <2>2
<1> HIDE DEF rest, got, skip
<1>6. CASE Over(j)
  <2>1. PagesFollowData'
    BY <1>1, <1>2, <1>6 DEF DayIsTyped, Over, PagesFollowData, IsLatest
  <2> QED
    BY <1>1, <1>2, <1>6, <2>1, OverKeepsDays DEF DayIsTyped
<1>7. CASE /\ jobStep' = [jobStep EXCEPT ![j] = IF rest = {} THEN "json" ELSE "read"]
           /\ due' = [due EXCEPT ![j] = rest]
           /\ tally' = [tally EXCEPT ![j] = got]
           /\ UNCHANGED <<atStart, linked>>
  <2>1. DayIsTyped'
    BY <1>1, <1>2, <1>4, <1>7 DEF DayIsTyped
  <2>2. \A k \in DayJobs \ {j} : /\ jobStep'[k] = jobStep[k] /\ due'[k] = due[k]
                                 /\ tally'[k] = tally[k] /\ atStart'[k] = atStart[k]
    BY <1>2, <1>7 DEF DayIsTyped
  <2>3. /\ due'[j] = rest /\ tally'[j] = got /\ atStart' = atStart /\ logs' = logs /\ swept' = swept
        /\ jobStep'[j] = IF rest = {} THEN "json" ELSE "read"
    BY <1>1, <1>2, <1>7 DEF DayIsTyped
  <2>4. CountsFairly(j)'
    <3>1. ASSUME NEW g \in DOMAIN got, g[1] \notin swept PROVE IsFair(j, g)'
      BY <1>5, <2>3, <3>1 DEF IsFair
    <3>2. \A g \in Logfiles : g[1] \notin swept => Grown(atStart[j][g], logs[g])
      BY <1>2 DEF CountsFairly
    <3> QED
      BY <1>4, <2>3, <3>1, <3>2 DEF CountsFairly
  <2>5. PagesFollowData'
    BY <1>1, <1>2, <1>7, <2>2, <2>3 DEF PagesFollowData, IsLatest
  <2> QED
    BY <1>1, <2>1, <2>2, <2>4, <2>5, JobKeepsDays
<1> QED
  BY <1>1, <1>6, <1>7

\* A job moves on with what it has counted.
LEMMA GoingKeepsDays ==
    ASSUME DayInv, NEW j \in DayJobs, NEW where \in {"html", "shown"}, Goes(j, where),
           UNCHANGED <<today, logs, swept>>,
           papers' \in Seq(Paper), DOMAIN papers \subseteq DOMAIN papers', PagesFollowData'
    PROVE  DayInv'
<1>1. jobStep' = [jobStep EXCEPT ![j] = where] /\ UNCHANGED <<due, tally, atStart, linked>>
  BY DEF Goes
<1>2. DayIsTyped /\ CountsFairly(j)
  BY DEF DayInv
<1>3. DayIsTyped'
  BY <1>1, <1>2 DEF DayIsTyped
<1>4. CountsFairly(j)'
  <2>1. jobStep'[j] # "read"
    BY <1>1, <1>2 DEF DayIsTyped
  <2> QED
    BY <1>1, <1>2, <2>1 DEF CountsFairly, IsFair
<1>5. \A k \in DayJobs \ {j} : /\ jobStep'[k] = jobStep[k] /\ due'[k] = due[k]
                               /\ tally'[k] = tally[k] /\ atStart'[k] = atStart[k]
  BY <1>1, <1>2 DEF DayIsTyped
<1> QED
  BY <1>3, <1>4, <1>5, JobKeepsDays

\* The JSON of a job.
LEMMA JsonKeepsDays ==
    ASSUME DayInv, NEW j \in DayJobs, NEW written \in BOOLEAN, WriteJson(j, written)
    PROVE  DayInv'
<1>1. /\ UNCHANGED <<today, logs, swept>>
      /\ IF written THEN Goes(j, "html") ELSE Over(j)
      /\ papers' = IF j = "index" THEN papers ELSE Append(papers, [by |-> j, json |-> written, html |-> FALSE])
  BY DEF WriteJson
<1>2. DayIsTyped /\ PagesFollowData
  BY DEF DayInv
<1>3. /\ jobStep' = [jobStep EXCEPT ![j] = IF written THEN "html" ELSE "idle"]
      /\ linked' \subseteq linked
  BY <1>1 DEF Goes, Over
<1>4. ASSUME j # "index"
      PROVE  /\ papers' \in Seq(Paper) /\ Len(papers') = Len(papers) + 1 /\ Len(papers) \in Nat
             /\ DOMAIN papers = 1 .. Len(papers) /\ DOMAIN papers' = 1 .. Len(papers')
             /\ \A i \in DOMAIN papers : papers'[i] = papers[i]
             /\ papers'[Len(papers')] = [by |-> j, json |-> written, html |-> FALSE]
  <2> DEFINE new == [by |-> j, json |-> written, html |-> FALSE]
  <2>1. new \in Paper
    BY <1>4 DEF Paper, DayJobs
  <2>2. papers' = Append(papers, new) /\ papers \in Seq(Paper)
    BY <1>1, <1>2, <1>4 DEF DayIsTyped
  <2> HIDE DEF new
  <2>3. /\ papers' \in Seq(Paper) /\ Len(papers') = Len(papers) + 1 /\ Len(papers) \in Nat
        /\ DOMAIN papers = 1 .. Len(papers) /\ DOMAIN papers' = 1 .. Len(papers')
        /\ \A i \in DOMAIN papers : papers'[i] = papers[i]
        /\ papers'[Len(papers')] = new
    BY <2>1, <2>2
  <2> QED
    BY <2>3 DEF new
<1>5. papers' \in Seq(Paper) /\ DOMAIN papers \subseteq DOMAIN papers'
  <2>1. CASE j = "index"
    BY <1>1, <1>2, <2>1 DEF DayIsTyped
  <2>2. CASE j # "index"
    BY <1>4, <2>2
  <2> QED
    BY <2>1, <2>2
<1>6. PagesFollowData'
  <2>1. CASE j = "index"
    BY <1>1, <1>2, <1>3, <2>1 DEF DayIsTyped, PagesFollowData, IsLatest
  <2>2. CASE j # "index"
    <3>1. PICK n \in DOMAIN papers' :
             /\ papers'[n].by = j /\ papers'[n].json = written /\ ~papers'[n].html
             /\ \A i \in DOMAIN papers' : i <= n /\ (i # n => i \in DOMAIN papers /\ papers'[i] = papers[i])
      BY <1>4, <2>2
    <3>2. \A i \in DOMAIN papers' : papers'[i].html => papers'[i].json
      BY <1>2, <3>1 DEF PagesFollowData
    <3>3. \A i \in linked' : papers'[i].json
      BY <1>2, <1>3, <1>4, <2>2 DEF PagesFollowData, DayIsTyped
    <3>4. ASSUME NEW k \in DayJobs \ {"index"}, jobStep'[k] = "html"
          PROVE  \E i \in DOMAIN papers' : IsLatest(i, k)' /\ papers'[i].json
      <4>1. CASE k = j
        <5>1. written
          BY <1>2, <1>3, <3>4, <4>1 DEF DayIsTyped
        <5>2. IsLatest(n, j)'
          BY <3>1 DEF IsLatest
        <5> QED
          BY <3>1, <4>1, <5>1, <5>2
      <4>2. CASE k # j
        <5>1. jobStep[k] = "html"
          BY <1>2, <1>3, <3>4, <4>2 DEF DayIsTyped
        <5>2. PICK i \in DOMAIN papers : IsLatest(i, k) /\ papers[i].json
          BY <1>2, <5>1 DEF PagesFollowData
        <5>3. i \in DOMAIN papers' /\ papers'[i] = papers[i]
          BY <1>4, <1>5, <2>2
        <5>4. IsLatest(i, k)'
          BY <3>1, <4>2, <5>2, <5>3 DEF IsLatest
        <5> QED
          BY <5>2, <5>3, <5>4
      <4> QED
        BY <4>1, <4>2
    <3> QED
      BY <3>2, <3>3, <3>4 DEF PagesFollowData
  <2> QED
    BY <2>1, <2>2
<1>7. CASE written
  <2>1. Goes(j, "html")
    BY <1>1, <1>7
  <2> DEFINE where == "html"
  <2>2. where \in {"html", "shown"} /\ Goes(j, where)
    BY <2>1
  <2> HIDE DEF where
  <2> QED
    BY <1>1, <1>5, <1>6, <2>2, GoingKeepsDays
<1>8. CASE ~written
  BY <1>1, <1>5, <1>6, <1>8, OverKeepsDays
<1> QED
  BY <1>7, <1>8

\* The page of a job.
LEMMA HtmlKeepsDays ==
    ASSUME DayInv, NEW j \in DayJobs, NEW written \in BOOLEAN, WriteHtml(j, written)
    PROVE  DayInv'
<1> DEFINE mine == {i \in DOMAIN papers : papers[i].by = j}
           mark == CHOOSE x \in mine : \A y \in mine : y <= x
<1>1. /\ jobStep[j] = "html" /\ UNCHANGED <<today, logs, swept>>
      /\ IF written THEN Goes(j, "shown") ELSE Over(j)
      /\ \E opened \in BOOLEAN : papers' = IF j = "index" THEN papers ELSE [papers EXCEPT ![mark].html = opened]
  BY DEF WriteHtml
<1>2. DayIsTyped /\ PagesFollowData
  BY DEF DayInv
<1>3. /\ jobStep' = [jobStep EXCEPT ![j] = IF written THEN "shown" ELSE "idle"]
      /\ linked' \subseteq linked
  BY <1>1 DEF Goes, Over
<1>4. ASSUME j # "index" PROVE mark \in DOMAIN papers /\ papers[mark].json
  <2>1. PICK i \in DOMAIN papers : IsLatest(i, j) /\ papers[i].json
    BY <1>1, <1>2, <1>4 DEF PagesFollowData
  <2>2. i \in mine /\ (\A y \in mine : y <= i) /\ mine \subseteq Nat
    BY <1>2, <2>1 DEF IsLatest, DayIsTyped
  <2>3. mark \in mine /\ \A y \in mine : y <= mark
    <3> HIDE DEF mine
    <3> QED
      BY <2>2
  <2>4. mark = i
    <3> HIDE DEF mine, mark
    <3> QED
      BY <2>2, <2>3
  <2> QED
    BY <2>1, <2>4
<1> HIDE DEF mark
<1>5. ASSUME j # "index"
      PROVE  /\ papers' \in Seq(Paper) /\ DOMAIN papers' = DOMAIN papers
             /\ \A i \in DOMAIN papers : papers'[i].by = papers[i].by /\ papers'[i].json = papers[i].json
             /\ \A i \in DOMAIN papers : i # mark => papers'[i] = papers[i]
  <2>1. PICK opened \in BOOLEAN : papers' = [papers EXCEPT ![mark].html = opened]
    BY <1>1, <1>5
  <2>2. papers \in Seq(Paper) /\ papers[mark] \in Paper /\ mark \in 1 .. Len(papers)
    BY <1>2, <1>4, <1>5 DEF DayIsTyped
  <2> DEFINE new == [papers[mark] EXCEPT !.html = opened]
  <2>3. new \in Paper /\ new.by = papers[mark].by /\ new.json = papers[mark].json
    BY <2>2 DEF Paper
  <2>4. papers' = [papers EXCEPT ![mark] = new]
    BY <2>1
  <2> HIDE DEF new
  <2>5. papers' \in Seq(Paper) /\ Len(papers') = Len(papers) /\ \A i \in 1 .. Len(papers) : papers'[i] = IF i = mark THEN new ELSE papers[i]
    BY <2>2, <2>3, <2>4, ExceptSeq
  <2>6. DOMAIN papers = 1 .. Len(papers) /\ DOMAIN papers' = 1 .. Len(papers')
    BY <2>2, <2>5
  <2> QED
    BY <2>3, <2>5, <2>6
<1>6. papers' \in Seq(Paper) /\ DOMAIN papers \subseteq DOMAIN papers'
  <2>1. CASE j = "index"
    BY <1>1, <1>2, <2>1 DEF DayIsTyped
  <2>2. CASE j # "index"
    BY <1>5, <2>2
  <2> QED
    BY <2>1, <2>2
<1>7. PagesFollowData'
  <2>1. CASE j = "index"
    BY <1>1, <1>2, <1>3, <2>1 DEF DayIsTyped, PagesFollowData, IsLatest
  <2>2. CASE j # "index"
    <3>1. \A i \in DOMAIN papers' : papers'[i].html => papers'[i].json
      BY <1>2, <1>4, <1>5, <2>2 DEF PagesFollowData
    <3>2. \A i \in linked' : papers'[i].json
      BY <1>2, <1>3, <1>5, <2>2 DEF PagesFollowData, DayIsTyped
    <3>3. ASSUME NEW k \in DayJobs \ {"index"}, jobStep'[k] = "html"
          PROVE  \E i \in DOMAIN papers' : IsLatest(i, k)' /\ papers'[i].json
      <4>1. jobStep[k] = "html"
        BY <1>2, <1>3, <3>3 DEF DayIsTyped
      <4>2. PICK i \in DOMAIN papers : IsLatest(i, k) /\ papers[i].json
        BY <1>2, <4>1 DEF PagesFollowData
      <4>3. IsLatest(i, k)' /\ papers'[i].json /\ i \in DOMAIN papers'
        BY <1>5, <2>2, <4>2 DEF IsLatest
      <4> QED
        BY <4>3
    <3> QED
      BY <3>1, <3>2, <3>3 DEF PagesFollowData
  <2> QED
    BY <2>1, <2>2
<1>8. CASE written
  <2>1. Goes(j, "shown")
    BY <1>1, <1>8
  <2> DEFINE where == "shown"
  <2>2. where \in {"html", "shown"} /\ Goes(j, where)
    BY <2>1
  <2> HIDE DEF where
  <2> QED
    BY <1>1, <1>6, <1>7, <2>2, GoingKeepsDays
<1>9. CASE ~written
  BY <1>1, <1>6, <1>7, <1>9, OverKeepsDays
<1> QED
  BY <1>8, <1>9

\* Every step keeps it.
LEMMA DayStepLemma == DayInv /\ [DayReportsNext]_reportVars => DayInv'
<1> SUFFICES ASSUME DayInv, [DayReportsNext]_reportVars PROVE DayInv'
  OBVIOUS
<1>1. CASE \E k \in Logs, l \in LogLine : AppendEntry(k, l)
  <2>1. 1 \in 1 .. LastDay
    BY DayReportsAssumption
  <2> QED
    BY <1>1, <2>1, WritersKeepDays
<1>2. CASE (\E k \in Logs : TearEntry(k)) \/ NewDay \/ \E d \in 1 .. LastDay : SweepDay(d)
  <2>1. 1 \in 1 .. LastDay /\ "whole" \in LogLine /\ "failure" \in Logs
    BY DayReportsAssumption DEF LogLine, Logs
  <2>2. PICK k \in Logs, l \in LogLine, d \in 1 .. LastDay : TearEntry(k) \/ NewDay \/ SweepDay(d)
    BY <1>2, <2>1
  <2> QED
    BY <2>2, WritersKeepDays
<1>3. ASSUME NEW j \in DayJobs,
             \/ BeginJob(j) \/ ReadFile(j) \/ ForgetJob(j)
             \/ \E w \in BOOLEAN : WriteJson(j, w) \/ WriteHtml(j, w)
      PROVE  DayInv'
  <2>1. CASE ForgetJob(j)
    <3>1. Over(j) /\ UNCHANGED <<today, logs, swept, papers>> /\ DayIsTyped /\ PagesFollowData
      BY <2>1 DEF ForgetJob, DayInv
    <3>2. PagesFollowData'
      BY <3>1 DEF DayIsTyped, Over, PagesFollowData, IsLatest
    <3> QED
      BY <3>1, <3>2, OverKeepsDays DEF DayIsTyped
  <2> QED
    BY <1>3, <2>1, BeginKeepsDays, ReadKeepsDays, JsonKeepsDays, HtmlKeepsDays
<1>4. CASE UNCHANGED reportVars
  BY <1>4 DEF reportVars, DayInv, DayIsTyped, CountsFairly, IsFair, PagesFollowData, IsLatest
<1> QED
  BY <1>1, <1>2, <1>3, <1>4 DEF DayReportsNext

-----------------------------------------------------------------------------
(* The types that the readers do not rest on.                               *)

\* Only the last line of a file may be open.
EndsInOrder(s) == \A i \in 1 .. Len(s) - 1 : s[i] # "open"

\* What is counted is a number.
Tallies == [entries : Nat, lost : Nat, bad : Nat]

\* What the types ask for beyond DayInv.
DayBounds ==
    /\ swept \subseteq 1 .. LastDay
    /\ \A f \in Logfiles : EndsInOrder(logs[f])
    /\ Len(papers) <= MaxPapers
    /\ \A j \in DayJobs : \A f \in DOMAIN tally[j] : tally[j][f] \in Tallies

\* A line is added behind one that is closed, or closes the one that was open.
LEMMA WritingEndsInOrder ==
    ASSUME NEW s \in Seq(LogLine), NEW l \in LogLine, EndsInOrder(s)
    PROVE  /\ ~IsOpen(s) => EndsInOrder(Append(s, l))
           /\ IsOpen(s) => EndsInOrder([s EXCEPT ![Len(s)] = "torn"])
<1>1. Len(s) \in Nat
  OBVIOUS
<1>2. ASSUME ~IsOpen(s) PROVE EndsInOrder(Append(s, l))
  <2> DEFINE t == Append(s, l)
  <2>1. Len(t) = Len(s) + 1 /\ \A i \in 1 .. Len(s) : t[i] = s[i]
    OBVIOUS
  <2> HIDE DEF t
  <2>2. ASSUME NEW i \in 1 .. Len(t) - 1 PROVE t[i] # "open"
    <3>1. i \in 1 .. Len(s) /\ t[i] = s[i]
      BY <1>1, <2>1
    <3>2. CASE i = Len(s)
      BY <1>2, <3>1, <3>2 DEF IsOpen
    <3>3. CASE i # Len(s)
      <4>1. i \in 1 .. Len(s) - 1
        BY <1>1, <3>1, <3>3
      <4> QED
        BY <3>1, <4>1 DEF EndsInOrder
    <3> QED
      BY <3>2, <3>3
  <2> QED
    BY <2>2 DEF EndsInOrder, t
<1>3. ASSUME IsOpen(s) PROVE EndsInOrder([s EXCEPT ![Len(s)] = "torn"])
  <2> DEFINE t == [s EXCEPT ![Len(s)] = "torn"]
  <2>1. Len(t) = Len(s) /\ \A i \in 1 .. Len(s) - 1 : t[i] = s[i]
    <3>1. "torn" \in LogLine /\ Len(s) \in 1 .. Len(s)
      BY <1>3 DEF LogLine, IsOpen
    <3>2. Len(t) = Len(s) /\ \A i \in 1 .. Len(s) : t[i] = IF i = Len(s) THEN "torn" ELSE s[i]
      BY <3>1, ExceptSeq
    <3> HIDE DEF t
    <3>3. ASSUME NEW i \in 1 .. Len(s) - 1 PROVE i \in 1 .. Len(s) /\ i # Len(s)
      BY <1>1
    <3> QED
      BY <3>2, <3>3
  <2> HIDE DEF t
  <2>2. EndsInOrder(t)
    BY <2>1 DEF EndsInOrder
  <2> QED
    BY <2>2 DEF t
<1> QED
  BY <1>2, <1>3

\* The writers, the days and the sweep keep the types.
LEMMA WritersKeepBounds ==
    ASSUME DayInv, DayBounds, NEW k \in Logs, NEW l \in LogLine, NEW d \in 1 .. LastDay,
           AppendEntry(k, l) \/ TearEntry(k) \/ NewDay \/ SweepDay(d)
    PROVE  DayBounds'
<1>1. logs \in [Logfiles -> Seq(LogLine)]
  BY DEF DayInv, DayIsTyped
<1>2. papers' = papers /\ tally' = tally
  BY DEF AppendEntry, TearEntry, NewDay, SweepDay, jobVars
<1>3. swept' \subseteq 1 .. LastDay
  BY DEF AppendEntry, TearEntry, NewDay, SweepDay, DayBounds
<1>4. \A f \in Logfiles : EndsInOrder(logs'[f])
  <2> SUFFICES ASSUME NEW f \in Logfiles PROVE EndsInOrder(logs'[f])
    OBVIOUS
  <2> DEFINE s == logs[f]
  <2>1. s \in Seq(LogLine) /\ EndsInOrder(s)
    BY <1>1 DEF DayBounds
  <2>2. CASE AppendEntry(k, l)
    <3>1. logs' = [logs EXCEPT ![<<today, k>>] = IF IsOpen(@) THEN [@ EXCEPT ![Len(@)] = "torn"] ELSE Append(@, l)]
      BY <2>2 DEF AppendEntry
    <3>2. \/ logs'[f] = s
          \/ IsOpen(s) /\ logs'[f] = [s EXCEPT ![Len(s)] = "torn"]
          \/ ~IsOpen(s) /\ logs'[f] = Append(s, l)
      BY <1>1, <3>1
    <3> HIDE DEF s
    <3> QED
      BY <2>1, <3>2, WritingEndsInOrder
  <2>3. CASE TearEntry(k)
    <3>1. logs' = [logs EXCEPT ![<<today, k>>] = Append(@, "open")] /\ ~IsOpen(logs[<<today, k>>])
      BY <2>3 DEF TearEntry
    <3> DEFINE o == "open"
    <3>2. o \in LogLine
      BY DEF LogLine
    <3>3. \/ logs'[f] = s
          \/ ~IsOpen(s) /\ logs'[f] = Append(s, o)
      BY <1>1, <3>1
    <3> HIDE DEF s, o
    <3> QED
      BY <2>1, <3>2, <3>3, WritingEndsInOrder
  <2>4. CASE NewDay
    BY <2>1, <2>4 DEF NewDay
  <2>5. CASE SweepDay(d)
    <3>1. logs'[f] = <<>> \/ logs'[f] = s
      BY <2>5 DEF SweepDay
    <3>2. EndsInOrder(<<>>)
      BY DEF EndsInOrder
    <3> QED
      BY <2>1, <3>1, <3>2
  <2> QED
    BY <2>2, <2>3, <2>4, <2>5
<1> QED
  BY <1>2, <1>3, <1>4 DEF DayBounds

\* What a job reads of a file is counted in numbers.
LEMMA ReadingCounts ==
    ASSUME NEW j \in DayJobs, NEW s \in Seq(LogLine)
    PROVE  ReadBy(j, s) \in Tallies
<1>1. Entries(s) \in Nat /\ Lost(s) \in Nat /\ Len(s) \in Nat /\ Entries(s) <= Len(s)
  BY LinesCount
<1>2. Len(s) - Entries(s) \in Nat
  BY <1>1
<1>3. Audited(s) \in Tallies
  BY <1>1, <1>2 DEF Audited, Tallies
<1>4. Counted(s) \in Tallies
  BY <1>1 DEF Counted, Uncounted, Tallies
<1> QED
  BY <1>3, <1>4 DEF ReadBy

\* The tallies of the jobs stay numbers when job j moves on to tally new.
LEMMA TalliesStay ==
    ASSUME DayInv, DayBounds, NEW j \in DayJobs, NEW new, tally' = [tally EXCEPT ![j] = new],
           \A f \in DOMAIN new : new[f] \in Tallies
    PROVE  \A k \in DayJobs : \A f \in DOMAIN tally'[k] : tally'[k][f] \in Tallies
<1>1. DOMAIN tally = DayJobs
  BY DEF DayInv, DayIsTyped
<1>2. tally'[j] = new /\ \A k \in DayJobs \ {j} : tally'[k] = tally[k]
  BY <1>1
<1> QED
  BY <1>2 DEF DayBounds

\* The jobs keep the types.
LEMMA JobsKeepBounds ==
    ASSUME DayInv, DayInv', DayBounds, NEW j \in DayJobs,
           \/ BeginJob(j) \/ ReadFile(j) \/ ForgetJob(j)
           \/ \E w \in BOOLEAN : WriteJson(j, w) \/ WriteHtml(j, w)
    PROVE  DayBounds'
<1>1. swept' = swept /\ logs' = logs
  BY DEF BeginJob, ReadFile, ForgetJob, WriteJson, WriteHtml
<1>2. DOMAIN NoTally = {}
  BY DEF NoTally
<1>3. ASSUME tally' = [tally EXCEPT ![j] = NoTally] \/ tally' = tally
      PROVE  \A k \in DayJobs : \A f \in DOMAIN tally'[k] : tally'[k][f] \in Tallies
  <2>1. CASE tally' = tally
    BY <2>1 DEF DayBounds
  <2>2. CASE tally' = [tally EXCEPT ![j] = NoTally]
    <3> DEFINE new == NoTally
    <3>1. tally' = [tally EXCEPT ![j] = new] /\ DOMAIN new = {}
      BY <1>2, <2>2
    <3> HIDE DEF new
    <3> QED
      BY <3>1, TalliesStay
  <2> QED
    BY <1>3, <2>1, <2>2
<1>4. \A k \in DayJobs : \A f \in DOMAIN tally'[k] : tally'[k][f] \in Tallies
  <2>1. CASE ReadFile(j)
    <3> DEFINE f == CHOOSE g \in due[j] : \A h \in due[j] \ {g} : ComesBefore(j, g, h)
               skip == f[2] = "failure" /\ f[1] \in swept
               got == IF skip THEN tally[j]
                      ELSE [g \in {f} \cup DOMAIN tally[j] |-> IF g = f THEN ReadBy(j, logs[f]) ELSE tally[j][g]]
    <3>1. jobStep[j] = "read" /\ (Over(j) \/ tally' = [tally EXCEPT ![j] = got])
      BY <2>1 DEF ReadFile
    <3>2. f \in Logfiles
      <4>1. due[j] \in SUBSET Logfiles /\ due[j] # {}
        BY <3>1 DEF DayInv, DayIsTyped, CountsFairly
      <4>2. f \in due[j]
        BY <4>1, FilesAreOrdered
      <4> QED
        BY <4>1, <4>2
    <3> HIDE DEF f
    <3>3. ReadBy(j, logs[f]) \in Tallies
      <4>1. logs[f] \in Seq(LogLine)
        BY <3>2 DEF DayInv, DayIsTyped
      <4> QED
        BY <4>1, ReadingCounts
    <3>4. \A g \in DOMAIN tally[j] : tally[j][g] \in Tallies
      BY DEF DayBounds
    <3>5. \A g \in DOMAIN got : got[g] \in Tallies
      <4> HIDE DEF skip
      <4> QED
        BY <3>3, <3>4
    <3> HIDE DEF got
    <3>6. CASE Over(j)
      BY <1>3, <3>6 DEF Over
    <3>7. CASE tally' = [tally EXCEPT ![j] = got]
      BY <3>5, <3>7, TalliesStay
    <3> QED
      BY <3>1, <3>6, <3>7
  <2>2. CASE BeginJob(j)
    BY <1>3, <2>2 DEF BeginJob
  <2>3. CASE ForgetJob(j)
    BY <1>3, <2>3 DEF ForgetJob, Over
  <2>4. CASE \E w \in BOOLEAN : WriteJson(j, w) \/ WriteHtml(j, w)
    <3>1. Over(j) \/ UNCHANGED tally
      BY <2>4 DEF WriteJson, WriteHtml, Goes
    <3> QED
      BY <1>3, <3>1 DEF Over
  <2> QED
    BY <2>1, <2>2, <2>3, <2>4
<1>5. Len(papers') <= MaxPapers
  <2>1. /\ papers \in Seq(Paper) /\ papers' \in Seq(Paper) /\ Len(papers) <= MaxPapers
        /\ MaxPapers \in Nat /\ Len(papers) \in Nat
    BY DayReportsAssumption DEF DayInv, DayIsTyped, DayBounds
  <2>2. CASE papers' = papers
    BY <2>1, <2>2
  <2>3. CASE \E w \in BOOLEAN : WriteJson(j, w)
    <3>1. PICK w \in BOOLEAN : WriteJson(j, w)
      BY <2>3
    <3>2. CASE j = "index"
      BY <2>2, <3>1, <3>2 DEF WriteJson
    <3>3. CASE j # "index"
      <4> DEFINE paper == [by |-> j, json |-> w, html |-> FALSE]
      <4>1. Len(papers) < MaxPapers /\ papers' = Append(papers, paper)
        BY <3>1, <3>3 DEF WriteJson
      <4> HIDE DEF paper
      <4>2. Len(papers') = Len(papers) + 1
        BY <2>1, <4>1
      <4>3. Len(papers) + 1 <= MaxPapers
        BY <2>1, <4>1
      <4> QED
        BY <4>2, <4>3
    <3> QED
      BY <3>2, <3>3
  <2>4. CASE \E w \in BOOLEAN : WriteHtml(j, w)
    <3>1. DOMAIN papers' = DOMAIN papers
      BY <2>4 DEF WriteHtml
    <3>2. Len(papers') = Len(papers)
      BY <2>1, <3>1, SameLength, ZenonT(60)
    <3> QED
      BY <2>1, <3>2
  <2>5. CASE BeginJob(j) \/ ReadFile(j) \/ ForgetJob(j)
    BY <2>2, <2>5 DEF BeginJob, ReadFile, ForgetJob
  <2> QED
    BY <2>3, <2>4, <2>5
<1> QED
  BY <1>1, <1>4, <1>5 DEF DayBounds

\* Every step keeps the types.
LEMMA BoundsStepLemma ==
    ASSUME DayInv, DayInv', DayBounds, [DayReportsNext]_reportVars
    PROVE  DayBounds'
<1>1. "failure" \in Logs /\ "whole" \in LogLine /\ 1 \in 1 .. LastDay
  BY DayReportsAssumption DEF Logs, LogLine
<1>2. CASE \E k \in Logs, l \in LogLine : AppendEntry(k, l)
  BY <1>1, <1>2, WritersKeepBounds
<1>3. CASE (\E k \in Logs : TearEntry(k)) \/ NewDay \/ \E d \in 1 .. LastDay : SweepDay(d)
  <2>1. PICK k \in Logs, l \in LogLine, d \in 1 .. LastDay : TearEntry(k) \/ NewDay \/ SweepDay(d)
    BY <1>1, <1>3
  <2> QED
    BY <2>1, WritersKeepBounds
<1>4. CASE \E j \in DayJobs : \/ BeginJob(j) \/ ReadFile(j) \/ ForgetJob(j)
                              \/ \E w \in BOOLEAN : WriteJson(j, w) \/ WriteHtml(j, w)
  BY <1>4, JobsKeepBounds
<1>5. CASE UNCHANGED reportVars
  BY <1>5 DEF reportVars, DayBounds
<1> QED
  BY <1>2, <1>3, <1>4, <1>5 DEF DayReportsNext

\* Nothing has been written or counted.
LEMMA BoundsInitLemma == DayReportsInit => DayBounds
<1> SUFFICES ASSUME DayReportsInit PROVE DayBounds
  OBVIOUS
<1>1. EndsInOrder(<<>>)
  BY DEF EndsInOrder
<1>2. \A f \in Logfiles : EndsInOrder(logs[f])
  BY <1>1 DEF DayReportsInit
<1>3. \A j \in DayJobs : DOMAIN tally[j] = {}
  BY DEF DayReportsInit, NoTally
<1>4. Len(papers) <= MaxPapers
  <2>1. papers = <<>> /\ MaxPapers \in Nat
    BY DayReportsAssumption DEF DayReportsInit
  <2> QED
    BY <2>1
<1> QED
  BY <1>2, <1>3, <1>4 DEF DayBounds, DayReportsInit

\* With these, everything is of its type.
LEMMA DaysHaveTypes == DayInv /\ DayBounds => DayReportsTypeOK
<1> SUFFICES ASSUME DayInv, DayBounds PROVE DayReportsTypeOK
  OBVIOUS
<1>1. DayIsTyped /\ \A j \in DayJobs : CountsFairly(j)
  BY DEF DayInv
<1>2. ASSUME NEW i \in DOMAIN papers
      PROVE  papers[i].by \in {"report", "audit"} /\ {papers[i].json, papers[i].html} \subseteq BOOLEAN
  <2>1. papers[i] \in Paper
    BY <1>1 DEF DayIsTyped
  <2> QED
    BY <2>1 DEF Paper
<1>3. linked \subseteq 1 .. MaxPapers
  <2>1. papers \in Seq(Paper) /\ linked \subseteq DOMAIN papers /\ Len(papers) <= MaxPapers /\ MaxPapers \in Nat
    BY <1>1, DayReportsAssumption DEF DayIsTyped, DayBounds
  <2>2. DOMAIN papers = 1 .. Len(papers) /\ Len(papers) \in Nat
    BY <2>1
  <2>3. 1 .. Len(papers) \subseteq 1 .. MaxPapers
    BY <2>1, <2>2
  <2> QED
    BY <2>1, <2>2, <2>3
<1>4. \A f \in Logfiles : \A i \in 1 .. Len(logs[f]) - 1 : logs[f][i] # "open"
  BY DEF DayBounds, EndsInOrder
<1>5. ASSUME NEW j \in DayJobs
      PROVE  /\ due[j] \subseteq Logfiles /\ DOMAIN tally[j] \subseteq Logfiles
             /\ \A f \in DOMAIN tally[j] : tally[j][f] \in [entries : Nat, lost : Nat, bad : Nat]
  <2>1. due[j] \subseteq Logfiles
    BY <1>1 DEF DayIsTyped
  <2>2. DOMAIN tally[j] \subseteq Logfiles
    BY <1>1 DEF CountsFairly
  <2>3. \A f \in DOMAIN tally[j] : tally[j][f] \in [entries : Nat, lost : Nat, bad : Nat]
    BY DEF DayBounds, Tallies
  <2> QED
    BY <2>1, <2>2, <2>3
<1> QED
  BY <1>1, <1>2, <1>3, <1>4, <1>5 DEF DayReportsTypeOK, DayIsTyped, DayBounds

-----------------------------------------------------------------------------
\* The three readers of the days' files agree with the files, and so with one
\* another, and an index links to no page without its data, for any days and
\* lines, whoever writes, dies in a line or sweeps meanwhile (RunIndexJob,
\* ArtifactReportJob, ArtifactAuditJob).
THEOREM DaysStayTold == DayReportsSpec => [](DayReportsTypeOK /\ DayIsTold)
<1>1. DayInv => DayIsTold
  <2> SUFFICES ASSUME DayInv PROVE DayIsTold
    OBVIOUS
  <2>1. \A j \in DayJobs : CountsFairly(j)
    BY DEF DayInv
  <2>2. ReadersAgree
    BY <2>1 DEF ReadersAgree, CountsFairly, IsFair
  <2>3. "audit" \in DayJobs
    BY DEF DayJobs
  <2>4. AuditOwnsEveryLine
    BY <2>1, <2>3 DEF AuditOwnsEveryLine, CountsFairly, IsFair
  <2>5. LinkedPagesHaveData
    BY DEF DayInv, PagesFollowData, LinkedPagesHaveData
  <2> QED
    BY <2>2, <2>4, <2>5 DEF DayIsTold
<1>2. DayInv /\ DayBounds /\ [DayReportsNext]_reportVars => DayInv' /\ DayBounds'
  BY DayStepLemma, BoundsStepLemma
<1> QED
  BY <1>1, <1>2, DayInitLemma, BoundsInitLemma, DaysHaveTypes, PTL DEF DayReportsSpec
===============================================================================
