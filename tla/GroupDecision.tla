---------------------------- MODULE GroupDecision ----------------------------
(***************************************************************************)
(* What the runs of one watch group decide, and what the group's page says *)
(* of the decision: the winner among the fetched candidates, the reason,   *)
(* the threshold, and build_watch_group_decision_explain.  GroupRuns shows *)
(* that the runs of a group follow one another, so a run is one step here. *)
(***************************************************************************)
EXTENDS MonitorRow, FiniteSets, Sequences

CONSTANTS Member,       \* the active members
          Order,        \* the members, latest created first
          StoreOf,      \* the rank of a member's store_key
          Price,        \* prices a fetch may find
          Cashback,     \* cashback amounts a provider may quote
          ThresholdTypes, ThresholdValue,
          CloseSpread,  \* a spread the page calls close: 0.5
          Runs,         \* bound on the number of runs
          NoMember

ASSUME DecisionAssumption ==
  /\ IsFiniteSet(Member) /\ NoMember \notin Member
  /\ Order \in [1 .. Cardinality(Member) -> Member]
  /\ \A m \in Member : \E i \in DOMAIN Order : Order[i] = m
  /\ StoreOf \in [Member -> Nat]
  /\ Price \subseteq Nat /\ Cashback \subseteq Nat
  /\ ThresholdValue \in Nat /\ CloseSpread \in Nat /\ Runs \in Nat
  /\ ThresholdTypes \subseteq {"price_below", "effective_price_below",
                               "price_drop_percent", "unknown"}

VARIABLES
  row,        \* the watch_groups row
  threshold,  \* its threshold_type
  latest,     \* the latest watch_group_runs row
  mail,       \* the delivery of the latest run
  known,      \* history: the last decision before the latest run
  left        \* runs that may still come

vars == <<row, threshold, latest, mail, known, left>>

NoPrice == -1
Result ==
  [status: {"succeeded"}, listed: Price, cashback: Cashback]
    \cup [status: {"failed", "blocked"}, listed: {NoPrice}, cashback: {0}]

Reason == {"none", "winner_changed_to_lower_effective_price",
           "single_successful_candidate", "lowest_effective_price",
           "lowest_effective_price_with_cashback"}

NoResults == [m \in Member |-> [status |-> "failed", listed |-> NoPrice,
                                cashback |-> 0]]

NoRun == [status |-> "absent", results |-> NoResults, winner |-> NoMember,
          price |-> NoPrice, runnerUp |-> NoMember, spread |-> NoPrice,
          reason |-> "none"]

NoDecision == [winner |-> NoMember, price |-> NoPrice]

TypeOK ==
  /\ row \in Row
  /\ threshold \in ThresholdTypes
  /\ latest.status \in {"absent", "succeeded", "failed", "blocked"}
  /\ latest.results \in [Member -> Result]
  /\ {latest.winner, latest.runnerUp} \subseteq Member \cup {NoMember}
  /\ {latest.price, latest.spread} \subseteq Nat \cup {NoPrice}
  /\ latest.reason \in Reason
  /\ mail \in {"none", "sent", "failed"}
  /\ known.winner \in Member \cup {NoMember}
  /\ left \in 0 .. Runs

Init ==
  /\ row = FreshRow
  /\ threshold \in ThresholdTypes
  /\ latest = NoRun
  /\ mail = "none"
  /\ known = NoDecision
  /\ left = Runs

-----------------------------------------------------------------------------
(* The decision.                                                           *)

Effective(r) == Greater(r.listed - r.cashback, 0)

Succeeded(results) == {m \in Member : results[m].status = "succeeded"}

\* The key of the sort: effective price, listed price, store.
Cheaper(results, a, b) ==
  LET p == Effective(results[a])
      q == Effective(results[b])
  IN  \/ p < q
      \/ p = q /\ results[a].listed < results[b].listed
      \/ p = q /\ results[a].listed = results[b].listed
               /\ StoreOf[a] < StoreOf[b]

Place == [m \in Member |-> CHOOSE i \in DOMAIN Order : Order[i] = m]

\* list.sort is stable, and the list is in the order of the members.
Before(results, a, b) ==
  IF Place[a] < Place[b] THEN ~Cheaper(results, b, a)
                         ELSE Cheaper(results, a, b)

Ranking(results) ==
  LET all == Succeeded(results)
  IN  CHOOSE s \in [1 .. Cardinality(all) -> all] :
        \A i, j \in DOMAIN s :
          i < j => s[i] # s[j] /\ Before(results, s[i], s[j])

\* previous is the latest run so far, whatever became of it.
DecisionReason(previous, winner, alone, cashback) ==
  IF previous.winner \notin {NoMember, winner}
    THEN "winner_changed_to_lower_effective_price"
  ELSE IF alone        THEN "single_successful_candidate"
  ELSE IF cashback > 0 THEN "lowest_effective_price_with_cashback"
  ELSE "lowest_effective_price"

DropReached(previous, result) ==
  /\ previous.price > 0
  /\ (previous.price - Effective(result)) * 100
       >= ThresholdValue * previous.price

ShouldNotify(previous, result) ==
  CASE threshold = "price_below" -> result.listed <= ThresholdValue
    [] threshold = "effective_price_below" ->
         Effective(result) <= ThresholdValue
    [] threshold = "price_drop_percent" -> DropReached(previous, result)
    [] OTHER -> FALSE

Spread(won, lost) == Effective(lost) - Effective(won)

Decided(previous, results) ==
  LET ranking == Ranking(results)
      winner  == ranking[1]
      alone   == Cardinality(Succeeded(results)) = 1
      price   == Effective(results[winner])
  IN  [status   |-> IF threshold = "unknown" THEN "failed" ELSE "succeeded",
       results  |-> results,
       winner   |-> winner,
       price    |-> price,
       runnerUp |-> IF alone THEN NoMember ELSE ranking[2],
       spread   |-> IF alone THEN NoPrice
                    ELSE Spread(results[winner], results[ranking[2]]),
       reason   |-> DecisionReason(previous, winner, alone,
                      results[winner].listed - price)]

NoSuccess(results) ==
  [NoRun EXCEPT
     !.status  = IF \E m \in Member : results[m].status = "blocked"
                   THEN "blocked" ELSE "failed",
     !.results = results]

\* The health columns after the run.
Verdict(run) ==
  IF run.winner = NoMember
    THEN ApplyFailure(row, IF run.status = "blocked" THEN "blocked"
                                                     ELSE "fetch_failed")
  ELSE IF run.status = "failed"
    THEN ApplyFailure(ApplySuccess(row), "unexpected_runtime_error")
  ELSE ApplySuccess(row)

-----------------------------------------------------------------------------
(* The steps.                                                              *)

\* A run.  An alert that the threshold asks for may fall in the cooldown,
\* may be sent, or may fail.
RunGroup ==
  /\ left > 0
  /\ row.status # "paused"
  /\ \E results \in [Member -> Result] :
       LET run == IF Succeeded(results) = {} THEN NoSuccess(results)
                                             ELSE Decided(latest, results)
           healed == Verdict(run)
       IN  /\ latest' = run
           /\ \/ mail' = "none" /\ row' = healed
              \/ /\ run.status = "succeeded"
                 /\ ShouldNotify(latest, results[run.winner])
                 /\ \/ mail' = "sent" /\ row' = healed
                    \/ mail' = "failed" /\ row' = ApplyDeliveryFailure(healed)
  /\ known' = IF latest.winner = NoMember THEN known
              ELSE [winner |-> latest.winner, price |-> latest.price]
  /\ left' = left - 1
  /\ UNCHANGED threshold

UpdateGroup ==
  /\ \E status \in EditStatus, type \in ThresholdTypes :
       /\ row' = ApplyPatch(row, status)
       /\ threshold' = type
  /\ UNCHANGED <<latest, mail, known, left>>

Next == RunGroup \/ UpdateGroup

Spec == Init /\ [][Next]_vars

-----------------------------------------------------------------------------
(* What the group's page says.                                             *)

With(status) == {m \in Member : latest.results[m].status = status}

MemberOutcome(m) ==
  IF m = latest.winner             THEN "winner"
  ELSE IF m = latest.runnerUp      THEN "runner_up"
  ELSE IF m \in With("succeeded") THEN "considered"
  ELSE latest.results[m].status

\* A bug: the health of the group is not looked at.
ReliabilityOfResults ==
  IF latest.status # "succeeded" \/ row.mir THEN "weak"
  ELSE IF \/ With("blocked") \cup With("failed") # {}
          \/ Cardinality(With("succeeded")) < 2 THEN "caution"
  ELSE "strong"

Reliability ==
  IF latest.status # "succeeded" \/ row.mir THEN "weak"
  ELSE IF \/ With("blocked") \cup With("failed") # {}
          \/ Cardinality(With("succeeded")) < 2
          \/ row.health # "healthy" THEN "caution"
  ELSE "strong"

Headline ==
  IF latest.status = "absent"          THEN "no_decision_yet"
  ELSE IF latest.winner = NoMember     THEN "no_winner"
  ELSE IF latest.runnerUp = NoMember   THEN "only_candidate"
  ELSE "leads"

RiskNotes ==
  {note \in {"no_latest_run", "latest_run_not_successful",
             "limited_successful_candidates", "blocked_candidates_present",
             "failed_candidates_present", "close_price_spread",
             "operator_attention_required"} :
     IF latest.status = "absent" THEN note = "no_latest_run"
     ELSE CASE note = "no_latest_run" -> FALSE
            [] note = "latest_run_not_successful" ->
                 latest.status # "succeeded"
            [] note = "limited_successful_candidates" ->
                 Cardinality(With("succeeded")) < 2
            [] note = "blocked_candidates_present" -> With("blocked") # {}
            [] note = "failed_candidates_present"  -> With("failed") # {}
            [] note = "close_price_spread" ->
                 latest.spread \in 0 .. CloseSpread
            [] OTHER -> row.mir}

\* Why the runner-up lost, by the first field that differs.
LossReason ==
  LET won  == latest.results[latest.winner]
      lost == latest.results[latest.runnerUp]
  IN  IF Effective(lost) > Effective(won) THEN "effective_price"
      ELSE IF lost.listed > won.listed    THEN "listed_price"
      ELSE "store_key"

-----------------------------------------------------------------------------
(* Properties.                                                             *)

\* The winner is a candidate no other candidate undercuts, by effective
\* price, then listed price, then store; the runner-up is such a candidate
\* among the others.  (pick_watch_group_winner, against a definition that
\* does not sort.)
WinnerIsBest ==
  LET Best(m, among) ==
        \A o \in among :
          LET r == latest.results[m]
              q == latest.results[o]
          IN  \/ Effective(r) < Effective(q)
              \/ /\ Effective(r) = Effective(q)
                 /\ \/ r.listed < q.listed
                    \/ r.listed = q.listed /\ StoreOf[m] <= StoreOf[o]
  IN  latest.winner # NoMember =>
        /\ Best(latest.winner, Succeeded(latest.results))
        /\ latest.runnerUp # NoMember =>
             Best(latest.runnerUp,
                  Succeeded(latest.results) \ {latest.winner})

\* The parts of the explanation agree with one another: the headline, the
\* outcomes of the members, the spread and the reason of the loss, although
\* some come from the run and some from its results.
ExplanationAgrees ==
  /\ Headline = "leads" =>
       /\ latest.spread >= 0
       /\ \E m \in Member : MemberOutcome(m) = "runner_up"
       /\ LossReason = "effective_price" <=> latest.spread > 0
       /\ LossReason = "store_key" =>
            StoreOf[latest.winner] <= StoreOf[latest.runnerUp]
  /\ Headline = "only_candidate" <=>
       Cardinality(With("succeeded")) = 1
  /\ \A m \in Member :
       MemberOutcome(m) = "considered" =>
         ~Cheaper(latest.results, m, latest.runnerUp)

\* A decision called strong rests on a price of every member, found by a run
\* after which nothing has gone wrong: no failed mail, no note of a risk
\* other than a close race.
StrongIsEarned ==
  Reliability = "strong" =>
    /\ Succeeded(latest.results) = Member
    /\ mail # "failed"
    /\ RiskNotes \subseteq {"close_price_spread"}

\* With the threshold price_drop_percent, a mail is sent only if the price of
\* the winner fell below that of the last winner anyone saw, however many
\* runs failed since.  A threshold of zero, which the compare page admits, asks
\* for a mail about a price that has not risen.
DropAlertsAreFalls ==
  [][left' < left /\ mail' # "none" /\ threshold = "price_drop_percent" =>
       /\ latest'.price <= known'.price
       /\ ThresholdValue > 0 => latest'.price < known'.price]_vars

\* "A different candidate won because it now has the lower effective price."
\* Whenever the page says so, the former winner has a price in this run, and
\* it is higher.
ChangedMeansCheaper ==
  latest.reason = "winner_changed_to_lower_effective_price" =>
    /\ known.winner \in Succeeded(latest.results)
    /\ Effective(latest.results[known.winner]) > latest.price

\* What a group decides, says on its page and mails is borne out by the results
\* of its runs, ties, failed runs and unknown thresholds included.
DecisionIsSound ==
  [](WinnerIsBest /\ ExplanationAgrees /\ StrongIsEarned) /\ DropAlertsAreFalls
=============================================================================
