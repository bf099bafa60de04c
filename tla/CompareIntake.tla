----------------------------- MODULE CompareIntake -----------------------------
(***************************************************************************)
(* From submitted URLs to durable watch state: compare_product_urls looks   *)
(* at one row after another while operators switch stores, the evidence     *)
(* turns the rows into a next-step hint, risk notes and a recommendation,   *)
(* and create_watch_group checks the chosen rows twice before it commits.   *)
(***************************************************************************)
EXTENDS Integers, Sequences, FiniteSets, FiniteSetsExt

CONSTANTS
    Urls,          \* URLs that may be submitted
    Stores,        \* the registered stores
    NoStore,       \* the store of a host that is not registered
    StoreOf,       \* the store of each URL's host
    GoodPaths,     \* the URLs normalize_product_url accepts
    Manifests,     \* the sets of stores whose capability says supports_watch_group
    Offers,        \* what a page may show: [title, brand, size]
    Similarity,    \* token_sort_ratio of two normalised titles, 0 .. 100
    NoHint         \* a brand or size the page does not show

ASSUME CompareAssumption ==
    /\ NoStore \notin Stores /\ Manifests \subseteq SUBSET Stores
    /\ StoreOf \in [Urls -> Stores \cup {NoStore}]
    /\ GoodPaths \subseteq {u \in Urls : StoreOf[u] # NoStore}
    /\ \A o \in Offers, p \in Offers :
        /\ Similarity[o.title, p.title] \in 0 .. 100
        /\ Similarity[o.title, p.title] = Similarity[p.title, o.title]

VARIABLES
    groupStores,  \* the manifest of this installation
    enabled,    \* the stores whose binding is enabled
    phase,      \* what the operator's request is doing
    todo,       \* the rows it has not looked at
    rows,       \* the rows of the comparison, in the order submitted
    chosen,     \* the URLs asked to be watched together
    members,    \* the members added in the open transaction
    group,      \* the members of the committed group
    switched    \* history: a store was switched since the comparison began

compareVars == <<groupStores, enabled, phase, todo, rows, chosen, members, group, switched>>

NoOffer == [title |-> NoHint, brand |-> NoHint, size |-> NoHint]
Intakes == {"unsupported_store_host", "unsupported_store_path", "store_disabled",
            "offer_fetch_failed", "supported"}
Row == [url : Urls, intake : Intakes, offer : Offers \cup {NoOffer}]

CompareTypeOK ==
    /\ enabled \subseteq Stores
    /\ phase \in {"idle", "comparing", "shown", "checking", "adding", "created", "refused"}
    /\ todo \in Seq(Urls) /\ rows \in Seq(Row)
    /\ chosen \in Seq(Urls) /\ members \in Seq(Urls) /\ group \in Seq(Urls)
    /\ switched \in BOOLEAN
    /\ groupStores \in Manifests
    /\ phase = "shown" => Len(rows) >= 2

CompareInit ==
    /\ groupStores \in Manifests
    /\ enabled = Stores
    /\ phase = "idle"
    /\ todo = <<>> /\ rows = <<>> /\ chosen = <<>> /\ members = <<>> /\ group = <<>>
    /\ switched = FALSE

-----------------------------------------------------------------------------
(* build_match_details, and the evidence built from the rows.               *)

Bonus(l, r, good, bad) == IF NoHint \in {l, r} THEN 0 ELSE IF l = r THEN good ELSE bad

Score(l, r) ==
    LET raw == Similarity[l.title, r.title] + Bonus(l.brand, r.brand, 8, -18)
                                            + Bonus(l.size, r.size, 10, -15)
    IN  Max({0, Min({raw, 100})})

Succeeded == {i \in DOMAIN rows : rows[i].intake = "supported"}

\* can_create_watch_group of the row's support contract.
GroupReady == {i \in Succeeded : StoreOf[rows[i].url] \in groupStores}

Unsupported == {i \in DOMAIN rows :
    rows[i].intake \in {"unsupported_store_host", "unsupported_store_path", "store_disabled"}}
FailedFetch == {i \in DOMAIN rows : rows[i].intake = "offer_fetch_failed"}

Pairs == {p \in Succeeded \X Succeeded : p[1] < p[2]}
ScoreOf(p) == Score(rows[p[1]].offer, rows[p[2]].offer)
High == 80

\* Mutant: the titles alone are compared.
StrongestTitle ==
    Max({0} \cup {Similarity[rows[p[1]].offer.title, rows[p[2]].offer.title] : p \in Pairs})

Strongest == Max({0} \cup {ScoreOf(p) : p \in Pairs})

Reason ==
    LET ready == Cardinality(GroupReady) IN
    CASE Succeeded = {} -> "no_successful_candidates"
      [] Cardinality(Succeeded) = 1 -> "single_resolved_candidate"
      [] Cardinality(Succeeded) > 1 /\ ready = 1 -> "single_group_capable_candidate"
      [] ready >= 2 /\ Strongest >= High -> "multi_candidate_strong_match"
      [] Cardinality(Succeeded) > 1 /\ ready = 0 -> "group_capability_gap"
      [] ready >= 2 /\ Strongest < High -> "multi_candidate_weak_match"

Abstaining ==
    {"no_successful_candidates", "single_resolved_candidate", "single_group_capable_candidate"}

Action ==
    CASE Reason = "no_successful_candidates" -> "retry_compare"
      [] Reason \in Abstaining \ {"no_successful_candidates"} -> "create_watch_task"
      [] Reason = "multi_candidate_strong_match" -> "create_watch_group"
      [] OTHER -> "review_before_save"

Verdict ==
    CASE Reason \in Abstaining -> "insufficient_evidence"
      [] Reason = "multi_candidate_strong_match" -> "wait"
      [] OTHER -> "recheck_later"

NoteIf(holds, code) == IF holds THEN {code} ELSE {}

RiskNotes ==
    NoteIf(Unsupported # {}, "unsupported_inputs_present")
      \cup NoteIf(FailedFetch # {}, "failed_fetch_candidates_present")
      \cup NoteIf(Cardinality(Succeeded) < 2, "limited_successful_candidates")
      \cup NoteIf(Pairs # {} /\ Strongest < High, "match_confidence_not_high")

\* The recommendation refers to the first three risk notes only.
NotesReferredTo == 3

-----------------------------------------------------------------------------

SwitchStore(s) ==
    /\ enabled' = IF s \in enabled THEN enabled \ {s} ELSE enabled \cup {s}
    /\ switched' = TRUE
    /\ UNCHANGED <<groupStores, phase, todo, rows, chosen, members, group>>

\* Fewer than two URLs are refused before anything is looked at.
BeginCompare ==
    /\ phase = "idle"
    /\ \E n \in 2 .. 3 : \E urls \in [1 .. n -> Urls] : todo' = urls
    /\ rows' = <<>>
    /\ phase' = "comparing"
    /\ switched' = FALSE
    /\ UNCHANGED <<groupStores, enabled, chosen, members, group>>

Resolved(u) ==
    IF StoreOf[u] = NoStore THEN "unsupported_store_host"
    ELSE IF u \notin GoodPaths THEN "unsupported_store_path"
    ELSE IF StoreOf[u] \notin enabled THEN "store_disabled" ELSE "supported"

CompareRow ==
    /\ phase = "comparing" /\ todo # <<>>
    /\ LET u == Head(todo) IN
        \/ /\ Resolved(u) # "supported"
           /\ rows' = Append(rows, [url |-> u, intake |-> Resolved(u), offer |-> NoOffer])
        \/ /\ Resolved(u) = "supported"
           /\ \/ rows' = Append(rows, [url |-> u, intake |-> "offer_fetch_failed",
                                       offer |-> NoOffer])
              \/ \E o \in Offers :
                    rows' = Append(rows, [url |-> u, intake |-> "supported", offer |-> o])
    /\ todo' = Tail(todo)
    /\ UNCHANGED <<groupStores, enabled, phase, chosen, members, group, switched>>

\* An adapter that raises ends the request; nothing is shown.
FailCompare ==
    /\ phase = "comparing" /\ todo # <<>> /\ Resolved(Head(todo)) = "supported"
    /\ phase' = "idle" /\ rows' = <<>> /\ todo' = <<>>
    /\ UNCHANGED <<groupStores, enabled, chosen, members, group, switched>>

ShowEvidence ==
    /\ phase = "comparing" /\ todo = <<>>
    /\ phase' = "shown"
    /\ UNCHANGED <<groupStores, enabled, todo, rows, chosen, members, group, switched>>

RowUrls(set) == {rows[i].url : i \in set}

\* The operator asks for a group of any two rows, or of all that are ready.
AskForGroup ==
    /\ phase = "shown"
    /\ \E i \in DOMAIN rows, j \in DOMAIN rows :
        i < j /\ chosen' = <<rows[i].url, rows[j].url>>
    /\ todo' = chosen' /\ members' = <<>>
    /\ phase' = "checking"
    /\ UNCHANGED <<groupStores, enabled, rows, group, switched>>

Groupable(u) == u \in GoodPaths /\ StoreOf[u] \in groupStores \cap enabled

\* _resolve_or_create_watch_target looks at the switch once more.
Watchable(u) == u \in GoodPaths /\ StoreOf[u] \in enabled

CheckCandidate ==
    /\ phase = "checking" /\ todo # <<>>
    /\ Groupable(Head(todo))
    /\ todo' = Tail(todo)
    /\ UNCHANGED <<groupStores, enabled, phase, rows, chosen, members, group, switched>>

InsertGroup ==
    /\ phase = "checking" /\ todo = <<>>
    /\ phase' = "adding" /\ todo' = chosen
    /\ UNCHANGED <<groupStores, enabled, rows, chosen, members, group, switched>>

AddMember ==
    /\ phase = "adding" /\ todo # <<>>
    /\ Watchable(Head(todo))
    /\ members' = Append(members, Head(todo)) /\ todo' = Tail(todo)
    /\ UNCHANGED <<groupStores, enabled, phase, rows, chosen, group, switched>>

\* Mutant: what has been added is kept.
RefuseAndKeep ==
    /\ phase \in {"checking", "adding"} /\ todo # <<>>
    /\ ~(IF phase = "checking" THEN Groupable(Head(todo)) ELSE Watchable(Head(todo)))
    /\ phase' = "refused" /\ group' = members
    /\ UNCHANGED <<groupStores, enabled, todo, rows, chosen, members, switched>>

\* A refused candidate raises, and get_db_session rolls everything back.
Refuse ==
    /\ phase \in {"checking", "adding"} /\ todo # <<>>
    /\ ~(IF phase = "checking" THEN Groupable(Head(todo)) ELSE Watchable(Head(todo)))
    /\ phase' = "refused" /\ members' = <<>>
    /\ UNCHANGED <<groupStores, enabled, todo, rows, chosen, group, switched>>

CommitGroup ==
    /\ phase = "adding" /\ todo = <<>>
    /\ phase' = "created" /\ group' = members
    /\ UNCHANGED <<groupStores, enabled, todo, rows, chosen, members, switched>>

CompareNext ==
    \/ \E s \in Stores : SwitchStore(s)
    \/ BeginCompare \/ CompareRow \/ FailCompare \/ ShowEvidence
    \/ AskForGroup \/ CheckCandidate \/ InsertGroup \/ AddMember \/ Refuse \/ CommitGroup

CompareSpec == CompareInit /\ [][CompareNext]_compareVars

-----------------------------------------------------------------------------

Shown == phase \notin {"idle", "comparing"}

\* Every basket of rows falls under one reason, and the hint, the risk notes
\* and the recommendation, built by different functions from it, agree: to
\* wait for a group is recommended only of two ready rows, without a warning
\* about their match, and to retry never without one about their number.
EvidenceAgrees == Shown =>
    /\ Verdict = "wait" =>
        /\ Cardinality(GroupReady) >= 2
        /\ RiskNotes \subseteq {"unsupported_inputs_present", "failed_fetch_candidates_present"}
    /\ Action = "retry_compare" => "limited_successful_candidates" \in RiskNotes

\* The recommendation refers to no more than three risk notes and yet never
\* leaves one out.
NoRiskIsDropped == Shown => Cardinality(RiskNotes) <= NotesReferredTo

\* As long as every store supports groups, the match a recommended group rests
\* on is one between two of its rows.
AllStoresGroup == groupStores = Stores
GroupHintHasPair == Shown /\ AllStoresGroup /\ Action = "create_watch_group" =>
    \E p \in GroupReady \X GroupReady : p[1] # p[2] /\ ScoreOf(p) >= High

\* Rows the evidence calls ready for a group are refused by
\* create_watch_group only if a store was switched in between.
ReadyRowsAreAccepted ==
    phase = "refused" /\ (\A k \in DOMAIN chosen : chosen[k] \in RowUrls(GroupReady)) => switched

\* A group is committed whole or not at all, whatever is switched while its
\* candidates are checked and added, and never of a store that has no groups.
GroupIsWhole ==
    /\ group # <<>> => group = chosen /\ phase = "created"
    /\ \A k \in DOMAIN group : StoreOf[group[k]] \in groupStores

\* The hint, the risk notes and the recommendation of a comparison agree.
EvidenceIsSound == EvidenceAgrees /\ NoRiskIsDropped /\ GroupHintHasPair

\* What the comparison promised the intake keeps, whole or not at all.
IntakeIsSafe == ReadyRowsAreAccepted /\ GroupIsWhole
=================================================================================
