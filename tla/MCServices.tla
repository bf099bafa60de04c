------------------------------ MODULE MCServices ------------------------------
(***************************************************************************)
(* What the API and the operator's commands do for a user, each in a lane   *)
(* of its own: compare intake, the alert settings, the shadow review and    *)
(* its replay corpus, the pages an operator opens, the runtime's readiness, *)
(* the delivery of a mail and the reports on the folders of the days.  A    *)
(* behaviour stays in the lane it begins in; the other modules' variables   *)
(* rest at an initial value, so the states are the sum of the lanes'.       *)
(***************************************************************************)
EXTENDS MCCompare, AlertSettings, ShadowReview, MCCorpus,
        OperatorPages, RuntimeReadiness, Deliveries, DayReports

VARIABLE lane

all == <<lane, compareVars, settingsVars, reviewVars, corpusVars, pageVars,
         readyVars, deliveryVars, reportVars>>

LaneInit ==
    /\ lane \in {"compare", "settings", "review", "corpus", "pages",
                 "readiness", "delivery", "days"}
    /\ lane = "compare" \/ groupStores = Stores
    /\ CompareInit /\ SettingsInit /\ ReviewInit /\ CorpusInit
    /\ PageInit /\ ReadinessInit /\ DeliveryInit /\ DayReportsInit

CompareLane(A) ==
    /\ lane = "compare" /\ A
    /\ UNCHANGED <<lane, settingsVars, reviewVars, corpusVars, pageVars,
                   readyVars, deliveryVars, reportVars>>
SettingsLane(A) ==
    /\ lane = "settings" /\ A
    /\ UNCHANGED <<lane, compareVars, reviewVars, corpusVars, pageVars,
                   readyVars, deliveryVars, reportVars>>
ReviewLane(A) ==
    /\ lane = "review" /\ A
    /\ UNCHANGED <<lane, compareVars, settingsVars, corpusVars, pageVars,
                   readyVars, deliveryVars, reportVars>>
CorpusLane(A) ==
    /\ lane = "corpus" /\ A
    /\ UNCHANGED <<lane, compareVars, settingsVars, reviewVars, pageVars,
                   readyVars, deliveryVars, reportVars>>
\* Bound: two of the runs, of the task or of the group, begin in a behaviour.
TwoRunsBegin == Cardinality({r \in Runs : pagePhase[r] # "absent"}) <= 2
PageLane(A) ==
    /\ lane = "pages" /\ A /\ TwoRunsBegin'
    /\ UNCHANGED <<lane, compareVars, settingsVars, reviewVars, corpusVars,
                   readyVars, deliveryVars, reportVars>>
ReadyLane(A) ==
    /\ lane = "readiness" /\ A
    /\ UNCHANGED <<lane, compareVars, settingsVars, reviewVars, corpusVars,
                   pageVars, deliveryVars, reportVars>>
DeliveryLane(A) ==
    /\ lane = "delivery" /\ A
    /\ UNCHANGED <<lane, compareVars, settingsVars, reviewVars, corpusVars,
                   pageVars, readyVars, reportVars>>
DaysLane(A) ==
    /\ lane = "days" /\ A
    /\ UNCHANGED <<lane, compareVars, settingsVars, reviewVars, corpusVars,
                   pageVars, readyVars, deliveryVars>>

LaneNext ==
    \/ CompareLane(CompareNext) \/ SettingsLane(SettingsNext)
    \/ ReviewLane(ReviewNext) \/ CorpusLane(CorpusNext)
    \/ PageLane(PageNext) \/ ReadyLane(ReadinessNext)
    \/ DeliveryLane(DeliveryNext) \/ DaysLane(DayReportsNext)

LaneSpec == LaneInit /\ [][LaneNext]_all

\* The types of the eight modules.
ServicesTyped ==
    /\ CompareTypeOK /\ SettingsTypeOK /\ ReviewTypeOK /\ CorpusTypeOK
    /\ PageTypeOK /\ ReadinessTypeOK /\ DeliveryTypeOK /\ DayReportsTypeOK
===============================================================================
