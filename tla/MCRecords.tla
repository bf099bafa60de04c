------------------------------ MODULE MCRecords -------------------------------
(***************************************************************************)
(* What the product writes down and what is later read from it, each in a   *)
(* lane of its own: the legacy price history and its schema, the folder of  *)
(* a run and the report on many runs, the replay of the failures, the       *)
(* decision and the alert of a group, the reading of a page and the         *)
(* narrative.  A behaviour stays in the lane it begins in; the other        *)
(* modules' variables rest at an initial value, so the states are the sum   *)
(* of the lanes'.                                                           *)
(***************************************************************************)
EXTENDS PriceHistory, SchemaUpgrade, RunFolder, FailureReplay, RunTrends,
        MCGroupDecision, PageReading, AiNarrative

VARIABLE lane

all == <<lane, priceVars, schemaVars, folderVars, replayVars, trendVars,
         vars, readVars, aiVars>>

LaneInit ==
    /\ lane \in {"prices", "schema", "folder", "replay", "trends",
                 "decision", "page", "narrative"}
    /\ lane = "prices" \/ (fallback = FALSE /\ legacyRows = {})
    /\ lane = "schema" \/ (storesOf = [p \in Products |-> 1] /\ columns = {} /\ version = 0)
    /\ lane = "replay" \/ lines = <<>>
    /\ lane = "decision" \/ threshold = "unknown"
    /\ lane = "page" \/ (page = CHOOSE p \in TargetPages : TRUE)
    /\ lane = "narrative" \/ (setup = CHOOSE s \in Setups : TRUE)
    /\ PriceInit /\ SchemaInit /\ FolderInit /\ ReplayInit
    /\ TrendsInit /\ Init /\ ReadInit /\ AiInit

PriceLane(A) ==
    /\ lane = "prices" /\ A
    /\ UNCHANGED <<lane, schemaVars, folderVars, replayVars, trendVars, vars,
                   readVars, aiVars>>
SchemaLane(A) ==
    /\ lane = "schema" /\ A
    /\ UNCHANGED <<lane, priceVars, folderVars, replayVars, trendVars, vars,
                   readVars, aiVars>>
FolderLane(A) ==
    /\ lane = "folder" /\ A
    /\ UNCHANGED <<lane, priceVars, schemaVars, replayVars, trendVars, vars,
                   readVars, aiVars>>
ReplayLane(A) ==
    /\ lane = "replay" /\ A
    /\ UNCHANGED <<lane, priceVars, schemaVars, folderVars, trendVars, vars,
                   readVars, aiVars>>
TrendsLane(A) ==
    /\ lane = "trends" /\ A
    /\ UNCHANGED <<lane, priceVars, schemaVars, folderVars, replayVars, vars,
                   readVars, aiVars>>
DecisionLane(A) ==
    /\ lane = "decision" /\ A
    /\ UNCHANGED <<lane, priceVars, schemaVars, folderVars, replayVars,
                   trendVars, readVars, aiVars>>
ReadLane(A) ==
    /\ lane = "page" /\ A
    /\ UNCHANGED <<lane, priceVars, schemaVars, folderVars, replayVars,
                   trendVars, vars, aiVars>>
AiLane(A) ==
    /\ lane = "narrative" /\ A
    /\ UNCHANGED <<lane, priceVars, schemaVars, folderVars, replayVars,
                   trendVars, vars, readVars>>

LaneNext ==
    \/ PriceLane(PriceNext) \/ SchemaLane(SchemaNext)
    \/ FolderLane(FolderNext) \/ ReplayLane(ReplayNext)
    \/ TrendsLane(TrendsNext) \/ DecisionLane(Next)
    \/ ReadLane(ReadNext) \/ AiLane(AiNext)

LaneSpec == LaneInit /\ [][LaneNext]_all

\* The types of the eight modules.
RecordsTyped ==
    /\ PriceTypeOK /\ SchemaTypeOK /\ FolderTypeOK /\ ReplayTypeOK
    /\ TrendsTypeOK /\ TypeOK /\ ReadTypeOK /\ AiTypeOK
===============================================================================
