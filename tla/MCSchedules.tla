----------------------------- MODULE MCSchedules ------------------------------
(***************************************************************************)
(* The programs that run on their own, each in a lane of its own: the       *)
(* worker's due loop, the maintenance pass, the cache budget, the crawl and *)
(* the start of a process, which sets the store switches.  They share no    *)
(* state.  A behaviour stays in the lane it begins in, so the states are    *)
(* the sum of the five and every property speaks of the lane of its module; *)
(* the other modules' variables rest at an initial value.                   *)
(***************************************************************************)
EXTENDS DueLoop, MCHousekeeping, MCCacheBudget, StoreImport, StoreSwitches

VARIABLE lane

all == <<lane, dueVars, houseVars, budgetVars, importVars, switchVars>>

LaneInit ==
    /\ lane \in {"due loop", "maintenance", "budget", "crawl", "switches"}
    /\ lane = "due loop" \/ due = {}
    /\ DueInit /\ HouseInit /\ ImportInit /\ SwitchInit
    /\ \/ lane = "budget"
       \/ dryRun = TRUE /\ disk = [i \in Item |-> 0] /\ expired = 0 /\ rest = 0
    /\ BudgetInit

DueLane(A) ==
    lane = "due loop" /\ A /\ UNCHANGED <<lane, houseVars, budgetVars, importVars, switchVars>>
MaintenanceLane(A) ==
    lane = "maintenance" /\ A /\ UNCHANGED <<lane, dueVars, budgetVars, importVars, switchVars>>
BudgetLane(A) ==
    lane = "budget" /\ A /\ UNCHANGED <<lane, dueVars, houseVars, importVars, switchVars>>
CrawlLane(A) ==
    lane = "crawl" /\ A /\ UNCHANGED <<lane, dueVars, houseVars, budgetVars, switchVars>>
SwitchLane(A) ==
    lane = "switches" /\ A /\ UNCHANGED <<lane, dueVars, houseVars, budgetVars, importVars>>

\* Only the budget's pass really stops.
Stopped == pc = "done" /\ UNCHANGED budgetVars

LaneNext ==
    \/ DueLane(DueNext) \/ MaintenanceLane(HouseNext)
    \/ BudgetLane(BudgetNext \/ Stopped) \/ CrawlLane(ImportNext)
    \/ SwitchLane(SwitchNext)

\* The fairness of the four modules that state one, each in its lane.
LaneFairness ==
    /\ WF_all(DueLane(WorkerTick))
    /\ \A m \in Monitor : WF_all(DueLane(EndManualRun(m)))
    /\ \A c \in Cleaner : WF_all(MaintenanceLane(CleanerStep(c)))
    /\ WF_all(CrawlLane(ImportNext))

LaneSpec == LaneInit /\ [][LaneNext]_all /\ LaneFairness

\* The types of the five modules: no interleaving makes a state their code has
\* no name for.
SchedulesTyped ==
    DueTypeOK /\ HouseTypeOK /\ BudgetTypeOK /\ ImportTypeOK /\ SwitchTypeOK

\* What is begun comes to its end: the maintenance lock goes back although its
\* holder may die, and a crawl is over whatever its pages do.
EveryPassEnds == LockIsGivenBack /\ PassEnds
=============================================================================
