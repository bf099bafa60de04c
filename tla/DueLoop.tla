------------------------------- MODULE DueLoop -------------------------------
(***************************************************************************)
(* The worker's tick: process_due_tasks, then process_due_watch_groups,    *)
(* over every monitor of the database.  Each lists the due monitors once   *)
(* and runs them one by one; nothing catches a ValueError, so a monitor    *)
(* that refuses to run ends the whole tick.  A run itself is one step here *)
(* to begin and one to end: TaskRuns and GroupRuns have the inside of it.  *)
(***************************************************************************)
EXTENDS Integers

CONSTANTS DueTask, Group,
          NoRunner,           \* no monitor
          Disruptions       \* bound on pauses, API runs and worker deaths

ASSUME DueLoopAssumption ==
  /\ DueTask \cap Group = {}
  /\ NoRunner \notin DueTask \cup Group
  /\ Disruptions \in Nat

Monitor == DueTask \cup Group

VARIABLES
  due,      \* the monitors whose next run and backoff have passed
  paused,   \* the monitors an operator has paused
  state,    \* "free", "busy" (a live run), "wedged" (RUNNING for ever)
  phase,    \* where the worker's tick is
  todo,     \* what is left of the list it read
  current,  \* the monitor the worker runs
  left      \* disruptions that may still come

dueVars == <<due, paused, state, phase, todo, current, left>>

DueTypeOK ==
  /\ due \subseteq Monitor
  /\ paused \subseteq Monitor
  /\ state \in [Monitor -> {"free", "busy", "wedged"}]
  /\ phase \in {"asleep", "tasks", "groups"}
  /\ todo \subseteq (IF phase = "groups" THEN Group
                     ELSE IF phase = "tasks" THEN DueTask ELSE {})
  /\ current \in Monitor \cup {NoRunner}
  /\ left \in 0 .. Disruptions

DueInit ==
  /\ due \in SUBSET Monitor
  /\ paused = {}
  /\ state = [m \in Monitor |-> "free"]
  /\ phase = "asleep"
  /\ todo = {}
  /\ current = NoRunner
  /\ left = Disruptions

Listed(kind) == (due \ paused) \cap kind

-----------------------------------------------------------------------------
(* The tick.                                                               *)

ListTasks ==
  /\ phase = "asleep"
  /\ phase' = "tasks"
  /\ todo' = Listed(DueTask)
  /\ UNCHANGED <<due, paused, state, current, left>>

ListGroups ==
  /\ phase = "tasks" /\ todo = {} /\ current = NoRunner
  /\ phase' = "groups"
  /\ todo' = Listed(Group)
  /\ UNCHANGED <<due, paused, state, current, left>>

EndTick ==
  /\ phase = "groups" /\ todo = {} /\ current = NoRunner
  /\ phase' = "asleep"
  /\ UNCHANGED <<due, paused, state, todo, current, left>>

Runnable(m) == m \notin paused /\ state[m] = "free"

\* The list has no ORDER BY: any monitor may come next.
BeginRun(m) ==
  /\ m \in todo /\ current = NoRunner
  /\ Runnable(m)
  /\ todo' = todo \ {m}
  /\ state' = [state EXCEPT ![m] = "busy"]
  /\ current' = m
  /\ UNCHANGED <<due, paused, phase, left>>

Abort == phase' = "asleep" /\ todo' = {}

\* Paused since it was listed, or already running: ValueError.
Refuse(m) ==
  /\ m \in todo /\ current = NoRunner
  /\ ~Runnable(m)
  /\ Abort
  /\ UNCHANGED <<due, paused, state, current, left>>

\* A bug: an outcome that leaves next_run_at alone.
EndRunStillDue ==
  /\ current # NoRunner
  /\ state' = [state EXCEPT ![current] = "free"]
  /\ current' = NoRunner
  /\ UNCHANGED <<due, paused, phase, todo, left>>

\* Succeeded, failed or blocked: each moves the next run away.
EndRun ==
  /\ current # NoRunner
  /\ state' = [state EXCEPT ![current] = "free"]
  /\ due' = due \ {current}
  /\ current' = NoRunner
  /\ UNCHANGED <<paused, phase, todo, left>>

\* A task raises a ValueError after its RUNNING row was committed.
RaiseAgain ==
  /\ current \in DueTask
  /\ state' = [state EXCEPT ![current] = "wedged"]
  /\ current' = NoRunner
  /\ Abort
  /\ UNCHANGED <<due, paused, left>>

-----------------------------------------------------------------------------
(* Around the tick.                                                        *)

BecomeDue(m) ==
  /\ m \notin due
  /\ due' = due \cup {m}
  /\ UNCHANGED <<paused, state, phase, todo, current, left>>

Disrupt == left > 0 /\ left' = left - 1

\* The process dies and is started again.
WorkerDies ==
  /\ phase # "asleep"
  /\ Disrupt
  /\ state' = IF current = NoRunner THEN state
              ELSE [state EXCEPT ![current] = "wedged"]
  /\ current' = NoRunner
  /\ Abort
  /\ UNCHANGED <<due, paused>>

Pause(m) ==
  /\ m \notin paused
  /\ Disrupt
  /\ paused' = paused \cup {m}
  /\ UNCHANGED <<due, state, phase, todo, current>>

ResumeMonitor(m) ==
  /\ m \in paused
  /\ paused' = paused \ {m}
  /\ UNCHANGED <<due, state, phase, todo, current, left>>

\* The run-now endpoint, in another process.
BeginManualRun(m) ==
  /\ Runnable(m)
  /\ Disrupt
  /\ state' = [state EXCEPT ![m] = "busy"]
  /\ UNCHANGED <<due, paused, phase, todo, current>>

EndManualRun(m) ==
  /\ state[m] = "busy" /\ current # m
  /\ state' = [state EXCEPT ![m] = "free"]
  /\ due' = due \ {m}
  /\ UNCHANGED <<paused, phase, todo, current, left>>

-----------------------------------------------------------------------------

WorkerTick ==
  \/ ListTasks \/ ListGroups \/ EndTick \/ EndRun \/ RaiseAgain
  \/ \E m \in Monitor : BeginRun(m) \/ Refuse(m)

DueNext ==
  \/ WorkerTick
  \/ WorkerDies
  \/ \E m \in Monitor :
       \/ BecomeDue(m)      \/ Pause(m) \/ ResumeMonitor(m)
       \/ BeginManualRun(m) \/ EndManualRun(m)

DueSpec == DueInit /\ [][DueNext]_dueVars

\* The interval trigger fires again and again, and a run that has begun
\* ends; nothing makes an operator act.
DueFairness ==
  /\ WF_dueVars(WorkerTick)
  /\ \A m \in Monitor : WF_dueVars(EndManualRun(m))

DueFairSpec == DueSpec /\ DueFairness

-----------------------------------------------------------------------------
(* Properties.                                                             *)

Waits(m)  == m \in due \ paused
Wedged(S) == \E m \in S : state[m] = "wedged"

\* A due task is run, or leaves the schedule, unless some task is wedged:
\* refusals of other monitors and the deaths of the worker only delay it,
\* and groups cannot starve it because a tick runs them after the tasks.
TasksWaitOnlyForTasks ==
  \A t \in DueTask : Waits(t) ~> ~Waits(t) \/ Wedged(DueTask)

\* A due group is run, or leaves the schedule, unless some monitor is
\* wedged.
GroupsWaitOnlyForWedges ==
  \A g \in Group : Waits(g) ~> ~Waits(g) \/ Wedged(Monitor)

\* A refusal costs a monitor its turn, never its place in the schedule:
\* only a run that has ended takes a monitor off the list of due ones.
DueUntilRun ==
  [][\A m \in Monitor : m \in due /\ m \notin due' =>
       state[m] = "busy" /\ state'[m] = "free"]_dueVars

\* A due monitor gets its turn although refusals end ticks and the worker dies,
\* unless a wedged run of its kind stands in the way.
DueMonitorsRun ==
  TasksWaitOnlyForTasks /\ GroupsWaitOnlyForWedges /\ DueUntilRun
=============================================================================
