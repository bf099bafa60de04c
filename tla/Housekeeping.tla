---------------------------- MODULE Housekeeping ----------------------------
(***************************************************************************)
(* Retention of the evidence of watch-task runs, against the runs that     *)
(* write it.  A maintenance pass (the worker's cron job, or the CLI) takes *)
(* an advisory lock and removes the directories of old runs, then those of *)
(* tasks that became empty; a run makes its directory when it starts and   *)
(* writes its summary there when it ends.                                  *)
(*                                                                         *)
(* Reports, logs and dated directories are removed by the same rule as a   *)
(* run's directory, one file at a time, and are not repeated here.         *)
(***************************************************************************)
EXTENDS FiniteSets

CONSTANTS Cleaner,      \* processes that run maintenance
          Run,          \* run ids
          OldRun,       \* the runs that ended more than RUNS_KEEP_DAYS ago
          Task,
          TaskOf,       \* the task of a run
          NoCleaner

ASSUME HousekeepingAssumption ==
  /\ OldRun \subseteq Run
  /\ TaskOf \in [Run -> Task]
  /\ NoCleaner \notin Cleaner \cup Task

VARIABLES
  cleanLock,         \* the process that holds the flock
  taskDirs,     \* the tasks that have a directory
  runDirs,      \* the runs that have a directory
  summaries,    \* the runs whose directory has a task_run_summary.json
  runPc,        \* where each run is
  pass          \* where each cleaner is

houseVars == <<cleanLock, taskDirs, runDirs, summaries, runPc, pass>>

\* todo: the task directories listed and not yet visited; task: the one
\* visited; candidates: its old runs not yet removed; any: it had some;
\* seen: history, its fresh runs when it was visited.
Pass ==
  [pc: {"idle", "scan", "prune", "rmdir"}, todo: SUBSET Task,
   task: Task \cup {NoCleaner}, candidates: SUBSET Run, any: BOOLEAN,
   seen: SUBSET Run]

NoPass == [pc |-> "idle", todo |-> {}, task |-> NoCleaner, candidates |-> {},
           any |-> FALSE, seen |-> {}]

HouseTypeOK ==
  /\ cleanLock \in Cleaner \cup {NoCleaner}
  /\ taskDirs \subseteq Task
  /\ runDirs \subseteq Run /\ summaries \subseteq runDirs
  /\ runPc \in [Run -> {"absent", "running", "done"}]
  /\ pass \in [Cleaner -> Pass]
  /\ \A r \in runDirs : TaskOf[r] \in taskDirs

HouseInit ==
  /\ cleanLock = NoCleaner
  /\ taskDirs = {TaskOf[r] : r \in OldRun}
  /\ runDirs = OldRun
  /\ summaries = OldRun
  /\ runPc = [r \in Run |-> IF r \in OldRun THEN "done" ELSE "absent"]
  /\ pass = [c \in Cleaner |-> NoPass]

PassIs(c, p) == pass' = [pass EXCEPT ![c] = p]

DirsOf(t) == {r \in runDirs : TaskOf[r] = t}

-----------------------------------------------------------------------------
(* A maintenance pass.                                                     *)

\* flock(LOCK_EX | LOCK_NB)
Acquire(c) ==
  /\ pass[c].pc = "idle"
  /\ cleanLock = NoCleaner
  /\ cleanLock' = c
  /\ PassIs(c, [NoPass EXCEPT !.pc = "scan", !.todo = taskDirs])
  /\ UNCHANGED <<taskDirs, runDirs, summaries, runPc>>

\* A busy lock: this pass is skipped.
SkipBusy(c) == pass[c].pc = "idle" /\ cleanLock # NoCleaner /\ UNCHANGED houseVars

\* List a task's directory; its old runs are the candidates.
VisitTask(c) ==
  /\ pass[c].pc = "scan"
  /\ \E t \in pass[c].todo :
       LET old == DirsOf(t) \cap OldRun
       IN  PassIs(c, [pass[c] EXCEPT
                         !.pc = "prune", !.task = t, !.todo = @ \ {t},
                         !.candidates = old, !.any = old # {},
                         !.seen = DirsOf(t) \ old])
  /\ UNCHANGED <<cleanLock, taskDirs, runDirs, summaries, runPc>>

\* rmtree of one run; an OSError is noted and the pass goes on.
RemoveRun(c) ==
  /\ pass[c].pc = "prune"
  /\ \E r \in pass[c].candidates, gone \in BOOLEAN :
       /\ runDirs' = IF gone THEN runDirs \ {r} ELSE runDirs
       /\ summaries' = IF gone THEN summaries \ {r} ELSE summaries
       /\ PassIs(c, [pass[c] EXCEPT !.candidates = @ \ {r}])
  /\ UNCHANGED <<cleanLock, taskDirs, runPc>>

\* A bug: a task directory goes as soon as it had something to prune.
RemovableIfPruned(p) == p.any

\* _task_dir_should_be_removed
TaskDirShouldBeRemoved(p) == p.any /\ p.task \in taskDirs /\ DirsOf(p.task) = {}

CheckTaskDir(c) ==
  /\ pass[c].pc = "prune"
  /\ pass[c].candidates = {}
  /\ PassIs(c, IF TaskDirShouldBeRemoved(pass[c])
                  THEN [pass[c] EXCEPT !.pc = "rmdir"]
                  ELSE [NoPass EXCEPT !.pc = "scan", !.todo = pass[c].todo])
  /\ UNCHANGED <<cleanLock, taskDirs, runDirs, summaries, runPc>>

\* rmtree of the task's directory, with whatever is in it by now; it fails
\* if something is added while it works.
RemoveTaskDir(c) ==
  /\ pass[c].pc = "rmdir"
  /\ \E gone \in BOOLEAN :
       LET lost == IF gone THEN DirsOf(pass[c].task) ELSE {}
       IN  /\ taskDirs' = IF gone THEN taskDirs \ {pass[c].task} ELSE taskDirs
           /\ runDirs' = runDirs \ lost
           /\ summaries' = summaries \ lost
  /\ PassIs(c, [NoPass EXCEPT !.pc = "scan", !.todo = pass[c].todo])
  /\ UNCHANGED <<cleanLock, runPc>>

Release(c) ==
  /\ pass[c].pc = "scan"
  /\ pass[c].todo = {}
  /\ cleanLock' = NoCleaner
  /\ PassIs(c, NoPass)
  /\ UNCHANGED <<taskDirs, runDirs, summaries, runPc>>

\* A bug: the lock is a file that outlives its process.
CrashKeepsLock(c) ==
  /\ pass[c].pc # "idle"
  /\ PassIs(c, NoPass)
  /\ UNCHANGED <<cleanLock, taskDirs, runDirs, summaries, runPc>>

\* The process dies; the kernel drops its flock.
CleanerDies(c) ==
  /\ pass[c].pc # "idle"
  /\ cleanLock' = IF cleanLock = c THEN NoCleaner ELSE cleanLock
  /\ PassIs(c, NoPass)
  /\ UNCHANGED <<taskDirs, runDirs, summaries, runPc>>

-----------------------------------------------------------------------------
(* A run of a task, in another process.                                    *)

\* mkdir(parents=True, exist_ok=True)
PrepareDir(r) ==
  /\ runPc[r] = "absent"
  /\ taskDirs' = taskDirs \cup {TaskOf[r]}
  /\ runDirs' = runDirs \cup {r}
  /\ runPc' = [runPc EXCEPT ![r] = "running"]
  /\ UNCHANGED <<cleanLock, summaries, pass>>

\* The write does not make directories, and its failure is only logged.
WriteSummary(r) ==
  /\ runPc[r] = "running"
  /\ summaries' = summaries \cup ({r} \cap runDirs)
  /\ runPc' = [runPc EXCEPT ![r] = "done"]
  /\ UNCHANGED <<cleanLock, taskDirs, runDirs, pass>>

CleanerStep(c) ==
  \/ VisitTask(c) \/ RemoveRun(c) \/ CheckTaskDir(c) \/ RemoveTaskDir(c)
  \/ Release(c)

HouseNext ==
  \/ \E c \in Cleaner :
       Acquire(c) \/ SkipBusy(c) \/ CleanerStep(c) \/ CleanerDies(c)
  \/ \E r \in Run : PrepareDir(r) \/ WriteSummary(r)

HouseSpec == HouseInit /\ [][HouseNext]_houseVars

\* A pass is synchronous code: it goes on to its end unless it dies.
HouseFairSpec == HouseSpec /\ \A c \in Cleaner : WF_houseVars(CleanerStep(c))

-----------------------------------------------------------------------------
(* Properties.                                                             *)

\* What a pass is about to remove is still there: passes exclude one another
\* although any of them may die halfway (maintenance_lock).
CandidatesExist == \A c \in Cleaner : pass[c].candidates \subseteq runDirs

\* A fresh run whose directory was there when its task was visited keeps it.
SeenRunsAreKept == [][\A c \in Cleaner : pass[c].seen \subseteq runDirs']_houseVars

\* The lock never stays with a process that is gone or done.
LockIsGivenBack == \A c \in Cleaner : cleanLock = c ~> cleanLock # c

\* "prune old runtime logs, reports, and watch-task run artifacts": a run
\* that has just ended has its evidence.
FreshEvidenceKept ==
  \A r \in Run \ OldRun : runPc[r] = "done" => r \in summaries

\* A pass neither works from a listing that another pass has made stale nor
\* takes away the directory of a fresh run it saw.
PassesAreSafe == []CandidatesExist /\ SeenRunsAreKept
=============================================================================
