---------------------------- MODULE ScheduleProofs ----------------------------
(***************************************************************************)
(* The programs that run on their own: what a maintenance pass may take    *)
(* away, and what it tells of the room it made, what the worker leaves of  *)
(* the list it works off, what the start of a process and the requests     *)
(* leave in a store's switch, and what a pass over the stores keeps of its *)
(* budget, its pages and its deals, for any number of cleaners, items,     *)
(* tasks, processes, requests, stores and urls. Last, MCSchedules runs     *)
(* each of them as its own specification.                                  *)
(***************************************************************************)
EXTENDS MCSchedules, FiniteSetTheorems, SetLemmas, TLAPS

-------------------------------------------------------------------------------
(* The maintenance pass.                                                     *)

\* A pass that has begun holds the lock, and one that has not knows nothing.
PassHoldsLock ==
  \A c \in Cleaner : IF pass[c].pc = "idle" THEN pass[c] = NoPass
                                            ELSE cleanLock = c

\* The listing of the visited task is true: its old runs are still there, and
\* so are the fresh ones it saw.
ListingIsTrue ==
  \A c \in Cleaner :
    /\ pass[c].candidates \subseteq runDirs \cap OldRun
    /\ pass[c].seen \subseteq runDirs \ OldRun
    /\ \A r \in pass[c].seen : TaskOf[r] = pass[c].task

\* A task's directory is removed only by a pass that saw no fresh run in it.
EmptyBeforeRemoval ==
  \A c \in Cleaner : pass[c].pc = "rmdir" => pass[c].seen = {}

Cleaning == HouseTypeOK /\ PassHoldsLock /\ ListingIsTrue /\ EmptyBeforeRemoval

\* No pass has begun, and the old runs have their evidence.
LEMMA InitCleaning == HouseInit => Cleaning
<1> SUFFICES ASSUME HouseInit PROVE Cleaning
  OBVIOUS
<1>1. NoPass \in Pass /\ NoPass.candidates = {} /\ NoPass.seen = {}
      /\ NoPass.pc = "idle"
  BY DEF NoPass, Pass
<1>2. HouseTypeOK
  BY <1>1, HousekeepingAssumption DEF HouseInit, HouseTypeOK
<1>3. PassHoldsLock /\ ListingIsTrue /\ EmptyBeforeRemoval
  BY <1>1 DEF HouseInit, PassHoldsLock, ListingIsTrue, EmptyBeforeRemoval
<1>4. QED
  BY <1>2, <1>3 DEF Cleaning

\* Only one pass is not idle; the others know nothing.
LEMMA OthersIdle ==
  ASSUME Cleaning, NEW c \in Cleaner, pass[c].pc # "idle"
  PROVE  /\ cleanLock = c
         /\ \A d \in Cleaner \ {c} : pass[d] = NoPass
BY HousekeepingAssumption DEF Cleaning, PassHoldsLock

\* A step of a pass that holds the lock, or gives it back when it ends.
LEMMA PassStep ==
  ASSUME Cleaning, NEW c \in Cleaner, NEW p \in Pass, PassIs(c, p), HouseTypeOK',
         \A d \in Cleaner \ {c} : pass[d] = NoPass,
         IF p.pc = "idle" THEN p = NoPass ELSE cleanLock' = c,
         p.candidates \subseteq runDirs' \cap OldRun,
         p.seen \subseteq runDirs' \ OldRun,
         \A r \in p.seen : TaskOf[r] = p.task,
         p.pc = "rmdir" => p.seen = {}
  PROVE  Cleaning'
<1>1. /\ pass'[c] = p
      /\ \A d \in Cleaner \ {c} : pass'[d] = NoPass
  BY DEF PassIs, Cleaning, HouseTypeOK
<1>2. NoPass.pc = "idle" /\ NoPass.candidates = {} /\ NoPass.seen = {}
  BY DEF NoPass
<1>3. PassHoldsLock'
  BY <1>1, <1>2 DEF PassHoldsLock
<1>4. ListingIsTrue'
  BY <1>1, <1>2 DEF ListingIsTrue
<1>5. EmptyBeforeRemoval'
  BY <1>1, <1>2 DEF EmptyBeforeRemoval
<1>6. QED
  BY <1>3, <1>4, <1>5 DEF Cleaning

\* A step of a run takes no directory away.
LEMMA RunAdds ==
  ASSUME Cleaning, HouseTypeOK', pass' = pass, cleanLock' = cleanLock,
         runDirs \subseteq runDirs'
  PROVE  Cleaning'
<1>1. PassHoldsLock' /\ EmptyBeforeRemoval'
  BY DEF Cleaning, PassHoldsLock, EmptyBeforeRemoval
<1>2. ListingIsTrue'
  BY DEF Cleaning, ListingIsTrue
<1>3. QED
  BY <1>1, <1>2 DEF Cleaning

\* A pass that visits a task is typed.
LEMMA VisitedType ==
  ASSUME NEW q \in Pass, NEW t \in Task, NEW further \in SUBSET Task,
         NEW old \in SUBSET Run, NEW any \in BOOLEAN,
         NEW seen \in SUBSET Run
  PROVE  [q EXCEPT !.pc = "prune", !.task = t, !.todo = further,
                   !.candidates = old, !.any = any, !.seen = seen] \in Pass
BY DEF Pass

\* Every step keeps the invariant.
LEMMA NextCleaning == Cleaning /\ [HouseNext]_houseVars => Cleaning'
<1> SUFFICES ASSUME Cleaning, [HouseNext]_houseVars
             PROVE  Cleaning'
  OBVIOUS
<1> USE HousekeepingAssumption
<1>a. /\ cleanLock \in Cleaner \cup {NoCleaner} /\ taskDirs \subseteq Task
      /\ runDirs \subseteq Run /\ summaries \subseteq runDirs
      /\ runPc \in [Run -> {"absent", "running", "done"}]
      /\ pass \in [Cleaner -> Pass]
      /\ \A r \in runDirs : TaskOf[r] \in taskDirs
  BY DEF Cleaning, HouseTypeOK
<1>b. /\ NoPass \in Pass /\ NoPass.candidates = {} /\ NoPass.seen = {}
      /\ NoPass.pc = "idle" /\ NoPass.todo = {}
  BY DEF NoPass, Pass
<1>1. ASSUME NEW c \in Cleaner, Acquire(c)
      PROVE  Cleaning'
  <2> DEFINE p == [NoPass EXCEPT !.pc = "scan", !.todo = taskDirs]
  <2>1. p \in Pass /\ p.pc = "scan" /\ p.candidates = {} /\ p.seen = {}
    BY <1>a DEF NoPass, Pass
  <2>2. PassIs(c, p) /\ cleanLock' = c /\ UNCHANGED <<taskDirs, runDirs,
                                                  summaries, runPc>>
    BY <1>1 DEF Acquire
  <2>3. HouseTypeOK'
    BY <1>a, <2>1, <2>2 DEF HouseTypeOK, PassIs
  <2>4. \A d \in Cleaner : pass[d] = NoPass
    BY <1>1 DEF Acquire, Cleaning, PassHoldsLock
  <2>5. QED
    BY <2>1, <2>2, <2>3, <2>4, PassStep
<1>2. ASSUME NEW c \in Cleaner, VisitTask(c)
      PROVE  Cleaning'
  <2>1. PICK t \in pass[c].todo :
          PassIs(c, [pass[c] EXCEPT
                        !.pc = "prune", !.task = t, !.todo = @ \ {t},
                        !.candidates = DirsOf(t) \cap OldRun,
                        !.any = DirsOf(t) \cap OldRun # {},
                        !.seen = DirsOf(t) \ (DirsOf(t) \cap OldRun)])
    BY <1>2 DEF VisitTask
  <2> DEFINE p == [pass[c] EXCEPT
                     !.pc = "prune", !.task = t, !.todo = @ \ {t},
                     !.candidates = DirsOf(t) \cap OldRun,
                     !.any = DirsOf(t) \cap OldRun # {},
                     !.seen = DirsOf(t) \ (DirsOf(t) \cap OldRun)]
  <2>2. DirsOf(t) \subseteq runDirs /\ \A r \in DirsOf(t) : TaskOf[r] = t
    BY DEF DirsOf
  <2>3. p \in Pass
    <3>1. pass[c] \in Pass /\ t \in Task
      BY <1>a DEF Pass
    <3>2. /\ pass[c].todo \ {t} \in SUBSET Task
          /\ DirsOf(t) \cap OldRun \in SUBSET Run
          /\ DirsOf(t) \ (DirsOf(t) \cap OldRun) \in SUBSET Run
      BY <1>a, <2>2 DEF Pass
    <3>3. (DirsOf(t) \cap OldRun # {}) \in BOOLEAN
      OBVIOUS
    <3>4. QED
      BY <3>1, <3>2, <3>3, VisitedType, Zenon
  <2>4. /\ p.pc = "prune" /\ p.task = t
        /\ p.candidates = DirsOf(t) \cap OldRun
        /\ p.seen = DirsOf(t) \ (DirsOf(t) \cap OldRun)
    BY <1>a DEF Pass
  <2>5. pass[c].pc # "idle" /\ UNCHANGED <<cleanLock, taskDirs, runDirs,
                                           summaries, runPc>>
    BY <1>2 DEF VisitTask
  <2>6. HouseTypeOK'
    BY <1>a, <2>1, <2>3, <2>5 DEF HouseTypeOK, PassIs
  <2>7. QED
    BY <2>1, <2>2, <2>3, <2>4, <2>5, <2>6, OthersIdle, PassStep
<1>3. ASSUME NEW c \in Cleaner, RemoveRun(c)
      PROVE  Cleaning'
  <2>1. PICK r \in pass[c].candidates, gone \in BOOLEAN :
          /\ runDirs' = IF gone THEN runDirs \ {r} ELSE runDirs
          /\ summaries' = IF gone THEN summaries \ {r} ELSE summaries
          /\ PassIs(c, [pass[c] EXCEPT !.candidates = @ \ {r}])
    BY <1>3 DEF RemoveRun
  <2> DEFINE p == [pass[c] EXCEPT !.candidates = @ \ {r}]
  <2>2. /\ p \in Pass /\ p.pc = "prune" /\ p.task = pass[c].task
        /\ p.candidates = pass[c].candidates \ {r}
        /\ p.seen = pass[c].seen
    BY <1>a, <1>3 DEF Pass, RemoveRun
  <2>3. /\ pass[c].pc # "idle"
        /\ UNCHANGED <<cleanLock, taskDirs, runPc>>
    BY <1>3 DEF RemoveRun
  <2>4. /\ pass[c].candidates \subseteq runDirs \cap OldRun
        /\ pass[c].seen \subseteq runDirs \ OldRun
        /\ \A s \in pass[c].seen : TaskOf[s] = pass[c].task
    BY DEF Cleaning, ListingIsTrue
  <2>5. HouseTypeOK'
    BY <1>a, <2>1, <2>2, <2>3 DEF HouseTypeOK, PassIs
  <2>6. QED
    BY <2>1, <2>2, <2>3, <2>4, <2>5, OthersIdle, PassStep
<1>4. ASSUME NEW c \in Cleaner, CheckTaskDir(c)
      PROVE  Cleaning'
  <2>1. /\ pass[c].pc = "prune" /\ pass[c].candidates = {}
        /\ UNCHANGED <<cleanLock, taskDirs, runDirs, summaries, runPc>>
    BY <1>4 DEF CheckTaskDir
  <2>2. CASE TaskDirShouldBeRemoved(pass[c])
    <3> DEFINE p == [pass[c] EXCEPT !.pc = "rmdir"]
    <3>1. /\ p \in Pass /\ p.pc = "rmdir" /\ p.task = pass[c].task
          /\ p.candidates = {} /\ p.seen = pass[c].seen
      BY <1>a, <2>1 DEF Pass
    <3>2. PassIs(c, p)
      BY <1>4, <2>2 DEF CheckTaskDir
    <3>3. p.seen = {}
      BY <1>a, <2>2, <3>1
      DEF Cleaning, ListingIsTrue, TaskDirShouldBeRemoved, DirsOf
    <3>4. HouseTypeOK'
      BY <1>a, <2>1, <3>1, <3>2 DEF HouseTypeOK, PassIs
    <3>5. QED
      BY <2>1, <3>1, <3>2, <3>3, <3>4, OthersIdle, PassStep
  <2>3. CASE ~TaskDirShouldBeRemoved(pass[c])
    <3> DEFINE p == [NoPass EXCEPT !.pc = "scan", !.todo = pass[c].todo]
    <3>1. p \in Pass /\ p.pc = "scan" /\ p.candidates = {} /\ p.seen = {}
      BY <1>a DEF NoPass, Pass
    <3>2. PassIs(c, p)
      BY <1>4, <2>3 DEF CheckTaskDir
    <3>3. HouseTypeOK'
      BY <1>a, <2>1, <3>1, <3>2 DEF HouseTypeOK, PassIs
    <3>4. QED
      BY <2>1, <3>1, <3>2, <3>3, OthersIdle, PassStep
  <2>4. QED
    BY <2>2, <2>3
<1>5. ASSUME NEW c \in Cleaner, RemoveTaskDir(c)
      PROVE  Cleaning'
  <2> DEFINE p == [NoPass EXCEPT !.pc = "scan", !.todo = pass[c].todo]
  <2>1. p \in Pass /\ p.pc = "scan" /\ p.candidates = {} /\ p.seen = {}
    BY <1>a DEF NoPass, Pass
  <2>2. pass[c].pc # "idle" /\ PassIs(c, p) /\ UNCHANGED <<cleanLock, runPc>>
    BY <1>5 DEF RemoveTaskDir
  <2>3. PICK gone \in BOOLEAN :
          /\ taskDirs' = IF gone THEN taskDirs \ {pass[c].task} ELSE taskDirs
          /\ runDirs' =
               runDirs \ (IF gone THEN DirsOf(pass[c].task) ELSE {})
          /\ summaries' =
               summaries \ (IF gone THEN DirsOf(pass[c].task) ELSE {})
    BY <1>5 DEF RemoveTaskDir
  <2>4. \A r \in runDirs' : TaskOf[r] \in taskDirs'
    BY <1>a, <2>3 DEF DirsOf
  <2>5. HouseTypeOK'
    BY <1>a, <2>1, <2>2, <2>3, <2>4 DEF HouseTypeOK, PassIs
  <2>6. QED
    BY <2>1, <2>2, <2>5, OthersIdle, PassStep
<1>6. ASSUME NEW c \in Cleaner, Release(c) \/ CleanerDies(c)
      PROVE  Cleaning'
  <2>1. /\ pass[c].pc # "idle" /\ PassIs(c, NoPass)
        /\ UNCHANGED <<taskDirs, runDirs, summaries, runPc>>
        /\ cleanLock' \in {cleanLock, NoCleaner}
    BY <1>6 DEF Release, CleanerDies
  <2>2. HouseTypeOK'
    BY <1>a, <1>b, <2>1 DEF HouseTypeOK, PassIs
  <2>3. QED
    BY <1>b, <2>1, <2>2, OthersIdle, PassStep
<1>7. ASSUME NEW r \in Run, PrepareDir(r)
      PROVE  Cleaning'
  <2>1. HouseTypeOK'
    BY <1>a, <1>7 DEF HouseTypeOK, PrepareDir
  <2>2. QED
    BY <1>7, <2>1, RunAdds DEF PrepareDir
<1>8. ASSUME NEW r \in Run, WriteSummary(r)
      PROVE  Cleaning'
  <2>1. HouseTypeOK'
    BY <1>a, <1>8 DEF HouseTypeOK, WriteSummary
  <2>2. QED
    BY <1>8, <2>1, RunAdds DEF WriteSummary
<1>9. CASE UNCHANGED houseVars
  BY <1>9, RunAdds DEF houseVars, Cleaning, HouseTypeOK
<1>10. QED
  BY <1>1, <1>2, <1>3, <1>4, <1>5, <1>6, <1>7, <1>8, <1>9
  DEF HouseNext, CleanerStep, SkipBusy

-----------------------------------------------------------------------------

\* Whatever a pass is about to remove is there, however many processes clean
\* and whichever of them die.
THEOREM PassesExclude == HouseSpec => []CandidatesExist
<1>1. Cleaning => CandidatesExist
  BY DEF Cleaning, ListingIsTrue, CandidatesExist
<1>2. QED
  BY InitCleaning, NextCleaning, <1>1, PTL DEF HouseSpec

\* One step: no directory of a fresh run that a pass has seen goes away.
SeenStay == \A c \in Cleaner : pass[c].seen \subseteq runDirs'

\* Only two steps remove directories, and both spare them.
LEMMA StepKeepsSeen == Cleaning /\ [HouseNext]_houseVars => SeenStay
<1> SUFFICES ASSUME Cleaning, [HouseNext]_houseVars, NEW d \in Cleaner
             PROVE  pass[d].seen \subseteq runDirs'
  BY DEF SeenStay
<1>1. pass[d].seen \subseteq runDirs \ OldRun
  BY DEF Cleaning, ListingIsTrue
<1>2. ASSUME NEW c \in Cleaner, RemoveRun(c)
      PROVE  pass[d].seen \subseteq runDirs'
  BY <1>1, <1>2 DEF RemoveRun, Cleaning, ListingIsTrue
<1>3. ASSUME NEW c \in Cleaner, RemoveTaskDir(c)
      PROVE  pass[d].seen \subseteq runDirs'
  <2>1. pass[c].pc = "rmdir"
    BY <1>3 DEF RemoveTaskDir
  <2>2. CASE d = c
    BY <2>1, <2>2 DEF Cleaning, EmptyBeforeRemoval
  <2>3. CASE d # c
    BY <2>1, <2>3, OthersIdle DEF NoPass
  <2>4. QED
    BY <2>2, <2>3
<1>4. CASE runDirs \subseteq runDirs'
  BY <1>1, <1>4
<1>5. QED
  BY <1>2, <1>3, <1>4
  DEF HouseNext, CleanerStep, Acquire, SkipBusy, VisitTask, CheckTaskDir, Release,
      CleanerDies, PrepareDir, WriteSummary, houseVars

\* A fresh run whose directory was there when its task was visited keeps it.
THEOREM SeenAreSpared == HouseSpec => SeenRunsAreKept
<1>1. Cleaning /\ [HouseNext]_houseVars => [SeenStay]_houseVars
  BY StepKeepsSeen
<1>2. QED
  BY InitCleaning, NextCleaning, <1>1, PTL
  DEF HouseSpec, SeenRunsAreKept, SeenStay

\* A pass neither works from a stale listing nor takes away the directory of
\* a fresh run that it saw, for any number of cleaners that may die.
THEOREM PassesStaySafe == HouseSpec => []HouseTypeOK /\ PassesAreSafe
<1>1. Cleaning => HouseTypeOK
  BY DEF Cleaning
<1>2. HouseSpec => []HouseTypeOK
  BY <1>1, InitCleaning, NextCleaning, PTL DEF HouseSpec
<1> QED
  BY <1>2, PassesExclude, SeenAreSpared DEF PassesAreSafe

-------------------------------------------------------------------------------
(* The cache budget.                                                         *)

\* The candidates have been listed.
IsMeasured == pc \in {"reclaim", "done"}

\* What the listing counts as there besides the items.
Beside == rest + IF dryRun THEN expired ELSE 0

\* What the pass rests on: until the measure nothing has gone; then what was
\* there is listed or still to be taken, in the order, what the pass counts as
\* used is what it has not listed, and a listed item was needed.
BudgetInv ==
    /\ BudgetTypeOK /\ before \in [Item -> Nat] /\ used \in Int
    /\ ~IsMeasured => disk = before /\ listed = {} /\ toTake = {}
    /\ IsMeasured =>
          /\ toTake = {i \in Item : before[i] > 0} \ listed
          /\ listed \subseteq Needed
          /\ \A i \in listed, j \in toTake : Place(i) < Place(j)
          /\ \A i \in Item : disk[i] = IF i \in listed \ failed /\ ~dryRun THEN 0 ELSE before[i]
          /\ used = Total(before, Item \ listed) + Beside
    /\ pc = "done" => toTake = {} \/ used <= Budget

-----------------------------------------------------------------------------
\* The sums of the pass are sums over a finite set.
LEMMA SumIsTotal ==
    ASSUME NEW f, NEW S
    PROVE  SumOf(f, S) = Total(f, S)
BY DEF SumOf, MapThenSumSet, MapThenFoldSet, Total, IsTable, Picked

\* Sums of sizes are numbers, and a part of the items has no more.
LEMMA SizesAddUp ==
    ASSUME NEW f \in [Item -> Nat], NEW S \in SUBSET Item, NEW T \in SUBSET S
    PROVE  /\ Total(f, S) \in Nat /\ Total(f, T) \in Nat /\ Total(f, T) <= Total(f, S)
           /\ (\A x \in S \ T : f[x] = 0) => Total(f, T) = Total(f, S)
<1>1. IsFiniteSet(S) /\ IsFiniteSet(T) /\ \A x \in S : f[x] \in Nat
  BY FS_Subset, BudgetAssumption
<1>2. Total(f, S) \in Nat
  BY <1>1, TotalIsNat
<1>3. Total(f, T) \in Nat
  BY <1>1, TotalIsNat
<1>4. /\ Total(f, T) <= Total(f, S)
      /\ (\A x \in S \ T : f[x] = 0) => Total(f, T) = Total(f, S)
  BY <1>1, TotalOfPart
<1> QED
  BY <1>2, <1>3, <1>4

\* Each item has a place of its own in the order.
LEMMA PlaceIs ==
    /\ \A i \in Item : Place(i) \in Nat
    /\ \A i, j \in Item : Place(i) = Place(j) => i = j
<1>1. \A i \in Item : Place(i) \in DOMAIN Order /\ Order[Place(i)] = i
  BY BudgetAssumption DEF Place
<1>2. DOMAIN Order \subseteq Nat
  BY BudgetAssumption
<1> QED
  BY <1>1, <1>2

\* The first of some candidates.
LEMMA FirstIs ==
    ASSUME NEW T \in SUBSET Item, T # {}
    PROVE  LET i == CHOOSE c \in T : \A d \in T : Place(c) <= Place(d)
           IN  i \in T /\ \A d \in T : Place(i) <= Place(d)
<1> DEFINE P == {Place(c) : c \in T}
<1>1. P \in SUBSET Nat /\ P # {}
  BY PlaceIs
<1>2. Min(P) \in P /\ \A x \in P : Min(P) <= x
  <2> HIDE DEF P
  <2> QED
    BY <1>1, NatHasMin
<1>3. PICK c \in T : Place(c) = Min(P)
  BY <1>2
<1>4. \A d \in T : Place(c) <= Place(d)
  BY <1>2, <1>3
<1> QED
  BY <1>4

\* A pass begins with nothing removed.
LEMMA BudgetInitLemma == BudgetInit => BudgetInv
<1> SUFFICES ASSUME BudgetInit PROVE BudgetInv
  OBVIOUS
<1>1. disk \in [Item -> Size] /\ Size \subseteq Nat /\ before = disk
  BY BudgetAssumption DEF BudgetInit
<1>2. disk \in [Item -> Size \cup {0}] /\ before \in [Item -> Nat]
  BY <1>1
<1>3. pc = "retention" /\ listed = {} /\ failed = {} /\ toTake = {} /\ used = 0
  BY DEF BudgetInit
<1>4. BudgetTypeOK
  BY <1>2, <1>3 DEF BudgetInit, BudgetTypeOK
<1>5. ~IsMeasured
  BY <1>3 DEF IsMeasured
<1> QED
  BY <1>1, <1>2, <1>3, <1>4, <1>5 DEF BudgetInv

\* What is on disk, by what the pass counts.
LEMMA DiskIs ==
    ASSUME BudgetInv, IsMeasured
    PROVE  /\ OnDisk \in Nat /\ used \in Nat /\ OnDisk >= used
           /\ failed = {} /\ ~dryRun => OnDisk = used
<1>1. /\ disk \in [Item -> Nat] /\ before \in [Item -> Nat] /\ rest \in Nat /\ expired \in Nat
      /\ listed \in SUBSET Item /\ Item \ listed \in SUBSET Item /\ Item \in SUBSET Item
  BY BudgetAssumption DEF BudgetInv, BudgetTypeOK
<1>2. OnDisk = Total(disk, Item) + Beside /\ Beside \in Nat
  <2>1. SumOf(disk, Item) = Total(disk, Item) /\ Total(disk, Item) \in Nat
    BY <1>1, SumIsTotal, SizesAddUp
  <2>2. pc # "retention" /\ dryRun \in BOOLEAN
    BY DEF IsMeasured, BudgetInv, BudgetTypeOK
  <2>3. OnDisk = Total(disk, Item) + rest + (IF dryRun THEN expired ELSE 0)
    BY <2>1, <2>2 DEF OnDisk
  <2> QED
    BY <1>1, <2>1, <2>2, <2>3 DEF Beside
<1>3. Total(disk, Item \ listed) = Total(before, Item \ listed)
  <2>1. \A i \in Item \ listed : disk[i] = before[i]
    BY DEF BudgetInv
  <2>2. IsFiniteSet(Item \ listed)
    BY BudgetAssumption, FS_Difference
  <2> QED
    BY <2>1, <2>2, TotalOfSame
<1>4. /\ Total(disk, Item) \in Nat /\ Total(disk, Item \ listed) \in Nat
      /\ Total(disk, Item \ listed) <= Total(disk, Item)
      /\ (\A i \in Item \ (Item \ listed) : disk[i] = 0) => Total(disk, Item \ listed) = Total(disk, Item)
  BY <1>1, SizesAddUp
<1>5. failed = {} /\ ~dryRun => \A i \in Item \ (Item \ listed) : disk[i] = 0
  BY DEF BudgetInv
<1>6. used = Total(before, Item \ listed) + Beside
  BY DEF BudgetInv
<1> QED
  BY <1>2, <1>3, <1>4, <1>5, <1>6

\* While more is needed, the next candidate is one that is needed.
LEMMA NextIsNeeded ==
    ASSUME BudgetInv, IsMeasured, used > Budget, NEW i \in toTake, \A d \in toTake : Place(i) <= Place(d)
    PROVE  i \in Needed
<1>1. /\ before \in [Item -> Nat] /\ rest \in Nat /\ expired \in Nat /\ i \in Item /\ before[i] > 0
      /\ Budget \in Nat /\ Beside \in Nat /\ Beside <= rest + expired
  BY BudgetAssumption DEF BudgetInv, BudgetTypeOK, Beside
<1>2. /\ Item \ listed \in SUBSET Item /\ Item \ Earlier(i) \in SUBSET Item
      /\ Item \ (Earlier(i) \cup listed) \in SUBSET (Item \ listed)
      /\ Item \ (Earlier(i) \cup listed) \in SUBSET (Item \ Earlier(i))
  OBVIOUS
<1>3. \A j \in Earlier(i) \ listed : before[j] = 0
  <2> TAKE j \in Earlier(i) \ listed
  <2>1. j \in Item /\ Place(j) < Place(i) /\ Place(j) \in Nat /\ Place(i) \in Nat
    BY <1>1, PlaceIs DEF Earlier
  <2>2. j \notin toTake
    BY <2>1
  <2> QED
    BY <1>1, <2>1, <2>2 DEF BudgetInv
<1>4. Total(before, Item \ (Earlier(i) \cup listed)) = Total(before, Item \ listed)
  <2>1. \A x \in (Item \ listed) \ (Item \ (Earlier(i) \cup listed)) : before[x] = 0
    BY <1>3
  <2> QED
    BY <1>1, <1>2, <2>1, SizesAddUp
<1>5. /\ Total(before, Item \ (Earlier(i) \cup listed)) <= Total(before, Item \ Earlier(i))
      /\ Total(before, Item \ (Earlier(i) \cup listed)) \in Nat /\ Total(before, Item \ Earlier(i)) \in Nat
  BY <1>1, <1>2, SizesAddUp
<1>6. used = Total(before, Item \ listed) + Beside
  BY DEF BudgetInv
<1>7. Total(before, Item \ Earlier(i)) + rest + expired > Budget
  BY <1>1, <1>4, <1>5, <1>6
<1> QED
  BY <1>1, <1>7, SumIsTotal DEF Needed

\* Nothing that was not listed is needed once enough is listed.
LEMMA EnoughIsListed ==
    ASSUME BudgetInv, IsMeasured, dryRun, used <= Budget
    PROVE  Needed \subseteq listed
<1> SUFFICES ASSUME NEW i \in Needed, i \notin listed PROVE FALSE
  OBVIOUS
<1>1. /\ before \in [Item -> Nat] /\ rest \in Nat /\ expired \in Nat /\ i \in Item /\ i \in toTake
      /\ Budget \in Nat /\ Beside = rest + expired
  BY BudgetAssumption DEF BudgetInv, BudgetTypeOK, Beside, Needed
<1>2. listed \subseteq Earlier(i)
  BY <1>1 DEF BudgetInv, BudgetTypeOK, Earlier
<1>3. Item \ Earlier(i) \in SUBSET (Item \ listed) /\ Item \ listed \in SUBSET Item
  BY <1>2
<1>4. /\ Total(before, Item \ Earlier(i)) <= Total(before, Item \ listed)
      /\ Total(before, Item \ Earlier(i)) \in Nat /\ Total(before, Item \ listed) \in Nat
  BY <1>1, <1>3, SizesAddUp
<1>5. Total(before, Item \ Earlier(i)) + rest + expired > Budget
  BY SumIsTotal DEF Needed
<1>6. used = Total(before, Item \ listed) + Beside
  BY DEF BudgetInv
<1> QED
  BY <1>1, <1>4, <1>5, <1>6

\* The measure starts the count.
LEMMA MeasureKeepsBudget == BudgetInv /\ Measure => BudgetInv'
<1> SUFFICES ASSUME BudgetInv, Measure PROVE BudgetInv'
  OBVIOUS
<1>1. /\ pc = "measure" /\ disk = before /\ listed = {} /\ failed = {}
      /\ disk \in [Item -> Nat] /\ rest \in Nat /\ expired \in Nat /\ dryRun \in BOOLEAN
  BY BudgetAssumption DEF Measure, BudgetInv, BudgetTypeOK, IsMeasured
<1>2. /\ used' = OnDisk /\ toTake' = {i \in Item : disk[i] > 0}
      /\ pc' = (IF OnDisk <= Budget THEN "done" ELSE "reclaim")
      /\ UNCHANGED <<dryRun, disk, expired, rest, listed, failed, before>>
  BY DEF Measure
<1>3. OnDisk = Total(disk, Item) + Beside /\ OnDisk \in Nat
  <2>1. SumOf(disk, Item) = Total(disk, Item) /\ Total(disk, Item) \in Nat
    BY <1>1, SumIsTotal, SizesAddUp
  <2>2. OnDisk = Total(disk, Item) + rest + (IF dryRun THEN expired ELSE 0)
    BY <1>1, <2>1 DEF OnDisk
  <2> QED
    BY <1>1, <2>1, <2>2 DEF Beside
<1>4. BudgetTypeOK'
  BY <1>1, <1>2, <1>3 DEF BudgetInv, BudgetTypeOK
<1>5. used' = Total(before', Item \ listed') + Beside'
  <2>1. Beside' = Beside
    BY <1>2 DEF Beside
  <2>2. Item \ listed' = Item /\ before' = disk
    BY <1>1, <1>2
  <2> QED
    BY <1>2, <1>3, <2>1, <2>2
<1>6. pc' = "done" => used' <= Budget
  BY <1>2
<1>7. /\ toTake' = {i \in Item : before'[i] > 0} \ listed' /\ listed' = {}
      /\ \A i \in Item : disk'[i] = before'[i]
  BY <1>1, <1>2
<1>8. IsMeasured' /\ before' \in [Item -> Nat] /\ used' \in Int
  BY <1>1, <1>2, <1>3 DEF IsMeasured
<1> QED
  BY <1>4, <1>5, <1>6, <1>7, <1>8 DEF BudgetInv

\* A candidate that is listed is counted as gone, whether it goes or not.
LEMMA ReclaimKeepsBudget ==
    ASSUME BudgetInv, Reclaim
    PROVE  BudgetInv' /\ used > Budget
<1> DEFINE i == CHOOSE c \in toTake : \A d \in toTake : Place(c) <= Place(d)
<1>1. /\ pc = "reclaim" /\ toTake # {} /\ used > Budget
      /\ toTake' = toTake \ {i} /\ listed' = listed \cup {i} /\ used' = used - disk[i]
      /\ UNCHANGED <<dryRun, expired, rest, before, pc>>
  BY DEF Reclaim, MoreIsNeeded, Counted
<1>2. \E gone \in IF dryRun THEN {FALSE} ELSE BOOLEAN :
         /\ disk' = IF gone THEN [disk EXCEPT ![i] = 0] ELSE disk
         /\ failed' = IF gone \/ dryRun THEN failed ELSE failed \cup {i}
  BY DEF Reclaim
<1>3. /\ IsMeasured /\ dryRun \in BOOLEAN /\ toTake \in SUBSET Item /\ listed \in SUBSET Item
      /\ failed \subseteq listed /\ disk \in [Item -> Size \cup {0}] /\ before \in [Item -> Nat]
      /\ used \in Int /\ toTake = {j \in Item : before[j] > 0} \ listed
  BY <1>1 DEF BudgetInv, BudgetTypeOK, IsMeasured
<1>4. i \in toTake /\ \A d \in toTake : Place(i) <= Place(d)
  BY <1>1, <1>3, FirstIs
<1> HIDE DEF i
<1>5. disk[i] = before[i] /\ i \in Item /\ i \notin listed /\ i \notin failed /\ before[i] \in Nat
  BY <1>3, <1>4 DEF BudgetInv
<1>6. BudgetTypeOK'
  <2>1. listed' \subseteq Item /\ failed' \subseteq listed' /\ toTake' \subseteq Item
    BY <1>1, <1>2, <1>3, <1>5
  <2>2. disk' \in [Item -> Size \cup {0}]
    BY <1>2, <1>3, <1>5
  <2>3. used' \in Nat
    <3>1. used = Total(before, Item \ listed) + Beside /\ Beside \in Nat
      BY <1>3, BudgetAssumption DEF BudgetInv, BudgetTypeOK, Beside
    <3>2. Total(before, Item \ listed) = before[i] + Total(before, (Item \ listed) \ {i})
      <4>1. IsFiniteSet(Item \ listed) /\ \A x \in Item \ listed : before[x] \in Nat
        BY <1>3, BudgetAssumption, FS_Difference
      <4> QED
        BY <1>5, <4>1, TotalTakes
    <3>3. Total(before, (Item \ listed) \ {i}) \in Nat
      BY <1>3, SizesAddUp
    <3> QED
      BY <1>1, <1>5, <3>1, <3>2, <3>3
  <2> QED
    BY <1>1, <2>1, <2>2, <2>3 DEF BudgetInv, BudgetTypeOK
<1>7. used' = Total(before', Item \ listed') + Beside'
  <2>1. used = Total(before, Item \ listed) + Beside /\ Beside \in Nat /\ Beside' = Beside
    BY <1>1, <1>3, BudgetAssumption DEF BudgetInv, BudgetTypeOK, Beside
  <2>2. Total(before, Item \ listed) = before[i] + Total(before, (Item \ listed) \ {i})
    <3>1. IsFiniteSet(Item \ listed) /\ \A x \in Item \ listed : before[x] \in Nat
      BY <1>3, BudgetAssumption, FS_Difference
    <3> QED
      BY <1>5, <3>1, TotalTakes
  <2>3. (Item \ listed) \ {i} = Item \ listed' /\ before' = before
    BY <1>1
  <2>4. Total(before, (Item \ listed) \ {i}) \in Nat
    BY <1>3, SizesAddUp
  <2>5. used' = Total(before, (Item \ listed) \ {i}) + Beside
    BY <1>1, <1>5, <2>1, <2>2, <2>4
  <2>6. Total(before', Item \ listed') = Total(before, (Item \ listed) \ {i})
    BY <2>3
  <2> QED
    BY <2>1, <2>5, <2>6
<1>8. listed' \subseteq Needed'
  <2>1. Needed' = Needed
    BY <1>1 DEF Needed
  <2>2. i \in Needed
    BY <1>1, <1>3, <1>4, NextIsNeeded
  <2> QED
    BY <1>1, <1>3, <2>1, <2>2 DEF BudgetInv
<1>9. \A j \in listed', k \in toTake' : Place(j) < Place(k)
  <2> TAKE j \in listed', k \in toTake'
  <2>1. k \in toTake /\ k # i /\ k \in Item /\ i \in Item
    BY <1>1, <1>3, <1>5
  <2>2. Place(i) < Place(k)
    <3>1. Place(i) \in Nat /\ Place(k) \in Nat /\ Place(i) # Place(k)
      BY <2>1, PlaceIs
    <3> QED
      BY <1>4, <2>1, <3>1
  <2>3. j \in listed => Place(j) < Place(k)
    BY <1>3, <2>1 DEF BudgetInv
  <2> QED
    BY <1>1, <2>2, <2>3
<1>10. \A j \in Item : disk'[j] = IF j \in listed' \ failed' /\ ~dryRun' THEN 0 ELSE before'[j]
  <2> TAKE j \in Item
  <2>1. disk[j] = IF j \in listed \ failed /\ ~dryRun THEN 0 ELSE before[j]
    BY <1>3 DEF BudgetInv
  <2>2. CASE j = i
    <3>1. i \in listed' /\ dryRun' = dryRun /\ before' = before
      BY <1>1
    <3>2. CASE dryRun
      BY <1>2, <1>5, <2>2, <3>1, <3>2
    <3>3. CASE ~dryRun
      <4>1. \/ disk' = [disk EXCEPT ![i] = 0] /\ failed' = failed
            \/ disk' = disk /\ failed' = failed \cup {i}
        BY <1>2, <3>3
      <4> QED
        BY <1>3, <1>5, <2>2, <3>1, <3>3, <4>1
    <3> QED
      BY <1>3, <3>2, <3>3
  <2>3. CASE j # i
    <3>1. disk'[j] = disk[j] /\ (j \in failed' <=> j \in failed)
      BY <1>2, <1>3, <2>3
    <3>2. (j \in listed' <=> j \in listed) /\ dryRun' = dryRun /\ before' = before
      BY <1>1, <2>3
    <3> QED
      BY <2>1, <3>1, <3>2
  <2> QED
    BY <2>2, <2>3
<1>11. /\ toTake' = {j \in Item : before'[j] > 0} \ listed' /\ before' \in [Item -> Nat]
       /\ pc' = "reclaim" /\ IsMeasured'
  BY <1>1, <1>3 DEF IsMeasured
<1>12. used' \in Int
  BY <1>1, <1>3, <1>5
<1> QED
  BY <1>1, <1>6, <1>7, <1>8, <1>9, <1>10, <1>11, <1>12 DEF BudgetInv

\* Every step of the pass keeps it.
LEMMA BudgetStepLemma == BudgetInv /\ [BudgetNext]_budgetVars => BudgetInv'
<1> SUFFICES ASSUME BudgetInv, [BudgetNext]_budgetVars PROVE BudgetInv'
  OBVIOUS
<1>1. CASE Retention
  BY <1>1 DEF Retention, BudgetInv, BudgetTypeOK, IsMeasured
<1>2. CASE Measure
  BY <1>2, MeasureKeepsBudget
<1>3. CASE Reclaim
  BY <1>3, ReclaimKeepsBudget
<1>4. CASE Finish
  <2>1. /\ pc = "reclaim" /\ pc' = "done" /\ IsMeasured /\ IsMeasured'
        /\ UNCHANGED <<dryRun, disk, expired, rest, used, toTake, listed, failed, before>>
        /\ used \in Int
    BY <1>4 DEF Finish, IsMeasured, BudgetInv
  <2>2. toTake' = {} \/ used' <= Budget
    BY <1>4, <2>1, BudgetAssumption DEF Finish, MoreIsNeeded
  <2>3. Needed' = Needed /\ Beside' = Beside
    BY <2>1 DEF Needed, Beside
  <2>4. BudgetTypeOK'
    BY <2>1 DEF BudgetInv, BudgetTypeOK
  <2> QED
    BY <2>1, <2>2, <2>3, <2>4 DEF BudgetInv
<1>5. CASE UNCHANGED budgetVars
  BY <1>5 DEF budgetVars, BudgetInv, BudgetTypeOK, IsMeasured, Needed, Beside
<1> QED
  BY <1>1, <1>2, <1>3, <1>4, <1>5 DEF BudgetNext

\* What is told when the pass is over.
LEMMA BudgetIsTrue == BudgetInv => SummaryIsTrue /\ DryRunForetells
<1> SUFFICES ASSUME BudgetInv PROVE SummaryIsTrue /\ DryRunForetells
  OBVIOUS
<1>1. SummaryIsTrue
  <2> SUFFICES ASSUME pc = "done", ~dryRun, failed = {}, listed # {}
      PROVE  used = OnDisk /\ (ExceededButProtected => SumOf(disk, Item) = 0)
    BY DEF SummaryIsTrue
  <2>1. IsMeasured
    BY DEF IsMeasured
  <2>2. used = OnDisk
    BY <2>1, DiskIs
  <2>3. ASSUME used > Budget PROVE SumOf(disk, Item) = 0
    <3>1. toTake = {} /\ before \in [Item -> Nat] /\ disk \in [Item -> Nat] /\ used \in Int
      <4>1. before \in [Item -> Nat] /\ disk \in [Item -> Nat] /\ used \in Int
        BY DEF BudgetInv, BudgetTypeOK
      <4> QED
        BY <2>1, <2>3, <4>1, BudgetAssumption DEF BudgetInv
    <3>2. \A i \in Item : before[i] > 0 => i \in listed
      BY <2>1, <3>1 DEF BudgetInv
    <3>3. \A i \in Item : disk[i] = 0
      BY <2>1, <3>1, <3>2 DEF BudgetInv
    <3>4. IsFiniteSet(Item) /\ \A i \in Item : disk[i] \in Nat
      BY <3>1, BudgetAssumption
    <3> QED
      BY <3>3, <3>4, TotalIsNat, SumIsTotal
  <2> QED
    BY <2>2, <2>3 DEF ExceededButProtected
<1>2. listed \subseteq Needed
  BY DEF BudgetInv
<1>3. ASSUME dryRun, pc = "done" PROVE Needed \subseteq listed
  <2>1. IsMeasured
    BY <1>3 DEF IsMeasured
  <2>2. CASE used <= Budget
    BY <1>3, <2>1, <2>2, EnoughIsListed
  <2>3. CASE toTake = {}
    BY <2>1, <2>3 DEF BudgetInv, Needed
  <2> QED
    BY <1>3, <2>2, <2>3 DEF BudgetInv
<1> QED
  BY <1>1, <1>2, <1>3 DEF DryRunForetells

\* A pass removes what it must and no more and tells the truth about it, for any
\* number of items, their sizes, the order and the budget, whatever fails, and a
\* dry run foretells what it would do (_enforce_cache_budget).
THEOREM BudgetStaysTold == BudgetSpec => []BudgetTypeOK /\ BudgetIsTold
<1>1. BudgetInv /\ [BudgetNext]_budgetVars => (disk' # disk => OnDisk > Budget)
  <2> SUFFICES ASSUME BudgetInv, [BudgetNext]_budgetVars, disk' # disk PROVE OnDisk > Budget
    OBVIOUS
  <2>1. Reclaim
    BY DEF BudgetNext, Retention, Measure, Finish, budgetVars
  <2>2. used > Budget /\ IsMeasured /\ Budget \in Nat
    BY <2>1, ReclaimKeepsBudget, BudgetAssumption DEF Reclaim, IsMeasured
  <2>3. OnDisk \in Nat /\ used \in Nat /\ OnDisk >= used
    BY <2>2, DiskIs
  <2> QED
    BY <2>2, <2>3
<1>2. BudgetInv => BudgetTypeOK
  BY DEF BudgetInv
<1> QED
  BY <1>1, <1>2, BudgetInitLemma, BudgetStepLemma, BudgetIsTrue, PTL DEF BudgetSpec, BudgetIsTold, OnlyOverBudget

-------------------------------------------------------------------------------
(* The worker's tick.                                                        *)

\* What the worker runs is running, whoever else runs something.
DueInv ==
    /\ DueTypeOK
    /\ current # NoRunner => state[current] = "busy"

\* A due monitor that is off the list was run: it was busy, and is free.
LeavesByRun == \A m \in Monitor : m \in due /\ m \notin due' => state[m] = "busy" /\ state'[m] = "free"

\* A step of the worker.
LEMMA WorkerStep ==
    ASSUME DueInv, WorkerTick \/ WorkerDies
    PROVE  DueInv' /\ LeavesByRun
<1>1. /\ due \subseteq Monitor /\ paused \subseteq Monitor /\ state \in [Monitor -> {"free", "busy", "wedged"}]
      /\ phase \in {"asleep", "tasks", "groups"} /\ current \in Monitor \cup {NoRunner}
      /\ todo \subseteq (IF phase = "groups" THEN Group ELSE IF phase = "tasks" THEN DueTask ELSE {})
      /\ left \in Nat /\ left \in 0 .. Disruptions /\ Disruptions \in Nat
      /\ current # NoRunner => state[current] = "busy"
  BY DueLoopAssumption DEF DueInv, DueTypeOK
<1>2. NoRunner \notin Monitor /\ DueTask \subseteq Monitor /\ Group \subseteq Monitor
  BY DueLoopAssumption DEF Monitor
<1>3. CASE ListTasks \/ ListGroups \/ EndTick
  BY <1>1, <1>2, <1>3 DEF ListTasks, ListGroups, EndTick, Listed, DueInv, DueTypeOK, LeavesByRun
<1>4. CASE EndRun
  BY <1>1, <1>2, <1>4 DEF EndRun, DueInv, DueTypeOK, LeavesByRun
<1>5. CASE RaiseAgain
  BY <1>1, <1>2, <1>5 DEF RaiseAgain, Abort, DueInv, DueTypeOK, LeavesByRun
<1>6. ASSUME NEW m \in Monitor, BeginRun(m) PROVE DueInv' /\ LeavesByRun
  <2>1. state' \in [Monitor -> {"free", "busy", "wedged"}] /\ state'[m] = "busy" /\ current' = m
        /\ todo' \subseteq todo /\ UNCHANGED <<due, paused, phase, left>>
    BY <1>1, <1>6 DEF BeginRun
  <2> QED
    BY <1>1, <2>1 DEF DueInv, DueTypeOK, LeavesByRun
<1>7. ASSUME NEW m \in Monitor, Refuse(m) PROVE DueInv' /\ LeavesByRun
  BY <1>1, <1>7 DEF Refuse, Abort, DueInv, DueTypeOK, LeavesByRun
<1>8. CASE WorkerDies
  <2>1. state' \in [Monitor -> {"free", "busy", "wedged"}] /\ current' = NoRunner
        /\ left' \in 0 .. Disruptions /\ phase' = "asleep" /\ todo' = {} /\ UNCHANGED <<due, paused>>
    BY <1>1, <1>8 DEF WorkerDies, Disrupt, Abort
  <2> QED
    BY <1>1, <2>1 DEF DueInv, DueTypeOK, LeavesByRun
<1> QED
  BY <1>3, <1>4, <1>5, <1>6, <1>7, <1>8 DEF WorkerTick

\* A step of anybody else.
LEMMA AroundStep ==
    ASSUME DueInv, NEW m \in Monitor,
           BecomeDue(m) \/ Pause(m) \/ ResumeMonitor(m) \/ BeginManualRun(m) \/ EndManualRun(m)
    PROVE  DueInv' /\ LeavesByRun
<1>1. /\ due \subseteq Monitor /\ paused \subseteq Monitor /\ state \in [Monitor -> {"free", "busy", "wedged"}]
      /\ phase \in {"asleep", "tasks", "groups"} /\ current \in Monitor \cup {NoRunner}
      /\ todo \subseteq (IF phase = "groups" THEN Group ELSE IF phase = "tasks" THEN DueTask ELSE {})
      /\ left \in 0 .. Disruptions /\ Disruptions \in Nat
      /\ current # NoRunner => state[current] = "busy"
  BY DueLoopAssumption DEF DueInv, DueTypeOK
<1>2. CASE BecomeDue(m) \/ ResumeMonitor(m)
  BY <1>1, <1>2 DEF BecomeDue, ResumeMonitor, DueInv, DueTypeOK, LeavesByRun
<1>3. CASE Pause(m)
  <2>1. left' \in 0 .. Disruptions /\ paused' \subseteq Monitor /\ UNCHANGED <<due, state, phase, todo, current>>
    BY <1>1, <1>3 DEF Pause, Disrupt
  <2> QED
    BY <1>1, <2>1 DEF DueInv, DueTypeOK, LeavesByRun
<1>4. CASE BeginManualRun(m)
  <2>1. /\ left' \in 0 .. Disruptions /\ UNCHANGED <<due, paused, phase, todo, current>>
        /\ state' \in [Monitor -> {"free", "busy", "wedged"}]
        /\ \A n \in Monitor : state[n] = "busy" => state'[n] = "busy"
    BY <1>1, <1>4 DEF BeginManualRun, Disrupt
  <2>2. current' # NoRunner => state'[current'] = "busy"
    BY <1>1, <2>1
  <2> QED
    BY <1>1, <2>1, <2>2 DEF DueInv, DueTypeOK, LeavesByRun
<1>5. CASE EndManualRun(m)
  <2>1. /\ due' = due \ {m} /\ UNCHANGED <<paused, phase, todo, current, left>>
        /\ state' \in [Monitor -> {"free", "busy", "wedged"}] /\ state[m] = "busy" /\ state'[m] = "free"
        /\ current # m /\ \A n \in Monitor \ {m} : state'[n] = state[n]
    BY <1>1, <1>5 DEF EndManualRun
  <2>2. current' # NoRunner => state'[current'] = "busy"
    BY <1>1, <2>1
  <2> QED
    BY <1>1, <2>1, <2>2 DEF DueInv, DueTypeOK, LeavesByRun
<1> QED
  BY <1>2, <1>3, <1>4, <1>5

\* DueUntilRun, for any tasks, groups and disruptions: a refusal, an aborted
\* tick or a death costs a monitor its turn, and never its place in the schedule.
THEOREM DueStaysUntilRun == DueSpec => []DueTypeOK /\ DueUntilRun
<1>1. DueInit => DueInv
  <2> SUFFICES ASSUME DueInit PROVE DueInv
    OBVIOUS
  <2>1. left \in 0 .. Disruptions
    BY DueLoopAssumption DEF DueInit
  <2> QED
    BY <2>1 DEF DueInit, DueInv, DueTypeOK
<1>2. DueInv /\ [DueNext]_dueVars => DueInv' /\ (LeavesByRun \/ UNCHANGED dueVars)
  <2> SUFFICES ASSUME DueInv, [DueNext]_dueVars PROVE DueInv' /\ (LeavesByRun \/ UNCHANGED dueVars)
    OBVIOUS
  <2>1. CASE UNCHANGED dueVars
    BY <2>1 DEF dueVars, DueInv, DueTypeOK
  <2> QED
    BY <2>1, WorkerStep, AroundStep DEF DueNext
<1>3. DueInv /\ [DueNext]_dueVars =>
        [\A m \in Monitor : m \in due /\ m \notin due' => state[m] = "busy" /\ state'[m] = "free"]_dueVars
  BY <1>2 DEF LeavesByRun
<1>4. DueInv => DueTypeOK
  BY DEF DueInv
<1> QED
  BY <1>1, <1>2, <1>3, <1>4, PTL DEF DueSpec, DueUntilRun

-------------------------------------------------------------------------------
(* The store switches.                                                       *)

\* Once a session has read the row, the row stays.
RowStays ==
    /\ \A a \in Actors : read[a] # "absent" => binding # "absent"
    /\ NoRunWithoutRow

SwitchInv == SwitchTypeOK /\ RowStays

-----------------------------------------------------------------------------
\* Before the first start no session has read a row and nobody is up.
LEMMA SwitchInitLemma == SwitchInit => SwitchInv
BY DEF SwitchInit, SwitchInv, SwitchTypeOK, RowStays, NoRunWithoutRow, Busy, Rows,
       SwitchValues, Actors

\* The commit of a session leaves a row (sync_store_adapter_bindings,
\* update_store_binding).
LEMMA OverwriteLeavesRow ==
    ASSUME SwitchInv, NEW a \in Actors, Overwrite(a)
    PROVE  binding' \in SwitchValues \/ (binding' = binding /\ binding # "absent")
<1>1. value[a] \in SwitchValues /\ (read[a] # "absent" => binding # "absent")
  BY DEF SwitchInv, SwitchTypeOK, RowStays
<1> QED
  BY <1>1 DEF Overwrite, SwitchValues

\* Starts, commits, failed inserts, stops and requests preserve it.
LEMMA SwitchStepLemma == SwitchInv /\ [SwitchNext]_switchVars => SwitchInv'
<1> SUFFICES ASSUME SwitchInv, [SwitchNext]_switchVars PROVE SwitchInv'
  OBVIOUS
<1> USE DEF SwitchInv, SwitchTypeOK, RowStays, NoRunWithoutRow, Move, Rows, Busy
<1>1. ASSUME NEW p \in Processes, StartProcess(p) PROVE SwitchInv'
  BY <1>1 DEF StartProcess, Actors
<1>2. ASSUME NEW p \in Processes, LoadBindings(p) PROVE SwitchInv'
  BY <1>2 DEF LoadBindings, Actors
<1>3. ASSUME NEW p \in Processes, CommitSync(p) PROVE SwitchInv'
  <2>1. p \in Actors
    BY DEF Actors
  <2>2. binding' \in Rows /\ binding' # "absent"
    BY <1>3, <2>1, OverwriteLeavesRow DEF CommitSync, SwitchValues
  <2> QED
    BY <1>3, <2>1, <2>2 DEF CommitSync, Actors
<1>4. ASSUME NEW p \in Processes, InsertTwice(p) PROVE SwitchInv'
  BY <1>4 DEF InsertTwice, Actors
<1>5. ASSUME NEW p \in Processes, StopProcess(p) PROVE SwitchInv'
  BY <1>5 DEF StopProcess, Actors
<1>6. ASSUME NEW o \in Operators, Ask(o) PROVE SwitchInv'
  BY <1>6, SettersAssumption DEF Ask, Actors
<1>7. ASSUME NEW o \in Operators, FindBinding(o) PROVE SwitchInv'
  BY <1>7, SettersAssumption DEF FindBinding, Actors
<1>8. ASSUME NEW o \in Operators, CommitSwitchPatch(o) PROVE SwitchInv'
  <2>1. o \in Actors
    BY DEF Actors
  <2>2. binding' \in Rows /\ binding' # "absent"
    BY <1>8, <2>1, OverwriteLeavesRow DEF CommitSwitchPatch, SwitchValues
  <2> QED
    BY <1>8, <2>1, <2>2, SettersAssumption DEF CommitSwitchPatch, Actors
<1>9. ASSUME NEW o \in Operators, LosePatch(o) PROVE SwitchInv'
  BY <1>9, SettersAssumption DEF LosePatch, Actors
<1>10. CASE UNCHANGED switchVars
  BY <1>10 DEF switchVars
<1> QED
  BY <1>1, <1>2, <1>3, <1>4, <1>5, <1>6, <1>7, <1>8, <1>9, <1>10 DEF SwitchNext, SyncStep

\* So it holds of every behaviour.
LEMMA SwitchInvLemma == SwitchSpec => []SwitchInv
BY SwitchInitLemma, SwitchStepLemma, PTL DEF SwitchSpec

\* The row, the values and the sessions keep to their types.
THEOREM SwitchTypeCorrect == SwitchSpec => []SwitchTypeOK
<1>1. SwitchInv => SwitchTypeOK
  BY DEF SwitchInv
<1> QED
  BY <1>1, SwitchInvLemma, PTL

\* A process that is up has a row for its store: "no row means enabled" never
\* lets a store through (_is_store_binding_enabled).
THEOREM RowsComeFirst == SwitchSpec => []NoRunWithoutRow
<1>1. SwitchInv => NoRunWithoutRow
  BY DEF SwitchInv, RowStays
<1> QED
  BY <1>1, SwitchInvLemma, PTL

-----------------------------------------------------------------------------
(* The refinement.                                                         *)

\* A step of one actor that asks, has its effect, gives up or changes nothing.
LEMMA OneActorSteps ==
    ASSUME SwitchTypeOK, NEW a \in Actors,
           \A b \in Actors : b # a => Wanted(b)' = Wanted(b),
           \/ Wanted(a) = "nothing" /\ Wanted(a)' \in SwitchValues /\ binding' = binding
           \/ Wanted(a) # "nothing" /\ Wanted(a)' = "nothing" /\ binding' = Wanted(a)
           \/ Wanted(a) # "nothing" /\ Wanted(a)' = "nothing" /\ binding' = binding
           \/ Wanted(a)' = Wanted(a) /\ binding' = binding
    PROVE  [Register!RegNext]_(Register!regVars)
<1> DEFINE W == [b \in Actors |-> Wanted(b)]
           V == [b \in Actors |-> Wanted(b)']
<1>1. V = [W EXCEPT ![a] = Wanted(a)']
  OBVIOUS
<1>2. CASE Wanted(a) = "nothing" /\ Wanted(a)' \in SwitchValues /\ binding' = binding
  <2>1. Register!Ask(a)
    BY <1>1, <1>2 DEF Register!Ask, SwitchValues
  <2> QED
    BY <2>1 DEF Register!RegNext
<1>3. CASE Wanted(a) # "nothing" /\ Wanted(a)' = "nothing" /\ binding' = Wanted(a)
  <2>1. Register!TakeEffect(a)
    BY <1>1, <1>3 DEF Register!TakeEffect
  <2> QED
    BY <2>1 DEF Register!RegNext
<1>4. CASE Wanted(a) # "nothing" /\ Wanted(a)' = "nothing" /\ binding' = binding
  <2>1. Register!GiveUp(a)
    BY <1>1, <1>4 DEF Register!GiveUp
  <2> QED
    BY <2>1 DEF Register!RegNext
<1>5. CASE Wanted(a)' = Wanted(a) /\ binding' = binding
  <2>1. V = W
    BY <1>5
  <2> QED
    BY <1>5, <2>1 DEF Register!regVars
<1> QED
  BY <1>2, <1>3, <1>4, <1>5

\* Without a row nothing is set, and nobody wants anything.
LEMMA RegisterInit == SwitchInit => Register!RegInit
BY DEF SwitchInit, Register!RegInit, Wanted, Actors

\* Each step of a process or a request is a step of the register or a stutter.
LEMMA RegisterStep ==
    SwitchInv /\ [SwitchNext]_switchVars => [Register!RegNext]_(Register!regVars)
<1> SUFFICES ASSUME SwitchTypeOK, [SwitchNext]_switchVars
             PROVE  [Register!RegNext]_(Register!regVars)
  BY DEF SwitchInv
<1> USE DEF SwitchTypeOK, Move, Wanted, SwitchValues, Rows, Busy
<1>1. ASSUME NEW p \in Processes, StartProcess(p) PROVE [Register!RegNext]_(Register!regVars)
  <2>1. p \in Actors
    BY DEF Actors
  <2> QED
    BY <1>1, <2>1, OneActorSteps DEF StartProcess
<1>2. ASSUME NEW p \in Processes, LoadBindings(p) PROVE [Register!RegNext]_(Register!regVars)
  <2>1. p \in Actors
    BY DEF Actors
  <2> QED
    BY <1>2, <2>1, OneActorSteps DEF LoadBindings
<1>3. ASSUME NEW p \in Processes, CommitSync(p) PROVE [Register!RegNext]_(Register!regVars)
  <2>1. p \in Actors
    BY DEF Actors
  <2> QED
    BY <1>3, <2>1, OneActorSteps DEF CommitSync, Overwrite
<1>4. ASSUME NEW p \in Processes, InsertTwice(p) PROVE [Register!RegNext]_(Register!regVars)
  <2>1. p \in Actors
    BY DEF Actors
  <2> QED
    BY <1>4, <2>1, OneActorSteps DEF InsertTwice
<1>5. ASSUME NEW p \in Processes, StopProcess(p) PROVE [Register!RegNext]_(Register!regVars)
  <2>1. p \in Actors
    BY DEF Actors
  <2> QED
    BY <1>5, <2>1, OneActorSteps DEF StopProcess
<1>6. ASSUME NEW o \in Operators, Ask(o) PROVE [Register!RegNext]_(Register!regVars)
  <2>1. o \in Actors
    BY DEF Actors
  <2> QED
    BY <1>6, <2>1, OneActorSteps DEF Ask
<1>7. ASSUME NEW o \in Operators, FindBinding(o) PROVE [Register!RegNext]_(Register!regVars)
  <2>1. o \in Actors
    BY DEF Actors
  <2> QED
    BY <1>7, <2>1, OneActorSteps DEF FindBinding
<1>8. ASSUME NEW o \in Operators, CommitSwitchPatch(o) PROVE [Register!RegNext]_(Register!regVars)
  <2>1. o \in Actors
    BY DEF Actors
  <2> QED
    BY <1>8, <2>1, OneActorSteps DEF CommitSwitchPatch, Overwrite
<1>9. ASSUME NEW o \in Operators, LosePatch(o) PROVE [Register!RegNext]_(Register!regVars)
  <2>1. o \in Actors
    BY DEF Actors
  <2> QED
    BY <1>9, <2>1, OneActorSteps DEF LosePatch
<1>10. CASE UNCHANGED switchVars
  BY <1>10 DEF switchVars, Register!regVars
<1> QED
  BY <1>1, <1>2, <1>3, <1>4, <1>5, <1>6, <1>7, <1>8, <1>9, <1>10 DEF SwitchNext, SyncStep

\* Every restart and every PATCH takes effect at one moment of its own or is
\* given up: the switch is one register, the last setting wins.
THEOREM SwitchImplementsRegister == SwitchSpec => SwitchIsOneRegister
BY RegisterInit, RegisterStep, SwitchInvLemma, PTL
   DEF SwitchSpec, SwitchIsOneRegister, Register!RegSpec

\* Starts and PATCHes from any number of processes act on one register, which
\* exists before anybody reads it.
THEOREM SwitchesStaySafe == SwitchSpec => SwitchesAreSafe
BY RowsComeFirst, SwitchImplementsRegister DEF SwitchesAreSafe

-------------------------------------------------------------------------------
(* The pass over the stores.                                                 *)

\* What was granted has been taken from the budget.
BudgetIsKept == BudgetSize > 0 => granted + retries = BudgetSize

\* Who makes the context holds the lock, and nobody has made one meanwhile.
MakerHoldsLock ==
    \A u \in Urls :
        /\ fetch[u] \in {"create", "route"} => ctxLock = u
        /\ fetch[u] = "create" => context = "none"

\* An open page is one of a task that is fetching or parsing it.
PagesHaveTasks ==
    \A u \in Urls : page[u] =>
        /\ turn = "parse" /\ u \in Started /\ task[u] \in Running
        /\ fetch[u] \in {"load", "blocked", "page"}

\* The offers that the audit loop has passed.
AuditedOffers == {u \in 1 .. audited : task[u] = "offer"}

\* The counters of a store belong to its stages, and every deal that was stored
\* is collected or still counted.
BooksBalance ==
    /\ found = collected + deals
    /\ deals # 0 => turn \in {"audit", "health"}
    /\ errors # 0 \/ audited # 0 => turn = "audit"
    /\ total # 0 => turn \in {"parse", "audit"}
    /\ audited <= total
    /\ turn = "audit" => deals + errors <= Cardinality(AuditedOffers)
    /\ turn = "health" /\ stats.restricted => deals = 0
    /\ turn \in {"discover", "parse", "audit", "health"} => store <= Stores

\* What a pass over the stores rests on.
ImportInv ==
    /\ ImportTypeOK /\ BudgetIsKept /\ MakerHoldsLock /\ PagesHaveTasks
    /\ BooksBalance /\ StatsAddUp

-----------------------------------------------------------------------------
\* A pass that has not begun has nothing on its books.
LEMMA ImportInitLemma == ImportInit => ImportInv
<1> SUFFICES ASSUME ImportInit PROVE ImportInv
  OBVIOUS
<1>1. ClientTypeOK /\ BudgetIsKept /\ MakerHoldsLock /\ PagesHaveTasks
  BY ClientAssumption DEF ImportInit, ClientInit, ClientTypeOK, BudgetIsKept, MakerHoldsLock,
     PagesHaveTasks
<1>2. ImportTypeOK /\ StatsAddUp
  BY <1>1, ClientAssumption, ImportAssumption
     DEF ImportInit, ImportTypeOK, Phases, NoStats, StatsSet, StatsAddUp
<1>3. BooksBalance
  BY DEF ImportInit, BooksBalance
<1> QED
  BY <1>1, <1>2, <1>3 DEF ImportInv

\* The steps of fetch_page keep the budget and the lock, and leave no page of
\* their own open where none may be.
LEMMA FetchSteps ==
    ASSUME ImportInv, NEW u \in Urls, FetchStep(u)
    PROVE  /\ ClientTypeOK' /\ BudgetIsKept' /\ MakerHoldsLock'
           /\ \A v \in Urls \ {u} : page'[v] = page[v] /\ fetch'[v] = fetch[v]
           /\ page'[u] => fetch'[u] \in {"load", "blocked", "page"}
<1>a. /\ ClientTypeOK /\ BudgetIsKept /\ MakerHoldsLock
      /\ page[u] => fetch[u] \in {"load", "blocked", "page"}
  BY DEF ImportInv, ImportTypeOK, PagesHaveTasks
<1>b. u # Nobody
  BY DEF Urls, Nobody
<1>c. ASSUME NEW to \in InFetch \cup Results, Goto(u, to)
      PROVE  /\ fetch' \in [Urls -> InFetch \cup Results \cup {"off"}] /\ fetch'[u] = to
             /\ \A v \in Urls \ {u} : fetch'[v] = fetch[v]
  BY <1>a, <1>c DEF Goto, ClientTypeOK
<1>1. CASE LookForContext(u)
  <2>1. PICK to \in {"lock", "open"} : Goto(u, to)
    BY <1>1 DEF LookForContext
  <2>2. UNCHANGED <<shared, attempt, page>> /\ fetch[u] = "context"
    BY <1>1 DEF LookForContext
  <2> QED
    BY <1>a, <1>c, <2>1, <2>2 DEF shared, ClientTypeOK, BudgetIsKept, MakerHoldsLock, InFetch
<1>2. CASE LockContext(u)
  <2>1. fetch[u] = "lock" /\ ctxLock = Nobody /\ UNCHANGED <<context, retries, blockStreak, granted, attempt, page>>
    BY <1>2 DEF LockContext
  <2>2. CASE context # "none" /\ Goto(u, "open") /\ UNCHANGED ctxLock
    BY <1>a, <1>c, <2>1, <2>2 DEF ClientTypeOK, BudgetIsKept, MakerHoldsLock, InFetch
  <2>3. CASE context = "none" /\ Goto(u, "create") /\ ctxLock' = u
    BY <1>a, <1>b, <1>c, <2>1, <2>3 DEF ClientTypeOK, BudgetIsKept, MakerHoldsLock, InFetch, Nobody, Urls
  <2> QED
    BY <1>2, <2>2, <2>3 DEF LockContext
<1>3. CASE CreateContext(u)
  <2>1. fetch[u] = "create" /\ context' = "opened" /\ Goto(u, "route")
        /\ UNCHANGED <<ctxLock, retries, blockStreak, granted, attempt, page>>
    BY <1>3 DEF CreateContext
  <2>2. \A v \in Urls \ {u} : fetch[v] \notin {"create", "route"}
    BY <1>a, <2>1 DEF MakerHoldsLock
  <2> QED
    BY <1>a, <1>c, <2>1, <2>2 DEF ClientTypeOK, BudgetIsKept, MakerHoldsLock, InFetch
<1>4. CASE ApplyRouting(u)
  <2>1. fetch[u] = "route" /\ context' = "ready" /\ ctxLock' = Nobody /\ Goto(u, "open")
        /\ UNCHANGED <<retries, blockStreak, granted, attempt, page>>
    BY <1>4 DEF ApplyRouting
  <2>2. \A v \in Urls \ {u} : fetch[v] \notin {"create", "route"}
    BY <1>a, <2>1 DEF MakerHoldsLock
  <2> QED
    BY <1>a, <1>c, <2>1, <2>2 DEF ClientTypeOK, BudgetIsKept, MakerHoldsLock, InFetch
<1>5. CASE OpenPage(u)
  <2>1. Goto(u, "load") /\ fetch[u] = "open" /\ UNCHANGED <<shared, attempt>> /\ page' = [page EXCEPT ![u] = TRUE]
    BY <1>5 DEF OpenPage
  <2> QED
    BY <1>a, <1>c, <2>1 DEF shared, ClientTypeOK, BudgetIsKept, MakerHoldsLock, InFetch
<1>6. CASE LoadClear(u) \/ LoadBlocked(u)
  <2>1. PICK to \in {"page", "blocked"} : Goto(u, to)
    BY <1>6 DEF LoadClear, LoadBlocked
  <2>2. /\ fetch[u] = "load" /\ blockStreak' \in {0, blockStreak}
        /\ UNCHANGED <<context, ctxLock, retries, granted, attempt, page>>
    BY <1>6 DEF LoadClear, LoadBlocked, shared
  <2> QED
    BY <1>a, <1>c, <2>1, <2>2 DEF ClientTypeOK, BudgetIsKept, MakerHoldsLock, InFetch, Results
<1>7. CASE CountBlocked(u)
  <2>1. /\ fetch[u] = "blocked" /\ blockStreak' = blockStreak + 1
        /\ UNCHANGED <<context, ctxLock, retries, granted, attempt>>
    BY <1>7 DEF CountBlocked
  <2>2. CASE Goto(u, "page") /\ UNCHANGED page
    BY <1>a, <1>c, <2>1, <2>2 DEF ClientTypeOK, BudgetIsKept, MakerHoldsLock, InFetch, Results
  <2>3. CASE Goto(u, "stopped") /\ page' = [page EXCEPT ![u] = FALSE]
    BY <1>a, <1>c, <2>1, <2>3 DEF ClientTypeOK, BudgetIsKept, MakerHoldsLock, InFetch, Results
  <2> QED
    BY <1>7, <2>2, <2>3 DEF CountBlocked
<1>8. CASE FailAndRetry(u) \/ FailForGood(u)
  <2>1. PICK to \in {"backoff", "failed"} : Goto(u, to)
    BY <1>8 DEF FailAndRetry, FailForGood
  <2>2. /\ page' = [page EXCEPT ![u] = FALSE] /\ ReleaseLock(u) /\ UNCHANGED <<context, blockStreak>>
    BY <1>8 DEF FailAndRetry, FailForGood
  <2>3. /\ attempt' \in [Urls -> 1 .. RetryAttempts]
        /\ retries' \in 0 .. BudgetSize /\ granted' \in Nat /\ BudgetIsKept'
    <3>1. CASE FailAndRetry(u)
      <4>1. attempt[u] < RetryAttempts /\ attempt' = [attempt EXCEPT ![u] = @ + 1]
            /\ BudgetLeft /\ Consume /\ granted' = granted + 1
        BY <3>1 DEF FailAndRetry
      <4>2. attempt[u] + 1 \in 1 .. RetryAttempts
        BY <1>a, <4>1, ClientAssumption DEF ClientTypeOK
      <4>3. attempt' \in [Urls -> 1 .. RetryAttempts]
        BY <1>a, <4>1, <4>2 DEF ClientTypeOK
      <4>4. retries' \in 0 .. BudgetSize /\ granted' \in Nat /\ BudgetIsKept'
        BY <1>a, <4>1, ClientAssumption DEF ClientTypeOK, BudgetLeft, Consume, BudgetIsKept
      <4> QED
        BY <4>3, <4>4
    <3>2. CASE FailForGood(u)
      BY <1>a, <3>2 DEF FailForGood, ClientTypeOK, BudgetIsKept
    <3> QED
      BY <1>8, <3>1, <3>2
  <2>4. ctxLock' \in Urls \cup {Nobody} /\ (ctxLock # u => ctxLock' = ctxLock)
    BY <1>a, <2>2 DEF ReleaseLock, ClientTypeOK
  <2>5. ClientTypeOK'
    BY <1>a, <1>c, <2>1, <2>2, <2>3, <2>4 DEF ClientTypeOK, InFetch, Results
  <2>6. MakerHoldsLock'
    BY <1>a, <1>c, <2>1, <2>2, <2>4 DEF MakerHoldsLock, InFetch, Results
  <2>7. /\ \A v \in Urls \ {u} : page'[v] = page[v] /\ fetch'[v] = fetch[v]
        /\ ~page'[u]
    BY <1>a, <1>c, <2>1, <2>2 DEF InFetch, Results, ClientTypeOK
  <2> QED
    BY <2>3, <2>5, <2>6, <2>7
<1>9. CASE Resume(u)
  BY <1>a, <1>c, <1>9 DEF Resume, shared, ClientTypeOK, BudgetIsKept, MakerHoldsLock, InFetch
<1> QED
  BY <1>1, <1>2, <1>3, <1>4, <1>5, <1>6, <1>7, <1>8, <1>9 DEF FetchStep

-----------------------------------------------------------------------------
\* The tasks of a store are as many as its urls, and the offers and the urls
\* that were skipped are different ones.
LEMMA TasksAreCounted ==
    ASSUME ImportInv
    PROVE  /\ Cardinality(Tasks({"offer"})) \in Nat /\ Cardinality(Tasks({"skip"})) \in Nat
           /\ Cardinality(Tasks({"offer"})) + Cardinality(Tasks({"skip"})) <= total
<1>1. IsFiniteSet(Started) /\ Cardinality(Started) = total
  BY FS_Interval DEF Started, ImportInv, ImportTypeOK
<1>2. IsFiniteSet(Tasks({"offer"})) /\ IsFiniteSet(Tasks({"skip"}))
  BY <1>1, FS_Subset DEF Tasks
<1>3. Tasks({"offer"}) \cap Tasks({"skip"}) = {}
  BY DEF Tasks
<1>4. Cardinality(Tasks({"offer"})) \in Nat /\ Cardinality(Tasks({"skip"})) \in Nat
  BY <1>2, FS_CardinalityType
<1>5. Cardinality(Tasks({"offer"}) \cup Tasks({"skip"}))
        = Cardinality(Tasks({"offer"})) + Cardinality(Tasks({"skip"}))
  <2>1. Cardinality(Tasks({"offer"}) \cup Tasks({"skip"}))
          = Cardinality(Tasks({"offer"})) + Cardinality(Tasks({"skip"}))
            - Cardinality(Tasks({"offer"}) \cap Tasks({"skip"}))
    BY <1>2, FS_Union, Zenon
  <2>2. Cardinality(Tasks({"offer"}) \cap Tasks({"skip"})) = 0
    BY <1>3, FS_EmptySet, Zenon
  <2> QED
    BY <1>4, <2>1, <2>2
<1>6. Cardinality(Tasks({"offer"}) \cup Tasks({"skip"})) <= Cardinality(Started)
  <2>1. Tasks({"offer"}) \cup Tasks({"skip"}) \subseteq Started
    BY DEF Tasks
  <2> QED
    BY <1>1, <2>1, FS_Subset
<1> QED
  BY <1>1, <1>4, <1>5, <1>6

\* What _set_run_stats writes is of this store.
LEMMA StatsAreSet ==
    ASSUME ImportInv, store <= Stores, NEW p \in Nat, NEW e \in Nat, NEW d \in Nat,
           NEW r \in BOOLEAN, SetStats(p, e, d, r)
    PROVE  /\ stats' \in StatsSet /\ stats'.store = store /\ stats'.discovered = total
           /\ stats'.parsed = p /\ stats'.errors = e /\ stats'.deals = d
           /\ stats'.skipped = Cardinality(Tasks({"skip"})) /\ stats'.restricted = r
<1>1. total \in Nat /\ store \in 0 .. Stores /\ Cardinality(Tasks({"skip"})) \in Nat
  BY TasksAreCounted, ClientAssumption, ImportAssumption DEF ImportInv, ImportTypeOK
<1> QED
  BY <1>1 DEF SetStats, StatsSet

\* The locals of run_store start anew, and no page is left open.
LEMMA LocalsAreGone ==
    ASSUME ImportInv, ReturnFromStore, \A u \in Urls : ~page'[u],
           store' = store, collected' = collected, found' = found, deals' = deals,
           store <= Stores, stats'.restricted => deals = 0
    PROVE  /\ PagesHaveTasks' /\ BooksBalance' /\ turn' = "health"
           /\ total' = 0 /\ audited' = 0 /\ errors' = 0
           /\ task' = [u \in Urls |-> "queued"] /\ attempt' = [u \in Urls |-> 1]
BY DEF ReturnFromStore, PagesHaveTasks, BooksBalance, ImportInv

\* Nothing in the client moves.
LEMMA ClientRests ==
    ASSUME ImportInv, UNCHANGED clientVars
    PROVE  ClientTypeOK' /\ BudgetIsKept' /\ MakerHoldsLock'
BY DEF ImportInv, ImportTypeOK, clientVars, ClientTypeOK, BudgetIsKept, MakerHoldsLock

\* Until a store has urls its books are empty.
LEMMA DiscoverySteps ==
    ASSUME ImportInv, BuildAdapter \/ Discover \/ DiscoverNothing PROVE ImportInv'
<1>a. ImportTypeOK /\ PagesHaveTasks /\ BooksBalance /\ StatsAddUp
  BY DEF ImportInv
<1>b. /\ UNCHANGED <<clientVars, store, task, audited, errors, deals, passVars, found>>
      /\ turn \in {"build", "discover"} /\ store <= Stores
  BY <1>a DEF BuildAdapter, Discover, DiscoverNothing, BooksBalance
<1>c. ClientTypeOK' /\ BudgetIsKept' /\ MakerHoldsLock'
  BY <1>b, ClientRests
<1>d. PagesHaveTasks'
  BY <1>a, <1>b DEF PagesHaveTasks, clientVars
<1>e. total = 0 /\ deals = 0 /\ audited = 0 /\ errors = 0 /\ found = collected
      /\ collected \in Nat
  BY <1>a, <1>b DEF BooksBalance, ImportTypeOK
<1>f. UNCHANGED <<collected, found, deals, audited, errors, store>>
  BY <1>b DEF passVars
<1>1. CASE BuildAdapter
  <2>1. total' = total /\ turn' \in {"discover", "health"}
    BY <1>1 DEF BuildAdapter
  <2>2. BooksBalance'
    BY <1>b, <1>e, <1>f, <2>1 DEF BooksBalance
  <2>3. stats' \in StatsSet /\ StatsAddUp'
    <3>1. CASE turn' = "discover" /\ UNCHANGED stats
      BY <1>a, <3>1 DEF ImportTypeOK, StatsAddUp
    <3>2. CASE stats' = [NoStats EXCEPT !.store = store, !.errors = 1, !.restricted = stats.restricted]
      <4>1. store \in 0 .. Stores /\ stats.restricted \in BOOLEAN
        BY <1>a, <1>b, ImportAssumption DEF ImportTypeOK, StatsSet
      <4>2. stats' = [store |-> store, discovered |-> 0, parsed |-> 0, errors |-> 1,
                      deals |-> 0, skipped |-> 0, restricted |-> stats.restricted]
        BY <3>2 DEF NoStats
      <4> QED
        BY <1>f, <4>1, <4>2 DEF StatsSet, StatsAddUp
    <3> QED
      BY <1>1, <3>1, <3>2 DEF BuildAdapter
  <2>4. ImportTypeOK'
    BY <1>a, <1>b, <1>c, <2>1, <2>3 DEF ImportTypeOK, passVars, Phases
  <2> QED
    BY <1>c, <1>d, <2>2, <2>3, <2>4 DEF ImportInv
<1>2. CASE Discover
  <2>1. total' \in 1 .. MaxUrls /\ turn' = "parse" /\ UNCHANGED stats
    BY <1>2 DEF Discover
  <2>2. BooksBalance'
    BY <1>b, <1>e, <1>f, <2>1 DEF BooksBalance
  <2>3. StatsAddUp'
    BY <2>1 DEF StatsAddUp
  <2>4. ImportTypeOK'
    BY <1>a, <1>b, <1>c, <2>1, ClientAssumption DEF ImportTypeOK, passVars, Phases
  <2> QED
    BY <1>c, <1>d, <2>2, <2>3, <2>4 DEF ImportInv
<1>3. CASE DiscoverNothing
  <2>1. PICK errs \in {0, 1} : SetStats(0, errs, 0, FALSE)
    BY <1>3 DEF DiscoverNothing
  <2>2. total' = total /\ turn' = "health"
    BY <1>3 DEF DiscoverNothing
  <2>3. /\ stats' \in StatsSet /\ stats'.store = store /\ stats'.discovered = total
        /\ stats'.parsed = 0 /\ stats'.skipped = Cardinality(Tasks({"skip"}))
        /\ ~stats'.restricted
    BY <1>b, <2>1, StatsAreSet
  <2>4. Cardinality(Tasks({"skip"})) = 0
    BY <1>e, TasksAreCounted
  <2>5. BooksBalance' /\ StatsAddUp'
    BY <1>b, <1>e, <1>f, <2>2, <2>3, <2>4 DEF BooksBalance, StatsAddUp
  <2>6. ImportTypeOK'
    BY <1>a, <1>b, <1>c, <2>2, <2>3 DEF ImportTypeOK, passVars, Phases
  <2> QED
    BY <1>c, <1>d, <2>5, <2>6 DEF ImportInv
<1> QED
  BY <1>1, <1>2, <1>3

\* The tasks of a store move nothing but themselves and the client.
LEMMA TaskSteps ==
    ASSUME ImportInv, NEW u \in Urls, EnterSemaphore(u) \/ Fetch(u) \/ FetchEnds(u) \/ ParseEnds(u)
    PROVE  ImportInv'
<1>a. /\ ImportTypeOK /\ PagesHaveTasks /\ BooksBalance /\ StatsAddUp
      /\ ClientTypeOK /\ BudgetIsKept /\ MakerHoldsLock
  BY DEF ImportInv, ImportTypeOK
<1>b. /\ UNCHANGED <<store, turn, total, audited, errors, deals, stats, passVars, found>>
      /\ turn = "parse"
  BY DEF EnterSemaphore, Fetch, FetchEnds, ParseEnds
<1>c. BooksBalance' /\ StatsAddUp'
  BY <1>a, <1>b DEF BooksBalance, StatsAddUp, passVars
<1>d. ASSUME ClientTypeOK', BudgetIsKept', MakerHoldsLock', PagesHaveTasks',
             task' \in [Urls -> {"queued"} \cup Running \cup Outcomes]
      PROVE  ImportInv'
  <2>1. ImportTypeOK'
    BY <1>a, <1>b, <1>d DEF ImportTypeOK, passVars
  <2> QED
    BY <1>c, <1>d, <2>1 DEF ImportInv
<1>e. ASSUME NEW what \in Running \cup Outcomes, PassBecomes(u, what)
      PROVE  /\ task' \in [Urls -> {"queued"} \cup Running \cup Outcomes] /\ task'[u] = what
             /\ \A v \in Urls \ {u} : task'[v] = task[v]
  BY <1>a, <1>e DEF PassBecomes, ImportTypeOK
<1>1. CASE EnterSemaphore(u)
  <2>1. /\ task[u] = "queued" /\ PassBecomes(u, "fetching") /\ Goto(u, "context")
        /\ attempt' = [attempt EXCEPT ![u] = 1] /\ UNCHANGED <<shared, page>>
    BY <1>1 DEF EnterSemaphore, StartFetch
  <2>2. ~page[u]
    BY <1>a, <2>1 DEF PagesHaveTasks, Running
  <2>3. ClientTypeOK' /\ BudgetIsKept' /\ MakerHoldsLock'
    BY <1>a, <2>1, ClientAssumption DEF Goto, shared, ClientTypeOK, BudgetIsKept, MakerHoldsLock, InFetch
  <2>4. PagesHaveTasks'
    BY <1>a, <1>b, <1>e, <2>1, <2>2 DEF PagesHaveTasks, Running, Goto, ClientTypeOK, Started
  <2> QED
    BY <1>d, <1>e, <2>1, <2>3, <2>4 DEF Running
<1>2. CASE Fetch(u)
  <2>1. u \in Started /\ task[u] = "fetching" /\ FetchStep(u) /\ UNCHANGED task
    BY <1>2 DEF Fetch
  <2>2. PagesHaveTasks'
    BY <1>a, <1>b, <2>1, FetchSteps DEF PagesHaveTasks, Running, Started
  <2> QED
    BY <1>a, <1>d, <2>1, <2>2, FetchSteps DEF ImportTypeOK
<1>3. CASE FetchEnds(u)
  <2>1. task[u] = "fetching" /\ UNCHANGED clientVars
    BY <1>3 DEF FetchEnds
  <2>2. \/ fetch[u] = "page" /\ PassBecomes(u, "parsing")
        \/ fetch[u] \in {"failed", "stopped"} /\ \E what \in {"nil", "stop"} : PassBecomes(u, what)
    BY <1>3 DEF FetchEnds
  <2>3. /\ task' \in [Urls -> {"queued"} \cup Running \cup Outcomes]
        /\ \A v \in Urls \ {u} : task'[v] = task[v]
        /\ fetch[u] = "page" => task'[u] = "parsing"
    BY <2>2, <1>e DEF Running, Outcomes
  <2>4. fetch[u] # "page" => ~page[u]
    BY <1>a, <2>2 DEF PagesHaveTasks
  <2>5. PagesHaveTasks'
    BY <1>a, <1>b, <2>1, <2>3, <2>4 DEF PagesHaveTasks, Running, clientVars, Started
  <2> QED
    BY <1>d, <2>1, <2>3, <2>5, ClientRests
<1>4. CASE ParseEnds(u)
  <2>1. /\ page' = [page EXCEPT ![u] = FALSE] /\ UNCHANGED <<shared, fetch, attempt>>
        /\ \E what \in {"offer", "nil", "skip"} : PassBecomes(u, what)
    BY <1>4 DEF ParseEnds
  <2>2. /\ task' \in [Urls -> {"queued"} \cup Running \cup Outcomes]
        /\ \A v \in Urls \ {u} : task'[v] = task[v]
    BY <2>1, <1>e DEF Outcomes
  <2>3. ClientTypeOK' /\ BudgetIsKept' /\ MakerHoldsLock'
    BY <1>a, <2>1 DEF shared, ClientTypeOK, BudgetIsKept, MakerHoldsLock
  <2>4. PagesHaveTasks'
    BY <1>a, <1>b, <2>1, <2>2 DEF PagesHaveTasks, ClientTypeOK, Started
  <2> QED
    BY <1>d, <2>2, <2>3, <2>4
<1> QED
  BY <1>1, <1>2, <1>3, <1>4

\* A store that is stopped or finished leaves no page open, and its stats add up.
LEMMA StoreEnds ==
    ASSUME ImportInv, StopStore \/ FinishStore PROVE ImportInv'
<1>a. /\ ImportTypeOK /\ PagesHaveTasks /\ BooksBalance /\ StatsAddUp
      /\ ClientTypeOK /\ BudgetIsKept /\ MakerHoldsLock
  BY DEF ImportInv, ImportTypeOK
<1>b. /\ ReturnFromStore /\ turn \in {"parse", "audit"}
      /\ UNCHANGED <<store, deals, passVars, found, context, retries, blockStreak, granted>>
      /\ fetch' = [u \in Urls |-> "off"]
      /\ ctxLock' \in {ctxLock, Nobody}
  BY DEF StopStore, FinishStore, CancelFetches, shared
<1>c. page' \in [Urls -> BOOLEAN] /\ \A u \in Urls : ~page'[u]
  <2>1. CASE StopStore
    <3>1. page' = [u \in Urls |-> page[u] /\ u \notin Tasks({"queued"} \cup Running)]
      BY <2>1 DEF StopStore, CancelFetches
    <3>2. \A u \in Urls : page[u] => u \in Tasks({"queued"} \cup Running)
      BY <1>a DEF PagesHaveTasks, Tasks
    <3> QED
      BY <3>1, <3>2
  <2>2. CASE FinishStore
    <3>1. UNCHANGED page /\ turn = "audit"
      BY <2>2 DEF FinishStore
    <3> QED
      BY <1>a, <3>1 DEF PagesHaveTasks, ClientTypeOK
  <2> QED
    BY <2>1, <2>2
<1>d. store <= Stores /\ deals \in Nat
  BY <1>a, <1>b, ClientAssumption DEF BooksBalance, ImportTypeOK
<1>1. /\ stats' \in StatsSet /\ stats'.store = store
      /\ stats'.parsed + stats'.skipped <= stats'.discovered
      /\ stats'.parsed > 0 => stats'.deals + stats'.errors <= stats'.parsed
      /\ stats'.restricted => stats'.parsed = 0 /\ stats'.deals = 0 /\ deals = 0
  <2>1. CASE StopStore
    <3>1. SetStats(0, 2, 0, TRUE) /\ turn = "parse"
      BY <2>1 DEF StopStore
    <3>2. /\ stats' \in StatsSet /\ stats'.store = store /\ stats'.discovered = total
          /\ stats'.parsed = 0 /\ stats'.deals = 0
          /\ stats'.skipped = Cardinality(Tasks({"skip"}))
      BY <1>d, <3>1, StatsAreSet
    <3>3. deals = 0
      BY <1>a, <3>1 DEF BooksBalance
    <3> QED
      BY <3>2, <3>3, TasksAreCounted, ClientAssumption DEF ImportInv, ImportTypeOK
  <2>2. CASE FinishStore
    <3>1. /\ SetStats(Cardinality(Tasks({"offer"})), errors, deals, FALSE)
          /\ turn = "audit" /\ audited = total
      BY <2>2 DEF FinishStore
    <3>2. errors \in Nat /\ Cardinality(Tasks({"offer"})) \in Nat
      BY <1>a, TasksAreCounted DEF ImportTypeOK
    <3>3. /\ stats' \in StatsSet /\ stats'.store = store /\ stats'.discovered = total
          /\ stats'.parsed = Cardinality(Tasks({"offer"})) /\ stats'.deals = deals
          /\ stats'.errors = errors
          /\ stats'.skipped = Cardinality(Tasks({"skip"})) /\ ~stats'.restricted
      BY <1>d, <3>1, <3>2, StatsAreSet
    <3>4. AuditedOffers = Tasks({"offer"})
      BY <3>1 DEF AuditedOffers, Tasks, Started
    <3>5. deals + errors <= Cardinality(Tasks({"offer"}))
      BY <1>a, <3>1, <3>4 DEF BooksBalance
    <3> QED
      BY <3>3, <3>5, TasksAreCounted
  <2> QED
    BY <2>1, <2>2
<1>2. /\ PagesHaveTasks' /\ BooksBalance' /\ turn' = "health"
      /\ total' = 0 /\ audited' = 0 /\ errors' = 0
      /\ task' = [u \in Urls |-> "queued"] /\ attempt' = [u \in Urls |-> 1]
  BY <1>b, <1>c, <1>d, <1>1, LocalsAreGone DEF passVars
<1>3. ClientTypeOK' /\ BudgetIsKept' /\ MakerHoldsLock'
  BY <1>a, <1>b, <1>c, <1>2, ClientAssumption DEF ClientTypeOK, BudgetIsKept, MakerHoldsLock
<1>4. StatsAddUp'
  BY <1>b, <1>1 DEF StatsAddUp
<1>5. ImportTypeOK'
  BY <1>a, <1>b, <1>1, <1>2, <1>3, ClientAssumption DEF ImportTypeOK, Phases, passVars
<1> QED
  BY <1>2, <1>3, <1>4, <1>5 DEF ImportInv

\* The audit accounts for one url more, and for an offer at most once.
LEMMA AuditSteps ==
    ASSUME ImportInv, Gather \/ AuditNext PROVE ImportInv'
<1>a. /\ ImportTypeOK /\ PagesHaveTasks /\ BooksBalance /\ StatsAddUp
      /\ ClientTypeOK /\ BudgetIsKept /\ MakerHoldsLock
  BY DEF ImportInv, ImportTypeOK
<1>b. /\ UNCHANGED <<clientVars, store, total, task, stats, passVars>>
      /\ turn \in {"parse", "audit"} /\ turn' = "audit"
  BY DEF Gather, AuditNext
<1>c. ClientTypeOK' /\ BudgetIsKept' /\ MakerHoldsLock'
  BY <1>b, ClientRests
<1>d. StatsAddUp'
  BY <1>b DEF StatsAddUp
<1>e. IsFiniteSet(AuditedOffers) /\ Cardinality(AuditedOffers) \in Nat
      /\ Cardinality(AuditedOffers) <= audited
  <2>1. IsFiniteSet(1 .. audited) /\ Cardinality(1 .. audited) = audited
    BY <1>a, FS_Interval DEF ImportTypeOK
  <2>2. AuditedOffers \subseteq 1 .. audited
    BY DEF AuditedOffers
  <2> QED
    BY <2>1, <2>2, FS_Subset, FS_CardinalityType
<1>1. CASE Gather
  <2>1. /\ turn = "parse" /\ Tasks({"offer", "nil", "skip"}) = Started
        /\ UNCHANGED <<audited, errors, deals, found>>
    BY <1>1 DEF Gather
  <2>2. \A u \in Urls : ~page[u]
    <3> SUFFICES ASSUME NEW u \in Urls, page[u] PROVE FALSE
      OBVIOUS
    <3>1. u \in Started /\ task[u] \in Running
      BY <1>a DEF PagesHaveTasks
    <3> QED
      BY <2>1, <3>1 DEF Tasks, Running
  <2>3. PagesHaveTasks'
    BY <1>b, <2>2 DEF PagesHaveTasks, clientVars
  <2>4. errors = 0 /\ deals = 0
    BY <1>a, <2>1 DEF BooksBalance
  <2>5. deals' + errors' <= Cardinality(AuditedOffers')
    BY <1>b, <1>e, <2>1, <2>4 DEF AuditedOffers
  <2>6. BooksBalance'
    BY <1>a, <1>b, <2>1, <2>4, <2>5 DEF BooksBalance, passVars
  <2>7. ImportTypeOK'
    BY <1>a, <1>b, <1>c, <2>1 DEF ImportTypeOK, passVars, Phases
  <2> QED
    BY <1>c, <1>d, <2>3, <2>6, <2>7 DEF ImportInv
<1>2. CASE AuditNext
  <2>1. turn = "audit" /\ audited < total /\ audited' = audited + 1
    BY <1>2 DEF AuditNext
  <2>2. audited \in Nat /\ total \in 0 .. MaxUrls /\ audited' \in Urls
    BY <1>a, <2>1, ClientAssumption DEF ImportTypeOK, Urls
  <2>3. Cardinality(AuditedOffers)' = IF task[audited'] = "offer" THEN Cardinality(AuditedOffers) + 1
                                      ELSE Cardinality(AuditedOffers)
    <3>1. CASE task[audited'] = "offer"
      <4>1. AuditedOffers' = AuditedOffers \cup {audited'} /\ audited' \notin AuditedOffers
        BY <1>b, <2>1, <2>2, <3>1 DEF AuditedOffers
      <4>2. Cardinality(AuditedOffers \cup {audited'}) = Cardinality(AuditedOffers) + 1
        BY <1>e, <4>1, FS_AddElement
      <4> QED
        BY <3>1, <4>1, <4>2
    <3>2. CASE task[audited'] # "offer"
      <4>1. AuditedOffers' = AuditedOffers
        BY <1>b, <2>1, <2>2, <3>2 DEF AuditedOffers
      <4> QED
        BY <3>2, <4>1
    <3> QED
      BY <3>1, <3>2
  <2>4. \/ deals' = deals /\ errors' = errors /\ found' = found
        \/ /\ task[audited'] = "offer"
           /\ \/ errors' = errors + 1 /\ deals' = deals /\ found' = found
              \/ deals' = deals + 1 /\ found' = found + 1 /\ errors' = errors
    BY <1>2 DEF AuditNext
  <2>5. deals + errors <= Cardinality(AuditedOffers) /\ found = collected + deals
        /\ deals \in Nat /\ errors \in Nat /\ found \in Nat /\ collected \in Nat
        /\ store <= Stores
    BY <1>a, <2>1 DEF BooksBalance, ImportTypeOK
  <2>6. /\ deals' + errors' <= Cardinality(AuditedOffers)'
        /\ found' = collected + deals'
        /\ deals' \in Nat /\ errors' \in Nat /\ found' \in Nat
    BY <1>e, <2>3, <2>4, <2>5
  <2>7. Cardinality(AuditedOffers)' <= audited' /\ audited' <= total
        /\ Cardinality(AuditedOffers)' \in Nat
    BY <1>e, <2>1, <2>2, <2>3
  <2>8. BooksBalance'
    BY <1>b, <2>5, <2>6, <2>7 DEF BooksBalance, passVars
  <2>9. deals' \in 0 .. MaxUrls /\ audited' \in 0 .. MaxUrls
    BY <2>2, <2>6, <2>7, ClientAssumption DEF Urls
  <2>10. ImportTypeOK'
    BY <1>a, <1>b, <1>c, <2>6, <2>9 DEF ImportTypeOK, passVars, Phases
  <2>11. PagesHaveTasks'
    BY <1>a, <1>b, <2>1 DEF PagesHaveTasks, clientVars
  <2> QED
    BY <1>c, <1>d, <2>8, <2>10, <2>11 DEF ImportInv
<1> QED
  BY <1>1, <1>2

\* The pass goes on to the next store, and the deals it collects are those of
\* the store it leaves; or it ends.
LEMMA EvaluateSteps ==
    ASSUME ImportInv, Evaluate \/ FinishPass PROVE ImportInv'
<1>a. /\ ImportTypeOK /\ PagesHaveTasks /\ BooksBalance
  BY DEF ImportInv
<1>b. /\ UNCHANGED <<clientVars, total, task, audited, errors, found>>
      /\ turn \in {"health", "closing"} /\ turn' \in {"build", "closing", "done"}
  BY DEF Evaluate, FinishPass
<1>c. ClientTypeOK' /\ BudgetIsKept' /\ MakerHoldsLock'
  BY <1>b, ClientRests
<1>d. PagesHaveTasks' /\ StatsAddUp'
  BY <1>a, <1>b DEF PagesHaveTasks, StatsAddUp, clientVars
<1>1. CASE Evaluate
  <2>1. /\ turn = "health" /\ store' = store + 1 /\ deals' = 0 /\ UNCHANGED report
        /\ evaluated' = evaluated \cup {store}
        /\ alerts' = alerts \cup {<<store, i>> : i \in IssuesOf(stats)}
        /\ collected' = IF "IP_RESTRICTED" \in IssuesOf(stats) THEN collected ELSE collected + deals
        /\ stats' = [NoStats EXCEPT !.restricted = stats.restricted]
    BY <1>1 DEF Evaluate
  <2>2. store \in 1 .. Stores /\ stats.restricted \in BOOLEAN
    BY <1>a, <2>1, ImportAssumption DEF ImportTypeOK, BooksBalance, StatsSet
  <2>3. IssuesOf(stats) \subseteq Issues
    BY DEF IssuesOf, Issues
  <2>4. "IP_RESTRICTED" \in IssuesOf(stats) <=> stats.restricted
    BY DEF IssuesOf
  <2>5. deals \in Nat /\ collected \in Nat /\ found = collected + deals
        /\ (stats.restricted => deals = 0)
    BY <1>a, <2>1 DEF ImportTypeOK, BooksBalance
  <2>6. collected' \in Nat /\ found = collected' + 0
    BY <2>1, <2>4, <2>5
  <2>7. BooksBalance'
    BY <1>a, <1>b, <2>1, <2>6 DEF BooksBalance
  <2>8. stats' \in StatsSet
    <3>1. stats' = [store |-> 0, discovered |-> 0, parsed |-> 0, errors |-> 0,
                    deals |-> 0, skipped |-> 0, restricted |-> stats.restricted]
      BY <2>1 DEF NoStats
    <3> QED
      BY <2>2, <3>1, ImportAssumption DEF StatsSet
  <2>9. evaluated' \subseteq 1 .. Stores /\ alerts' \subseteq (1 .. Stores) \X Issues
    BY <1>a, <2>1, <2>2, <2>3 DEF ImportTypeOK
  <2>10. ImportTypeOK'
    <3>1. store' \in 1 .. Stores + 1 /\ deals' \in 0 .. MaxUrls /\ turn' \in Phases
      BY <1>b, <2>1, <2>2, ImportAssumption, ClientAssumption DEF Phases
    <3> QED
      BY <1>a, <1>b, <1>c, <2>1, <2>6, <2>8, <2>9, <3>1 DEF ImportTypeOK
  <2> QED
    BY <1>c, <1>d, <2>7, <2>10 DEF ImportInv
<1>2. CASE FinishPass
  <2>1. /\ turn = "closing" /\ turn' = "done" /\ report' \in {report, "sent", "lost"}
        /\ UNCHANGED <<store, deals, stats, evaluated, alerts, collected>>
    BY <1>2 DEF FinishPass
  <2>2. BooksBalance'
    BY <1>a, <1>b, <2>1 DEF BooksBalance
  <2>3. ImportTypeOK'
    BY <1>a, <1>b, <1>c, <2>1 DEF ImportTypeOK, Phases
  <2> QED
    BY <1>c, <1>d, <2>2, <2>3 DEF ImportInv
<1> QED
  BY <1>1, <1>2

\* Nothing moves.
LEMMA ImportStutters ==
    ASSUME ImportInv, UNCHANGED importVars PROVE ImportInv'
BY ClientRests DEF ImportInv, ImportTypeOK, importVars, passVars, PagesHaveTasks, clientVars,
   BooksBalance, AuditedOffers, StatsAddUp, Started

\* Every step of the pass keeps it.
LEMMA ImportStepLemma ==
    ImportInv /\ [ImportNext]_importVars => ImportInv'
<1> SUFFICES ASSUME ImportInv, [ImportNext]_importVars PROVE ImportInv'
  OBVIOUS
<1>1. CASE BuildAdapter \/ Discover \/ DiscoverNothing
  BY <1>1, DiscoverySteps
<1>2. CASE \E u \in Urls : EnterSemaphore(u) \/ Fetch(u) \/ FetchEnds(u) \/ ParseEnds(u)
  BY <1>2, TaskSteps
<1>3. CASE StopStore \/ FinishStore
  BY <1>3, StoreEnds
<1>4. CASE Gather \/ AuditNext
  BY <1>4, AuditSteps
<1>5. CASE Evaluate \/ FinishPass
  BY <1>5, EvaluateSteps
<1>6. CASE Done \/ UNCHANGED importVars
  BY <1>6, ImportStutters DEF Done
<1> QED
  BY <1>1, <1>2, <1>3, <1>4, <1>5, <1>6 DEF ImportNext

\* The context leaves "ready" on no step: only the holder of the lock makes
\* one, and it holds the lock since it found none.
LEMMA ReadyContextStays ==
    ASSUME ImportInv, [ImportNext]_importVars, context = "ready"
    PROVE  context' = "ready"
<1>1. ASSUME NEW u \in Urls, FetchStep(u) PROVE context' = "ready"
  <2>1. fetch[u] # "create"
    BY DEF ImportInv, MakerHoldsLock
  <2> QED
    BY <1>1, <2>1 DEF FetchStep, LookForContext, LockContext, CreateContext, ApplyRouting, OpenPage,
       LoadClear, LoadBlocked, CountBlocked, FailAndRetry, FailForGood, Resume, shared
<1>2. CASE UNCHANGED context
  BY <1>2
<1>3. CASE \E u \in Urls : Fetch(u)
  BY <1>1, <1>3 DEF Fetch
<1>4. CASE \E u \in Urls : EnterSemaphore(u) \/ FetchEnds(u) \/ ParseEnds(u)
  BY <1>4 DEF EnterSemaphore, FetchEnds, ParseEnds, shared, clientVars
<1>5. CASE BuildAdapter \/ Discover \/ DiscoverNothing \/ StopStore \/ Gather \/ AuditNext
           \/ FinishStore \/ Evaluate \/ FinishPass \/ Done \/ UNCHANGED importVars
  BY <1>5 DEF BuildAdapter, Discover, DiscoverNothing, StopStore, CancelFetches, Gather, AuditNext,
     FinishStore, Evaluate, FinishPass, Done, importVars, clientVars, shared
<1> QED
  BY <1>3, <1>4, <1>5 DEF ImportNext

\* However the fetches of a pass interleave, fail, are retried or cancelled,
\* they are granted no more retries than the budget, and the browser context
\* is not replaced (RetryBudget.consume, PlaywrightClient.get_context).
THEOREM ClientStaysSound == ImportSpec => ClientIsSound
<1>1. ImportInv => BudgetHolds
  BY ClientAssumption DEF ImportInv, ImportTypeOK, ClientTypeOK, BudgetIsKept, BudgetHolds
<1>2. ImportInv /\ [ImportNext]_importVars => [context = "ready" => context' = "ready"]_clientVars
  BY ReadyContextStays
<1> QED
  BY ImportInitLemma, ImportStepLemma, <1>1, <1>2, PTL DEF ImportSpec, ClientIsSound, ContextIsKept

\* The pass leaves no page open, reports every deal it has stored unless the
\* artifact itself is lost, and hands the health check numbers that add up
\* (cli._run_legacy_import, MonitoringPipeline.run_store).
THEOREM PassStaysSound == ImportSpec => [](ImportTypeOK /\ PassIsSound)
<1>1. ImportInv => ImportTypeOK /\ PassIsSound
  <2> SUFFICES ASSUME ImportInv PROVE PassIsSound
    BY DEF ImportInv
  <2>1. PagesAreClosed
    BY DEF ImportInv, PagesHaveTasks, PagesAreClosed
  <2>2. ReportTellsAll
    BY DEF ImportInv, ImportTypeOK, BooksBalance, ReportTellsAll
  <2> QED
    BY <2>1, <2>2 DEF ImportInv, PassIsSound
<1> QED
  BY ImportInitLemma, ImportStepLemma, <1>1, PTL DEF ImportSpec

-------------------------------------------------------------------------------
(* The programs side by side.                                                *)

\* Each lane is the specification of its module, which rests while another
\* lane has the steps.
LEMMA SchedulesAreTheirParts ==
    LaneSpec => DueSpec /\ HouseSpec /\ BudgetSpec /\ ImportSpec /\ SwitchSpec
<1>1. LaneInit => DueInit /\ HouseInit /\ BudgetInit /\ ImportInit /\ SwitchInit
  BY DEF LaneInit
<1>2. ASSUME [LaneNext]_all
      PROVE  /\ [DueNext]_dueVars /\ [HouseNext]_houseVars /\ [BudgetNext]_budgetVars
             /\ [ImportNext]_importVars /\ [SwitchNext]_switchVars
  <2>1. CASE DueLane(DueNext)
    BY <2>1 DEF DueLane
  <2>2. CASE MaintenanceLane(HouseNext)
    BY <2>2 DEF MaintenanceLane
  <2>3. CASE BudgetLane(BudgetNext \/ Stopped)
    BY <2>3 DEF BudgetLane, Stopped
  <2>4. CASE CrawlLane(ImportNext)
    BY <2>4 DEF CrawlLane
  <2>5. CASE SwitchLane(SwitchNext)
    BY <2>5 DEF SwitchLane
  <2>6. CASE UNCHANGED all
    BY <2>6 DEF all
  <2> QED
    BY <1>2, <2>1, <2>2, <2>3, <2>4, <2>5, <2>6 DEF LaneNext
<1> QED
  BY <1>1, <1>2, PTL DEF LaneSpec, DueSpec, HouseSpec, BudgetSpec, ImportSpec, SwitchSpec

\* SchedulesTyped, for any number of items, cleaners, tasks, processes, stores
\* and urls: the programs that run on their own keep every type together.
THEOREM SchedulesStayTyped == LaneSpec => []SchedulesTyped
<1>1. DueTypeOK /\ HouseTypeOK /\ BudgetTypeOK /\ ImportTypeOK /\ SwitchTypeOK => SchedulesTyped
  BY DEF SchedulesTyped
<1> QED
  BY <1>1, SchedulesAreTheirParts, DueStaysUntilRun, PassesStaySafe, BudgetStaysTold,
     PassStaysSound, SwitchTypeCorrect, PTL
===============================================================================
