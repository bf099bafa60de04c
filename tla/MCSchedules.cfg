SPECIFICATION LaneSpec
CONSTANTS
  DueTask = {t1, t2}
  Group = {g1, g2}
  NoRunner = NoRunner
  Disruptions = 2
  old1 = old1
  old2 = old2
  new1 = new1
  new2 = new2
  t1 = t1
  t2 = t2
  Cleaner = {worker, cli}
  Run = {old1, old2, new1, new2}
  OldRun = {old1, old2}
  Task = {t1, t2}
  TaskOf <- MCTaskOf
  NoCleaner = NoCleaner
  temp = temp
  frames = frames
  database = database
  external = external
  Item = {temp, frames, database, external}
  Order <- MCOrder
  Size = {0, 1, 3}
  Rest = {0, 2, 6}
  Expired = {0, 2}
  Budget = 4
  MaxUrls = 2
  RetryAttempts = 2
  BudgetSize = 1
  StreakLimit = 2
  Stores = 2
  MaxConcurrency = 2
  Processes = {worker, api}
  Operators = {o1}
INVARIANTS
  SchedulesTyped
  PassIsSound
PROPERTIES
  DueMonitorsRun
  PassesAreSafe
  EveryPassEnds
  
  ClientIsSound
  SwitchesAreSafe
