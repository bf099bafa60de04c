SPECIFICATION HouseSpec
CONSTANTS
  old1 = old1
  old2 = old2
  new1 = new1
  new2 = new2
  t1 = t1
  t2 = t2
  Cleaner = {worker, cli}
  Run = {old1, old2, new1, new2}
  OldRun = {old1, old2}
  Task = {t1, t2}
  TaskOf <- MCTaskOf
  NoCleaner = NoCleaner
INVARIANTS
  FreshEvidenceKept
