SPECIFICATION BudgetSpec
CONSTANTS
  temp = temp
  frames = frames
  database = database
  external = external
  Item = {temp, frames, database, external}
  Order <- MCOrder
  Size = {0, 1, 3}
  Rest = {0, 2, 6}
  Expired = {0, 2}
  Budget = 4
CHECK_DEADLOCK FALSE
INVARIANTS
  BudgetEnforced
