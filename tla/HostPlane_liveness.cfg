SPECIFICATION MCSpec
CONSTANTS
  r1 = r1
  r2 = r2
  Recurring = {r1, r2}
  OneShot = {}
  Recipes = 1
  MaxSequence = 2
  Addr = {a1, a2}
  Null = Null
  MaxGen = 2
  MaxWork = 0
  Attempts = 1
  Paired = FALSE
PROPERTIES RequestsAnswered ReclaimCompletes
CHECK_DEADLOCK FALSE
