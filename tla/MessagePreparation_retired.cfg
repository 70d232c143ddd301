SPECIFICATION InterruptedSpec
CONSTANTS
  r1 = r1
  o1 = o1
  Recurring = {r1}
  OneShot = {o1}
  Recipes = 1
  MaxSequence = 2
INVARIANT RetirementHasRoom
CHECK_DEADLOCK FALSE
