SPECIFICATION Spec
CONSTANTS
  Plans <- ReloadPlans
  MaxKey = 2
INVARIANT OperationOnce
