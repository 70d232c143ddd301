SPECIFICATION MCSpec
CONSTANTS
  Plans <- LivePlans
  MaxKey = 1
  N = 2
  Settings = {1, 2}
  MaxReloads = 2
INVARIANTS CallbacksMatchDevice ReloadAtomic
PROPERTIES ReloadsEnd ReservationsSettle
CHECK_DEADLOCK FALSE
