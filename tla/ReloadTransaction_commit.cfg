SPECIFICATION ReloadSpec
CONSTANTS
  N = 2
  Settings = {1, 2}
  MaxReloads = 2
INVARIANT MixedStateNever
CHECK_DEADLOCK FALSE
