SPECIFICATION MCSpec
CONSTANTS
  Addr = {a1, a2}
  Null = Null
  MaxGen = 3
  MaxWork = 1
  Attempts = 2
  Paired = TRUE
INVARIANTS TypeOK NoUseAfterFree ExclusiveTransfer WorkRetainsStorage NothingLeaks
PROPERTIES AdoptionNeverRegresses ImplementsCell
SYMMETRY AddrSymmetry
CHECK_DEADLOCK FALSE
