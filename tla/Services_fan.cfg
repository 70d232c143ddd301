INIT PolicyInit
NEXT MCNext
CONSTANTS
  Plans <- SafetyPlans
  MaxKey = 3
  MediaPlans <- MCMediaPlans
  TextPlans <- MCTextPlans
  OriginMax = 2
  NodeMax = 3
  TextSamples = 1
  ChildPlans <- MCChildPlans
  SitePlans <- MCSitePlans
  DeviceKeys = {"d", "e"}
  BankPlans <- MCBankPlans
  Pins = {"p", "q"}
  PolicyPlans <- MCPolicyPlans
  MaxClock = 4
INVARIANT DemandDelivered
CHECK_DEADLOCK FALSE
