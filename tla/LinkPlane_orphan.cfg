CONSTANTS
    Remotes <- MCRemotes
    Plans <- MCPlans
    RadioDelays <- MCDelays
    RadioPlans <- MCRadioPlans
    MixPlans <- MCMixPlans
    IngressPlans <- MCIngressPlans
    OwnerPlans <- MCOwnerPlans
    Age = 3
    Packet = 2
    EgressPlans <- MCEgressPlans
INIT LinksInit
NEXT MCNext
INVARIANT NoOrphanPeer
CHECK_DEADLOCK FALSE
