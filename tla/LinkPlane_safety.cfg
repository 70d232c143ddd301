CONSTANTS
    Remotes <- MCRemotes
    Plans <- MCPlans
    RadioDelays <- MCDelays
    RadioPlans <- MCRadioPlans
    MixPlans <- MCMixPlans
    IngressPlans <- MCIngressPlans
    OwnerPlans <- MCOwnerPlans
    Age = 3
    Packet = 2
    EgressPlans <- MCEgressPlans
INIT MCInit
NEXT MCNext
INVARIANT LinksLoopFree
PROPERTY LinksIntent
PROPERTY VoidDials
INVARIANT BurstsSeparate
PROPERTY MixerBursts
INVARIANT IngressOrder
INVARIANT PeersOutliveCalls
INVARIANT PacketsTellSourceTime
CHECK_DEADLOCK FALSE
