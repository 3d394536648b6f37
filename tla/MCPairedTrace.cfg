SPECIFICATION MCBranchSpec
CONSTANTS
    None = None
    LossThreshold = 0
    Torn = Torn
    Builds <- MCBuilds
    Checkpoints <- MCCheckpoints
    View <- MCView
    Logits <- MCLogits
    Family <- MCFamily
    Scalars <- MCScalars
    Rollout <- MCRollout
    TraceRequests <- MCTraceRequests
    RowRequests <- MCRowRequests
    BranchRequests <- MCBranchRequests
    MaxEvents = 3
INVARIANTS PairRewardIsMatchReward
CHECK_DEADLOCK FALSE
