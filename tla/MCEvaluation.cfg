SPECIFICATION MCSpec
CONSTANTS
    None = None
    Unreadable = Unreadable
    L1 = L1
    L2 = L2
    LossThreshold <- MCLossThreshold
    Play <- MCPlay
    Requests <- MCRequests
    Flags <- MCFlags
    Libraries = {L1, L2}
    Rebuilds = 1
    Benchmarks <- MCBenchmarks
    MayBreak = TRUE
    Torn = Torn
    Builds <- MCBuilds
    Checkpoints <- MCCheckpoints
    View <- MCView
    Logits <- MCLogits
    Family <- MCFamily
    Scalars <- MCScalars
    Rollout <- MCRollout
    TraceRequests <- MCTraceRequests
    RowRequests <- MCRowRequests
    BranchRequests <- MCBranchRequests
    MaxEvents = 3
INVARIANTS VerdictPaired BenchmarkWhole SupervisionExact
CHECK_DEADLOCK FALSE
