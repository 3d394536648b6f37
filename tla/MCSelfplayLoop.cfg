SPECIFICATION MCSpec
CONSTANTS
    None = None
    Torn = Torn
    ShardSize = 2
    BasePlans <- MCBasePlans
    ChunkSize = 1
    MaxAttempts = 2
    Iterations = 2
    Patience = 2
    Epochs = 2
    BatchSize = 2
    Workers = 2
    SelfPlans <- MCSelfPlans
    Metrics <- MCMetrics
    ScreenMargin = 0
    LargeLossEps = 0
    PositiveEps = 0
    MayStream = {TRUE, FALSE}
    MaxLaunches = 2
    Methods <- MCMethods
    TrainerArgs <- MCTrainerArgs
    MaxEpoch = 3
    StepsPerEpoch = 3
    SyncEvery = 2
    Losses = {1, 2, 3}
    Episodes <- MCEpisodes
    Split <- MCSplit
    MaxStarts = 3
INVARIANTS  TrainedOnData BestJustified SelectionSound CheckpointsSound
