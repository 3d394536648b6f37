SPECIFICATION Spec
CONSTANTS
    Contents <- MCContents
    Model <- MCModel
    Paths = {"p", "q"}
    Manifest <- MCManifest
    EnvPath = None
    None = None
    Disks <- MCDisks
    Launches <- MCLaunches
    Casts <- MCCasts
    Asks <- MCAsks
    Chunks = 2
    Decisions = 2
    Writes = 1
INVARIANTS Attested ReviewsAreWhole ParityMeansSame WarmupIsInvisible
PROPERTY SwapsAreGuarded
