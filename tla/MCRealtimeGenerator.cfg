SPECIFICATION FairSpec
CONSTANTS
    GENERATOR_ENABLED = TRUE
    SampleSize = 2
    GENERATOR_FLUSH_SIZE = 4
    AdminRequests = {a1, a2}
    MaxPoints = 6
INVARIANTS
    TypeOK
    EachPointInOnePlace
    StatusIsHonest
    BufferBounded
    StoppedIsDrained
PROPERTIES
    HeldPointSettles
    ShutdownEnds
    ImplementsPipeline
