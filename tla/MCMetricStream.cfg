SPECIFICATION Spec
CONSTANTS
    MaxPairs = 3
    MaxStreams = 2
INVARIANTS
    TypeOK
    RetryIsSound
    StreamOfThisLogin
PROPERTY
    StoppedStreamEnds
