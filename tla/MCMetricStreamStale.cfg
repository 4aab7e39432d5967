SPECIFICATION Spec
CONSTANTS
    MaxPairs = 3
    MaxStreams = 2
PROPERTY
    ReconnectsWithLatest
