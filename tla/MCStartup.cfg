SPECIFICATION Spec
CONSTANTS
    PortTries = 2
    ConnectTries = 2
    MaxFailures = 3
INVARIANTS
    TypeOK
    ServesWholeSchema
PROPERTIES
    SeedIsWhole
    StartsUp
