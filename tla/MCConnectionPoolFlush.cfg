SPECIFICATION FairSpec
CONSTANTS
    Requests = {r1}
    Sockets = {w1, w2}
    Capacity = 2
PROPERTY
    FlushKeepsWriting
