CONSTANTS
    Objects = {o1, o2}
    Receiver = rcv
    NULL = NULL
    MaxAttached = 2
    MaxDepth = 3
    Meddlers = {o1, o2, rcv}
SPECIFICATION FairSpec
INVARIANTS StackIsPath TakerMayChange
PROPERTY DispatchEnds
CHECK_DEADLOCK FALSE
