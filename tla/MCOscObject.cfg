CONSTANTS
    Objects = {o1, o2, o3}
    Receiver = rcv
    NULL = NULL
    MaxAttached = 2
    MaxDepth = 4
    Meddlers = {}
SPECIFICATION Spec
SYMMETRY Symmetry
INVARIANTS TypeOK StackIsPath EachInTurn OfferedInOrder OverflowNeedsCycle
CHECK_DEADLOCK FALSE
