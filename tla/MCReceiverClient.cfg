CONSTANTS
    Servers = {s1, s2}
    Ports = {p1}
    Objects = {o1}
    Datagrams = {d1, d2}
    User = user
    NULL = NULL
    MaxAttached = 2
    StartMayFail = TRUE
    ErrorsHappen = TRUE
SPECIFICATION FairCSpec
INVARIANT NeverUndefined
PROPERTIES StopReturns QueuedIsDispatched
CHECK_DEADLOCK FALSE
